--------------------------- MODULE JobQueueProofs ---------------------------
(***************************************************************************)
(* Proofs about JobQueue for every set of jobs, every limit and any number *)
(* of restarts and lost writes.                                            *)
(***************************************************************************)
EXTENDS JobQueue, TLAPS, FiniteSetTheorems, SequenceTheorems

USE DEF Status, NoRow, NoJob, Owned, Settled, Stage

-----------------------------------------------------------------------------
(* Sequences                                                               *)

\* Appending adds exactly the element; a new element keeps entries distinct.
LEMMA AppendFacts ==
    ASSUME NEW S, NEW s \in Seq(S), NEW e \in S
    PROVE  /\ Append(s, e) \in Seq(S)
           /\ \A x : x \in Range(Append(s, e)) <=> x \in Range(s) \/ x = e
           /\ IsInjective(s) /\ e \notin Range(s) => IsInjective(Append(s, e))
  <1> DEFINE t == Append(s, e)
  <1>1. /\ t \in Seq(S)
        /\ Len(t) = Len(s) + 1
        /\ \A i \in 1..Len(s) : t[i] = s[i]
        /\ t[Len(s) + 1] = e
    OBVIOUS
  <1> HIDE DEF t
  <1>2. DOMAIN t = 1..(Len(s) + 1) /\ DOMAIN s = 1..Len(s) /\ Len(s) \in Nat
    BY <1>1
  <1>3. ASSUME NEW x PROVE x \in Range(t) <=> x \in Range(s) \/ x = e
    BY <1>1, <1>2 DEF Range
  <1>4. ASSUME IsInjective(s), e \notin Range(s) PROVE IsInjective(t)
    BY <1>1, <1>2, <1>4 DEF Range, IsInjective
  <1> QED
    BY <1>1, <1>3, <1>4 DEF t

\* Taking the head of a queue without repetitions removes exactly that element.
LEMMA TailFacts ==
    ASSUME NEW S, NEW s \in Seq(S), s # <<>>, IsInjective(s)
    PROVE  /\ Head(s) \in S /\ Head(s) \in Range(s)
           /\ Tail(s) \in Seq(S)
           /\ \A x : x \in Range(Tail(s)) <=> x \in Range(s) /\ x # Head(s)
           /\ IsInjective(Tail(s))
  <1> DEFINE t == Tail(s)
             h == Head(s)
  <1>1. /\ t \in Seq(S) /\ h \in S
        /\ Len(s) \in Nat \ {0} /\ Len(t) = Len(s) - 1
        /\ h = s[1]
        /\ \A i \in 1..(Len(s) - 1) : t[i] = s[i + 1]
    OBVIOUS
  <1> HIDE DEF t, h
  <1>2. DOMAIN t = 1..(Len(s) - 1) /\ DOMAIN s = 1..Len(s)
    BY <1>1
  <1>3. h \in Range(s)
    BY <1>1, <1>2 DEF Range
  <1>4. ASSUME NEW x PROVE x \in Range(t) <=> x \in Range(s) /\ x # h
    <2>1. ASSUME NEW i \in DOMAIN t, x = t[i] PROVE x \in Range(s) /\ x # h
      <3>1. i + 1 \in DOMAIN s /\ 1 \in DOMAIN s /\ i + 1 # 1 /\ x = s[i + 1]
        BY <1>1, <1>2, <2>1
      <3>2. s[i + 1] # s[1]
        BY <3>1 DEF IsInjective
      <3> QED
        BY <1>1, <3>1, <3>2 DEF Range
    <2>2. ASSUME NEW i \in DOMAIN s, x = s[i], x # h PROVE x \in Range(t)
      <3>1. i # 1
        BY <1>1, <2>2
      <3>2. i - 1 \in 1..(Len(s) - 1) /\ (i - 1) + 1 = i
        BY <1>1, <1>2, <3>1
      <3>3. i - 1 \in DOMAIN t /\ t[i - 1] = x
        BY <1>1, <1>2, <2>2, <3>2
      <3> QED
        BY <3>3 DEF Range
    <2> QED
      BY <2>1, <2>2 DEF Range
  <1>5. ASSUME NEW i \in DOMAIN t, NEW k \in DOMAIN t, t[i] = t[k] PROVE i = k
    <2>1. i + 1 \in DOMAIN s /\ k + 1 \in DOMAIN s /\ s[i + 1] = s[k + 1]
      BY <1>1, <1>2, <1>5
    <2>2. i + 1 = k + 1
      BY <2>1 DEF IsInjective
    <2> QED
      BY <1>1, <1>2, <2>2
  <1>6. IsInjective(t)
    BY <1>5 DEF IsInjective
  <1> QED
    BY <1>1, <1>3, <1>4, <1>6 DEF t, h

\* The two parts of a concatenation.
LEMMA ConcatFacts ==
    ASSUME NEW S, NEW a \in Seq(S), NEW b \in Seq(S)
    PROVE  /\ a \o b \in Seq(S) /\ Len(a \o b) = Len(a) + Len(b)
           /\ \A i \in 1..Len(a) : (a \o b)[i] = a[i]
           /\ \A i \in 1..Len(b) : (a \o b)[Len(a) + i] = b[i]
  OBVIOUS

\* Removing one entry of a queue without repetitions removes exactly that element.
LEMMA RemoveAtFacts ==
    ASSUME NEW S, NEW s \in Seq(S), NEW n \in DOMAIN s, IsInjective(s)
    PROVE  /\ RemoveAt(s, n) \in Seq(S)
           /\ \A x : x \in Range(RemoveAt(s, n)) <=> x \in Range(s) /\ x # s[n]
           /\ IsInjective(RemoveAt(s, n))
           /\ s # <<>>
  <1> DEFINE t == RemoveAt(s, n)
  <1> DEFINE skip(i) == IF i < n THEN i ELSE i + 1
  <1>1. /\ t \in Seq(S) /\ Len(t) = Len(s) - 1
        /\ \A i \in 1..(Len(s) - 1) : t[i] = s[skip(i)]
    <2>1. Len(s) \in Nat /\ n \in 1..Len(s)
      OBVIOUS
    <2> DEFINE a == SubSeq(s, 1, n - 1)
               b == SubSeq(s, n + 1, Len(s))
    <2>2. a \in Seq(S) /\ Len(a) = n - 1 /\ \A i \in 1..(n - 1) : a[i] = s[i]
      BY <2>1
    <2>3. b \in Seq(S) /\ Len(b) = Len(s) - n /\ \A i \in 1..(Len(s) - n) : b[i] = s[n + i]
      BY <2>1
    <2>4. t = a \o b
      BY DEF RemoveAt
    <2> HIDE DEF a, b, t
    <2>5. /\ t \in Seq(S) /\ Len(t) = Len(a) + Len(b)
          /\ \A i \in 1..Len(a) : t[i] = a[i]
          /\ \A i \in 1..Len(b) : t[Len(a) + i] = b[i]
      <3>1. a \in Seq(S) /\ b \in Seq(S)
        BY <2>2, <2>3
      <3>2. /\ a \o b \in Seq(S) /\ Len(a \o b) = Len(a) + Len(b)
            /\ \A i \in 1..Len(a) : (a \o b)[i] = a[i]
            /\ \A i \in 1..Len(b) : (a \o b)[Len(a) + i] = b[i]
        BY <3>1, ConcatFacts
      <3> QED
        BY <3>2, <2>4
    <2>6. ASSUME NEW i \in 1..(Len(s) - 1) PROVE t[i] = s[skip(i)]
      <3>1. CASE i < n
        <4>1. i \in 1..(n - 1)
          BY <2>1, <3>1
        <4>2. t[i] = s[i]
          BY <4>1, <2>2, <2>5
        <4> QED
          BY <4>2, <3>1
      <3>2. CASE i >= n
        <4> DEFINE k == i - (n - 1)
        <4>1. k \in 1..(Len(s) - n) /\ n + k = i + 1 /\ (n - 1) + k = i
          BY <2>1, <3>2
        <4> HIDE DEF k
        <4>2. k \in 1..Len(b) /\ Len(a) + k = i /\ b[k] = s[i + 1]
          BY <2>2, <2>3, <4>1
        <4>3. t[i] = s[i + 1]
          BY <2>5, <4>2
        <4> QED
          BY <2>1, <3>2, <4>3
      <3> QED
        BY <2>1, <3>1, <3>2
    <2>7. Len(t) = Len(s) - 1
      BY <2>1, <2>2, <2>3, <2>5
    <2> QED
      BY <2>5, <2>6, <2>7
  <1> HIDE DEF t
  <1>2. /\ Len(s) \in Nat /\ n \in 1..Len(s)
        /\ DOMAIN t = 1..(Len(s) - 1) /\ DOMAIN s = 1..Len(s)
    BY <1>1
  <1>3. /\ \A i \in DOMAIN t : skip(i) \in DOMAIN s \ {n}
        /\ \A i, k \in DOMAIN t : skip(i) = skip(k) => i = k
        /\ \A k \in DOMAIN s \ {n} : \E i \in DOMAIN t : skip(i) = k
    <2>1. ASSUME NEW k \in DOMAIN s \ {n} PROVE \E i \in DOMAIN t : skip(i) = k
      <3>1. CASE k < n
        <4>1. k \in DOMAIN t /\ skip(k) = k
          BY <1>2, <3>1
        <4> QED
          BY <4>1
      <3>2. CASE k > n
        <4>1. k - 1 \in DOMAIN t /\ skip(k - 1) = k
          BY <1>2, <3>2
        <4> QED
          BY <4>1
      <3> QED
        BY <1>2, <3>1, <3>2
    <2> QED
      BY <1>2, <2>1
  <1>4. \A i \in DOMAIN t : t[i] = s[skip(i)]
    BY <1>1, <1>2
  <1> HIDE DEF skip
  <1>5. ASSUME NEW x PROVE x \in Range(t) <=> x \in Range(s) /\ x # s[n]
    BY <1>2, <1>3, <1>4 DEF Range, IsInjective
  <1>6. IsInjective(t)
    BY <1>3, <1>4 DEF IsInjective
  <1> QED
    BY <1>1, <1>2, <1>5, <1>6 DEF t

-----------------------------------------------------------------------------
(* Type correctness                                                        *)

\* NewQueue's limit is a positive number.
LEMMA LimitPositive == MaxConcurrent \in Nat \ {0}
  BY ConfiguredAssumption DEF MaxConcurrent

\* A write, kept or lost, leaves the table and its history in their types.
LEMMA UpdateType ==
    ASSUME TypeOK, NEW j \in Jobs, NEW status \in Status \cup {NoRow}, Update(j, status)
    PROVE  row' \in [Jobs -> Status \cup {NoRow}] /\ unsaved' \subseteq Jobs
  BY DEF TypeOK, Update, Saves, LosesWrite

\* The types hold at the start.
LEMMA TypeInit == Init => TypeOK
  <1> SUFFICES ASSUME Init PROVE TypeOK
    OBVIOUS
  <1>1. /\ row \in [Jobs -> Status \cup {NoRow}] /\ stage \in [Jobs -> Stage]
        /\ result \in [Jobs -> Status \cup {NoRow}]
    BY DEF Init
  <1>2. fallback \in [Cancellers -> {Idle} \cup [pc : {"read", "write"}, job : Jobs]]
    BY DEF Init
  <1>3. pending \in Seq(Jobs)
    BY DEF Init
  <1> QED
    BY <1>1, <1>2, <1>3 DEF Init, TypeOK

\* Every step keeps the types.
LEMMA TypeNext == TypeOK /\ [Next]_vars => TypeOK'
  <1> SUFFICES ASSUME TypeOK, [Next]_vars PROVE TypeOK'
    OBVIOUS
  <1> USE DEF TypeOK, Goto, store, client, process
  <1>1. ASSUME NEW j \in Jobs, EnqueueInsert(j) PROVE TypeOK'
    BY <1>1, UpdateType DEF EnqueueInsert, Saves
  <1>2. ASSUME NEW j \in Jobs, EnqueueAppend(j) PROVE TypeOK'
    BY <1>2 DEF EnqueueAppend
  <1>3. ASSUME NEW j \in Jobs, EnqueueWake(j) PROVE TypeOK'
    BY <1>3 DEF EnqueueWake
  <1>4. ASSUME NEW j \in Jobs, MarkStarted(j) PROVE TypeOK'
    BY <1>4, UpdateType DEF MarkStarted
  <1>5. ASSUME NEW j \in Jobs, OpenSink(j) PROVE TypeOK'
    BY <1>5 DEF OpenSink
  <1>6. ASSUME NEW j \in Jobs, RunReturns(j) PROVE TypeOK'
    BY <1>6 DEF RunReturns, Outcome
  <1>7. ASSUME NEW j \in Jobs, MarkTerminal(j) PROVE TypeOK'
    BY <1>7, UpdateType DEF MarkTerminal
  <1>8. ASSUME NEW j \in Jobs, Unregister(j) PROVE TypeOK'
    BY <1>8 DEF Unregister
  <1>9. ASSUME NEW j \in Jobs, CloseDone(j) PROVE TypeOK'
    BY <1>9 DEF CloseDone
  <1>10. ASSUME NEW j \in Jobs, FinalWake(j) PROVE TypeOK'
    BY <1>10 DEF FinalWake
  <1>11. ASSUME NEW j \in Jobs, CancelRunning(j) PROVE TypeOK'
    BY <1>11 DEF CancelRunning
  <1>12. ASSUME NEW j \in Jobs, CancelMark(j) PROVE TypeOK'
    BY <1>12, UpdateType DEF CancelMark
  <1>13. ASSUME NEW j \in Jobs, CancelClose(j) PROVE TypeOK'
    BY <1>13 DEF CancelClose
  <1>14. ASSUME NEW j \in Jobs, DispatchLaunch(j) PROVE TypeOK'
    BY <1>14 DEF DispatchLaunch
  <1>15. ASSUME NEW i \in 1..Len(pending), CancelPending(i) PROVE TypeOK'
    <2>1. RemoveAt(pending, i) \in Seq(Jobs)
      BY DEF RemoveAt
    <2> QED
      BY <1>15, <2>1 DEF CancelPending
  <1>16. ASSUME NEW c \in Cancellers, NEW j \in Jobs, FallbackMiss(c, j) PROVE TypeOK'
    BY <1>16 DEF FallbackMiss
  <1>17. ASSUME NEW c \in Cancellers, FallbackRead(c) PROVE TypeOK'
    <2>1. fallback[c] \in [pc : {"read", "write"}, job : Jobs]
      BY <1>17 DEF FallbackRead, Idle
    <2>2. [fallback[c] EXCEPT !.pc = "write"] \in [pc : {"read", "write"}, job : Jobs]
      BY <2>1
    <2> QED
      BY <1>17, <2>1, <2>2 DEF FallbackRead
  <1>18. ASSUME NEW c \in Cancellers, FallbackWrite(c) PROVE TypeOK'
    <2>1. fallback[c].job \in Jobs
      BY <1>18 DEF FallbackWrite, Idle
    <2> QED
      BY <1>18, <2>1, UpdateType DEF FallbackWrite
  <1>19. CASE DispatchWake
    BY <1>19 DEF DispatchWake
  <1>20. CASE DispatchStop
    BY <1>20 DEF DispatchStop
  <1>21. CASE DispatchBreak
    BY <1>21 DEF DispatchBreak
  <1>22. CASE DispatchClaim
    BY <1>22 DEF DispatchClaim, CanClaim
  <1>23. CASE CloseBegin
    BY <1>23 DEF CloseBegin
  <1>24. CASE CloseReturn
    BY <1>24 DEF CloseReturn
  <1>25. CASE CloseDB
    BY <1>25 DEF CloseDB
  <1>26. CASE Restart
    <2>1. /\ row' \in [Jobs -> Status \cup {NoRow}] /\ stage' \in [Jobs -> Stage]
          /\ result' \in [Jobs -> Status \cup {NoRow}]
      BY <1>26 DEF Restart, Reconciled
    <2>2. fallback' \in [Cancellers -> {Idle} \cup [pc : {"read", "write"}, job : Jobs]]
      BY <1>26 DEF Restart
    <2>3. pending' \in Seq(Jobs)
      BY <1>26 DEF Restart
    <2>4. /\ unsaved' \subseteq Jobs /\ running' = {} /\ sinks' = {}
          /\ cancelled' = {} /\ done' = {} /\ wakeDue' = {}
          /\ wakeCh' = FALSE /\ disp' = "select" /\ restarts' \in Nat
          /\ rootDone' = FALSE /\ closed' = FALSE /\ dbOpen' = TRUE
      BY <1>26 DEF Restart
    <2> QED
      BY <2>1, <2>2, <2>3, <2>4
  <1>27. CASE UNCHANGED vars
    BY <1>27 DEF vars
  <1> QED
    BY <1>1, <1>2, <1>3, <1>4, <1>5, <1>6, <1>7, <1>8, <1>9, <1>10, <1>11, <1>12, <1>13, <1>14, <1>15, <1>16, <1>17, <1>18, <1>19, <1>20, <1>21, <1>22, <1>23, <1>24, <1>25, <1>26, <1>27
       DEF Next, Enqueue, Dispatch, Execute, Cancel, Fallback, Close

\* The queue's state is what its types say in every reachable state.
THEOREM TypeCorrect == Spec => []TypeOK
  BY TypeInit, TypeNext, PTL DEF Spec

-----------------------------------------------------------------------------
(* One owner per job                                                       *)

\* No job, no owner.
LEMMA OwnerInit == Init => OneOwner
  <1> SUFFICES ASSUME Init PROVE OneOwner
    OBVIOUS
  <1>1. Range(pending) = {} /\ IsInjective(pending)
    BY DEF Init, Range, IsInjective
  <1> QED
    BY <1>1 DEF Init, OneOwner

\* Every step hands a job on together with its stage.
LEMMA OwnerNext == TypeOK /\ OneOwner /\ [Next]_vars => OneOwner'
  <1> SUFFICES ASSUME TypeOK, OneOwner, [Next]_vars PROVE OneOwner'
    OBVIOUS
  <1> USE DEF OneOwner, TypeOK, Goto, store, client, process
  <1>1. ASSUME NEW j \in Jobs, EnqueueInsert(j) PROVE OneOwner'
    BY <1>1 DEF EnqueueInsert
  <1>2. ASSUME NEW j \in Jobs, EnqueueWake(j) PROVE OneOwner'
    BY <1>2 DEF EnqueueWake
  <1>3. ASSUME NEW j \in Jobs, MarkStarted(j) PROVE OneOwner'
    BY <1>3 DEF MarkStarted
  <1>4. ASSUME NEW j \in Jobs, OpenSink(j) PROVE OneOwner'
    BY <1>4 DEF OpenSink
  <1>5. ASSUME NEW j \in Jobs, RunReturns(j) PROVE OneOwner'
    BY <1>5 DEF RunReturns
  <1>6. ASSUME NEW j \in Jobs, MarkTerminal(j) PROVE OneOwner'
    BY <1>6 DEF MarkTerminal
  <1>7. ASSUME NEW j \in Jobs, Unregister(j) PROVE OneOwner'
    BY <1>7 DEF Unregister
  <1>8. ASSUME NEW j \in Jobs, CloseDone(j) PROVE OneOwner'
    BY <1>8 DEF CloseDone
  <1>9. ASSUME NEW j \in Jobs, FinalWake(j) PROVE OneOwner'
    BY <1>9 DEF FinalWake
  <1>10. ASSUME NEW j \in Jobs, CancelRunning(j) PROVE OneOwner'
    BY <1>10 DEF CancelRunning
  <1>11. ASSUME NEW j \in Jobs, CancelMark(j) PROVE OneOwner'
    BY <1>11 DEF CancelMark
  <1>12. ASSUME NEW j \in Jobs, CancelClose(j) PROVE OneOwner'
    BY <1>12 DEF CancelClose
  <1>13. ASSUME NEW j \in Jobs, DispatchLaunch(j) PROVE OneOwner'
    BY <1>13 DEF DispatchLaunch
  <1>14. ASSUME NEW j \in Jobs, EnqueueAppend(j) PROVE OneOwner'
    <2>1. /\ IsInjective(Append(pending, j))
          /\ \A x : x \in Range(Append(pending, j)) <=> x \in Range(pending) \/ x = j
      BY <1>14, AppendFacts DEF EnqueueAppend
    <2> QED
      BY <1>14, <2>1 DEF EnqueueAppend
  <1>15. ASSUME NEW i \in 1..Len(pending), CancelPending(i) PROVE OneOwner'
    <2>1. i \in DOMAIN pending /\ pending[i] \in Range(pending) /\ pending[i] \in Jobs
      BY DEF Range
    <2>2. /\ IsInjective(RemoveAt(pending, i))
          /\ \A x : x \in Range(RemoveAt(pending, i)) <=> x \in Range(pending) /\ x # pending[i]
      BY <2>1, RemoveAtFacts
    <2> QED
      BY <1>15, <2>1, <2>2 DEF CancelPending
  <1>16. CASE DispatchClaim
    <2>1. /\ Head(pending) \in Jobs /\ Head(pending) \in Range(pending)
          /\ IsInjective(Tail(pending))
          /\ \A x : x \in Range(Tail(pending)) <=> x \in Range(pending) /\ x # Head(pending)
      BY <1>16, TailFacts DEF DispatchClaim, CanClaim
    <2> QED
      BY <1>16, <2>1 DEF DispatchClaim
  <1>17. CASE Restart
    <2>1. Range(pending') = {} /\ IsInjective(pending')
      BY <1>17 DEF Restart, Range, IsInjective
    <2> QED
      BY <1>17, <2>1 DEF Restart
  <1>18. CASE UNCHANGED <<pending, running, sinks, done, stage>>
    BY <1>18
  <1> QED
    BY <1>1, <1>2, <1>3, <1>4, <1>5, <1>6, <1>7, <1>8, <1>9, <1>10, <1>11, <1>12, <1>13, <1>14, <1>15, <1>16, <1>17, <1>18
       DEF Next, Enqueue, Dispatch, Execute, Cancel, Fallback, Close, FallbackMiss,
           FallbackRead, FallbackWrite, DispatchWake, DispatchStop, DispatchBreak,
           CloseBegin, CloseReturn, CloseDB, vars

\* Every job has at most one owner, so its channel is closed once and its row
\* has one writer beside a Cancel that missed it.
THEOREM Ownership == Spec => []OneOwner
  BY TypeCorrect, OwnerInit, OwnerNext, PTL DEF Spec

-----------------------------------------------------------------------------
(* The concurrency limit                                                   *)

\* Under OneOwner the limit is about the keys of q.running, which is what
\* dispatchLoop counts.
RunningBound == IsFiniteSet(running) /\ Cardinality(running) <= MaxConcurrent

\* Nothing runs.
LEMMA RunningBoundInit == Init => RunningBound
  BY FS_EmptySet, LimitPositive DEF Init, RunningBound

\* A claim needs a free slot.
LEMMA RunningBoundNext == TypeOK /\ RunningBound /\ [Next]_vars => RunningBound'
  <1> SUFFICES ASSUME TypeOK, RunningBound, [Next]_vars PROVE RunningBound'
    OBVIOUS
  <1> USE DEF RunningBound
  <1>1. CASE DispatchClaim
    <2>1. /\ running' = running \cup {Head(pending)}
          /\ Cardinality(running) < MaxConcurrent
      BY <1>1 DEF DispatchClaim, CanClaim
    <2>2. /\ IsFiniteSet(running')
          /\ Cardinality(running') \in {Cardinality(running), Cardinality(running) + 1}
      BY <2>1, FS_AddElement
    <2>3. Cardinality(running) \in Nat
      BY FS_CardinalityType
    <2> QED
      BY <2>1, <2>2, <2>3, LimitPositive
  <1>2. ASSUME NEW j \in Jobs, Unregister(j) PROVE RunningBound'
    <2>1. running' = running \ {j}
      BY <1>2 DEF Unregister
    <2>2. /\ IsFiniteSet(running')
          /\ Cardinality(running') \in {Cardinality(running), Cardinality(running) - 1}
      BY <2>1, FS_RemoveElement
    <2>3. Cardinality(running) \in Nat
      BY FS_CardinalityType
    <2> QED
      BY <2>2, <2>3, LimitPositive
  <1>3. CASE Restart
    BY <1>3, FS_EmptySet, LimitPositive DEF Restart
  <1>4. CASE UNCHANGED running
    BY <1>4
  <1> QED
    BY <1>1, <1>2, <1>3, <1>4
       DEF Next, Enqueue, Dispatch, Execute, Cancel, Fallback, Close, EnqueueInsert,
           EnqueueAppend, EnqueueWake, MarkStarted, OpenSink, RunReturns, MarkTerminal,
           CloseDone, FinalWake, CancelRunning, CancelPending, CancelMark, CancelClose,
           FallbackMiss, FallbackRead, FallbackWrite, DispatchWake, DispatchStop,
           DispatchLaunch, DispatchBreak, CloseBegin, CloseReturn, CloseDB, vars

\* No more than maxConcurrent jobs are ever between their claim and the end of
\* execute, for every configured limit and every set of jobs.
THEOREM LimitHolds == Spec => []ConcurrencyBound
  <1>1. TypeOK /\ OneOwner /\ RunningBound => ConcurrencyBound
    <2> SUFFICES ASSUME TypeOK, OneOwner, RunningBound PROVE ConcurrencyBound
      OBVIOUS
    <2>1. {j \in Jobs : stage[j] \in Owned} = running
      BY DEF TypeOK, OneOwner
    <2> QED
      BY <2>1 DEF RunningBound, ConcurrencyBound
  <1> QED
    BY <1>1, TypeCorrect, Ownership, RunningBoundInit, RunningBoundNext, PTL DEF Spec

-----------------------------------------------------------------------------
(* No lost wake-up                                                         *)

\* Nothing waits.
LEMMA WakeInit == Init => NoLostWakeup
  BY DEF Init, NoLostWakeup, CanClaim

\* Who makes a claim possible owes a wake-up, or has sent it.
LEMMA WakeNext == TypeOK /\ OneOwner /\ NoLostWakeup /\ [Next]_vars => NoLostWakeup'
  <1> SUFFICES ASSUME TypeOK, OneOwner, NoLostWakeup, [Next]_vars,
                      disp' = "select", ~wakeCh', CanClaim'
               PROVE  wakeDue' # {} \/ \E j \in Jobs : stage'[j] \in {"removed", "finished"}
    BY DEF NoLostWakeup
  <1> DEFINE Due == wakeDue # {} \/ \E j \in Jobs : stage[j] \in {"removed", "finished"}
  <1>a. disp = "select" /\ ~wakeCh /\ CanClaim => Due
    BY DEF NoLostWakeup
  <1> USE DEF TypeOK, Goto, CanClaim
  \* A goroutine between its append or its delete and its wake() owes one.
  <1>1. ASSUME NEW j \in Jobs, EnqueueAppend(j) PROVE Due'
    BY <1>1 DEF EnqueueAppend
  <1>2. ASSUME NEW j \in Jobs, Unregister(j) \/ CloseDone(j) PROVE Due'
    BY <1>2 DEF Unregister, CloseDone
  \* wake() leaves a token, and a dispatcher that sleeps had nothing to claim.
  <1>3. ASSUME NEW j \in Jobs, EnqueueWake(j) \/ FinalWake(j) PROVE FALSE
    BY <1>3 DEF EnqueueWake, FinalWake
  <1>4. CASE DispatchWake \/ DispatchStop \/ DispatchClaim \/ DispatchBreak
    BY <1>4 DEF DispatchWake, DispatchStop, DispatchClaim, DispatchBreak
  <1>5. ASSUME NEW j \in Jobs, DispatchLaunch(j) PROVE FALSE
    BY <1>5 DEF DispatchLaunch
  \* The other steps neither free a slot nor add a waiting job.
  <1>6. ASSUME NEW j \in Jobs,
               \/ EnqueueInsert(j) \/ MarkStarted(j) \/ OpenSink(j) \/ RunReturns(j)
               \/ MarkTerminal(j) \/ CancelRunning(j) \/ CancelMark(j) \/ CancelClose(j)
        PROVE  Due'
    <2>1. /\ disp = "select" /\ ~wakeCh /\ CanClaim
          /\ wakeDue' = wakeDue
          /\ \A k \in Jobs : stage[k] \in {"removed", "finished"} => stage'[k] = stage[k]
      BY <1>6 DEF EnqueueInsert, MarkStarted, OpenSink, RunReturns, MarkTerminal,
                  CancelRunning, CancelMark, CancelClose
    <2> QED
      BY <1>a, <2>1
  <1>7. ASSUME NEW i \in 1..Len(pending), CancelPending(i) PROVE Due'
    <2>1. /\ disp = "select" /\ ~wakeCh /\ CanClaim
          /\ wakeDue' = wakeDue
      BY <1>7 DEF CancelPending
    <2>2. i \in DOMAIN pending /\ pending[i] \in Range(pending)
      BY DEF Range
    <2>3. \A k \in Jobs : stage[k] \in {"removed", "finished"} => stage'[k] = stage[k]
      BY <1>7, <2>2 DEF CancelPending, OneOwner
    <2> QED
      BY <1>a, <2>1, <2>3
  <1>8. CASE Restart
    BY <1>8 DEF Restart
  <1>9. CASE UNCHANGED <<pending, running, wakeDue, wakeCh, disp, stage>>
    BY <1>9, <1>a
  <1> QED
    BY <1>1, <1>2, <1>3, <1>4, <1>5, <1>6, <1>7, <1>8, <1>9
       DEF Next, Enqueue, Dispatch, Execute, Cancel, Fallback, Close, FallbackMiss,
           FallbackRead, FallbackWrite, CloseBegin, CloseReturn, CloseDB, vars

\* A free slot and a waiting job never meet a sleeping dispatcher without a
\* wake-up on its way, however the goroutines interleave.
THEOREM WakeupsAreKept == Spec => []NoLostWakeup
  BY TypeCorrect, Ownership, WakeInit, WakeNext, PTL DEF Spec

-----------------------------------------------------------------------------
(* Done and the row                                                        *)

Recorded == Settled \cup {"persisted", "removed", "marked"}

\* Why Done means a final row: the owner has a final status before it writes,
\* and from its write on nobody writes another kind.
RowFollowsOwner ==
    /\ \A j \in Jobs : stage[j] # "new" => row[j] # NoRow
    /\ \A j \in Jobs : stage[j] = "returned" => Terminal(result[j])
    /\ \A j \in Jobs \ unsaved : stage[j] \in Recorded => Terminal(row[j])
    /\ NoOrphanedRows

\* No job, no row.
LEMMA RowInit == Init => RowFollowsOwner
  BY DEF Init, RowFollowsOwner, Recorded, NoOrphanedRows

\* A final row stays final: who writes a row of a job that is over writes a final status.
LEMMA RowNext == TypeOK /\ OneOwner /\ RowFollowsOwner /\ [Next]_vars => RowFollowsOwner'
  <1> SUFFICES ASSUME TypeOK, OneOwner, RowFollowsOwner, [Next]_vars PROVE RowFollowsOwner'
    OBVIOUS
  <1> USE DEF TypeOK, RowFollowsOwner, Recorded, NoOrphanedRows, Goto, store, client, process
  \* Steps of the owner that write the row.
  <1>1. ASSUME NEW j \in Jobs, EnqueueInsert(j) PROVE RowFollowsOwner'
    BY <1>1 DEF EnqueueInsert, Saves, Terminal
  <1>2. ASSUME NEW j \in Jobs, MarkStarted(j) PROVE RowFollowsOwner'
    BY <1>2 DEF MarkStarted, Update, Saves, LosesWrite
  <1>3. ASSUME NEW j \in Jobs, MarkTerminal(j) PROVE RowFollowsOwner'
    BY <1>3 DEF MarkTerminal, Update, Saves, LosesWrite, Terminal
  <1>4. ASSUME NEW j \in Jobs, CancelMark(j) PROVE RowFollowsOwner'
    BY <1>4 DEF CancelMark, Update, Saves, LosesWrite, Terminal
  \* Steps of the owner that do not.
  <1>5. ASSUME NEW j \in Jobs,
               \/ EnqueueAppend(j) \/ OpenSink(j) \/ Unregister(j) \/ CloseDone(j)
               \/ FinalWake(j) \/ CancelClose(j) \/ DispatchLaunch(j)
        PROVE  RowFollowsOwner'
    BY <1>5 DEF EnqueueAppend, OpenSink, Unregister, CloseDone, FinalWake, CancelClose,
                DispatchLaunch
  <1>6. ASSUME NEW j \in Jobs, RunReturns(j) PROVE RowFollowsOwner'
    <2>1. ASSUME NEW ok \in BOOLEAN PROVE Terminal(Outcome(j, ok))
      BY DEF Outcome, Terminal
    <2> QED
      BY <1>6, <2>1 DEF RunReturns
  <1>7. CASE DispatchClaim
    <2>1. Head(pending) \in Range(pending)
      BY <1>7, TailFacts DEF DispatchClaim, CanClaim, OneOwner
    <2> QED
      BY <1>7, <2>1 DEF DispatchClaim, OneOwner
  <1>8. ASSUME NEW i \in 1..Len(pending), CancelPending(i) PROVE RowFollowsOwner'
    <2>1. i \in DOMAIN pending /\ pending[i] \in Range(pending)
      BY DEF Range
    <2> QED
      BY <1>8, <2>1 DEF CancelPending, OneOwner
  \* The fall-back writes a final status over whatever is there.
  <1>9. ASSUME NEW c \in Cancellers, FallbackWrite(c) PROVE RowFollowsOwner'
    <2> DEFINE f == fallback[c].job
    <2>1. f \in Jobs
      BY <1>9 DEF FallbackWrite, Idle
    <2>2. row'[f] \in {row[f], "CANCELLED"} /\ unsaved \subseteq unsaved'
      BY <1>9, <2>1 DEF FallbackWrite, Update, Saves, LosesWrite
    <2>3. \A j \in Jobs \ {f} : row'[j] = row[j]
      BY <1>9, <2>1 DEF FallbackWrite, Update, Saves, LosesWrite
    <2>4. UNCHANGED <<stage, result, pending>>
      BY <1>9 DEF FallbackWrite
    <2> HIDE DEF f
    <2> QED
      BY <2>1, <2>2, <2>3, <2>4 DEF Terminal, NoRow
  <1>10. CASE Restart
    <2>1. ASSUME NEW j \in Jobs, row[j] # NoRow
          PROVE  Reconciled(row[j]) # NoRow /\ Terminal(Reconciled(row[j]))
      BY <2>1 DEF Reconciled, Terminal
    <2> QED
      BY <1>10, <2>1 DEF Restart
  <1>11. CASE UNCHANGED <<row, unsaved, stage, result>>
    BY <1>11
  <1> QED
    BY <1>1, <1>2, <1>3, <1>4, <1>5, <1>6, <1>7, <1>8, <1>9, <1>10, <1>11
       DEF Next, Enqueue, Dispatch, Execute, Cancel, Fallback, Close, EnqueueWake,
           CancelRunning, FallbackMiss, FallbackRead, DispatchWake, DispatchStop,
           DispatchBreak, CloseBegin, CloseReturn, CloseDB, vars

\* Rows always follow their owners.
LEMMA RowInvariant == Spec => []RowFollowsOwner
  BY TypeCorrect, Ownership, RowInit, RowNext, PTL DEF Spec

\* Whoever Done releases reads a final status, if no write of the job failed.
THEOREM DoneIsFinal == Spec => []DoneMeansTerminal
  <1>1. TypeOK /\ OneOwner /\ RowFollowsOwner => DoneMeansTerminal
    BY DEF TypeOK, OneOwner, RowFollowsOwner, Recorded, DoneMeansTerminal
  <1> QED
    BY <1>1, TypeCorrect, Ownership, RowInvariant, PTL

\* After a restart no row of the dead process claims to be waiting or running.
THEOREM RestartLeavesNoOrphans == Spec => []NoOrphanedRows
  <1>1. RowFollowsOwner => NoOrphanedRows
    BY DEF RowFollowsOwner
  <1> QED
    BY <1>1, RowInvariant, PTL

-----------------------------------------------------------------------------
(* What a step may write into a row                                        *)

\* Every write of an existing job's row is by its owner in one of three stages, by
\* the fall-back of Cancel or by reconcileStale.
LEMMA RowWriters ==
    ASSUME TypeOK, [Next]_vars, NEW k \in Jobs
    PROVE  \/ row'[k] = row[k]
           \/ stage[k] = "new" /\ row'[k] = "PENDING"
           \/ stage[k] = "launched" /\ stage'[k] = "started"
           \/ stage[k] = "returned" /\ stage'[k] = "persisted"
           \/ row'[k] = "CANCELLED"
           \/ Restart /\ row'[k] = Reconciled(row[k])
  <1>t. DOMAIN row = Jobs /\ DOMAIN stage = Jobs
    BY DEF TypeOK
  <1> USE DEF Goto, store, client, process
  <1>1. ASSUME NEW j \in Jobs, EnqueueInsert(j)
        PROVE  row'[k] = row[k] \/ (stage[k] = "new" /\ row'[k] = "PENDING")
    BY <1>t, <1>1 DEF EnqueueInsert, Saves
  <1>2. ASSUME NEW j \in Jobs, MarkStarted(j)
        PROVE  row'[k] = row[k] \/ (stage[k] = "launched" /\ stage'[k] = "started")
    BY <1>t, <1>2 DEF MarkStarted, Update, Saves, LosesWrite
  <1>3. ASSUME NEW j \in Jobs, MarkTerminal(j)
        PROVE  row'[k] = row[k] \/ (stage[k] = "returned" /\ stage'[k] = "persisted")
    BY <1>t, <1>3 DEF MarkTerminal, Update, Saves, LosesWrite
  <1>4. ASSUME NEW j \in Jobs, CancelMark(j)
        PROVE  row'[k] = row[k] \/ row'[k] = "CANCELLED"
    BY <1>t, <1>4 DEF CancelMark, Update, Saves, LosesWrite
  <1>5. ASSUME NEW c \in Cancellers, FallbackWrite(c)
        PROVE  row'[k] = row[k] \/ row'[k] = "CANCELLED"
    BY <1>t, <1>5 DEF FallbackWrite, Update, Saves, LosesWrite
  <1>6. CASE Restart
    BY <1>t, <1>6 DEF Restart
  <1>7. CASE UNCHANGED row
    BY <1>7
  <1> QED
    BY <1>1, <1>2, <1>3, <1>4, <1>5, <1>6, <1>7
       DEF Next, Enqueue, Dispatch, Execute, Cancel, Fallback, Close, EnqueueAppend,
           EnqueueWake, OpenSink, RunReturns, Unregister, CloseDone, FinalWake,
           CancelRunning, CancelPending, CancelClose, FallbackMiss, FallbackRead,
           DispatchWake, DispatchStop, DispatchClaim, DispatchLaunch, DispatchBreak,
           CloseBegin, CloseReturn, CloseDB, vars

\* The row of a job whose outcome is recorded changes only by a Cancel that had missed
\* the job, or when reconcileStale finds what a failed write had left.
THEOREM OutcomesStick == Spec => OutcomeSticks
  <1> DEFINE Sticks ==
        \A j \in Jobs \ unsaved :
            stage[j] \in Settled \cup {"persisted", "removed", "marked", "lost"} =>
                row'[j] \in {row[j], Reconciled(row[j]), "CANCELLED"}
  <1>1. TypeOK /\ [Next]_vars => Sticks
    BY RowWriters
  <1>2. TypeOK /\ [Next]_vars => [Sticks]_vars
    BY <1>1
  <1> QED
    BY <1>2, TypeCorrect, PTL DEF Spec, OutcomeSticks

-----------------------------------------------------------------------------
(* A job withdrawn from the queue is never started                         *)

Withdrawn == {"withdrawn", "marked", "cancelled"}

\* The row says RUNNING only of a job that execute has had in its hands.
RunningMeansStarted ==
    \A j \in Jobs : row[j] = "RUNNING" =>
        stage[j] \notin Withdrawn \cup {"new", "inserted", "queued", "claimed", "launched", "lost"}

\* Where a withdrawn job can go, and which stages can be followed by a withdrawn one.
LEMMA StageSteps ==
    ASSUME TypeOK, OneOwner, [Next]_vars, NEW k \in Jobs
    PROVE  /\ stage[k] \in Withdrawn => stage'[k] \in Withdrawn \cup {"lost"}
           /\ stage'[k] \in Withdrawn \cup {"new", "inserted", "queued", "claimed", "launched"} =>
                 stage[k] \in Withdrawn \cup {"new", "inserted", "queued", "claimed", "launched"}
           /\ stage'[k] = "lost" => stage[k] = "lost" \/ Restart
  <1>t. DOMAIN stage = Jobs /\ pending \in Seq(Jobs)
    BY DEF TypeOK
  <1> USE DEF Goto, Withdrawn
  <1>1. ASSUME NEW j \in Jobs, Enqueue(j) \/ Execute(j) \/ Cancel(j) \/ DispatchLaunch(j)
        PROVE  \/ stage'[k] = stage[k]
               \/ stage[k] = "new" /\ stage'[k] = "inserted"
               \/ stage[k] = "inserted" /\ stage'[k] = "queued"
               \/ stage[k] = "claimed" /\ stage'[k] = "launched"
               \/ stage[k] = "withdrawn" /\ stage'[k] = "marked"
               \/ stage[k] = "marked" /\ stage'[k] = "cancelled"
               \/ /\ stage[k] \in {"launched", "started", "live", "returned", "persisted",
                                   "removed", "finished"}
                  /\ stage'[k] \in {"started", "live", "returned", "persisted", "removed",
                                    "finished", "exited"}
    BY <1>t, <1>1 DEF Enqueue, Execute, Cancel, DispatchLaunch, EnqueueInsert, EnqueueAppend,
                EnqueueWake, MarkStarted, OpenSink, RunReturns, MarkTerminal, Unregister,
                CloseDone, FinalWake, CancelRunning, CancelMark, CancelClose
  <1>2. ASSUME NEW i \in 1..Len(pending), CancelPending(i)
        PROVE  stage'[k] = stage[k] \/ (stage[k] = "queued" /\ stage'[k] = "withdrawn")
    <2>1. pending[i] \in Range(pending)
      BY <1>t DEF Range
    <2> QED
      BY <1>t, <1>2, <2>1 DEF CancelPending, OneOwner
  <1>3. ASSUME DispatchClaim
        PROVE  stage'[k] = stage[k] \/ (stage[k] = "queued" /\ stage'[k] = "claimed")
    <2>1. Head(pending) \in Range(pending)
      BY <1>t, <1>3, TailFacts DEF DispatchClaim, CanClaim, OneOwner
    <2> QED
      BY <1>t, <1>3, <2>1 DEF DispatchClaim, OneOwner
  <1>4. ASSUME Restart
        PROVE  stage'[k] \in {"new", "lost"} /\ (stage'[k] = "new" => stage[k] = "new")
    BY <1>t, <1>4 DEF Restart
  <1>5. CASE UNCHANGED stage
    BY <1>5
  <1> QED
    BY <1>1, <1>2, <1>3, <1>4, <1>5
       DEF Next, Dispatch, Fallback, Close, FallbackMiss, FallbackRead, FallbackWrite,
           DispatchWake, DispatchStop, DispatchBreak, CloseBegin, CloseReturn, CloseDB, vars

\* A row says RUNNING only once markStarted has written it.
LEMMA RunningMeansStartedNext ==
    TypeOK /\ OneOwner /\ RunningMeansStarted /\ [Next]_vars => RunningMeansStarted'
  <1> SUFFICES ASSUME TypeOK, OneOwner, RunningMeansStarted, [Next]_vars,
                      NEW k \in Jobs, row'[k] = "RUNNING"
               PROVE  stage'[k] \notin Withdrawn \cup
                          {"new", "inserted", "queued", "claimed", "launched", "lost"}
    BY DEF RunningMeansStarted
  <1>1. CASE Restart
    BY <1>1 DEF Restart, Reconciled, TypeOK
  <1>2. CASE ~Restart
    BY <1>2, RowWriters, StageSteps DEF RunningMeansStarted, Withdrawn
  <1> QED
    BY <1>1, <1>2

\* A job cancelled while it waited is neither claimed nor executed later, nor does its
\* row ever say so, for any interleaving of Cancel, dispatcher and restarts.
THEOREM WithdrawnStayOut == Spec => CancelledPendingNeverStarts
  <1> DEFINE StaysOut ==
        \A j \in Jobs : stage[j] \in {"withdrawn", "marked", "cancelled"} =>
            stage'[j] \notin Owned /\ row'[j] # "RUNNING"
  <1>1. Init => RunningMeansStarted
    BY DEF Init, RunningMeansStarted
  <1>2. TypeOK /\ OneOwner /\ RunningMeansStarted /\ [Next]_vars => StaysOut
    <2> SUFFICES ASSUME TypeOK, OneOwner, RunningMeansStarted, [Next]_vars,
                        NEW j \in Jobs, stage[j] \in Withdrawn
                 PROVE  stage'[j] \notin Owned /\ row'[j] # "RUNNING"
      BY DEF Withdrawn
    <2>1. stage'[j] \in Withdrawn \cup {"lost"}
      BY StageSteps
    <2>2. row'[j] # "RUNNING"
      BY <2>1, RunningMeansStartedNext DEF RunningMeansStarted
    <2> QED
      BY <2>1, <2>2 DEF Withdrawn
  <1>3. TypeOK /\ OneOwner /\ RunningMeansStarted /\ [Next]_vars => [StaysOut]_vars
    BY <1>2
  <1> QED
    BY <1>1, <1>3, RunningMeansStartedNext, TypeCorrect, Ownership, PTL
       DEF Spec, CancelledPendingNeverStarts

-----------------------------------------------------------------------------
(* The queue implements the safety of BoundedQueue                         *)

\* The place that the refinement gives each job.
Places == [j \in Jobs |-> placeOf(stage[j])]

\* A job that changes its stage changes its place.
LEMMA PlaceMoves ==
    ASSUME TypeOK, NEW k \in Jobs, NEW s, stage' = [stage EXCEPT ![k] = s]
    PROVE  Places' = [Places EXCEPT ![k] = placeOf(s)]
  BY DEF TypeOK, Places

\* Stages of one place are one to the abstract queue.
LEMMA PlaceStays ==
    ASSUME TypeOK, NEW k \in Jobs, NEW s, stage' = [stage EXCEPT ![k] = s],
           placeOf(s) = placeOf(stage[k])
    PROVE  Places' = Places
  BY DEF TypeOK, Places

\* Under OneOwner the active jobs of the abstract queue are the keys of q.running.
LEMMA ActiveIsRunning ==
    ASSUME TypeOK, OneOwner
    PROVE  Promise!Active = running
  <1>1. ASSUME NEW s \in Stage PROVE placeOf(s) = "active" <=> s \in Owned
    BY DEF placeOf
  <1> QED
    BY <1>1 DEF TypeOK, OneOwner, Promise!Active

\* Steps that the callers of the queue do not see.
LEMMA InnerSteps ==
    ASSUME TypeOK,
           \/ \E j \in Jobs :
                \/ EnqueueInsert(j) \/ EnqueueWake(j) \/ DispatchLaunch(j) \/ MarkStarted(j)
                \/ OpenSink(j) \/ RunReturns(j) \/ MarkTerminal(j) \/ FinalWake(j)
                \/ CancelRunning(j) \/ CancelMark(j)
           \/ \E c \in Cancellers : Fallback(c)
           \/ DispatchWake \/ DispatchStop \/ DispatchBreak \/ CloseReturn \/ CloseDB
           \/ UNCHANGED vars
    PROVE  UNCHANGED <<Places, pending, rootDone>>
  <1>1. ASSUME NEW j \in Jobs,
               \/ EnqueueInsert(j) \/ DispatchLaunch(j) \/ MarkStarted(j) \/ OpenSink(j)
               \/ RunReturns(j) \/ MarkTerminal(j) \/ FinalWake(j) \/ CancelMark(j)
        PROVE  UNCHANGED <<Places, pending, rootDone>>
    <2>1. UNCHANGED <<pending, rootDone>>
      BY <1>1 DEF EnqueueInsert, DispatchLaunch, MarkStarted, OpenSink, RunReturns,
                  MarkTerminal, FinalWake, CancelMark, process, client, store
    <2>2. \E s : stage' = [stage EXCEPT ![j] = s] /\ placeOf(s) = placeOf(stage[j])
      BY <1>1 DEF Goto, placeOf, EnqueueInsert, DispatchLaunch, MarkStarted, OpenSink,
                  RunReturns, MarkTerminal, FinalWake, CancelMark
    <2> QED
      BY <2>1, <2>2, PlaceStays
  <1>2. ASSUME NEW j \in Jobs, EnqueueWake(j) \/ CancelRunning(j)
        PROVE  UNCHANGED <<stage, pending, rootDone>>
    BY <1>2 DEF EnqueueWake, CancelRunning, process
  <1>3. ASSUME NEW c \in Cancellers, Fallback(c)
        PROVE  UNCHANGED <<stage, pending, rootDone>>
    BY <1>3 DEF Fallback, FallbackRead, FallbackWrite, FallbackMiss, process
  <1>4. ASSUME DispatchWake \/ DispatchStop \/ DispatchBreak \/ CloseReturn \/ CloseDB
        PROVE  UNCHANGED <<stage, pending, rootDone>>
    BY <1>4 DEF DispatchWake, DispatchStop, DispatchBreak, CloseReturn, CloseDB, process
  <1>5. UNCHANGED <<stage, pending, rootDone>> => UNCHANGED <<Places, pending, rootDone>>
    BY DEF Places
  <1> QED
    BY <1>1, <1>2, <1>3, <1>4, <1>5 DEF vars

\* Steps of one job that they see.
LEMMA JobSteps ==
    ASSUME TypeOK, NEW j \in Jobs
    PROVE  /\ EnqueueAppend(j) => Promise!Submit(j)
           /\ Unregister(j) => Promise!Finish(j)
           /\ CloseDone(j) \/ CancelClose(j) => Promise!Settle(j)
  <1> USE DEF Goto, process
  <1>0. Places[j] = placeOf(stage[j])
    BY DEF Places
  <1>1. ASSUME EnqueueAppend(j) PROVE Promise!Submit(j)
    <2>1. Places' = [Places EXCEPT ![j] = placeOf("queued")] /\ Places[j] = placeOf("inserted")
      BY <1>0, <1>1, PlaceMoves DEF EnqueueAppend
    <2> QED
      BY <1>1, <2>1 DEF EnqueueAppend, Promise!Submit, Places, placeOf
  <1>2. ASSUME Unregister(j) PROVE Promise!Finish(j)
    <2>1. Places' = [Places EXCEPT ![j] = placeOf("removed")] /\ Places[j] = placeOf("persisted")
      BY <1>0, <1>2, PlaceMoves DEF Unregister
    <2> QED
      BY <1>2, <2>1 DEF Unregister, Promise!Finish, Places, placeOf
  <1>3. ASSUME CloseDone(j) PROVE Promise!Settle(j)
    <2>1. Places' = [Places EXCEPT ![j] = placeOf("finished")] /\ Places[j] = placeOf("removed")
      BY <1>0, <1>3, PlaceMoves DEF CloseDone
    <2> QED
      BY <1>3, <2>1 DEF CloseDone, Promise!Settle, Places, placeOf
  <1>4. ASSUME CancelClose(j) PROVE Promise!Settle(j)
    <2>1. Places' = [Places EXCEPT ![j] = placeOf("cancelled")] /\ Places[j] = placeOf("marked")
      BY <1>0, <1>4, PlaceMoves DEF CancelClose
    <2> QED
      BY <1>4, <2>1 DEF CancelClose, Promise!Settle, Places, placeOf
  <1> QED
    BY <1>1, <1>2, <1>3, <1>4

\* The claim of the dispatcher, which counts the keys of q.running.
LEMMA ClaimAdmits == ASSUME TypeOK, OneOwner, DispatchClaim PROVE Promise!Admit
  <1>1. /\ pending # <<>> /\ Head(pending) \in Jobs
        /\ Cardinality(Promise!Active) < MaxConcurrent
    BY ActiveIsRunning, TailFacts DEF DispatchClaim, CanClaim, TypeOK, OneOwner
  <1>2. Places' = [Places EXCEPT ![Head(pending)] = placeOf("claimed")]
    BY <1>1, PlaceMoves DEF DispatchClaim
  <1>3. Promise!Cardinality(Promise!Active) = Cardinality(Promise!Active)
    BY DEF Promise!Cardinality, Cardinality
  <1>4. /\ Places' = [Places EXCEPT ![Head(pending)] = "active"]
        /\ pending' = Tail(pending) /\ rootDone' = rootDone
    BY <1>2 DEF DispatchClaim, placeOf, process
  <1> QED
    BY <1>1, <1>3, <1>4 DEF Promise!Admit, Places

\* Cancel of a waiting job is Withdraw.
LEMMA CancelWithdraws ==
    ASSUME TypeOK, NEW i \in 1..Len(pending), CancelPending(i)
    PROVE  Promise!Withdraw(i)
  <1>1. pending[i] \in Jobs
    BY DEF TypeOK
  <1>2. Places' = [Places EXCEPT ![pending[i]] = placeOf("withdrawn")]
    BY <1>1, PlaceMoves DEF CancelPending
  <1>3. /\ Places' = [Places EXCEPT ![pending[i]] = "leaving"]
        /\ pending' = Promise!RemoveAt(pending, i) /\ rootDone' = rootDone
    BY <1>2 DEF CancelPending, placeOf, process, RemoveAt, Promise!RemoveAt
  <1> QED
    BY <1>3 DEF CancelPending, Promise!Withdraw, Places

\* A restart keeps as absent those jobs of which not even the row has been inserted.
LEMMA RestartResets == ASSUME TypeOK, Restart PROVE Promise!Reset
  <1> DEFINE old == {j \in Jobs : stage[j] # "new"}
  <1>1. {j \in Jobs : Places[j] # "absent"} \subseteq old
    BY DEF Places, placeOf
  <1>2. Places' = [j \in Jobs |-> IF j \in old THEN "lost" ELSE "absent"]
    BY DEF Restart, Places, placeOf
  <1>3. pending' = <<>> /\ ~rootDone'
    BY DEF Restart
  <1>4. old \in SUBSET Jobs
    OBVIOUS
  <1> QED
    BY <1>1, <1>2, <1>3, <1>4 DEF Promise!Reset, Places

\* Every step is one of the abstract queue, or none.
LEMMA StepRefines == TypeOK /\ OneOwner /\ [Next]_vars => [Promise!Next]_(Promise!vars)
  <1> SUFFICES ASSUME TypeOK, OneOwner, [Next]_vars
               PROVE  Promise!Next \/ UNCHANGED Promise!vars
    OBVIOUS
  <1>1. ASSUME NEW j \in Jobs,
               EnqueueAppend(j) \/ Unregister(j) \/ CloseDone(j) \/ CancelClose(j)
        PROVE  Promise!Next
    BY <1>1, JobSteps DEF Promise!Next
  <1>2. ASSUME NEW i \in 1..Len(pending), CancelPending(i) PROVE Promise!Next
    BY <1>2, CancelWithdraws DEF Promise!Next
  <1>3. CASE DispatchClaim
    BY <1>3, ClaimAdmits DEF Promise!Next
  <1>4. CASE CloseBegin
    <2>1. UNCHANGED <<Places, pending>> /\ rootDone' = TRUE
      BY <1>4 DEF CloseBegin, Places
    <2> QED
      BY <2>1 DEF Promise!Next, Promise!Shut, Places
  <1>5. CASE Restart
    BY <1>5, RestartResets DEF Promise!Next
  <1>6. UNCHANGED <<Places, pending, rootDone>> => UNCHANGED Promise!vars
    BY DEF Promise!vars, Places
  <1> QED
    BY <1>1, <1>2, <1>3, <1>4, <1>5, <1>6, InnerSteps
       DEF Next, Enqueue, Dispatch, Execute, Cancel, Close

\* To its callers the queue is a BoundedQueue, for every limit and any number of jobs,
\* restarts and lost writes: jobs begin in the order of their arrival and within the
\* limit, and each is settled once.  That it also is as quick as promised (the
\* fairness of BoundedQueue) is model-checked.
THEOREM QueueImplementsPromise == Spec => Promise!Safety
  <1>1. Init => Promise!Init
    BY DEF Init, Promise!Init, placeOf
  <1> QED
    BY <1>1, StepRefines, TypeCorrect, Ownership, PTL DEF Spec, Promise!Safety
=============================================================================

---------------------------- MODULE ProxyProofs ----------------------------
(***************************************************************************)
(* What clients see of a job and of a guest, for any number of them:       *)
(* theorems about LogStream, the output of a job and its viewers, and      *)
(* about Relay, the connections carried to a guest.                        *)
(***************************************************************************)
EXTENDS LogStream, Relay, SequenceTheorems, TLAPS

-----------------------------------------------------------------------------
(* Runs of lines                                                           *)

\* Lines in order, none above n.
Rising(s, n) ==
    /\ \A i \in 1 .. Len(s) : s[i] <= n
    /\ \A i, j \in 1 .. Len(s) : i < j => s[i] < s[j]

\* What lies between two of them is one of them, or was dropped (D).
Joins(s, D) == \A a, b \in LinesOf(s) : \A k \in a .. b : k \in LinesOf(s) \cup D

\* Of n lines the last ones that the ring holds, and all that follow one of s.
Covers(s, D, n) ==
    \A k \in 1 .. n :
        (k + Ring > n \/ \E a \in LinesOf(s) : a < k) => k \in LinesOf(s) \cup D

\* The ring after n lines.
EndOf(s, n) ==
    /\ Len(s) = IF n < Ring THEN n ELSE Ring
    /\ \A i \in 1 .. Len(s) : s[i] + Len(s) = n + i

\* One more line.
LEMMA OneMore ==
    ASSUME NEW s \in Seq(Nat), NEW n \in Nat, Rising(s, n)
    PROVE  /\ Rising(Append(s, n + 1), n + 1)
           /\ LinesOf(Append(s, n + 1)) = LinesOf(s) \cup {n + 1}
<1> DEFINE t == Append(s, n + 1)
<1>1. /\ Len(s) \in Nat /\ Len(t) = Len(s) + 1 /\ t[Len(s) + 1] = n + 1
      /\ \A i \in 1 .. Len(s) : t[i] = s[i] /\ s[i] \in Nat
  BY AppendProperties, LenProperties, ElementOfSeq
<1> HIDE DEF t
<1>2. \A i \in 1 .. Len(t) : t[i] <= n + 1
  BY <1>1 DEF Rising
<1>3. ASSUME NEW i \in 1 .. Len(t), NEW j \in 1 .. Len(t), i < j
      PROVE  t[i] < t[j]
  <2>1. i \in 1 .. Len(s) /\ t[i] = s[i] /\ s[i] <= n /\ s[i] \in Nat
    BY <1>1, <1>3 DEF Rising
  <2>2. CASE j = Len(s) + 1
    BY <2>1, <2>2, <1>1
  <2>3. CASE j # Len(s) + 1
    <3>1. j \in 1 .. Len(s) /\ t[j] = s[j]
      BY <2>3, <1>1
    <3> QED
      BY <2>1, <3>1, <1>3 DEF Rising
  <2> QED
    BY <2>2, <2>3
<1>4. LinesOf(t) = LinesOf(s) \cup {n + 1}
  <2>1. 1 .. Len(t) = (1 .. Len(s)) \cup {Len(s) + 1}
    BY <1>1
  <2> QED
    BY <2>1, <1>1 DEF LinesOf
<1> QED
  BY <1>2, <1>3, <1>4 DEF Rising, t

\* Lines in order stay so while more are written.
LEMMA NoMore ==
    ASSUME NEW s \in Seq(Nat), NEW n \in Nat, Rising(s, n)
    PROVE  Rising(s, n + 1)
<1>1. Len(s) \in Nat /\ \A i \in 1 .. Len(s) : s[i] \in Nat
  BY LenProperties, ElementOfSeq
<1> QED
  BY <1>1 DEF Rising

\* A line more, that is in t or was dropped.
LEMMA CoversMore ==
    ASSUME NEW s \in Seq(Nat), NEW t \in Seq(Nat), NEW D, NEW E, NEW n \in Nat,
           Covers(s, D, n), LinesOf(t) \in SUBSET (LinesOf(s) \cup {n + 1}),
           LinesOf(s) \cup D \cup {n + 1} \subseteq LinesOf(t) \cup E
    PROVE  Covers(t, E, n + 1)
<1> SUFFICES ASSUME NEW k \in 1 .. n + 1, k # n + 1,
                    k + Ring > n + 1 \/ \E a \in LinesOf(t) : a < k
             PROVE  k \in LinesOf(s) \cup D
  BY DEF Covers
<1>1. k \in 1 .. n /\ ~(n + 1 < k)
  OBVIOUS
<1>2. k + Ring > n \/ \E a \in LinesOf(s) : a < k
  BY <1>1, BoundsAssumption
<1> QED
  BY <1>1, <1>2 DEF Covers

\* What covers the lines up to the last joins them.
LEMMA CoversJoins ==
    ASSUME NEW s \in Seq(Nat), NEW D, NEW n \in Nat, Rising(s, n), Covers(s, D, n)
    PROVE  Joins(s, D)
<1> SUFFICES ASSUME NEW a \in LinesOf(s), NEW b \in LinesOf(s), NEW k \in a .. b, k # a
             PROVE  k \in LinesOf(s) \cup D
  BY DEF Joins
<1>1. \A i \in 1 .. Len(s) : s[i] \in Nat
  BY ElementOfSeq
<1>2. a \in Nat /\ b \in Nat /\ b <= n
  BY <1>1 DEF LinesOf, Rising
<1>3. k \in 1 .. n /\ a < k
  BY <1>2
<1> QED
  BY <1>3 DEF Covers

\* The ring takes a line, and gives up its oldest one when it holds one too many.
LEMMA RingGrows ==
    ASSUME NEW s \in Seq(Nat), NEW n \in Nat, EndOf(s, n)
    PROVE  EndOf(IF Len(s) < Ring THEN Append(s, n + 1) ELSE Tail(Append(s, n + 1)), n + 1)
<1> DEFINE t == Append(s, n + 1)
           u == Tail(t)
<1>1. /\ Len(s) \in Nat /\ t \in Seq(Nat) /\ Len(t) = Len(s) + 1 /\ t[Len(s) + 1] = n + 1
      /\ \A i \in 1 .. Len(s) : t[i] = s[i] /\ s[i] \in Nat
  BY AppendProperties, LenProperties, ElementOfSeq
<1>2. Ring \in Nat \ {0}
  BY BoundsAssumption
<1>3. t # <<>>
  BY <1>1, EmptySeq
<1>4. Len(u) = Len(s) /\ \A i \in 1 .. Len(u) : u[i] = t[i + 1]
  <2> HIDE DEF t
  <2> QED
    BY <1>1, <1>3, HeadTailProperties
<1> HIDE DEF t, u
<1>5. CASE Len(s) < Ring
  <2>1. Len(s) = n /\ Len(t) = n + 1
    BY <1>1, <1>2, <1>5 DEF EndOf
  <2>2. ASSUME NEW i \in 1 .. Len(t)
        PROVE  t[i] + Len(t) = (n + 1) + i
    <3>1. CASE i = n + 1
      BY <3>1, <2>1, <1>1
    <3>2. CASE i # n + 1
      <4>1. i \in 1 .. Len(s) /\ s[i] + Len(s) = n + i
        BY <3>2, <2>1 DEF EndOf
      <4> QED
        BY <4>1, <2>1, <1>1
    <3> QED
      BY <3>1, <3>2
  <2>3. Len(t) = IF n + 1 < Ring THEN n + 1 ELSE Ring
    BY <2>1, <1>2, <1>5
  <2> QED
    BY <2>2, <2>3, <1>5 DEF EndOf, t
<1>6. CASE ~(Len(s) < Ring)
  <2>1. Len(s) = Ring /\ ~(n < Ring) /\ Len(u) = Ring
    BY <1>1, <1>2, <1>4, <1>6 DEF EndOf
  <2>2. ASSUME NEW i \in 1 .. Len(u)
        PROVE  u[i] + Len(u) = (n + 1) + i
    <3>1. i \in 1 .. Ring /\ u[i] = t[i + 1]
      BY <2>1, <1>4
    <3>2. CASE i = Ring
      BY <3>1, <3>2, <2>1, <1>1, <1>2
    <3>3. CASE i # Ring
      <4>1. i + 1 \in 1 .. Len(s)
        BY <3>1, <3>3, <2>1, <1>2
      <4>2. s[i + 1] + Len(s) = n + (i + 1) /\ t[i + 1] = s[i + 1] /\ s[i + 1] \in Nat
        BY <4>1, <1>1 DEF EndOf
      <4> QED
        BY <3>1, <4>2, <2>1, <1>2
    <3> QED
      BY <3>2, <3>3
  <2>3. Len(u) = IF n + 1 < Ring THEN n + 1 ELSE Ring
    BY <2>1, <1>2
  <2> QED
    BY <2>2, <2>3, <1>6 DEF EndOf, u, t
<1> QED
  BY <1>5, <1>6

\* The ring is in order and has the end.
LEMMA RingCovers ==
    ASSUME NEW s \in Seq(Nat), NEW n \in Nat, EndOf(s, n), NEW D
    PROVE  Rising(s, n) /\ Covers(s, D, n)
<1>1. /\ Len(s) \in Nat /\ Ring \in Nat \ {0} /\ Len(s) <= n
      /\ Len(s) = IF n < Ring THEN n ELSE Ring
      /\ \A i \in 1 .. Len(s) : s[i] \in Nat /\ s[i] + Len(s) = n + i
  BY LenProperties, ElementOfSeq, BoundsAssumption DEF EndOf
<1>2. Rising(s, n)
  <2>1. ASSUME NEW i \in 1 .. Len(s) PROVE s[i] <= n
    BY <1>1
  <2>2. ASSUME NEW i \in 1 .. Len(s), NEW j \in 1 .. Len(s), i < j PROVE s[i] < s[j]
    <3>1. s[i] \in Nat /\ s[i] + Len(s) = n + i /\ s[j] \in Nat /\ s[j] + Len(s) = n + j
      BY <1>1
    <3>2. i \in Nat /\ j \in Nat /\ Len(s) \in Nat
      BY <1>1
    <3> QED
      BY <3>1, <3>2, <2>2
  <2> QED
    BY <2>1, <2>2 DEF Rising
<1>3. ASSUME NEW k \in 1 .. n, k + Len(s) > n
      PROVE  k \in LinesOf(s)
  <2> DEFINE i == (k + Len(s)) - n
  <2>1. i \in 1 .. Len(s) /\ i \in Nat /\ n + i = k + Len(s)
    BY <1>1, <1>3
  <2> HIDE DEF i
  <2>2. s[i] \in Nat /\ s[i] + Len(s) = n + i
    BY <1>1, <2>1
  <2>3. s[i] = k
    BY <2>1, <2>2, <1>1
  <2> QED
    BY <2>1, <2>3 DEF LinesOf
<1>4. ASSUME NEW k \in 1 .. n, k + Ring > n
      PROVE  k + Len(s) > n
  BY <1>1, <1>4
<1>5. ASSUME NEW k \in 1 .. n, NEW a \in LinesOf(s), a < k
      PROVE  k + Len(s) > n
  <2>1. PICK i \in 1 .. Len(s) : a = s[i]
    BY DEF LinesOf
  <2> QED
    BY <1>1, <1>5, <2>1
<1>6. Covers(s, D, n)
  BY <1>3, <1>4, <1>5 DEF Covers
<1> QED
  BY <1>2, <1>6

\* The empty output.
LEMMA NoLines ==
    ASSUME NEW n, NEW D
    PROVE  /\ Rising(<<>>, n) /\ Joins(<<>>, D) /\ Covers(<<>>, D, 0) /\ EndOf(<<>>, 0)
<1>1. Len(<<>>) = 0
  BY EmptySeq
<1> QED
  BY <1>1, BoundsAssumption DEF Rising, Joins, Covers, EndOf, LinesOf

\* A line moves from one sequence to the end of the one before it.
LEMMA HeadMoves ==
    ASSUME NEW S, NEW a \in Seq(S), NEW b \in Seq(S), b # <<>>
    PROVE  /\ Append(a, Head(b)) \in Seq(S) /\ Tail(b) \in Seq(S)
           /\ Append(a, Head(b)) \o Tail(b) = a \o b
<1> DEFINE c == Append(a, Head(b))
           d == Tail(b)
<1>1. /\ Head(b) \in S /\ d \in Seq(S) /\ Len(d) = Len(b) - 1
      /\ \A i \in 1 .. Len(d) : d[i] = b[i + 1]
  BY HeadTailProperties
<1>2. /\ c \in Seq(S) /\ Len(c) = Len(a) + 1 /\ c[Len(a) + 1] = Head(b)
      /\ \A i \in 1 .. Len(a) : c[i] = a[i]
  BY <1>1, AppendProperties
<1>3. Head(b) = b[1] /\ Len(a) \in Nat /\ Len(b) \in Nat \ {0}
  BY LenProperties, EmptySeq
<1> HIDE DEF c, d
<1>4. /\ c \o d \in Seq(S) /\ Len(c \o d) = Len(c) + Len(d)
      /\ \A i \in 1 .. Len(c) + Len(d) :
            (c \o d)[i] = IF i <= Len(c) THEN c[i] ELSE d[i - Len(c)]
  BY <1>1, <1>2, ConcatProperties
<1>5. /\ a \o b \in Seq(S) /\ Len(a \o b) = Len(a) + Len(b)
      /\ \A i \in 1 .. Len(a) + Len(b) :
            (a \o b)[i] = IF i <= Len(a) THEN a[i] ELSE b[i - Len(a)]
  BY ConcatProperties
<1>6. Len(c \o d) = Len(a \o b)
  BY <1>1, <1>2, <1>3, <1>4, <1>5
<1>7. ASSUME NEW i \in 1 .. Len(c \o d) PROVE (c \o d)[i] = (a \o b)[i]
  <2>1. CASE i <= Len(a)
    BY <2>1, <1>2, <1>3, <1>4, <1>5, <1>6
  <2>2. CASE i = Len(a) + 1
    BY <2>2, <1>2, <1>3, <1>4, <1>5, <1>6
  <2>3. CASE i > Len(a) + 1
    <3>1. i - Len(c) \in 1 .. Len(d) /\ (i - Len(c)) + 1 = i - Len(a)
      BY <2>3, <1>1, <1>2, <1>3, <1>4
    <3>2. (c \o d)[i] = d[i - Len(c)] /\ (a \o b)[i] = b[i - Len(a)]
      BY <2>3, <1>2, <1>3, <1>4, <1>5, <1>6
    <3> QED
      BY <3>1, <3>2, <1>1
  <2> QED
    BY <2>1, <2>2, <2>3, <1>3, <1>4, <1>2, <1>1
<1> QED
  BY <1>1, <1>2, <1>4, <1>5, <1>6, <1>7, SeqEqual DEF c, d

\* What is appended to the last sequence is appended to the whole.
LEMMA AppendsToWhole ==
    ASSUME NEW S, NEW a \in Seq(S), NEW c \in Seq(S), NEW k \in S
    PROVE  a \o Append(c, k) = Append(a \o c, k)
<1>1. <<k>> \in Seq(S) /\ Append(c, k) = c \o <<k>>
  BY AppendIsConcat
<1>2. a \o c \in Seq(S) /\ Append(a \o c, k) = (a \o c) \o <<k>>
  BY ConcatProperties, AppendIsConcat
<1> QED
  BY <1>1, <1>2, ConcatAssociative

-----------------------------------------------------------------------------
(* The inductive invariant of LogStream                                    *)

\* What one viewer was sent, and will be.
Whole(r) == (r.sent \o r.hist) \o r.chan

\* It follows the sink, has done so to the end, or came after it.
Follows(r) == r.pc \in {"history", "stream"} \/ (r.pc = "done" /\ r.by \in {"live", "column"})

\* It has what there is to have, unless the column was not written (u).
Informed(r, u) == Follows(r) /\ ~(r.by = "column" /\ u)

\* What a handler has at each of its stations.
Station(r) ==
    /\ r.pc \in {"idle", "subscribe", "fallback"} => r.sent = <<>> /\ r.hist = <<>> /\ r.chan = <<>>
    /\ r.pc \in {"stream", "done"} => r.hist = <<>>
    /\ r.pc = "done" => r.chan = <<>>

\* Its lines, once the job has completed n of them.
Joined(r, n, u) ==
    /\ Rising(Whole(r), n) /\ Joins(Whole(r), r.lost)
    /\ Informed(r, u) => Covers(Whole(r), r.lost, n)

\* What it knows of the job's phase p.
Timely(r, p) ==
    /\ r.pc = "subscribe" => p # "pending"
    /\ Follows(r) /\ ~r.open => p \notin {"pending", "running"}
    /\ r.by = "column" => p = "retired"
    /\ r.pc = "fallback" => r.by # "live"

Sound(r, n, p, u) == Station(r) /\ Joined(r, n, u) /\ Timely(r, p)

\* The ring holds the end of the output, and the column what the ring held.
SinkOK ==
    /\ partial => count < MaxLines
    /\ EndOf(lines, count)
    /\ unstored => phase \in {"stored", "retired"}
    /\ output = IF phase \in {"stored", "retired"} /\ ~unstored THEN lines ELSE <<>>

StreamInv ==
    /\ TypeOK /\ SinkOK /\ OpenIffSubscribed
    /\ \A v \in Viewers : Sound(viewer[v], count, phase, unstored)

\* The fields of a viewer.
LEMMA Fields ==
    ASSUME NEW r \in Viewer
    PROVE  /\ r.sent \in Seq(Nat) /\ r.hist \in Seq(Nat) /\ r.chan \in Seq(Nat)
           /\ r.sent \in Seq(Line) /\ r.hist \in Seq(Line) /\ r.chan \in Seq(Line)
           /\ r.sent \o r.hist \in Seq(Nat) /\ Whole(r) \in Seq(Nat)
           /\ r.pc \in ViewerPc /\ r.by \in Origin /\ r.open \in BOOLEAN
           /\ r.lost \in SUBSET Line /\ r.gone \in BOOLEAN
<1>1. /\ r.sent \in Seq(Line) /\ r.hist \in Seq(Line) /\ r.chan \in Seq(Line)
      /\ r.pc \in ViewerPc /\ r.by \in Origin /\ r.open \in BOOLEAN
      /\ r.lost \in SUBSET Line /\ r.gone \in BOOLEAN
  BY DEF Viewer
<1>2. Line \subseteq Nat
  BY BoundsAssumption DEF Line
<1>3. r.sent \in Seq(Nat) /\ r.hist \in Seq(Nat) /\ r.chan \in Seq(Nat)
  BY <1>1, <1>2, SeqMonotonic
<1>4. r.sent \o r.hist \in Seq(Nat)
  BY <1>3, ConcatProperties
<1>5. Whole(r) \in Seq(Nat)
  BY <1>3, <1>4, ConcatProperties DEF Whole
<1> QED
  BY <1>1, <1>3, <1>4, <1>5

-----------------------------------------------------------------------------
(* The job writes                                                          *)

\* A line more in the ring.
LEMMA RingFollows ==
    ASSUME StreamInv, count < MaxLines
    PROVE  InRing(count + 1) \in Seq(Line) /\ EndOf(InRing(count + 1), count + 1)
<1> DEFINE k == count + 1
           s == Append(lines, k)
<1>1. lines \in Seq(Line) /\ count \in Nat /\ k \in Line /\ Line \subseteq Nat
  BY BoundsAssumption DEF StreamInv, TypeOK, Line
<1>2. lines \in Seq(Nat)
  BY <1>1, SeqMonotonic
<1>5. s \in Seq(Line) /\ s # <<>>
  <2> HIDE DEF k
  <2> QED
    BY <1>1, AppendProperties
<1>3. EndOf(InRing(k), k)
  BY <1>1, <1>2, RingGrows DEF InRing, StreamInv, SinkOK
<1>4. Tail(s) \in Seq(Line)
  BY <1>5, HeadTailProperties
<1> QED
  BY <1>3, <1>4, <1>5 DEF InRing

\* A line more for a viewer, or one that is dropped for it.
LEMMA FanOutFollows ==
    ASSUME StreamInv, phase = "running", count < MaxLines, NEW v \in Viewers
    PROVE  LET q == FanOut(count + 1)[v] IN
           /\ q \in Viewer /\ q.pc = viewer[v].pc /\ q.open = viewer[v].open
           /\ Sound(q, count + 1, "running", unstored)
<1> DEFINE r == viewer[v]
           k == count + 1
           q == FanOut(k)[v]
           u == unstored
<1>1. r \in Viewer /\ count \in Nat /\ k \in Nat /\ k \in Line
  BY BoundsAssumption DEF StreamInv, TypeOK, Line
<1>2. Sound(r, count, "running", u) /\ (v \in subs <=> r.open)
      /\ (v \in subs => r.pc \in {"history", "stream"})
  BY DEF StreamInv, OpenIffSubscribed
<1>3. q = IF v \notin subs THEN r
          ELSE IF Len(r.chan) < ChanCap THEN [r EXCEPT !.chan = Append(@, k)]
               ELSE [r EXCEPT !.lost = @ \cup {k}]
  BY DEF FanOut
<1> HIDE DEF r, q, u
<1>4. Whole(r) \in Seq(Nat) /\ r.sent \o r.hist \in Seq(Nat) /\ r.chan \in Seq(Nat)
      /\ r.chan \in Seq(Line) /\ r.lost \in SUBSET Line /\ r.open \in BOOLEAN
  BY <1>1, Fields
<1>5. CASE v \notin subs
  <2>1. q = r /\ ~Follows(r)
    BY <1>2, <1>3, <1>5 DEF Sound, Timely
  <2>2. Rising(Whole(r), k)
    BY <1>1, <1>2, <1>4, NoMore DEF Sound, Joined
  <2>3. Joined(q, k, u)
    BY <1>2, <2>1, <2>2 DEF Sound, Joined, Informed
  <2> QED
    BY <1>1, <1>2, <2>1, <2>3 DEF Sound, q, r, u
<1>6. CASE v \in subs /\ Len(r.chan) < ChanCap
  <2>1. q = [r EXCEPT !.chan = Append(@, k)]
    BY <1>3, <1>6
  <2>2. Append(r.chan, k) \in Seq(Line)
    BY <1>1, <1>4, AppendProperties
  <2>3. /\ q \in Viewer /\ q.pc = r.pc /\ q.open = r.open /\ q.by = r.by
        /\ q.lost = r.lost /\ q.sent = r.sent /\ q.hist = r.hist
        /\ q.chan = Append(r.chan, k)
    BY <1>1, <2>1, <2>2 DEF Viewer
  <2>4. Whole(q) = Append(Whole(r), k)
    <3> DEFINE a == r.sent \o r.hist
               c == r.chan
    <3>1. a \in Seq(Nat) /\ c \in Seq(Nat) /\ k \in Nat
      BY <1>1, <1>4
    <3>2. Whole(r) = a \o c /\ Whole(q) = a \o Append(c, k)
      BY <2>3 DEF Whole
    <3> HIDE DEF a, c, k
    <3> QED
      BY <3>1, <3>2, AppendsToWhole
  <2>5. Informed(r, u)
    BY <1>2, <1>6 DEF Informed, Follows, Sound, Timely
  <2>6. Whole(q) \in Seq(Nat)
    BY <2>3, Fields
  <2>7. Rising(Whole(q), k) /\ LinesOf(Whole(q)) = LinesOf(Whole(r)) \cup {k}
    BY <1>1, <1>2, <1>4, <2>4, OneMore DEF Sound, Joined
  <2>8. Covers(Whole(q), q.lost, k)
    <3>1. Covers(Whole(r), r.lost, count)
      BY <1>2, <2>5 DEF Sound, Joined
    <3> QED
      BY <1>1, <1>4, <2>3, <2>6, <2>7, <3>1, CoversMore
  <2>9. Joined(q, k, u)
    BY <1>1, <2>6, <2>7, <2>8, CoversJoins DEF Joined
  <2>10. Station(q) /\ Timely(q, "running")
    BY <1>2, <1>6, <2>3 DEF Sound, Station, Timely, Follows
  <2> QED
    BY <2>3, <2>9, <2>10 DEF Sound, q, r, u
<1>7. CASE v \in subs /\ ~(Len(r.chan) < ChanCap)
  <2>1. q = [r EXCEPT !.lost = @ \cup {k}]
    BY <1>3, <1>7
  <2>2. /\ q \in Viewer /\ q.pc = r.pc /\ q.open = r.open /\ q.by = r.by
        /\ q.lost = r.lost \cup {k} /\ q.sent = r.sent /\ q.hist = r.hist /\ q.chan = r.chan
    BY <1>1, <2>1 DEF Viewer
  <2>3. Whole(q) = Whole(r)
    BY <2>2 DEF Whole
  <2>4. Informed(r, u)
    BY <1>2, <1>7 DEF Informed, Follows, Sound, Timely
  <2>5. Rising(Whole(q), k)
    BY <1>1, <1>2, <1>4, <2>3, NoMore DEF Sound, Joined
  <2>6. Covers(Whole(q), q.lost, k)
    <3>1. Covers(Whole(r), r.lost, count)
      BY <1>2, <2>4 DEF Sound, Joined
    <3> QED
      BY <1>1, <1>4, <2>2, <2>3, <3>1, CoversMore
  <2>7. Joined(q, k, u)
    BY <1>1, <1>4, <2>3, <2>5, <2>6, CoversJoins DEF Joined
  <2>8. Station(q) /\ Timely(q, "running")
    BY <1>2, <1>7, <2>2 DEF Sound, Station, Timely, Follows
  <2> QED
    BY <2>2, <2>7, <2>8 DEF Sound, q, r, u
<1> QED
  BY <1>5, <1>6, <1>7

\* The job completes a line: WriteLine, and Close when one is left.
LEMMA LineCompleted ==
    ASSUME StreamInv, phase = "running", count < MaxLines,
           NEW q \in [Viewers -> Viewer], phase' \in {"running", "closed"},
           count' = count + 1, lines' = InRing(count + 1), partial' = FALSE,
           output' = output, unstored' = unstored, viewer' = q,
           \A v \in Viewers : Sound(q[v], count + 1, phase', unstored),
           subs' = {v \in Viewers : q[v].open},
           \A v \in subs' : phase' = "running" /\ q[v].pc \in {"history", "stream"}
    PROVE  StreamInv'
<1>1. TypeOK'
  <2>1. lines' \in Seq(Line) /\ output' \in Seq(Line)
    BY RingFollows DEF StreamInv, TypeOK
  <2>2. count' \in 0 .. MaxLines
    BY BoundsAssumption DEF StreamInv, TypeOK
  <2>3. subs' \in SUBSET Viewers
    OBVIOUS
  <2>4. partial' \in BOOLEAN /\ unstored' \in BOOLEAN
    BY DEF StreamInv, TypeOK
  <2>5. phase' \in {"pending", "running", "closed", "stored", "retired"}
    OBVIOUS
  <2>6. viewer' \in [Viewers -> Viewer]
    OBVIOUS
  <2> QED
    BY <2>1, <2>2, <2>3, <2>4, <2>5, <2>6 DEF TypeOK
<1>2. SinkOK'
  BY RingFollows DEF StreamInv, SinkOK
<1>3. OpenIffSubscribed'
  BY DEF OpenIffSubscribed
<1> QED
  BY <1>1, <1>2, <1>3 DEF StreamInv

\* WriteLine.
LEMMA WriteLineKeeps ==
    ASSUME StreamInv, WriteLine
    PROVE  StreamInv'
<1> DEFINE q == FanOut(count + 1)
<1>1. phase = "running" /\ count < MaxLines /\ phase' = phase
  BY DEF WriteLine
<1>2. \A v \in Viewers : /\ q[v] \in Viewer /\ q[v].pc = viewer[v].pc /\ q[v].open = viewer[v].open
                         /\ Sound(q[v], count + 1, phase', unstored)
  BY <1>1, FanOutFollows
<1>3. q \in [Viewers -> Viewer]
  <2>1. q = [v \in Viewers |-> q[v]]
    BY DEF FanOut
  <2> QED
    BY <2>1, <1>2
<1>4. subs' = {v \in Viewers : q[v].open}
      /\ \A v \in subs' : phase' = "running" /\ q[v].pc \in {"history", "stream"}
  BY <1>1, <1>2 DEF StreamInv, OpenIffSubscribed, WriteLine
<1>5. count' = count + 1 /\ lines' = InRing(count + 1) /\ partial' = FALSE
      /\ output' = output /\ unstored' = unstored /\ viewer' = q
  BY DEF WriteLine, column
<1> HIDE DEF q
<1> QED
  BY <1>1, <1>2, <1>3, <1>4, <1>5, LineCompleted

\* A channel that is closed keeps its lines.
LEMMA ClosedSound ==
    ASSUME NEW r \in Viewer, NEW n \in Nat, NEW u, Sound(r, n, "running", u)
    PROVE  LET q == [r EXCEPT !.open = FALSE] IN q \in Viewer /\ ~q.open /\ Sound(q, n, "closed", u)
<1> DEFINE q == [r EXCEPT !.open = FALSE]
<1>1. /\ q \in Viewer /\ q.open = FALSE /\ q.pc = r.pc /\ q.by = r.by
      /\ q.lost = r.lost /\ q.sent = r.sent /\ q.hist = r.hist /\ q.chan = r.chan
  BY DEF Viewer
<1> HIDE DEF q
<1>2. Whole(q) = Whole(r) /\ (Follows(q) <=> Follows(r)) /\ (Informed(q, u) <=> Informed(r, u))
  BY <1>1 DEF Whole, Follows, Informed
<1>3. Station(q) /\ Joined(q, n, u)
  BY <1>1, <1>2 DEF Sound, Station, Joined
<1>4. Timely(q, "closed")
  BY <1>1, <1>2 DEF Sound, Timely
<1> QED
  BY <1>1, <1>3, <1>4 DEF Sound, q

\* Close.
LEMMA CloseSinkKeeps ==
    ASSUME StreamInv, CloseSink
    PROVE  StreamInv'
<1> DEFINE last == IF partial THEN FanOut(count + 1) ELSE viewer
           n == IF partial THEN count + 1 ELSE count
           q == [v \in Viewers |-> [last[v] EXCEPT !.open = FALSE]]
<1>1. phase = "running" /\ phase' = "closed" /\ partial' = FALSE /\ subs' = {}
      /\ viewer' = q /\ output' = output /\ unstored' = unstored /\ partial \in BOOLEAN
      /\ count \in Nat /\ n \in Nat /\ (partial => count < MaxLines)
  BY BoundsAssumption DEF CloseSink, column, StreamInv, TypeOK, SinkOK
<1>2. \A v \in Viewers : last[v] \in Viewer /\ Sound(last[v], n, "running", unstored)
  <2>1. CASE partial
    BY <2>1, <1>1, FanOutFollows
  <2>2. CASE ~partial
    BY <2>2, <1>1 DEF StreamInv, TypeOK
  <2> QED
    BY <2>1, <2>2
<1> HIDE DEF last, n
<1>3. \A v \in Viewers : q[v] \in Viewer /\ ~q[v].open /\ Sound(q[v], n, "closed", unstored)
  BY <1>1, <1>2, ClosedSound
<1>4. q \in [Viewers -> Viewer] /\ subs' = {v \in Viewers : q[v].open}
  BY <1>1, <1>3
<1>5. CASE partial
  <2>1. count' = count + 1 /\ lines' = InRing(count + 1) /\ n = count + 1
    BY <1>5 DEF CloseSink, n
  <2> HIDE DEF q
  <2> QED
    BY <1>1, <1>3, <1>4, <1>5, <2>1, LineCompleted
<1>6. CASE ~partial
  <2>1. count' = count /\ lines' = lines /\ n = count
    BY <1>6 DEF CloseSink, n
  <2> HIDE DEF q
  <2>2. TypeOK'
    BY <1>1, <1>4, <2>1 DEF StreamInv, TypeOK
  <2>3. SinkOK'
    BY <1>1, <2>1 DEF StreamInv, SinkOK
  <2>4. OpenIffSubscribed'
    BY <1>1, <1>4 DEF OpenIffSubscribed
  <2> QED
    BY <1>1, <1>3, <2>1, <2>2, <2>3, <2>4 DEF StreamInv
<1> QED
  BY <1>5, <1>6

\* The phases of the job: lines and channels stay as they are.
LEMMA PhaseKeeps ==
    ASSUME StreamInv, JobStarts \/ WritePiece \/ Store \/ StoreFails \/ Retire
    PROVE  StreamInv'
<1> USE DEF sink, column
<1>1. TypeOK'
  <2>1. unstored' \in BOOLEAN
    BY Zenon DEF StreamInv, TypeOK, JobStarts, WritePiece, Store, StoreFails, Retire
  <2> QED
    BY <2>1 DEF StreamInv, TypeOK, JobStarts, WritePiece, Store, StoreFails, Retire
<1>2. SinkOK'
  <2>1. CASE JobStarts
    BY <2>1 DEF StreamInv, SinkOK, JobStarts
  <2>2. CASE WritePiece
    BY <2>2 DEF StreamInv, SinkOK, WritePiece
  <2>3. CASE Store \/ StoreFails
    BY <2>3 DEF StreamInv, SinkOK, Store, StoreFails
  <2>4. CASE Retire
    BY <2>4 DEF StreamInv, SinkOK, Retire
  <2> QED
    BY <2>1, <2>2, <2>3, <2>4
<1>3. OpenIffSubscribed'
  BY DEF StreamInv, OpenIffSubscribed, JobStarts, WritePiece, Store, StoreFails, Retire
<1>4. count' = count /\ viewer' = viewer
  BY DEF JobStarts, WritePiece, Store, StoreFails, Retire
<1>5. ASSUME NEW v \in Viewers
      PROVE  Sound(viewer[v], count, phase', unstored')
  <2>1. Station(viewer[v]) /\ Joined(viewer[v], count, unstored) /\ Timely(viewer[v], phase)
    BY DEF StreamInv, Sound
  <2>2. phase = "pending" => ~viewer[v].open
    BY DEF StreamInv, OpenIffSubscribed
  <2>3. Timely(viewer[v], phase')
    <3>1. Follows(viewer[v]) \/ ~Follows(viewer[v])
      OBVIOUS
    <3> QED
      BY <2>1, <2>2, <3>1 DEF Timely, JobStarts, WritePiece, Store, StoreFails, Retire
  <2>4. Joined(viewer[v], count, unstored')
    <3>1. unstored' = unstored \/ viewer[v].by # "column"
      BY <2>1 DEF Timely, JobStarts, WritePiece, Store, StoreFails, Retire
    <3>2. Informed(viewer[v], unstored') => Informed(viewer[v], unstored)
      BY <3>1 DEF Informed
    <3> QED
      BY <2>1, <3>2 DEF Joined
  <2> QED
    BY <2>1, <2>3, <2>4 DEF Sound
<1> QED
  BY <1>1, <1>2, <1>3, <1>4, <1>5 DEF StreamInv

-----------------------------------------------------------------------------
(* A viewer steps                                                          *)

\* One viewer becomes another that is sound, and l.subs goes with its channel.
LEMMA ViewerBecomes ==
    ASSUME StreamInv, NEW v \in Viewers, NEW q \in Viewer, Becomes(v, q),
           UNCHANGED <<phase, count, partial, lines, column>>,
           subs' = IF q.open THEN subs \cup {v} ELSE subs \ {v},
           q.open => phase = "running" /\ q.pc \in {"history", "stream"},
           Sound(q, count, phase, unstored)
    PROVE  StreamInv'
<1>1. viewer \in [Viewers -> Viewer] /\ viewer' = [viewer EXCEPT ![v] = q]
  BY DEF StreamInv, TypeOK, Becomes
<1>2. viewer' \in [Viewers -> Viewer] /\ viewer'[v] = q
      /\ \A w \in Viewers : w # v => viewer'[w] = viewer[w]
  BY <1>1
<1>3. TypeOK'
  BY <1>2 DEF StreamInv, TypeOK, column
<1>4. SinkOK'
  BY DEF StreamInv, SinkOK, column
<1>5. OpenIffSubscribed'
  <2>1. q.open \in BOOLEAN /\ subs \subseteq Viewers /\ subs = {w \in Viewers : viewer[w].open}
    BY Fields DEF StreamInv, TypeOK, OpenIffSubscribed
  <2>2. ASSUME NEW w \in Viewers
        PROVE  w \in subs' <=> viewer'[w].open
    <3>1. CASE w = v
      BY <3>1, <1>2, <2>1
    <3>2. CASE w # v
      BY <3>2, <1>2, <2>1
    <3> QED
      BY <3>1, <3>2
  <2>3. subs' \subseteq Viewers
    BY <2>1
  <2>4. subs' = {w \in Viewers : viewer'[w].open}
    BY <2>2, <2>3
  <2>5. \A w \in subs' : phase' = "running" /\ viewer'[w].pc \in {"history", "stream"}
    <3> SUFFICES ASSUME NEW w \in subs'
                 PROVE  phase' = "running" /\ viewer'[w].pc \in {"history", "stream"}
      OBVIOUS
    <3>1. CASE w = v
      BY <3>1, <1>2, <2>1
    <3>2. CASE w # v
      BY <3>2, <1>2, <2>1 DEF StreamInv, OpenIffSubscribed
    <3> QED
      BY <3>1, <3>2
  <2> QED
    BY <2>4, <2>5 DEF OpenIffSubscribed
<1>6. \A w \in Viewers : Sound(viewer'[w], count', phase', unstored')
  BY <1>2 DEF StreamInv, column
<1> QED
  BY <1>3, <1>4, <1>5, <1>6 DEF StreamInv

\* What is known of a viewer before its step.
LEMMA Before ==
    ASSUME StreamInv, NEW v \in Viewers
    PROVE  /\ viewer[v] \in Viewer /\ Sound(viewer[v], count, phase, unstored)
           /\ viewer[v].open => phase = "running" /\ viewer[v].pc \in {"history", "stream"}
           /\ subs = IF viewer[v].open THEN subs \cup {v} ELSE subs \ {v}
<1>1. viewer[v] \in Viewer /\ subs = {w \in Viewers : viewer[w].open}
  BY DEF StreamInv, TypeOK, OpenIffSubscribed
<1>2. viewer[v].open \in BOOLEAN
  BY <1>1, Fields
<1>3. subs = IF viewer[v].open THEN subs \cup {v} ELSE subs \ {v}
  BY <1>1, <1>2
<1> QED
  BY <1>1, <1>3 DEF StreamInv, OpenIffSubscribed

\* The empty stream of a viewer that has received nothing.
LEMMA NothingYet ==
    ASSUME NEW r, r.sent = <<>>, r.hist = <<>>, r.chan = <<>>
    PROVE  Whole(r) = <<>>
<1>1. <<>> \in Seq(Nat)
  BY EmptySeq
<1> QED
  BY <1>1, ConcatEmptySeq DEF Whole

\* One sequence stands for the whole.
LEMMA OnlyPart ==
    ASSUME NEW r, NEW s \in Seq(Nat), r.chan = <<>>,
           (r.sent = <<>> /\ r.hist = s) \/ (r.sent = s /\ r.hist = <<>>)
    PROVE  Whole(r) = s
BY ConcatEmptySeq DEF Whole

\* Attach: what it has found of the sink.
LEMMA AttachKeeps ==
    ASSUME StreamInv, NEW v \in Viewers, Attach(v)
    PROVE  StreamInv'
<1> DEFINE r == viewer[v]
           q == [r EXCEPT !.pc = IF HasSink THEN "subscribe" ELSE "fallback",
                          !.by = IF HasSink THEN "live"
                                 ELSE IF phase = "pending" THEN "early" ELSE "column"]
<1>1. r \in Viewer /\ Sound(r, count, phase, unstored) /\ r.pc = "idle" /\ ~r.open
      /\ subs = subs \ {v}
  BY Before DEF Attach
<1>2. Becomes(v, q) /\ UNCHANGED <<phase, count, partial, lines, subs, column>>
  BY DEF Attach, sink
<1>3. /\ q \in Viewer /\ q.pc = (IF HasSink THEN "subscribe" ELSE "fallback")
      /\ q.by = (IF HasSink THEN "live" ELSE IF phase = "pending" THEN "early" ELSE "column")
      /\ q.by \in Origin /\ q.open = r.open /\ q.lost = r.lost
      /\ q.sent = r.sent /\ q.hist = r.hist /\ q.chan = r.chan
  BY <1>1 DEF Viewer, ViewerPc, Origin
<1> HIDE DEF q, r
<1>4. Whole(q) = Whole(r) /\ ~Follows(q)
  BY <1>3 DEF Whole, Follows
<1>5. Station(q) /\ Joined(q, count, unstored)
  BY <1>1, <1>3, <1>4 DEF Sound, Station, Joined, Informed
<1>6. Timely(q, phase)
  BY <1>3, <1>4 DEF Timely, HasSink, StreamInv, TypeOK
<1>7. ~q.open
  BY <1>1, <1>3
<1> QED
  BY <1>1, <1>2, <1>3, <1>5, <1>6, <1>7, ViewerBecomes DEF Sound

\* Subscribe: the history it is given is the ring.
LEMMA SubscribeKeeps ==
    ASSUME StreamInv, NEW v \in Viewers, Subscribe(v)
    PROVE  StreamInv'
<1> DEFINE r == viewer[v]
           q == [r EXCEPT !.pc = "history", !.hist = lines, !.open = phase = "running"]
<1>1. r \in Viewer /\ Sound(r, count, phase, unstored) /\ r.pc = "subscribe" /\ ~r.open
      /\ subs = subs \ {v}
  BY Before DEF Subscribe
<1>2. Becomes(v, q) /\ UNCHANGED <<phase, count, partial, lines, column>>
      /\ subs' = IF phase = "running" THEN subs \cup {v} ELSE subs
  BY DEF Subscribe
<1>3. lines \in Seq(Line) /\ count \in Nat /\ phase # "pending"
      /\ r.sent = <<>> /\ r.chan = <<>> /\ (r.by = "column" => phase = "retired")
  BY <1>1 DEF StreamInv, TypeOK, Sound, Station, Timely
<1>4. /\ q \in Viewer /\ q.pc = "history" /\ q.by = r.by
      /\ q.open = (phase = "running") /\ q.lost = r.lost
      /\ q.sent = <<>> /\ q.hist = lines /\ q.chan = <<>>
  BY <1>1, <1>3 DEF Viewer, ViewerPc
<1> HIDE DEF q, r
<1>5. lines \in Seq(Nat)
  BY <1>4, Fields
<1>6. Whole(q) = lines
  BY <1>4, <1>5, OnlyPart
<1>7. Joined(q, count, unstored)
  <2>1. Rising(lines, count) /\ Covers(lines, q.lost, count)
    BY <1>3, <1>5, RingCovers DEF StreamInv, SinkOK
  <2> QED
    BY <1>3, <1>5, <1>6, <2>1, CoversJoins DEF Joined
<1>8. Station(q) /\ Timely(q, phase)
  BY <1>3, <1>4 DEF Station, Timely, Follows
<1> QED
  BY <1>1, <1>2, <1>4, <1>7, <1>8, ViewerBecomes DEF Sound

\* SendHistory and Receive: a line that it is sent leaves the others behind it.
LEMMA SentKeeps ==
    ASSUME StreamInv, NEW v \in Viewers, SendHistory(v) \/ Receive(v)
    PROVE  StreamInv'
<1> DEFINE r == viewer[v]
<1>1. r \in Viewer /\ Sound(r, count, phase, unstored)
      /\ (r.open => phase = "running" /\ r.pc \in {"history", "stream"})
      /\ subs = IF r.open THEN subs \cup {v} ELSE subs \ {v}
  BY Before
<1>2. UNCHANGED <<phase, count, partial, lines, subs, column>>
  BY DEF SendHistory, Receive, sink
<1>3. ASSUME NEW q \in Viewer, Becomes(v, q), Whole(q) = Whole(r), q.open = r.open,
             q.pc = r.pc, q.by = r.by, q.lost = r.lost, Station(q)
      PROVE  StreamInv'
  <2> HIDE DEF r
  <2>1. Joined(q, count, unstored) /\ Timely(q, phase)
    BY <1>1, <1>3 DEF Sound, Joined, Timely, Follows, Informed
  <2> QED
    BY <1>1, <1>2, <1>3, <2>1, ViewerBecomes DEF Sound, r
<1>4. CASE SendHistory(v)
  <2> DEFINE q == [r EXCEPT !.hist = Tail(@), !.sent = Append(@, Head(r.hist))]
  <2>1. Becomes(v, q) /\ r.pc = "history" /\ r.hist # <<>>
    BY <1>4 DEF SendHistory
  <2> HIDE DEF r
  <2>2. r.sent \in Seq(Line) /\ r.hist \in Seq(Line)
    BY <1>1, Fields
  <2>3. /\ Append(r.sent, Head(r.hist)) \in Seq(Line) /\ Tail(r.hist) \in Seq(Line)
        /\ Append(r.sent, Head(r.hist)) \o Tail(r.hist) = r.sent \o r.hist
    BY <2>1, <2>2, HeadMoves
  <2>4. /\ q \in Viewer /\ q.pc = r.pc /\ q.by = r.by /\ q.open = r.open
        /\ q.lost = r.lost /\ q.sent = Append(r.sent, Head(r.hist))
        /\ q.hist = Tail(r.hist) /\ q.chan = r.chan
    BY <1>1, <2>3 DEF Viewer
  <2> HIDE DEF q
  <2>5. Whole(q) = Whole(r)
    BY <2>3, <2>4 DEF Whole
  <2>6. Station(q)
    BY <2>1, <2>4 DEF Station
  <2> QED
    BY <2>1, <2>4, <2>5, <2>6, <1>3
<1>5. CASE Receive(v)
  <2> DEFINE q == [r EXCEPT !.chan = Tail(@), !.sent = Append(@, Head(r.chan))]
  <2>1. Becomes(v, q) /\ r.pc = "stream" /\ r.chan # <<>>
    BY <1>5 DEF Receive
  <2> HIDE DEF r
  <2>2. r.sent \in Seq(Line) /\ r.chan \in Seq(Line) /\ r.hist = <<>>
    <3>1. r.sent \in Seq(Line) /\ r.chan \in Seq(Line)
      BY <1>1, Fields
    <3>2. r.hist = <<>>
      BY <1>1, <2>1 DEF Sound, Station
    <3> QED
      BY <3>1, <3>2
  <2>3. /\ Append(r.sent, Head(r.chan)) \in Seq(Line) /\ Tail(r.chan) \in Seq(Line)
        /\ Append(r.sent, Head(r.chan)) \o Tail(r.chan) = r.sent \o r.chan
    <3> DEFINE a == r.sent
               b == r.chan
    <3>1. a \in Seq(Line) /\ b \in Seq(Line) /\ b # <<>>
      BY <2>1, <2>2
    <3> HIDE DEF a, b
    <3>2. /\ Append(a, Head(b)) \in Seq(Line) /\ Tail(b) \in Seq(Line)
          /\ Append(a, Head(b)) \o Tail(b) = a \o b
      BY <3>1, HeadMoves
    <3> QED
      BY <3>2 DEF a, b
  <2>4. /\ q \in Viewer /\ q.pc = r.pc /\ q.by = r.by /\ q.open = r.open
        /\ q.lost = r.lost /\ q.sent = Append(r.sent, Head(r.chan))
        /\ q.hist = r.hist /\ q.chan = Tail(r.chan)
    BY <1>1, <2>3 DEF Viewer
  <2> HIDE DEF q
  <2>5. q.sent \o <<>> = q.sent /\ r.sent \o <<>> = r.sent
    BY <2>2, <2>3, <2>4, ConcatEmptySeq
  <2>6. Whole(q) = Whole(r)
    BY <2>2, <2>3, <2>4, <2>5 DEF Whole
  <2>7. Station(q)
    BY <2>1, <2>2, <2>4 DEF Station
  <2> QED
    BY <2>1, <2>4, <2>6, <2>7, <1>3
<1> QED
  BY <1>4, <1>5

\* HistorySent and StreamEnds: the handler goes on, ClientGone: its client does not.
LEMMA PassesKeeps ==
    ASSUME StreamInv, NEW v \in Viewers, HistorySent(v) \/ StreamEnds(v) \/ ClientGone(v)
    PROVE  StreamInv'
<1> DEFINE r == viewer[v]
<1>1. r \in Viewer /\ Sound(r, count, phase, unstored)
      /\ (r.open => phase = "running" /\ r.pc \in {"history", "stream"})
      /\ subs = IF r.open THEN subs \cup {v} ELSE subs \ {v}
  BY Before
<1>2. UNCHANGED <<phase, count, partial, lines, subs, column>>
  BY DEF HistorySent, StreamEnds, ClientGone, sink
<1>3. ASSUME NEW q \in Viewer, Becomes(v, q), q.sent = r.sent, q.hist = r.hist,
             q.chan = r.chan, q.open = r.open, q.by = r.by, q.lost = r.lost,
             Station(q), r.open => q.pc \in {"history", "stream"},
             Follows(q) => Follows(r), q.pc = r.pc \/ q.pc \in {"stream", "done"}
      PROVE  StreamInv'
  <2> HIDE DEF r
  <2>1. Whole(q) = Whole(r)
    BY <1>3 DEF Whole
  <2>2. Joined(q, count, unstored) /\ Timely(q, phase)
    BY <1>1, <1>3, <2>1 DEF Sound, Joined, Timely, Informed
  <2> QED
    BY <1>1, <1>2, <1>3, <2>2, ViewerBecomes DEF Sound
<1>4. CASE HistorySent(v)
  <2> DEFINE q == [r EXCEPT !.pc = "stream"]
  <2>1. Becomes(v, q) /\ r.pc = "history" /\ r.hist = <<>>
    BY <1>4 DEF HistorySent
  <2>2. /\ q \in Viewer /\ q.pc = "stream" /\ q.by = r.by /\ q.open = r.open
        /\ q.lost = r.lost /\ q.sent = r.sent /\ q.hist = r.hist /\ q.chan = r.chan
    BY <1>1 DEF Viewer, ViewerPc
  <2> HIDE DEF q, r
  <2> QED
    BY <2>1, <2>2, <1>3 DEF Station, Follows
<1>5. CASE StreamEnds(v)
  <2> DEFINE q == [r EXCEPT !.pc = "done"]
  <2>1. Becomes(v, q) /\ r.pc = "stream" /\ r.chan = <<>> /\ ~r.open
    BY <1>5 DEF StreamEnds
  <2>2. /\ q \in Viewer /\ q.pc = "done" /\ q.by = r.by /\ q.open = r.open
        /\ q.lost = r.lost /\ q.sent = r.sent /\ q.hist = r.hist /\ q.chan = r.chan
    BY <1>1 DEF Viewer, ViewerPc
  <2> HIDE DEF q, r
  <2>3. r.hist = <<>>
    BY <1>1, <2>1 DEF Sound, Station
  <2> QED
    BY <2>1, <2>2, <2>3, <1>3 DEF Station, Follows
<1>6. CASE ClientGone(v)
  <2> DEFINE q == [r EXCEPT !.gone = TRUE]
  <2>1. Becomes(v, q)
    BY <1>6 DEF ClientGone
  <2>2. /\ q \in Viewer /\ q.pc = r.pc /\ q.by = r.by /\ q.open = r.open
        /\ q.lost = r.lost /\ q.sent = r.sent /\ q.hist = r.hist /\ q.chan = r.chan
    BY <1>1 DEF Viewer
  <2> HIDE DEF q, r
  <2> QED
    BY <1>1, <2>1, <2>2, <1>3 DEF Sound, Station, Follows
<1> QED
  BY <1>4, <1>5, <1>6

\* Leave: whatever is in its channel is given up.
LEMMA LeaveKeeps ==
    ASSUME StreamInv, NEW v \in Viewers, Leave(v)
    PROVE  StreamInv'
<1> DEFINE r == viewer[v]
           q == [r EXCEPT !.pc = "left", !.open = FALSE]
<1>1. r \in Viewer /\ Sound(r, count, phase, unstored)
  BY Before
<1>2. Becomes(v, q) /\ UNCHANGED <<phase, count, partial, lines, column>> /\ subs' = subs \ {v}
  BY DEF Leave
<1>3. /\ q \in Viewer /\ q.pc = "left" /\ ~q.open /\ q.by = r.by
      /\ q.lost = r.lost /\ q.sent = r.sent /\ q.hist = r.hist /\ q.chan = r.chan
  BY <1>1 DEF Viewer, ViewerPc
<1> HIDE DEF q, r
<1>4. Whole(q) = Whole(r) /\ ~Follows(q)
  BY <1>3 DEF Whole, Follows
<1>5. Sound(q, count, phase, unstored)
  BY <1>1, <1>3, <1>4 DEF Sound, Station, Joined, Timely, Informed
<1> QED
  BY <1>2, <1>3, <1>5, ViewerBecomes

\* Fallback: the column has the output once the sink is retired, unless the write failed.
LEMMA FallbackKeeps ==
    ASSUME StreamInv, NEW v \in Viewers, Fallback(v)
    PROVE  StreamInv'
<1> DEFINE r == viewer[v]
<1>1. r \in Viewer /\ Sound(r, count, phase, unstored) /\ r.pc = "fallback" /\ ~r.open
      /\ subs = subs \ {v}
  BY Before DEF Fallback
<1>2. UNCHANGED <<phase, count, partial, lines, subs, column>>
  BY DEF Fallback, sink
<1>3. /\ output \in Seq(Line) /\ count \in Nat
      /\ output \in Seq(Nat) /\ lines \in Seq(Nat)
  <2>1. Line \subseteq Nat
    BY BoundsAssumption DEF Line
  <2>2. output \in Seq(Line) /\ lines \in Seq(Line) /\ count \in Nat
    BY DEF StreamInv, TypeOK
  <2> QED
    BY <2>1, <2>2, SeqMonotonic
<1>4. r.hist = <<>> /\ r.chan = <<>> /\ (r.by = "column" => phase = "retired")
      /\ r.by # "live"
  BY <1>1 DEF Sound, Station, Timely
<1>5. CASE Becomes(v, [r EXCEPT !.pc = "done", !.sent = output])
  <2> DEFINE q == [r EXCEPT !.pc = "done", !.sent = output]
  <2> HIDE DEF r
  <2>1. /\ q \in Viewer /\ q.pc = "done" /\ ~q.open /\ q.by = r.by
        /\ q.lost = r.lost /\ q.sent = output /\ q.hist = <<>> /\ q.chan = <<>>
    BY <1>1, <1>3, <1>4 DEF Viewer, ViewerPc
  <2> HIDE DEF q
  <2>2. Whole(q) = output
    BY <1>3, <2>1, OnlyPart
  <2>3. Rising(lines, count) /\ Covers(lines, q.lost, count)
    BY <1>3, RingCovers DEF StreamInv, SinkOK
  <2>4. Rising(output, count) /\ Joins(output, q.lost)
    <3>1. Joins(lines, q.lost)
      BY <1>3, <2>3, CoversJoins
    <3>2. output = lines \/ output = <<>>
      BY DEF StreamInv, SinkOK
    <3> QED
      BY <2>3, <3>1, <3>2, NoLines
  <2>5. q.by = "column" /\ ~unstored => Covers(output, q.lost, count)
    BY <1>4, <2>1, <2>3 DEF StreamInv, SinkOK
  <2>6. Timely(q, phase) /\ q.by # "live"
    BY <1>1, <1>4, <2>1 DEF Sound, Timely, Follows
  <2>7. Sound(q, count, phase, unstored)
    BY <2>1, <2>2, <2>4, <2>5, <2>6 DEF Sound, Station, Joined, Informed, Follows
  <2> QED
    BY <1>1, <1>2, <1>5, <2>1, <2>7, ViewerBecomes DEF r, q
<1>6. CASE Becomes(v, [r EXCEPT !.pc = "done", !.by = "unread"])
  <2> DEFINE q == [r EXCEPT !.pc = "done", !.by = "unread"]
  <2> HIDE DEF r
  <2>1. /\ q \in Viewer /\ q.pc = "done" /\ ~q.open /\ q.by = "unread"
        /\ q.lost = r.lost /\ q.sent = r.sent /\ q.hist = <<>> /\ q.chan = <<>>
    BY <1>1, <1>4 DEF Viewer, ViewerPc, Origin
  <2> HIDE DEF q
  <2>2. Whole(q) = Whole(r) /\ ~Follows(q)
    BY <1>4, <2>1 DEF Whole, Follows
  <2>3. Sound(q, count, phase, unstored)
    BY <1>1, <2>1, <2>2 DEF Sound, Station, Joined, Informed, Timely
  <2> QED
    BY <1>1, <1>2, <1>6, <2>1, <2>3, ViewerBecomes DEF r, q
<1> QED
  BY <1>5, <1>6 DEF Fallback

-----------------------------------------------------------------------------
(* Theorems about LogStream                                                *)

\* Nothing is written, nobody watches.
LEMMA StreamInit == Init => StreamInv
<1> SUFFICES ASSUME Init PROVE StreamInv
  OBVIOUS
<1>1. <<>> \in Seq(Line)
  BY EmptySeq
<1>2. TypeOK
  <2>1. NoViewer \in Viewer
    BY <1>1 DEF NoViewer, Viewer, ViewerPc, Origin
  <2>2. viewer \in [Viewers -> Viewer]
    BY <2>1 DEF Init
  <2>3. count \in 0 .. MaxLines /\ subs \subseteq Viewers
    BY BoundsAssumption DEF Init
  <2> QED
    BY <1>1, <2>2, <2>3 DEF Init, TypeOK
<1>3. SinkOK
  BY NoLines DEF Init, SinkOK
<1>4. OpenIffSubscribed
  BY DEF Init, OpenIffSubscribed, NoViewer
<1>5. ASSUME NEW v \in Viewers PROVE Sound(viewer[v], count, phase, unstored)
  <2>1. viewer[v] = NoViewer /\ count = 0
    BY DEF Init
  <2>2. Whole(NoViewer) = <<>>
    BY NothingYet DEF NoViewer
  <2>3. Joined(NoViewer, 0, unstored)
    BY <2>2, NoLines DEF Joined, Informed, Follows, NoViewer
  <2> QED
    BY <2>1, <2>3 DEF Sound, Station, Timely, Follows, NoViewer
<1> QED
  BY <1>2, <1>3, <1>4, <1>5 DEF StreamInv

\* Every step of the job and of a viewer keeps the invariant.
LEMMA StreamNext == StreamInv /\ [Next]_vars => StreamInv'
<1> SUFFICES ASSUME StreamInv, [Next]_vars PROVE StreamInv'
  OBVIOUS
<1>1. CASE WriteLine
  BY <1>1, WriteLineKeeps
<1>2. CASE CloseSink
  BY <1>2, CloseSinkKeeps
<1>3. CASE JobStarts \/ WritePiece \/ Store \/ StoreFails \/ Retire
  BY <1>3, PhaseKeeps
<1>4. ASSUME NEW v \in Viewers, Attach(v) \/ Watch(v) \/ ClientGone(v)
      PROVE  StreamInv'
  BY <1>4, AttachKeeps, SubscribeKeeps, SentKeeps, PassesKeeps, LeaveKeeps, FallbackKeeps DEF Watch
<1>5. CASE UNCHANGED vars
  BY <1>5 DEF vars, sink, column, StreamInv, TypeOK, SinkOK, OpenIffSubscribed
<1> QED
  BY <1>1, <1>2, <1>3, <1>4, <1>5 DEF Next

\* The invariant always holds.
THEOREM StreamInvariant == Spec => []StreamInv
BY StreamInit, StreamNext, PTL DEF Spec

\* Lines, channels and handlers have their types.
THEOREM StreamTyped == Spec => []TypeOK
<1>1. StreamInv => TypeOK
  BY DEF StreamInv
<1> QED
  BY <1>1, StreamInvariant, PTL

\* No channel is closed twice, sent on when closed, or forgotten open: Close and a
\* handler's cancel find in l.subs exactly the channels that are open.
THEOREM ClosedOnce == Spec => []OpenIffSubscribed
<1>1. StreamInv => OpenIffSubscribed
  BY DEF StreamInv
<1> QED
  BY <1>1, StreamInvariant, PTL

\* A viewer's lines are in order, and only lines that were dropped for it are missing
\* between them; one that is told that the job is complete has, up to dropped lines, all
\* that the ring or its first line promised, when the output could be written and read:
\* for a ring and a channel of any size.
THEOREM NothingElseMissing == Spec => []OnlyDropsMissing
<1>1. StreamInv => OnlyDropsMissing
  <2> SUFFICES ASSUME StreamInv, NEW v \in Viewers
               PROVE  /\ InOrder(v)
                      /\ viewer[v].pc = "done" /\ (viewer[v].by = "live" \/ (viewer[v].by = "column" /\ ~unstored))
                           => HasEnd(v)
    BY DEF OnlyDropsMissing
  <2> DEFINE r == viewer[v]
  <2>1. r \in Viewer /\ Sound(r, count, phase, unstored) /\ (r.open => r.pc # "done")
    BY Before
  <2>2. Stream(v) = Whole(r)
    BY DEF Stream, Whole
  <2>3. InOrder(v)
    BY <2>1, <2>2 DEF Sound, Joined, Rising, Joins, InOrder
  <2>4. ASSUME r.pc = "done", r.by = "live" \/ (r.by = "column" /\ ~unstored)
        PROVE  HasEnd(v)
    <3>1. Follows(r) /\ Informed(r, unstored)
      BY <2>4 DEF Follows, Informed
    <3>2. r.hist = <<>> /\ r.chan = <<>> /\ r.sent \in Seq(Nat)
      BY <2>1, <2>4, Fields DEF Sound, Station
    <3>3. Whole(r) = r.sent
      BY <3>2, OnlyPart
    <3>4. phase \notin {"pending", "running"}
      BY <2>1, <2>4, <3>1 DEF Sound, Timely
    <3>5. Covers(r.sent, r.lost, count)
      BY <2>1, <3>1, <3>3 DEF Sound, Joined
    <3> QED
      BY <3>4, <3>5 DEF Covers, HasEnd
  <2> QED
    BY <2>3, <2>4
<1> QED
  BY <1>1, StreamInvariant, PTL

-----------------------------------------------------------------------------
(* Theorems about Relay                                                    *)

\* No forward and no connection to begin with.
LEMMA BridgeInit ==
    /\ RelayInit => RelayTypeOK
    /\ RelayInit => NothingStray
<1>1. RelayInit => RelayTypeOK
  BY DEF RelayInit, RelayTypeOK
<1>2. ASSUME RelayInit
      PROVE  NothingStray
  <2>1. \A c \in Conns : pc[c] # "returned"
    BY <1>2 DEF RelayInit
  <2>2. \A f \in Fwds : fwd[f] = "new"
    BY <1>2 DEF RelayInit
  <2>3. \A a \in Addrs : forwards[a] = None /\ None \notin Fwds
    BY <1>2, NamesAssumption DEF RelayInit
  <2> QED
    BY <2>1, <2>2, <2>3 DEF NothingStray
<1> QED
  BY <1>1, <1>2

\* A socket that changes.
LEMMA SocketTyped ==
    ASSUME RelayTypeOK, NEW c \in Conns
    PROVE  /\ \A s \in {"client", "guest"}, x \in {"open", "ended"} :
                 [sock EXCEPT ![c][s] = x]
                     \in [Conns -> [Sides -> {"none", "open", "ended", "closed"}]]
           /\ [sock EXCEPT ![c] = [s \in Sides |-> "closed"]]
                     \in [Conns -> [Sides -> {"none", "open", "ended", "closed"}]]
           /\ WsConns \subseteq Conns /\ TcpConns \subseteq Conns
BY DEF RelayTypeOK, Sides, Conns

\* A loop.
LEMMA LoopTyped ==
    ASSUME RelayTypeOK, NEW c \in Conns, NEW d \in Dirs
    PROVE  \A x \in {"read", "write", "end"} :
               [loop EXCEPT ![c][d] = x]
                   \in [Conns -> [Dirs -> {"none", "read", "write", "end"}]]
BY DEF RelayTypeOK

\* What a handler leaves when it returns.
LEMMA ReturnsTyped ==
    ASSUME RelayTypeOK, NEW c \in Conns, Returns(c)
    PROVE  /\ pc' \in [Conns -> {"idle", "dial", "upgrade", "bridge", "returned"}]
           /\ sock' \in [Conns -> [Sides -> {"none", "open", "ended", "closed"}]]
BY DEF RelayTypeOK, Returns

\* Both loops start.
LEMMA BridgeTyped ==
    ASSUME RelayTypeOK, NEW c \in Conns, Bridge(c)
    PROVE  /\ pc' \in [Conns -> {"idle", "dial", "upgrade", "bridge", "returned"}]
           /\ loop' \in [Conns -> [Dirs -> {"none", "read", "write", "end"}]]
BY DEF RelayTypeOK, Bridge

\* The types, step by step.
LEMMA BridgeTypes ==
    ASSUME RelayTypeOK, [RelayNext]_relayVars
    PROVE  RelayTypeOK'
<1>1. ASSUME NEW a \in Addrs, NEW f \in Fwds, Start(a, f)
      PROVE  RelayTypeOK'
  <2>1. /\ fwd' \in [Fwds -> {"new", "open", "deaf", "closed"}]
        /\ forwards' \in [Addrs -> Fwds \cup {None}]
    <3>1. Closed(At({a})) \in [Fwds -> {"new", "open", "deaf", "closed"}]
      BY DEF Closed, RelayTypeOK
    <3>2. CASE forwards' = [forwards EXCEPT ![a] = f]
               /\ fwd' = [Closed(At({a})) EXCEPT ![f] = "open"]
      BY <3>1, <3>2 DEF RelayTypeOK
    <3>3. CASE forwards' = [forwards EXCEPT ![a] = None] /\ fwd' = Closed(At({a}))
      BY <3>1, <3>3 DEF RelayTypeOK
    <3> QED
      BY <1>1, <3>2, <3>3 DEF Start
  <2>2. UNCHANGED <<owner, pc, sock, loop>>
    BY <1>1 DEF Start, handler
  <2> QED
    BY <2>1, <2>2 DEF RelayTypeOK
<1>2. ASSUME NEW a \in Addrs, Stop(a)
      PROVE  RelayTypeOK'
  BY <1>2 DEF Stop, Closed, At, handler, RelayTypeOK
<1>3. CASE StopAll
  BY <1>3 DEF StopAll, Closed, At, handler, RelayTypeOK
<1>4. ASSUME NEW f \in Fwds, AcceptFails(f)
      PROVE  RelayTypeOK'
  BY <1>4 DEF AcceptFails, handler, RelayTypeOK
<1>5. ASSUME NEW f \in Fwds, NEW c \in TcpConns, Accept(f, c)
      PROVE  RelayTypeOK'
  BY <1>5 DEF Accept, RelayTypeOK, Conns, Sides
<1>6. ASSUME NEW c \in WsConns, Arrive(c) \/ Upgrade(c) \/ UpgradeFails(c)
      PROVE  RelayTypeOK'
  <2>1. CASE Arrive(c)
    BY <2>1 DEF Arrive, RelayTypeOK
  <2>2. CASE Upgrade(c)
    <3>1. c \in Conns
      BY DEF Conns
    <3> QED
      BY <2>2, <3>1, SocketTyped, BridgeTyped DEF Upgrade, RelayTypeOK
  <2>3. CASE UpgradeFails(c)
    <3>1. c \in Conns
      BY DEF Conns
    <3> QED
      BY <2>3, <3>1, ReturnsTyped DEF UpgradeFails, RelayTypeOK
  <2> QED
    BY <1>6, <2>1, <2>2, <2>3
<1>7. ASSUME NEW c \in Conns, Dial(c) \/ DialFails(c) \/ Return(c)
      PROVE  RelayTypeOK'
  <2>1. CASE Dial(c)
    <3>1. sock' \in [Conns -> [Sides -> {"none", "open", "ended", "closed"}]]
      BY <2>1, SocketTyped DEF Dial
    <3>2. CASE c \in TcpConns
      BY <2>1, <3>1, <3>2, BridgeTyped DEF Dial, RelayTypeOK
    <3>3. CASE c \notin TcpConns
      BY <2>1, <3>1, <3>3 DEF Dial, RelayTypeOK
    <3> QED
      BY <3>2, <3>3
  <2>2. CASE DialFails(c) \/ Return(c)
    BY <2>2, ReturnsTyped DEF DialFails, Return, RelayTypeOK
  <2> QED
    BY <1>7, <2>1, <2>2
<1>8. ASSUME NEW c \in TcpConns, Stopped(c)
      PROVE  RelayTypeOK'
  BY <1>8 DEF Stopped, Returns, RelayTypeOK, Conns, Sides
<1>9. ASSUME NEW c \in Conns, NEW s \in Sides, PeerEnds(c, s)
      PROVE  RelayTypeOK'
  BY <1>9, SocketTyped DEF PeerEnds, RelayTypeOK, Sides
<1>10. ASSUME NEW c \in Conns, NEW d \in Dirs,
              Read(c, d) \/ Written(c, d) \/ ReadFails(c, d) \/ WriteFails(c, d)
       PROVE  RelayTypeOK'
  <2>1. CASE Read(c, d) \/ Written(c, d)
    <3>1. loop' \in [Conns -> [Dirs -> {"none", "read", "write", "end"}]]
      BY <2>1, LoopTyped DEF Read, Written
    <3> QED
      BY <2>1, <3>1 DEF Read, Written, RelayTypeOK
  <2>2. CASE Ends(c, d)
    <3>1. sock' \in [Conns -> [Sides -> {"none", "open", "ended", "closed"}]]
      BY <2>2, SocketTyped DEF Ends, RelayTypeOK
    <3> QED
      BY <2>2, <3>1 DEF Ends, RelayTypeOK
  <2> QED
    BY <1>10, <2>1, <2>2 DEF ReadFails, WriteFails
<1>11. CASE UNCHANGED relayVars
  BY <1>11 DEF relayVars, handler, RelayTypeOK
<1> QED
  BY <1>1, <1>2, <1>3, <1>4, <1>5, <1>6, <1>7, <1>8, <1>9, <1>10, <1>11 DEF RelayNext

\* Connections, forwards, sockets and loops have their types.
THEOREM BridgesTyped == RelaySpec => []RelayTypeOK
<1>1. RelayInit => RelayTypeOK
  BY BridgeInit
<1> QED
  BY <1>1, BridgeTypes, PTL DEF RelaySpec

\* A listener is found where it was put, and closed when it is taken away.
LEMMA ListenersFound ==
    ASSUME RelayTypeOK, NothingStray,
           NEW A \in SUBSET Addrs, fwd' = Closed(At(A)),
           forwards' = [a \in Addrs |-> IF a \in A THEN None ELSE forwards[a]]
    PROVE  /\ \A f \in Fwds : fwd'[f] \in {"open", "deaf"} <=> \E a \in Addrs : forwards'[a] = f
           /\ \A a, b \in Addrs : forwards'[a] = forwards'[b] /\ forwards'[a] # None => a = b
<1>1. ASSUME NEW f \in Fwds
      PROVE  fwd'[f] \in {"open", "deaf"} <=> \E a \in Addrs : forwards'[a] = f
  <2>1. f # None
    BY NamesAssumption
  <2>2. CASE \E a \in A : forwards[a] = f
    <3>1. f \in At(A) /\ fwd'[f] = "closed"
      BY <2>1, <2>2 DEF At, Closed
    <3>2. \A a \in Addrs : forwards'[a] # f
      BY <2>1, <2>2 DEF NothingStray
    <3> QED
      BY <3>1, <3>2
  <2>3. CASE \A a \in A : forwards[a] # f
    <3>1. f \notin At(A) /\ fwd'[f] = fwd[f]
      BY <2>3 DEF At, Closed
    <3>2. \A a \in Addrs : forwards'[a] = f <=> forwards[a] = f
      BY <2>1, <2>3
    <3> QED
      BY <3>1, <3>2 DEF NothingStray
  <2> QED
    BY <2>2, <2>3
<1>2. ASSUME NEW a \in Addrs, NEW b \in Addrs, forwards'[a] = forwards'[b],
             forwards'[a] # None
      PROVE  a = b
  BY <1>2 DEF NothingStray
<1> QED
  BY <1>1, <1>2

\* Start, Stop, StopAll and the end of acceptLoop.
LEMMA ListenersKept ==
    ASSUME RelayTypeOK, NothingStray,
           \/ \E a \in Addrs, f \in Fwds : Start(a, f)
           \/ \E a \in Addrs : Stop(a)
           \/ StopAll
           \/ \E f \in Fwds : AcceptFails(f)
    PROVE  NothingStray'
<1>1. UNCHANGED <<pc, sock>>
  BY DEF Start, Stop, StopAll, AcceptFails, handler
<1>2. forwards \in [Addrs -> Fwds \cup {None}] /\ DOMAIN fwd = Fwds
      /\ None \notin Fwds
  BY NamesAssumption DEF RelayTypeOK
<1>3. ASSUME NEW A \in SUBSET Addrs, fwd' = Closed(At(A)),
             forwards' = [a \in Addrs |-> IF a \in A THEN None ELSE forwards[a]]
      PROVE  NothingStray'
  BY <1>1, <1>3, ListenersFound DEF NothingStray
<1>4. ASSUME NEW a \in Addrs, forwards' = [forwards EXCEPT ![a] = None]
      PROVE  forwards' = [b \in Addrs |-> IF b \in {a} THEN None ELSE forwards[b]]
  BY <1>2, <1>4
<1>5. ASSUME NEW a \in Addrs, NEW f \in Fwds, fwd[f] = "new",
             fwd' = [Closed(At({a})) EXCEPT ![f] = "open"],
             forwards' = [forwards EXCEPT ![a] = f]
      PROVE  NothingStray'
  <2>1. f # None /\ \A b \in Addrs : forwards[b] # f
    BY <1>2, <1>5 DEF NothingStray
  <2>2. forwards'[a] = f /\ \A b \in Addrs : b # a => forwards'[b] = forwards[b]
    BY <1>2, <1>5
  <2>3. fwd'[f] = "open"
    BY <1>5 DEF Closed
  <2>4. ASSUME NEW g \in Fwds, g # f
        PROVE  fwd'[g] = IF g = forwards[a] THEN "closed" ELSE fwd[g]
    BY <1>2, <1>5, <2>4 DEF Closed, At
  <2>5. ASSUME NEW g \in Fwds
        PROVE  fwd'[g] \in {"open", "deaf"} <=> \E b \in Addrs : forwards'[b] = g
    <3>1. CASE g = f
      BY <2>2, <2>3, <3>1
    <3>2. CASE g # f /\ g = forwards[a]
      <4>1. fwd'[g] = "closed"
        BY <2>4, <3>2
      <4>2. \A b \in Addrs : forwards'[b] # g
        BY <1>2, <2>2, <3>2 DEF NothingStray
      <4> QED
        BY <4>1, <4>2
    <3>3. CASE g # f /\ g # forwards[a]
      <4>1. fwd'[g] = fwd[g] /\ \A b \in Addrs : forwards'[b] = g <=> forwards[b] = g
        BY <2>2, <2>4, <3>3
      <4> QED
        BY <4>1 DEF NothingStray
    <3> QED
      BY <3>1, <3>2, <3>3
  <2>6. ASSUME NEW b \in Addrs, NEW c \in Addrs, forwards'[b] = forwards'[c],
               forwards'[b] # None
        PROVE  b = c
    BY <2>1, <2>2, <2>6 DEF NothingStray
  <2> QED
    BY <1>1, <2>5, <2>6 DEF NothingStray
<1>6. CASE \E a \in Addrs, f \in Fwds : Start(a, f)
  <2>1. PICK a \in Addrs, f \in Fwds : Start(a, f)
    BY <1>6
  <2>2. \/ /\ fwd[f] = "new"
           /\ fwd' = [Closed(At({a})) EXCEPT ![f] = "open"]
           /\ forwards' = [forwards EXCEPT ![a] = f]
        \/ /\ fwd' = Closed(At({a}))
           /\ forwards' = [forwards EXCEPT ![a] = None]
    BY <2>1 DEF Start
  <2>3. {a} \in SUBSET Addrs
    OBVIOUS
  <2> QED
    BY <1>3, <1>4, <1>5, <2>2, <2>3
<1>7. CASE \E a \in Addrs : Stop(a)
  <2>1. PICK a \in Addrs : Stop(a)
    BY <1>7
  <2>2. fwd' = Closed(At({a})) /\ forwards' = [forwards EXCEPT ![a] = None]
    BY <2>1 DEF Stop
  <2>3. {a} \in SUBSET Addrs
    OBVIOUS
  <2> QED
    BY <1>3, <1>4, <2>2, <2>3
<1>8. CASE StopAll
  <2>1. fwd' = Closed(At(Addrs)) /\ forwards' = [a \in Addrs |-> None]
    BY <1>8 DEF StopAll
  <2>2. forwards' = [a \in Addrs |-> IF a \in Addrs THEN None ELSE forwards[a]]
    BY <2>1
  <2> QED
    BY <1>3, <2>1, <2>2
<1>9. CASE \E f \in Fwds : AcceptFails(f)
  <2>1. PICK f \in Fwds : AcceptFails(f)
    BY <1>9
  <2>2. forwards' = forwards
        /\ \A g \in Fwds : fwd'[g] \in {"open", "deaf"} <=> fwd[g] \in {"open", "deaf"}
    BY <1>2, <2>1 DEF AcceptFails
  <2> QED
    BY <1>1, <2>2 DEF NothingStray
<1> QED
  BY <1>6, <1>7, <1>8, <1>9

\* A handler that returns closes what it has; one that has returned opens nothing.
LEMMA SocketsKept ==
    ASSUME RelayTypeOK, NothingStray, UNCHANGED <<fwd, forwards>>,
           \A c \in Conns, s \in Sides :
               pc'[c] = "returned" => \/ sock'[c][s] \in {"none", "closed"}
                                      \/ pc[c] = "returned" /\ sock'[c] = sock[c]
    PROVE  NothingStray'
BY DEF NothingStray

\* Every handler's steps.
LEMMA HandlersKeep ==
    ASSUME RelayTypeOK, NothingStray, NEW c \in Conns,
           \/ \E f \in Fwds : Accept(f, c)
           \/ Arrive(c) \/ Upgrade(c) \/ UpgradeFails(c)
           \/ Dial(c) \/ DialFails(c) \/ Return(c) \/ Stopped(c)
    PROVE  NothingStray'
<1>1. UNCHANGED <<fwd, forwards>>
  BY DEF Accept, Arrive, Upgrade, UpgradeFails, Dial,
         DialFails, Return, Stopped
<1>2. DOMAIN pc = Conns /\ DOMAIN sock = Conns
  BY DEF RelayTypeOK
<1>3. CASE Returns(c)
  <2>1. \A s \in Sides : sock'[c][s] \in {"none", "closed"}
    BY <1>2, <1>3 DEF Returns
  <2>2. \A e \in Conns : e # c => pc'[e] = pc[e] /\ sock'[e] = sock[e]
    BY <1>2, <1>3 DEF Returns
  <2> QED
    BY <1>1, <2>1, <2>2, SocketsKept
<1>4. CASE \/ \E f \in Fwds : Accept(f, c)
           \/ Arrive(c) \/ Upgrade(c) \/ Dial(c)
  <2>1. pc'[c] # "returned"
    BY <1>2, <1>4 DEF Accept, Arrive, Upgrade, Dial, Bridge
  <2>2. \A e \in Conns : e # c => pc'[e] = pc[e]
    BY <1>2, <1>4 DEF Accept, Arrive, Upgrade, Dial, Bridge
  <2>3. \A e \in Conns : e # c => sock'[e] = sock[e]
    BY <1>2, <1>4 DEF Accept, Arrive, Upgrade, Dial
  <2> QED
    BY <1>1, <2>1, <2>2, <2>3, SocketsKept
<1> QED
  BY <1>3, <1>4 DEF UpgradeFails, DialFails, Return, Stopped

\* Peers and loops: no socket is opened.
LEMMA LoopsKeep ==
    ASSUME RelayTypeOK, NothingStray, NEW c \in Conns,
           \/ \E s \in Sides : PeerEnds(c, s)
           \/ \E d \in Dirs : Read(c, d) \/ Written(c, d) \/ ReadFails(c, d) \/ WriteFails(c, d)
    PROVE  NothingStray'
<1>1. UNCHANGED <<fwd, forwards, pc>>
  BY DEF PeerEnds, Read, Written, ReadFails,
         WriteFails, Ends
<1>2. DOMAIN sock = Conns
  BY DEF RelayTypeOK
<1>3. CASE \E s \in Sides : PeerEnds(c, s)
  <2>1. PICK s \in Sides : PeerEnds(c, s)
    BY <1>3
  <2>2. pc[c] # "returned"
    BY <2>1 DEF PeerEnds, NothingStray
  <2>3. \A e \in Conns : e # c => sock'[e] = sock[e]
    BY <1>2, <2>1 DEF PeerEnds
  <2> QED
    BY <1>1, <2>2, <2>3, SocketsKept
<1>4. CASE sock' = sock
  BY <1>1, <1>4, SocketsKept
<1>5. CASE sock' = [sock EXCEPT ![c] = [s \in Sides |-> "closed"]]
  <2>1. \A s \in Sides : sock'[c][s] = "closed"
    BY <1>2, <1>5
  <2>2. \A e \in Conns : e # c => sock'[e] = sock[e]
    BY <1>2, <1>5
  <2> QED
    BY <1>1, <2>1, <2>2, SocketsKept
<1> QED
  BY <1>3, <1>4, <1>5 DEF Read, Written, ReadFails,
                          WriteFails, Ends

\* A handler that has returned, on whatever path, leaves no socket open, and a listener
\* that is open is in pf.forwards at one address, for any number of forwards and
\* connections.
THEOREM BridgesNothingStray == RelaySpec => []NothingStray
<1> DEFINE Inv == RelayTypeOK /\ NothingStray
<1>1. RelayInit => Inv
  BY BridgeInit
<1>2. Inv /\ [RelayNext]_relayVars => Inv'
  <2> SUFFICES ASSUME Inv, [RelayNext]_relayVars
               PROVE  NothingStray'
    BY BridgeTypes
  <2>1. CASE \/ \E a \in Addrs, f \in Fwds : Start(a, f)
             \/ \E a \in Addrs : Stop(a)
             \/ StopAll
             \/ \E f \in Fwds : AcceptFails(f)
    BY <2>1, ListenersKept
  <2>2. ASSUME NEW c \in Conns,
               \/ \E f \in Fwds : Accept(f, c)
               \/ Arrive(c) \/ Upgrade(c) \/ UpgradeFails(c)
               \/ Dial(c) \/ DialFails(c) \/ Return(c) \/ Stopped(c)
        PROVE  NothingStray'
    BY <2>2, HandlersKeep
  <2>3. ASSUME NEW c \in Conns,
               \/ \E s \in Sides : PeerEnds(c, s)
               \/ \E d \in Dirs : Read(c, d) \/ Written(c, d) \/ ReadFails(c, d) \/ WriteFails(c, d)
        PROVE  NothingStray'
    BY <2>3, LoopsKeep
  <2>4. CASE UNCHANGED relayVars
    BY <2>4 DEF relayVars, handler, NothingStray
  <2>5. TcpConns \subseteq Conns /\ WsConns \subseteq Conns
    BY DEF Conns
  <2> QED
    BY <2>1, <2>2, <2>3, <2>4, <2>5 DEF RelayNext
<1>3. Inv => NothingStray
  OBVIOUS
<1> QED
  BY <1>1, <1>2, <1>3, PTL DEF RelaySpec
=============================================================================

---------------------------- MODULE BoundedQueue ----------------------------
(***************************************************************************)
(* What the job queue promises to those who enqueue: jobs are admitted in  *)
(* the order of their arrival, at most Slots of them are active, a waiting *)
(* job may be withdrawn, each job settles at most once, and while the      *)
(* queue is open a free slot does not stay free while a job waits.         *)
(***************************************************************************)
EXTENDS Naturals, Sequences, FiniteSets, SequencesExt

CONSTANTS Jobs, Slots

VARIABLES
    place,      \* where each job is
    line,       \* the waiting jobs in the order of their arrival
    open        \* nobody has closed the queue

vars == <<place, line, open>>

Place == {"absent", "waiting", "active", "leaving", "settled", "lost"}

Active == {j \in Jobs : place[j] = "active"}

Init ==
    /\ place = [j \in Jobs |-> "absent"]
    /\ line = <<>>
    /\ open = TRUE

Submit(j) ==
    /\ place[j] = "absent"
    /\ place' = [place EXCEPT ![j] = "waiting"]
    /\ line' = Append(line, j)
    /\ UNCHANGED open

Admit ==
    /\ line # <<>> /\ Cardinality(Active) < Slots
    /\ place' = [place EXCEPT ![Head(line)] = "active"]
    /\ line' = Tail(line)
    /\ UNCHANGED open

Withdraw(i) ==
    /\ i \in DOMAIN line
    /\ place' = [place EXCEPT ![line[i]] = "leaving"]
    /\ line' = RemoveAt(line, i)
    /\ UNCHANGED open

Finish(j) ==
    /\ place[j] = "active"
    /\ place' = [place EXCEPT ![j] = "leaving"]
    /\ UNCHANGED <<line, open>>

Settle(j) ==
    /\ place[j] = "leaving"
    /\ place' = [place EXCEPT ![j] = "settled"]
    /\ UNCHANGED <<line, open>>

Shut ==
    /\ open' = FALSE
    /\ UNCHANGED <<place, line>>

\* A new process: a job that had been seen by the old one is not taken up again.
Reset ==
    /\ \E old \in SUBSET Jobs :
        /\ {j \in Jobs : place[j] # "absent"} \subseteq old
        /\ place' = [j \in Jobs |-> IF j \in old THEN "lost" ELSE "absent"]
    /\ line' = <<>>
    /\ open' = TRUE

Next ==
    \/ \E j \in Jobs : Submit(j) \/ Finish(j) \/ Settle(j)
    \/ \E i \in 1..Len(line) : Withdraw(i)
    \/ Admit \/ Shut \/ Reset

Safety == Init /\ [][Next]_vars

Fairness ==
    /\ WF_vars(open /\ Admit)
    /\ \A j \in Jobs : WF_vars(Settle(j))

Spec == Safety /\ Fairness
=============================================================================

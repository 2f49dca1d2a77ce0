-------------------------- MODULE PortBlocksProofs --------------------------
(***************************************************************************)
(* Proofs about PortBlocks for any number of VMs, deletions, restarts and  *)
(* configurations.                                                         *)
(***************************************************************************)
EXTENDS PortBlocks, WellFoundedInduction, TLAPS

-----------------------------------------------------------------------------
(* The allocator's scan                                                    *)

\* A nonempty set of naturals has a least element, and Min returns it.
LEMMA LeastExists ==
    ASSUME NEW S \in SUBSET Nat, S # {}
    PROVE  Min(S) \in S
  <1> DEFINE Less == OpToRel(<, Nat)
  <1>1. \E x \in S : \A y \in S : ~ (<<y, x>> \in Less)
    <2>1. IsWellFoundedOn(Less, Nat)
      BY NatLessThanWellFounded
    <2> HIDE DEF Less
    <2> QED
      BY <2>1, WFMin
  <1>2. \A x, y \in Nat : y < x => <<y, x>> \in Less
    BY DEF OpToRel
  <1> HIDE DEF Less
  <1>3. PICK x \in S : \A y \in S : ~ (y < x)
    BY <1>1, <1>2
  <1>4. \A y \in S : x <= y
    BY <1>3
  <1> QED
    BY <1>4 DEF Min

\* What Allocate returns is the base of a free block of the layout.
LEMMA ScanFindsFree ==
    ASSUME TypeOK, Free # {}
    PROVE  \E k \in Nat : /\ Block(Min(Free)) = config.base + k * config.size
                          /\ Block(Min(Free)) \in Nat
                          /\ Block(Min(Free)) \notin used
  <1>1. Min(Free) \in Free
    BY LeastExists, TopPortAssumption DEF Free
  <1>2. Min(Free) \in Nat /\ Block(Min(Free)) \notin used
    BY <1>1, TopPortAssumption DEF Free
  <1>3. config.base \in Nat /\ config.size \in Nat
    BY ConfigsAssumption DEF TypeOK
  <1>4. Block(Min(Free)) = config.base + Min(Free) * config.size
    BY DEF Block
  <1> HIDE DEF Free
  <1>5. Block(Min(Free)) \in Nat
    BY <1>2, <1>3, <1>4
  <1> QED
    BY <1>2, <1>4, <1>5

-----------------------------------------------------------------------------
(* Types                                                                   *)

\* Every step keeps the types.
LEMMA TypeNext ==
    ASSUME TypeOK, [Next]_vars
    PROVE  TypeOK'
  <1> USE DEF TypeOK
  <1>1. ASSUME NEW v \in Vms, Allocate(v)
        PROVE  TypeOK'
    <2>1. Block(Min(Free)) \in Nat
      BY <1>1, ScanFindsFree DEF Allocate
    <2> QED
      BY <1>1, <2>1 DEF Allocate
  <1>2. ASSUME NEW v \in Vms, Insert(v) \/ InsertFails(v)
        PROVE  TypeOK'
    BY <1>2 DEF Insert, InsertFails
  <1>3. ASSUME NEW d \in Deleters, NEW v \in Vms, DeleteBegin(d, v)
        PROVE  TypeOK'
    BY <1>3 DEF DeleteBegin
  <1>4. ASSUME NEW d \in Deleters, DeleteRow(d)
        PROVE  TypeOK'
    <2>1. deletion[d] \in [pc : {"remove", "release"}, vm : Vms]
      BY <1>4 DEF DeleteRow, Idle
    <2> QED
      BY <1>4, <2>1 DEF DeleteRow
  <1>5. ASSUME NEW d \in Deleters, Release(d)
        PROVE  TypeOK'
    BY <1>5 DEF Release
  <1>6. CASE Restart
    BY <1>6 DEF Restart
  <1>7. CASE UNCHANGED vars
    BY <1>7 DEF vars
  <1> QED
    BY <1>1, <1>2, <1>3, <1>4, <1>5, <1>6, <1>7 DEF Next

\* The types hold at the start.
LEMMA TypeInit == Init => TypeOK
  BY DEF Init, TypeOK

\* Whatever creations, deletions and restarts do, the allocator and the rows
\* keep their types (TypeOK).
THEOREM TypeCorrect == Spec => []TypeOK
  <1> QED
    BY TypeInit, TypeNext, PTL DEF Spec

-----------------------------------------------------------------------------
(* The ownership of blocks.  A deletion that has removed its row still     *)
(* answers for the block, alone, until it has released it: without that    *)
(* part a Release could free the block of another VM.                      *)

VmOf(d) == deletion[d].vm

LastOwners ==
    /\ \A d \in Releasing : /\ VmOf(d) \in Vms /\ stage[VmOf(d)] = "gone"
                            /\ block[VmOf(d)] \in used
    /\ \A d \in Releasing, v \in Held : block[v] # block[VmOf(d)]
    /\ \A d, e \in Releasing : d # e => block[VmOf(d)] # block[VmOf(e)]

Owned == BlocksAreExclusive /\ LastOwners /\ NoBlockLeaks

\* Nothing is allocated.
LEMMA OwnedInit == Init => Owned
  BY DEF Init, Owned, BlocksAreExclusive, LastOwners, NoBlockLeaks, Held, Releasing, Idle

\* Every step keeps each block with one owner: only one deletion deletes the row.
LEMMA OwnedNext ==
    ASSUME TypeOK, Owned, [Next]_vars
    PROVE  Owned'
  <1> USE DEF Owned, BlocksAreExclusive, LastOwners, NoBlockLeaks, Held, Releasing, VmOf, TypeOK
  <1>1. ASSUME NEW v \in Vms, Allocate(v)
        PROVE  Owned'
    <2> DEFINE base == Block(Min(Free))
    <2>1. base \notin used
      BY <1>1, ScanFindsFree DEF Allocate
    <2>2. /\ used' = used \cup {base}
          /\ block' = [block EXCEPT ![v] = base]
          /\ stage[v] = "new" /\ stage' = [stage EXCEPT ![v] = "allocated"]
          /\ deletion' = deletion
      BY <1>1 DEF Allocate
    <2> HIDE DEF base
    <2>3. Held' = Held \cup {v} /\ v \notin Held /\ Releasing' = Releasing
      BY <2>2
    <2>4. \A w \in Held : block'[w] = block[w]
      BY <2>2, <2>3
    <2>5. \A d \in Releasing : VmOf(d)' = VmOf(d) /\ VmOf(d) # v /\ block'[VmOf(d)] = block[VmOf(d)]
      BY <2>2
    <2>6. BlocksAreExclusive'
      BY <2>1, <2>2, <2>3, <2>4
    <2>7. LastOwners'
      BY <2>1, <2>2, <2>3, <2>4, <2>5
    <2>8. NoBlockLeaks'
      BY <2>2, <2>3, <2>4, <2>5
    <2> QED
      BY <2>6, <2>7, <2>8
  <1>2. ASSUME NEW v \in Vms, Insert(v)
        PROVE  Owned'
    <2>1. Held' = Held /\ Releasing' = Releasing
      BY <1>2 DEF Insert
    <2> QED
      BY <1>2, <2>1 DEF Insert
  <1>3. ASSUME NEW v \in Vms, InsertFails(v)
        PROVE  Owned'
    <2>1. Held' = Held \ {v} /\ v \in Held /\ Releasing' = Releasing
      BY <1>3 DEF InsertFails
    <2>2. BlocksAreExclusive'
      BY <1>3, <2>1 DEF InsertFails
    <2>3. LastOwners'
      BY <1>3, <2>1 DEF InsertFails
    <2>4. NoBlockLeaks'
      BY <1>3, <2>1 DEF InsertFails
    <2> QED
      BY <2>2, <2>3, <2>4
  <1>4. ASSUME NEW d \in Deleters, NEW v \in Vms, DeleteBegin(d, v)
        PROVE  Owned'
    <2>1. Held' = Held /\ Releasing' = Releasing
      BY <1>4 DEF DeleteBegin
    <2>2. \A e \in Releasing : VmOf(e)' = VmOf(e)
      BY <1>4 DEF DeleteBegin
    <2> QED
      BY <1>4, <2>1, <2>2 DEF DeleteBegin
  <1>5. ASSUME NEW d \in Deleters, DeleteRow(d), stage[VmOf(d)] = "listed"
        PROVE  Owned'
    <2> DEFINE v == VmOf(d)
    <2>1. v \in Vms /\ v \in Held /\ d \notin Releasing
      BY <1>5 DEF DeleteRow, Idle
    <2>2. /\ stage' = [stage EXCEPT ![v] = "gone"]
          /\ deletion' = [deletion EXCEPT ![d].pc = "release"]
          /\ used' = used /\ block' = block
      BY <1>5 DEF DeleteRow
    <2>3. \A e \in Deleters : VmOf(e)' = VmOf(e)
      BY <2>2
    <2>4. Held' = Held \ {v} /\ Releasing' = Releasing \cup {d}
      BY <2>1, <2>2
    <2>5. BlocksAreExclusive'
      BY <2>2, <2>4
    <2>6. LastOwners'
      BY <2>1, <2>2, <2>3, <2>4
    <2>7. NoBlockLeaks'
      BY <2>1, <2>2, <2>3, <2>4
    <2> QED
      BY <2>5, <2>6, <2>7
  <1>6. ASSUME NEW d \in Deleters, DeleteRow(d), stage[VmOf(d)] # "listed"
        PROVE  Owned'
    <2>1. Held' = Held /\ Releasing' = Releasing
      BY <1>6 DEF DeleteRow, Idle
    <2>2. \A e \in Releasing : VmOf(e)' = VmOf(e)
      BY <1>6 DEF DeleteRow
    <2> QED
      BY <1>6, <2>1, <2>2 DEF DeleteRow
  <1>7. ASSUME NEW d \in Deleters, Release(d)
        PROVE  Owned'
    <2>1. d \in Releasing /\ Releasing' = Releasing \ {d} /\ Held' = Held
      BY <1>7 DEF Release, Idle
    <2>2. used' = used \ {block[VmOf(d)]} /\ stage' = stage /\ block' = block
      BY <1>7 DEF Release
    <2>3. \A e \in Releasing \ {d} : VmOf(e)' = VmOf(e)
      BY <1>7 DEF Release
    <2>4. BlocksAreExclusive'
      BY <2>1, <2>2
    <2>5. LastOwners'
      BY <2>1, <2>2, <2>3
    <2>6. NoBlockLeaks'
      BY <2>1, <2>2, <2>3
    <2> QED
      BY <2>4, <2>5, <2>6
  <1>8. CASE Restart
    <2>1. Releasing' = {} /\ Held' = {v \in Vms : stage[v] = "listed"}
      BY <1>8 DEF Restart, Idle
    <2>2. used' = {block[v] : v \in Held'} /\ block' = block /\ Held' \subseteq Held
      BY <1>8, <2>1 DEF Restart
    <2>3. BlocksAreExclusive' /\ LastOwners'
      BY <2>1, <2>2
    <2>4. NoBlockLeaks'
      BY <2>1, <2>2
    <2> QED
      BY <2>3, <2>4
  <1>9. CASE UNCHANGED vars
    BY <1>9 DEF vars
  <1> QED
    BY <1>1, <1>2, <1>3, <1>4, <1>5, <1>6, <1>7, <1>8, <1>9 DEF Next

\* The strengthening always holds.
LEMMA OwnedAlways == Spec => []Owned
  <1> QED
    BY OwnedInit, OwnedNext, TypeCorrect, PTL DEF Spec

\* No port block is issued to two VMs, for any number of VMs, any races of
\* deletions and any restarts (BlocksAreExclusive).
THEOREM NoDoubleIssue == Spec => []BlocksAreExclusive
  <1>1. Owned => BlocksAreExclusive
    BY DEF Owned
  <1> QED
    BY <1>1, OwnedAlways, PTL

\* No port block is lost: what the allocator holds back belongs to a VM or to
\* one deletion that is about to release it (NoBlockLeaks).
THEOREM NothingLeaks == Spec => []NoBlockLeaks
  <1>1. Owned => NoBlockLeaks
    BY DEF Owned
  <1> QED
    BY <1>1, OwnedAlways, PTL

-----------------------------------------------------------------------------
(* The ports themselves.  The blocks of one configuration lie on one grid. *)
(* Its step, at least four, leaves neighbours at most one common port.     *)

OnGrid ==
    \A v \in Held : /\ under[v] \in Configs
                    /\ \E k \in Nat : block[v] = under[v].base + k * under[v].size

\* Different cells of a grid do not overlap.
LEMMA GridStep ==
    ASSUME NEW s \in Nat, NEW k \in Nat, NEW n \in Nat, k < n
    PROVE  k * s + s <= n * s
  <1>1. PICK m \in Nat : n = k + 1 + m
    <2>1. n - k - 1 \in Nat /\ n = k + 1 + (n - k - 1)
      OBVIOUS
    <2> QED
      BY <2>1
  <1>2. n * s = k * s + s + m * s
    BY <1>1
  <1>3. m * s \in Nat /\ k * s \in Nat
    OBVIOUS
  <1> QED
    BY <1>2, <1>3

\* Every block stays on the grid that it was taken from, whatever configuration follows.
LEMMA GridNext ==
    ASSUME TypeOK, OnGrid, [Next]_vars
    PROVE  OnGrid'
  <1> USE DEF OnGrid, Held, TypeOK
  <1>1. ASSUME NEW v \in Vms, Allocate(v)
        PROVE  OnGrid'
    <2>1. \E k \in Nat : block'[v] = config.base + k * config.size
      BY <1>1, ScanFindsFree DEF Allocate
    <2>2. /\ Held' = Held \cup {v} /\ under'[v] = config
          /\ \A w \in Vms \ {v} : block'[w] = block[w] /\ under'[w] = under[w]
      BY <1>1 DEF Allocate
    <2> QED
      BY <2>1, <2>2
  <1>2. ASSUME NEW v \in Vms, Insert(v) \/ InsertFails(v)
        PROVE  OnGrid'
    <2>1. Held' \subseteq Held /\ block' = block /\ under' = under
      BY <1>2 DEF Insert, InsertFails
    <2> QED
      BY <2>1
  <1>3. ASSUME NEW d \in Deleters,
               DeleteRow(d) \/ Release(d) \/ \E v \in Vms : DeleteBegin(d, v)
        PROVE  OnGrid'
    <2>1. Held' \subseteq Held /\ block' = block /\ under' = under
      BY <1>3 DEF DeleteRow, Release, DeleteBegin
    <2> QED
      BY <2>1
  <1>4. CASE Restart
    <2>1. Held' \subseteq Held /\ block' = block /\ under' = under
      BY <1>4 DEF Restart
    <2> QED
      BY <2>1
  <1>5. CASE UNCHANGED vars
    BY <1>5 DEF vars
  <1> QED
    BY <1>1, <1>2, <1>3, <1>4, <1>5 DEF Next

\* Different blocks of one configuration share no port but at the seams of the smallest size.
LEMMA GridSeparates ==
    ASSUME TypeOK, BlocksAreExclusive, OnGrid
    PROVE  NoSharedPorts
  <1> SUFFICES ASSUME NEW v \in Held, NEW w \in Held, v # w, under[v] = under[w],
                      NEW i \in Offsets, NEW j \in Offsets,
                      PortsOf(v)[i] = PortsOf(w)[j]
               PROVE  under[v].size = 4 /\ {i, j} = {offsetVNC, offsetFrida}
    BY DEF NoSharedPorts
  <1>1. PICK c \in Configs : under[v] = c
    BY DEF OnGrid
  <1> DEFINE b == c.base
             s == c.size
  <1>2. b \in Nat /\ s \in Nat /\ 4 <= s
    <2>1. b \in Nat /\ s \in Nat \ 0..3
      BY ConfigsAssumption
    <2> HIDE DEF b, s
    <2> QED
      BY <2>1
  <1>3. PICK k \in Nat : block[v] = b + k * s
    BY <1>1 DEF OnGrid
  <1>4. PICK n \in Nat : block[w] = b + n * s
    BY <1>1 DEF OnGrid
  <1>5. k # n
    BY <1>3, <1>4 DEF BlocksAreExclusive
  <1>6. (b + k * s) + i = (b + n * s) + j
    BY <1>3, <1>4 DEF PortsOf
  <1> HIDE DEF b, s
  <1>7. k * s \in Nat /\ n * s \in Nat
    BY <1>2, <1>3, <1>4
  <1>8. i \in 0..4 /\ j \in 0..4
    BY DEF Offsets, offsetVNC, offsetFrida
  <1>9. CASE k < n
    <2>1. k * s + s <= n * s
      BY <1>2, <1>3, <1>4, <1>9, GridStep
    <2>2. s = 4 /\ i = offsetFrida /\ j = offsetVNC
      BY <1>2, <1>6, <1>7, <1>8, <2>1 DEF offsetFrida, offsetVNC
    <2> QED
      BY <1>1, <2>2 DEF s
  <1>10. CASE n < k
    <2>1. n * s + s <= k * s
      BY <1>2, <1>3, <1>4, <1>10, GridStep
    <2>2. s = 4 /\ j = offsetFrida /\ i = offsetVNC
      BY <1>2, <1>6, <1>7, <1>8, <2>1 DEF offsetFrida, offsetVNC
    <2> QED
      BY <1>1, <2>2 DEF s
  <1> QED
    BY <1>3, <1>4, <1>5, <1>9, <1>10

\* VMs with blocks of one [ports] section share no host port, except that at the smallest
\* block_size the VNC port of one may be the Frida port of another, whatever sections,
\* restarts and deletions follow (NoSharedPorts).
THEOREM PortsStayApart == Spec => []NoSharedPorts
  <1>1. Init => OnGrid
    BY DEF Init, OnGrid, Held
  <1>2. TypeOK /\ OnGrid /\ [Next]_vars => OnGrid'
    BY GridNext
  <1>3. TypeOK /\ BlocksAreExclusive /\ OnGrid => NoSharedPorts
    BY GridSeparates
  <1> QED
    BY <1>1, <1>2, <1>3, TypeCorrect, NoDoubleIssue, PTL DEF Spec
=============================================================================

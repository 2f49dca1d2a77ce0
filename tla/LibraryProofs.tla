--------------------------- MODULE LibraryProofs ---------------------------
(***************************************************************************)
(* Proofs about Library for any number of entries and files.               *)
(***************************************************************************)
EXTENDS Library, TLAPS

\* The steps of one request, or of the deletion of its entry.
Acts(j) ==
    \/ Upload(j) \/ RegisterInsert(j) \/ Job(j) \/ DeleteRow(j) \/ DeleteFile(j)
    \/ \E p \in Managed : UploadCreate(j, p) \/ DownloadInsert(j, p)
    \/ \E p \in Paths : RegisterStat(j, p)

\* A step is a restart or one request's.
LEMMA NextActs == Next <=> Restart \/ \E j \in Ids : Acts(j)
  BY DEF Next, Acts

-----------------------------------------------------------------------------
(* The invariant                                                           *)

\* A request has its path from its first step on, and a transfer only ever
\* writes into the library's directory.
PathsGiven ==
    \A i \in Ids : /\ pc[i] = "new" => path[i] = NoPath /\ row[i] = "none"
                   /\ pc[i] # "new" => path[i] \in Paths
                   /\ pc[i] \notin {"new", "found", "done"} => path[i] \in Managed

\* Only a transfer at work has its file open.
HoldersWork == \A i \in holds : pc[i] \in {"copying", "fetching", "stray"}

\* Files elsewhere are as they were, and no file appears without a request.
FilesPlaced ==
    /\ \A p \in Outside : disk[p] = "whole"
    /\ \A p \in Managed : (\A j \in Ids : path[j] # p) => disk[p] = "absent"

\* Entries: READY is written last, and a deletion removes the row first.
RowsInStep ==
    \A i \in Ids : /\ pc[i] \in {"copying", "copied", "found"} => row[i] = "none"
                   /\ row[i] = "READY" => pc[i] = "done"
                   /\ i \in removing => row[i] = "gone"

\* How far the file of a request has come that has it for itself.
FileFollows(i) ==
    /\ pc[i] = "copying" => i \in holds /\ disk[path[i]] = "partial"
    /\ pc[i] \in {"copied", "found"} => disk[path[i]] = "whole"
    /\ pc[i] \in {"inserted", "pending", "running"} => disk[path[i]] = "absent"
    /\ pc[i] = "fetching" /\ row[i] # "gone" => i \in holds /\ disk[path[i]] = "partial"
    /\ pc[i] \in {"fetched", "seen"} /\ row[i] # "gone" => disk[path[i]] = "whole"
    /\ row[i] = "READY" => disk[path[i]] = "whole"

LibraryInv ==
    /\ TypeOK /\ PathsGiven /\ HoldersWork /\ FilesPlaced /\ RowsInStep
    /\ \A i \in Ids : Alone(i) => FileFollows(i)

\* The invariant holds of an empty library.
LEMMA InvInit == Init => LibraryInv
  BY PathsAssumption DEF Init, LibraryInv, TypeOK, PathsGiven, HoldersWork, FilesPlaced,
     RowsInStep, FileFollows, Pc, Contents, Paths

-----------------------------------------------------------------------------
(* What the step of one request does to the others                         *)

\* Only its own entry, its own place in the code, and the file it has named.
Frame(j) ==
    /\ \A k \in Ids \ {j} : pc'[k] = pc[k] /\ row'[k] = row[k] /\ path'[k] = path[k]
    /\ path'[j] = path[j] \/ (pc[j] = "new" /\ path[j] = NoPath)
    /\ \A p \in Paths : p # path'[j] => disk'[p] = disk[p]
    /\ \A k \in Ids \ {j} : path[k] # path'[j] => (k \in holds' <=> k \in holds)
    /\ holds' \subseteq holds \cup {j}
    /\ \A k \in Ids \ {j} : k \in removing' => k \in removing

\* A request's step changes its own entry and the file it has named only.
LEMMA ActsFrame ==
    ASSUME TypeOK, PathsGiven, NEW j \in Ids, Acts(j)
    PROVE  Frame(j)
  <1> USE DEF TypeOK, Frame, Goes, Inserts, files
  <1>1. ASSUME NEW p \in Managed, UploadCreate(j, p) PROVE Frame(j)
    BY <1>1 DEF UploadCreate, Open, PathsGiven, Paths
  <1>2. CASE UploadCopied(j)
    BY <1>2 DEF UploadCopied, CloseAs
  <1>3. CASE UploadFails(j)
    BY <1>3 DEF UploadFails, CloseAs, Remove
  <1>4. CASE UploadInsert(j)
    BY <1>4 DEF UploadInsert, Remove
  <1>5. ASSUME NEW p \in Paths, RegisterStat(j, p) PROVE Frame(j)
    BY <1>5 DEF RegisterStat, PathsGiven
  <1>6. CASE RegisterInsert(j)
    BY <1>6 DEF RegisterInsert
  <1>7. ASSUME NEW p \in Managed, DownloadInsert(j, p) PROVE Frame(j)
    BY <1>7 DEF DownloadInsert, PathsGiven, Paths
  <1>8. CASE DownloadEnqueue(j) \/ DownloadStart(j) \/ DownloadStat(j)
    BY <1>8 DEF DownloadEnqueue, DownloadStart, DownloadStat
  <1>9. CASE ToolOpens(j)
    BY <1>9 DEF ToolOpens, Open
  <1>10. CASE ToolFails(j) \/ ToolDone(j) \/ StrayEnds(j)
    BY <1>10 DEF ToolFails, ToolDone, StrayEnds, CloseAs
  <1>11. CASE DownloadMarks(j)
    BY <1>11 DEF DownloadMarks, UpdateRow
  <1>12. CASE DeleteRow(j)
    BY <1>12 DEF DeleteRow
  <1>13. CASE DeleteFile(j)
    BY <1>13 DEF DeleteFile, Remove
  <1> QED
    BY <1>1, <1>2, <1>3, <1>4, <1>5, <1>6, <1>7, <1>8, <1>9, <1>10, <1>11, <1>12, <1>13
       DEF Acts, Upload, Job

-----------------------------------------------------------------------------
(* Preservation                                                            *)

\* Closing a file leaves the files typed.
LEMMA CloseTypes ==
    ASSUME TypeOK, NEW j \in Ids, NEW outcome \in {"partial", "whole"}, CloseAs(j, outcome)
    PROVE  disk' \in [Paths -> Contents] /\ holds' \subseteq Ids
  BY DEF TypeOK, CloseAs, Contents

\* Types, part by part: of the conjuncts only those a step writes are used.
LEMMA TypeStep ==
    ASSUME TypeOK, PathsGiven, NEW j \in Ids, Acts(j)
    PROVE  TypeOK'
  <1> USE DEF TypeOK, Goes, Inserts, files, Pc, Contents
  <1>1. ASSUME NEW p \in Managed, UploadCreate(j, p) PROVE TypeOK'
    BY <1>1 DEF UploadCreate, Open, Paths
  <1>2. CASE UploadCopied(j)
    BY <1>2 DEF UploadCopied, CloseAs
  <1>3. CASE UploadFails(j)
    BY <1>3 DEF UploadFails, CloseAs, Remove
  <1>4. CASE UploadInsert(j)
    BY <1>4 DEF UploadInsert, Remove
  <1>5. ASSUME NEW p \in Paths, RegisterStat(j, p) PROVE TypeOK'
    BY <1>5 DEF RegisterStat
  <1>6. CASE RegisterInsert(j)
    BY <1>6 DEF RegisterInsert
  <1>7. ASSUME NEW p \in Managed, DownloadInsert(j, p) PROVE TypeOK'
    BY <1>7 DEF DownloadInsert, Paths
  <1>8. CASE DownloadEnqueue(j) \/ DownloadStart(j) \/ DownloadStat(j)
    <2>1. PICK to \in Pc : pc' = [pc EXCEPT ![j] = to]
      BY <1>8 DEF DownloadEnqueue, DownloadStart, DownloadStat
    <2> QED
      BY <1>8, <2>1 DEF DownloadEnqueue, DownloadStart, DownloadStat
  <1>9. CASE ToolOpens(j)
    BY <1>9 DEF ToolOpens, Open
  <1>10. CASE ToolFails(j) \/ ToolDone(j)
    <2>1. disk' \in [Paths -> Contents] /\ holds' \subseteq Ids
      BY <1>10, CloseTypes DEF ToolFails, ToolDone
    <2>2. pc' \in [Ids -> Pc] /\ UNCHANGED <<row, path, removing>>
      BY <1>10 DEF ToolFails, ToolDone
    <2> QED
      BY <2>1, <2>2
  <1>11. CASE StrayEnds(j)
    <2>1. disk' \in [Paths -> Contents] /\ holds' \subseteq Ids
      BY <1>11, CloseTypes DEF StrayEnds
    <2>2. pc' \in [Ids -> Pc] /\ UNCHANGED <<row, path, removing>>
      BY <1>11 DEF StrayEnds
    <2> QED
      BY <2>1, <2>2
  <1>12. CASE DownloadMarks(j)
    BY <1>12 DEF DownloadMarks, UpdateRow
  <1>13. CASE DeleteRow(j)
    BY <1>13 DEF DeleteRow
  <1>14. CASE DeleteFile(j)
    BY <1>14 DEF DeleteFile, Remove
  <1> QED
    BY <1>1, <1>2, <1>3, <1>4, <1>5, <1>6, <1>7, <1>8, <1>9, <1>10, <1>11, <1>12, <1>13, <1>14
       DEF Acts, Upload, Job

\* What the invariant says of the request that acts: PathsGiven, HoldersWork and
\* RowsInStep for j, and its file if it has it for itself.
OwnPart(j) ==
    /\ pc[j] = "new" => path[j] = NoPath /\ row[j] = "none"
    /\ pc[j] # "new" => path[j] \in Paths
    /\ pc[j] \notin {"new", "found", "done"} => path[j] \in Managed
    /\ j \in holds => pc[j] \in {"copying", "fetching", "stray"}
    /\ pc[j] \in {"copying", "copied", "found"} => row[j] = "none"
    /\ row[j] = "READY" => pc[j] = "done"
    /\ j \in removing => row[j] = "gone"
    /\ Alone(j) => FileFollows(j)

\* The first step of a request: it is alone with its file if nobody has it yet.
LEMMA OwnBegins ==
    ASSUME LibraryInv, NEW j \in Ids,
           \/ \E p \in Managed : UploadCreate(j, p) \/ DownloadInsert(j, p)
           \/ \E p \in Paths : RegisterStat(j, p)
    PROVE  OwnPart(j)'
  <1> USE DEF LibraryInv, TypeOK, PathsGiven, HoldersWork, RowsInStep, Goes, Inserts, files
  <1>1. ASSUME NEW p \in Paths, path' = [path EXCEPT ![j] = p], pc[j] = "new", Alone(j)'
        PROVE  \A k \in Ids : path[k] # p
    BY <1>1, PathsAssumption DEF Alone
  <1>2. ASSUME NEW p \in Managed, UploadCreate(j, p)
        PROVE  OwnPart(j)'
    <2>1. p \in Paths /\ \A k \in holds : k \in Ids
      BY DEF Paths
    <2>2. Alone(j)' => ~\E k \in holds : path[k] = p
      BY <1>1, <1>2, <2>1 DEF UploadCreate
    <2>3. Alone(j)' => disk'[p] = "partial"
      <3>1. disk' = [disk EXCEPT ![p] = IF \E k \in holds : path[k] = p THEN "mixed" ELSE "partial"]
        BY <1>2 DEF UploadCreate, Open
      <3> QED
        BY <2>1, <2>2, <3>1
    <2>4. j \in holds' /\ pc'[j] = "copying" /\ path'[j] = p /\ row'[j] = "none" /\ j \notin removing'
      BY <1>2 DEF UploadCreate, Open
    <2> QED
      BY <2>1, <2>3, <2>4 DEF OwnPart, FileFollows
  <1>3. ASSUME NEW p \in Managed, DownloadInsert(j, p)
        PROVE  OwnPart(j)'
    <2>1. Alone(j)' => disk'[p] = "absent"
      BY <1>1, <1>3 DEF DownloadInsert, FilesPlaced, Paths
    <2> QED
      BY <1>3, <2>1 DEF DownloadInsert, OwnPart, FileFollows, Paths
  <1>4. ASSUME NEW p \in Paths, RegisterStat(j, p)
        PROVE  OwnPart(j)'
    <2>1. Alone(j)' => disk'[p] = "whole"
      BY <1>1, <1>4 DEF RegisterStat, FilesPlaced, Paths
    <2> QED
      BY <1>4, <2>1 DEF RegisterStat, OwnPart, FileFollows
  <1> QED
    BY <1>2, <1>3, <1>4

\* Its later steps.  Its path stays, and so does being alone with it.
LEMMA OwnGoesOn ==
    ASSUME LibraryInv, NEW j \in Ids,
           Upload(j) \/ RegisterInsert(j) \/ Job(j) \/ DeleteRow(j) \/ DeleteFile(j)
    PROVE  OwnPart(j)' /\ UNCHANGED path
  <1> USE DEF LibraryInv, TypeOK, PathsGiven, HoldersWork, RowsInStep, OwnPart, Goes, Inserts, files
  <1>1. UNCHANGED path => (Alone(j)' => FileFollows(j))
    BY DEF Alone
  <1>2. CASE UploadCopied(j)
    BY <1>1, <1>2 DEF UploadCopied, CloseAs, FileFollows, Paths
  <1>3. CASE UploadFails(j)
    BY <1>1, <1>3 DEF UploadFails, CloseAs, Remove, FileFollows, Paths
  <1>4. CASE UploadInsert(j)
    BY <1>1, <1>4 DEF UploadInsert, Remove, FileFollows
  <1>5. CASE RegisterInsert(j)
    BY <1>1, <1>5 DEF RegisterInsert, FileFollows
  <1>6. CASE DownloadEnqueue(j) \/ DownloadStart(j)
    BY <1>1, <1>6 DEF DownloadEnqueue, DownloadStart, FileFollows
  <1>7. CASE ToolOpens(j)
    <2>1. Alone(j)' /\ pc[j] = "running" => \A k \in holds : path[k] # path[j]
      BY <1>7 DEF ToolOpens, Alone
    <2> QED
      BY <1>1, <1>7, <2>1 DEF ToolOpens, Open, FileFollows, Paths
  <1>8. CASE ToolFails(j)
    BY <1>1, <1>8 DEF ToolFails, CloseAs, FileFollows
  <1>9. CASE ToolDone(j)
    BY <1>1, <1>9 DEF ToolDone, CloseAs, FileFollows, Paths
  <1>10. CASE DownloadStat(j)
    BY <1>1, <1>10 DEF DownloadStat, FileFollows
  <1>11. CASE DownloadMarks(j)
    BY <1>1, <1>11 DEF DownloadMarks, UpdateRow, Listed, FileFollows
  <1>12. CASE StrayEnds(j)
    BY <1>1, <1>12 DEF StrayEnds, CloseAs, FileFollows
  <1>13. CASE DeleteRow(j)
    BY <1>1, <1>13 DEF DeleteRow, Listed, FileFollows
  <1>14. CASE DeleteFile(j)
    BY <1>1, <1>14 DEF DeleteFile, Remove, FileFollows, Paths
  <1> QED
    BY <1>2, <1>3, <1>4, <1>5, <1>6, <1>7, <1>8, <1>9, <1>10, <1>11, <1>12, <1>13, <1>14
       DEF Upload, Job

\* The others: a request that is alone with its file is not disturbed.
LEMMA OtherPart ==
    ASSUME LibraryInv, NEW j \in Ids, Frame(j), NEW i \in Ids \ {j}
    PROVE  OwnPart(i)'
  <1> USE DEF LibraryInv, TypeOK, PathsGiven, HoldersWork, RowsInStep
  <1>1. pc'[i] = pc[i] /\ row'[i] = row[i] /\ path'[i] = path[i]
    BY DEF Frame
  <1>2. (i \in holds' => i \in holds) /\ (i \in removing' => i \in removing)
    BY DEF Frame
  <1>3. ASSUME Alone(i)', pc[i] # "new"
        PROVE  FileFollows(i)'
    <2>1. path'[j] # path[i]
      BY <1>1, <1>3 DEF Alone
    <2>2. Alone(i)
      BY <1>1, <1>3, PathsAssumption DEF Alone, Frame
    <2>3. disk'[path[i]] = disk[path[i]] /\ (i \in holds' <=> i \in holds)
      BY <1>3, <2>1 DEF Frame
    <2> QED
      BY <1>1, <2>2, <2>3 DEF FileFollows
  <1>4. pc[i] = "new" => FileFollows(i)'
    BY <1>1 DEF FileFollows
  <1> QED
    BY <1>1, <1>2, <1>3, <1>4 DEF OwnPart

\* Files outside are never opened for writing, nor removed; a file that appears
\* is that of a request.
LEMMA PlacedStep ==
    ASSUME LibraryInv, NEW j \in Ids, Acts(j)
    PROVE  FilesPlaced' /\ \A p \in Outside : disk'[p] = disk[p]
  <1> USE DEF LibraryInv, TypeOK, PathsGiven
  <1>1. Frame(j)
    BY ActsFrame
  <1>2. ASSUME NEW p \in Managed, \A k \in Ids : path'[k] # p
        PROVE  disk'[p] = "absent"
    <2>1. \A k \in Ids : path[k] # p
      BY <1>1, <1>2, PathsAssumption DEF Frame, Paths
    <2> QED
      BY <1>1, <1>2, <2>1 DEF Frame, FilesPlaced, Paths
  <1>3. UNCHANGED disk \/ path'[j] \in Managed
    <2>1. ASSUME NEW p \in Managed, UploadCreate(j, p) \/ DownloadInsert(j, p)
          PROVE  path'[j] \in Managed
      BY <2>1 DEF UploadCreate, DownloadInsert
    <2>2. ASSUME NEW p \in Paths, RegisterStat(j, p)
          PROVE  UNCHANGED disk
      BY <2>2 DEF RegisterStat, files
    <2>3. CASE Upload(j) \/ Job(j)
      BY <2>3 DEF Upload, UploadCopied, UploadFails, UploadInsert, Job, DownloadEnqueue,
                  DownloadStart, ToolOpens, ToolFails, ToolDone, DownloadStat, DownloadMarks,
                  StrayEnds, Goes, files
    <2>4. CASE RegisterInsert(j) \/ DeleteRow(j)
      BY <2>4 DEF RegisterInsert, DeleteRow, files
    <2>5. CASE DeleteFile(j)
      BY <2>5 DEF DeleteFile, files
    <2> QED
      BY <2>1, <2>2, <2>3, <2>4, <2>5 DEF Acts
  <1>4. ASSUME NEW p \in Outside PROVE disk'[p] = disk[p]
    BY <1>1, <1>3, PathsAssumption DEF Frame, Paths
  <1> QED
    BY <1>2, <1>4 DEF FilesPlaced

\* The invariant, request by request.
LEMMA InvParts ==
    LibraryInv <=> TypeOK /\ FilesPlaced /\ \A i \in Ids : OwnPart(i)
  BY DEF LibraryInv, TypeOK, PathsGiven, HoldersWork, RowsInStep, OwnPart

\* One request steps: its part and those of the others hold.
LEMMA InvStep ==
    ASSUME LibraryInv, NEW j \in Ids, Acts(j)
    PROVE  LibraryInv'
  <1>1. TypeOK /\ PathsGiven
    BY DEF LibraryInv
  <1>2. TypeOK' /\ Frame(j)
    BY <1>1, TypeStep, ActsFrame
  <1>3. OwnPart(j)'
    BY OwnBegins, OwnGoesOn DEF Acts
  <1>4. \A i \in Ids : OwnPart(i)'
    BY <1>2, <1>3, OtherPart
  <1>5. FilesPlaced'
    BY PlacedStep
  <1> QED
    BY <1>2, <1>4, <1>5 DEF LibraryInv, TypeOK, PathsGiven, HoldersWork, RowsInStep, OwnPart

\* The end of the process leaves rows and files as they are.
LEMMA InvRestart ==
    ASSUME LibraryInv, Restart
    PROVE  LibraryInv'
  <1>1. PICK strays \in SUBSET {i \in Ids : pc[i] = "fetching"} :
            /\ pc' = [i \in Ids |-> CASE i \in strays           -> "stray"
                                      [] pc[i] \in {"new", "stray"} -> pc[i]
                                      [] OTHER                  -> "done"]
            /\ holds' = {i \in holds : pc'[i] = "stray"}
    BY DEF Restart
  <1>2. \A i \in Ids : \/ pc'[i] = "stray" /\ pc[i] \in {"fetching", "stray"}
                       \/ pc'[i] = "new" /\ pc[i] = "new"
                       \/ pc'[i] = "done" /\ pc[i] # "new"
    BY <1>1
  <1>3. UNCHANGED <<row, path, disk>> /\ removing' = {}
    BY DEF Restart
  <1>4. TypeOK'
    BY <1>1, <1>2, <1>3 DEF LibraryInv, TypeOK, Pc
  <1>5. PathsGiven' /\ HoldersWork' /\ FilesPlaced' /\ RowsInStep'
    BY <1>1, <1>2, <1>3 DEF LibraryInv, TypeOK, PathsGiven, HoldersWork, FilesPlaced, RowsInStep
  <1>6. ASSUME NEW i \in Ids, Alone(i)' PROVE FileFollows(i)'
    BY <1>2, <1>3, <1>6 DEF LibraryInv, FileFollows, Alone
  <1> QED
    BY <1>4, <1>5, <1>6 DEF LibraryInv

\* Every step keeps the invariant.
LEMMA InvNext == LibraryInv /\ [Next]_vars => LibraryInv'
  <1>1. LibraryInv /\ UNCHANGED vars => LibraryInv'
    BY DEF vars, LibraryInv, TypeOK, PathsGiven, HoldersWork, FilesPlaced, RowsInStep,
           Alone, FileFollows
  <1> QED
    BY <1>1, InvStep, InvRestart, NextActs

-----------------------------------------------------------------------------
(* Theorems                                                                *)

\* The strengthening is an invariant: each request keeps to its file and its row,
\* and, when it is alone with the file, the file follows the request.
THEOREM InvHolds == Spec => []LibraryInv
  BY InvInit, InvNext, PTL DEF Spec

\* Every variable keeps its type (TypeOK).
THEOREM TypeCorrect == Spec => []TypeOK
  <1>1. LibraryInv => TypeOK
    BY DEF LibraryInv
  <1> QED
    BY <1>1, InvHolds, PTL

\* A READY entry that shares its file with no other request has its whole file
\* (ReadyIsUsable), whatever transfers, jobs, deletions and crashes do.
THEOREM ReadyIsPresent == Spec => []ReadyIsUsable
  <1>1. LibraryInv => ReadyIsUsable
    BY DEF LibraryInv, FileFollows, ReadyIsUsable
  <1> QED
    BY <1>1, InvHolds, PTL

\* No request ever changes a file outside the library's directory
\* (OutsideUntouched).
THEOREM RegisteredStay == Spec => OutsideUntouched
  <1>1. LibraryInv /\ [Next]_vars => [\A p \in Outside : disk'[p] = disk[p]]_vars
    BY PlacedStep, NextActs DEF Restart, vars
  <1> QED
    BY <1>1, InvHolds, PTL DEF Spec, OutsideUntouched

\* What has been deleted from the table does not come back (DeletedForGood):
\* the INSERT of a request comes before, and UPDATE finds no row.
THEOREM DeletionsLast == Spec => DeletedForGood
  <1>1. ASSUME LibraryInv, NEW j \in Ids, Acts(j), row[j] = "gone"
        PROVE  row'[j] = "gone"
    BY <1>1 DEF LibraryInv, TypeOK, PathsGiven, RowsInStep, Acts, Upload, UploadCreate, UploadCopied,
                UploadFails, UploadInsert, RegisterStat, RegisterInsert, DownloadInsert, Job,
                DownloadEnqueue, DownloadStart, ToolOpens, ToolFails, ToolDone, DownloadStat,
                DownloadMarks, UpdateRow, Listed, StrayEnds, DeleteRow, DeleteFile,
                Goes, Inserts
  <1>2. ASSUME LibraryInv, NEW j \in Ids, Acts(j), NEW i \in Ids \ {j}
        PROVE  row'[i] = row[i]
    BY <1>2, ActsFrame DEF LibraryInv, Frame
  <1>3. LibraryInv /\ [Next]_vars => [\A i \in Ids : row[i] = "gone" => row'[i] = "gone"]_vars
    BY <1>1, <1>2, NextActs DEF Restart, vars
  <1> QED
    BY <1>3, InvHolds, PTL DEF Spec, DeletedForGood
=============================================================================

------------------------------- MODULE Library -------------------------------
(***************************************************************************)
(* The IPSW library of src/internal/ipsw: rows of the ipsws table, and the *)
(* firmware files they point to.                                           *)
(*                                                                         *)
(* A row and its file are never changed together, nothing is locked, and   *)
(* the file is named by the client: an upload by its file name, a download *)
(* by the last part of its URL.  Two entries may have the same file, a     *)
(* deletion may meet a transfer under way, and the process may end between *)
(* any two steps.  One step of the model is one SQL statement, one system  *)
(* call on the file, or one event of the transfer.                         *)
(***************************************************************************)
EXTENDS Naturals

CONSTANTS
    Ids,        \* bound: the uuids drawn; each is one entry and one request
    Managed,    \* paths in the library's directory
    Outside     \* paths elsewhere, where a file is registered in place

Paths == Managed \cup Outside
NoPath == "nopath"

ASSUME PathsAssumption == Managed \cap Outside = {} /\ NoPath \notin Paths

(***************************************************************************)
(* Where the request that owns an id is.                                   *)
(*   upload:    copying, copied                                            *)
(*   register:  found                                                      *)
(*   download:  inserted, pending (in the job queue), running (the job has *)
(*     begun), fetching (the tool has its file), fetched, seen (Stat), failed *)
(*   stray: a tool that outlived the server                                *)
(***************************************************************************)
Pc == {"new", "copying", "copied", "found",
       "inserted", "pending", "running", "fetching", "fetched", "seen", "failed",
       "stray", "done"}

VARIABLES
    row,        \* status of the entry: "none" before its INSERT, "gone" after its DELETE
    path,       \* file_path, as soon as the request has made it up
    pc,         \* progress of the request, see above
    disk,       \* what is at each path, see Contents
    holds,      \* transfers that have the file that is now at their path open
    removing    \* deletions between the DELETE and os.Remove

vars == <<row, path, pc, disk, holds, removing>>

\* "whole": all one transfer has written, and nothing else.
Contents == {"absent", "partial", "whole", "mixed"}

Listed(i) == row[i] \notin {"none", "gone"}

Init ==
    /\ row = [i \in Ids |-> "none"]
    /\ path = [i \in Ids |-> NoPath]
    /\ pc = [i \in Ids |-> "new"]
    /\ disk = [p \in Paths |-> IF p \in Managed THEN "absent" ELSE "whole"]
    /\ holds = {} /\ removing = {}

-----------------------------------------------------------------------------
(* Files                                                                   *)

\* os.Create, curl -o: the file is truncated; whoever has it open writes on.
Open(i, p) ==
    /\ disk' = [disk EXCEPT ![p] = IF \E j \in holds : path[j] = p THEN "mixed" ELSE "partial"]
    /\ holds' = holds \cup {i}

\* The transfer ends, complete or not.
CloseAs(i, outcome) ==
    /\ disk' = IF i \in holds /\ disk[path[i]] = "partial"
               THEN [disk EXCEPT ![path[i]] = outcome] ELSE disk
    /\ holds' = holds \ {i}

\* os.Remove: those who have the file open write on, into a file without a name.
Remove(p) ==
    /\ disk' = [disk EXCEPT ![p] = "absent"]
    /\ holds' = {j \in holds : path[j] # p}

Goes(i, from, to) == pc[i] = from /\ pc' = [pc EXCEPT ![i] = to]
Inserts(i, status) == row' = [row EXCEPT ![i] = status]

files == <<disk, holds>>

-----------------------------------------------------------------------------
(* SaveUpload and Register                                                 *)

UploadCreate(i, p) ==
    /\ Goes(i, "new", "copying")
    /\ path' = [path EXCEPT ![i] = p]
    /\ Open(i, p)
    /\ UNCHANGED <<row, removing>>

UploadCopied(i) ==
    /\ Goes(i, "copying", "copied")
    /\ CloseAs(i, "whole")
    /\ UNCHANGED <<row, path, removing>>

\* A failed copy removes whatever is at the path; a failed Close leaves it.
UploadFails(i) ==
    /\ Goes(i, "copying", "done")
    /\ Remove(path[i]) \/ CloseAs(i, "partial")
    /\ UNCHANGED <<row, path, removing>>

\* Mutant: the entry is inserted before the copy.
UploadInsertEarly(i) ==
    /\ Goes(i, "copying", "copied") /\ Inserts(i, "READY")
    /\ UNCHANGED <<path, files, removing>>

UploadInsert(i) ==
    /\ Goes(i, "copied", "done")
    /\ \/ Inserts(i, "READY") /\ UNCHANGED files
       \/ Remove(path[i]) /\ UNCHANGED row
    /\ UNCHANGED <<path, removing>>

RegisterStat(i, p) ==
    /\ disk[p] # "absent"
    /\ Goes(i, "new", "found")
    /\ path' = [path EXCEPT ![i] = p]
    /\ UNCHANGED <<row, files, removing>>

RegisterInsert(i) ==
    /\ Goes(i, "found", "done")
    /\ Inserts(i, "READY") \/ UNCHANGED row
    /\ UNCHANGED <<path, files, removing>>

-----------------------------------------------------------------------------
(* Download and its job                                                    *)

DownloadInsert(i, p) ==
    /\ Goes(i, "new", "inserted")
    /\ path' = [path EXCEPT ![i] = p]
    /\ Inserts(i, "DOWNLOADING")
    /\ UNCHANGED <<files, removing>>

\* Without a job the entry is marked ERROR.
DownloadEnqueue(i) ==
    /\ Goes(i, "inserted", "pending") \/ Goes(i, "inserted", "failed")
    /\ UNCHANGED <<row, path, files, removing>>

\* A waiting job may be cancelled: its function never runs.
DownloadStart(i) ==
    /\ Goes(i, "pending", "running") \/ Goes(i, "pending", "done")
    /\ UNCHANGED <<row, path, files, removing>>

\* curl truncates the file, or makes it; aria2c writes beside one that is there.
ToolOpens(i) ==
    /\ Goes(i, "running", "fetching")
    /\ \/ Open(i, path[i])
       \/ disk[path[i]] # "absent" /\ UNCHANGED files
    /\ UNCHANGED <<row, path, removing>>

\* The tool reports failure, or the job is cancelled; a partial file stays.
ToolFails(i) ==
    /\ Goes(i, "running", "failed") \/ Goes(i, "fetching", "failed")
    /\ CloseAs(i, "partial")
    /\ UNCHANGED <<row, path, removing>>

ToolDone(i) ==
    /\ Goes(i, "fetching", "fetched")
    /\ CloseAs(i, "whole")
    /\ UNCHANGED <<row, path, removing>>

DownloadStat(i) ==
    /\ Goes(i, "fetched", IF disk[path[i]] = "absent" THEN "failed" ELSE "seen")
    /\ UNCHANGED <<row, path, files, removing>>

\* Mutant: update inserts a row that is not there.
UpsertRow(i, status) == Inserts(i, status) \/ UNCHANGED row

\* store.update: a row that is gone is left so; its error is dropped.
UpdateRow(i, status) == (Listed(i) /\ Inserts(i, status)) \/ UNCHANGED row

\* Mutant: the status of a job.
DownloadMarksAsJob(i) ==
    /\ \/ Goes(i, "seen", "done") /\ UpdateRow(i, "COMPLETED")
       \/ Goes(i, "failed", "done") /\ UpdateRow(i, "FAILED")
    /\ UNCHANGED <<path, files, removing>>

DownloadMarks(i) ==
    /\ \/ Goes(i, "seen", "done") /\ UpdateRow(i, "READY")
       \/ Goes(i, "failed", "done") /\ UpdateRow(i, "ERROR")
    /\ UNCHANGED <<path, files, removing>>

-----------------------------------------------------------------------------
(* Delete, and the end of the process                                      *)

\* Delete reads the row before: a second deletion ends with ErrNotFound.
DeleteRow(i) ==
    /\ Listed(i)
    /\ Inserts(i, "gone")
    /\ removing' = removing \cup {i}
    /\ UNCHANGED <<path, pc, files>>

\* Mutant: whatever the path, the file is removed.
DeleteAnyFile(i) ==
    /\ i \in removing
    /\ removing' = removing \ {i}
    /\ Remove(path[i])
    /\ UNCHANGED <<row, path, pc>>

DeleteFile(i) ==
    /\ i \in removing
    /\ removing' = removing \ {i}
    /\ IF path[i] \in Managed THEN Remove(path[i]) ELSE UNCHANGED files
    /\ UNCHANGED <<row, path, pc>>

\* The download tool has a session of its own and may live on.  Nothing looks
\* at the library's rows or files when the next process starts.
Restart ==
    /\ \E strays \in SUBSET {i \in Ids : pc[i] = "fetching"} :
        /\ pc' = [i \in Ids |-> CASE i \in strays           -> "stray"
                                  [] pc[i] \in {"new", "stray"} -> pc[i]
                                  [] OTHER                  -> "done"]
        /\ holds' = {i \in holds : pc'[i] = "stray"}
    /\ removing' = {}
    /\ UNCHANGED <<row, path, disk>>

StrayEnds(i) ==
    /\ Goes(i, "stray", "done")
    /\ \E outcome \in {"partial", "whole"} : CloseAs(i, outcome)
    /\ UNCHANGED <<row, path, removing>>

-----------------------------------------------------------------------------
Upload(i) == UploadCopied(i) \/ UploadFails(i) \/ UploadInsert(i)

Job(i) == \/ DownloadEnqueue(i) \/ DownloadStart(i) \/ ToolOpens(i) \/ ToolFails(i)
          \/ ToolDone(i) \/ DownloadStat(i) \/ DownloadMarks(i) \/ StrayEnds(i)

Next ==
    \/ \E i \in Ids : Upload(i) \/ RegisterInsert(i) \/ Job(i) \/ DeleteRow(i) \/ DeleteFile(i)
    \/ \E i \in Ids, p \in Managed : UploadCreate(i, p) \/ DownloadInsert(i, p)
    \/ \E i \in Ids, p \in Paths : RegisterStat(i, p)
    \/ Restart

Spec == Init /\ [][Next]_vars

-----------------------------------------------------------------------------
(* Properties                                                              *)

TypeOK ==
    /\ row \in [Ids -> {"none", "DOWNLOADING", "READY", "ERROR", "gone"}]
    /\ path \in [Ids -> Paths \cup {NoPath}]
    /\ pc \in [Ids -> Pc]
    /\ disk \in [Paths -> Contents]
    /\ holds \subseteq Ids /\ removing \subseteq Ids

\* No other request has ever named the file of i.
Alone(i) == \A j \in Ids \ {i} : path[j] # path[i]

\* StatusReady: "present and usable".  As long as no other request names the
\* same file, an entry that is READY has its whole file, whichever transfers
\* fail, jobs are cancelled, statements are lost or processes end.
ReadyIsUsable == \A i \in Ids : row[i] = "READY" /\ Alone(i) => disk[path[i]] = "whole"

\* Delete: "registered-in-place files are left untouched": no request changes a
\* file outside the library's directory.
OutsideUntouched == [][\A p \in Outside : disk'[p] = disk[p]]_vars

\* A deleted entry never comes back, although its download may still be at work
\* and ends by writing its status.
DeletedForGood == [][\A i \in Ids : row[i] = "gone" => row'[i] = "gone"]_vars

=============================================================================

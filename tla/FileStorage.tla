---------------------------- MODULE FileStorage ----------------------------
(***************************************************************************)
(* The uploaded files of ONE user: their rows, their bytes and the user's  *)
(* cached usage (src/backend/src/file-upload/file-upload.service.ts,       *)
(* file/file.service.ts, storage-quota/storage-quota.service.ts).          *)
(*                                                                         *)
(* An upload is staged on the local disk, stored in a bucket (S3) or left  *)
(* where it is (LOCAL), gets its row and is counted, one await at a time.  *)
(* A removal marks the row; a job every ten minutes deletes the bytes and  *)
(* the row.  The usage is a number of its own, which a nightly job sets    *)
(* right.  Uploads, removals and jobs run at once, and die with a process. *)
(*                                                                         *)
(* All files have the same size, and a usage is counted in files.          *)
(***************************************************************************)
EXTENDS Naturals, FiniteSets

CONSTANTS
    Files,
    Jobs,           \* requests and scheduled jobs running at once
    NoFile,
    Quota,          \* User.storageQuotaBytes
    MaxFaults       \* bound: requests and jobs that die, clean-ups not all done

ASSUME FilesAssumption ==
    IsFiniteSet(Files) /\ NoFile \notin Files /\ MaxFaults \in Nat

VARIABLES
    storage,        \* the default storage type
    row,            \* of each file: see RowStates
    local,          \* files on the local disk: staged, or stored there
    remote,         \* files in the bucket
    used,           \* User.storageUsedBytes
    job,            \* what each request or job is doing
    faults,
    abandoned,      \* history: uploads whose clean-up was skipped, failed or died
    uncounted       \* history: live rows whose upload failed once they were there

fileVars == <<storage, row, local, remote, used, job, faults, abandoned, uncounted>>

(* "deleted" is a row with deletedAt set, "gone" one that was there.       *)
RowStates == {"none", "live", "deleted", "gone"}

UploadSteps == {"check", "store", "create", "count", "unstage"}
Steps == UploadSteps \cup {"idle", "mark", "readUsage", "writeUsage", "writeSum",
                           "reap", "reapRow"}

(* `seen' is the usage or the sum a job has read, `todo' the deleted rows  *)
(* it has still to clean up.  A sum may count a file whose upload has yet  *)
(* to be counted, and so twice.                                            *)
Usages == 0..(2 * Cardinality(Files))
JobState == [step : Steps, file : Files \cup {NoFile},
             seen : Usages, todo : SUBSET Files]
NoJob == [step |-> "idle", file |-> NoFile, seen |-> 0, todo |-> {}]

FileTypeOK ==
    /\ storage \in {"LOCAL", "S3"}
    /\ row \in [Files -> RowStates]
    /\ local \subseteq Files /\ remote \subseteq Files
    /\ used \in Usages
    /\ job \in [Jobs -> JobState]
    /\ faults \in 0..MaxFaults
    /\ abandoned \subseteq Files /\ uncounted \subseteq Files

FileInit ==
    /\ storage \in {"LOCAL", "S3"}
    /\ row = [f \in Files |-> "none"]
    /\ local = {} /\ remote = {} /\ used = 0
    /\ job = [j \in Jobs |-> NoJob]
    /\ faults = 0 /\ abandoned = {} /\ uncounted = {}

Live == {f \in Files : row[f] = "live"}
Bytes == IF storage = "S3" THEN remote ELSE local
Uploading(f) == \E j \in Jobs : job[j].step \in UploadSteps /\ job[j].file = f

At(j, s) == job[j].step = s
Start(j, s, f) ==
    /\ At(j, "idle")
    /\ job' = [job EXCEPT ![j] = [NoJob EXCEPT !.step = s, !.file = f]]
GoTo(j, s) == job' = [job EXCEPT ![j].step = s]
Read(j, s, n) == job' = [job EXCEPT ![j].step = s, ![j].seen = n]
Finish(j) == job' = [job EXCEPT ![j] = NoJob]

-----------------------------------------------------------------------------
(* uploadFile                                                              *)

(* multer has written the file; where it did is its place under LOCAL.     *)
Upload(j, f) ==
    /\ row[f] = "none" /\ f \notin local \cup remote /\ ~Uploading(f)
    /\ Start(j, "check", f)
    /\ local' = local \cup {f}
    /\ UNCHANGED <<storage, row, remote, used, faults, abandoned, uncounted>>

(* cleanupFile, and cleanupRemoteObject with it: a deletion that fails is  *)
(* "logged, never thrown", and what it should have deleted stays.  (A      *)
(* definition named Mutant... is the same code with a bug put in, which    *)
(* some property notices.)                                                 *)
Fault == faults < MaxFaults /\ faults' = faults + 1
Abandon(f) == abandoned' = abandoned \cup {f}

CleanUpFile(f) ==
    \/ local' = local \ {f} /\ UNCHANGED <<faults, abandoned>>
    \/ UNCHANGED local /\ Fault /\ Abandon(f)

MutantLocalOnly(f) == CleanUpFile(f) /\ UNCHANGED remote
CleanUp(f) ==
    \/ local' = local \ {f} /\ remote' = remote \ {f} /\ UNCHANGED <<faults, abandoned>>
    \/ /\ local' \in {local, local \ {f}} /\ remote' \in {remote, remote \ {f}}
       /\ f \in local' \cup remote'
       /\ Fault /\ Abandon(f)

(* The quota, the kind of file, the checksum.  A refusal cleans up; any    *)
(* other error does not.                                                   *)
CheckUpload(j) ==
    /\ At(j, "check") /\ used + 1 <= Quota
    /\ GoTo(j, IF storage = "S3" THEN "store" ELSE "create")
    /\ UNCHANGED <<storage, row, local, remote, used, faults, abandoned,
                   uncounted>>

Refuse(j) ==
    /\ At(j, "check")
    /\ CleanUpFile(job[j].file)
    /\ Finish(j)
    /\ UNCHANGED <<storage, row, remote, used, uncounted>>

CheckFails(j) ==
    /\ At(j, "check")
    /\ Abandon(job[j].file)
    /\ Finish(j)
    /\ UNCHANGED <<storage, row, local, remote, used, faults, uncounted>>

Store(j) ==
    /\ At(j, "store")
    /\ remote' = remote \cup {job[j].file}
    /\ GoTo(j, "create")
    /\ UNCHANGED <<storage, row, local, used, faults, abandoned, uncounted>>

CreateRow(j) ==
    /\ At(j, "create")
    /\ row' = [row EXCEPT ![job[j].file] = "live"]
    /\ GoTo(j, "count")
    /\ UNCHANGED <<storage, local, remote, used, faults, abandoned,
                   uncounted>>

(* writeStream fails, before or after the object was stored: only the      *)
(* local copy is cleaned up.                                               *)
StoreFails(j) ==
    LET f == job[j].file
    IN /\ At(j, "store")
       /\ \/ CleanUpFile(f) /\ UNCHANGED remote
          \/ /\ local' \in {local, local \ {f}} /\ remote' = remote \cup {f}
             /\ Fault /\ Abandon(f)
       /\ Finish(j)
       /\ UNCHANGED <<storage, row, used, uncounted>>

(* file.create fails, or only its answer is lost and the row is there.     *)
CreateFails(j) ==
    LET f == job[j].file
    IN /\ At(j, "create")
       /\ \/ UNCHANGED <<row, uncounted>>
          \/ row' = [row EXCEPT ![f] = "live"] /\ uncounted' = uncounted \cup {f}
       /\ CleanUp(f)
       /\ Finish(j)
       /\ UNCHANGED <<storage, used>>

(* Under LOCAL, file.path "must never be deleted here".                    *)
MutantAlwaysUnstage(j) == GoTo(j, "unstage")
Counted(j) == IF storage = "S3" THEN GoTo(j, "unstage") ELSE Finish(j)

Count(j) ==
    /\ At(j, "count")
    /\ used' = used + 1
    /\ Counted(j)
    /\ UNCHANGED <<storage, row, local, remote, faults, abandoned,
                   uncounted>>

(* The catch around create also covers the increment, which fails or loses *)
(* its answer: the row is there.                                           *)
CountFails(j) ==
    /\ At(j, "count")
    /\ used' \in {used, used + 1}
    /\ CleanUp(job[j].file)
    /\ uncounted' = uncounted \cup {job[j].file}
    /\ Finish(j)
    /\ UNCHANGED <<storage, row>>

Unstage(j) ==
    /\ At(j, "unstage")
    /\ CleanUpFile(job[j].file)
    /\ Finish(j)
    /\ UNCHANGED <<storage, row, remote, used, uncounted>>

-----------------------------------------------------------------------------
(* remove, by the uploader: it looks, marks, reads the usage and writes it *)
CheckRemove(j, f) ==
    /\ row[f] = "live" /\ ~Uploading(f)
    /\ Start(j, "mark", f)
    /\ UNCHANGED <<storage, row, local, remote, used, faults, abandoned,
                   uncounted>>

Delete(f) ==
    row' = [row EXCEPT ![f] = "deleted"] /\ uncounted' = uncounted \ {f}

MarkDeleted(j) ==
    /\ At(j, "mark")
    /\ IF row[job[j].file] = "gone" THEN Finish(j) /\ UNCHANGED <<row, uncounted>>
       ELSE /\ Delete(job[j].file)
            /\ job' = [job EXCEPT ![j] = [NoJob EXCEPT !.step = "readUsage"]]
    /\ UNCHANGED <<storage, local, remote, used, faults, abandoned>>

ReadUsage(j) ==
    /\ At(j, "readUsage")
    /\ Read(j, "writeUsage", used)
    /\ UNCHANGED <<storage, row, local, remote, used, faults, abandoned,
                   uncounted>>

(* "Don't go negative": a file may be counted down twice, or uncounted.    *)
MutantBelowZero(n) == n - 1
LessOne(n) == IF n = 0 THEN 0 ELSE n - 1

WriteUsage(j) ==
    /\ At(j, "writeUsage")
    /\ used' = LessOne(job[j].seen)
    /\ Finish(j)
    /\ UNCHANGED <<storage, row, local, remote, faults, abandoned,
                   uncounted>>

(* markForDeletion, of a message's attachments: the usage stays.           *)
MarkForDeletion(f) ==
    /\ row[f] = "live" /\ ~Uploading(f)
    /\ Delete(f)
    /\ UNCHANGED <<storage, local, remote, used, job, faults, abandoned>>

-----------------------------------------------------------------------------
(* recalculateUserStorage                                                  *)
MutantSumOfRows == Cardinality({f \in Files : row[f] \in {"live", "deleted"}})
SumOfFiles == Cardinality(Live)

Recalculate(j) ==
    /\ At(j, "idle")
    /\ Read(j, "writeSum", SumOfFiles)
    /\ UNCHANGED <<storage, row, local, remote, used, faults, abandoned,
                   uncounted>>

WriteSum(j) ==
    /\ At(j, "writeSum")
    /\ used' = job[j].seen
    /\ Finish(j)
    /\ UNCHANGED <<storage, row, local, remote, faults, abandoned,
                   uncounted>>

(* cleanupOldFiles: the bytes, then the row.  Deleting a local file that   *)
(* is not there fails, and its row stays; in a bucket it succeeds.         *)
Reaping(files) ==      \* with these files left to clean up
    IF files = {} THEN NoJob ELSE [NoJob EXCEPT !.step = "reap", !.todo = files]

ListDeleted(j) ==
    LET deleted == {f \in Files : row[f] = "deleted"}
    IN /\ At(j, "idle") /\ deleted # {}
       /\ job' = [job EXCEPT ![j] = Reaping(deleted)]
       /\ UNCHANGED <<storage, row, local, remote, used, faults, abandoned,
                      uncounted>>

NextFile(j, f) == job' = [job EXCEPT ![j] = Reaping(job[j].todo \ {f})]

MutantStopAtError(j, f) == Finish(j)
SkipFile(j, f) == NextFile(j, f)

ReapBytes(j, f) ==
    /\ At(j, "reap") /\ f \in job[j].todo
    /\ IF storage = "S3" \/ f \in local
       THEN /\ job' = [job EXCEPT ![j].step = "reapRow", ![j].file = f]
            /\ IF storage = "S3" THEN remote' = remote \ {f} /\ UNCHANGED local
                                 ELSE local' = local \ {f} /\ UNCHANGED remote
       ELSE SkipFile(j, f) /\ UNCHANGED <<local, remote>>
    /\ UNCHANGED <<storage, row, used, faults, abandoned, uncounted>>

ReapRow(j) ==
    /\ At(j, "reapRow")
    /\ row' = [row EXCEPT ![job[j].file] = "gone"]
    /\ NextFile(j, job[j].file)
    /\ UNCHANGED <<storage, local, remote, used, faults, abandoned,
                   uncounted>>

(* The process of a request or job dies.                                   *)
Crash(j) ==
    /\ ~At(j, "idle") /\ Fault
    /\ abandoned' = IF job[j].step \in UploadSteps THEN abandoned \cup {job[j].file}
                    ELSE abandoned
    /\ Finish(j)
    /\ UNCHANGED <<storage, row, local, remote, used, uncounted>>

-----------------------------------------------------------------------------
ContinueJob(j) ==
    \/ CheckUpload(j) \/ Refuse(j) \/ CheckFails(j)
    \/ Store(j) \/ CreateRow(j) \/ StoreFails(j) \/ CreateFails(j)
    \/ Count(j) \/ CountFails(j) \/ Unstage(j)
    \/ MarkDeleted(j) \/ ReadUsage(j) \/ WriteUsage(j)
    \/ WriteSum(j)
    \/ (\E f \in Files : ReapBytes(j, f)) \/ ReapRow(j)

FileNext ==
    \/ \E j \in Jobs :
          \/ \E f \in Files : Upload(j, f) \/ CheckRemove(j, f)
          \/ Recalculate(j) \/ ListDeleted(j)
          \/ ContinueJob(j) \/ Crash(j)
    \/ \E f \in Files : MarkForDeletion(f)

(* A request that started goes on; the two jobs run on their schedules.    *)
FileFairness ==
    /\ \A j \in Jobs : WF_fileVars(ContinueJob(j))
    /\ SF_fileVars(\E j \in Jobs : Recalculate(j))
    /\ SF_fileVars(\E j \in Jobs : ListDeleted(j))

FileSpec == FileInit /\ [][FileNext]_fileVars /\ FileFairness

-----------------------------------------------------------------------------
(* Properties                                                              *)

(* A file that is served has its bytes, whatever refusals, failed uploads  *)
(* and clean-up jobs delete: "a failed upload must never produce an orphan *)
(* row" (file-upload.service.ts:83-84).  Except where the upload failed    *)
(* once its row was there, the insert's answer lost or the increment       *)
(* failing: the clean-up "if DB insert fails" (:148) then takes the bytes  *)
(* of a row that was inserted.                                             *)
LiveFilesHaveBytes == \A f \in Live : f \in Bytes \/ f \in uncounted

(* Bytes without a row are those of an upload under way, or of one whose   *)
(* clean-up was not all done: it died, it failed where the code cleans     *)
(* nothing (before it was stored) or only the local copy (writeStream      *)
(* failing after the object was stored, :95-99), or a deletion of its      *)
(* clean-up failed and was logged (:204-220, :243-250); nothing sweeps     *)
(* these later.  In all other orders of uploads, refusals, failed inserts, *)
(* removals and jobs, no copy is forgotten: a failed insert leaves no "now-*)
(* orphaned remote copy" (:148-153), and a removal deletes the bytes before*)
(* the row.                                                                *)
NoBytesLeft ==
    \A f \in local \cup remote :
        row[f] \in {"none", "gone"} => Uploading(f) \/ f \in abandoned

(* Once files come and go no more, the usage is what the files take,       *)
(* whatever was lost before to overlapping removals, uploads that died     *)
(* uncounted, deletions that are not counted down and nightly sums that    *)
(* were out of date when written.                                          *)
UsageIsRestored == <>[](used = Cardinality(Live))

(* The bytes of deleted files are freed, again and again all of them,      *)
(* although a job may die between the bytes and the row, and a row left so *)
(* fails every later job.                                                  *)
DeletedBytesAreFreed == []<>(\A f \in Files : row[f] = "deleted" => f \notin Bytes)
=============================================================================

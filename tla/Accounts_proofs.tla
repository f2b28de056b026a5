-------------------------- MODULE Accounts_proofs --------------------------
(***************************************************************************)
(* What holds of device sign-ins (DeviceLogin), of a user's files          *)
(* (FileStorage) and of the tabs that refresh a session                    *)
(* (TokenRefreshClient) for every value of their constants.  Three modules *)
(* without common variables: each part has its own inductive invariant,    *)
(* DeviceInv, FilesInv and RefreshInv; the bounds in the types of the first*)
(* two follow from DeviceTypeOK itself and from UsageBound.                *)
(***************************************************************************)
EXTENDS MCAccounts, FiniteSetTheorems, TLAPS

-----------------------------------------------------------------------------
(* DeviceLogin.  The reads of a redeem come one after the other, but what   *)
(* they read can only get worse: a session that ended stays ended, a       *)
(* revoked token stays revoked.  So what the last read finds in order was   *)
(* so at the first.                                                        *)

(* The variables have their types, for any bounds.                         *)
DeviceTyped ==
    /\ password \in Nat \ {0}
    /\ session \in BOOLEAN /\ revoked \in BOOLEAN
    /\ grant \in GrantStates
    /\ redeem \in [Devices -> RedeemSteps]
    /\ known \in [Devices -> Nat]

(* A grant is taken once.                                                  *)
TakenOnce ==
    /\ \A d \in Devices : redeem[d] # "take" => grant = "gone"
    /\ \A c, d \in Devices : redeem[c] # "take" /\ redeem[d] # "take" => c = d
    /\ \A d \in signedIn : redeem[d] = "over"

(* The session signed in with password 1, and a password reset ended it.   *)
OfItsPassword ==
    /\ session => password = 1
    /\ \A d \in Devices :
          /\ redeem[d] = "rows" => known[d] \in 1 .. password
          /\ redeem[d] \in {"revoked", "issue"} => known[d] = 1

(* What a redeem has not yet asked decides whether the approval stood.     *)
StoodSoFar ==
    \A d \in Devices :
        /\ redeem[d] \notin {"take", "over"} /\ Stands => d \in stood
        /\ redeem[d] = "rows" /\ session /\ ~revoked => d \in stood
        /\ redeem[d] = "revoked" /\ ~revoked => d \in stood
        /\ redeem[d] = "issue" => d \in stood

DeviceInv == DeviceTyped /\ TakenOnce /\ OfItsPassword /\ StoodSoFar /\ signedIn \subseteq Devices

LEMMA DeviceInitial == DeviceInit => DeviceInv
<1> SUFFICES ASSUME DeviceInit PROVE DeviceInv
  OBVIOUS
<1>1. DeviceTyped
  <2>1. session \in BOOLEAN /\ revoked \in BOOLEAN
    BY DEF DeviceInit
  <2>2. redeem \in [Devices -> RedeemSteps] /\ known \in [Devices -> Nat]
    BY DEF DeviceInit, RedeemSteps
  <2>3. password \in Nat \ {0} /\ grant \in GrantStates
    BY DEF DeviceInit, GrantStates
  <2>4. QED BY <2>1, <2>2, <2>3 DEF DeviceTyped
<1>2. \A d \in Devices : redeem[d] = "take"
  BY DEF DeviceInit
<1>3. TakenOnce
  BY <1>2 DEF DeviceInit, TakenOnce
<1>4. OfItsPassword
  BY <1>2 DEF DeviceInit, OfItsPassword
<1>5. StoodSoFar
  BY <1>2 DEF StoodSoFar
<1>6. QED BY <1>1, <1>3, <1>4, <1>5 DEF DeviceInit, DeviceInv

(* One device's request goes on: the approval itself does not change.      *)
LEMMA RedeemStep ==
  ASSUME DeviceInv, NEW d \in Devices,
         \/ \E right \in BOOLEAN : Redeem(d, right)
         \/ ReadUser(d) \/ FindRows(d) \/ IsRevoked(d)
         \/ IssueLoginTokens(d) \/ RedeemFails(d)
  PROVE  DeviceInv'
<1> USE DEF DeviceInv, Goto
<1>1. ASSUME NEW right \in BOOLEAN, Redeem(d, right) PROVE DeviceInv'
  <2>1. DeviceTyped' /\ TakenOnce' /\ OfItsPassword'
    BY <1>1 DEF Redeem, DeviceTyped, GrantStates, RedeemSteps, TakenOnce, OfItsPassword
  <2>2. StoodSoFar'
    BY <1>1 DEF Redeem, DeviceTyped, StoodSoFar, TakenOnce, Notice, Stands
  <2>3. QED BY <1>1, <2>1, <2>2 DEF Redeem
<1>2. CASE ReadUser(d)
  BY <1>2 DEF ReadUser, DeviceTyped, RedeemSteps, TakenOnce, OfItsPassword, StoodSoFar, Stands
<1>3. CASE FindRows(d)
  BY <1>3 DEF FindRows, HasRows, DeviceTyped, RedeemSteps, TakenOnce, OfItsPassword,
              StoodSoFar, Stands
<1>4. CASE IsRevoked(d)
  BY <1>4 DEF IsRevoked, DeviceTyped, RedeemSteps, TakenOnce, OfItsPassword, StoodSoFar, Stands
<1>5. CASE IssueLoginTokens(d)
  BY <1>5 DEF IssueLoginTokens, DeviceTyped, RedeemSteps, TakenOnce, OfItsPassword,
              StoodSoFar, Stands
<1>6. CASE RedeemFails(d)
  BY <1>6 DEF RedeemFails, DeviceTyped, RedeemSteps, TakenOnce, OfItsPassword, StoodSoFar, Stands
<1>7. QED BY <1>1, <1>2, <1>3, <1>4, <1>5, <1>6

(* Meanwhile the account, the session and the token change, and each time  *)
(* it is noticed whom the approval stands for.                             *)
LEMMA MeanwhileStep ==
  ASSUME DeviceInv,
         \/ ResetPassword \/ SessionEnds \/ RevokeAccess
         \/ \E banned \in BOOLEAN : SetBanStatus(banned)
         \/ DeleteUser
  PROVE  DeviceInv'
<1> USE DEF DeviceInv
<1>1. UNCHANGED <<grant, redeem, known, signedIn>> /\ Notice
      /\ (session' => session) /\ (revoked => revoked')
  BY DEF ResetPassword, SessionEnds, RevokeAccess, SetBanStatus, DeleteUser
<1>2. /\ session' \in BOOLEAN /\ revoked' \in BOOLEAN
      /\ password' \in {password, password + 1} /\ (session' => password' = password)
  BY DEF ResetPassword, SessionEnds, RevokeAccess, SetBanStatus, DeleteUser, DeviceTyped
<1>6. DeviceTyped' /\ OfItsPassword'
  BY <1>1, <1>2 DEF DeviceTyped, OfItsPassword
<1>3. TakenOnce'
  BY <1>1 DEF TakenOnce
<1>4. StoodSoFar'
  BY <1>1 DEF StoodSoFar, Notice, Stands
<1>5. QED BY <1>1, <1>3, <1>4, <1>6

LEMMA DeviceStep == DeviceInv /\ [DeviceNext]_deviceVars => DeviceInv'
<1> SUFFICES ASSUME DeviceInv, [DeviceNext]_deviceVars PROVE DeviceInv'
  OBVIOUS
<1>1. CASE UNCHANGED deviceVars \/ Authorize \/ CreateApproved \/ GrantExpires
  BY <1>1 DEF deviceVars, Authorize, CreateApproved, GrantExpires, DeviceInv, DeviceTyped,
              GrantStates, TakenOnce, OfItsPassword, StoodSoFar, Stands
<1>2. QED BY <1>1, RedeemStep, MeanwhileStep DEF DeviceNext

(* A device is signed in only by an approval that stood, all at once, at a *)
(* moment of its request, with the password of the approving session, and  *)
(* one grant signs in one device (device-login-grant.service.ts redeem,    *)
(* approvalStands; auth.service.ts issueLoginTokens).                      *)
THEOREM SignedInByApproval == DeviceSpec => ApprovalStood
<1>1. ASSUME DeviceInv, [DeviceNext]_deviceVars, NEW d \in signedIn' \ signedIn
      PROVE  d \in stood /\ password = 1 /\ signedIn = {}
  <2>1. PICK c \in Devices : IssueLoginTokens(c) /\ signedIn' # signedIn
    BY <1>1 DEF deviceVars, DeviceNext, Authorize, CreateApproved, GrantExpires, Redeem,
         ReadUser, FindRows, IsRevoked, RedeemFails, ResetPassword, SessionEnds,
         RevokeAccess, SetBanStatus, DeleteUser
  <2>2. d = c /\ redeem[d] = "issue" /\ password = known[d]
    BY <1>1, <2>1 DEF IssueLoginTokens
  <2>3. d \in stood /\ password = 1
    BY <1>1, <2>1, <2>2 DEF DeviceInv, StoodSoFar, OfItsPassword
  <2>4. signedIn = {}
    BY <1>1, <2>1, <2>2 DEF DeviceInv, TakenOnce
  <2>5. QED BY <2>3, <2>4
<1>2. DeviceInv /\ [DeviceNext]_deviceVars =>
          \A d \in signedIn' \ signedIn : d \in stood /\ password = 1 /\ signedIn = {}
  BY <1>1
<1>3. QED BY <1>2, DeviceInitial, DeviceStep, PTL DEF DeviceSpec, ApprovalStood

LEMMA DeviceTypeInitial == DeviceInit => DeviceTypeOK
<1> SUFFICES ASSUME DeviceInit PROVE DeviceTypeOK
  OBVIOUS
<1>1. password \in 1 .. MaxPassword /\ bans \in 0 .. MaxBans
  BY DeviceAssumption DEF DeviceInit
<1>2. redeem \in [Devices -> RedeemSteps] /\ known \in [Devices -> 0 .. MaxPassword]
  BY DeviceAssumption DEF DeviceInit, RedeemSteps
<1>3. QED BY <1>1, <1>2 DEF DeviceInit, DeviceTypeOK, GrantStates

LEMMA DeviceTypeStep == DeviceTypeOK /\ [DeviceNext]_deviceVars => DeviceTypeOK'
<1> SUFFICES ASSUME DeviceTypeOK, [DeviceNext]_deviceVars PROVE DeviceTypeOK'
  OBVIOUS
<1>1. CASE UNCHANGED deviceVars \/ Authorize \/ CreateApproved \/ GrantExpires
  BY <1>1 DEF deviceVars, Authorize, CreateApproved, GrantExpires, DeviceTypeOK, GrantStates
<1>2. ASSUME NEW d \in Devices,
             \/ \E right \in BOOLEAN : Redeem(d, right)
             \/ ReadUser(d) \/ FindRows(d) \/ IsRevoked(d)
             \/ IssueLoginTokens(d) \/ RedeemFails(d)
      PROVE  DeviceTypeOK'
  <2>1. redeem' \in [Devices -> RedeemSteps]
    BY <1>2 DEF Redeem, ReadUser, FindRows, IsRevoked, IssueLoginTokens, RedeemFails, Goto,
         DeviceTypeOK, RedeemSteps
  <2>2. known' \in [Devices -> 0 .. MaxPassword]
    BY <1>2, DeviceAssumption DEF Redeem, ReadUser, FindRows, IsRevoked, IssueLoginTokens,
         RedeemFails, DeviceTypeOK
  <2>3. signedIn' \subseteq Devices /\ stood' \subseteq Devices /\ grant' \in GrantStates
    BY <1>2 DEF Redeem, ReadUser, FindRows, IsRevoked, IssueLoginTokens, RedeemFails, Notice,
         DeviceTypeOK, GrantStates
  <2>4. UNCHANGED <<account, password, bans, session, revoked>>
    BY <1>2 DEF Redeem, ReadUser, FindRows, IsRevoked, IssueLoginTokens, RedeemFails
  <2>5. QED BY <2>1, <2>2, <2>3, <2>4 DEF DeviceTypeOK
<1>3. CASE \/ ResetPassword \/ SessionEnds \/ RevokeAccess
           \/ \E banned \in BOOLEAN : SetBanStatus(banned)
           \/ DeleteUser
  <2>1. password' \in 1 .. MaxPassword /\ bans' \in 0 .. MaxBans
    BY <1>3, DeviceAssumption DEF ResetPassword, SessionEnds, RevokeAccess, SetBanStatus,
         DeleteUser, DeviceTypeOK
  <2>2. UNCHANGED <<grant, redeem, known, signedIn>> /\ stood' \subseteq Devices
    BY <1>3 DEF ResetPassword, SessionEnds, RevokeAccess, SetBanStatus, DeleteUser, Notice,
         DeviceTypeOK
  <2>3. /\ account' \in {"active", "banned", "deleted"}
        /\ session' \in BOOLEAN /\ revoked' \in BOOLEAN
    BY <1>3 DEF ResetPassword, SessionEnds, RevokeAccess, SetBanStatus, DeleteUser, DeviceTypeOK
  <2>4. QED BY <2>1, <2>2, <2>3 DEF DeviceTypeOK
<1>4. QED BY <1>1, <1>2, <1>3 DEF DeviceNext

-----------------------------------------------------------------------------
(* FileStorage.  A job's file is a file, the usage is never negative       *)
(* ("Don't go negative"), for any number of files and jobs.                *)
WithFile == UploadSteps \cup {"mark", "reapRow"}

Job == [step : Steps, file : Files \cup {NoFile}, seen : Nat, todo : SUBSET Files]

FilesTyped ==
    /\ storage \in {"LOCAL", "S3"}
    /\ row \in [Files -> RowStates]
    /\ local \subseteq Files /\ remote \subseteq Files
    /\ used \in Nat
    /\ job \in [Jobs -> Job]
    /\ \A j \in Jobs : job[j].step \in WithFile => job[j].file \in Files

(* What an upload has done so far.  Nobody else works on its file: a row   *)
(* is made once, and removed only when its upload has ended.               *)
UploadOf(j) ==
    LET f == job[j].file
    IN /\ job[j].step \in {"check", "store", "create"} => row[f] = "none"
       /\ job[j].step \in {"check", "store"} => f \in local /\ f \notin remote
       /\ job[j].step \in {"create", "count"} => f \in Bytes
       /\ job[j].step \in {"count", "unstage"} => row[f] = "live"
       /\ job[j].step \in {"store", "unstage"} => storage = "S3"

OneUploader ==
    \A i, j \in Jobs :
        job[i].step \in UploadSteps /\ job[j].step \in UploadSteps
            /\ job[i].file = job[j].file => i = j

(* A row that a removal or the clean-up works on was made and is not being *)
(* uploaded, and when its row goes its bytes are gone.                     *)
Removing(j) ==
    /\ \A f \in job[j].todo : row[f] \in {"deleted", "gone"}
    /\ job[j].step = "mark" =>
          row[job[j].file] # "none" /\ ~Uploading(job[j].file)
    /\ job[j].step = "reapRow" =>
          row[job[j].file] \in {"deleted", "gone"} /\ job[j].file \notin Bytes

(* Where the bytes of a file may be.                                       *)
Places ==
    /\ storage = "LOCAL" => remote = {}
    /\ \A f \in Files :
          /\ row[f] \in {"deleted", "gone"} => ~Uploading(f)
          /\ row[f] # "none" /\ storage = "S3" /\ f \in local =>
                 Uploading(f) \/ f \in abandoned

FilesInv ==
    /\ FilesTyped
    /\ \A j \in Jobs : UploadOf(j) /\ Removing(j)
    /\ OneUploader /\ Places
    /\ LiveFilesHaveBytes /\ NoBytesLeft

LEMMA FilesInitial == FileInit => FilesInv
<1> SUFFICES ASSUME FileInit PROVE FilesInv
  OBVIOUS
<1>1. NoJob \in Job
  BY DEF NoJob, Job, Steps
<1>2. \A j \in Jobs : job[j] = NoJob /\ job[j].step = "idle" /\ job[j].todo = {}
  BY DEF FileInit, NoJob
<1>3. FilesTyped
  BY <1>1, <1>2 DEF FileInit, FilesTyped, RowStates, WithFile, UploadSteps
<1>4. \A j \in Jobs : UploadOf(j) /\ Removing(j)
  BY <1>2 DEF UploadOf, Removing
<1>5. OneUploader /\ Places
  BY <1>2 DEF FileInit, OneUploader, Places, Uploading, UploadSteps
<1>6. LiveFilesHaveBytes /\ NoBytesLeft
  BY DEF FileInit, LiveFilesHaveBytes, NoBytesLeft, Live
<1>7. QED BY <1>3, <1>4, <1>5, <1>6 DEF FilesInv

(* What a step does to the job that takes it.                              *)
Only(j) == \A i \in Jobs \ {j} : job'[i] = job[i]

LEMMA GoToEffect ==
  ASSUME FilesTyped, NEW j \in Jobs, NEW s \in Steps, GoTo(j, s)
  PROVE  /\ job' \in [Jobs -> Job] /\ Only(j)
         /\ job'[j].step = s /\ job'[j].file = job[j].file /\ job'[j].todo = job[j].todo
         /\ job'[j].seen = job[j].seen
BY DEF FilesTyped, GoTo, Job, Only

LEMMA ReadEffect ==
  ASSUME FilesTyped, NEW j \in Jobs, NEW s \in Steps, NEW n \in Nat, Read(j, s, n)
  PROVE  /\ job' \in [Jobs -> Job] /\ Only(j)
         /\ job'[j].step = s /\ job'[j].file = job[j].file /\ job'[j].todo = job[j].todo
         /\ job'[j].seen = n
BY DEF FilesTyped, Read, Job, Only

LEMMA FinishEffect ==
  ASSUME FilesTyped, NEW j \in Jobs, Finish(j)
  PROVE  /\ job' \in [Jobs -> Job] /\ Only(j)
         /\ job'[j].step = "idle" /\ job'[j].todo = {} /\ job'[j].seen = 0
<1>1. NoJob \in Job
  BY DEF NoJob, Job, Steps
<1>2. QED BY <1>1 DEF FilesTyped, Finish, Only, NoJob

LEMMA SetJob ==
  ASSUME FilesTyped, NEW j \in Jobs, NEW r \in Job, job' = [job EXCEPT ![j] = r]
  PROVE  job' \in [Jobs -> Job] /\ Only(j) /\ job'[j] = r
BY DEF FilesTyped, Only

LEMMA StartEffect ==
  ASSUME FilesTyped, NEW j \in Jobs, NEW s \in Steps, NEW f \in Files, Start(j, s, f)
  PROVE  /\ job' \in [Jobs -> Job] /\ Only(j) /\ job[j].step = "idle"
         /\ job'[j].step = s /\ job'[j].file = f /\ job'[j].todo = {} /\ job'[j].seen = 0
<1>1. PICK r : r = [NoJob EXCEPT !.step = s, !.file = f]
  OBVIOUS
<1>2. r \in Job /\ r.step = s /\ r.file = f /\ r.todo = {} /\ r.seen = 0
  BY <1>1 DEF Job, NoJob
<1>3. job' = [job EXCEPT ![j] = r] /\ job[j].step = "idle"
  BY <1>1 DEF Start, At
<1>4. QED BY <1>2, <1>3, SetJob

LEMMA ReapingIsJob ==
  ASSUME NEW T \in SUBSET Files
  PROVE  /\ Reaping(T) \in Job /\ Reaping(T).step \in {"idle", "reap"}
         /\ Reaping(T).todo = T /\ Reaping(T).seen = 0
BY DEF Reaping, NoJob, Job, Steps

LEMMA NextFileEffect ==
  ASSUME FilesTyped, NEW j \in Jobs, NEW f \in Files, NextFile(j, f)
  PROVE  /\ job' \in [Jobs -> Job] /\ Only(j)
         /\ job'[j].step \in {"idle", "reap"} /\ job'[j].todo \subseteq job[j].todo
         /\ job'[j].seen = 0
<1>1. job[j].todo \ {f} \in SUBSET Files
  BY DEF FilesTyped, Job
<1>2. PICK r \in Job : r = Reaping(job[j].todo \ {f})
  BY <1>1, ReapingIsJob
<1>3. r.step \in {"idle", "reap"} /\ r.todo = job[j].todo \ {f} /\ r.seen = 0
  BY <1>1, <1>2, ReapingIsJob
<1>4. job' = [job EXCEPT ![j] = r]
  BY <1>2 DEF NextFile
<1>5. QED BY <1>3, <1>4, SetJob

(* The number of files that are there is a number.                         *)
LEMMA SumIsNat == SumOfFiles \in Nat
<1>1. IsFiniteSet(Live)
  BY FilesAssumption, FS_Subset DEF FilesAssumption, Live
<1>2. QED BY <1>1, FS_CardinalityType DEF SumOfFiles

(* Who uploads what after a step of job j: it goes on uploading its file,  *)
(* it stops, or it has nothing to do with uploads.                         *)
Goes(j) == /\ job[j].step \in UploadSteps /\ job'[j].step \in UploadSteps
           /\ job'[j].file = job[j].file
Stops(j) == job[j].step \in UploadSteps /\ job'[j].step \notin UploadSteps
Other(j) == job[j].step \notin UploadSteps /\ job'[j].step \notin UploadSteps

LEMMA UploadersAfter ==
  ASSUME OneUploader, NEW j \in Jobs, Only(j), Goes(j) \/ Stops(j) \/ Other(j)
  PROVE  /\ OneUploader'
         /\ \A f \in Files : Uploading(f)' => Uploading(f)
         /\ \A f \in Files : Uploading(f) =>
               Uploading(f)' \/ (Stops(j) /\ f = job[j].file)
         /\ Stops(j) => \A f : f = job[j].file => ~Uploading(f)'
<1> USE DEF Only, Goes, Stops, Other
<1>1. OneUploader'
  BY DEF OneUploader
<1>2. \A f \in Files : Uploading(f)' => Uploading(f)
  BY DEF Uploading
<1>3. \A f \in Files : Uploading(f) => Uploading(f)' \/ (Stops(j) /\ f = job[j].file)
  BY DEF Uploading
<1>4. ASSUME Stops(j), NEW f, f = job[j].file, NEW i \in Jobs,
             job'[i].step \in UploadSteps, job'[i].file = f
      PROVE  FALSE
  BY <1>4 DEF OneUploader
<1>5. Stops(j) => \A f : f = job[j].file => ~Uploading(f)'
  BY <1>4 DEF Uploading
<1>6. QED BY <1>1, <1>2, <1>3, <1>5

(* What the other jobs rely on: nobody touches the file they upload, a row *)
(* that was made is not uploaded again, and a deleted one stays deleted.   *)
LEMMA OthersKeep ==
  ASSUME FilesInv, NEW j \in Jobs, Only(j), storage' = storage,
         \A i \in Jobs \ {j} : job[i].step \in UploadSteps =>
             /\ row'[job[i].file] = row[job[i].file]
             /\ job[i].file \in local => job[i].file \in local'
             /\ job[i].file \in Bytes => job[i].file \in Bytes'
             /\ job[i].file \in remote' => job[i].file \in remote
             /\ job[i].file \in remote' => job[i].file \in remote,
         \A f \in Files : row[f] # "none" /\ ~Uploading(f) =>
             row'[f] # "none" /\ ~Uploading(f)',
         \A f \in Files : row[f] \in {"deleted", "gone"} =>
             row'[f] \in {"deleted", "gone"} /\ (f \notin Bytes => f \notin Bytes')
  PROVE  \A i \in Jobs \ {j} : UploadOf(i)' /\ Removing(i)'
<1> SUFFICES ASSUME NEW i \in Jobs \ {j} PROVE UploadOf(i)' /\ Removing(i)'
  OBVIOUS
<1>1. job'[i] = job[i] /\ UploadOf(i) /\ Removing(i)
  BY DEF Only, FilesInv
<1>2. job[i] \in Job /\ (job[i].step \in WithFile => job[i].file \in Files)
  BY DEF FilesInv, FilesTyped
<1>3. UploadOf(i)'
  <2>1. PICK f : f = job[i].file OBVIOUS
  <2>2. job[i].step \in UploadSteps =>
           /\ row'[f] = row[f] /\ (f \in local => f \in local')
           /\ (f \in Bytes => f \in Bytes') /\ (f \in remote' => f \in remote)
    BY <2>1
  <2>3. job'[i].file = f /\ job'[i].step = job[i].step BY <1>1, <2>1
  <2>4. QED BY <1>1, <2>1, <2>2, <2>3 DEF UploadOf, UploadSteps
<1>4. Removing(i)'
  <2>1. \A f \in job[i].todo : row'[f] \in {"deleted", "gone"}
    BY <1>1, <1>2 DEF Removing, Job
  <2>2. PICK f : f = job[i].file OBVIOUS
  <2>3. job[i].step = "mark" =>
            row'[f] # "none" /\ ~Uploading(f)'
    BY <1>1, <1>2, <2>2 DEF Removing, WithFile
  <2>4. job[i].step = "reapRow" => row'[f] \in {"deleted", "gone"} /\ f \notin Bytes'
    BY <1>1, <1>2, <2>2 DEF Removing, WithFile
  <2>5. job'[i].file = f /\ job'[i].step = job[i].step /\ job'[i].todo = job[i].todo
    BY <1>1, <2>2
  <2>6. QED BY <2>1, <2>3, <2>4, <2>5 DEF Removing
<1>5. QED BY <1>3, <1>4

(* The rows and the bytes: a step may make the row of an upload that has   *)
(* its bytes, and delete rows, and bytes of files that are not served.     *)
LEMMA UploadGoesOn ==
  ASSUME FilesInv, NEW j \in Jobs,
         CheckUpload(j) \/ Store(j) \/ CreateRow(j) \/ (Count(j) /\ storage = "S3")
  PROVE  FilesInv'
<1> USE DEF FilesInv
<1>1. PICK f \in Files : f = job[j].file
  BY DEF FilesTyped, CheckUpload, Store, CreateRow, Count, At, WithFile, UploadSteps
<1>2. PICK s : GoTo(j, s)
        /\ \/ s = "store" /\ storage = "S3" /\ job[j].step = "check"
           \/ s = "create" /\ job[j].step = "store"
           \/ s = "create" /\ job[j].step = "check" /\ storage # "S3"
           \/ s = "count" /\ job[j].step = "create"
           \/ s = "unstage" /\ job[j].step = "count" /\ storage = "S3"
  BY DEF CheckUpload, Store, CreateRow, Count, Counted, At
<1>3. /\ storage' = storage /\ UNCHANGED <<local, abandoned, uncounted>>
      /\ row' = IF s = "count" THEN [row EXCEPT ![f] = "live"] ELSE row
      /\ remote' = IF job[j].step = "store" THEN remote \cup {f} ELSE remote
      /\ used' \in {used, used + 1}
  BY <1>1, <1>2 DEF CheckUpload, Store, CreateRow, Count, At
<1>4. /\ job' \in [Jobs -> Job] /\ Only(j) /\ job'[j].step = s
      /\ job'[j].file = f /\ job'[j].todo = job[j].todo
  BY <1>1, <1>2, GoToEffect DEF Steps, UploadSteps
<1>5. Goes(j)
  BY <1>1, <1>2, <1>4 DEF Goes, UploadSteps
<1>6. /\ OneUploader' /\ Uploading(f)
      /\ \A g \in Files : Uploading(g)' <=> Uploading(g)
  <2>1. ~Stops(j) BY <1>5 DEF Goes, Stops
  <2>2. Uploading(f) BY <1>1, <1>5 DEF Goes, Uploading
  <2>3. QED BY <1>4, <1>5, <2>1, <2>2, UploadersAfter
<1>7. \A i \in Jobs \ {j} : job[i].step \in UploadSteps => job[i].file # f
  BY <1>1, <1>5 DEF Goes, OneUploader
<1>8. /\ row[f] \in {"none", "live"} /\ row \in [Files -> RowStates]
      /\ s # "unstage" => row[f] = "none"
      /\ s = "unstage" => row[f] = "live"
      /\ s = "count" => f \in Bytes
      /\ job[j].step = "store" => storage = "S3"
      /\ job[j].step = "check" => f \in local /\ f \notin remote
  BY <1>1, <1>2 DEF UploadOf, FilesTyped
<1>9. FilesTyped'
  BY <1>1, <1>2, <1>3, <1>4 DEF FilesTyped, RowStates, Only, WithFile
<1>10. UploadOf(j)'
  BY <1>2, <1>3, <1>4, <1>8 DEF UploadOf, Bytes
<1>11. Removing(j)'
  BY <1>1, <1>2, <1>3, <1>4, <1>8 DEF Removing
<1>12. \A i \in Jobs \ {j} : UploadOf(i)' /\ Removing(i)'
  <2>1. \A g \in Files : row[g] # "none" /\ ~Uploading(g) =>
            row'[g] # "none" /\ ~Uploading(g)'
    BY <1>3, <1>6, <1>8
  <2>2. \A g \in Files : row[g] \in {"deleted", "gone"} =>
            row'[g] \in {"deleted", "gone"} /\ (g \notin Bytes => g \notin Bytes')
    BY <1>3, <1>8 DEF Bytes
  <2>3. \A i \in Jobs \ {j} : job[i].step \in UploadSteps =>
             /\ row'[job[i].file] = row[job[i].file]
             /\ job[i].file \in local => job[i].file \in local'
             /\ job[i].file \in Bytes => job[i].file \in Bytes'
             /\ job[i].file \in remote' => job[i].file \in remote
    BY <1>3, <1>7, <1>8 DEF Bytes
  <2>4. QED BY <1>3, <1>4, <2>1, <2>2, <2>3, OthersKeep
<1>13. Places'
  BY <1>3, <1>6, <1>8 DEF Places
<1>14. LiveFilesHaveBytes'
  BY <1>3, <1>8 DEF LiveFilesHaveBytes, Live, Bytes
<1>15. NoBytesLeft'
  BY <1>3, <1>6, <1>8 DEF NoBytesLeft, FilesTyped
<1>16. QED BY <1>6, <1>9, <1>10, <1>11, <1>12, <1>13, <1>14, <1>15

(* An upload that ends: its file is cleaned up, has a row, or is abandoned.*)
EndsUpload(j) ==
    \/ Refuse(j) \/ CheckFails(j) \/ StoreFails(j) \/ CreateFails(j)
    \/ (Count(j) /\ storage # "S3") \/ CountFails(j) \/ Unstage(j)
    \/ (Crash(j) /\ job[j].step \in UploadSteps)

LEMMA UploadEnds ==
  ASSUME FilesInv, NEW j \in Jobs, EndsUpload(j)
  PROVE  FilesInv'
<1> USE DEF FilesInv
<1>1. PICK f \in Files : f = job[j].file
  BY DEF EndsUpload, FilesTyped, Refuse, CheckFails, StoreFails, CreateFails, Count, CountFails,
         Unstage, Crash, At, WithFile, UploadSteps
<1>2. Finish(j) /\ job[j].step \in UploadSteps
  BY DEF EndsUpload, Refuse, CheckFails, StoreFails, CreateFails, Count, Counted, CountFails,
         Unstage, Crash, At, UploadSteps
<1>3. /\ row[f] \in {"none", "live"} /\ row \in [Files -> RowStates]
      /\ job[j].step \in {"check", "store", "create"} <=> row[f] = "none"
      /\ row[f] = "live" => f \in Bytes \/ f \in uncounted
      /\ storage = "LOCAL" => remote = {}
      /\ storage \in {"LOCAL", "S3"} /\ used \in Nat
  BY <1>1, <1>2 DEF UploadOf, FilesTyped, UploadSteps, LiveFilesHaveBytes, Live, Places
<1>4. abandoned \subseteq abandoned' /\ storage' = storage /\ used' \in Nat
  BY <1>3 DEF EndsUpload, Refuse, CheckFails, StoreFails, CreateFails, Count, CountFails, Unstage,
         Crash, CleanUp, CleanUpFile, Abandon
<1>5. \/ UNCHANGED <<row, uncounted>>
      \/ row' = row /\ uncounted' = uncounted \cup {f}
      \/ /\ row[f] = "none" /\ row' = [row EXCEPT ![f] = "live"]
         /\ uncounted' = uncounted \cup {f}
  BY <1>1, <1>3 DEF EndsUpload, Refuse, CheckFails, StoreFails, CreateFails, Count, CountFails,
         Unstage, Crash, At
<1>6. /\ row' \in [Files -> RowStates] /\ row'[f] \in {"none", "live"}
      /\ \A g \in Files \ {f} : row'[g] = row[g]
      /\ row[f] = "live" => row' = row
      /\ row[f] = "none" /\ row'[f] = "live" => f \in uncounted'
      /\ uncounted \subseteq uncounted'
  BY <1>3, <1>5 DEF RowStates
<1>7. /\ local' \subseteq local /\ local \ {f} \subseteq local'
      /\ remote' \subseteq remote \cup {f} /\ remote \ {f} \subseteq remote'
      /\ storage = "LOCAL" => remote' = {}
  <2>1. CASE StoreFails(j)
    BY <1>1, <1>3, <2>1 DEF StoreFails, CleanUpFile, UploadOf, At
  <2>2. CASE Refuse(j) \/ Unstage(j)
    BY <1>1, <1>3, <2>2 DEF Refuse, Unstage, CleanUpFile
  <2>3. CASE CreateFails(j) \/ CountFails(j)
    BY <1>1, <1>3, <2>3 DEF CreateFails, CountFails, CleanUp
  <2>4. CASE CheckFails(j) \/ Count(j) \/ Crash(j)
    BY <1>1, <1>3, <2>4 DEF CheckFails, Count, Crash
  <2>5. QED BY <2>1, <2>2, <2>3, <2>4 DEF EndsUpload
<1>8. /\ f \notin local' \cup remote' \/ row'[f] = "live" \/ f \in abandoned'
      /\ row'[f] = "live" => (f \in IF storage = "S3" THEN remote' ELSE local')
                               \/ f \in uncounted'
      /\ row'[f] = "live" /\ storage = "S3" => f \notin local' \/ f \in abandoned'
  <2>1. CASE Refuse(j)
    <3>1. row[f] = "none" /\ row' = row /\ f \notin remote' /\ CleanUpFile(f)
      BY <1>1, <1>3, <2>1 DEF Refuse, UploadOf, At
    <3>2. QED BY <3>1 DEF CleanUpFile, Abandon
  <2>2. CASE StoreFails(j)
    <3>1. row[f] = "none" /\ row' = row /\ f \notin remote
      BY <1>1, <1>3, <2>2 DEF StoreFails, UploadOf, At
    <3>2. (CleanUpFile(f) /\ UNCHANGED remote) \/ Abandon(f)
      BY <1>1, <2>2 DEF StoreFails
    <3>3. QED BY <3>1, <3>2 DEF CleanUpFile, Abandon
  <2>3. CASE CreateFails(j)
    <3>1. f \notin local' \cup remote' \/ f \in abandoned'
      BY <1>1, <2>3 DEF CreateFails, CleanUp, Abandon
    <3>2. row[f] = "none"
      BY <1>1, <1>3, <2>3 DEF CreateFails, At
    <3>3. QED BY <1>6, <3>1, <3>2
  <2>4. CASE CheckFails(j) \/ Crash(j)
    <3>1. f \in abandoned' /\ row' = row
      BY <1>1, <1>2, <2>4 DEF CheckFails, Crash, Abandon
    <3>2. local' = local /\ remote' = remote /\ uncounted' = uncounted
      BY <2>4 DEF CheckFails, Crash
    <3>3. row[f] = "live" => (f \in IF storage = "S3" THEN remote ELSE local) \/ f \in uncounted
      BY <1>3 DEF Bytes
    <3>4. QED BY <3>1, <3>2, <3>3
  <2>5. CASE Count(j) /\ storage # "S3"
    BY <1>1, <1>3, <2>5 DEF Count, At, Bytes
  <2>6. CASE CountFails(j)
    <3>1. f \notin local' \cup remote' \/ f \in abandoned'
      BY <1>1, <2>6 DEF CountFails, CleanUp, Abandon
    <3>2. f \in uncounted'
      BY <1>1, <2>6 DEF CountFails
    <3>3. QED BY <3>1, <3>2
  <2>7. CASE Unstage(j)
    BY <1>1, <1>3, <2>7 DEF Unstage, CleanUpFile, Abandon, UploadOf, At, Bytes
  <2>8. QED BY <2>1, <2>2, <2>3, <2>4, <2>5, <2>6, <2>7 DEF EndsUpload
<1>9. /\ job' \in [Jobs -> Job] /\ Only(j) /\ job'[j].step = "idle" /\ job'[j].todo = {}
  BY <1>2, FinishEffect
<1>10. Stops(j)
  BY <1>2, <1>9 DEF Stops, UploadSteps
<1>11. /\ OneUploader' /\ ~Uploading(f)'
       /\ \A g \in Files : Uploading(g)' => Uploading(g)
       /\ \A g \in Files \ {f} : Uploading(g) => Uploading(g)'
  BY <1>1, <1>9, <1>10, UploadersAfter
<1>12. \A i \in Jobs \ {j} : job[i].step \in UploadSteps => job[i].file # f
  BY <1>1, <1>2 DEF OneUploader
<1>13. FilesTyped'
  BY <1>3, <1>4, <1>6, <1>7, <1>9 DEF FilesTyped, Only, WithFile, UploadSteps
<1>14. UploadOf(j)' /\ Removing(j)'
  BY <1>9 DEF UploadOf, Removing
<1>15. \A i \in Jobs \ {j} : UploadOf(i)' /\ Removing(i)'
  <2>1. \A g \in Files : row[g] # "none" /\ ~Uploading(g) =>
            row'[g] # "none" /\ ~Uploading(g)'
    BY <1>3, <1>6, <1>11
  <2>2. \A g \in Files : row[g] \in {"deleted", "gone"} =>
            row'[g] \in {"deleted", "gone"} /\ (g \notin Bytes => g \notin Bytes')
    BY <1>3, <1>4, <1>6, <1>7 DEF Bytes
  <2>3. \A i \in Jobs \ {j} : job[i].step \in UploadSteps =>
             /\ row'[job[i].file] = row[job[i].file]
             /\ job[i].file \in local => job[i].file \in local'
             /\ job[i].file \in Bytes => job[i].file \in Bytes'
             /\ job[i].file \in remote' => job[i].file \in remote
    <3>1. ASSUME NEW i \in Jobs \ {j}, job[i].step \in UploadSteps
          PROVE  job[i].file \in Files \ {f}
      BY <1>12, <3>1 DEF FilesTyped, WithFile
    <3>2. QED BY <1>4, <1>6, <1>7, <3>1 DEF Bytes
  <2>4. QED BY <1>4, <1>9, <2>1, <2>2, <2>3, OthersKeep
<1>16. Places'
  BY <1>3, <1>4, <1>6, <1>7, <1>8, <1>11 DEF Places
<1>17. LiveFilesHaveBytes'
  BY <1>4, <1>6, <1>7, <1>8 DEF LiveFilesHaveBytes, Live, Bytes
<1>18. NoBytesLeft'
  BY <1>3, <1>4, <1>6, <1>7, <1>8, <1>11 DEF NoBytesLeft, FilesTyped
<1>19. QED BY <1>11, <1>13, <1>14, <1>15, <1>16, <1>17, <1>18

(* A new upload takes a file that nobody uploads and that has no row.      *)
LEMMA UploadBegins ==
  ASSUME FilesInv, NEW j \in Jobs, NEW f \in Files, Upload(j, f)
  PROVE  FilesInv'
<1> USE DEF FilesInv
<1>1. /\ row[f] = "none" /\ f \notin local \cup remote /\ ~Uploading(f)
      /\ Start(j, "check", f) /\ local' = local \cup {f}
      /\ UNCHANGED <<storage, row, remote, used, faults, abandoned, uncounted>>
  BY DEF Upload
<1>2. /\ job' \in [Jobs -> Job] /\ Only(j) /\ job[j].step = "idle"
      /\ job'[j].step = "check" /\ job'[j].file = f /\ job'[j].todo = {}
  BY <1>1, StartEffect DEF Steps, UploadSteps
<1>3. /\ \A g \in Files : Uploading(g)' <=> Uploading(g) \/ g = f
      /\ OneUploader'
  <2>1. \A g \in Files : Uploading(g)' => Uploading(g) \/ g = f
    BY <1>2 DEF Uploading, Only
  <2>2. \A g \in Files : Uploading(g) => Uploading(g)'
    BY <1>2 DEF Uploading, Only, UploadSteps
  <2>3. Uploading(f)'
    BY <1>2 DEF Uploading, UploadSteps
  <2>4. OneUploader'
    BY <1>1, <1>2 DEF Uploading, OneUploader, Only, UploadSteps
  <2>5. QED BY <2>1, <2>2, <2>3, <2>4
<1>4. FilesTyped'
  BY <1>1, <1>2 DEF FilesTyped, Only
<1>5. UploadOf(j)' /\ Removing(j)'
  BY <1>1, <1>2 DEF UploadOf, Removing
<1>6. \A i \in Jobs \ {j} : UploadOf(i)' /\ Removing(i)'
  <2>1. \A g \in Files : row[g] # "none" /\ ~Uploading(g) =>
            row'[g] # "none" /\ ~Uploading(g)'
    BY <1>1, <1>3
  <2>2. \A g \in Files : row[g] \in {"deleted", "gone"} =>
            row'[g] \in {"deleted", "gone"} /\ (g \notin Bytes => g \notin Bytes')
    BY <1>1 DEF Bytes
  <2>3. \A i \in Jobs \ {j} : job[i].step \in UploadSteps =>
             /\ row'[job[i].file] = row[job[i].file]
             /\ job[i].file \in local => job[i].file \in local'
             /\ job[i].file \in Bytes => job[i].file \in Bytes'
             /\ job[i].file \in remote' => job[i].file \in remote
    BY <1>1 DEF Bytes
  <2>4. QED BY <1>1, <1>2, <2>1, <2>2, <2>3, OthersKeep
<1>7. Places'
  BY <1>1, <1>3 DEF Places
<1>8. LiveFilesHaveBytes'
  BY <1>1 DEF LiveFilesHaveBytes, Live, Bytes
<1>9. NoBytesLeft'
  BY <1>1, <1>3 DEF NoBytesLeft, FilesTyped
<1>10. QED BY <1>3, <1>4, <1>5, <1>6, <1>7, <1>8, <1>9

(* The other steps upload nothing: they only delete rows, and the bytes of *)
(* files that have been deleted.                                           *)
LEMMA OthersOnlyDelete ==
  ASSUME FilesInv, NEW j \in Jobs, Other(j), Only(j), job' \in [Jobs -> Job],
         job'[j].step \in WithFile => job'[j].file \in Files,
         row' \in [Files -> RowStates], used' \in Nat,
         UNCHANGED <<storage, abandoned>>,
         \A f \in Files : f \in uncounted /\ row'[f] = "live" => f \in uncounted',
         local' \subseteq local, remote' \subseteq remote,
         \A f \in Files : row'[f] # row[f] =>
             row[f] \in {"live", "deleted", "gone"} /\ row'[f] \in {"deleted", "gone"}
                 /\ ~Uploading(f) /\ (row'[f] = "gone" => row[f] # "live" /\ f \notin Bytes),
         \A f \in Files : row[f] = "gone" => row'[f] = "gone",
         \A f \in Files : (f \in local /\ f \notin local') \/ (f \in remote /\ f \notin remote')
             => row[f] \in {"deleted", "gone"},
         Removing(j)'
  PROVE  FilesInv'
<1> USE DEF FilesInv
<1>1. /\ OneUploader' /\ \A f \in Files : Uploading(f)' <=> Uploading(f)
  BY UploadersAfter DEF Other, Stops
<1>2. FilesTyped'
  BY DEF FilesTyped, Only
<1>3. UploadOf(j)'
  BY DEF UploadOf, Other, UploadSteps
<1>4. \A f \in Files : Uploading(f) => row[f] \in {"none", "live"} /\ row'[f] = row[f]
  BY DEF Places, FilesTyped, RowStates
<1>5. \A i \in Jobs \ {j} : UploadOf(i)' /\ Removing(i)'
  <2>1. \A g \in Files : row[g] # "none" /\ ~Uploading(g) =>
            row'[g] # "none" /\ ~Uploading(g)'
    BY <1>1
  <2>2. \A g \in Files : row[g] \in {"deleted", "gone"} =>
            row'[g] \in {"deleted", "gone"} /\ (g \notin Bytes => g \notin Bytes')
    BY DEF Bytes
  <2>3. ASSUME NEW i \in Jobs \ {j}, job[i].step \in UploadSteps
        PROVE  /\ row'[job[i].file] = row[job[i].file]
               /\ job[i].file \in local => job[i].file \in local'
               /\ job[i].file \in Bytes => job[i].file \in Bytes'
               /\ job[i].file \in remote' => job[i].file \in remote
    <3>1. job[i].file \in Files /\ Uploading(job[i].file)
      BY <2>3 DEF FilesTyped, WithFile, Uploading
    <3>2. row[job[i].file] \in {"none", "live"} /\ row'[job[i].file] = row[job[i].file]
      BY <1>4, <3>1
    <3>3. QED BY <3>1, <3>2 DEF Bytes
  <2>4. QED BY <2>1, <2>2, <2>3, OthersKeep
<1>6. Places'
  BY <1>1 DEF Places
<1>7. LiveFilesHaveBytes'
  <2> SUFFICES ASSUME NEW f \in Files, row'[f] = "live"
               PROVE  (f \in Bytes \/ f \in uncounted)'
    BY DEF LiveFilesHaveBytes, Live
  <2>1. row[f] = "live" /\ (f \in local => f \in local') /\ (f \in remote => f \in remote')
    OBVIOUS
  <2>2. QED BY <2>1 DEF LiveFilesHaveBytes, Live, Bytes
<1>8. NoBytesLeft'
  <2> SUFFICES ASSUME NEW f \in local' \cup remote', row'[f] \in {"none", "gone"}
               PROVE  (Uploading(f) \/ f \in abandoned)'
    BY DEF NoBytesLeft
  <2>1. f \in Files /\ f \in local \cup remote BY DEF FilesTyped
  <2>2. CASE row'[f] = row[f] BY <1>1, <2>1, <2>2 DEF NoBytesLeft
  <2>3. CASE row'[f] # row[f]
    <3>1. f \notin Bytes /\ ~Uploading(f) /\ row[f] # "none" BY <2>1, <2>3
    <3>2. storage = "S3" /\ f \in local
      BY <2>1, <3>1 DEF Bytes, Places, FilesTyped
    <3>3. f \in abandoned BY <2>1, <3>1, <3>2 DEF Places
    <3>4. QED BY <3>3
  <2>4. QED BY <2>2, <2>3
<1>9. QED BY <1>1, <1>2, <1>3, <1>5, <1>6, <1>7, <1>8

(* The steps of removals and of the scheduled jobs.                        *)
LEMMA RemovalStep ==
  ASSUME FilesInv, NEW j \in Jobs,
         \/ \E f \in Files : CheckRemove(j, f)
         \/ MarkDeleted(j) \/ ReadUsage(j) \/ WriteUsage(j)
         \/ Recalculate(j) \/ WriteSum(j)
         \/ (Crash(j) /\ job[j].step \notin UploadSteps)
  PROVE  FilesInv'
<1> USE DEF FilesInv
<1>1. job[j] \in Job /\ FilesTyped /\ Removing(j)
  BY DEF FilesTyped
<1>2. ASSUME NEW f \in Files, CheckRemove(j, f) PROVE FilesInv'
  <2>1. /\ row[f] = "live" /\ ~Uploading(f) /\ Start(j, "mark", f)
        /\ UNCHANGED <<storage, row, local, remote, used, abandoned, uncounted>>
    BY <1>2 DEF CheckRemove
  <2>2. /\ job' \in [Jobs -> Job] /\ Only(j) /\ job[j].step = "idle"
        /\ job'[j].step = "mark" /\ job'[j].file = f /\ job'[j].todo = {}
    BY <2>1, StartEffect DEF Steps
  <2>3. Other(j) BY <2>2 DEF Other, UploadSteps
  <2>4. ~Uploading(f)' BY <2>1, <2>2, <2>3, UploadersAfter
  <2>5. Removing(j)' BY <2>1, <2>2, <2>4 DEF Removing
  <2>6. QED BY <2>1, <2>2, <2>3, <2>5, OthersOnlyDelete DEF FilesTyped
<1>3. CASE MarkDeleted(j)
  <2>1. PICK f \in Files : f = job[j].file
    BY <1>3 DEF MarkDeleted, At, FilesTyped, WithFile
  <2>2. /\ job[j].step = "mark" /\ row[f] # "none" /\ ~Uploading(f)
        /\ UNCHANGED <<storage, local, remote, used, abandoned>>
    BY <1>1, <1>3, <2>1 DEF MarkDeleted, At, Removing
  <2>3. CASE row[f] = "gone"
    <3>1. Finish(j) /\ UNCHANGED <<row, uncounted>> BY <1>3, <2>1, <2>3 DEF MarkDeleted
    <3>2. /\ job' \in [Jobs -> Job] /\ Only(j) /\ job'[j].step = "idle" /\ job'[j].todo = {}
      BY <3>1, FinishEffect
    <3>3. Other(j) /\ Removing(j)'
      BY <2>2, <3>2 DEF Other, UploadSteps, Removing
    <3>4. QED BY <2>2, <3>1, <3>2, <3>3, OthersOnlyDelete DEF FilesTyped, WithFile, UploadSteps
  <2>4. CASE row[f] # "gone"
    <3>1. PICK r : r = [NoJob EXCEPT !.step = "readUsage"]
      OBVIOUS
    <3>2. /\ job' = [job EXCEPT ![j] = r] /\ row' = [row EXCEPT ![f] = "deleted"]
          /\ uncounted' = uncounted \ {f}
      BY <1>3, <2>1, <2>4, <3>1 DEF MarkDeleted, Delete
    <3>3. r \in Job /\ r.step = "readUsage" /\ r.todo = {}
      BY <3>1 DEF Job, NoJob, Steps
    <3>4. /\ job' \in [Jobs -> Job] /\ Only(j) /\ job'[j].step = "readUsage"
          /\ job'[j].todo = {}
      BY <1>1, <3>2, <3>3, SetJob
    <3>5. Other(j) /\ Removing(j)'
      BY <2>2, <3>4 DEF Other, UploadSteps, Removing
    <3>6. row \in [Files -> RowStates] /\ row' \in [Files -> RowStates]
          /\ row'[f] = "deleted" /\ \A g \in Files \ {f} : row'[g] = row[g]
      BY <3>2 DEF FilesTyped, RowStates
    <3>7. \A g \in Files : row'[g] # row[g] =>
             row[g] \in {"live", "deleted", "gone"} /\ row'[g] \in {"deleted", "gone"}
                 /\ ~Uploading(g) /\ (row'[g] = "gone" => row[g] # "live" /\ g \notin Bytes)
      BY <2>2, <3>6 DEF RowStates
    <3>8. \A g \in Files : /\ row[g] = "gone" => row'[g] = "gone"
                           /\ g \in uncounted /\ row'[g] = "live" => g \in uncounted'
      BY <2>4, <3>2, <3>6
    <3>9. QED BY <2>2, <3>4, <3>5, <3>6, <3>7, <3>8, OthersOnlyDelete
              DEF FilesTyped, WithFile, UploadSteps
  <2>5. QED BY <2>3, <2>4
<1>4. CASE ReadUsage(j)
  <2>1. Read(j, "writeUsage", used) /\ job[j].step = "readUsage"
        /\ UNCHANGED <<storage, row, local, remote, used, abandoned, uncounted>>
    BY <1>4 DEF ReadUsage, At
  <2>2. /\ job' \in [Jobs -> Job] /\ Only(j) /\ job'[j].step = "writeUsage"
        /\ job'[j].todo = job[j].todo
    BY <1>1, <2>1, ReadEffect DEF Steps, FilesTyped
  <2>3. Other(j) /\ Removing(j)'
    BY <1>1, <2>1, <2>2 DEF Other, UploadSteps, Removing
  <2>4. QED BY <2>1, <2>2, <2>3, OthersOnlyDelete DEF FilesTyped, WithFile, UploadSteps
<1>5. CASE Recalculate(j)
  <2>1. Read(j, "writeSum", SumOfFiles) /\ job[j].step = "idle"
        /\ UNCHANGED <<storage, row, local, remote, used, abandoned, uncounted>>
    BY <1>5 DEF Recalculate, At
  <2>2. /\ job' \in [Jobs -> Job] /\ Only(j) /\ job'[j].step = "writeSum"
        /\ job'[j].todo = job[j].todo
    BY <1>1, <2>1, ReadEffect, SumIsNat DEF Steps
  <2>3. Other(j) /\ Removing(j)'
    BY <1>1, <2>1, <2>2 DEF Other, UploadSteps, Removing
  <2>4. QED BY <2>1, <2>2, <2>3, OthersOnlyDelete DEF FilesTyped, WithFile, UploadSteps
<1>6. CASE WriteUsage(j) \/ WriteSum(j) \/ (Crash(j) /\ job[j].step \notin UploadSteps)
  <2>1. /\ Finish(j) /\ job[j].step \notin UploadSteps /\ used' \in Nat
        /\ UNCHANGED <<storage, row, local, remote, abandoned, uncounted>>
    <3>1. job[j].seen \in Nat /\ LessOne(job[j].seen) \in Nat
      BY <1>1 DEF Job, LessOne
    <3>2. QED BY <1>1, <1>6, <3>1 DEF WriteUsage, WriteSum, Crash, At, UploadSteps, FilesTyped
  <2>2. /\ job' \in [Jobs -> Job] /\ Only(j) /\ job'[j].step = "idle" /\ job'[j].todo = {}
    BY <1>1, <2>1, FinishEffect
  <2>3. Other(j) /\ Removing(j)'
    BY <2>1, <2>2 DEF Other, UploadSteps, Removing
  <2>4. QED BY <2>1, <2>2, <2>3, OthersOnlyDelete DEF FilesTyped, WithFile, UploadSteps
<1>7. QED BY <1>2, <1>3, <1>4, <1>5, <1>6

LEMMA CleanUpStep ==
  ASSUME FilesInv, NEW j \in Jobs,
         ListDeleted(j) \/ (\E f \in Files : ReapBytes(j, f)) \/ ReapRow(j)
  PROVE  FilesInv'
<1> USE DEF FilesInv
<1>1. job[j] \in Job /\ FilesTyped /\ Removing(j)
  BY DEF FilesTyped
<1>2. CASE ListDeleted(j)
  <2>1. PICK T \in SUBSET Files : T = {f \in Files : row[f] = "deleted"}
    OBVIOUS
  <2>2. /\ job[j].step = "idle" /\ job' = [job EXCEPT ![j] = Reaping(T)]
        /\ UNCHANGED <<storage, row, local, remote, used, abandoned, uncounted>>
    BY <1>2, <2>1 DEF ListDeleted, At
  <2>3. PICK r \in Job : r = Reaping(T)
    BY <2>1, ReapingIsJob
  <2>4. r.step \in {"idle", "reap"} /\ r.todo = T
    BY <2>1, <2>3, ReapingIsJob
  <2>5. job' \in [Jobs -> Job] /\ Only(j) /\ job'[j] = r
    BY <1>1, <2>2, <2>3, SetJob
  <2>6. Other(j) /\ Removing(j)'
    BY <2>1, <2>2, <2>4, <2>5 DEF Other, UploadSteps, Removing
  <2>7. QED BY <2>2, <2>4, <2>5, <2>6, OthersOnlyDelete DEF FilesTyped, WithFile, UploadSteps
<1>3. ASSUME NEW f \in Files, ReapBytes(j, f) PROVE FilesInv'
  <2>1. /\ job[j].step = "reap" /\ f \in job[j].todo /\ row[f] \in {"deleted", "gone"}
        /\ UNCHANGED <<storage, row, used, abandoned, uncounted>>
    BY <1>1, <1>3 DEF ReapBytes, At, Removing
  <2>2. CASE storage = "S3" \/ f \in local
    <3>1. PICK r : r = [job[j] EXCEPT !.step = "reapRow", !.file = f]
      OBVIOUS
    <3>2. r \in Job /\ r.step = "reapRow" /\ r.file = f /\ r.todo = job[j].todo
      BY <1>1, <3>1 DEF Job, Steps
    <3>3. job' = [job EXCEPT ![j] = r]
      BY <1>1, <1>3, <2>2, <3>1 DEF ReapBytes, FilesTyped, Job
    <3>4. job' \in [Jobs -> Job] /\ Only(j) /\ job'[j] = r
      BY <1>1, <3>2, <3>3, SetJob
    <3>5. /\ local' \subseteq local /\ local \ {f} \subseteq local'
          /\ remote' \subseteq remote /\ remote \ {f} \subseteq remote'
          /\ f \notin (IF storage = "S3" THEN remote' ELSE local')
      BY <1>3, <2>2 DEF ReapBytes
    <3>6. Other(j) /\ Removing(j)'
      BY <1>1, <2>1, <3>2, <3>4, <3>5 DEF Other, UploadSteps, Removing, Bytes
    <3>7. \A g \in Files : (g \in local /\ g \notin local') \/ (g \in remote /\ g \notin remote')
             => row[g] \in {"deleted", "gone"}
      BY <2>1, <3>5
    <3>8. QED BY <2>1, <3>2, <3>4, <3>5, <3>6, <3>7, OthersOnlyDelete DEF FilesTyped
  <2>3. CASE ~(storage = "S3" \/ f \in local)
    <3>1. NextFile(j, f) /\ UNCHANGED <<local, remote>>
      BY <1>3, <2>3 DEF ReapBytes, SkipFile
    <3>2. /\ job' \in [Jobs -> Job] /\ Only(j)
          /\ job'[j].step \in {"idle", "reap"} /\ job'[j].todo \subseteq job[j].todo
      BY <1>1, <3>1, NextFileEffect
    <3>3. Other(j) /\ Removing(j)'
      BY <1>1, <2>1, <3>2 DEF Other, UploadSteps, Removing
    <3>4. QED BY <2>1, <3>1, <3>2, <3>3, OthersOnlyDelete DEF FilesTyped, WithFile, UploadSteps
  <2>4. QED BY <2>2, <2>3
<1>4. CASE ReapRow(j)
  <2>1. PICK f \in Files : f = job[j].file
    BY <1>4 DEF ReapRow, At, FilesTyped, WithFile
  <2>2. /\ job[j].step = "reapRow" /\ row' = [row EXCEPT ![f] = "gone"] /\ NextFile(j, f)
        /\ UNCHANGED <<storage, local, remote, used, abandoned, uncounted>>
    BY <1>4, <2>1 DEF ReapRow, At
  <2>3. row[f] \in {"deleted", "gone"} /\ f \notin Bytes /\ ~Uploading(f)
    BY <1>1, <2>1, <2>2 DEF Removing, Places
  <2>4. /\ job' \in [Jobs -> Job] /\ Only(j)
        /\ job'[j].step \in {"idle", "reap"} /\ job'[j].todo \subseteq job[j].todo
    BY <1>1, <2>2, NextFileEffect
  <2>5. row \in [Files -> RowStates] /\ row' \in [Files -> RowStates]
        /\ row'[f] = "gone" /\ \A g \in Files \ {f} : row'[g] = row[g]
    BY <2>2 DEF FilesTyped, RowStates
  <2>6. Other(j)
    BY <2>2, <2>4 DEF Other, UploadSteps
  <2>7. Removing(j)'
    BY <1>1, <2>4, <2>5 DEF Removing, Job
  <2>8. \A g \in Files : row'[g] # row[g] =>
           row[g] \in {"live", "deleted", "gone"} /\ row'[g] \in {"deleted", "gone"}
               /\ ~Uploading(g) /\ (row'[g] = "gone" => row[g] # "live" /\ g \notin Bytes)
    BY <2>3, <2>5
  <2>9. \A g \in Files : row[g] = "gone" => row'[g] = "gone"
    BY <2>5
  <2>10. QED BY <2>2, <2>4, <2>5, <2>6, <2>7, <2>8, <2>9, OthersOnlyDelete
             DEF FilesTyped, WithFile, UploadSteps
<1>5. QED BY <1>2, <1>3, <1>4

(* A message's attachment is marked, by nobody of Jobs.                    *)
LEMMA AttachmentStep ==
  ASSUME FilesInv, NEW f \in Files, MarkForDeletion(f)
  PROVE  FilesInv'
<1> USE DEF FilesInv
<1>1. /\ row[f] = "live" /\ ~Uploading(f) /\ row' = [row EXCEPT ![f] = "deleted"]
      /\ uncounted' = uncounted \ {f}
      /\ UNCHANGED <<storage, local, remote, used, job, abandoned>>
  BY DEF MarkForDeletion, Delete
<1>2. row \in [Files -> RowStates] /\ row' \in [Files -> RowStates]
      /\ row'[f] = "deleted" /\ \A g \in Files \ {f} : row'[g] = row[g]
  BY <1>1 DEF FilesTyped, RowStates
<1>3. FilesTyped' /\ OneUploader' /\ \A g \in Files : Uploading(g)' <=> Uploading(g)
  BY <1>1, <1>2 DEF FilesTyped, OneUploader, Uploading
<1>4. ASSUME NEW i \in Jobs PROVE UploadOf(i)' /\ Removing(i)'
  <2>1. UploadOf(i) /\ Removing(i) /\ job[i] \in Job
        /\ (job[i].step \in WithFile => job[i].file \in Files)
    BY DEF FilesTyped
  <2>2. PICK g : g = job[i].file OBVIOUS
  <2>3. job[i].step \in UploadSteps => g \in Files /\ row'[g] = row[g]
    <3>1. job[i].step \in UploadSteps => g \in Files /\ Uploading(g)
      BY <2>1, <2>2 DEF Uploading, WithFile
    <3>2. QED BY <1>1, <1>2, <3>1
  <2>4. UploadOf(i)'
    BY <1>1, <2>1, <2>2, <2>3 DEF UploadOf, UploadSteps, Bytes
  <2>5. \A h \in Files : row[h] \in {"deleted", "gone"} => row'[h] \in {"deleted", "gone"}
    BY <1>2
  <2>6. \A h \in Files : row[h] # "none" => row'[h] # "none"
    BY <1>2
  <2>7. Removing(i)'
    BY <1>1, <1>3, <2>1, <2>2, <2>5, <2>6 DEF Removing, Job, WithFile, Bytes
  <2>8. QED BY <2>4, <2>7
<1>5. Places'
  BY <1>1, <1>2, <1>3 DEF Places
<1>6. LiveFilesHaveBytes'
  BY <1>1, <1>2 DEF LiveFilesHaveBytes, Live, Bytes
<1>7. NoBytesLeft'
  BY <1>1, <1>2, <1>3 DEF NoBytesLeft, FilesTyped
<1>8. QED BY <1>3, <1>4, <1>5, <1>6, <1>7

LEMMA FilesStep == FilesInv /\ [FileNext]_fileVars => FilesInv'
<1> SUFFICES ASSUME FilesInv, [FileNext]_fileVars PROVE FilesInv'
  OBVIOUS
<1>1. ASSUME NEW j \in Jobs, NEW f \in Files, Upload(j, f) PROVE FilesInv'
  BY <1>1, UploadBegins
<1>2. ASSUME NEW j \in Jobs,
             CheckUpload(j) \/ Store(j) \/ CreateRow(j) \/ (Count(j) /\ storage = "S3")
      PROVE  FilesInv'
  BY <1>2, UploadGoesOn
<1>3. ASSUME NEW j \in Jobs, EndsUpload(j) PROVE FilesInv'
  BY <1>3, UploadEnds
<1>4. ASSUME NEW j \in Jobs,
             \/ \E f \in Files : CheckRemove(j, f)
             \/ MarkDeleted(j) \/ ReadUsage(j) \/ WriteUsage(j)
             \/ Recalculate(j) \/ WriteSum(j)
             \/ (Crash(j) /\ job[j].step \notin UploadSteps)
      PROVE  FilesInv'
  BY <1>4, RemovalStep
<1>5. ASSUME NEW j \in Jobs,
             ListDeleted(j) \/ (\E f \in Files : ReapBytes(j, f)) \/ ReapRow(j)
      PROVE  FilesInv'
  BY <1>5, CleanUpStep
<1>6. ASSUME NEW f \in Files, MarkForDeletion(f) PROVE FilesInv'
  BY <1>6, AttachmentStep
<1>7. CASE UNCHANGED fileVars
  BY <1>7 DEF fileVars, FilesInv, FilesTyped, UploadOf, Removing, OneUploader, Places,
              LiveFilesHaveBytes, NoBytesLeft, Live, Bytes, Uploading
<1>8. QED BY <1>1, <1>2, <1>3, <1>4, <1>5, <1>6, <1>7
          DEF FileNext, ContinueJob, EndsUpload

LEMMA FilesAlways == FileSpec => []FilesInv
BY FilesInitial, FilesStep, PTL DEF FileSpec

(* A file that is served has its bytes, for any number of files and jobs   *)
(* and any interleaving of uploads, removals, clean-up jobs and deaths;    *)
(* unless counting its upload failed (file-upload.service.ts uploadFile,   *)
(* file.service.ts cleanupOldFiles).                                       *)
THEOREM ServedFilesHaveBytes == FileSpec => []LiveFilesHaveBytes
BY FilesAlways, PTL DEF FilesInv

(* Bytes without a row are those of an upload under way, or of one whose   *)
(* clean-up was skipped, failed or died (file-upload.service.ts:95-99,     *)
(* 204-220, 243-250): where a clean-up is done, whatever else runs or      *)
(* fails, no copy is forgotten, and a removal deletes the bytes before the *)
(* row.                                                                    *)
THEOREM NoOrphanBytes == FileSpec => []NoBytesLeft
BY FilesAlways, PTL DEF FilesInv

(* The usage counts a file at most once since the last sum, and a sum each *)
(* file at most once: files that were counted are counted for good.        *)
InUsage ==
    {f \in Files : /\ row[f] # "none"
                   /\ \A j \in Jobs : ~(job[j].step = "count" /\ job[j].file = f)}

Most == Cardinality(Files) + Cardinality(InUsage)

UsageBound ==
    /\ faults \in 0 .. MaxFaults /\ abandoned \subseteq Files /\ uncounted \subseteq Files
    /\ used <= Most /\ \A j \in Jobs : job[j].seen <= Most

LEMMA MostIsBounded ==
  /\ Cardinality(Files) \in Nat /\ Cardinality(InUsage) \in Nat
  /\ Most \in Usages /\ Cardinality(Files) <= Most
<1>1. InUsage \subseteq Files
  BY DEF InUsage
<1>2. /\ Cardinality(Files) \in Nat /\ Cardinality(InUsage) \in Nat
      /\ Cardinality(InUsage) <= Cardinality(Files)
  BY <1>1, FilesAssumption, FS_Subset, FS_CardinalityType
<1>3. QED BY <1>2 DEF Most, Usages

LEMMA SumIsBounded == SumOfFiles <= Most
<1>1. Live \subseteq Files
  BY DEF Live
<1>2. Cardinality(Live) \in Nat /\ Cardinality(Live) <= Cardinality(Files)
  BY <1>1, FilesAssumption, FS_Subset, FS_CardinalityType
<1>3. QED BY <1>2, MostIsBounded DEF SumOfFiles, Most

LEMMA JobEffect ==
  ASSUME FilesInv, NEW j \in Jobs,
         \/ \E f \in Files : Upload(j, f) \/ CheckRemove(j, f)
         \/ Recalculate(j) \/ ListDeleted(j)
         \/ ContinueJob(j) \/ Crash(j)
  PROVE  /\ Only(j) /\ (job'[j].step = "count" => CreateRow(j))
         /\ job'[j].seen \in {0, job[j].seen, used, SumOfFiles}
<1> USE DEF FilesInv
<1>0. FilesTyped
  OBVIOUS
<1>1. CASE \E f \in Files : Upload(j, f) \/ CheckRemove(j, f)
  <2>1. PICK f \in Files, s \in {"check", "mark"} : Start(j, s, f)
    BY <1>1 DEF Upload, CheckRemove
  <2>2. s \in Steps
    BY DEF Steps, UploadSteps
  <2>3. QED BY <1>0, <2>1, <2>2, StartEffect
<1>2. CASE Recalculate(j) \/ ReadUsage(j)
  <2>1. PICK s \in {"writeSum", "writeUsage"}, n \in {SumOfFiles, used} : Read(j, s, n)
    BY <1>2 DEF Recalculate, ReadUsage
  <2>2. s \in Steps /\ n \in Nat
    BY SumIsNat DEF Steps, FilesTyped
  <2>3. QED BY <1>0, <2>1, <2>2, ReadEffect
<1>3. CASE \/ Refuse(j) \/ CheckFails(j) \/ StoreFails(j) \/ CreateFails(j)
           \/ (Count(j) /\ storage # "S3") \/ CountFails(j) \/ Unstage(j)
           \/ (MarkDeleted(j) /\ row[job[j].file] = "gone")
           \/ WriteUsage(j) \/ WriteSum(j) \/ Crash(j)
  <2>1. Finish(j)
    BY <1>3 DEF Refuse, CheckFails, StoreFails, CreateFails, Count, Counted, CountFails, Unstage,
         MarkDeleted, WriteUsage, WriteSum, Crash
  <2>2. QED BY <1>0, <2>1, FinishEffect
<1>4. CASE CheckUpload(j) \/ Store(j) \/ (Count(j) /\ storage = "S3")
  <2>1. PICK s \in {"store", "create", "unstage"} : GoTo(j, s)
    BY <1>4 DEF CheckUpload, Store, Count, Counted
  <2>2. s \in Steps
    BY DEF Steps, UploadSteps
  <2>3. QED BY <1>0, <2>1, <2>2, GoToEffect
<1>5. CASE CreateRow(j)
  <2>1. GoTo(j, "count") /\ "count" \in Steps
    BY <1>5 DEF CreateRow, Steps, UploadSteps
  <2>2. QED BY <1>0, <1>5, <2>1, GoToEffect
<1>6. CASE ListDeleted(j)
  <2>1. PICK T \in SUBSET Files : job' = [job EXCEPT ![j] = Reaping(T)]
    BY <1>6 DEF ListDeleted
  <2>2. PICK r \in Job : r = Reaping(T)
    BY ReapingIsJob
  <2>3. r.step \in {"idle", "reap"} /\ r.seen = 0
    BY <2>2, ReapingIsJob
  <2>4. QED BY <1>0, <2>1, <2>2, <2>3, SetJob
<1>7. ASSUME NEW f \in Files, ReapBytes(j, f)
      PROVE  Only(j) /\ job'[j].step # "count" /\ job'[j].seen \in {0, job[j].seen}
  <2>1. CASE storage = "S3" \/ f \in local
    BY <1>0, <1>7, <2>1 DEF ReapBytes, FilesTyped, Job, Only
  <2>2. CASE ~(storage = "S3" \/ f \in local)
    <3>1. NextFile(j, f)
      BY <1>7, <2>2 DEF ReapBytes, SkipFile
    <3>2. QED BY <1>0, <3>1, NextFileEffect
  <2>3. QED BY <2>1, <2>2
<1>8. CASE ReapRow(j)
  <2>1. NextFile(j, job[j].file) /\ job[j].file \in Files
    BY <1>0, <1>8 DEF ReapRow, At, FilesTyped, WithFile
  <2>2. QED BY <1>0, <2>1, NextFileEffect
<1>9. CASE MarkDeleted(j) /\ row[job[j].file] # "gone"
  <2>1. PICK r : r = [NoJob EXCEPT !.step = "readUsage"]
    OBVIOUS
  <2>2. r \in Job /\ r.step = "readUsage" /\ r.seen = 0
    BY <2>1 DEF Job, NoJob, Steps
  <2>3. job' = [job EXCEPT ![j] = r]
    BY <1>9, <2>1 DEF MarkDeleted
  <2>4. QED BY <1>0, <2>2, <2>3, SetJob
<1>10. QED BY <1>1, <1>2, <1>3, <1>4, <1>5, <1>6, <1>7, <1>8, <1>9 DEF ContinueJob

LEMMA InUsageGrows ==
  ASSUME FilesInv, [FileNext]_fileVars
  PROVE  InUsage \subseteq InUsage'
<1> SUFFICES ASSUME NEW f \in InUsage PROVE f \in InUsage'
  OBVIOUS
<1>1. f \in Files /\ row[f] # "none"
  BY DEF InUsage
<1>2. row'[f] # "none"
  BY <1>1 DEF fileVars, FileNext, ContinueJob, Upload, CheckUpload, Refuse, CheckFails, Store,
       CreateRow, StoreFails, CreateFails, Count, CountFails, Unstage, CheckRemove, MarkDeleted,
       ReadUsage, WriteUsage, MarkForDeletion, Delete, Recalculate, WriteSum, ListDeleted,
       ReapBytes, ReapRow, Crash, FilesInv, FilesTyped, RowStates
<1>3. ASSUME NEW k \in Jobs, job'[k].step = "count", job'[k].file = f PROVE FALSE
  <2>1. CASE job' = job
    BY <1>3, <2>1 DEF InUsage
  <2>2. ASSUME NEW j \in Jobs, Only(j), job'[j].step = "count" => CreateRow(j) PROVE FALSE
    <3>1. k = j
      BY <1>3, <2>2 DEF Only, InUsage
    <3>2. CreateRow(j) /\ FilesTyped
      BY <1>3, <2>2, <3>1 DEF FilesInv
    <3>3. job'[j].file = job[j].file
      BY <3>2 DEF CreateRow, GoTo, FilesTyped, Job
    <3>4. row[f] = "none"
      BY <1>3, <3>1, <3>2, <3>3 DEF CreateRow, At, FilesInv, UploadOf
    <3>5. QED BY <1>1, <3>4
  <2>3. CASE \E g \in Files : MarkForDeletion(g)
    BY <2>1, <2>3 DEF MarkForDeletion
  <2>4. QED BY <2>1, <2>2, <2>3, JobEffect DEF FileNext, fileVars
<1>4. QED BY <1>1, <1>2, <1>3 DEF InUsage

LEMMA CountAddsOne ==
  ASSUME FilesInv, NEW j \in Jobs, Count(j) \/ CountFails(j), [FileNext]_fileVars
  PROVE  Most + 1 <= Most'
<1> DEFINE f == job[j].file
<1>1. f \in Files /\ f \notin InUsage /\ row[f] = "live" /\ row' = row
  BY DEF Count, CountFails, At, FilesInv, FilesTyped, UploadOf, InUsage, WithFile, UploadSteps
<1>2. Only(j) /\ job'[j].step # "count"
  <2>1. ContinueJob(j)
    BY DEF ContinueJob
  <2>2. ~CreateRow(j)
    BY DEF Count, CountFails, CreateRow, At
  <2>3. QED BY <2>1, <2>2, JobEffect
<1>3. ASSUME NEW k \in Jobs, job'[k].step = "count", job'[k].file = f PROVE FALSE
  BY <1>2, <1>3 DEF Count, CountFails, At, Only, FilesInv, OneUploader, UploadSteps
<1>4. f \in InUsage'
  BY <1>1, <1>3 DEF InUsage
<1>5. PICK A, B : A = InUsage /\ B = InUsage'
  OBVIOUS
<1>6. A \subseteq B /\ f \in B \ A /\ B \subseteq Files
  BY <1>1, <1>4, <1>5, InUsageGrows DEF InUsage
<1>7. IsFiniteSet(B) /\ IsFiniteSet(A)
  BY <1>6, FilesAssumption, FS_Subset
<1>8. Cardinality(A \cup {f}) = Cardinality(A) + 1
  BY <1>6, <1>7, FS_AddElement
<1>9. Cardinality(A) \in Nat /\ Cardinality(B) \in Nat /\ Cardinality(A \cup {f}) <= Cardinality(B)
  BY <1>6, <1>7, FS_Subset, FS_CardinalityType
<1>10. QED BY <1>5, <1>8, <1>9, MostIsBounded DEF Most

LEMMA MostGrows ==
  ASSUME FilesInv, [FileNext]_fileVars
  PROVE  Most \in Nat /\ Most' \in Nat /\ Most <= Most'
<1>1. PICK A, B : A = InUsage /\ B = InUsage'
  OBVIOUS
<1>2. A \subseteq B /\ B \subseteq Files
  BY <1>1, InUsageGrows DEF InUsage
<1>3. IsFiniteSet(B) /\ Cardinality(A) \in Nat /\ Cardinality(B) \in Nat
      /\ Cardinality(A) <= Cardinality(B)
  BY <1>2, FilesAssumption, FS_Subset, FS_CardinalityType
<1>4. QED BY <1>1, <1>3, MostIsBounded DEF Most

(* The history of the clean-ups, and the number of faults.                 *)
LEMMA HistoryStep ==
  ASSUME FilesInv, UsageBound, NEW j \in Jobs,
         \/ \E f \in Files : Upload(j, f) \/ CheckRemove(j, f)
         \/ Recalculate(j) \/ ListDeleted(j)
         \/ ContinueJob(j) \/ Crash(j)
  PROVE  /\ faults' \in 0 .. MaxFaults /\ abandoned' \subseteq Files
         /\ uncounted' \subseteq Files
<1> USE FilesAssumption DEF UsageBound
<1>1. CASE EndsUpload(j)
  <2>1. PICK f \in Files : f = job[j].file
    BY <1>1 DEF EndsUpload, FilesInv, FilesTyped, Refuse, CheckFails, StoreFails, CreateFails,
           Count, CountFails, Unstage, Crash, At, WithFile, UploadSteps
  <2>2. \/ UNCHANGED <<faults, abandoned>>
        \/ UNCHANGED faults /\ Abandon(f)
        \/ Fault /\ UNCHANGED abandoned
        \/ Fault /\ Abandon(f)
    BY <1>1, <2>1 DEF EndsUpload, Refuse, CheckFails, StoreFails, CreateFails, Count,
         CountFails, Unstage, Crash, CleanUp, CleanUpFile, Abandon
  <2>3. uncounted' \in {uncounted, uncounted \cup {f}}
    BY <1>1, <2>1 DEF EndsUpload, Refuse, CheckFails, StoreFails, CreateFails, Count,
         CountFails, Unstage, Crash
  <2>4. QED BY <2>1, <2>2, <2>3 DEF Fault, Abandon
<1>2. CASE ~EndsUpload(j)
  <2>1. \/ UNCHANGED <<faults, abandoned>>
        \/ Fault /\ UNCHANGED abandoned
    BY <1>2 DEF EndsUpload, ContinueJob, Upload, CheckUpload, Store, CreateRow, Count,
         CheckRemove, MarkDeleted, ReadUsage, WriteUsage, Recalculate, WriteSum, ListDeleted,
         ReapBytes, ReapRow, Crash
  <2>2. uncounted' \subseteq uncounted
    BY <1>2 DEF EndsUpload, ContinueJob, Upload, CheckUpload, Store, CreateRow, Count,
         CheckRemove, MarkDeleted, Delete, ReadUsage, WriteUsage, Recalculate, WriteSum,
         ListDeleted, ReapBytes, ReapRow, Crash
  <2>3. QED BY <2>1, <2>2 DEF Fault
<1>3. QED BY <1>1, <1>2

LEMMA UsageStep ==
  ASSUME FilesInv, UsageBound, [FileNext]_fileVars
  PROVE  UsageBound'
<1>1. Most \in Nat /\ Most' \in Nat /\ Most <= Most'
  BY MostGrows
<1>2. used \in Nat /\ \A j \in Jobs : job[j].seen \in Nat
  BY DEF FilesInv, FilesTyped, Job
<1>3. CASE job' = job /\ UNCHANGED <<used, faults, abandoned, uncounted>>
  BY <1>1, <1>2, <1>3 DEF UsageBound
<1>4. ASSUME NEW j \in Jobs,
             \/ \E f \in Files : Upload(j, f) \/ CheckRemove(j, f)
             \/ Recalculate(j) \/ ListDeleted(j)
             \/ ContinueJob(j) \/ Crash(j)
      PROVE  UsageBound'
  <2>1. Only(j) /\ job'[j].seen \in {0, job[j].seen, used, SumOfFiles}
    BY <1>4, JobEffect
  <2>2. job'[j].seen <= Most
    BY <1>1, <1>2, <2>1, SumIsBounded DEF UsageBound
  <2>3. job'[j].seen \in Nat
    BY <1>2, <2>1, SumIsNat
  <2>4. \A k \in Jobs : job'[k].seen <= Most'
    BY <1>1, <1>2, <2>1, <2>2, <2>3 DEF Only, UsageBound
  <2>5. \/ used' \in {used, job[j].seen, LessOne(job[j].seen)}
        \/ (Count(j) \/ CountFails(j)) /\ used' = used + 1
    BY <1>4 DEF ContinueJob, Upload, CheckUpload, Refuse, CheckFails, Store,
         CreateRow, StoreFails, CreateFails, Count, CountFails, Unstage, CheckRemove, MarkDeleted,
         ReadUsage, WriteUsage, Recalculate, WriteSum, ListDeleted, ReapBytes, ReapRow, Crash
  <2>6. used' <= Most'
    <3>1. CASE (Count(j) \/ CountFails(j)) /\ used' = used + 1
      BY <1>1, <1>2, <3>1, CountAddsOne DEF UsageBound
    <3>2. CASE used' \in {used, job[j].seen, LessOne(job[j].seen)}
      BY <1>1, <1>2, <3>2 DEF UsageBound, LessOne
    <3>3. QED BY <2>5, <3>1, <3>2
  <2>7. QED BY <1>4, <2>4, <2>6, HistoryStep DEF UsageBound
<1>5. ASSUME NEW f \in Files, MarkForDeletion(f) PROVE UsageBound'
  BY <1>1, <1>2, <1>5 DEF MarkForDeletion, Delete, UsageBound
<1>6. QED BY <1>3, <1>4, <1>5 DEF FileNext, fileVars

LEMMA UsageInitial == FileInit => UsageBound
<1> SUFFICES ASSUME FileInit PROVE UsageBound
  OBVIOUS
<1>1. Most \in Nat
  BY MostIsBounded DEF Usages
<1>2. QED BY <1>1, FilesAssumption DEF FileInit, UsageBound, NoJob

LEMMA FilesTypes == FilesInv /\ UsageBound => FileTypeOK
<1> SUFFICES ASSUME FilesInv, UsageBound PROVE FileTypeOK
  OBVIOUS
<1>1. Most \in Nat /\ Most <= 2 * Cardinality(Files) /\ Cardinality(Files) \in Nat
  BY MostIsBounded DEF Usages
<1>2. used \in Usages
  BY <1>1 DEF FilesInv, FilesTyped, UsageBound, Usages
<1>3. job \in [Jobs -> JobState]
  <2>1. ASSUME NEW j \in Jobs PROVE job[j] \in JobState
    <3>1. job[j] \in Job /\ job[j].seen <= Most
      BY DEF FilesInv, FilesTyped, UsageBound
    <3>2. job[j].seen \in Usages
      BY <1>1, <3>1 DEF Job, Usages
    <3>3. QED BY <3>1, <3>2 DEF Job, JobState
  <2>2. QED BY <2>1 DEF FilesInv, FilesTyped
<1>4. QED BY <1>2, <1>3 DEF FilesInv, FilesTyped, UsageBound, FileTypeOK

-----------------------------------------------------------------------------
(* TokenRefreshClient.  Only one request is waited for, by the tab with    *)
(* the lock, and it has the cookie's token: an answer it gets is a later   *)
(* token than the cookie's.  Requests given up on get no answer.           *)
Waited ==
    /\ \A q \in requests :
          /\ q.token <= cookie
          /\ q.answer # None => q.waiting
          /\ q.waiting => q.token = cookie
          /\ q.answer \in Tokens => q.answer = newest /\ cookie < newest
    /\ \A p, q \in requests : p.waiting /\ q.waiting => p = q

(* How long ago the cookie's token can have been rotated, while a ladder   *)
(* that began with a live one is under way: not before its first attempt.  *)
Retrying(t) == phase[t] \in {"sent", "backoff"} \/ (phase[t] = "lock" /\ attempt[t] > 1)

Budgeted(t) ==
    /\ phase[t] = "backoff" => attempt[t] < MaxAttempts /\ since[t] + timer[t] <= Budget
    /\ phase[t] = "lock" /\ attempt[t] > 1 /\ ~excused[t] => since[t] <= Budget
    /\ Retrying(t) /\ ~excused[t] /\ since[t] <= Budget => age[cookie] <= since[t]

InBudget ==
    /\ \A k \in Tokens : k >= newest => age[k] = 0
    /\ \A t \in Tabs : Budgeted(t)
    /\ \A q \in requests :
          ~q.excused /\ q.answer = None => age[q.token] <= Budget + q.sent

RefreshInv == TypeOK /\ Waited /\ InBudget

LEMMA Times ==
    /\ Timeout \in Nat /\ MaxAttempts \in Nat /\ MaxBackoff \in Nat /\ Rounds \in Nat
    /\ Second \in Nat /\ MaxToken \in Nat /\ Cooldown \in Nat /\ Budget \in Nat
    /\ Grace \in Nat /\ MaxStarts \in Nat
    /\ MaxAttempts >= 1 /\ Rounds >= 1 /\ MaxToken >= 1
    /\ Patience \in Nat /\ Patience >= 1 /\ Budget + Patience = Grace
    /\ \A n : SessionRefreshBackoff(n) \in Nat
<1>1. /\ Timeout \in Nat /\ MaxAttempts \in Nat /\ MaxBackoff \in Nat /\ Rounds \in Nat
      /\ Second \in Nat /\ MaxToken \in Nat /\ Cooldown \in Nat /\ Budget \in Nat
      /\ Grace \in Nat /\ MaxStarts \in Nat
      /\ MaxAttempts # 0 /\ Rounds # 0 /\ MaxToken # 0 /\ Budget < Grace
  BY TimeAssumption DEF TimeAssumption
<1>2. \A n : SessionRefreshBackoff(n) \in Nat
  BY <1>1 DEF SessionRefreshBackoff
<1>3. QED BY <1>1, <1>2 DEF Patience

LEMMA RefreshInitial == Init => RefreshInv
<1> SUFFICES ASSUME Init PROVE RefreshInv
  OBVIOUS
<1>1. (\A t \in Tabs : phase[t] = "idle") /\ requests = {} /\ holder = None
  BY DEF Init
<1>2. cookie = 1 /\ newest = 1 /\ 1 \in Tokens
  BY Times DEF Init, Tokens
<1>3. age \in [Tokens -> 0..(Grace + 1)] /\ \A k \in Tokens : age[k] = 0
  <2>1. age = [k \in Tokens |-> 0] BY DEF Init
  <2>2. 0 \in 0..(Grace + 1) BY Times
  <2>3. QED BY <2>1, <2>2
<1>4. excused \in [Tabs -> BOOLEAN] /\ ended \in BOOLEAN
  <2>1. excused = [t \in Tabs |-> FALSE] /\ ended = FALSE BY DEF Init
  <2>2. QED BY <2>1
<1>5. phase \in [Tabs -> Phases] /\ timer \in [Tabs -> Nat]
      /\ attempt \in [Tabs -> 1..MaxAttempts] /\ since \in [Tabs -> 0..(Budget + 1)]
      /\ round \in [Tabs -> 0..Rounds] /\ cooldown \in [Tabs -> 0..Cooldown]
      /\ starts \in 0..MaxStarts
  <2>1. /\ phase = [t \in Tabs |-> "idle"] /\ timer = [t \in Tabs |-> 0]
        /\ attempt = [t \in Tabs |-> 1] /\ since = [t \in Tabs |-> 0]
        /\ round = [t \in Tabs |-> 0] /\ cooldown = [t \in Tabs |-> 0] /\ starts = 0
    BY DEF Init
  <2>2. /\ "idle" \in Phases /\ 0 \in Nat /\ 1 \in 1..MaxAttempts /\ 0 \in 0..(Budget + 1)
        /\ 0 \in 0..Rounds /\ 0 \in 0..Cooldown /\ 0 \in 0..MaxStarts
    BY Times DEF Phases
  <2>3. QED BY <2>1, <2>2
<1>6. TypeOK
  BY <1>1, <1>2, <1>3, <1>4, <1>5, NoneAssumption DEF TypeOK, NoneAssumption
<1>7. Waited
  BY <1>1 DEF Waited
<1>8. InBudget
  BY <1>1, <1>3 DEF InBudget, Budgeted, Retrying
<1>9. QED BY <1>6, <1>7, <1>8 DEF RefreshInv

(* A request that is answered stays while its tab waits for it.            *)
LEMMA AnsweredEffect ==
  ASSUME RefreshInv, NEW q \in requests, NEW a \in Tokens \cup {Refusal}, Answered(q, a)
  PROVE  \E r \in Request :
           /\ requests' \subseteq (requests \ {q}) \cup {r}
           /\ r \in requests' => q.waiting
           /\ r.tab = q.tab /\ r.token = q.token /\ r.answer = a
           /\ r.waiting = q.waiting
<1>1. q \in Request
  BY DEF RefreshInv, TypeOK
<1>2. PICK r : r = [q EXCEPT !.answer = a, !.sent = 0]
  OBVIOUS
<1>3. 0 \in 0..Patience
  BY Times
<1>4. /\ r \in Request /\ r.tab = q.tab /\ r.token = q.token /\ r.answer = a
      /\ r.waiting = q.waiting
  BY <1>1, <1>2, <1>3 DEF Request
<1>5. CASE r \notin requests' \/ q.waiting
  BY <1>2, <1>4, <1>5 DEF Answered
<1>6. CASE r \in requests' /\ ~q.waiting
  <2>1. requests' = requests \ {q} BY <1>6 DEF Answered
  <2>2. r \in requests /\ a # None
    BY <1>6, <2>1, NoneAssumption DEF NoneAssumption, Tokens
  <2>3. r.waiting BY <1>4, <2>2 DEF RefreshInv, Waited
  <2>4. QED BY <1>4, <1>6, <2>3
<1>7. QED BY <1>5, <1>6

(* What a step says of the tabs: their variables keep their types, and     *)
(* only one tab's change.                                                  *)
LaddersTyped ==
    /\ phase \in [Tabs -> Phases] /\ timer \in [Tabs -> Nat]
    /\ attempt \in [Tabs -> 1..MaxAttempts] /\ since \in [Tabs -> 0..(Budget + 1)]
    /\ round \in [Tabs -> 0..Rounds] /\ cooldown \in [Tabs -> 0..Cooldown]
    /\ excused \in [Tabs -> BOOLEAN]

OnlyTab(t) ==
    \A u \in Tabs \ {t} :
        /\ phase'[u] = phase[u] /\ timer'[u] = timer[u] /\ attempt'[u] = attempt[u]
        /\ since'[u] = since[u] /\ excused'[u] = excused[u]

LEMMA OthersBudgeted ==
  ASSUME RefreshInv, NEW t \in Tabs, OnlyTab(t), cookie' = cookie, age' = age
  PROVE  \A u \in Tabs \ {t} : Budgeted(u)'
BY DEF RefreshInv, InBudget, OnlyTab, Budgeted, Retrying

LEMMA LadderEffect ==
  ASSUME RefreshInv, NEW t \in Tabs, Ladder(t), round' \in [Tabs -> 0..Rounds],
         cooldown' \in [Tabs -> 0..Cooldown]
  PROVE  /\ LaddersTyped' /\ OnlyTab(t) /\ Budgeted(t)'
         /\ phase' = [phase EXCEPT ![t] = "lock"]
<1> USE DEF RefreshInv, TypeOK, Ladder
<1>1. phase' \in [Tabs -> Phases] /\ timer' \in [Tabs -> Nat]
      /\ attempt' \in [Tabs -> 1..MaxAttempts] /\ since' \in [Tabs -> 0..(Budget + 1)]
  BY Times DEF Phases
<1>2. excused' \in [Tabs -> BOOLEAN]
  OBVIOUS
<1>3. OnlyTab(t)
  BY DEF OnlyTab
<1>4. phase'[t] = "lock" /\ attempt'[t] = 1
  OBVIOUS
<1>5. Budgeted(t)'
  BY <1>4 DEF Budgeted, Retrying
<1>6. QED BY <1>1, <1>2, <1>3, <1>5 DEF LaddersTyped

(* A tab that does not begin or end a request.                             *)
LEMMA TabStep ==
  ASSUME RefreshInv, NEW t \in Tabs, OnlyTab(t), LaddersTyped', Budgeted(t)',
         UNCHANGED <<cookie, server, requests, holder>>, starts' \in 0..MaxStarts,
         phase[t] # "sent", phase'[t] # "sent"
  PROVE  RefreshInv'
<1> USE DEF RefreshInv, server
<1>1. \A u \in Tabs : phase'[u] = "sent" <=> phase[u] = "sent"
  BY DEF OnlyTab
<1>2. TypeOK'
  BY <1>1 DEF TypeOK, LaddersTyped, Request
<1>3. Waited'
  BY DEF Waited
<1>4. \A u \in Tabs : Budgeted(u)'
  BY OthersBudgeted
<1>5. InBudget'
  BY <1>4 DEF InBudget
<1>6. QED BY <1>2, <1>3, <1>5

LEMMA StartStep ==
  ASSUME RefreshInv, NEW t \in Tabs,
         \/ RefreshSessionWithRetry(t) \/ NextRound(t) \/ Retry(t)
         \/ \E tryAgain \in BOOLEAN : RefreshSessionUntilAnswered(t, tryAgain)
  PROVE  RefreshInv'
<1> USE DEF RefreshInv
<1>1. CASE RefreshSessionWithRetry(t)
  <2>1. /\ round' = [round EXCEPT ![t] = 0] /\ cooldown' = cooldown
        /\ starts' = starts + 1 /\ starts < MaxStarts /\ phase[t] = "idle" /\ Ladder(t)
        /\ UNCHANGED <<cookie, server, requests, holder>>
    BY <1>1 DEF RefreshSessionWithRetry
  <2>2. round' \in [Tabs -> 0..Rounds] /\ cooldown' \in [Tabs -> 0..Cooldown]
        /\ starts' \in 0..MaxStarts
    BY <2>1, Times DEF TypeOK
  <2>3. /\ LaddersTyped' /\ OnlyTab(t) /\ Budgeted(t)'
        /\ phase' = [phase EXCEPT ![t] = "lock"]
    BY <2>1, <2>2, LadderEffect
  <2>4. QED BY <2>1, <2>2, <2>3, TabStep DEF TypeOK
<1>2. CASE NextRound(t)
  <2>1. /\ UNCHANGED <<round, cooldown, starts>> /\ phase[t] = "pause" /\ Ladder(t)
        /\ UNCHANGED <<cookie, server, requests, holder>>
    BY <1>2 DEF NextRound
  <2>2. /\ LaddersTyped' /\ OnlyTab(t) /\ Budgeted(t)'
        /\ phase' = [phase EXCEPT ![t] = "lock"]
    BY <2>1, LadderEffect DEF TypeOK
  <2>3. QED BY <2>1, <2>2, TabStep DEF TypeOK
<1>3. CASE Retry(t)
  <2>1. /\ phase[t] = "backoff" /\ timer[t] = 0
        /\ phase' = [phase EXCEPT ![t] = "lock"]
        /\ attempt' = [attempt EXCEPT ![t] = attempt[t] + 1]
        /\ UNCHANGED <<cookie, server, requests, holder, timer, since, round, cooldown,
                       starts, excused>>
    BY <1>3 DEF Retry
  <2>2. attempt[t] \in 1..MaxAttempts /\ attempt[t] < MaxAttempts /\ since[t] <= Budget
        /\ since[t] \in 0..(Budget + 1)
    BY <2>1, Times DEF InBudget, Budgeted, TypeOK
  <2>3. attempt[t] + 1 \in 1..MaxAttempts
    BY <2>2, Times
  <2>4. LaddersTyped'
    BY <2>1, <2>3 DEF TypeOK, LaddersTyped, Phases
  <2>5. OnlyTab(t)
    BY <2>1 DEF OnlyTab
  <2>6. phase'[t] = "lock" /\ Retrying(t)
    BY <2>1 DEF Retrying, TypeOK
  <2>7. Budgeted(t)'
    BY <2>1, <2>2, <2>6 DEF InBudget, Budgeted, server, TypeOK, Tokens
  <2>8. QED BY <2>1, <2>4, <2>5, <2>6, <2>7, TabStep DEF TypeOK
<1>4. ASSUME NEW tryAgain \in BOOLEAN, RefreshSessionUntilAnswered(t, tryAgain)
      PROVE  RefreshInv'
  <2>1. /\ round' = [round EXCEPT ![t] = 1]
        /\ cooldown' = cooldown \/ cooldown' = [cooldown EXCEPT ![t] = 0]
        /\ starts' = starts + Rounds /\ starts + Rounds <= MaxStarts /\ phase[t] = "idle"
        /\ UNCHANGED <<cookie, server, requests, holder>>
    BY <1>4 DEF RefreshSessionUntilAnswered
  <2>2. round' \in [Tabs -> 0..Rounds] /\ cooldown' \in [Tabs -> 0..Cooldown]
        /\ starts' \in 0..MaxStarts
    BY <2>1, Times DEF TypeOK
  <2>3. CASE Ladder(t)
    <3>1. /\ LaddersTyped' /\ OnlyTab(t) /\ Budgeted(t)'
          /\ phase' = [phase EXCEPT ![t] = "lock"]
      BY <2>2, <2>3, LadderEffect
    <3>2. QED BY <2>1, <2>2, <3>1, TabStep DEF TypeOK
  <2>4. CASE ~Ladder(t)
    <3>1. /\ phase' = [phase EXCEPT ![t] = "pause"]
          /\ timer' = [timer EXCEPT ![t] = cooldown[t]]
          /\ UNCHANGED <<attempt, since, excused>>
      BY <1>4, <2>4 DEF RefreshSessionUntilAnswered
    <3>2. LaddersTyped'
      BY <2>2, <3>1 DEF TypeOK, LaddersTyped, Phases
    <3>3. OnlyTab(t)
      BY <3>1 DEF OnlyTab
    <3>4. phase'[t] = "pause" /\ phase[t] = "idle"
      BY <2>1, <3>1 DEF TypeOK
    <3>5. Budgeted(t)'
      BY <3>4 DEF Budgeted, Retrying
    <3>6. QED BY <2>1, <2>2, <3>2, <3>3, <3>4, <3>5, TabStep
  <2>5. QED BY <2>3, <2>4
<1>5. QED BY <1>1, <1>2, <1>3, <1>4

(* The server: a live token is nobody's answer but its own request's.      *)
LEMMA ServerTypes ==
  ASSUME RefreshInv, NEW q \in requests, NEW a \in Tokens \cup {Refusal},
         UNCHANGED <<cookie, holder, ladders>>, Answered(q, a),
         newest' \in Tokens, newest <= newest', age' = age, ended' \in BOOLEAN,
         q.answer = None,
         newest' # newest => q.token = newest,
         a \in Tokens => a = newest' /\ (q.waiting => cookie < newest')
  PROVE  RefreshInv'
<1> USE DEF RefreshInv, ladders
<1>1. PICK r \in Request :
           /\ requests' \subseteq (requests \ {q}) \cup {r}
           /\ r \in requests' => q.waiting
           /\ r.tab = q.tab /\ r.token = q.token /\ r.answer = a
           /\ r.waiting = q.waiting
  BY AnsweredEffect
<1>2. cookie \in Tokens /\ newest \in Tokens /\ cookie <= newest /\ Tokens \subseteq Nat
  BY Times DEF TypeOK, Tokens
<1>3. TypeOK'
  <2>1. \A p \in requests' : p \in Request /\ (p.waiting => phase[p.tab] = "sent")
    BY <1>1 DEF TypeOK
  <2>2. cookie' <= newest'
    BY <1>2
  <2>3. QED BY <2>1, <2>2 DEF TypeOK, Request
<1>4. Waited'
  <2>1. ASSUME NEW p \in requests', p # r
        PROVE  /\ p \in requests /\ p # q /\ p.token <= cookie
               /\ (p.answer # None => p.waiting) /\ (p.waiting => p.token = cookie)
               /\ p.answer \in Tokens => p.answer = newest /\ cookie < newest
    BY <1>1, <2>1 DEF Waited
  <2>2. ASSUME NEW p \in requests', p # r, p.answer \in Tokens
        PROVE  newest' = newest
    <3>1. cookie < newest BY <2>1, <2>2
    <3>2. q.token <= cookie BY DEF Waited
    <3>3. q.token # newest BY <1>2, <3>1, <3>2
    <3>4. QED BY <3>3
  <2>3. r \in requests' => /\ r.token <= cookie /\ (r.answer # None => r.waiting)
                           /\ (r.waiting => r.token = cookie)
                           /\ r.answer \in Tokens => r.answer = newest' /\ cookie < newest'
    BY <1>1 DEF Waited
  <2>4. \A p, p2 \in requests' : p.waiting /\ p2.waiting => p = p2
    BY <1>1, <2>1 DEF Waited
  <2>5. Tokens' = Tokens
    BY DEF Tokens
  <2>6. QED BY <2>1, <2>2, <2>3, <2>4 DEF Waited
<1>5. InBudget'
  <2>1. \A k \in Tokens : k >= newest' => age'[k] = 0
    BY <1>2 DEF InBudget, Tokens
  <2>2. \A t \in Tabs : Budgeted(t)'
    BY DEF InBudget, Budgeted, Retrying
  <2>3. a # None
    BY NoneAssumption DEF NoneAssumption, Tokens
  <2>4. \A p \in requests' : p.answer = None => p \in requests
    BY <1>1, <2>3
  <2>5. QED BY <2>1, <2>2, <2>4 DEF InBudget
<1>6. QED BY <1>3, <1>4, <1>5

LEMMA ServerStep ==
  ASSUME RefreshInv, NEW q \in requests,
         Rotate(q) \/ GraceRefresh(q) \/ DetectReuse(q) \/ RefuseEnded(q)
  PROVE  RefreshInv'
<1>1. cookie \in Tokens /\ newest \in Tokens /\ cookie <= newest /\ ended \in BOOLEAN
      /\ (q.waiting => q.token = cookie)
  BY DEF RefreshInv, TypeOK, Waited
<1>2. MaxToken \in Nat /\ Refusal \notin Tokens
  BY Times, NoneAssumption DEF NoneAssumption, Tokens
<1>3. CASE Rotate(q)
  <2>1. newest + 1 \in Tokens /\ newest' = newest + 1
    BY <1>1, <1>2, <1>3 DEF Rotate, Tokens
  <2>2. newest <= newest + 1 /\ cookie < newest + 1
    BY <1>1, <1>2 DEF Tokens
  <2>3. QED BY <1>1, <1>2, <1>3, <2>1, <2>2, ServerTypes DEF Rotate, Unknown
<1>4. CASE GraceRefresh(q)
  <2>1. newest <= newest BY <1>1, <1>2 DEF Tokens
  <2>2. QED BY <1>1, <1>4, <2>1, ServerTypes DEF GraceRefresh, Unknown, server
<1>5. CASE DetectReuse(q) \/ RefuseEnded(q)
  <2>1. newest <= newest BY <1>1, <1>2 DEF Tokens
  <2>2. Refusal \in Tokens \cup {Refusal} /\ Answered(q, Refusal) /\ q.answer = None
        /\ UNCHANGED <<cookie, newest, age, holder, ladders>>
    BY <1>5 DEF DetectReuse, RefuseEnded, Unknown, server
  <2>3. ended' \in BOOLEAN
    BY <1>1, <1>5 DEF DetectReuse, RefuseEnded, server
  <2>4. QED BY <1>1, <1>2, <2>1, <2>2, <2>3, ServerTypes
<1>6. QED BY <1>3, <1>4, <1>5

(* The end of the request that is waited for: no other is.                 *)
LEMMA HolderWaits ==
  ASSUME RefreshInv, NEW q \in requests, q.waiting
  PROVE  /\ q.tab \in Tabs /\ phase[q.tab] = "sent" /\ holder = q.tab
         /\ \A p \in requests \ {q} : ~p.waiting /\ p.answer = None
<1>1. q.tab \in Tabs /\ phase[q.tab] = "sent" /\ holder = q.tab
  BY DEF RefreshInv, TypeOK, Request
<1>2. \A p \in requests : (p.answer # None => p.waiting) /\ (p.waiting => p = q)
  BY DEF RefreshInv, Waited
<1>3. QED BY <1>1, <1>2

LEMMA RestEffect ==
  ASSUME RefreshInv, NEW t \in Tabs, NEW p \in {"idle", "pause", "signedOut"},
         NEW pause \in Nat, NEW r \in 0..Rounds, Rest(t, p, pause, r),
         cooldown' \in [Tabs -> 0..Cooldown]
  PROVE  /\ LaddersTyped' /\ OnlyTab(t) /\ Budgeted(t)' /\ phase'[t] = p
<1> USE DEF RefreshInv, TypeOK, Rest
<1>1. phase' \in [Tabs -> Phases] /\ timer' \in [Tabs -> Nat]
      /\ attempt' \in [Tabs -> 1..MaxAttempts] /\ since' \in [Tabs -> 0..(Budget + 1)]
      /\ round' \in [Tabs -> 0..Rounds]
  BY Times DEF Phases
<1>2. excused' \in [Tabs -> BOOLEAN]
  OBVIOUS
<1>3. OnlyTab(t)
  BY DEF OnlyTab
<1>4. phase'[t] = p
  OBVIOUS
<1>5. Budgeted(t)'
  BY <1>4 DEF Budgeted, Retrying
<1>6. QED BY <1>1, <1>2, <1>3, <1>4, <1>5 DEF LaddersTyped

LEMMA RequestEnds ==
  ASSUME RefreshInv, NEW t \in Tabs, holder = t, holder' = None, phase'[t] # "sent",
         OnlyTab(t), LaddersTyped', cookie' = cookie => Budgeted(t)',
         cookie' # cookie => ~Retrying(t)' /\ phase'[t] # "lock" /\ phase'[t] # "backoff",
         cookie' = cookie \/ (cookie' = newest /\ cookie < newest),
         UNCHANGED server, starts' = starts,
         \A p \in requests' : /\ p \in Request /\ ~p.waiting /\ p.answer = None
                              /\ \E q \in requests : /\ q.answer = None /\ q.token = p.token
                                                     /\ q.sent = p.sent /\ q.excused = p.excused
  PROVE  RefreshInv'
<1> USE DEF RefreshInv, server
<1>1. cookie \in Tokens /\ newest \in Tokens /\ cookie' \in Tokens /\ cookie <= newest
      /\ cookie' <= newest /\ cookie <= cookie' /\ Tokens \subseteq Nat
  <2>1. cookie \in Tokens /\ newest \in Tokens /\ cookie <= newest
    BY DEF TypeOK
  <2>2. Tokens \subseteq Nat
    BY Times DEF Tokens
  <2>3. cookie \in Nat /\ newest \in Nat
    BY <2>1, <2>2
  <2>4. QED BY <2>1, <2>2, <2>3
<1>2. TypeOK'
  <2>1. \A u \in Tabs : phase'[u] # "sent"
    BY DEF TypeOK, OnlyTab
  <2>2. \A u \in Tabs : holder' # u
    BY NoneAssumption DEF NoneAssumption
  <2>3. requests' \subseteq Request /\ \A p \in requests' : ~p.waiting
    OBVIOUS
  <2>4. QED BY <1>1, <2>1, <2>2, <2>3 DEF TypeOK, LaddersTyped, Request
<1>3. Waited'
  <2>1. \A p \in requests' : p.token <= cookie
    BY DEF Waited
  <2>2. \A p \in requests' : p.token \in Nat
    BY <1>1 DEF Request
  <2>3. None \notin Tokens
    BY NoneAssumption, <1>1 DEF NoneAssumption
  <2>4. \A p \in requests' : p.token <= cookie'
    BY <1>1, <2>1, <2>2
  <2>5. QED BY <2>3, <2>4 DEF Waited
<1>4. \A u \in Tabs : Budgeted(u)'
  <2>1. CASE cookie' = cookie
    BY <2>1, OthersBudgeted
  <2>2. CASE cookie' # cookie
    <3>1. age[newest] = 0 /\ \A u \in Tabs : since[u] \in Nat
      BY <1>1, Times DEF InBudget, TypeOK
    <3>2. \A u \in Tabs \ {t} : Budgeted(u)'
      BY <2>2, <3>1 DEF InBudget, OnlyTab, Budgeted, Retrying
    <3>3. Budgeted(t)'
      BY <2>2 DEF Budgeted
    <3>4. QED BY <3>2, <3>3
  <2>3. QED BY <2>1, <2>2
<1>5. InBudget'
  BY <1>4 DEF InBudget
<1>6. QED BY <1>2, <1>3, <1>5

LEMMA AnswerStep ==
  ASSUME RefreshInv, NEW q \in requests, Refreshed(q) \/ Rejected(q)
  PROVE  RefreshInv'
<1>1. /\ q.waiting /\ requests' = requests \ {q} /\ holder' = None
      /\ UNCHANGED server /\ starts' = starts
  BY DEF Refreshed, Rejected
<1>2. PICK t \in Tabs : t = q.tab /\ holder = t
  BY <1>1, HolderWaits
<1>3. \A p \in requests' : p \in Request /\ p \in requests /\ ~p.waiting /\ p.answer = None
  BY <1>1, HolderWaits DEF RefreshInv, TypeOK
<1>4. 0 \in Nat /\ 0 \in 0..Rounds /\ 0 \in 0..Cooldown
  BY Times
<1>5. CASE Refreshed(q)
  <2>1. /\ cookie' = q.answer /\ cooldown' = [cooldown EXCEPT ![t] = 0]
        /\ Rest(t, "idle", 0, 0) /\ q.answer \in Tokens
    BY <1>2, <1>5 DEF Refreshed
  <2>2. cookie' = newest /\ cookie < newest
    BY <2>1 DEF RefreshInv, Waited
  <2>3. cooldown' \in [Tabs -> 0..Cooldown]
    BY <1>4, <2>1 DEF RefreshInv, TypeOK
  <2>4. LaddersTyped' /\ OnlyTab(t) /\ Budgeted(t)' /\ phase'[t] = "idle"
    BY <1>4, <2>1, <2>3, RestEffect
  <2>5. ~Retrying(t)'
    BY <2>4 DEF Retrying
  <2>6. QED BY <1>1, <1>2, <1>3, <2>2, <2>4, <2>5, RequestEnds
<1>6. CASE Rejected(q)
  <2>1. UNCHANGED <<cookie, cooldown>> /\ Rest(t, "signedOut", 0, 0)
    BY <1>2, <1>6 DEF Rejected
  <2>2. LaddersTyped' /\ OnlyTab(t) /\ Budgeted(t)' /\ phase'[t] = "signedOut"
    BY <1>4, <2>1, RestEffect DEF RefreshInv, TypeOK
  <2>3. QED BY <1>1, <1>2, <1>3, <2>1, <2>2, RequestEnds
<1>7. QED BY <1>5, <1>6

LEMMA LoseStep ==
  ASSUME RefreshInv, NEW q \in requests, Lose(q)
  PROVE  RefreshInv'
<1> USE DEF RefreshInv, server, ladders
<1>1. requests' = requests \ {q} /\ UNCHANGED <<cookie, server, holder, ladders>>
  BY DEF Lose
<1>2. TypeOK'
  BY <1>1 DEF TypeOK, Request
<1>3. Waited'
  BY <1>1 DEF Waited, Tokens
<1>4. InBudget'
  BY <1>1 DEF InBudget, Budgeted, Retrying, Tokens
<1>5. QED BY <1>2, <1>3, <1>4

LEMMA UnavailableStep ==
  ASSUME RefreshInv, NEW t \in Tabs, Unavailable(t)
  PROVE  RefreshInv'
<1>1. /\ phase[t] = "sent" /\ holder = t /\ holder' = None
      /\ cookie' = cookie /\ UNCHANGED server /\ starts' = starts
  BY DEF Unavailable, RefreshInv, TypeOK
<1>2. \A p \in requests' :
         /\ p \in Request /\ ~p.waiting /\ p.answer = None
         /\ \E q \in requests : /\ q.answer = None /\ q.token = p.token
                                /\ q.sent = p.sent /\ q.excused = p.excused
  <2> SUFFICES ASSUME NEW p \in requests'
               PROVE  /\ p \in Request /\ ~p.waiting /\ p.answer = None
                      /\ \E q \in requests :
                            /\ q.answer = None /\ q.token = p.token
                            /\ q.sent = p.sent /\ q.excused = p.excused
    OBVIOUS
  <2>1. \/ p \in requests /\ p.tab # t
        \/ \E q \in requests : /\ q.tab = t /\ q.answer = None
                               /\ p = [q EXCEPT !.waiting = FALSE]
    BY DEF Unavailable, GiveUpRequest
  <2>2. CASE p \in requests /\ p.tab # t
    <3>1. p \in Request /\ (p.waiting => phase[p.tab] = "sent" /\ p.tab \in Tabs)
      BY <2>2 DEF RefreshInv, TypeOK, Request
    <3>2. ~p.waiting
      BY <1>1, <2>2, <3>1 DEF RefreshInv, TypeOK
    <3>3. p.answer = None
      BY <2>2, <3>2 DEF RefreshInv, Waited
    <3>4. QED BY <2>2, <3>1, <3>2, <3>3
  <2>3. ASSUME NEW q \in requests, q.tab = t, q.answer = None,
               p = [q EXCEPT !.waiting = FALSE]
        PROVE  /\ p \in Request /\ ~p.waiting /\ p.answer = None
               /\ q.token = p.token /\ q.sent = p.sent /\ q.excused = p.excused
    <3>1. q \in Request BY DEF RefreshInv, TypeOK
    <3>2. QED BY <2>3, <3>1 DEF Request
  <2>4. QED BY <2>1, <2>2, <2>3
<1>3. CASE MayRetry(attempt[t], since[t])
  <2>1. BackOff(t)
    BY <1>3 DEF Unavailable
  <2>2. phase' = [phase EXCEPT ![t] = "backoff"]
        /\ timer' = [timer EXCEPT ![t] = SessionRefreshBackoff(attempt[t])]
        /\ UNCHANGED <<attempt, since, round, excused, cooldown>>
    BY <2>1 DEF BackOff
  <2>3. PICK d \in Nat : d = SessionRefreshBackoff(attempt[t])
    BY Times
  <2>4. LaddersTyped'
    BY <2>2, <2>3 DEF RefreshInv, TypeOK, LaddersTyped, Phases
  <2>5. OnlyTab(t)
    BY <2>2 DEF OnlyTab
  <2>6. phase'[t] = "backoff" /\ timer'[t] = d /\ attempt'[t] < MaxAttempts
        /\ since'[t] + d <= Budget
    BY <1>3, <2>2, <2>3 DEF MayRetry, RefreshInv, TypeOK
  <2>7. Retrying(t) /\ Budgeted(t)
    BY <1>1 DEF Retrying, RefreshInv, InBudget
  <2>8. Budgeted(t)'
    BY <1>1, <2>2, <2>6, <2>7 DEF Budgeted, server
  <2>9. QED BY <1>1, <1>2, <2>4, <2>5, <2>6, <2>8, RequestEnds
<1>4. CASE ~MayRetry(attempt[t], since[t])
  <2>1. Pause(t)
    BY <1>4 DEF Unavailable
  <2>2. cooldown' = [cooldown EXCEPT ![t] = Cooldown]
        /\ \/ \E p \in Nat : Rest(t, "pause", p, round[t] + 1) /\ round[t] + 1 \in 0..Rounds
           \/ Rest(t, "idle", 0, 0)
    BY <2>1, Times DEF Pause
  <2>3. cooldown' \in [Tabs -> 0..Cooldown]
    BY <2>2, Times DEF RefreshInv, TypeOK
  <2>4. LaddersTyped' /\ OnlyTab(t) /\ Budgeted(t)' /\ phase'[t] \in {"pause", "idle"}
    <3>1. ASSUME NEW p \in Nat, Rest(t, "pause", p, round[t] + 1), round[t] + 1 \in 0..Rounds
          PROVE  LaddersTyped' /\ OnlyTab(t) /\ Budgeted(t)' /\ phase'[t] = "pause"
      BY <2>3, <3>1, RestEffect
    <3>2. ASSUME Rest(t, "idle", 0, 0)
          PROVE  LaddersTyped' /\ OnlyTab(t) /\ Budgeted(t)' /\ phase'[t] = "idle"
      BY <2>3, <3>2, RestEffect, Times
    <3>3. QED BY <2>2, <3>1, <3>2
  <2>5. phase'[t] # "sent" BY <2>4
  <2>6. QED BY <1>1, <1>2, <2>4, <2>5, RequestEnds
<1>5. QED BY <1>3, <1>4

(* An attempt goes out, with the cookie: nobody waits for a request.       *)
LEMMA SendStep ==
  ASSUME RefreshInv, NEW t \in Tabs, Send(t)
  PROVE  RefreshInv'
<1> USE DEF RefreshInv, server
<1>1. /\ phase[t] = "lock" /\ holder = None /\ holder' = t
      /\ phase' = [phase EXCEPT ![t] = "sent"]
      /\ timer' = [timer EXCEPT ![t] = Timeout]
      /\ excused' = [excused EXCEPT ![t] = excused[t] \/ (attempt[t] = 1 /\ cookie # newest)]
      /\ UNCHANGED <<cookie, server, attempt, since, round, cooldown, starts>>
  BY DEF Send, LockFree
<1>2. PICK r : /\ r = [tab |-> t, token |-> cookie, sent |-> 0, answer |-> None,
                       waiting |-> TRUE, excused |-> excused'[t]]
               /\ requests' = requests \cup {r}
  BY DEF Send
<1>3. /\ cookie \in Tokens /\ newest \in Tokens /\ cookie <= newest /\ Tokens \subseteq Nat
      /\ attempt[t] \in 1..MaxAttempts /\ since[t] \in 0..(Budget + 1)
  <2>1. Tokens \subseteq Nat BY Times DEF Tokens
  <2>2. QED BY <2>1 DEF TypeOK
<1>4. excused' \in [Tabs -> BOOLEAN]
      /\ (excused'[t] <=> (excused[t] \/ (attempt[t] = 1 /\ cookie # newest)))
  BY <1>1 DEF TypeOK
<1>5. /\ r \in Request /\ r.tab = t /\ r.token = cookie /\ r.sent = 0 /\ r.answer = None
      /\ r.waiting = TRUE /\ r.excused = excused'[t]
  <2>1. 0 \in 0..Patience BY Times
  <2>2. excused'[t] \in BOOLEAN BY <1>4
  <2>3. QED BY <1>2, <1>3, <2>1, <2>2 DEF Request
<1>6. \A q \in requests : ~q.waiting /\ q.answer = None
  <2>1. ASSUME NEW q \in requests, q.waiting PROVE FALSE
    BY <1>1, <2>1, HolderWaits, NoneAssumption DEF NoneAssumption
  <2>2. QED BY <2>1 DEF Waited
<1>7. LaddersTyped' /\ OnlyTab(t) /\ phase'[t] = "sent"
  <2>1. phase' \in [Tabs -> Phases] /\ timer' \in [Tabs -> Nat]
    BY <1>1, Times DEF TypeOK, Phases
  <2>2. OnlyTab(t) /\ phase'[t] = "sent"
    BY <1>1 DEF TypeOK, OnlyTab
  <2>3. QED BY <1>1, <1>4, <2>1, <2>2 DEF TypeOK, LaddersTyped
<1>8. TypeOK'
  <2>1. \A u \in Tabs : phase'[u] = "sent" <=> holder' = u
    <3>1. \A u \in Tabs : phase[u] # "sent"
      BY <1>1, NoneAssumption DEF TypeOK, NoneAssumption
    <3>2. QED BY <1>1, <1>7, <3>1 DEF OnlyTab
  <2>2. requests' \subseteq Request
    BY <1>2, <1>5 DEF TypeOK
  <2>3. \A q \in requests' : q.waiting => phase'[q.tab] = "sent"
    BY <1>2, <1>5, <1>6, <1>7
  <2>4. UNCHANGED <<cookie, newest, age, ended, starts>> /\ holder' \in Tabs \cup {None}
    BY <1>1
  <2>5. QED BY <1>7, <2>1, <2>2, <2>3, <2>4 DEF TypeOK, LaddersTyped
<1>9. Waited'
  <2>1. None \notin Tokens BY <1>3, NoneAssumption DEF NoneAssumption
  <2>2. \A q \in requests' : q.token <= cookie /\ q.answer = None /\ (q.waiting => q = r)
    BY <1>2, <1>3, <1>5, <1>6 DEF Waited
  <2>3. QED BY <1>1, <1>5, <2>1, <2>2 DEF Waited
<1>10. ~excused'[t] /\ since[t] <= Budget => age[cookie] <= since[t]
  <2>1. CASE attempt[t] = 1
    <3>1. ~excused'[t] => age[cookie] = 0
      BY <1>3, <1>4, <2>1 DEF InBudget
    <3>2. QED BY <1>3, <3>1, Times
  <2>2. CASE attempt[t] > 1
    BY <1>1, <1>4, <2>2 DEF InBudget, Budgeted, Retrying
  <2>3. QED BY <1>3, <2>1, <2>2, Times
<1>11. ~excused'[t] => age[cookie] <= Budget
  <2>1. CASE attempt[t] = 1
    <3>1. ~excused'[t] => age[cookie] = 0
      BY <1>3, <1>4, <2>1 DEF InBudget
    <3>2. QED BY <3>1, Times
  <2>2. CASE attempt[t] > 1
    <3>1. ~excused'[t] => since[t] <= Budget
      BY <1>1, <1>4, <2>2 DEF InBudget, Budgeted
    <3>2. age[cookie] \in Nat /\ since[t] \in Nat
      BY <1>3, Times DEF TypeOK
    <3>3. QED BY <1>10, <3>1, <3>2, Times
  <2>3. QED BY <1>3, <2>1, <2>2, Times
<1>12. InBudget'
  <2>1. Budgeted(t)'
    BY <1>1, <1>7, <1>10 DEF Budgeted
  <2>2. \A u \in Tabs \ {t} : Budgeted(u)'
    BY <1>1, <1>7, OthersBudgeted
  <2>3. ~r.excused => age[r.token] <= Budget + r.sent
    BY <1>5, <1>11, Times
  <2>4. QED BY <1>1, <1>2, <2>1, <2>2, <2>3 DEF InBudget
<1>13. QED BY <1>8, <1>9, <1>12

(* Time passes.                                                            *)
LEMMA TickStep ==
  ASSUME RefreshInv, Tick
  PROVE  RefreshInv'
<1> USE DEF RefreshInv
<1>1. /\ \A t \in Tabs : ~Due(t)
      /\ timer' = [t \in Tabs |-> Less(timer[t])]
      /\ cooldown' = [t \in Tabs |-> Less(cooldown[t])]
      /\ UNCHANGED <<cookie, newest, ended, holder, phase, attempt, round, starts>>
  BY DEF Tick
<1>2. \A t \in Tabs :
         since'[t] = IF phase[t] \in {"lock", "sent", "backoff"} THEN More(since[t], Budget + 1)
                     ELSE 0
  BY DEF Tick
<1>3. \A t \in Tabs : excused'[t] <=> (excused[t] \/ (phase[t] = "lock" /\ attempt[t] > 1))
  BY DEF Tick
<1>4. \A k \in Tokens :
         age'[k] = IF k < newest /\ ~ended /\ Presented(k) THEN More(age[k], Grace + 1) ELSE 0
  BY DEF Tick
<1>5. \A p \in requests' : \E q \in requests :
         /\ q.answer = None => q.sent < Patience
         /\ p = [q EXCEPT !.sent = IF q.answer = None THEN q.sent + 1 ELSE 0]
  BY DEF Tick
<1>6. Tokens \subseteq Nat /\ cookie \in Tokens /\ newest \in Tokens
  <2>1. Tokens \subseteq Nat BY Times DEF Tokens
  <2>2. QED BY <2>1 DEF TypeOK
<1>7. \A t \in Tabs :
         /\ timer[t] \in Nat /\ cooldown[t] \in 0..Cooldown /\ since[t] \in 0..(Budget + 1)
         /\ attempt[t] \in 1..MaxAttempts
  BY DEF TypeOK
<1>8. \A k \in Tokens : /\ age[k] \in 0..(Grace + 1)
                        /\ age'[k] \in 0..(Grace + 1) /\ age'[k] <= age[k] + 1
                        /\ age'[k] \in Nat /\ age[k] \in Nat
  <2>1. \A k \in Tokens : age[k] \in 0..(Grace + 1) BY DEF TypeOK
  <2>2. QED BY <1>4, <2>1, Times DEF More
<1>9. ASSUME NEW p \in requests'
      PROVE  \E q \in requests :
                /\ p \in Request /\ p.tab = q.tab /\ p.token = q.token /\ p.answer = q.answer
                /\ p.waiting = q.waiting /\ p.excused = q.excused
                /\ p.sent \in Nat /\ q.sent \in Nat
                /\ p.answer = None => p.sent = q.sent + 1
                /\ p = [q EXCEPT !.sent = p.sent] /\ (p.answer # None => p.sent = 0)
  <2>1. PICK q \in requests :
         /\ q.answer = None => q.sent < Patience
         /\ p = [q EXCEPT !.sent = IF q.answer = None THEN q.sent + 1 ELSE 0]
    BY <1>5
  <2>2. PICK n : n = IF q.answer = None THEN q.sent + 1 ELSE 0
    OBVIOUS
  <2>3. q \in Request /\ q.sent \in 0..Patience
    BY DEF TypeOK, Request
  <2>4. n \in 0..Patience /\ n \in Nat /\ q.sent \in Nat
    BY <2>1, <2>2, <2>3, Times
  <2>5. p = [q EXCEPT !.sent = n]
    BY <2>1, <2>2
  <2>6. /\ p \in Request /\ p.tab = q.tab /\ p.token = q.token /\ p.answer = q.answer
        /\ p.waiting = q.waiting /\ p.excused = q.excused /\ p.sent = n
    BY <2>3, <2>4, <2>5 DEF Request
  <2>7. QED BY <2>2, <2>4, <2>5, <2>6
<1>10. TypeOK'
  <2>1. timer' \in [Tabs -> Nat] /\ cooldown' \in [Tabs -> 0..Cooldown]
    BY <1>1, <1>7, Times DEF Less
  <2>2. since' \in [Tabs -> 0..(Budget + 1)]
    <3>1. DOMAIN since' = Tabs /\ since' = [t \in Tabs |-> since'[t]] BY DEF Tick
    <3>2. \A t \in Tabs : since'[t] \in 0..(Budget + 1) BY <1>2, <1>7, Times DEF More
    <3>3. QED BY <3>1, <3>2
  <2>3. excused' \in [Tabs -> BOOLEAN]
    <3>1. excused' = [t \in Tabs |-> excused[t] \/ (phase[t] = "lock" /\ attempt[t] > 1)]
      BY DEF Tick
    <3>2. QED BY <3>1
  <2>4. age' \in [Tokens -> 0..(Grace + 1)]
    <3>1. DOMAIN age' = Tokens /\ age' = [k \in Tokens |-> age'[k]] BY DEF Tick
    <3>2. QED BY <1>8, <3>1
  <2>5. \A p \in requests' : p \in Request /\ (p.waiting => phase[p.tab] = "sent")
    BY <1>9 DEF TypeOK
  <2>6. QED BY <1>1, <2>1, <2>2, <2>3, <2>4, <2>5 DEF TypeOK, Request
<1>11. Waited'
  <2>1. \A p \in requests' :
          /\ p.token <= cookie
          /\ p.answer # None => p.waiting
          /\ p.waiting => p.token = cookie
          /\ p.answer \in Tokens => p.answer = newest /\ cookie < newest
    BY <1>9 DEF Waited
  <2>2. ASSUME NEW p1 \in requests', NEW p2 \in requests', p1.waiting, p2.waiting
        PROVE  p1 = p2
    <3>1. PICK q1 \in requests : /\ p1 = [q1 EXCEPT !.sent = p1.sent] /\ p1.waiting = q1.waiting
                                 /\ p1.answer = q1.answer
                                 /\ p1.answer = None => p1.sent = q1.sent + 1
                                 /\ p1.answer # None => p1.sent = 0
      BY <1>9
    <3>2. PICK q2 \in requests : /\ p2 = [q2 EXCEPT !.sent = p2.sent] /\ p2.waiting = q2.waiting
                                 /\ p2.answer = q2.answer
                                 /\ p2.answer = None => p2.sent = q2.sent + 1
                                 /\ p2.answer # None => p2.sent = 0
      BY <1>9
    <3>3. q1 = q2 BY <2>2, <3>1, <3>2 DEF Waited
    <3>4. p1.sent = p2.sent BY <3>1, <3>2, <3>3
    <3>5. QED BY <3>1, <3>2, <3>3, <3>4
  <2>3. QED BY <1>1, <2>1, <2>2 DEF Waited, Tokens
<1>12. ASSUME NEW t \in Tabs PROVE Budgeted(t)'
  <2>1. /\ Budgeted(t) /\ ~Due(t) /\ phase'[t] = phase[t] /\ attempt'[t] = attempt[t]
        /\ timer'[t] = Less(timer[t]) /\ cookie' = cookie
    BY <1>1 DEF InBudget
  <2>2. /\ timer[t] \in Nat /\ since[t] \in 0..(Budget + 1) /\ since[t] \in Nat
        /\ since'[t] \in Nat /\ attempt[t] \in Nat
        /\ phase[t] \in {"lock", "sent", "backoff"} => since'[t] = More(since[t], Budget + 1)
    <3>1. since'[t] \in Nat BY <1>2, <1>7, Times DEF More
    <3>2. QED BY <1>2, <1>7, <3>1, Times
  <2>3. phase'[t] = "backoff" => attempt'[t] < MaxAttempts /\ since'[t] + timer'[t] <= Budget
    <3>1. SUFFICES ASSUME phase[t] = "backoff"
                   PROVE  attempt'[t] < MaxAttempts /\ since'[t] + timer'[t] <= Budget
      BY <2>1
    <3>2. attempt[t] < MaxAttempts /\ since[t] + timer[t] <= Budget /\ timer[t] # 0
      BY <2>1, <3>1 DEF Budgeted, Due
    <3>3. QED BY <2>1, <2>2, <3>1, <3>2, Times DEF Less, More
  <2>4. phase'[t] = "lock" /\ attempt'[t] > 1 => excused'[t]
    BY <1>3, <2>1
  <2>5. Retrying(t)' /\ ~excused'[t] /\ since'[t] <= Budget => age'[cookie'] <= since'[t]
    <3>1. SUFFICES ASSUME Retrying(t)', ~excused'[t], since'[t] <= Budget
                   PROVE  age'[cookie] <= since'[t]
      BY <2>1
    <3>2. Retrying(t) /\ ~excused[t] /\ phase[t] \in {"lock", "sent", "backoff"}
      BY <1>3, <2>1, <3>1 DEF Retrying
    <3>3. since[t] <= Budget /\ since'[t] = since[t] + 1
      BY <2>2, <3>1, <3>2, Times DEF More
    <3>4. age[cookie] <= since[t]
      BY <2>1, <3>2, <3>3 DEF Budgeted
    <3>5. QED BY <1>6, <1>8, <2>2, <3>3, <3>4
  <2>6. QED BY <2>3, <2>4, <2>5 DEF Budgeted
<1>13. InBudget'
  <2>1. \A k \in Tokens : k >= newest => age'[k] = 0
    BY <1>4, <1>6
  <2>2. ASSUME NEW p \in requests', ~p.excused, p.answer = None
        PROVE  age'[p.token] <= Budget + p.sent
    <3>1. PICK q \in requests :
                /\ p.token = q.token /\ q.answer = None
                /\ ~q.excused /\ q.sent \in Nat /\ p.sent = q.sent + 1
      BY <1>9, <2>2
    <3>2. age[q.token] <= Budget + q.sent /\ q.token \in Tokens
      BY <3>1 DEF InBudget, TypeOK, Request
    <3>3. QED BY <1>8, <3>1, <3>2, Times
  <2>3. Tokens' = Tokens BY DEF Tokens
  <2>4. QED BY <1>1, <1>12, <2>1, <2>2 DEF InBudget
<1>14. QED BY <1>10, <1>11, <1>13

LEMMA RefreshStep == RefreshInv /\ [Next]_vars => RefreshInv'
<1> SUFFICES ASSUME RefreshInv, [Next]_vars PROVE RefreshInv'
  OBVIOUS
<1>1. ASSUME NEW t \in Tabs,
             \/ RefreshSessionWithRetry(t) \/ NextRound(t) \/ Retry(t)
             \/ \E tryAgain \in BOOLEAN : RefreshSessionUntilAnswered(t, tryAgain)
      PROVE  RefreshInv'
  BY <1>1, StartStep
<1>2. ASSUME NEW t \in Tabs, Send(t) PROVE RefreshInv'
  BY <1>2, SendStep
<1>3. ASSUME NEW t \in Tabs, Unavailable(t) PROVE RefreshInv'
  BY <1>3, UnavailableStep
<1>4. ASSUME NEW q \in requests,
             Rotate(q) \/ GraceRefresh(q) \/ DetectReuse(q) \/ RefuseEnded(q)
      PROVE  RefreshInv'
  BY <1>4, ServerStep
<1>5. ASSUME NEW q \in requests, Refreshed(q) \/ Rejected(q) PROVE RefreshInv'
  BY <1>5, AnswerStep
<1>6. ASSUME NEW q \in requests, Lose(q) PROVE RefreshInv'
  BY <1>6, LoseStep
<1>7. CASE Tick
  BY <1>7, TickStep
<1>8. CASE UNCHANGED vars
  BY <1>8 DEF vars, server, ladders, RefreshInv, TypeOK, Waited, InBudget, Budgeted, Retrying
<1>9. QED BY <1>1, <1>2, <1>3, <1>4, <1>5, <1>6, <1>7, <1>8
          DEF Next, Client, RequestTimeout, RequestFails

LEMMA RefreshAlways == Spec => []RefreshInv
BY RefreshInitial, RefreshStep, PTL DEF Spec

(* No tab puts back a cookie that another has replaced: the answer that is *)
(* stored is that of the one request with the lock, which has the cookie's *)
(* token (tokenService.ts).                                                *)
THEOREM CookieOnlyAdvances == Spec => CookieNeverGoesBack
<1>1. ASSUME RefreshInv, [Next]_vars PROVE cookie' >= cookie
  <2>1. cookie \in Nat /\ newest \in Nat
    BY <1>1, Times DEF RefreshInv, TypeOK, Tokens
  <2>2. ASSUME NEW q \in requests, Refreshed(q) PROVE cookie' >= cookie
    BY <1>1, <2>1, <2>2 DEF Refreshed, RefreshInv, Waited
  <2>3. ASSUME \A q \in requests : ~Refreshed(q) PROVE cookie' = cookie
    BY <1>1, <2>3 DEF vars, Next, Client, RefreshSessionWithRetry, RefreshSessionUntilAnswered,
         Send, RequestTimeout, RequestFails, Unavailable, Retry, NextRound, Rotate,
         GraceRefresh, DetectReuse, RefuseEnded, Lose, Rejected, Tick
  <2>4. QED BY <2>1, <2>2, <2>3
<1>2. RefreshInv /\ [Next]_vars => cookie' >= cookie
  BY <1>1
<1>3. QED BY <1>2, RefreshAlways, PTL DEF Spec, CookieNeverGoesBack

(* No retry ends the session, for any timeouts, budgets and delays with    *)
(* the server's grace longer than the budget.                              *)
THEOREM NoRetryEndsTheSession == Spec => RetriesKeepTheSession
<1>1. ASSUME RefreshInv, NEW q \in requests, DetectReuse(q) PROVE q.excused
  <2>1. q.answer = None /\ age[q.token] > Grace
    BY <1>1 DEF DetectReuse, Unknown
  <2>2. q \in Request /\ q.sent \in 0..Patience /\ q.token \in Tokens
    BY <1>1 DEF RefreshInv, TypeOK, Request
  <2>3. age[q.token] \in 0..(Grace + 1)
    BY <1>1, <2>2 DEF RefreshInv, TypeOK
  <2>4. ~q.excused => age[q.token] <= Budget + q.sent
    BY <1>1, <2>1 DEF RefreshInv, InBudget
  <2>5. QED BY <2>1, <2>2, <2>3, <2>4, Times
<1>2. RefreshInv => \A q \in requests : DetectReuse(q) => q.excused
  BY <1>1
<1>3. QED BY <1>2, RefreshAlways, PTL DEF Spec, RetriesKeepTheSession

(* Every variable of the three models has its type, in whichever of them   *)
(* the behaviour is.                                                       *)
THEOREM AccountsTypeCorrect == AccountsSpec => []AllTypesOK
<1> DEFINE I == RefreshInv /\ DeviceTypeOK /\ FilesInv /\ UsageBound
<1>1. AccountsInit => I
  BY RefreshInitial, DeviceTypeInitial, FilesInitial, UsageInitial DEF AccountsInit
<1>2. I /\ [AccountsNext]_<<model, vars, deviceVars, fileVars>> => I'
  <2> SUFFICES ASSUME I, [AccountsNext]_<<model, vars, deviceVars, fileVars>> PROVE I'
    OBVIOUS
  <2>1. /\ [Next]_vars /\ [DeviceNext]_deviceVars /\ [FileNext]_fileVars
    BY DEF AccountsNext
  <2>2. QED BY <2>1, RefreshStep, DeviceTypeStep, FilesStep, UsageStep
<1>3. I => AllTypesOK
  BY FilesTypes DEF RefreshInv, AllTypesOK
<1>4. QED BY <1>1, <1>2, <1>3, PTL DEF AccountsSpec
=============================================================================

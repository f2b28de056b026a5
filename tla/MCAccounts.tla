----------------------------- MODULE MCAccounts -----------------------------
(***************************************************************************)
(* Small instances, for TLC, of three models of one user that share no     *)
(* state: the tabs that refresh the user's session (TokenRefreshClient),   *)
(* the grant of a device login (DeviceLogin) and the user's files          *)
(* (FileStorage).  A behaviour is one of one of them.                      *)
(***************************************************************************)
EXTENDS TokenRefreshClient, DeviceLogin, FileStorage

VARIABLE model

AccountsInit ==
    /\ model \in {"tabs", "logins", "files"}
    /\ Init /\ DeviceInit /\ FileInit
    /\ model # "files" => storage = "S3"

AccountsNext ==
    \/ model = "tabs" /\ Next /\ UNCHANGED <<model, deviceVars, fileVars>>
    \/ model = "logins" /\ DeviceNext /\ UNCHANGED <<model, vars, fileVars>>
    \/ model = "files" /\ FileNext /\ UNCHANGED <<model, vars, deviceVars>>

(* The fairness of TokenRefreshClient and of FileStorage, in their         *)
(* behaviours.                                                             *)
AccountsFairness ==
    /\ WF_vars(model = "tabs" /\ Tick)
    /\ \A t \in Tabs : WF_vars(model = "tabs" /\ Client(t))
    /\ \A j \in Jobs : WF_fileVars(model = "files" /\ ContinueJob(j))
    /\ SF_fileVars(model = "files" /\ \E j \in Jobs : Recalculate(j))
    /\ SF_fileVars(model = "files" /\ \E j \in Jobs : ListDeleted(j))

AccountsSpec ==
    AccountsInit /\ [][AccountsNext]_<<model, vars, deviceVars, fileVars>> /\ AccountsFairness

-----------------------------------------------------------------------------
(* The types of all three.                                                 *)
AllTypesOK == TypeOK /\ DeviceTypeOK /\ FileTypeOK
=============================================================================

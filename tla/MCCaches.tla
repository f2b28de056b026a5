------------------------------ MODULE MCCaches ------------------------------
(***************************************************************************)
(* Small instances, for TLC, of two models that share no state: the cached *)
(* permissions of a user (PermissionCache) and the emits to a room         *)
(* (EmitOrder).  A behaviour is one of either.  The run checks liveness: no*)
(* symmetry.                                                               *)
(***************************************************************************)
EXTENDS PermissionCache, EmitOrder

VARIABLE model

CachesInit ==
    /\ model \in {"permissions", "emits"}
    /\ Init /\ EmitInit
    /\ model # "emits" => \A e \in Emits : redacts[e]

CachesNext ==
    \/ model = "permissions" /\ Next /\ UNCHANGED <<model, emitVars>>
    \/ model = "emits" /\ EmitNext /\ UNCHANGED <<model, vars>>

(* The fairness of PermissionCache and of EmitOrder, in their behaviours.  *)
CachesFairness ==
    /\ \A r \in Readers : WF_vars(model = "permissions" /\ Fill(r))
    /\ WF_vars(model = "permissions" /\ \E e \in sets :
                  e.version < version /\ (SetArrives(e) \/ SetLost(e)))
    /\ WF_vars(model = "permissions" /\ \E e \in cache :
                  e.version < version /\ Expire(e))
    /\ \A e \in Emits : WF_emitVars(model = "emits" /\ ContinueEmit(e))

CachesSpec ==
    CachesInit /\ [][CachesNext]_<<model, vars, emitVars>> /\ CachesFairness

-----------------------------------------------------------------------------
(* The types of both.                                                      *)
AllTypesOK == TypeOK /\ EmitTypeOK
=============================================================================

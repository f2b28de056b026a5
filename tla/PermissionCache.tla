-------------------------- MODULE PermissionCache --------------------------
(***************************************************************************)
(* The Redis cache of what ONE user may do in ONE scope (a community or    *)
(* the instance), and the role changes that invalidate it                  *)
(* (src/backend/src/roles/permissions-cache.service.ts and resolveActions  *)
(* in permissions.service.ts).                                             *)
(*                                                                         *)
(* Two epoch counters address the cached value: the user's, bumped when    *)
(* roles are assigned, and the scope's, bumped when roles are defined.     *)
(* Nothing deletes a value; a bump makes it unreachable.  Reads, fills and *)
(* changes are requests on any instance, one Redis or database call a      *)
(* step.                                                                   *)
(*                                                                         *)
(* `version' counts the committed role changes that matter to the user in  *)
(* the scope; a list of actions is the version it was read at.             *)
(***************************************************************************)
EXTENDS Naturals

CONSTANTS
    Readers,     \* permission checks running at once
    Writers,     \* role changes running at once
    MaxChanges,  \* bound: how many role changes are committed
    None

Epochs == {"user", "scope"}

ASSUME BoundAssumption == MaxChanges \in Nat
ASSUME NoneAssumption == None \notin Nat \X Nat

VARIABLES
    version,    \* database: how many role changes have committed
    epoch,      \* Redis: the two counters (a missing key is 0)
    cache,      \* Redis: [key, version] of every value that has not expired
    sets,       \* SETs sent to Redis that have not arrived: [key, version]
    late,       \* INCRs that timed out and may still arrive: epochs
    rstep,      \* what each permission check does next
    key,        \* the key it addresses, or None: the cache was unavailable
    actions,    \* the version of the actions it found
    wstep,      \* "idle", "open" (its transaction) or "bump" (after it)
    todo,       \* the epochs each role change still has to bump
    change,     \* the version it committed
    (* History variables, for the properties only *)
    failed,     \* the changes of which a bump failed
    returned,   \* the newest version whose change returned, every bump made
    floor       \* what `returned' was when each permission check started

redis == <<epoch, cache, sets, late>>
reader == <<rstep, key, actions, floor>>
writer == <<wstep, todo, change, failed>>
vars == <<version, redis, reader, writer, returned>>

Keys == Nat \X Nat
Values == [key : Keys, version : Nat]

Init ==
    /\ version = 0
    /\ epoch = [e \in Epochs |-> 0]
    /\ cache = {} /\ sets = {} /\ late = {}
    /\ rstep = [r \in Readers |-> "idle"]
    /\ key = [r \in Readers |-> None]
    /\ actions = [r \in Readers |-> 0]
    /\ wstep = [w \in Writers |-> "idle"]
    /\ todo = [w \in Writers |-> {}]
    /\ change = [w \in Writers |-> 0]
    /\ failed = {}
    /\ returned = 0
    /\ floor = [r \in Readers |-> 0]

-----------------------------------------------------------------------------
(* Permission checks: resolveActions                                       *)

(* valueKey for the epochs of this moment: one MGET reads both.            *)
CurrentKey == <<epoch["user"], epoch["scope"]>>

Goto(r, s) == rstep' = [rstep EXCEPT ![r] = s]

Answer(r, v) ==
    /\ Goto(r, "answered")
    /\ key' = [key EXCEPT ![r] = None]
    /\ actions' = [actions EXCEPT ![r] = v]

(* readEpochs: a permission check begins.                                  *)
ReadEpochs(r) ==
    /\ rstep[r] \in {"idle", "answered"}
    /\ Goto(r, "get")
    /\ key' = [key EXCEPT ![r] = CurrentKey]
    /\ actions' = [actions EXCEPT ![r] = 0]
    /\ floor' = [floor EXCEPT ![r] = returned]
    /\ UNCHANGED <<version, redis, writer, returned>>

(* Redis is down or slow: getCachedActions says "unavailable".             *)
Unavailable(r) ==
    /\ rstep[r] = "get"
    /\ Goto(r, "query")
    /\ key' = [key EXCEPT ![r] = None]
    /\ UNCHANGED <<version, redis, actions, floor, writer, returned>>

(* readActions: the value at the key, if it is there.                      *)
Hit(r) ==
    /\ rstep[r] = "get"
    /\ \E e \in cache :
          /\ e.key = key[r]
          /\ Answer(r, e.version)
    /\ UNCHANGED <<version, redis, floor, writer, returned>>

Miss(r) ==
    /\ rstep[r] = "get"
    /\ \A e \in cache : e.key # key[r]
    /\ Goto(r, "query")
    /\ UNCHANGED <<version, redis, key, actions, floor, writer, returned>>

(* dbQuery: the roles committed by now.  They are cached after a miss, and *)
(* not when the cache was unavailable: there are no epochs to file them by.*)
MutantFillAlways(r) == TRUE
WasMiss(r) == key[r] # None

QueryDatabase(r) ==
    /\ rstep[r] = "query"
    /\ \/ /\ WasMiss(r)
          /\ actions' = [actions EXCEPT ![r] = version]
          /\ Goto(r, "fill") /\ UNCHANGED key
       \/ ~WasMiss(r) /\ Answer(r, version)
    /\ UNCHANGED <<version, redis, floor, writer, returned>>

(* setCachedActions, under the epochs captured at the miss.  The check     *)
(* answers when the SET has arrived or has timed out: either way it may    *)
(* arrive any time from now.                                               *)
MutantEpochsReadAgain(r) == CurrentKey
FillKey(r) == key[r]

Fill(r) ==
    /\ rstep[r] = "fill"
    /\ sets' = sets \cup {[key |-> FillKey(r), version |-> actions[r]]}
    /\ Answer(r, actions[r])
    /\ UNCHANGED <<version, epoch, cache, late, floor, writer, returned>>

SetArrives(e) ==
    /\ e \in sets
    /\ sets' = sets \ {e}
    /\ cache' = {f \in cache : f.key # e.key} \cup {e}
    /\ UNCHANGED <<version, epoch, late, reader, writer, returned>>

SetLost(e) ==
    /\ e \in sets
    /\ sets' = sets \ {e}
    /\ UNCHANGED <<version, epoch, cache, late, reader, writer, returned>>

(* The value's TTL ends: every SET carries one.                            *)
MutantNoTtl(e) == FALSE
HasTtl(e) == e \in cache

Expire(e) ==
    /\ HasTtl(e)
    /\ cache' = cache \ {e}
    /\ UNCHANGED <<version, epoch, sets, late, reader, writer, returned>>

(* The instance of a check stops.                                          *)
ReaderStops(r) ==
    /\ rstep[r] \in {"get", "query", "fill"}
    /\ Goto(r, "idle")
    /\ key' = [key EXCEPT ![r] = None]
    /\ actions' = [actions EXCEPT ![r] = 0]
    /\ floor' = [floor EXCEPT ![r] = 0]
    /\ UNCHANGED <<version, redis, writer, returned>>

-----------------------------------------------------------------------------
(* Role changes                                                            *)

(* A change writes in its own statement or in its caller's transaction,    *)
(* which collects the epochs B to bump (bumpNowOrDefer).                   *)
Begin(w, B) ==
    /\ wstep[w] = "idle"
    /\ version < MaxChanges
    /\ wstep' = [wstep EXCEPT ![w] = "open"]
    /\ todo' = [todo EXCEPT ![w] = B]
    /\ UNCHANGED <<version, redis, reader, change, failed, returned>>

Commit(w) ==
    /\ wstep[w] = "open"
    /\ version < MaxChanges
    /\ version' = version + 1
    /\ change' = [change EXCEPT ![w] = version + 1]
    /\ wstep' = [wstep EXCEPT ![w] = "bump"]
    /\ UNCHANGED <<redis, reader, todo, failed, returned>>

(* executeBumps: one INCR for each epoch, after the commit.                *)
MutantBumpBeforeCommit(w) == wstep[w] \in {"open", "bump"}
MayBump(w) == wstep[w] = "bump"

Bump(w, e) ==
    /\ MayBump(w) /\ e \in todo[w]
    /\ epoch' = [epoch EXCEPT ![e] = epoch[e] + 1]
    /\ todo' = [todo EXCEPT ![w] = todo[w] \ {e}]
    /\ UNCHANGED <<version, cache, sets, late, reader, wstep, change, failed, returned>>

(* bump's INCR fails or times out: the change goes on as if it were made.  *)
BumpFails(w, e) ==
    /\ wstep[w] = "bump" /\ e \in todo[w]
    /\ todo' = [todo EXCEPT ![w] = todo[w] \ {e}]
    /\ failed' = failed \cup {w}
    /\ late' \in {late, late \cup {e}}
    /\ UNCHANGED <<version, epoch, cache, sets, reader, wstep, change, returned>>

IncrArrives(e) ==
    /\ e \in late
    /\ late' = late \ {e}
    /\ epoch' = [epoch EXCEPT ![e] = epoch[e] + 1]
    /\ UNCHANGED <<version, cache, sets, reader, writer, returned>>

Larger(m, n) == IF m < n THEN n ELSE m

Finish(w) ==
    /\ wstep' = [wstep EXCEPT ![w] = "idle"]
    /\ todo' = [todo EXCEPT ![w] = {}]
    /\ change' = [change EXCEPT ![w] = 0]
    /\ failed' = failed \ {w}
    /\ UNCHANGED <<version, redis, reader>>

Return(w) ==
    /\ wstep[w] = "bump" /\ todo[w] = {}
    /\ returned' = IF w \in failed THEN returned ELSE Larger(returned, change[w])
    /\ Finish(w)

(* A rollback (nothing is bumped), or the instance of a change stops.      *)
WriterStops(w) ==
    /\ wstep[w] # "idle"
    /\ Finish(w)
    /\ UNCHANGED returned

-----------------------------------------------------------------------------
Check(r) ==
    \/ ReadEpochs(r) \/ Unavailable(r) \/ Hit(r) \/ Miss(r)
    \/ QueryDatabase(r) \/ Fill(r) \/ ReaderStops(r)

RoleChange(w) ==
    \/ \E B \in (SUBSET Epochs) \ {{}} : Begin(w, B)
    \/ Commit(w)
    \/ \E e \in Epochs : Bump(w, e) \/ BumpFails(w, e)
    \/ Return(w) \/ WriterStops(w)

Network ==
    \/ \E e \in sets : SetArrives(e) \/ SetLost(e)
    \/ \E e \in cache : Expire(e)
    \/ \E e \in Epochs : IncrArrives(e)

Next ==
    \/ \E r \in Readers : Check(r)
    \/ \E w \in Writers : RoleChange(w)
    \/ Network

Spec == Init /\ [][Next]_vars

(* What the code gets done by itself: a check that has its answer fills    *)
(* the cache, a SET on its way arrives or is lost, a TTL ends.             *)
Fairness ==
    /\ \A r \in Readers : WF_vars(Fill(r))
    /\ WF_vars(\E e \in sets : e.version < version /\ (SetArrives(e) \/ SetLost(e)))
    /\ WF_vars(\E e \in cache : e.version < version /\ Expire(e))

FairSpec == Spec /\ Fairness

-----------------------------------------------------------------------------
(* Properties                                                              *)

TypeOK ==
    /\ version \in Nat /\ returned \in Nat
    /\ epoch \in [Epochs -> Nat]
    /\ cache \subseteq Values /\ sets \subseteq Values
    /\ late \subseteq Epochs
    /\ rstep \in [Readers -> {"idle", "get", "query", "fill", "answered"}]
    /\ key \in [Readers -> Keys \cup {None}]
    /\ actions \in [Readers -> Nat] /\ floor \in [Readers -> Nat]
    /\ wstep \in [Writers -> {"idle", "open", "bump"}]
    /\ todo \in [Writers -> SUBSET Epochs]
    /\ change \in [Writers -> Nat] /\ failed \subseteq Writers

(* A permission check that starts after a role change has returned answers *)
(* with that change: "the invalidation is guaranteed visible to subsequent *)
(* reads before the mutation returns" (permissions-cache.service.ts:97-98),*)
(* whatever fills of other checks were under way, arrive late or are       *)
(* addressed by epochs other changes bump at the same time.                *)
FreshAnswer ==
    \A r \in Readers : rstep[r] = "answered" => actions[r] >= floor[r]

(* When the roles stop changing, stale lists of actions end, even if no    *)
(* bump ever landed (permissions-cache.service.ts:104-106).                *)
StaleValuesEnd ==
    version = MaxChanges ~> [](\A e \in cache : e.version = version)
=============================================================================

---------------------------- MODULE ReplayBuffer ----------------------------
(***************************************************************************)
(* The replay buffer of ONE user's screen share: the recordings (egresses) *)
(* that LiveKit runs, the EgressSession rows that say so, the directories  *)
(* with their segments, and everything that keeps the three together       *)
(* (src/backend/src/livekit/livekit-replay.service.ts and                  *)
(* replay-segments.service.ts).                                            *)
(*                                                                         *)
(* LiveKit is external: a recording ends by itself, is reported by a       *)
(* webhook and forgotten some time later; listEgress may fail, or miss a   *)
(* recording that is running (a blip).  Requests, webhooks and the hourly  *)
(* jobs are handlers that run one statement or call at a time and may die  *)
(* between two of them.  Every pod runs its own reconcile pass.            *)
(***************************************************************************)
EXTENDS Naturals

CONSTANTS
    Egresses,       \* recordings
    Pods,           \* backend processes with a reconcile cron
    Handlers,       \* requests, webhooks and jobs running at once
    None,
    MaxBlips,       \* bound: blips of a recording in a row, per pod
    MaxCrashes,     \* bound: handlers and passes that die
    Scenarios       \* bound: the sets of events a behaviour may have

(* What a behaviour need not have: further recordings, stops, heals, the   *)
(* two hourly jobs, webhooks that are lost, stopEgress or another call     *)
(* that fails, blips, crashes.                                             *)
Events == {"again", "stop", "heal", "orphans", "sweep",
           "hookLost", "stopFails", "fails", "blips", "crash"}

ASSUME NameAssumption == None \notin Egresses
ASSUME BoundAssumption ==
    /\ MaxBlips \in Nat /\ MaxCrashes \in Nat
    /\ Scenarios \subseteq SUBSET Events

VARIABLES
    egress,     \* LiveKit: the state of each recording
    hooks,      \* egress_ended webhooks on their way
    blips,      \* history: how often in a row a pod missed a running recording
    row,        \* EgressSession.status, or "none"
    recent,     \* the row with the latest startedAt, or None
    dirs,       \* segment directories on disk
    strikes,    \* per pod: egressMissedOnce
    pass,       \* per pod: its reconcile pass
    handler,    \* what each handler is doing
    crashes,
    allowed,    \* the events this behaviour may have
    unsafe      \* the orphan clean-up could not stop a running recording

livekit == <<egress, hooks>>
rows == <<row, recent>>
passes == <<strikes, pass, blips>>
scope == <<crashes, allowed, unsafe>>
vars == <<livekit, rows, dirs, passes, handler, scope>>

(* "gone": LiveKit no longer lists the recording.  Ended and stopped stand *)
(* for failed too: the code does the same for both, and sends an event of  *)
(* another name.                                                           *)
EgressStates == {"unused", "live", "ended", "gone"}
Statuses == {"active", "stopped"}

(* `e' is the recording (the row) a handler works on, `seen' a status it   *)
(* read, `more' what a stop goes on with, or what a job still has to do.   *)
Steps == {"idle", "stop", "stopEgress", "stopRow", "start", "create",
          "endRow", "delete", "recent", "list", "heal",
          "orphanStop", "orphanRow", "sweep"}
HandlerState == [step : Steps, e : Egresses \cup {None},
                 seen : Statuses \cup {None}, starting : BOOLEAN,
                 todo : SUBSET Egresses]
Idle == [step |-> "idle", e |-> None, seen |-> None, starting |-> FALSE, todo |-> {}]

(* A pass: the rows it still has to check, and the row it ends.            *)
PassState == [on : BOOLEAN, todo : SUBSET Egresses,
              e : Egresses \cup {None}]
NoPass == [on |-> FALSE, todo |-> {}, e |-> None]

Init ==
    /\ egress = [e \in Egresses |-> "unused"] /\ hooks = {}
    /\ blips = [p \in Pods |-> [e \in Egresses |-> 0]]
    /\ row = [e \in Egresses |-> "none"] /\ recent = None
    /\ dirs = {}
    /\ strikes = [p \in Pods |-> {}] /\ pass = [p \in Pods |-> NoPass]
    /\ handler = [h \in Handlers |-> Idle]
    /\ crashes = 0 /\ allowed \in Scenarios /\ unsafe = FALSE

Unused ==
    IF "again" \notin allowed /\ \E e \in Egresses : egress[e] # "unused"
      THEN {} ELSE {e \in Egresses : egress[e] = "unused"}
ActiveRows == {e \in Egresses : row[e] = "active"}

-----------------------------------------------------------------------------
(* LiveKit                                                                 *)

(* A recording ends: its track is unpublished, it fails, it is aborted.    *)
EgressEnds(e) ==
    /\ egress[e] = "live"
    /\ egress' = [egress EXCEPT ![e] = "ended"]
    /\ hooks' = hooks \cup {e}
    /\ UNCHANGED <<rows, dirs, passes, handler, scope>>

EgressForgotten(e) ==
    /\ egress[e] = "ended" /\ e \notin hooks
    /\ egress' = [egress EXCEPT ![e] = "gone"]
    /\ UNCHANGED <<hooks, rows, dirs, passes, handler, scope>>

HookLost(e) ==
    /\ "hookLost" \in allowed /\ e \in hooks
    /\ hooks' = hooks \ {e}
    /\ UNCHANGED <<egress, rows, dirs, passes, handler, scope>>

-----------------------------------------------------------------------------
(* Handlers                                                                *)

At(h, s) == handler[h].step = s
Finish(h) == handler' = [handler EXCEPT ![h] = Idle]
GoTo(h, s) == handler' = [handler EXCEPT ![h].step = s]
Work(h, s, e) == handler' = [handler EXCEPT ![h].step = s, ![h].e = e]

(* startReplayBuffer: with an active session, stopReplayBuffer runs first. *)
StartReplayBuffer(h) ==
    /\ At(h, "idle") /\ Unused # {}
    /\ handler' = [handler EXCEPT
           ![h].step = IF ActiveRows = {} THEN "start" ELSE "stop",
           ![h].starting = TRUE]
    /\ UNCHANGED <<livekit, rows, dirs, passes, scope>>

StartEgress(h) ==
    /\ At(h, "start") /\ Unused # {}
    /\ LET e == CHOOSE e \in Unused : TRUE
       IN /\ egress' = [egress EXCEPT ![e] = "live"]
          /\ dirs' = dirs \cup {e}
          /\ Work(h, "create", e)
    /\ UNCHANGED <<hooks, rows, passes, scope>>

CreateSession(h) ==
    /\ At(h, "create")
    /\ row' = [row EXCEPT ![handler[h].e] = "active"]
    /\ recent' = handler[h].e
    /\ Finish(h)
    /\ UNCHANGED <<livekit, dirs, passes, scope>>

(* stopReplayBuffer, by the user or because the user left the channel.     *)
StopReplayBuffer(h) ==
    /\ "stop" \in allowed /\ At(h, "idle")
    /\ GoTo(h, "stop")
    /\ UNCHANGED <<livekit, rows, dirs, passes, scope>>

(* findFirst; without an active session the stop, and a start that waits   *)
(* for it, fail.                                                           *)
StopFind(h) ==
    /\ At(h, "stop")
    /\ IF ActiveRows = {} THEN Finish(h)
       ELSE \E e \in ActiveRows : Work(h, "stopEgress", e)
    /\ UNCHANGED <<livekit, rows, dirs, passes, scope>>

(* What stopEgress does to LiveKit.  A recording that is not running any   *)
(* more is an error that means it has been stopped.                        *)
Stopped(e) ==
    IF egress[e] = "live"
      THEN egress' = [egress EXCEPT ![e] = "ended"] /\ hooks' = hooks \cup {e}
      ELSE UNCHANGED livekit

StopEgress(h) ==
    /\ At(h, "stopEgress")
    /\ Stopped(handler[h].e)
    /\ GoTo(h, "stopRow")
    /\ UNCHANGED <<rows, dirs, passes, scope>>

(* Any other error ends the stop, and the start that waits for it.  (A     *)
(* definition named Mutant... is the same code with a bug put in, which    *)
(* some property notices.)                                                 *)
MutantIgnoreStopError(h) ==
    /\ At(h, "stopEgress") /\ "stopFails" \in allowed
    /\ GoTo(h, "stopRow")
    /\ UNCHANGED <<livekit, rows, dirs, passes, scope>>

StopEgressFails(h) ==
    /\ At(h, "stopEgress") /\ "stopFails" \in allowed
    /\ Finish(h)
    /\ UNCHANGED <<livekit, rows, dirs, passes, scope>>

StopRow(h) ==
    /\ At(h, "stopRow")
    /\ row' = [row EXCEPT ![handler[h].e] = "stopped"]
    /\ GoTo(h, "delete")
    /\ UNCHANGED <<livekit, recent, dirs, passes, scope>>

(* The directory of a session that ended goes, unless that fails; a start  *)
(* that waits goes on.                                                     *)
DeleteDirectory(h) ==
    /\ At(h, "delete")
    /\ \/ dirs' = dirs \ {handler[h].e}
       \/ "fails" \in allowed /\ UNCHANGED dirs
    /\ IF handler[h].starting THEN GoTo(h, "start") ELSE Finish(h)
    /\ UNCHANGED <<livekit, rows, passes, scope>>

(* handleEgressEnded: only an active row is updated, with a second query.  *)
MutantUnknownEgress(h, e) ==
    /\ At(h, "idle") /\ e \in hooks
    /\ hooks' = hooks \ {e}
    /\ handler' = IF row[e] = "stopped" THEN handler
                  ELSE [handler EXCEPT ![h].step = "endRow", ![h].e = e]
    /\ UNCHANGED <<egress, rows, dirs, passes, scope>>

EgressEnded(h, e) ==
    /\ At(h, "idle") /\ e \in hooks
    /\ hooks' = hooks \ {e}
    /\ handler' = IF row[e] # "active" THEN handler
                  ELSE [handler EXCEPT ![h].step = "endRow", ![h].e = e]
    /\ UNCHANGED <<egress, rows, dirs, passes, scope>>

EndRow(h) ==
    /\ At(h, "endRow")
    /\ row' = [row EXCEPT ![handler[h].e] = "stopped"]
    /\ GoTo(h, "delete")
    /\ UNCHANGED <<livekit, recent, dirs, passes, scope>>

(* recoverStaleSession, of a capture that finds no active row: the most    *)
(* recent row, LiveKit's answer, and a compare-and-swap on the status read.*)
Capture(h) ==
    /\ "heal" \in allowed /\ At(h, "idle") /\ ActiveRows = {} /\ recent # None
    /\ GoTo(h, "recent")
    /\ UNCHANGED <<livekit, rows, dirs, passes, scope>>

FindRecent(h) ==
    /\ At(h, "recent")
    /\ handler' = [handler EXCEPT ![h].step = "list", ![h].e = recent,
                                  ![h].seen = row[recent]]
    /\ UNCHANGED <<livekit, rows, dirs, passes, scope>>

ListForHeal(h) ==
    /\ At(h, "list")
    /\ IF egress[handler[h].e] = "live" THEN GoTo(h, "heal") ELSE Finish(h)
    /\ UNCHANGED <<livekit, rows, dirs, passes, scope>>

Heal(h) ==
    LET e == handler[h].e
    IN /\ At(h, "heal")
       /\ row' = IF row[e] = handler[h].seen THEN [row EXCEPT ![e] = "active"] ELSE row
       /\ Finish(h)
       /\ UNCHANGED <<livekit, recent, dirs, passes, scope>>

(* cleanupOrphanedSessions: rows active for three hours.  An error of      *)
(* stopEgress, whatever it is, is taken for a recording that has ended.    *)
CleanupOrphanedSessions(h) ==
    /\ "orphans" \in allowed /\ At(h, "idle")
    /\ \E e \in ActiveRows : Work(h, "orphanStop", e)
    /\ UNCHANGED <<livekit, rows, dirs, passes, scope>>

OrphanStop(h) ==
    LET e == handler[h].e
    IN /\ At(h, "orphanStop")
       /\ \/ Stopped(e) /\ UNCHANGED unsafe
          \/ /\ "stopFails" \in allowed
             /\ unsafe' = (unsafe \/ egress[e] = "live")
             /\ UNCHANGED livekit
       /\ GoTo(h, "orphanRow")
       /\ UNCHANGED <<rows, dirs, passes, crashes, allowed>>

OrphanRow(h) ==
    /\ At(h, "orphanRow")
    /\ row' = [row EXCEPT ![handler[h].e] = "stopped"]
    /\ GoTo(h, "delete")
    /\ UNCHANGED <<livekit, recent, dirs, passes, scope>>

(* sweepOrphanedSegmentDirectories: the directories, then the active rows; *)
(* a directory without one goes if nothing was written to it for a day.    *)
SweepDirectories(h) ==
    /\ "sweep" \in allowed /\ At(h, "idle") /\ dirs # {}
    /\ handler' = [handler EXCEPT ![h].step = "sweep", ![h].todo = dirs]
    /\ UNCHANGED <<livekit, rows, dirs, passes, scope>>

MayBeOld(e) == egress[e] # "live"

Sweep(h) ==
    /\ At(h, "sweep")
    /\ \E D \in SUBSET {e \in handler[h].todo \ ActiveRows : MayBeOld(e)} :
          dirs' = dirs \ D
    /\ Finish(h)
    /\ UNCHANGED <<livekit, rows, passes, scope>>

-----------------------------------------------------------------------------
(* reconcileEgressStatus                                                   *)

(* The active rows; strikes of other rows are dropped.                     *)
ReconcileStart(p) ==
    /\ ~pass[p].on
    /\ strikes' = [strikes EXCEPT ![p] = @ \cap ActiveRows]
    /\ pass' = IF ActiveRows = {} THEN pass
               ELSE [pass EXCEPT ![p] = [NoPass EXCEPT !.on = TRUE, !.todo = ActiveRows]]
    /\ UNCHANGED <<livekit, rows, dirs, blips, handler, scope>>

Pass(p, e) == pass' = [pass EXCEPT ![p].todo = @ \ {e}]
End(p, e) == pass' = [pass EXCEPT ![p].todo = @ \ {e}, ![p].e = e]

Turn(p, e) == pass[p].on /\ pass[p].e = None /\ e \in pass[p].todo

(* listEgress has the recording: running, or ended.                        *)
ReconcileFound(p, e) ==
    /\ Turn(p, e) /\ egress[e] \in {"live", "ended"}
    /\ strikes' = [strikes EXCEPT ![p] = @ \ {e}]
    /\ blips' = [blips EXCEPT ![p][e] = 0]
    /\ IF egress[e] = "live" THEN Pass(p, e) ELSE End(p, e)
    /\ UNCHANGED <<livekit, rows, dirs, handler, scope>>

(* It does not: a strike, and the end of the row at the second one.        *)
MutantFirstMiss(p, e) ==
    strikes' = strikes /\ End(p, e)

MutantKeepsNoStrikes(p, e) ==
    strikes' = strikes /\ Pass(p, e)

Miss(p, e) ==
    IF e \notin strikes[p]
      THEN strikes' = [strikes EXCEPT ![p] = @ \cup {e}] /\ Pass(p, e)
      ELSE strikes' = [strikes EXCEPT ![p] = @ \ {e}] /\ End(p, e)

ReconcileMissing(p, e) ==
    /\ Turn(p, e) /\ egress[e] = "gone"
    /\ Miss(p, e)
    /\ UNCHANGED <<livekit, rows, dirs, blips, handler, scope>>

Blip(p, e) ==
    /\ "blips" \in allowed /\ Turn(p, e) /\ egress[e] = "live" /\ blips[p][e] < MaxBlips
    /\ blips' = [blips EXCEPT ![p][e] = @ + 1]
    /\ Miss(p, e)
    /\ UNCHANGED <<livekit, rows, dirs, handler, scope>>

ReconcileFails(p, e) ==
    /\ "fails" \in allowed /\ Turn(p, e)
    /\ Pass(p, e)
    /\ UNCHANGED <<livekit, rows, dirs, strikes, blips, handler, scope>>

ReconcileWrite(p) ==
    LET e == pass[p].e
    IN /\ e # None
       /\ row' = [row EXCEPT ![e] = "stopped"]
       /\ pass' = [pass EXCEPT ![p].e = None]
       /\ blips' = [blips EXCEPT ![p][e] = 0]
       /\ UNCHANGED <<livekit, recent, dirs, strikes, handler, scope>>

ReconcileEnd(p) ==
    /\ pass[p].on /\ pass[p].todo = {} /\ pass[p].e = None
    /\ pass' = [pass EXCEPT ![p] = NoPass]
    /\ UNCHANGED <<livekit, rows, dirs, strikes, blips, handler, scope>>

-----------------------------------------------------------------------------
(* A process dies: what it was doing ends, and its strikes are forgotten.  *)
HandlerDies(h) ==
    /\ "crash" \in allowed /\ crashes < MaxCrashes /\ ~At(h, "idle")
    /\ crashes' = crashes + 1
    /\ Finish(h)
    /\ UNCHANGED <<livekit, rows, dirs, passes, allowed, unsafe>>

PodRestarts(p) ==
    /\ "crash" \in allowed /\ crashes < MaxCrashes
    /\ crashes' = crashes + 1
    /\ strikes' = [strikes EXCEPT ![p] = {}] /\ pass' = [pass EXCEPT ![p] = NoPass]
    /\ blips' = [blips EXCEPT ![p] = [e \in Egresses |-> 0]]
    /\ UNCHANGED <<livekit, rows, dirs, handler, allowed, unsafe>>

-----------------------------------------------------------------------------
Call(h) ==
    \/ StartReplayBuffer(h) \/ StopReplayBuffer(h) \/ Capture(h)
    \/ \E e \in Egresses : EgressEnded(h, e)
    \/ CleanupOrphanedSessions(h) \/ SweepDirectories(h)

Continue(h) ==
    \/ StartEgress(h) \/ CreateSession(h)
    \/ StopFind(h) \/ StopEgress(h) \/ StopEgressFails(h) \/ StopRow(h)
    \/ DeleteDirectory(h) \/ EndRow(h)
    \/ FindRecent(h) \/ ListForHeal(h) \/ Heal(h)
    \/ OrphanStop(h) \/ OrphanRow(h) \/ Sweep(h)

Reconcile(p) ==
    \/ ReconcileStart(p) \/ ReconcileWrite(p) \/ ReconcileEnd(p)
    \/ \E e \in Egresses : ReconcileFound(p, e) \/ ReconcileMissing(p, e)

Environment ==
    \/ \E e \in Egresses : EgressEnds(e) \/ EgressForgotten(e) \/ HookLost(e)
    \/ \E p \in Pods, e \in Egresses : Blip(p, e) \/ ReconcileFails(p, e)
    \/ \E h \in Handlers : HandlerDies(h)
    \/ \E p \in Pods : PodRestarts(p)

Next ==
    \/ \E h \in Handlers : Call(h) \/ Continue(h)
    \/ \E p \in Pods : Reconcile(p)
    \/ Environment

Spec == Init /\ [][Next]_vars

(* A handler that started goes on, the cron starts a pass every minute,    *)
(* and listEgress does not fail for ever.                                  *)
Fairness ==
    /\ \A h \in Handlers : WF_vars(Continue(h))
    /\ \A p \in Pods :
          /\ WF_vars(ReconcileStart(p) \/ ReconcileWrite(p) \/ ReconcileEnd(p))
          /\ \A e \in Egresses : SF_vars(ReconcileFound(p, e) \/ ReconcileMissing(p, e))

FairSpec == Spec /\ Fairness

-----------------------------------------------------------------------------
(* Properties                                                              *)

(* The steps that update the row they work on.                             *)
RowSteps == {"stopRow", "endRow", "heal", "orphanRow"}

TypeOK ==
    /\ egress \in [Egresses -> EgressStates] /\ hooks \subseteq Egresses
    /\ blips \in [Pods -> [Egresses -> 0..MaxBlips]]
    /\ row \in [Egresses -> Statuses \cup {"none"}] /\ recent \in Egresses \cup {None}
    /\ dirs \subseteq Egresses
    /\ strikes \in [Pods -> SUBSET Egresses] /\ pass \in [Pods -> PassState]
    /\ handler \in [Handlers -> HandlerState]
    /\ \A h \in Handlers : handler[h].step \in RowSteps => row[handler[h].e] \in Statuses
    /\ \A p \in Pods : \A e \in pass[p].todo : row[e] \in Statuses
    /\ crashes \in 0..MaxCrashes /\ allowed \subseteq Events /\ unsafe \in BOOLEAN

(* "If we flipped the session to 'stopped' ... on the first miss we would  *)
(* kill the client's capture button for a perfectly live screen share"     *)
(* (livekit-replay.service.ts:66-69): a pass ends the row of a running     *)
(* recording only after LiveKit missed it twice in a row for that pod,     *)
(* across passes, restarts, failed calls, heals and other pods.            *)
OneBlipEndsNothing ==
    [][\A p \in Pods :
          ReconcileWrite(p) /\ egress[pass[p].e] = "live" => blips[p][pass[p].e] >= 2]_vars

(* No job or stop deletes the segments of a recording that is running,     *)
(* whatever its row says (a blip, a crash before the row was written), but *)
(* for the orphan clean-up when it could not stop the recording.           *)
LiveSegmentsKept ==
    \A e \in Egresses : egress[e] = "live" => e \in dirs \/ unsafe

(* A row stays active only while its recording runs: webhooks that are     *)
(* lost or come before the row, crashes, heals that race the end of the    *)
(* recording are all made good by the reconcile passes.                    *)
EndedRowsLeaveActive ==
    \A e \in Egresses : <>[](egress[e] # "live") => <>[](row[e] # "active")
=============================================================================

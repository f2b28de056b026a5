------------------------ MODULE ReplayBuffer_proofs ------------------------
(***************************************************************************)
(* What holds of the replay buffer (ReplayBuffer) for every set of         *)
(* recordings, pods and handlers, every bound on blips and crashes and     *)
(* every set of scenarios.  The inductive invariant, ReplayInv, says what  *)
(* each handler knows of the row and the recording it works on (Works) and *)
(* what a strike of a pod stands for (Misses).                             *)
(***************************************************************************)
EXTENDS ReplayBuffer, TLAPS

(* The variables have their types, without what relates them to each other *)
(* and with no bound but those of the model.                               *)
ReplayTyped ==
    /\ egress \in [Egresses -> EgressStates] /\ hooks \subseteq Egresses
    /\ blips \in [Pods -> [Egresses -> 0..MaxBlips]]
    /\ row \in [Egresses -> Statuses \cup {"none"}] /\ recent \in Egresses \cup {None}
    /\ dirs \subseteq Egresses
    /\ strikes \in [Pods -> SUBSET Egresses] /\ pass \in [Pods -> PassState]
    /\ handler \in [Handlers -> HandlerState]
    /\ crashes \in 0..MaxCrashes /\ allowed \subseteq Events

(* A recording is not running any more, or it could not be stopped.        *)
Over(e) == egress[e] \in {"ended", "gone"} \/ unsafe

(* A row exists for a recording that was started; a webhook reports one    *)
(* that has ended.                                                         *)
Recorded ==
    /\ \A e \in Egresses : row[e] \in Statuses => egress[e] # "unused"
    /\ \A e \in hooks : egress[e] \in {"ended", "gone"}
    /\ recent # None => row[recent] \in Statuses

(* What a handler works on: a row it changes exists, and it comes to the   *)
(* row's end and to the directory only when the recording is over.         *)
OfRow == {"stopEgress", "orphanStop", "list"} \cup RowSteps
OfOver == {"stopRow", "endRow", "orphanRow", "delete"}

Works(h) ==
    LET e == handler[h].e
    IN /\ handler[h].step \in OfRow \cup OfOver \cup {"create"} => e \in Egresses
       /\ handler[h].step \in OfRow => row[e] \in Statuses
       /\ handler[h].step = "create" => egress[e] # "unused"
       /\ handler[h].step \in OfOver => Over(e)
       /\ handler[h].step = "recent" => recent # None

(* A pod has a strike against a running recording only after a blip, and   *)
(* ends its row only after a second one.                                   *)
Misses(p) ==
    /\ \A e \in strikes[p] : row[e] \in Statuses /\ (egress[e] = "live" => blips[p][e] >= 1)
    /\ \A e \in pass[p].todo : row[e] \in Statuses
    /\ LET e == pass[p].e
       IN e # None => /\ row[e] \in Statuses /\ e \notin strikes[p]
                      /\ egress[e] = "live" => blips[p][e] >= 2

ReplayInv ==
    /\ ReplayTyped /\ unsafe \in BOOLEAN
    /\ Recorded /\ LiveSegmentsKept
    /\ \A h \in Handlers : Works(h)
    /\ \A p \in Pods : Misses(p)

LEMMA ReplayInitial == Init => ReplayInv
<1> SUFFICES ASSUME Init PROVE ReplayInv
  OBVIOUS
<1>1. /\ \A h \in Handlers : handler[h] = Idle /\ handler[h].step = "idle"
      /\ \A p \in Pods : strikes[p] = {} /\ pass[p] = NoPass /\ pass[p].todo = {}
                           /\ pass[p].e = None
  BY DEF Init, Idle, NoPass
<1>2. Idle \in HandlerState /\ NoPass \in PassState
  BY DEF Idle, NoPass, HandlerState, PassState, Steps
<1>3. /\ egress \in [Egresses -> EgressStates] /\ hooks \subseteq Egresses
      /\ row \in [Egresses -> Statuses \cup {"none"}] /\ recent \in Egresses \cup {None}
      /\ dirs \subseteq Egresses
  BY DEF Init, EgressStates, Statuses
<1>4. blips \in [Pods -> [Egresses -> 0..MaxBlips]] /\ crashes \in 0..MaxCrashes
      /\ allowed \subseteq Events
  BY BoundAssumption DEF Init, BoundAssumption
<1>5. strikes \in [Pods -> SUBSET Egresses] /\ pass \in [Pods -> PassState]
      /\ handler \in [Handlers -> HandlerState]
  BY <1>2 DEF Init
<1>6. unsafe \in BOOLEAN
  BY DEF Init
<1>7. Recorded /\ LiveSegmentsKept
  BY DEF Init, Recorded, LiveSegmentsKept, Statuses
<1>8. \A h \in Handlers : Works(h)
  BY <1>1 DEF Works, OfRow, OfOver, RowSteps
<1>9. \A p \in Pods : Misses(p)
  BY <1>1 DEF Misses
<1>10. QED BY <1>3, <1>4, <1>5, <1>6, <1>7, <1>8, <1>9 DEF ReplayInv, ReplayTyped

(* Recordings, rows and handlers' findings only go forward.                *)
Onward ==
    /\ \A e \in Egresses :
          \/ egress'[e] = egress[e]
          \/ egress[e] = "unused" /\ egress'[e] = "live"
          \/ egress[e] = "live" /\ egress'[e] = "ended"
          \/ egress[e] = "ended" /\ egress'[e] = "gone"
    /\ \A e \in Egresses : row[e] \in Statuses => row'[e] \in Statuses
    /\ unsafe => unsafe'
    /\ recent # None => recent' # None

LEMMA WorksOn ==
  ASSUME ReplayInv, Onward, NEW h \in Handlers, handler'[h] = handler[h]
  PROVE  Works(h)'
<1>1. PICK e : e = handler[h].e
  OBVIOUS
<1>2. Works(h)
  BY DEF ReplayInv
<1>3. e \in Egresses => /\ row[e] \in Statuses => row'[e] \in Statuses
                        /\ egress[e] # "unused" => egress'[e] # "unused"
                        /\ Over(e) => Over(e)'
  BY DEF Onward, Over
<1>4. QED BY <1>1, <1>2, <1>3 DEF Works, Onward

LEMMA MissesOn ==
  ASSUME ReplayInv, Onward, NEW p \in Pods,
         strikes'[p] = strikes[p], pass'[p] = pass[p], blips'[p] = blips[p]
  PROVE  Misses(p)'
<1>1. Misses(p) /\ strikes[p] \subseteq Egresses /\ pass[p].todo \subseteq Egresses
      /\ pass[p].e \in Egresses \cup {None} /\ Recorded
  BY DEF ReplayInv, ReplayTyped, PassState
<1>2. \A e \in Egresses : row[e] \in Statuses =>
          row'[e] \in Statuses /\ (egress'[e] = "live" => egress[e] = "live")
  BY <1>1 DEF Onward, Recorded
<1>3. QED BY <1>1, <1>2 DEF Misses

(* A step of one handler.                                                  *)
OnlyHandler(h) == \A i \in Handlers \ {h} : handler'[i] = handler[i]

LEMMA HandlerStep ==
  ASSUME ReplayInv, NEW h \in Handlers, Onward, ReplayTyped', unsafe' \in BOOLEAN,
         UNCHANGED passes, OnlyHandler(h), Works(h)', Recorded', LiveSegmentsKept'
  PROVE  ReplayInv'
BY WorksOn, MissesOn DEF ReplayInv, OnlyHandler, passes

LEMMA FinishEffect ==
  ASSUME ReplayTyped, NEW h \in Handlers, Finish(h)
  PROVE  /\ handler' \in [Handlers -> HandlerState] /\ OnlyHandler(h) /\ Works(h)'
<1>1. Idle \in HandlerState
  BY DEF Idle, HandlerState, Steps
<1>2. handler'[h].step = "idle" /\ handler' \in [Handlers -> HandlerState] /\ OnlyHandler(h)
  BY <1>1 DEF ReplayTyped, Finish, OnlyHandler, Idle
<1>3. QED BY <1>2 DEF Works, OfRow, OfOver, RowSteps

LEMMA GoToEffect ==
  ASSUME ReplayTyped, NEW h \in Handlers, NEW s \in Steps, GoTo(h, s)
  PROVE  /\ handler' \in [Handlers -> HandlerState] /\ OnlyHandler(h)
         /\ handler'[h].step = s /\ handler'[h].e = handler[h].e
         /\ handler'[h].seen = handler[h].seen
BY DEF ReplayTyped, GoTo, HandlerState, OnlyHandler

LEMMA WorkEffect ==
  ASSUME ReplayTyped, NEW h \in Handlers, NEW s \in Steps, NEW e \in Egresses, Work(h, s, e)
  PROVE  /\ handler' \in [Handlers -> HandlerState] /\ OnlyHandler(h)
         /\ handler'[h].step = s /\ handler'[h].e = e
<1>1. handler \in [Handlers -> HandlerState]
  BY DEF ReplayTyped
<1>2. handler' = [handler EXCEPT ![h] = [@ EXCEPT !.step = s, !.e = e]]
  BY <1>1 DEF Work, HandlerState
<1>3. [handler[h] EXCEPT !.step = s, !.e = e] \in HandlerState
  BY <1>1 DEF HandlerState
<1>4. QED BY <1>1, <1>2, <1>3 DEF HandlerState, OnlyHandler

(* What changes only the handler.                                          *)
LEMMA HandlerOnly ==
  ASSUME ReplayInv, NEW h \in Handlers, UNCHANGED <<livekit, rows, dirs, passes, scope>>,
         handler' \in [Handlers -> HandlerState], OnlyHandler(h), Works(h)'
  PROVE  ReplayInv'
<1>1. UNCHANGED <<egress, hooks, row, recent, dirs, strikes, pass, blips,
                  crashes, allowed, unsafe>>
  BY DEF livekit, rows, passes, scope
<1>2. Onward
  BY <1>1 DEF Onward
<1>3. ReplayTyped' /\ unsafe' \in BOOLEAN
  BY <1>1 DEF ReplayInv, ReplayTyped
<1>4. Recorded' /\ LiveSegmentsKept'
  BY <1>1 DEF ReplayInv, Recorded, LiveSegmentsKept
<1>5. QED BY <1>2, <1>3, <1>4, HandlerStep

LEMMA CallStep ==
  ASSUME ReplayInv, NEW h \in Handlers,
         \/ StartReplayBuffer(h) \/ StopReplayBuffer(h) \/ StopFind(h) \/ StopEgressFails(h)
         \/ Capture(h) \/ FindRecent(h) \/ ListForHeal(h)
         \/ CleanupOrphanedSessions(h) \/ SweepDirectories(h)
  PROVE  ReplayInv'
<1>1. ReplayTyped /\ Works(h) /\ handler[h] \in HandlerState
  BY DEF ReplayInv, ReplayTyped
<1>2. /\ UNCHANGED <<livekit, rows, dirs, passes, scope>>
      /\ UNCHANGED <<egress, row, recent, unsafe>>
  BY DEF StartReplayBuffer, StopReplayBuffer, StopFind, StopEgressFails, Capture, FindRecent,
         ListForHeal, CleanupOrphanedSessions, SweepDirectories, livekit, rows, scope
<1>3. ASSUME NEW s \in Steps, handler' \in [Handlers -> HandlerState],
             OnlyHandler(h), handler'[h].step = s, s \notin OfRow \cup OfOver \cup {"create"},
             s = "recent" => recent # None
      PROVE  ReplayInv'
  BY <1>2, <1>3, HandlerOnly DEF Works
<1>4. ASSUME Finish(h) PROVE ReplayInv'
  BY <1>1, <1>2, <1>4, FinishEffect, HandlerOnly
<1>5. ASSUME NEW s \in Steps, GoTo(h, s), s \notin OfRow \cup OfOver \cup {"create"},
             s = "recent" => recent # None
      PROVE  ReplayInv'
  BY <1>1, <1>3, <1>5, GoToEffect
<1>6. ASSUME NEW e \in ActiveRows, NEW s \in {"stopEgress", "orphanStop"}, Work(h, s, e)
      PROVE  ReplayInv'
  <2>1. e \in Egresses /\ row[e] \in Statuses /\ s \in Steps
    BY DEF ActiveRows, Statuses, Steps
  <2>2. /\ handler' \in [Handlers -> HandlerState] /\ OnlyHandler(h)
        /\ handler'[h].step = s /\ handler'[h].e = e
    BY <1>1, <1>6, <2>1, WorkEffect
  <2>3. Works(h)'
    BY <1>2, <2>1, <2>2 DEF Works, OfOver
  <2>4. QED BY <1>2, <2>2, <2>3, HandlerOnly
<1>7. CASE StartReplayBuffer(h)
  <2>1. PICK s \in {"start", "stop"} :
           handler' = [handler EXCEPT ![h].step = s, ![h].starting = TRUE]
    BY <1>7 DEF StartReplayBuffer
  <2>2. handler' \in [Handlers -> HandlerState] /\ OnlyHandler(h) /\ handler'[h].step = s
        /\ s \in Steps
    BY <1>1, <2>1 DEF ReplayTyped, HandlerState, Steps, OnlyHandler
  <2>3. QED BY <1>3, <2>2 DEF OfRow, OfOver, RowSteps
<1>8. CASE StopReplayBuffer(h)
  BY <1>5, <1>8 DEF StopReplayBuffer, Steps, OfRow, OfOver, RowSteps
<1>9. CASE StopFind(h) \/ StopEgressFails(h) \/ CleanupOrphanedSessions(h)
  BY <1>4, <1>6, <1>9 DEF StopFind, StopEgressFails, CleanupOrphanedSessions
<1>10. CASE Capture(h)
  BY <1>5, <1>10 DEF Capture, Steps, OfRow, OfOver, RowSteps
<1>11. CASE FindRecent(h)
  <2>1. recent \in Egresses /\ row[recent] \in Statuses
    BY <1>1, <1>11 DEF FindRecent, At, Works, ReplayInv, Recorded, ReplayTyped
  <2>2. PICK r : r = row[recent]
    OBVIOUS
  <2>3. handler' = [handler EXCEPT ![h].step = "list", ![h].e = recent, ![h].seen = r]
        /\ r \in Statuses
    BY <1>11, <2>1, <2>2 DEF FindRecent
  <2>4. /\ handler' \in [Handlers -> HandlerState] /\ OnlyHandler(h)
        /\ handler'[h].step = "list" /\ handler'[h].e = recent
    BY <1>1, <2>1, <2>3 DEF ReplayTyped, HandlerState, Steps, OnlyHandler
  <2>5. Works(h)'
    BY <1>2, <2>1, <2>4 DEF Works, OfOver
  <2>6. QED BY <1>2, <2>4, <2>5, HandlerOnly
<1>12. CASE ListForHeal(h)
  <2>1. handler[h].step = "list" /\ (GoTo(h, "heal") \/ Finish(h))
    BY <1>12 DEF ListForHeal, At
  <2>2. CASE GoTo(h, "heal")
    <3>1. /\ handler' \in [Handlers -> HandlerState] /\ OnlyHandler(h)
          /\ handler'[h].step = "heal" /\ handler'[h].e = handler[h].e
      BY <1>1, <2>2, GoToEffect DEF Steps
    <3>2. handler[h].e \in Egresses /\ row[handler[h].e] \in Statuses
      BY <1>1, <2>1 DEF Works, OfRow
    <3>3. PICK e \in Egresses : e = handler[h].e /\ row[e] \in Statuses
      BY <3>2
    <3>4. Works(h)'
      BY <1>2, <3>1, <3>3 DEF Works, OfOver
    <3>5. QED BY <1>2, <3>1, <3>4, HandlerOnly
  <2>3. QED BY <1>4, <2>1, <2>2
<1>13. CASE SweepDirectories(h)
  <2>1. handler' = [handler EXCEPT ![h].step = "sweep", ![h].todo = dirs] /\ dirs \subseteq Egresses
    BY <1>1, <1>13 DEF SweepDirectories, ReplayTyped
  <2>2. handler' \in [Handlers -> HandlerState] /\ OnlyHandler(h) /\ handler'[h].step = "sweep"
    BY <1>1, <2>1 DEF ReplayTyped, HandlerState, Steps, OnlyHandler
  <2>3. QED BY <1>3, <2>2 DEF OfRow, OfOver, RowSteps, Steps
<1>14. QED BY <1>7, <1>8, <1>9, <1>10, <1>11, <1>12, <1>13

(* The row of a recording that was started.                                *)
LEMMA RowStep ==
  ASSUME ReplayInv, NEW h \in Handlers, NEW e \in Egresses, NEW s \in Statuses,
         egress[e] # "unused", row' = [row EXCEPT ![e] = s], recent' \in {recent, e},
         UNCHANGED <<livekit, dirs, passes, scope>>,
         handler' \in [Handlers -> HandlerState], OnlyHandler(h), Works(h)'
  PROVE  ReplayInv'
<1>1. UNCHANGED <<egress, hooks, dirs, strikes, pass, blips, crashes, allowed, unsafe>>
  BY DEF livekit, passes, scope
<1>2. row \in [Egresses -> Statuses \cup {"none"}] /\ row' \in [Egresses -> Statuses \cup {"none"}]
      /\ row'[e] = s /\ \A d \in Egresses \ {e} : row'[d] = row[d]
  BY DEF ReplayInv, ReplayTyped
<1>3. e # None
  BY NameAssumption DEF NameAssumption
<1>4. Onward
  BY <1>1, <1>2, <1>3 DEF Onward
<1>5. ReplayTyped' /\ unsafe' \in BOOLEAN
  BY <1>1, <1>2 DEF ReplayInv, ReplayTyped
<1>6. Recorded' /\ LiveSegmentsKept'
  BY <1>1, <1>2 DEF ReplayInv, ReplayTyped, Recorded, LiveSegmentsKept
<1>7. QED BY <1>1, <1>4, <1>5, <1>6, HandlerStep

LEMMA RowWrites ==
  ASSUME ReplayInv, NEW h \in Handlers,
         CreateSession(h) \/ StopRow(h) \/ EndRow(h) \/ OrphanRow(h) \/ Heal(h)
  PROVE  ReplayInv'
<1>1. ReplayTyped /\ Works(h) /\ Recorded
  BY DEF ReplayInv
<1>2. PICK e \in Egresses : e = handler[h].e
  BY <1>1 DEF CreateSession, StopRow, EndRow, OrphanRow, Heal, At, Works, OfRow, OfOver, RowSteps
<1>3. egress[e] # "unused"
  BY <1>1, <1>2 DEF CreateSession, StopRow, EndRow, OrphanRow, Heal, At, Works, OfRow, RowSteps,
                    Recorded
<1>4. CASE CreateSession(h)
  <2>1. /\ row' = [row EXCEPT ![e] = "active"] /\ recent' = e /\ Finish(h)
        /\ UNCHANGED <<livekit, dirs, passes, scope>>
    BY <1>2, <1>4 DEF CreateSession
  <2>2. /\ handler' \in [Handlers -> HandlerState] /\ OnlyHandler(h) /\ Works(h)'
    BY <1>1, <2>1, FinishEffect
  <2>3. QED BY <1>3, <2>1, <2>2, RowStep DEF Statuses
<1>5. CASE StopRow(h) \/ EndRow(h) \/ OrphanRow(h)
  <2>1. /\ row' = [row EXCEPT ![e] = "stopped"] /\ recent' = recent /\ GoTo(h, "delete")
        /\ UNCHANGED <<livekit, dirs, passes, scope>> /\ handler[h].step \in OfOver
    BY <1>2, <1>5 DEF StopRow, EndRow, OrphanRow, At, OfOver
  <2>2. /\ handler' \in [Handlers -> HandlerState] /\ OnlyHandler(h)
        /\ handler'[h].step = "delete" /\ handler'[h].e = e
    BY <1>1, <1>2, <2>1, GoToEffect DEF Steps
  <2>3. Over(e) /\ UNCHANGED <<egress, unsafe>>
    BY <1>1, <1>2, <2>1 DEF Works, livekit, scope
  <2>4. Works(h)'
    BY <2>2, <2>3 DEF Works, Over, OfRow, RowSteps
  <2>5. QED BY <1>3, <2>1, <2>2, <2>4, RowStep DEF Statuses
<1>6. CASE Heal(h)
  <2>1. /\ row' = [row EXCEPT ![e] = "active"] \/ row' = row
        /\ recent' = recent /\ Finish(h) /\ UNCHANGED <<livekit, dirs, passes, scope>>
    BY <1>2, <1>6 DEF Heal
  <2>2. /\ handler' \in [Handlers -> HandlerState] /\ OnlyHandler(h) /\ Works(h)'
    BY <1>1, <2>1, FinishEffect
  <2>3. CASE row' = [row EXCEPT ![e] = "active"]
    BY <1>3, <2>1, <2>2, <2>3, RowStep DEF Statuses
  <2>4. CASE row' = row
    BY <2>1, <2>2, <2>4, HandlerOnly DEF rows
  <2>5. QED BY <2>1, <2>3, <2>4
<1>7. QED BY <1>4, <1>5, <1>6

(* A handler stops a recording whose row it has read.                      *)
LEMMA StoppedEffect ==
  ASSUME ReplayInv, NEW e \in Egresses, row[e] \in Statuses, Stopped(e)
  PROVE  /\ egress' \in [Egresses -> EgressStates] /\ hooks' \subseteq Egresses
         /\ egress'[e] \in {"ended", "gone"}
         /\ \A d \in Egresses : egress'[d] = egress[d]
                                   \/ (egress[d] = "live" /\ egress'[d] = "ended")
         /\ \A d \in hooks' : egress'[d] \in {"ended", "gone"}
<1>1. egress[e] # "unused" /\ egress \in [Egresses -> EgressStates] /\ hooks \subseteq Egresses
      /\ \A d \in hooks : egress[d] \in {"ended", "gone"}
  BY DEF ReplayInv, ReplayTyped, Recorded
<1>2. CASE egress[e] = "live"
  BY <1>1, <1>2 DEF Stopped, EgressStates
<1>3. CASE egress[e] # "live"
  BY <1>1, <1>3 DEF Stopped, EgressStates, livekit
<1>4. QED BY <1>2, <1>3

LEMMA StopStep ==
  ASSUME ReplayInv, NEW h \in Handlers, StopEgress(h) \/ OrphanStop(h)
  PROVE  ReplayInv'
<1>1. ReplayTyped /\ Works(h) /\ Recorded /\ unsafe \in BOOLEAN /\ LiveSegmentsKept
  BY DEF ReplayInv
<1>2. PICK e \in Egresses : e = handler[h].e /\ row[e] \in Statuses
  BY <1>1 DEF StopEgress, OrphanStop, At, Works, OfRow
<1>3. PICK s \in {"stopRow", "orphanRow"} : GoTo(h, s)
  BY DEF StopEgress, OrphanStop
<1>4. /\ handler' \in [Handlers -> HandlerState] /\ OnlyHandler(h)
      /\ handler'[h].step = s /\ handler'[h].e = e
  BY <1>1, <1>2, <1>3, GoToEffect DEF Steps
<1>5. UNCHANGED <<row, recent, dirs, passes, crashes, allowed>>
  BY DEF StopEgress, OrphanStop, rows, scope
<1>6. \/ Stopped(e) /\ unsafe' = unsafe
      \/ UNCHANGED <<egress, hooks>> /\ unsafe' = (unsafe \/ egress[e] = "live")
  BY <1>2 DEF StopEgress, OrphanStop, scope, livekit
<1>7. /\ egress' \in [Egresses -> EgressStates] /\ hooks' \subseteq Egresses
      /\ Over(e)' /\ unsafe' \in BOOLEAN /\ (unsafe => unsafe')
      /\ \A d \in Egresses : egress'[d] = egress[d]
                                \/ (egress[d] = "live" /\ egress'[d] = "ended")
      /\ \A d \in hooks' : egress'[d] \in {"ended", "gone"}
  <2>1. CASE Stopped(e) /\ unsafe' = unsafe
    BY <1>1, <1>2, <2>1, StoppedEffect DEF Over
  <2>2. CASE UNCHANGED <<egress, hooks>> /\ unsafe' = (unsafe \/ egress[e] = "live")
    <3>1. egress[e] \in EgressStates \ {"unused"}
      BY <1>1, <1>2 DEF ReplayTyped, Recorded
    <3>2. Over(e)'
      BY <2>2, <3>1 DEF Over, EgressStates
    <3>3. unsafe' \in BOOLEAN /\ (unsafe => unsafe')
      BY <1>1, <2>2
    <3>4. QED BY <1>1, <2>2, <3>2, <3>3 DEF ReplayTyped, Recorded
  <2>3. QED BY <1>6, <2>1, <2>2
<1>8. Onward
  BY <1>5, <1>7 DEF Onward
<1>9. ReplayTyped'
  BY <1>1, <1>4, <1>5, <1>7 DEF ReplayTyped, passes
<1>10. Works(h)'
  BY <1>2, <1>4, <1>5, <1>7 DEF Works
<1>11. Recorded' /\ LiveSegmentsKept'
  BY <1>1, <1>5, <1>7 DEF Recorded, LiveSegmentsKept
<1>12. QED BY <1>4, <1>5, <1>7, <1>8, <1>9, <1>10, <1>11, HandlerStep

LEMMA StartStep ==
  ASSUME ReplayInv, NEW h \in Handlers, StartEgress(h)
  PROVE  ReplayInv'
<1>1. ReplayTyped /\ Recorded /\ unsafe \in BOOLEAN /\ LiveSegmentsKept
  BY DEF ReplayInv
<1>2. PICK e \in Unused : /\ egress' = [egress EXCEPT ![e] = "live"]
                          /\ dirs' = dirs \cup {e} /\ Work(h, "create", e)
  BY DEF StartEgress
<1>3. UNCHANGED <<hooks, row, recent, passes, crashes, allowed, unsafe>>
  BY DEF StartEgress, rows, scope
<1>4. e \in Egresses /\ egress[e] = "unused"
  BY DEF Unused
<1>5. egress' \in [Egresses -> EgressStates] /\ egress'[e] = "live"
      /\ \A d \in Egresses \ {e} : egress'[d] = egress[d]
  BY <1>1, <1>2, <1>4 DEF ReplayTyped, EgressStates
<1>6. /\ handler' \in [Handlers -> HandlerState] /\ OnlyHandler(h)
      /\ handler'[h].step = "create" /\ handler'[h].e = e
  BY <1>1, <1>2, <1>4, WorkEffect DEF Steps
<1>7. Onward
  BY <1>3, <1>4, <1>5 DEF Onward
<1>8. ReplayTyped'
  BY <1>1, <1>2, <1>3, <1>4, <1>5, <1>6 DEF ReplayTyped, passes
<1>9. Works(h)'
  BY <1>4, <1>5, <1>6 DEF Works, OfRow, OfOver, RowSteps
<1>10. e \notin hooks
  BY <1>1, <1>4 DEF Recorded
<1>11. Recorded'
  BY <1>1, <1>3, <1>5, <1>10 DEF Recorded, ReplayTyped
<1>12. LiveSegmentsKept'
  BY <1>1, <1>2, <1>3, <1>5 DEF LiveSegmentsKept
<1>13. QED BY <1>1, <1>3, <1>6, <1>7, <1>8, <1>9, <1>11, <1>12, HandlerStep

(* Directories go of recordings that are over, webhooks come of them.      *)
LEMMA DirectoryStep ==
  ASSUME ReplayInv, NEW h \in Handlers,
         DeleteDirectory(h) \/ Sweep(h) \/ \E e \in Egresses : EgressEnded(h, e)
  PROVE  ReplayInv'
<1>1. ReplayTyped /\ Recorded /\ unsafe \in BOOLEAN /\ LiveSegmentsKept /\ Works(h)
  BY DEF ReplayInv
<1>2. UNCHANGED <<egress, row, recent, passes, crashes, allowed, unsafe>>
  BY DEF DeleteDirectory, Sweep, EgressEnded, rows, scope, livekit
<1>3. Onward
  BY <1>2 DEF Onward
<1>4. dirs' \subseteq dirs /\ hooks' \subseteq hooks
      /\ \A e \in Egresses : egress[e] = "live" /\ e \in dirs => e \in dirs' \/ unsafe
  <2>1. CASE DeleteDirectory(h)
    <3>1. PICK e \in Egresses : e = handler[h].e /\ Over(e)
      BY <1>1, <2>1 DEF DeleteDirectory, At, Works, OfOver
    <3>2. dirs \ {e} \subseteq dirs' /\ dirs' \subseteq dirs /\ hooks' = hooks
      BY <2>1, <3>1 DEF DeleteDirectory, livekit
    <3>3. QED BY <3>1, <3>2 DEF Over
  <2>2. CASE Sweep(h)
    BY <2>2 DEF Sweep, MayBeOld, livekit
  <2>3. CASE \E e \in Egresses : EgressEnded(h, e)
    BY <2>3 DEF EgressEnded
  <2>4. QED BY <2>1, <2>2, <2>3
<1>5. Recorded' /\ LiveSegmentsKept'
  BY <1>1, <1>2, <1>4 DEF Recorded, LiveSegmentsKept
<1>6. handler' \in [Handlers -> HandlerState] /\ OnlyHandler(h) /\ Works(h)'
  <2>1. CASE Finish(h)
    BY <1>1, <2>1, FinishEffect
  <2>2. ASSUME GoTo(h, "start") PROVE handler' \in [Handlers -> HandlerState]
                                      /\ OnlyHandler(h) /\ Works(h)'
    <3>1. /\ handler' \in [Handlers -> HandlerState] /\ OnlyHandler(h)
          /\ handler'[h].step = "start"
      BY <1>1, <2>2, GoToEffect DEF Steps
    <3>2. QED BY <3>1 DEF Works, OfRow, OfOver, RowSteps
  <2>3. ASSUME NEW e \in Egresses, EgressEnded(h, e)
        PROVE  handler' \in [Handlers -> HandlerState] /\ OnlyHandler(h) /\ Works(h)'
    <3>1. egress[e] \in {"ended", "gone"} /\ handler[h].step = "idle"
      BY <1>1, <2>3 DEF EgressEnded, Recorded, At
    <3>2. CASE handler' = handler
      BY <1>1, <1>3, <3>2, WorksOn DEF ReplayTyped, OnlyHandler
    <3>3. CASE row[e] = "active" /\ handler' = [handler EXCEPT ![h].step = "endRow", ![h].e = e]
      <4>1. /\ handler' \in [Handlers -> HandlerState] /\ OnlyHandler(h)
            /\ handler'[h].step = "endRow" /\ handler'[h].e = e
        BY <1>1, <3>3, WorkEffect DEF Work, Steps
      <4>2. Works(h)'
        BY <1>2, <3>1, <3>3, <4>1 DEF Works, Over, Statuses
      <4>3. QED BY <4>1, <4>2
    <3>4. QED BY <2>3, <3>2, <3>3 DEF EgressEnded
  <2>4. QED BY <2>1, <2>2, <2>3 DEF DeleteDirectory, Sweep
<1>7. ReplayTyped'
  BY <1>1, <1>2, <1>4, <1>6 DEF ReplayTyped, passes
<1>8. QED BY <1>1, <1>2, <1>3, <1>5, <1>6, <1>7, HandlerStep

(* LiveKit, and a handler that dies.                                       *)
LEMMA LiveKitStep ==
  ASSUME ReplayInv, NEW e \in Egresses, EgressEnds(e) \/ EgressForgotten(e) \/ HookLost(e)
  PROVE  ReplayInv'
<1>1. ReplayTyped /\ Recorded /\ unsafe \in BOOLEAN /\ LiveSegmentsKept
  BY DEF ReplayInv
<1>2. UNCHANGED <<row, recent, dirs, passes, handler, crashes, allowed, unsafe>>
  BY DEF EgressEnds, EgressForgotten, HookLost, rows, scope
<1>3. /\ egress' \in [Egresses -> EgressStates] /\ hooks' \subseteq Egresses
      /\ \A d \in Egresses : \/ egress'[d] = egress[d]
                             \/ egress[d] = "live" /\ egress'[d] = "ended"
                             \/ egress[d] = "ended" /\ egress'[d] = "gone"
      /\ \A d \in hooks' : egress'[d] \in {"ended", "gone"}
  <2>1. CASE EgressEnds(e)
    BY <1>1, <2>1 DEF EgressEnds, ReplayTyped, EgressStates, Recorded
  <2>2. CASE EgressForgotten(e)
    BY <1>1, <2>2 DEF EgressForgotten, ReplayTyped, EgressStates, Recorded
  <2>3. CASE HookLost(e)
    BY <1>1, <2>3 DEF HookLost, ReplayTyped, Recorded
  <2>4. QED BY <2>1, <2>2, <2>3
<1>4. Onward
  BY <1>2, <1>3 DEF Onward
<1>5. ReplayTyped'
  BY <1>1, <1>2, <1>3 DEF ReplayTyped, passes
<1>6. Recorded' /\ LiveSegmentsKept'
  BY <1>1, <1>2, <1>3 DEF Recorded, LiveSegmentsKept
<1>7. \A h \in Handlers : Works(h)'
  BY <1>2, <1>4, WorksOn
<1>8. \A p \in Pods : Misses(p)'
  BY <1>2, <1>4, MissesOn DEF passes
<1>9. QED BY <1>1, <1>2, <1>5, <1>6, <1>7, <1>8 DEF ReplayInv

LEMMA DiesStep ==
  ASSUME ReplayInv, NEW h \in Handlers, HandlerDies(h)
  PROVE  ReplayInv'
<1>1. ReplayTyped /\ Recorded /\ unsafe \in BOOLEAN /\ LiveSegmentsKept
  BY DEF ReplayInv
<1>2. /\ UNCHANGED <<egress, hooks, row, recent, dirs, passes, allowed, unsafe>>
      /\ crashes < MaxCrashes /\ crashes' = crashes + 1 /\ Finish(h)
  BY DEF HandlerDies, rows, livekit
<1>3. /\ handler' \in [Handlers -> HandlerState] /\ OnlyHandler(h) /\ Works(h)'
  BY <1>1, <1>2, FinishEffect
<1>4. Onward
  BY <1>2 DEF Onward
<1>5. crashes' \in 0..MaxCrashes
  BY <1>1, <1>2, BoundAssumption DEF ReplayTyped, BoundAssumption
<1>6. ReplayTyped'
  BY <1>1, <1>2, <1>3, <1>5 DEF ReplayTyped, passes
<1>7. Recorded' /\ LiveSegmentsKept'
  BY <1>1, <1>2 DEF Recorded, LiveSegmentsKept
<1>8. QED BY <1>1, <1>2, <1>3, <1>4, <1>6, <1>7, HandlerStep

(* A step of one pod's pass.                                               *)
PassesTyped ==
    /\ blips \in [Pods -> [Egresses -> 0..MaxBlips]]
    /\ strikes \in [Pods -> SUBSET Egresses] /\ pass \in [Pods -> PassState]

OnlyPod(p) ==
    \A q \in Pods \ {p} : strikes'[q] = strikes[q] /\ pass'[q] = pass[q] /\ blips'[q] = blips[q]

LEMMA PassStep ==
  ASSUME ReplayInv, NEW p \in Pods, UNCHANGED <<livekit, recent, dirs, handler, allowed, unsafe>>,
         crashes' \in 0..MaxCrashes, row' \in [Egresses -> Statuses \cup {"none"}],
         \A e \in Egresses : row'[e] \in Statuses <=> row[e] \in Statuses,
         PassesTyped', OnlyPod(p), Misses(p)'
  PROVE  ReplayInv'
<1>1. ReplayTyped /\ Recorded /\ unsafe \in BOOLEAN /\ LiveSegmentsKept
  BY DEF ReplayInv
<1>2. UNCHANGED <<egress, hooks>>
  BY DEF livekit
<1>3. Onward
  BY <1>2 DEF Onward
<1>4. ReplayTyped' /\ unsafe' \in BOOLEAN
  BY <1>1, <1>2 DEF ReplayTyped, PassesTyped
<1>5. Recorded'
  <2>1. recent # None => recent \in Egresses
    BY <1>1 DEF ReplayTyped
  <2>2. QED BY <1>1, <1>2, <2>1 DEF Recorded
<1>6. LiveSegmentsKept'
  BY <1>1, <1>2 DEF LiveSegmentsKept
<1>7. \A h \in Handlers : Works(h)'
  BY <1>3, WorksOn
<1>8. \A q \in Pods \ {p} : Misses(q)'
  BY <1>3, MissesOn DEF OnlyPod
<1>9. QED BY <1>4, <1>5, <1>6, <1>7, <1>8 DEF ReplayInv

LEMMA PassEffect ==
  ASSUME ReplayTyped, NEW p \in Pods, NEW e, Pass(p, e)
  PROVE  /\ pass' \in [Pods -> PassState] /\ \A q \in Pods \ {p} : pass'[q] = pass[q]
         /\ pass'[p].e = pass[p].e /\ pass'[p].todo = pass[p].todo \ {e}
<1>1. PICK T : T = pass[p].todo \ {e}
  OBVIOUS
<1>2. pass[p] \in PassState /\ T \in SUBSET Egresses
  BY <1>1 DEF ReplayTyped, PassState
<1>3. pass' = [pass EXCEPT ![p].todo = T]
  BY <1>1 DEF Pass
<1>4. QED BY <1>1, <1>2, <1>3 DEF ReplayTyped, PassState

LEMMA EndEffect ==
  ASSUME ReplayTyped, NEW p \in Pods, NEW e \in Egresses, End(p, e)
  PROVE  /\ pass' \in [Pods -> PassState] /\ \A q \in Pods \ {p} : pass'[q] = pass[q]
         /\ pass'[p].e = e /\ pass'[p].todo = pass[p].todo \ {e}
<1>1. PICK T : T = pass[p].todo \ {e}
  OBVIOUS
<1>2. pass[p] \in PassState /\ T \in SUBSET Egresses
  BY <1>1 DEF ReplayTyped, PassState
<1>3. pass' = [pass EXCEPT ![p].todo = T, ![p].e = e]
  BY <1>1 DEF End
<1>4. QED BY <1>1, <1>2, <1>3 DEF ReplayTyped, PassState

(* A miss: the first is remembered, the second ends the row.               *)
LEMMA MissStep ==
  ASSUME ReplayInv, NEW p \in Pods, NEW e \in Egresses, Turn(p, e), Miss(p, e),
         blips' \in [Pods -> [Egresses -> 0..MaxBlips]],
         \A q \in Pods \ {p} : blips'[q] = blips[q],
         \A d \in Egresses \ {e} : blips'[p][d] = blips[p][d],
         egress[e] = "live" => blips'[p][e] = blips[p][e] + 1,
         UNCHANGED <<livekit, rows, dirs, handler, scope>>
  PROVE  ReplayInv'
<1>1. ReplayTyped /\ Misses(p) /\ blips[p] \in [Egresses -> 0..MaxBlips]
  BY DEF ReplayInv, ReplayTyped
<1>2. pass[p].e = None /\ e \in pass[p].todo /\ row[e] \in Statuses /\ e # None
  BY <1>1, NameAssumption DEF Turn, Misses, NameAssumption
<1>3. UNCHANGED <<egress, row, recent, crashes, allowed, unsafe>>
  BY DEF livekit, rows, scope
<1>4. blips[p][e] \in Nat /\ \A d \in Egresses : blips[p][d] \in Nat /\ blips'[p][d] \in Nat
  BY <1>1, BoundAssumption DEF BoundAssumption
<1>5. PassesTyped' /\ OnlyPod(p) /\ Misses(p)'
  <2>1. CASE e \notin strikes[p]
    <3>1. strikes' = [strikes EXCEPT ![p] = strikes[p] \cup {e}] /\ Pass(p, e)
      BY <2>1 DEF Miss
    <3>2. /\ strikes' \in [Pods -> SUBSET Egresses] /\ strikes'[p] = strikes[p] \cup {e}
          /\ \A q \in Pods \ {p} : strikes'[q] = strikes[q]
      BY <1>1, <3>1 DEF ReplayTyped
    <3>3. /\ pass' \in [Pods -> PassState] /\ \A q \in Pods \ {p} : pass'[q] = pass[q]
          /\ pass'[p].e = None /\ pass'[p].todo = pass[p].todo \ {e}
      BY <1>1, <1>2, <3>1, PassEffect
    <3>4. \A d \in strikes'[p] : row[d] \in Statuses /\ (egress[d] = "live" => blips'[p][d] >= 1)
      BY <1>1, <1>2, <1>4, <3>2 DEF Misses, ReplayTyped
    <3>5. Misses(p)'
      BY <1>1, <1>3, <3>3, <3>4 DEF Misses
    <3>6. QED BY <3>2, <3>3, <3>5 DEF PassesTyped, OnlyPod
  <2>2. CASE e \in strikes[p]
    <3>1. strikes' = [strikes EXCEPT ![p] = strikes[p] \ {e}] /\ End(p, e)
      BY <2>2 DEF Miss
    <3>2. /\ strikes' \in [Pods -> SUBSET Egresses] /\ strikes'[p] = strikes[p] \ {e}
          /\ \A q \in Pods \ {p} : strikes'[q] = strikes[q]
      BY <1>1, <3>1 DEF ReplayTyped
    <3>3. /\ pass' \in [Pods -> PassState] /\ \A q \in Pods \ {p} : pass'[q] = pass[q]
          /\ pass'[p].e = e /\ pass'[p].todo = pass[p].todo \ {e}
      BY <1>1, <3>1, EndEffect
    <3>4. \A d \in strikes'[p] : row[d] \in Statuses /\ (egress[d] = "live" => blips'[p][d] >= 1)
      BY <1>1, <3>2 DEF Misses, ReplayTyped
    <3>5. egress[e] = "live" => blips'[p][e] >= 2
      BY <1>1, <1>4, <2>2 DEF Misses
    <3>6. Misses(p)'
      BY <1>1, <1>2, <1>3, <3>2, <3>3, <3>4, <3>5 DEF Misses
    <3>7. QED BY <3>2, <3>3, <3>6 DEF PassesTyped, OnlyPod
  <2>3. QED BY <2>1, <2>2
<1>6. QED BY <1>1, <1>3, <1>5, PassStep DEF ReplayTyped

LEMMA ReconcileStep ==
  ASSUME ReplayInv, NEW p \in Pods,
         \/ ReconcileStart(p) \/ ReconcileWrite(p) \/ ReconcileEnd(p) \/ PodRestarts(p)
         \/ \E e \in Egresses : \/ ReconcileFound(p, e) \/ ReconcileMissing(p, e)
                                \/ Blip(p, e) \/ ReconcileFails(p, e)
  PROVE  ReplayInv'
<1>1. ReplayTyped /\ Misses(p) /\ blips[p] \in [Egresses -> 0..MaxBlips]
  BY DEF ReplayInv, ReplayTyped
<1>2. NoPass \in PassState /\ NoPass.todo = {} /\ NoPass.e = None
  BY DEF NoPass, PassState
<1>3. MaxBlips \in Nat /\ MaxCrashes \in Nat
  BY BoundAssumption DEF BoundAssumption
<1>4. CASE ReconcileStart(p)
  <2>1. /\ UNCHANGED <<livekit, rows, dirs, blips, handler, scope>>
        /\ UNCHANGED <<egress, row, recent, crashes, allowed, unsafe>>
    BY <1>4 DEF ReconcileStart, livekit, rows, scope
  <2>2. PICK S : S = strikes[p] \cap ActiveRows
    OBVIOUS
  <2>3. strikes' = [strikes EXCEPT ![p] = S] /\ S \subseteq strikes[p]
    BY <1>4, <2>2 DEF ReconcileStart
  <2>4. PICK r : r = [NoPass EXCEPT !.on = TRUE, !.todo = ActiveRows]
    OBVIOUS
  <2>5. r \in PassState /\ r.todo = ActiveRows /\ r.e = None
        /\ \A e \in ActiveRows : e \in Egresses /\ row[e] \in Statuses
    BY <2>4 DEF NoPass, PassState, ActiveRows, Statuses
  <2>6. pass' = pass \/ pass' = [pass EXCEPT ![p] = r]
    BY <1>4, <2>4 DEF ReconcileStart
  <2>7. /\ strikes' \in [Pods -> SUBSET Egresses] /\ strikes'[p] = S
        /\ \A q \in Pods \ {p} : strikes'[q] = strikes[q]
    BY <1>1, <2>3 DEF ReplayTyped
  <2>8. /\ pass' \in [Pods -> PassState] /\ \A q \in Pods \ {p} : pass'[q] = pass[q]
        /\ pass'[p] = pass[p] \/ pass'[p] = r
    BY <1>1, <2>5, <2>6 DEF ReplayTyped
  <2>9. PassesTyped' /\ OnlyPod(p)
    BY <1>1, <2>1, <2>7, <2>8 DEF PassesTyped, OnlyPod, ReplayTyped
  <2>10. Misses(p)'
    <3>1. CASE pass'[p] = pass[p]
      BY <1>1, <2>1, <2>3, <2>7, <3>1 DEF Misses
    <3>2. CASE pass'[p] = r
      BY <1>1, <2>1, <2>3, <2>5, <2>7, <3>2 DEF Misses
    <3>3. QED BY <2>8, <3>1, <3>2
  <2>11. QED BY <1>1, <2>1, <2>9, <2>10, PassStep DEF ReplayTyped
<1>5. CASE ReconcileWrite(p)
  <2>1. PICK e \in Egresses : e = pass[p].e /\ row[e] \in Statuses /\ e \notin strikes[p]
    BY <1>1, <1>5 DEF ReconcileWrite, ReplayTyped, PassState, Misses
  <2>2. /\ row' = [row EXCEPT ![e] = "stopped"]
        /\ pass' = [pass EXCEPT ![p].e = None] /\ blips' = [blips EXCEPT ![p][e] = 0]
        /\ UNCHANGED <<livekit, recent, dirs, strikes, handler, scope>>
        /\ UNCHANGED <<egress, crashes, allowed, unsafe>>
    BY <1>5, <2>1 DEF ReconcileWrite, livekit, scope
  <2>3. /\ row' \in [Egresses -> Statuses \cup {"none"}]
        /\ \A d \in Egresses : row'[d] \in Statuses <=> row[d] \in Statuses
    BY <1>1, <2>1, <2>2 DEF ReplayTyped, Statuses
  <2>4. /\ blips' \in [Pods -> [Egresses -> 0..MaxBlips]]
        /\ \A q \in Pods \ {p} : blips'[q] = blips[q]
        /\ \A d \in Egresses \ {e} : blips'[p][d] = blips[p][d]
    BY <1>1, <1>3, <2>2 DEF ReplayTyped
  <2>5. /\ pass' \in [Pods -> PassState] /\ \A q \in Pods \ {p} : pass'[q] = pass[q]
        /\ pass'[p].e = None /\ pass'[p].todo = pass[p].todo
    BY <1>1, <2>2 DEF ReplayTyped, PassState
  <2>6. PassesTyped' /\ OnlyPod(p)
    BY <1>1, <2>2, <2>4, <2>5 DEF PassesTyped, OnlyPod, ReplayTyped
  <2>7. strikes[p] \subseteq Egresses \ {e} /\ pass[p].todo \subseteq Egresses
    BY <1>1, <2>1 DEF ReplayTyped, PassState
  <2>8. Misses(p)'
    BY <1>1, <2>2, <2>3, <2>4, <2>5, <2>7 DEF Misses
  <2>9. QED BY <1>1, <2>2, <2>3, <2>6, <2>8, PassStep DEF ReplayTyped
<1>6. CASE ReconcileEnd(p) \/ PodRestarts(p)
  <2>1. /\ UNCHANGED <<livekit, rows, dirs, handler, allowed, unsafe>>
        /\ UNCHANGED <<egress, row, recent>> /\ crashes' \in 0..MaxCrashes
        /\ pass' = [pass EXCEPT ![p] = NoPass]
    BY <1>1, <1>3, <1>6 DEF ReconcileEnd, PodRestarts, livekit, rows, scope, ReplayTyped
  <2>2. /\ pass' \in [Pods -> PassState] /\ \A q \in Pods \ {p} : pass'[q] = pass[q]
        /\ pass'[p] = NoPass
    BY <1>1, <1>2, <2>1 DEF ReplayTyped
  <2>3. /\ \A q \in Pods \ {p} : strikes'[q] = strikes[q] /\ blips'[q] = blips[q]
        /\ strikes' \in [Pods -> SUBSET Egresses]
        /\ blips' \in [Pods -> [Egresses -> 0..MaxBlips]]
        /\ strikes'[p] = {} \/ (strikes'[p] = strikes[p] /\ blips'[p] = blips[p])
    <3>1. CASE ReconcileEnd(p)
      BY <1>1, <3>1 DEF ReconcileEnd, ReplayTyped
    <3>2. CASE PodRestarts(p)
      <4>1. [e \in Egresses |-> 0] \in [Egresses -> 0..MaxBlips]
        BY <1>3
      <4>2. QED BY <1>1, <3>2, <4>1 DEF PodRestarts, ReplayTyped
    <3>3. QED BY <1>6, <3>1, <3>2
  <2>4. PassesTyped' /\ OnlyPod(p)
    BY <2>2, <2>3 DEF PassesTyped, OnlyPod
  <2>5. Misses(p)'
    BY <1>1, <1>2, <2>1, <2>2, <2>3 DEF Misses
  <2>6. QED BY <1>1, <2>1, <2>4, <2>5, PassStep DEF ReplayTyped
<1>7. ASSUME NEW e \in Egresses, ReconcileFound(p, e) PROVE ReplayInv'
  <2>1. /\ UNCHANGED <<livekit, rows, dirs, handler, scope>>
        /\ UNCHANGED <<egress, row, recent, crashes, allowed, unsafe>>
        /\ Turn(p, e) /\ blips' = [blips EXCEPT ![p][e] = 0]
        /\ Pass(p, e) \/ (egress[e] = "ended" /\ End(p, e))
    BY <1>7 DEF ReconcileFound, livekit, rows, scope
  <2>2. PICK S : S = strikes[p] \ {e}
    OBVIOUS
  <2>3. strikes' = [strikes EXCEPT ![p] = S]
    BY <1>7, <2>2 DEF ReconcileFound
  <2>4. /\ strikes' \in [Pods -> SUBSET Egresses] /\ strikes'[p] = strikes[p] \ {e}
        /\ \A q \in Pods \ {p} : strikes'[q] = strikes[q]
    BY <1>1, <2>2, <2>3 DEF ReplayTyped
  <2>5. /\ blips' \in [Pods -> [Egresses -> 0..MaxBlips]]
        /\ \A q \in Pods \ {p} : blips'[q] = blips[q]
        /\ \A d \in Egresses \ {e} : blips'[p][d] = blips[p][d]
    BY <1>1, <1>3, <2>1 DEF ReplayTyped
  <2>6. pass[p].e = None /\ e \in pass[p].todo /\ row[e] \in Statuses
    BY <1>1, <2>1 DEF Turn, Misses
  <2>7. /\ pass' \in [Pods -> PassState] /\ \A q \in Pods \ {p} : pass'[q] = pass[q]
        /\ pass'[p].todo = pass[p].todo \ {e}
        /\ pass'[p].e = None \/ (pass'[p].e = e /\ egress[e] = "ended")
    BY <1>1, <2>1, <2>6, PassEffect, EndEffect
  <2>8. PassesTyped' /\ OnlyPod(p)
    BY <2>4, <2>5, <2>7 DEF PassesTyped, OnlyPod
  <2>9. strikes[p] \subseteq Egresses
    BY <1>1 DEF ReplayTyped
  <2>10. Misses(p)'
    <3>1. \A d \in strikes'[p] : row[d] \in Statuses /\ (egress[d] = "live" => blips'[p][d] >= 1)
      BY <1>1, <2>4, <2>5, <2>9 DEF Misses
    <3>2. CASE pass'[p].e = None
      BY <1>1, <2>1, <2>7, <3>1, <3>2 DEF Misses
    <3>3. CASE pass'[p].e = e /\ egress[e] = "ended"
      BY <1>1, <2>1, <2>4, <2>6, <2>7, <3>1, <3>3 DEF Misses
    <3>4. QED BY <2>7, <3>2, <3>3
  <2>11. QED BY <1>1, <2>1, <2>8, <2>10, PassStep DEF ReplayTyped
<1>8. ASSUME NEW e \in Egresses, ReconcileMissing(p, e) PROVE ReplayInv'
  BY <1>1, <1>8, MissStep DEF ReconcileMissing, ReplayTyped
<1>9. ASSUME NEW e \in Egresses, Blip(p, e) PROVE ReplayInv'
  <2>1. /\ blips[p][e] \in 0..MaxBlips /\ blips[p][e] < MaxBlips
        /\ blips' = [blips EXCEPT ![p][e] = blips[p][e] + 1]
        /\ Turn(p, e) /\ Miss(p, e) /\ UNCHANGED <<livekit, rows, dirs, handler, scope>>
    BY <1>1, <1>9 DEF Blip
  <2>2. blips[p][e] + 1 \in 0..MaxBlips
    BY <1>3, <2>1
  <2>3. /\ blips' \in [Pods -> [Egresses -> 0..MaxBlips]]
        /\ \A q \in Pods \ {p} : blips'[q] = blips[q]
        /\ \A d \in Egresses \ {e} : blips'[p][d] = blips[p][d]
        /\ blips'[p][e] = blips[p][e] + 1
    BY <1>1, <2>1, <2>2 DEF ReplayTyped
  <2>4. QED BY <2>1, <2>3, MissStep
<1>10. ASSUME NEW e \in Egresses, ReconcileFails(p, e) PROVE ReplayInv'
  <2>1. /\ UNCHANGED <<livekit, rows, dirs, strikes, blips, handler, scope>>
        /\ UNCHANGED <<egress, row, recent, crashes, allowed, unsafe>> /\ Pass(p, e)
    BY <1>10 DEF ReconcileFails, livekit, rows, scope
  <2>2. /\ pass' \in [Pods -> PassState] /\ \A q \in Pods \ {p} : pass'[q] = pass[q]
        /\ pass'[p].e = pass[p].e /\ pass'[p].todo = pass[p].todo \ {e}
    BY <1>1, <2>1, PassEffect
  <2>3. PassesTyped' /\ OnlyPod(p)
    BY <1>1, <2>1, <2>2 DEF PassesTyped, OnlyPod, ReplayTyped
  <2>4. Misses(p)'
    BY <1>1, <2>1, <2>2 DEF Misses
  <2>5. QED BY <1>1, <2>1, <2>3, <2>4, PassStep DEF ReplayTyped
<1>11. QED BY <1>4, <1>5, <1>6, <1>7, <1>8, <1>9, <1>10

LEMMA ReplayStep == ReplayInv /\ [Next]_vars => ReplayInv'
<1> SUFFICES ASSUME ReplayInv, [Next]_vars PROVE ReplayInv'
  OBVIOUS
<1>1. CASE UNCHANGED vars
  <2>1. UNCHANGED <<livekit, rows, dirs, passes, handler, scope>>
    BY <1>1 DEF vars
  <2>2. UNCHANGED <<egress, hooks, row, recent, strikes, pass, blips, crashes, allowed, unsafe>>
    BY <2>1 DEF livekit, rows, passes, scope
  <2>3. QED BY <2>1, <2>2
            DEF ReplayInv, ReplayTyped, Recorded, LiveSegmentsKept, Works, Misses, Over
<1>2. ASSUME NEW h \in Handlers, Call(h) \/ Continue(h) PROVE ReplayInv'
  BY <1>2, CallStep, RowWrites, StopStep, StartStep, DirectoryStep DEF Call, Continue
<1>3. ASSUME NEW p \in Pods, Reconcile(p) PROVE ReplayInv'
  BY <1>3, ReconcileStep DEF Reconcile
<1>4. CASE Environment
  BY <1>4, LiveKitStep, ReconcileStep, DiesStep DEF Environment
<1>5. QED BY <1>1, <1>2, <1>3, <1>4 DEF Next

LEMMA ReplayAlways == Spec => []ReplayInv
BY ReplayInitial, ReplayStep, PTL DEF Spec

(* The variables have their types, and a row that a handler is about to    *)
(* update, or a pass still has to check, exists: prisma.update of a row    *)
(* that is not there would throw (livekit-replay.service.ts).              *)
THEOREM TypeCorrect == Spec => []TypeOK
<1>1. ReplayInv => TypeOK
  BY DEF ReplayInv, ReplayTyped, TypeOK, Works, Misses, OfRow
<1>2. QED BY <1>1, ReplayAlways, PTL

(* No stop, start, webhook, orphan clean-up or sweep deletes the directory *)
(* of a recording that is running, whatever its row says, but for the      *)
(* orphan clean-up of a recording it could not stop: whoever comes to      *)
(* deleteSegmentDirectory has seen the recording end (Works).              *)
THEOREM SegmentsOfRunningStay == Spec => []LiveSegmentsKept
BY ReplayAlways, PTL DEF ReplayInv

(* A reconcile pass ends the row of a running recording only after         *)
(* listEgress missed it twice in a row for that pod (egressMissedOnce),    *)
(* whatever other pods, webhooks, heals and restarts do in between.        *)
THEOREM TwoMissesEndARow == Spec => OneBlipEndsNothing
<1>1. ReplayInv => \A p \in Pods :
          ReconcileWrite(p) /\ egress[pass[p].e] = "live" => blips[p][pass[p].e] >= 2
  BY DEF ReplayInv, Misses, ReconcileWrite
<1>2. QED BY <1>1, ReplayAlways, PTL DEF Spec, OneBlipEndsNothing
=============================================================================

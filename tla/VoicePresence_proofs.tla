----------------------- MODULE VoicePresence_proofs -----------------------
(***************************************************************************)
(* Proof, for any number of handlers, participants and sessions and any    *)
(* scenarios, that a participant whose token is revoked does not stay in   *)
(* the room unnoticed (RevokedParticipantIsReached of VoicePresence).      *)
(*                                                                         *)
(* The argument: a participant enters the room with a join webhook on its  *)
(* way.  As long as that webhook or its check is pending the participant   *)
(* will be looked at; when the check lets it stay its token is not revoked,*)
(* and what revokes it later leaves a list of rooms to be made, in which   *)
(* it will be found.  It is the order of the writes that matters: marker   *)
(* and cutoff come before the list.  Where a call fails, or a process dies *)
(* with what it had to do, the participant this lets off is missed, and no *)
(* other one is.                                                           *)
(***************************************************************************)
EXTENDS VoicePresence, TLAPS

(* The initial state has them.                                             *)
LEMMA InitType == Init => TypeOK
<1> SUFFICES ASSUME Init PROVE TypeOK
  OBVIOUS
<1>1. clock \in 1..(MaxClock + 1) /\ cutoff \in 0..(MaxClock + 1) /\ now \in 0..(MaxClock + 1)
  BY BoundAssumption DEF Init
<1>2. Idle \in HandlerState
  BY DEF Idle, HandlerState, Steps, Records
<1>3. handler \in [Handlers -> HandlerState] /\ \A h \in Handlers : ~At(h, "check")
  BY <1>2 DEF Init, At, Idle
<1>4. /\ tokenOf \in [Sids -> Tokens \cup {None}]
      /\ repeats \in 0..MaxRepeats
      /\ allowed \in SUBSET Events /\ deaths \in 0..MaxDeaths
  BY BoundAssumption DEF Init
<1>5. /\ here \in Sids \cup {None} /\ record \in Records
      /\ hooks \subseteq Hooks /\ marked \subseteq Sessions /\ todo \subseteq Revokers \X Tasks
      /\ member \in BOOLEAN /\ channels \in BOOLEAN /\ missed \subseteq Sids
  BY DEF Init, Records
<1> QED
  BY <1>1, <1>3, <1>4, <1>5 DEF TypeOK

(* All types are kept.                                                     *)
LEMMA TypeStep ==
    ASSUME TypeOK, [Next]_vars
    PROVE  TypeOK'
<1> USE BoundAssumption, NameAssumption
    DEF TypeOK, At, GoTo, Finish, Start, Idle, HandlerState, Steps, Records, Hooks, Revokers,
        Tasks, livekit, webhooks, presence, revocation, scope
<1>1. CASE UNCHANGED vars
  BY <1>1 DEF vars
<1>2. ASSUME NEW h \in Handlers, Call(h) PROVE TypeOK'
  <2>1. ASSUME NEW m \in Hooks, Hook(h, m) PROVE TypeOK'
    <3>1. m[1] \in {"joined", "left"} /\ m[2] \in Sids
      OBVIOUS
    <3> DEFINE e == [step |-> IF m[1] = "joined" THEN "check" ELSE "leave",
                     sid |-> m[2], seen |-> None]
    <3>2. e \in HandlerState /\ e.sid \in Sids
      BY <3>1
    <3>3. /\ handler' = [handler EXCEPT ![h] = e]
          /\ hooks' = hooks \ {m}
          /\ UNCHANGED <<livekit, repeats, presence, revocation, scope>>
      BY <2>1 DEF Hook
    <3> HIDE DEF e
    <3>4. handler' \in [Handlers -> HandlerState]
      BY <3>2, <3>3
    <3>5. \A g \in Handlers : handler'[g].step = "check" => handler'[g].sid \in Sids
      BY <3>2, <3>3
    <3> QED BY <3>3, <3>4, <3>5
  <2>2. CASE JoinDirect(h)
    <3>1. handler' \in [Handlers -> HandlerState]
      BY <2>2 DEF JoinDirect
    <3>2. \A g \in Handlers : At(g, "check")' => handler'[g].sid \in Sids
      BY <2>2 DEF JoinDirect
    <3> QED BY <2>2, <3>1, <3>2 DEF JoinDirect
  <2>3. CASE RefreshPresence(h)
    BY <2>3 DEF RefreshPresence
  <2>4. CASE LeaveDirect(h)
    BY <2>4 DEF LeaveDirect
  <2>5. CASE FlagGet(h)
    BY <2>5 DEF FlagGet
  <2>6. CASE ReadMembers(h)
    BY <2>6 DEF ReadMembers
  <2>7. ASSUME NEW x \in Revokers, LeaveRevoked(h, x) PROVE TypeOK'
    BY <2>7 DEF LeaveRevoked
  <2> QED BY <1>2, <2>1, <2>2, <2>3, <2>4, <2>5, <2>6, <2>7 DEF Call
<1>3. ASSUME NEW h \in Handlers, Continue(h) PROVE TypeOK'
  <2>1. CASE CheckJoin(h)
    <3>1. PICK t \in {"kick", "get"} : handler' = [handler EXCEPT ![h].step = t]
      BY <2>1 DEF CheckJoin
    <3>2. /\ missed' \subseteq Sids
          /\ UNCHANGED <<allowed, deaths, livekit, webhooks, presence, revocation>>
      BY <2>1 DEF CheckJoin
    <3>3. handler' \in [Handlers -> HandlerState]
      BY <3>1
    <3>4. \A g \in Handlers : handler'[g].step = "check" => handler'[g].sid \in Sids
      BY <3>1
    <3> QED BY <3>2, <3>3, <3>4
  <2>2. CASE Deny(h)
    <3>1. /\ here' \in Sids \cup {None} /\ hooks' \subseteq Hooks /\ missed' \subseteq Sids
          /\ UNCHANGED <<allowed, deaths, tokenOf, repeats, presence, revocation>>
      <4>1. LeftHook \subseteq Hooks
        BY NameAssumption DEF LeftHook
      <4>2. CASE RemoveParticipant /\ UNCHANGED missed
        BY <2>2, <4>1, <4>2 DEF Deny, RemoveParticipant
      <4>3. CASE missed' = missed \cup Here /\ UNCHANGED <<livekit, webhooks>>
        BY <2>2, <4>3 DEF Deny, Here
      <4> QED BY <2>2, <4>2, <4>3 DEF Deny
    <3>2. handler' = [handler EXCEPT ![h] = Idle] /\ Idle \in HandlerState
      BY <2>2 DEF Deny
    <3>3. \A g \in Handlers : handler'[g].step = "check" => handler'[g].sid \in Sids
      BY <3>2
    <3> QED BY <3>1, <3>2, <3>3
  <2>3. CASE JoinGet(h)
    BY <2>3 DEF JoinGet
  <2>4. CASE JoinSet(h)
    BY <2>4 DEF JoinSet
  <2>5. CASE JoinCreate(h)
    BY <2>5 DEF JoinCreate
  <2>6. CASE LeaveGet(h)
    BY <2>6 DEF LeaveGet
  <2>7. CASE LeaveDelete(h)
    BY <2>7 DEF LeaveDelete
  <2>8. CASE FlagSet(h)
    BY <2>8 DEF FlagSet
  <2>9. CASE ReadRecords(h)
    BY <2>9 DEF ReadRecords
  <2>10. CASE CleanMember(h)
    BY <2>10 DEF CleanMember
  <2> QED
    BY <1>3, <2>1, <2>2, <2>3, <2>4, <2>5, <2>6, <2>7, <2>8, <2>9, <2>10 DEF Continue
<1>4. CASE Revocation
  <2>1. ASSUME NEW x \in Sessions, RevokeSession(x) PROVE TypeOK'
    BY <2>1 DEF RevokeSession
  <2>2. CASE ReadClock
    BY <2>2 DEF ReadClock
  <2>3. CASE WriteCutoff
    BY <2>3 DEF WriteCutoff
  <2>4. ASSUME NEW x \in Revokers, ListRooms(x) PROVE TypeOK'
    <3>1. Found(x) \subseteq Revokers \X Tasks
      BY DEF Found, FromLiveKit, FromIndex
    <3> QED BY <2>4, <3>1 DEF ListRooms
  <2>5. ASSUME NEW x \in Revokers, Remove(x) PROVE TypeOK'
    BY <2>5 DEF Remove, Removed, RemoveParticipant, LeftHook
  <2>6. ASSUME NEW x \in Revokers, RemoveFails(x) PROVE TypeOK'
    BY <2>6 DEF RemoveFails, Removed, Here
  <2>7. CASE CutoffFails
    BY <2>7 DEF CutoffFails
  <2>8. ASSUME NEW x \in Revokers, ListFails(x) PROVE TypeOK'
    <3>1. PICK found \in {FromLiveKit(x), FromIndex(x), {}} :
             /\ todo' = (todo \ {<<x, "list">>}) \cup found
             /\ missed' = missed \cup (IF FromLiveKit(x) \subseteq found THEN {} ELSE Here)
      BY <2>8 DEF ListFails
    <3>2. found \subseteq Revokers \X Tasks
      BY DEF FromLiveKit, FromIndex
    <3>3. todo' \subseteq Revokers \X Tasks /\ missed' \subseteq Sids
      BY <3>1, <3>2 DEF Here
    <3> QED BY <2>8, <3>3 DEF ListFails
  <2>9. ASSUME NEW x \in Sessions, RevokeSessionFails(x) PROVE TypeOK'
    BY <2>9 DEF RevokeSessionFails, Here
  <2> QED BY <1>4, <2>1, <2>2, <2>3, <2>4, <2>5, <2>6, <2>7, <2>8, <2>9 DEF Revocation
<1>5. CASE Environment
  <2>1. ASSUME NEW s \in Sids, NEW x \in Sessions, NEW i \in 1..clock, Connect(s, x, i)
        PROVE  TypeOK'
    <3>1. [session |-> x, iat |-> i] \in Tokens
      BY DEF Tokens
    <3> QED BY <2>1, <3>1 DEF Connect, LeftHook
  <2>2. CASE Disconnect
    BY <2>2 DEF Disconnect, RemoveParticipant, LeftHook
  <2>3. ASSUME NEW m \in Hooks, SendAgain(m) PROVE TypeOK'
    BY <2>3 DEF SendAgain
  <2>4. ASSUME NEW m \in Hooks, HookLost(m) PROVE TypeOK'
    BY <2>4 DEF HookLost
  <2>5. CASE Expire
    BY <2>5 DEF Expire
  <2>6. ASSUME NEW H \in SUBSET Handlers, NEW R \in SUBSET Revokers, Dies(H, R)
        PROVE  TypeOK'
    <3>1. handler' = [h \in Handlers |-> IF h \in H THEN Idle ELSE handler[h]]
      BY <2>6 DEF Dies
    <3>2. Idle \in HandlerState
      OBVIOUS
    <3>3. /\ handler' \in [Handlers -> HandlerState]
          /\ \A h \in Handlers : handler'[h].step = "check" => handler'[h].sid \in Sids
      BY <3>1, <3>2
    <3>4. deaths' \in 0..MaxDeaths /\ todo' \subseteq Revokers \X Tasks /\ missed' \subseteq Sids
      BY <2>6 DEF Dies, Here
    <3> QED BY <2>6, <3>3, <3>4 DEF Dies
  <2> QED BY <1>5, <2>1, <2>2, <2>3, <2>4, <2>5, <2>6 DEF Environment
<1> QED BY <1>1, <1>2, <1>3, <1>4, <1>5 DEF Next

(* Every state of the program has the types of TypeOK.                     *)
THEOREM TypeCorrect == Spec => []TypeOK
<1>1. Init => TypeOK
  BY InitType
<1>2. TypeOK /\ [Next]_vars => TypeOK'
  BY TypeStep
<1> QED BY <1>1, <1>2, PTL DEF Spec

-----------------------------------------------------------------------------
(* A handler's step keeps what will remove a revoked participant: the      *)
(* webhook becomes a check, the check of a revoked token becomes a removal.*)
LEMMA HandlersKeepReach ==
    ASSUME TypeOK, RevokedParticipantIsReached,
           NEW h \in Handlers, Call(h) \/ Continue(h)
    PROVE  RevokedParticipantIsReached'
<1> USE DEF RevokedParticipantIsReached, WillBeRemoved, TypeOK, HandlerState, At, GoTo,
            Finish, Start, Idle, Revoked, livekit, webhooks, presence, revocation, scope
<1>1. ASSUME NEW m \in Hooks, Hook(h, m) PROVE RevokedParticipantIsReached'
  <2>1. CASE m = <<"joined", here>>
    <3>1. handler'[h].step = "check" /\ handler'[h].sid = here
      BY <1>1, <2>1 DEF Hook
    <3> QED BY <1>1, <3>1 DEF Hook
  <2>2. CASE m # <<"joined", here>>
    BY <1>1, <2>2 DEF Hook
  <2> QED BY <2>1, <2>2
<1>2. CASE JoinDirect(h)
  BY <1>2 DEF JoinDirect
<1>3. CASE RefreshPresence(h)
  BY <1>3 DEF RefreshPresence
<1>4. CASE LeaveDirect(h)
  BY <1>4 DEF LeaveDirect
<1>5. CASE FlagGet(h)
  BY <1>5 DEF FlagGet
<1>6. CASE ReadMembers(h)
  BY <1>6 DEF ReadMembers
<1>7. ASSUME NEW x \in Revokers, LeaveRevoked(h, x) PROVE RevokedParticipantIsReached'
  BY <1>7 DEF LeaveRevoked
<1>8. CASE CheckJoin(h)
  <2>1. CASE handler[h].sid = here
    BY <1>8, <2>1 DEF CheckJoin
  <2>2. CASE handler[h].sid # here
    BY <1>8, <2>2 DEF CheckJoin
  <2> QED BY <2>1, <2>2
<1>9. CASE Deny(h)
  BY <1>9 DEF Deny, RemoveParticipant, Here
<1>10. CASE JoinGet(h)
  BY <1>10 DEF JoinGet
<1>11. CASE JoinSet(h)
  BY <1>11 DEF JoinSet
<1>12. CASE JoinCreate(h)
  BY <1>12 DEF JoinCreate
<1>13. CASE LeaveGet(h)
  BY <1>13 DEF LeaveGet
<1>14. CASE LeaveDelete(h)
  BY <1>14 DEF LeaveDelete
<1>15. CASE FlagSet(h)
  BY <1>15 DEF FlagSet
<1>16. CASE ReadRecords(h)
  BY <1>16 DEF ReadRecords
<1>17. CASE CleanMember(h)
  BY <1>17 DEF CleanMember
<1> QED
  BY <1>1, <1>2, <1>3, <1>4, <1>5, <1>6, <1>7, <1>8, <1>9, <1>10, <1>11, <1>12, <1>13,
     <1>14, <1>15, <1>16, <1>17 DEF Call, Continue

(* A revocation is written before its rooms are listed, and the list finds *)
(* the participant by the token it is revoked for, or misses it.           *)
LEMMA RevocationsKeepReach ==
    ASSUME TypeOK, RevokedParticipantIsReached, Revocation
    PROVE  RevokedParticipantIsReached'
<1> USE DEF RevokedParticipantIsReached, WillBeRemoved, TypeOK, At, Revoked, Revokers, Tasks,
            livekit, webhooks, presence, scope
<1>1. ASSUME NEW x \in Sessions, RevokeSession(x) PROVE RevokedParticipantIsReached'
  BY <1>1 DEF RevokeSession
<1>2. CASE ReadClock
  BY <1>2 DEF ReadClock
<1>3. CASE WriteCutoff
  BY <1>3 DEF WriteCutoff
<1>4. ASSUME NEW x \in Revokers, ListRooms(x) PROVE RevokedParticipantIsReached'
  <2>1. here # None /\ (x = User \/ tokenOf[here].session = x) => <<x, "remove">> \in todo'
    BY <1>4 DEF ListRooms, Found, FromLiveKit
  <2> QED BY <1>4, <2>1 DEF ListRooms
<1>5. ASSUME NEW x \in Revokers, Remove(x) PROVE RevokedParticipantIsReached'
  BY <1>5 DEF Remove, RemoveParticipant
<1>6. ASSUME NEW x \in Revokers, RemoveFails(x) PROVE RevokedParticipantIsReached'
  BY <1>6 DEF RemoveFails, Here
<1>7. CASE CutoffFails
  BY <1>7 DEF CutoffFails
<1>8. ASSUME NEW x \in Revokers, ListFails(x) PROVE RevokedParticipantIsReached'
  <2>1. here # None /\ x \in {User, tokenOf[here].session}
           => <<x, "remove">> \in todo' \/ here \in missed'
    BY <1>8 DEF ListFails, FromLiveKit, Here
  <2>2. todo \ {<<x, "list">>} \subseteq todo' /\ missed \subseteq missed'
    BY <1>8 DEF ListFails
  <2>3. UNCHANGED <<livekit, webhooks, marked, cutoff, handler>>
    BY <1>8 DEF ListFails
  <2> QED BY <2>1, <2>2, <2>3
<1>9. ASSUME NEW x \in Sessions, RevokeSessionFails(x) PROVE RevokedParticipantIsReached'
  BY <1>9 DEF RevokeSessionFails, FromLiveKit, Here
<1> QED BY <1>1, <1>2, <1>3, <1>4, <1>5, <1>6, <1>7, <1>8, <1>9 DEF Revocation

(* Who connects brings a webhook; one that is lost, or a process that dies,*)
(* misses the participant it would have looked at or removed.              *)
LEMMA EnvironmentKeepsReach ==
    ASSUME TypeOK, RevokedParticipantIsReached, Environment
    PROVE  RevokedParticipantIsReached'
<1> USE DEF RevokedParticipantIsReached, WillBeRemoved, TypeOK, At, Revoked,
            livekit, webhooks, presence, revocation, scope
<1>1. ASSUME NEW s \in Sids, NEW x \in Sessions, NEW i \in 1..clock, Connect(s, x, i)
      PROVE  RevokedParticipantIsReached'
  BY <1>1 DEF Connect
<1>2. CASE Disconnect
  BY <1>2 DEF Disconnect, RemoveParticipant
<1>3. ASSUME NEW m \in Hooks, SendAgain(m) PROVE RevokedParticipantIsReached'
  BY <1>3 DEF SendAgain
<1>4. ASSUME NEW m \in Hooks, HookLost(m) PROVE RevokedParticipantIsReached'
  <2>1. CASE m = <<"joined", here>>
    <3>1. here \in missed'
      BY <1>4, <2>1 DEF HookLost
    <3> QED BY <1>4, <3>1 DEF HookLost
  <2>2. CASE m # <<"joined", here>>
    <3>1. <<"joined", here>> \in hooks => <<"joined", here>> \in hooks'
      BY <1>4, <2>2 DEF HookLost
    <3>2. missed \subseteq missed'
      BY <1>4 DEF HookLost
    <3> QED BY <1>4, <3>1, <3>2 DEF HookLost
  <2> QED BY <2>1, <2>2
<1>5. CASE Expire
  BY <1>5 DEF Expire
<1>6. ASSUME NEW H \in SUBSET Handlers, NEW R \in SUBSET Revokers, Dies(H, R)
      PROVE  RevokedParticipantIsReached'
  <2> SUFFICES ASSUME here # None, Revoked(tokenOf[here]), here \notin missed'
               PROVE  WillBeRemoved'
    BY <1>6 DEF Dies
  <2>1. /\ missed \subseteq missed'
        /\ \A h \in H : ~(At(h, "check") /\ handler[h].sid = here)
    BY <1>6 DEF Dies
  <2>2. (\A h \in H : ~At(h, "kick")) /\ (\A x \in R : ~Reaching(x))
    BY <1>6 DEF Dies, Here
  <2>3. /\ \A h \in Handlers \ H : handler'[h] = handler[h]
        /\ \A t \in todo : t[1] \notin R => t \in todo'
        /\ UNCHANGED <<livekit, webhooks, marked, cutoff>>
    BY <1>6 DEF Dies
  <2>4. \A x \in R : <<x, "remove">> \notin todo
    BY <2>2 DEF Reaching
  <2>5. \A x \in R : <<x, "list">> \in todo => x \notin {User, tokenOf[here].session}
    BY <2>2 DEF Reaching, FromLiveKit
  <2>6. WillBeRemoved
    BY <2>1
  <2>7. CASE <<"joined", here>> \in hooks
    BY <2>3, <2>7
  <2>8. CASE \E h \in Handlers :
               (At(h, "check") /\ handler[h].sid = here) \/ At(h, "kick")
    BY <2>1, <2>2, <2>3, <2>8
  <2>9. CASE \E x \in Revokers : <<x, "remove">> \in todo
    BY <2>3, <2>4, <2>9
  <2>10. CASE <<tokenOf[here].session, "list">> \in todo \/ <<User, "list">> \in todo
    BY <2>3, <2>5, <2>10
  <2> QED BY <2>6, <2>7, <2>8, <2>9, <2>10
<1> QED BY <1>1, <1>2, <1>3, <1>4, <1>5, <1>6 DEF Environment

(* For every number of handlers, participants and sessions: whenever a     *)
(* participant with a revoked token is in the room, its join webhook, its  *)
(* check or a revocation is still on its way to remove it, unless this     *)
(* participant was missed: its join webhook lost, its check failed or dead,*)
(* or a removal or a search for it failed or died while it was in the room *)
(* (session-revocation.handler.ts:158-166, "in case LiveKit can't be listed*)
(* right now", "Cutoff first, so a rejoin racing the removal below is      *)
(* caught").                                                               *)
THEOREM RevokedIsReached == Spec => []RevokedParticipantIsReached
<1> DEFINE Inv == TypeOK /\ RevokedParticipantIsReached
<1>1. Init => Inv
  BY InitType DEF Init, RevokedParticipantIsReached
<1>2. Inv /\ [Next]_vars => Inv'
  <2> SUFFICES ASSUME TypeOK, RevokedParticipantIsReached, [Next]_vars PROVE Inv'
    OBVIOUS
  <2>1. TypeOK'
    BY TypeStep
  <2>2. CASE UNCHANGED vars
    BY <2>1, <2>2 DEF vars, RevokedParticipantIsReached, WillBeRemoved, Revoked, At,
       livekit, webhooks, presence, revocation, scope
  <2>3. CASE Next
    BY <2>1, <2>3, HandlersKeepReach, RevocationsKeepReach, EnvironmentKeepsReach DEF Next
  <2> QED BY <2>2, <2>3
<1> QED BY <1>1, <1>2, PTL DEF Spec
=============================================================================

------------------------- MODULE SocketRooms_proofs -------------------------
(***************************************************************************)
(* What holds of the rooms of a socket (RoomSubscriptions) and of its      *)
(* session (SocketSessions) for every value of their constants.  Modules   *)
(* without common variables: each part has its own inductive invariant,    *)
(* RoomsInv and SocketInv; MessageCache's Inv joins them where the three   *)
(* are checked together.                                                   *)
(***************************************************************************)
EXTENDS MCSocketRooms, ChannelPermissions_proofs, MessageCache_proofs

-----------------------------------------------------------------------------
(* RoomSubscriptions.  A handler that no commit has overtaken knows what   *)
(* it relies on (Informed); one that was overtaken says so when it leaves  *)
(* a room wrong (Settles); and whoever commits leaves a step pending that  *)
(* makes good what it changed (CommitStep).                                *)

(* With overwrites the API accepts, membership and the channel's list      *)
(* decide alone.                                                           *)
Sees == member /\ (private => listed)

Joining == {"general", "onCreated", "createdJoin"}
Leaving == {"onRemoved"}
ChannelJoining == Syncing \cup {"onListed"}
ChannelLeaving == Syncing \cup {"onUnlisted"}

Pending(S) == \E h \in Handlers : step[h] \in S

(* A handler that no change has overtaken knows what it relies on.         *)
Informed(h) ==
    /\ step[h] \in {"communityRoom", "general", "onCreated"} => member
    /\ step[h] = "channelRoom" => ("visible" \in seen[h] <=> Sees)
    /\ step[h] = "createdJoin" => member /\ ("visible" \in seen[h] <=> Sees)
    /\ step[h] = "onRemoved" => ~member
    /\ step[h] = "addChecked" => member /\ private
    /\ step[h] = "onListed" => Sees
    /\ step[h] = "removeChecked" => private
    /\ step[h] = "onUnlisted" => ~Sees
    /\ step[h] \in {"toPrivate", "toPublic"} => ("private" \in seen[h] <=> private)
    /\ step[h] = "everyone" => ~private
    /\ step[h] \in {"viewers", "apply"} => ("member" \in seen[h] <=> member)
    /\ step[h] = "apply" => ("visible" \in seen[h] <=> Sees)

(* What a handler relies on whatever happened: a SUBSCRIBE_ALL dies with   *)
(* its socket, and a plan has not seen viewers before it asks for them.    *)
Placed(h) ==
    /\ step[h] \in Subscribing => rooms # {}
    /\ step[h] = "viewers" => "visible" \notin seen[h]

(* The socket is in a room it may not see.  That a channel's room is being *)
(* synced excuses the channel for a member only: a sync for everyone takes *)
(* nobody out.                                                             *)
CommunityRight ==
    "community" \in rooms /\ ~member => "community" \in overtaken \/ Pending(Leaving)
ChannelOfMember ==
    "channel" \in rooms /\ ~member => "channel" \in overtaken \/ Pending(Leaving)
ChannelRight ==
    "channel" \in rooms /\ ~Sees =>
        "channel" \in overtaken \/ Pending(Leaving) \/ Pending(ChannelLeaving)

(* The socket misses a room: from the moment a SUBSCRIBE_ALL has joined    *)
(* the community, or has found that the channel is not for this user.      *)
InCommunity == subscribed \/ Pending({"visibleIds", "channelRoom"})
Asked == subscribed \/ \E h \in Handlers : step[h] = "channelRoom" /\ "visible" \notin seen[h]

CommunityJoined ==
    InCommunity /\ member /\ "community" \notin rooms =>
        "community" \in overtaken \/ Pending(Joining)
ChannelJoined ==
    Asked /\ Sees /\ "channel" \notin rooms =>
        "channel" \in overtaken \/ Pending(Joining) \/ Pending(ChannelJoining)

RoomsInv ==
    /\ TypeOK
    /\ \A h \in Handlers : Placed(h)
    /\ \A h \in Handlers : h \notin outdated => Informed(h)
    /\ CommunityRight /\ ChannelOfMember /\ ChannelRight
    /\ CommunityJoined /\ ChannelJoined

LEMMA SeesIsCanView == TypeOK => (CanView <=> Sees) /\ May = {r \in {"community", "channel"} :
                                    IF r = "community" THEN member ELSE Sees}
<1> SUFFICES ASSUME TypeOK PROVE CanView <=> Sees
  BY DEF May
<1>1. Input \in Inputs
  BY ChoiceAssumption DEF TypeOK, Input, Inputs
<1>2. Valid(Input.overwrites)
  BY ChoiceAssumption DEF TypeOK, Input, Valid
<1>3. CanView <=> PassesViewGate(Input)
  BY <1>1, <1>2, ValidOverwritesHideNothing DEF CanView
<1>4. QED BY <1>3 DEF PassesViewGate, Input, Sees

LEMMA RoomsInitial == Init => RoomsInv
<1> SUFFICES ASSUME Init PROVE RoomsInv
  OBVIOUS
<1>1. /\ step \in [Handlers -> Steps]
      /\ seen \in [Handlers -> SUBSET {"member", "visible", "private"}]
  BY DEF Init, Steps
<1>2. 0 \in 0..MaxOps
  BY BoundAssumption
<1>3. TypeOK
  BY <1>1, <1>2 DEF Init, TypeOK
<1>4. \A h \in Handlers : Placed(h) /\ Informed(h)
  BY DEF Init, Placed, Informed, Subscribing
<1>5. /\ CommunityRight /\ ChannelOfMember /\ ChannelRight /\ CommunityJoined /\ ChannelJoined
  BY DEF Init, CommunityRight, ChannelOfMember, ChannelRight, CommunityJoined, ChannelJoined,
         InCommunity, Asked, Pending
<1>6. QED BY <1>3, <1>4, <1>5 DEF RoomsInv

(* Handler h goes on to step t; the others stay where they are, and a      *)
(* change of the database overtakes those on their way.                    *)
OnlyStep(h, t) == step' = [step EXCEPT ![h] = t]
OthersRead(h) == \A k \in Handlers \ {h} : seen'[k] = seen[k]
Overtaking(h) ==
    \A k \in Handlers \ {h} :
        /\ k \in outdated => k \in outdated'
        /\ \/ UNCHANGED <<member, listed, private>>
           \/ step[k] = "idle" \/ k \in outdated'

LEMMA OthersInformed ==
    ASSUME RoomsInv, NEW h \in Handlers, NEW t \in Steps, OnlyStep(h, t), OthersRead(h),
           Overtaking(h), rooms # {} => rooms' # {},
           NEW k \in Handlers \ {h}
    PROVE  Placed(k)' /\ (k \notin outdated' => Informed(k)')
<1>1. step'[k] = step[k] /\ seen'[k] = seen[k] /\ Placed(k) /\ (k \notin outdated => Informed(k))
  BY DEF OnlyStep, OthersRead, RoomsInv, TypeOK
<1>2. Placed(k)'
  BY <1>1 DEF Placed
<1>3. ASSUME k \notin outdated', step[k] # "idle" PROVE Informed(k)'
  <2>1. UNCHANGED <<member, listed, private>> /\ k \notin outdated
    BY <1>3 DEF Overtaking
  <2>2. QED BY <1>1, <2>1 DEF Informed, Sees
<1>4. ASSUME step[k] = "idle" PROVE Informed(k)'
  BY <1>1, <1>4 DEF Informed
<1>5. QED BY <1>2, <1>3, <1>4

(* What is pending after h has gone on to t.                               *)
LEMMA PendingEffect ==
    ASSUME TypeOK, NEW h \in Handlers, NEW t \in Steps, OnlyStep(h, t), NEW S
    PROVE  /\ t \in S => Pending(S)'
           /\ Pending(S) => Pending(S)' \/ step[h] \in S
           /\ Pending(S)' => Pending(S) \/ t \in S
BY DEF Pending, OnlyStep, TypeOK

(* The steps that only read: whoever is pending stays so.                  *)
LEMMA ReadStep ==
    ASSUME RoomsInv, NEW h \in Handlers, NEW t \in Steps, OnlyStep(h, t), OthersRead(h),
           UNCHANGED <<dbVars, rooms, overtaken>>, TypeOK',
           \A k \in Handlers \ {h} : k \in outdated => k \in outdated',
           Placed(h)', h \notin outdated' => Informed(h)',
           \A S \in {Leaving, Joining, ChannelJoining, ChannelLeaving} : step[h] \in S => t \in S,
           InCommunity' => InCommunity \/ ~member \/ "community" \in rooms,
           Asked' => Asked \/ ~Sees
    PROVE  RoomsInv'
<1>1. UNCHANGED <<member, listed, private>> /\ Sees' = Sees
  BY DEF dbVars, Sees
<1>2. \A k \in Handlers : Placed(k)' /\ (k \notin outdated' => Informed(k)')
  BY <1>1, OthersInformed DEF Overtaking
<1>3. /\ Pending(Leaving) => Pending(Leaving)'
      /\ Pending(Joining) => Pending(Joining)'
      /\ Pending(ChannelJoining) => Pending(ChannelJoining)'
      /\ Pending(ChannelLeaving) => Pending(ChannelLeaving)'
  BY PendingEffect DEF RoomsInv
<1>4. CommunityRight' /\ ChannelOfMember' /\ ChannelRight'
  BY <1>1, <1>3 DEF RoomsInv, CommunityRight, ChannelOfMember, ChannelRight
<1>5. CommunityJoined' /\ ChannelJoined'
  BY <1>1, <1>3 DEF RoomsInv, CommunityJoined, ChannelJoined
<1>6. QED BY <1>2, <1>4, <1>5 DEF RoomsInv

(* A request begins, or a handler goes on.                                 *)
LEMMA BeginEffect ==
    ASSUME TypeOK, NEW h \in Handlers, NEW t \in Steps, Begin(h, t)
    PROVE  /\ OnlyStep(h, t) /\ step[h] = "idle" /\ ops' \in 0..MaxOps
           /\ step' \in [Handlers -> Steps] /\ step'[h] = t
<1>1. ops \in Nat /\ MaxOps \in Nat /\ ops < MaxOps /\ ops' = ops + 1
  BY BoundAssumption DEF TypeOK, Begin
<1>2. ops' \in 0..MaxOps
  BY <1>1
<1>3. QED BY <1>2 DEF Begin, OnlyStep, TypeOK

LEMMA GoEffect ==
    ASSUME TypeOK, NEW h \in Handlers, NEW s, NEW t \in Steps, Go(h, s, t)
    PROVE  /\ OnlyStep(h, t) /\ step[h] = s
           /\ step' \in [Handlers -> Steps] /\ step'[h] = t
BY DEF Go, OnlyStep, TypeOK

(* What h has seen is X now, or is as before.                              *)
LEMMA SeenEffect ==
    ASSUME TypeOK, NEW h \in Handlers, NEW X \in SUBSET {"member", "visible", "private"},
           seen' = [seen EXCEPT ![h] = X]
    PROVE  /\ seen' \in [Handlers -> SUBSET {"member", "visible", "private"}]
           /\ seen'[h] = X /\ OthersRead(h)
BY DEF TypeOK, OthersRead

(* Where the steps are.                                                    *)
SubscribeSteps == {"idle", "userRoom", "memberships", "communityRoom", "visibleIds", "channelRoom"}
QuietSteps == {"idle", "addChecked", "removeChecked", "toPrivate", "toPublic"}

LEMMA StepSets ==
    /\ SubscribeSteps \subseteq Steps /\ QuietSteps \subseteq Steps
    /\ Leaving \cup Joining \cup ChannelJoining \cup ChannelLeaving \subseteq Steps
    /\ "createdJoin" \in Steps
    /\ \A S \in {Leaving, Joining, ChannelJoining, ChannelLeaving} :
          S \cap (SubscribeSteps \cup QuietSteps) = {}
BY DEF SubscribeSteps, QuietSteps, Steps, Leaving, Joining, ChannelJoining, ChannelLeaving, Syncing

LEMMA SubscribeReads ==
    ASSUME RoomsInv, NEW h \in Handlers,
           SubscribeAll(h) \/ JoinUserRoom(h) \/ ReadMemberships(h) \/ ReadVisible(h)
    PROVE  RoomsInv'
<1>1. /\ TypeOK /\ Placed(h) /\ (h \notin outdated => Informed(h))
  BY DEF RoomsInv
<1>2. ASSUME SubscribeAll(h) PROVE RoomsInv'
  <2>1. /\ OnlyStep(h, "userRoom") /\ step[h] = "idle" /\ ops' \in 0..MaxOps
        /\ step' \in [Handlers -> Steps] /\ step'[h] = "userRoom" /\ OthersRead(h)
        /\ seen' \in [Handlers -> SUBSET {"member", "visible", "private"}]
        /\ outdated' = outdated \ {h} /\ rooms # {}
        /\ UNCHANGED <<dbVars, rooms, subscribed, overtaken>>
        /\ UNCHANGED <<member, listed, private, overwrites>>
    BY <1>1, <1>2, StepSets, BeginEffect, SeenEffect DEF SubscribeAll, Fresh, SubscribeSteps, dbVars
  <2>2. TypeOK'
    BY <1>1, <2>1 DEF TypeOK
  <2>3. Placed(h)' /\ Informed(h)'
    BY <2>1 DEF Placed, Informed
  <2>4. (InCommunity' => InCommunity) /\ (Asked' => Asked)
    BY <2>1 DEF InCommunity, Asked, Pending, OnlyStep, OthersRead
  <2>5. QED BY <2>1, <2>2, <2>3, <2>4, StepSets, ReadStep DEF SubscribeSteps
<1>3. ASSUME JoinUserRoom(h) PROVE RoomsInv'
  <2>1. /\ OnlyStep(h, "memberships") /\ step[h] = "userRoom"
        /\ step' \in [Handlers -> Steps] /\ step'[h] = "memberships" /\ OthersRead(h)
        /\ rooms' = rooms \cup {"user"}
        /\ UNCHANGED <<dbVars, subscribed, seen, ops, outdated, overtaken>>
        /\ UNCHANGED <<member, listed, private, overwrites>>
    BY <1>1, <1>3, StepSets, GoEffect DEF JoinUserRoom, SubscribeSteps, dbVars, OthersRead
  <2>2. rooms' = rooms
    BY <1>1, <2>1 DEF Placed, Subscribing, TypeOK
  <2>3. TypeOK'
    BY <1>1, <2>1, <2>2 DEF TypeOK
  <2>4. Placed(h)' /\ Informed(h)'
    BY <1>1, <2>1, <2>2 DEF Placed, Informed, Subscribing
  <2>5. (InCommunity' => InCommunity) /\ (Asked' => Asked)
    BY <2>1 DEF InCommunity, Asked, Pending, OnlyStep
  <2>6. QED BY <2>1, <2>2, <2>3, <2>4, <2>5, StepSets, ReadStep DEF SubscribeSteps
<1>4. ASSUME ReadMemberships(h) PROVE RoomsInv'
  <2> DEFINE t == IF member THEN "communityRoom" ELSE "idle"
  <2>1. t \in Steps /\ t \in {"communityRoom", "idle"} /\ (t = "communityRoom" <=> member)
    BY DEF Steps
  <2>2. Go(h, "memberships", t) /\ outdated' = outdated \ {h}
        /\ subscribed' = (subscribed \/ ~member)
        /\ UNCHANGED <<dbVars, rooms, seen, ops, overtaken>>
        /\ UNCHANGED <<member, listed, private, overwrites>>
    BY <1>4 DEF ReadMemberships, Fresh, dbVars
  <2> HIDE DEF t
  <2>3. /\ OnlyStep(h, t) /\ step[h] = "memberships"
        /\ step' \in [Handlers -> Steps] /\ step'[h] = t
    BY <1>1, <2>1, <2>2, GoEffect
  <2>4. rooms # {} /\ OthersRead(h)
    BY <1>1, <2>2, <2>3 DEF Placed, Subscribing, OthersRead
  <2>5. TypeOK'
    BY <1>1, <2>2, <2>3, <2>4 DEF TypeOK
  <2>6. Placed(h)' /\ Informed(h)'
    BY <2>1, <2>2, <2>3, <2>4 DEF Placed, Informed
  <2>7. /\ InCommunity' => InCommunity \/ ~member
        /\ Asked' => Asked \/ ~Sees
    BY <2>1, <2>2, <2>3 DEF InCommunity, Asked, Pending, OnlyStep, Sees
  <2>8. QED BY <2>1, <2>2, <2>3, <2>4, <2>5, <2>6, <2>7, StepSets, ReadStep DEF SubscribeSteps
<1>5. ASSUME ReadVisible(h) PROVE RoomsInv'
  <2> DEFINE X == IF CanView THEN {"visible"} ELSE {}
  <2>1. /\ OnlyStep(h, "channelRoom") /\ step[h] = "visibleIds"
        /\ step' \in [Handlers -> Steps] /\ step'[h] = "channelRoom"
    BY <1>1, <1>5, StepSets, GoEffect DEF ReadVisible, SubscribeSteps
  <2>2. /\ seen' \in [Handlers -> SUBSET {"member", "visible", "private"}]
        /\ seen'[h] = X /\ OthersRead(h)
    BY <1>1, <1>5, SeenEffect DEF ReadVisible
  <2>3. /\ outdated' = outdated \ {h}
        /\ UNCHANGED <<dbVars, rooms, subscribed, ops, overtaken>>
        /\ UNCHANGED <<member, listed, private, overwrites>>
    BY <1>5 DEF ReadVisible, Fresh, dbVars
  <2>4. "visible" \in seen'[h] <=> Sees
    BY <1>1, <2>2, SeesIsCanView
  <2>5. TypeOK'
    BY <1>1, <2>1, <2>2, <2>3 DEF TypeOK
  <2>6. Placed(h)' /\ Informed(h)'
    BY <1>1, <2>1, <2>3, <2>4 DEF Placed, Informed, Subscribing, Sees
  <2>7. /\ InCommunity' => InCommunity
        /\ Asked' => Asked \/ ~Sees
    BY <2>1, <2>2, <2>3, <2>4 DEF InCommunity, Asked, Pending, OnlyStep, OthersRead
  <2>8. QED BY <2>1, <2>2, <2>3, <2>5, <2>6, <2>7, StepSets, ReadStep DEF SubscribeSteps
<1>6. QED BY <1>2, <1>3, <1>4, <1>5

LEMMA ChecksRead ==
    ASSUME RoomsInv, NEW h \in Handlers,
           CheckAdd(h) \/ CheckRemove(h) \/ ReadBefore(h) \/ ReadForMember(h)
    PROVE  RoomsInv'
<1>1. /\ TypeOK /\ Placed(h) /\ (h \notin outdated => Informed(h))
  BY DEF RoomsInv
<1>2. ASSUME NEW t \in {"addChecked", "removeChecked"}, Begin(h, t), Fresh(h),
             t = "addChecked" => member /\ private, t = "removeChecked" => private,
             UNCHANGED <<dbVars, rooms, subscribed, seen, overtaken>>
      PROVE  RoomsInv'
  <2>1. /\ OnlyStep(h, t) /\ step[h] = "idle" /\ ops' \in 0..MaxOps
        /\ step' \in [Handlers -> Steps] /\ step'[h] = t /\ OthersRead(h)
        /\ outdated' = outdated \ {h} /\ UNCHANGED <<member, listed, private, overwrites>>
    BY <1>1, <1>2, StepSets, BeginEffect DEF Fresh, QuietSteps, dbVars, OthersRead
  <2>2. TypeOK'
    BY <1>1, <1>2, <2>1 DEF TypeOK
  <2>3. Placed(h)' /\ Informed(h)'
    BY <1>2, <2>1 DEF Placed, Informed, Subscribing
  <2>4. (InCommunity' => InCommunity) /\ (Asked' => Asked)
    BY <1>2, <2>1 DEF InCommunity, Asked, Pending, OnlyStep
  <2>5. QED BY <1>2, <2>1, <2>2, <2>3, <2>4, StepSets, ReadStep DEF QuietSteps
<1>3. ASSUME NEW t \in {"toPrivate", "toPublic"}, Begin(h, t), ReadBefore(h) PROVE RoomsInv'
  <2> DEFINE X == IF private THEN {"private"} ELSE {}
  <2>1. /\ OnlyStep(h, t) /\ step[h] = "idle" /\ ops' \in 0..MaxOps
        /\ step' \in [Handlers -> Steps] /\ step'[h] = t
    BY <1>1, <1>3, StepSets, BeginEffect DEF QuietSteps
  <2>2. /\ seen' \in [Handlers -> SUBSET {"member", "visible", "private"}]
        /\ seen'[h] = X /\ OthersRead(h)
    BY <1>1, <1>3, SeenEffect DEF ReadBefore
  <2>3. /\ outdated' = outdated \ {h} /\ UNCHANGED <<dbVars, rooms, subscribed, overtaken>>
        /\ UNCHANGED <<member, listed, private, overwrites>>
    BY <1>3 DEF ReadBefore, Fresh, dbVars
  <2>4. TypeOK'
    BY <1>1, <2>1, <2>2, <2>3 DEF TypeOK
  <2>5. Placed(h)' /\ Informed(h)'
    BY <2>1, <2>2, <2>3 DEF Placed, Informed, Subscribing
  <2>6. (InCommunity' => InCommunity) /\ (Asked' => Asked)
    BY <2>1, <2>2, <2>3 DEF InCommunity, Asked, Pending, OnlyStep, OthersRead
  <2>7. QED BY <2>1, <2>2, <2>3, <2>4, <2>5, <2>6, StepSets, ReadStep DEF QuietSteps
<1>4. ASSUME ReadForMember(h) PROVE RoomsInv'
  <2> DEFINE X == IF CanView THEN {"visible"} ELSE {}
  <2>1. /\ OnlyStep(h, "createdJoin") /\ step[h] = "onCreated"
        /\ step' \in [Handlers -> Steps] /\ step'[h] = "createdJoin"
    BY <1>1, <1>4, StepSets, GoEffect DEF ReadForMember
  <2>2. /\ seen' \in [Handlers -> SUBSET {"member", "visible", "private"}]
        /\ seen'[h] = X /\ OthersRead(h)
    BY <1>1, <1>4, SeenEffect DEF ReadForMember
  <2>3. /\ UNCHANGED <<dbVars, rooms, subscribed, ops, outdated, overtaken>>
        /\ UNCHANGED <<member, listed, private, overwrites>>
    BY <1>4 DEF ReadForMember, dbVars
  <2>4. "visible" \in seen'[h] <=> Sees
    BY <1>1, <2>2, SeesIsCanView
  <2>5. TypeOK'
    BY <1>1, <2>1, <2>2, <2>3 DEF TypeOK
  <2>6. Placed(h)' /\ (h \notin outdated' => Informed(h)')
    BY <1>1, <2>1, <2>3, <2>4 DEF Placed, Informed, Subscribing, Sees
  <2>7. (InCommunity' => InCommunity) /\ (Asked' => Asked)
    BY <2>1, <2>2, <2>3 DEF InCommunity, Asked, Pending, OnlyStep, OthersRead
  <2>8. \A S \in {Leaving, Joining, ChannelJoining, ChannelLeaving} :
           step[h] \in S => "createdJoin" \in S
    BY <2>1 DEF Leaving, Joining, ChannelJoining, ChannelLeaving, Syncing
  <2>9. QED BY <2>1, <2>2, <2>3, <2>5, <2>6, <2>7, <2>8, StepSets, ReadStep
<1>5. QED BY <1>2, <1>3, <1>4 DEF CheckAdd, CheckRemove, ReadBefore

LEMMA PlanStep ==
    ASSUME RoomsInv, NEW h \in Handlers,
           PlanChannel(h) \/ PlanMembers(h) \/ PlanViewers(h)
    PROVE  RoomsInv'
<1>1. /\ TypeOK /\ Placed(h) /\ (h \notin outdated => Informed(h))
  BY DEF RoomsInv
<1>2. /\ Syncing \subseteq Steps /\ Syncing \cap {"visibleIds", "channelRoom"} = {}
      /\ \A s, t \in Syncing : \A S \in {Leaving, Joining, ChannelJoining, ChannelLeaving} :
            s \in S => t \in S
  BY DEF Syncing, Steps, Leaving, Joining, ChannelJoining, ChannelLeaving
<1>3. ASSUME NEW s \in Syncing, NEW t \in Syncing, Go(h, s, t),
             NEW X \in SUBSET {"member", "visible", "private"}, seen' = [seen EXCEPT ![h] = X],
             outdated' = outdated \/ outdated' = outdated \ {h},
             UNCHANGED <<dbVars, rooms, subscribed, ops, overtaken>>,
             t = "viewers" => "visible" \notin X,
             h \notin outdated' => /\ t = "everyone" => ~private
                                   /\ t \in {"viewers", "apply"} => ("member" \in X <=> member)
                                   /\ t = "apply" => ("visible" \in X <=> Sees)
      PROVE  RoomsInv'
  <2>1. /\ OnlyStep(h, t) /\ step[h] = s /\ step' \in [Handlers -> Steps] /\ step'[h] = t
        /\ seen' \in [Handlers -> SUBSET {"member", "visible", "private"}]
        /\ seen'[h] = X /\ OthersRead(h) /\ UNCHANGED <<member, listed, private, overwrites>>
    BY <1>1, <1>2, <1>3, GoEffect, SeenEffect DEF dbVars
  <2>2. TypeOK'
    BY <1>1, <1>3, <2>1 DEF TypeOK
  <2>3. Placed(h)' /\ (h \notin outdated' => Informed(h)')
    <3>1. t \in {"plan", "everyone", "members", "viewers", "apply"} /\ Sees' = Sees
      BY <2>1 DEF Syncing, Sees
    <3>2. Placed(h)'
      BY <1>3, <2>1, <3>1 DEF Placed, Subscribing
    <3>3. ASSUME h \notin outdated' PROVE Informed(h)'
      BY <1>3, <2>1, <3>1, <3>3 DEF Informed
    <3>4. QED BY <3>2, <3>3
  <2>4. (InCommunity' => InCommunity) /\ (Asked' => Asked)
    BY <1>2, <1>3, <2>1 DEF InCommunity, Asked, Pending, OnlyStep, OthersRead
  <2>5. \A S \in {Leaving, Joining, ChannelJoining, ChannelLeaving} : step[h] \in S => t \in S
    BY <1>2, <2>1
  <2>6. QED BY <1>2, <1>3, <2>1, <2>2, <2>3, <2>4, <2>5, ReadStep
<1>4. ASSUME PlanChannel(h) PROVE RoomsInv'
  <2> DEFINE t == IF IsVisibleToWholeCommunity(private, overwrites) THEN "everyone" ELSE "members"
  <2>1. /\ t \in Syncing /\ t # "viewers" /\ t # "apply" /\ (t = "everyone" => ~private)
        /\ "plan" \in Syncing
    BY DEF Syncing, IsVisibleToWholeCommunity
  <2>2. /\ Go(h, "plan", t) /\ seen' = [seen EXCEPT ![h] = {}] /\ outdated' = outdated \ {h}
        /\ UNCHANGED <<dbVars, rooms, subscribed, ops, overtaken>>
    BY <1>4 DEF PlanChannel, Fresh
  <2> HIDE DEF t
  <2>3. QED BY <1>3, <2>1, <2>2
<1>5. ASSUME PlanMembers(h) PROVE RoomsInv'
  <2> DEFINE X == IF member THEN {"member"} ELSE {}
  <2>1. /\ Go(h, "members", "viewers") /\ seen' = [seen EXCEPT ![h] = X]
        /\ UNCHANGED <<dbVars, rooms, subscribed, ops, outdated, overtaken>>
    BY <1>5 DEF PlanMembers
  <2>2. /\ X \in SUBSET {"member", "visible", "private"} /\ ("member" \in X <=> member)
        /\ "visible" \notin X /\ "members" \in Syncing /\ "viewers" \in Syncing
    BY DEF Syncing
  <2> HIDE DEF X
  <2>3. QED BY <1>3, <2>1, <2>2
<1>6. ASSUME PlanViewers(h) PROVE RoomsInv'
  <2> DEFINE X == IF CanView THEN seen[h] \cup {"visible"} ELSE seen[h]
  <2>1. /\ Go(h, "viewers", "apply") /\ seen' = [seen EXCEPT ![h] = X]
        /\ UNCHANGED <<dbVars, rooms, subscribed, ops, outdated, overtaken>>
    BY <1>1, <1>6 DEF PlanViewers, TypeOK
  <2>2. step[h] = "viewers"
    BY <2>1 DEF Go
  <2>3. /\ X \in SUBSET {"member", "visible", "private"}
        /\ ("member" \in X <=> "member" \in seen[h])
        /\ "apply" \in Syncing /\ "viewers" \in Syncing
    BY <1>1 DEF Syncing, TypeOK
  <2>4. "visible" \in X <=> Sees
    BY <1>1, <2>2, SeesIsCanView DEF Placed
  <2>5. h \notin outdated => ("member" \in X <=> member)
    BY <1>1, <2>2, <2>3 DEF Informed
  <2> HIDE DEF X
  <2>6. QED BY <1>3, <2>1, <2>3, <2>4, <2>5
<1>7. QED BY <1>4, <1>5, <1>6

(* A handler that commits overtakes the others, and leaves a step pending  *)
(* that makes good what it has changed, if it has not itself been          *)
(* overtaken.                                                              *)
LEMMA CommitStep ==
    ASSUME RoomsInv, NEW h \in Handlers, NEW t \in Steps, OnlyStep(h, t), TypeOK',
           t \notin {"visibleIds", "channelRoom"},
           UNCHANGED <<rooms, subscribed, seen>>, Overtaking(h),
           Placed(h)', h \notin outdated' => Informed(h)',
           overtaken \subseteq overtaken',
           \A S \in {Leaving, Joining, ChannelJoining, ChannelLeaving} : step[h] \in S => t \in S,
           member' # member => t \in IF member' THEN Joining ELSE Leaving,
           Sees' /\ ~Sees => \/ t \in Joining \cup ChannelJoining
                             \/ "channel" \in overtaken' \/ "channel" \in rooms,
           Sees /\ ~Sees' => \/ t \in Leaving \/ (member' /\ t \in ChannelLeaving)
                             \/ "channel" \in overtaken' \/ "channel" \notin rooms
    PROVE  RoomsInv'
<1>1. /\ member \in BOOLEAN /\ member' \in BOOLEAN /\ OthersRead(h) /\ TypeOK
  BY DEF RoomsInv, TypeOK, OthersRead
<1>2. \A k \in Handlers : Placed(k)' /\ (k \notin outdated' => Informed(k)')
  BY <1>1, OthersInformed
<1>3. /\ Pending(Leaving) => Pending(Leaving)'
      /\ Pending(Joining) => Pending(Joining)'
      /\ Pending(ChannelJoining) => Pending(ChannelJoining)'
      /\ Pending(ChannelLeaving) => Pending(ChannelLeaving)'
      /\ (t \in Leaving => Pending(Leaving)') /\ (t \in Joining => Pending(Joining)')
      /\ t \in ChannelJoining => Pending(ChannelJoining)'
      /\ t \in ChannelLeaving => Pending(ChannelLeaving)'
  BY <1>1, PendingEffect
<1>4. (InCommunity' => InCommunity) /\ (Asked' => Asked)
  BY <1>1 DEF InCommunity, Asked, Pending, OnlyStep, TypeOK
<1>5. CommunityRight' /\ ChannelOfMember'
  BY <1>1, <1>3 DEF RoomsInv, CommunityRight, ChannelOfMember
<1>6. ChannelRight'
  BY <1>3 DEF RoomsInv, ChannelRight
<1>7. CommunityJoined'
  BY <1>1, <1>3, <1>4 DEF RoomsInv, CommunityJoined
<1>8. ChannelJoined'
  BY <1>3, <1>4 DEF RoomsInv, ChannelJoined
<1>9. QED BY <1>2, <1>5, <1>6, <1>7, <1>8 DEF RoomsInv

LEMMA CommitOvertakes ==
    ASSUME TypeOK, NEW h \in Handlers, Commit(h) \/ CommitFirst(h)
    PROVE  /\ \A k \in Handlers \ {h} : (k \in outdated => k \in outdated')
                                       /\ (step[k] = "idle" \/ k \in outdated')
           /\ outdated' \subseteq Handlers
           /\ Commit(h) => (h \in outdated' <=> h \in outdated)
           /\ CommitFirst(h) => h \notin outdated'
BY DEF Commit, CommitFirst, OnTheirWay, TypeOK

LEMMA MembershipCommits ==
    ASSUME RoomsInv, NEW h \in Handlers,
           CreateMembership(h) \/ AddMemberToGeneralChannel(h) \/ RemoveMembership(h)
    PROVE  RoomsInv'
<1>1. /\ TypeOK /\ Placed(h) /\ (h \notin outdated => Informed(h))
      /\ member \in BOOLEAN /\ listed \in BOOLEAN /\ private \in BOOLEAN
  BY DEF RoomsInv, TypeOK
<1>2. /\ "general" \in Steps /\ "onCreated" \in Steps /\ "onRemoved" \in Steps
      /\ "general" \in Joining /\ "onCreated" \in Joining /\ "onRemoved" \in Leaving
      /\ \A S \in {Leaving, Joining, ChannelJoining, ChannelLeaving} :
            "idle" \notin S /\ ("general" \in S => "onCreated" \in S)
  BY DEF Steps, Leaving, Joining, ChannelJoining, ChannelLeaving, Syncing
<1>3. ASSUME CreateMembership(h) PROVE RoomsInv'
  <2>1. /\ OnlyStep(h, "general") /\ step[h] = "idle" /\ ops' \in 0..MaxOps
        /\ step' \in [Handlers -> Steps] /\ step'[h] = "general"
    BY <1>1, <1>2, <1>3, BeginEffect DEF CreateMembership
  <2>2. /\ ~member /\ CommitFirst(h) /\ member' = TRUE
        /\ UNCHANGED <<listed, private, overwrites, rooms, subscribed, seen, overtaken>>
    BY <1>3 DEF CreateMembership
  <2>3. Overtaking(h) /\ outdated' \subseteq Handlers
    BY <1>1, <2>2, CommitOvertakes DEF Overtaking
  <2>4. TypeOK'
    BY <1>1, <2>1, <2>2, <2>3 DEF TypeOK
  <2>5. Placed(h)' /\ Informed(h)'
    BY <2>1, <2>2 DEF Placed, Informed, Subscribing
  <2>6. QED BY <1>2, <2>1, <2>2, <2>3, <2>4, <2>5, CommitStep DEF Sees
<1>4. ASSUME AddMemberToGeneralChannel(h) PROVE RoomsInv'
  <2>1. /\ OnlyStep(h, "onCreated") /\ step[h] = "general"
        /\ step' \in [Handlers -> Steps] /\ step'[h] = "onCreated"
    BY <1>1, <1>2, <1>4, GoEffect DEF AddMemberToGeneralChannel
  <2>2. /\ Commit(h) /\ listed' \in BOOLEAN /\ (listed => listed')
        /\ UNCHANGED <<member, private, overwrites, rooms, subscribed, seen, ops, overtaken>>
    <3>1. listed' = listed \/ listed' = TRUE
      BY <1>4 DEF AddMemberToGeneralChannel
    <3>2. listed' \in BOOLEAN /\ (listed => listed')
      BY <1>1, <3>1
    <3>3. QED BY <1>4, <3>2 DEF AddMemberToGeneralChannel
  <2>3. Overtaking(h) /\ outdated' \subseteq Handlers /\ (h \in outdated' <=> h \in outdated)
    BY <1>1, <2>2, CommitOvertakes DEF Overtaking
  <2>4. TypeOK'
    BY <1>1, <2>1, <2>2, <2>3 DEF TypeOK
  <2>5. Placed(h)' /\ (h \notin outdated' => Informed(h)')
    BY <1>1, <2>1, <2>2, <2>3 DEF Placed, Informed, Subscribing
  <2>6. \A S \in {Leaving, Joining, ChannelJoining, ChannelLeaving} :
           step[h] \in S => "onCreated" \in S
    BY <1>2, <2>1
  <2>7. QED BY <1>2, <2>1, <2>2, <2>3, <2>4, <2>5, <2>6, CommitStep DEF Sees
<1>5. ASSUME RemoveMembership(h) PROVE RoomsInv'
  <2>1. /\ OnlyStep(h, "onRemoved") /\ step[h] = "idle" /\ ops' \in 0..MaxOps
        /\ step' \in [Handlers -> Steps] /\ step'[h] = "onRemoved"
    BY <1>1, <1>2, <1>5, BeginEffect DEF RemoveMembership
  <2>2. /\ CommitFirst(h) /\ member' = FALSE /\ listed' = FALSE
        /\ UNCHANGED <<private, overwrites, rooms, subscribed, seen, overtaken>>
    BY <1>5 DEF RemoveMembership
  <2>3. Overtaking(h) /\ outdated' \subseteq Handlers
    BY <1>1, <2>2, CommitOvertakes DEF Overtaking
  <2>4. TypeOK'
    BY <1>1, <2>1, <2>2, <2>3 DEF TypeOK
  <2>5. Placed(h)' /\ Informed(h)'
    BY <2>1, <2>2 DEF Placed, Informed, Subscribing
  <2>6. QED BY <1>2, <2>1, <2>2, <2>3, <2>4, <2>5, CommitStep DEF Sees
<1>6. QED BY <1>3, <1>4, <1>5

LEMMA ChannelCommits ==
    ASSUME RoomsInv, NEW h \in Handlers,
           CreateChannelMembership(h) \/ DeleteChannelMembership(h) \/ ReplaceOverwrites(h)
    PROVE  RoomsInv'
<1>1. /\ TypeOK /\ Placed(h) /\ (h \notin outdated => Informed(h))
      /\ member \in BOOLEAN /\ listed \in BOOLEAN /\ private \in BOOLEAN
  BY DEF RoomsInv, TypeOK
<1>2. /\ {"idle", "onListed", "onUnlisted", "plan"} \subseteq Steps
      /\ "onListed" \in ChannelJoining /\ "onUnlisted" \in ChannelLeaving
      /\ \A S \in {Leaving, Joining, ChannelJoining, ChannelLeaving} :
            S \cap {"idle", "addChecked", "removeChecked"} = {}
  BY DEF Steps, Leaving, Joining, ChannelJoining, ChannelLeaving, Syncing
<1>3. ASSUME NEW s \in {"addChecked", "removeChecked"}, Go(h, s, "idle"),
             UNCHANGED <<listed, outdated>>,
             UNCHANGED <<member, private, overwrites, rooms, subscribed, seen, ops, overtaken>>
      PROVE  RoomsInv'
  <2>1. /\ OnlyStep(h, "idle") /\ step[h] = s /\ step' \in [Handlers -> Steps] /\ step'[h] = "idle"
    BY <1>1, <1>2, <1>3, GoEffect
  <2>2. TypeOK' /\ Overtaking(h)
    BY <1>1, <1>3, <2>1 DEF TypeOK, Overtaking
  <2>3. Placed(h)' /\ Informed(h)'
    BY <2>1 DEF Placed, Informed, Subscribing
  <2>4. QED BY <1>2, <1>3, <2>1, <2>2, <2>3, CommitStep DEF Sees
<1>4. ASSUME Go(h, "addChecked", "onListed"), listed' = TRUE, Commit(h),
             UNCHANGED <<member, private, overwrites, rooms, subscribed, seen, ops, overtaken>>
      PROVE  RoomsInv'
  <2>1. /\ OnlyStep(h, "onListed") /\ step[h] = "addChecked"
        /\ step' \in [Handlers -> Steps] /\ step'[h] = "onListed"
    BY <1>1, <1>2, <1>4, GoEffect
  <2>2. Overtaking(h) /\ outdated' \subseteq Handlers /\ (h \in outdated' <=> h \in outdated)
    BY <1>1, <1>4, CommitOvertakes DEF Overtaking
  <2>3. TypeOK'
    BY <1>1, <1>4, <2>1, <2>2 DEF TypeOK
  <2>4. Placed(h)' /\ (h \notin outdated' => Informed(h)')
    BY <1>1, <1>4, <2>1, <2>2 DEF Placed, Informed, Subscribing, Sees
  <2>5. QED BY <1>2, <1>4, <2>1, <2>2, <2>3, <2>4, CommitStep DEF Sees
<1>5. ASSUME Go(h, "removeChecked", "onUnlisted"), listed' = FALSE, Commit(h),
             UNCHANGED <<member, private, overwrites, rooms, subscribed, seen, ops, overtaken>>
      PROVE  RoomsInv'
  <2>1. /\ OnlyStep(h, "onUnlisted") /\ step[h] = "removeChecked"
        /\ step' \in [Handlers -> Steps] /\ step'[h] = "onUnlisted"
    BY <1>1, <1>2, <1>5, GoEffect
  <2>2. Overtaking(h) /\ outdated' \subseteq Handlers /\ (h \in outdated' <=> h \in outdated)
    BY <1>1, <1>5, CommitOvertakes DEF Overtaking
  <2>3. TypeOK'
    BY <1>1, <1>5, <2>1, <2>2 DEF TypeOK
  <2>4. Placed(h)' /\ (h \notin outdated' => Informed(h)')
    BY <1>1, <1>5, <2>1, <2>2 DEF Placed, Informed, Subscribing, Sees
  <2>5. QED BY <1>1, <1>2, <1>5, <2>1, <2>2, <2>3, <2>4, CommitStep DEF Sees
<1>6. ASSUME ReplaceOverwrites(h) PROVE RoomsInv'
  <2>1. /\ OnlyStep(h, "plan") /\ step[h] = "idle" /\ ops' \in 0..MaxOps
        /\ step' \in [Handlers -> Steps] /\ step'[h] = "plan"
    BY <1>1, <1>2, <1>6, BeginEffect DEF ReplaceOverwrites
  <2>2. /\ CommitFirst(h) /\ overwrites' \in OverwriteChoices
        /\ UNCHANGED <<member, listed, private, rooms, subscribed, seen, overtaken>>
    BY <1>6 DEF ReplaceOverwrites
  <2>3. Overtaking(h) /\ outdated' \subseteq Handlers
    BY <1>1, <2>2, CommitOvertakes DEF Overtaking
  <2>4. TypeOK'
    BY <1>1, <2>1, <2>2, <2>3 DEF TypeOK
  <2>5. Placed(h)' /\ Informed(h)'
    BY <2>1, <2>2 DEF Placed, Informed, Subscribing
  <2>6. QED BY <1>2, <2>1, <2>2, <2>3, <2>4, <2>5, CommitStep DEF Sees
<1>7. ASSUME CreateChannelMembership(h) PROVE RoomsInv'
  BY <1>3, <1>4, <1>7 DEF CreateChannelMembership
<1>8. ASSUME DeleteChannelMembership(h) PROVE RoomsInv'
  BY <1>3, <1>5, <1>8 DEF DeleteChannelMembership
<1>9. QED BY <1>6, <1>7, <1>8

LEMMA UpdateStep ==
    ASSUME RoomsInv, NEW h \in Handlers, UpdateChannel(h)
    PROVE  RoomsInv'
<1>1. /\ TypeOK /\ Placed(h) /\ (h \notin outdated => Informed(h))
      /\ member \in BOOLEAN /\ listed \in BOOLEAN /\ private \in BOOLEAN
  BY DEF RoomsInv, TypeOK
<1>2. /\ {"idle", "plan"} \subseteq Steps
      /\ "plan" \in ChannelJoining /\ "plan" \in ChannelLeaving
      /\ \A S \in {Leaving, Joining, ChannelJoining, ChannelLeaving} :
            S \cap {"idle", "toPrivate", "toPublic"} = {}
  BY DEF Steps, Leaving, Joining, ChannelJoining, ChannelLeaving, Syncing
<1>3. /\ step[h] \in {"toPrivate", "toPublic"} /\ private' \in BOOLEAN
      /\ UNCHANGED <<member, listed, overwrites, rooms, subscribed, seen, ops>>
  BY DEF UpdateChannel
<1>4. ASSUME private' # ("private" \in seen[h]) PROVE RoomsInv'
  <2>1. /\ step' = [step EXCEPT ![h] = "plan"] /\ Commit(h) /\ UNCHANGED overtaken
    BY <1>4 DEF UpdateChannel
  <2>2. /\ OnlyStep(h, "plan") /\ step' \in [Handlers -> Steps] /\ step'[h] = "plan"
    BY <1>1, <1>2, <2>1 DEF OnlyStep, TypeOK
  <2>3. Overtaking(h) /\ outdated' \subseteq Handlers
    BY <1>1, <2>1, CommitOvertakes DEF Overtaking
  <2>4. TypeOK'
    BY <1>1, <1>3, <2>1, <2>2, <2>3 DEF TypeOK
  <2>5. Placed(h)' /\ Informed(h)'
    BY <2>2 DEF Placed, Informed, Subscribing
  <2>6. QED BY <1>1, <1>2, <1>3, <2>1, <2>2, <2>3, <2>4, <2>5, CommitStep DEF Sees
<1>5. ASSUME private' = ("private" \in seen[h]) PROVE RoomsInv'
  <2>1. /\ step' = [step EXCEPT ![h] = "idle"]
        /\ IF private' = private THEN UNCHANGED outdated ELSE Commit(h)
        /\ overtaken' = IF h \in outdated /\ ("channel" \in rooms) # ("channel" \in May')
                        THEN overtaken \cup {"channel"} ELSE overtaken
    BY <1>5 DEF UpdateChannel
  <2>2. /\ OnlyStep(h, "idle") /\ step' \in [Handlers -> Steps] /\ step'[h] = "idle"
    BY <1>1, <1>2, <2>1 DEF OnlyStep, TypeOK
  <2>3. Overtaking(h) /\ outdated' \subseteq Handlers
    BY <1>1, <1>3, <2>1, CommitOvertakes DEF Overtaking, TypeOK
  <2>4. overtaken' \subseteq {"community", "channel"} /\ overtaken \subseteq overtaken'
    BY <1>1, <2>1 DEF TypeOK
  <2>5. TypeOK'
    BY <1>1, <1>3, <2>2, <2>3, <2>4 DEF TypeOK
  <2>6. Placed(h)' /\ Informed(h)'
    BY <2>2 DEF Placed, Informed, Subscribing
  <2>7. "channel" \in May' <=> Sees'
    <3>1. (May = {r \in {"community", "channel"} : IF r = "community" THEN member ELSE Sees})'
      BY <2>5, SeesIsCanView, PTL
    <3>2. QED BY <3>1
  <2>8. Sees' # Sees => h \in outdated
    BY <1>1, <1>3, <1>5 DEF Sees, Informed
  <2>9. Sees' # Sees => ("channel" \in overtaken' <=> TRUE) \/ ("channel" \in rooms <=> Sees')
    BY <2>1, <2>7, <2>8
  <2>10. QED BY <1>1, <1>2, <1>3, <2>2, <2>3, <2>4, <2>5, <2>6, <2>9, CommitStep DEF Sees
<1>6. QED BY <1>4, <1>5

-----------------------------------------------------------------------------
(* The steps that join and leave rooms.                                    *)

(* After the step, room r is right for its user, or known to be overtaken. *)
SettledCommunity == "community" \in overtaken' \/ ("community" \in rooms' <=> member)
SettledChannel == "channel" \in overtaken' \/ ("channel" \in rooms' <=> Sees)

(* An overtaken room stays so until it is right; a handler that was        *)
(* overtaken itself settles the rooms it acts on.                          *)
LEMMA Settles ==
    ASSUME TypeOK, NEW W \in SUBSET {"community", "channel"},
           overtaken' = {r \in overtaken \cup W : (r \in rooms') # (r \in May)}
    PROVE  /\ overtaken' \subseteq {"community", "channel"}
           /\ "community" \in overtaken \cup W => SettledCommunity
           /\ "channel" \in overtaken \cup W => SettledChannel
<1>1. /\ "community" \in May <=> member
      /\ "channel" \in May <=> Sees
  BY SeesIsCanView
<1>2. overtaken \subseteq {"community", "channel"}
  BY DEF TypeOK
<1>3. QED BY <1>1, <1>2 DEF SettledCommunity, SettledChannel

LEMMA NoSocket ==
    ASSUME RoomsInv, NEW h \in Handlers, NEW t \in Steps \ Subscribing, OnlyStep(h, t),
           rooms = {}, rooms' = {}, UNCHANGED <<subscribed, seen>>
    PROVE  /\ CommunityRight' /\ ChannelOfMember' /\ ChannelRight'
           /\ CommunityJoined' /\ ChannelJoined'
<1>1. ~subscribed /\ \A k \in Handlers : step[k] \notin Subscribing
  BY DEF RoomsInv, TypeOK, Placed
<1>2. ~InCommunity' /\ ~Asked'
  BY <1>1 DEF InCommunity, Asked, Pending, OnlyStep, RoomsInv, TypeOK, Subscribing
<1>3. QED BY <1>2 DEF CommunityRight, ChannelOfMember, ChannelRight, CommunityJoined, ChannelJoined

LEMMA ActStep ==
    ASSUME RoomsInv, NEW h \in Handlers, NEW t \in {"idle", "visibleIds"}, OnlyStep(h, t),
           UNCHANGED <<dbVars, seen, ops, outdated>>, subscribed' \in BOOLEAN,
           rooms # {}, rooms' \subseteq {"user", "community", "channel"}, "user" \in rooms',
           overtaken' \subseteq {"community", "channel"},
           "community" \in overtaken => SettledCommunity,
           "channel" \in overtaken => SettledChannel,
           \/ SettledCommunity
           \/ /\ "community" \in rooms' <=> "community" \in rooms
              /\ step[h] \notin Leaving \cup Joining,
           \/ SettledChannel
           \/ /\ step[h] \notin Leaving
              /\ "channel" \in rooms' /\ ~Sees =>
                    \/ "channel" \in rooms /\ step[h] \notin ChannelLeaving
                    \/ ~member /\ Pending(Leaving)
              /\ "channel" \notin rooms' /\ Asked /\ Sees =>
                    /\ step[h] \notin Joining
                    /\ \/ "channel" \notin rooms /\ step[h] \notin ChannelJoining
                       \/ Pending(Joining),
           InCommunity' => InCommunity \/ SettledCommunity,
           Asked' => Asked \/ SettledChannel
    PROVE  RoomsInv'
<1>1. /\ member' = member /\ listed' = listed /\ private' = private /\ Sees' = Sees
      /\ OthersRead(h) /\ TypeOK /\ overwrites' = overwrites /\ t \in Steps
  BY DEF dbVars, Sees, OthersRead, RoomsInv, Steps
<1>2. TypeOK'
  BY <1>1 DEF TypeOK, OnlyStep
<1>3. ASSUME NEW k \in Handlers \ {h} PROVE Placed(k)' /\ (k \notin outdated' => Informed(k)')
  BY <1>1, OthersInformed DEF Overtaking
<1>4. Placed(h)' /\ Informed(h)'
  BY <1>1 DEF Placed, Informed, OnlyStep, TypeOK
<1>5. /\ Pending(Leaving) => Pending(Leaving)' \/ step[h] \in Leaving
      /\ Pending(Joining) => Pending(Joining)' \/ step[h] \in Joining
      /\ Pending(ChannelJoining) => Pending(ChannelJoining)' \/ step[h] \in ChannelJoining
      /\ Pending(ChannelLeaving) => Pending(ChannelLeaving)' \/ step[h] \in ChannelLeaving
  BY <1>1, PendingEffect
<1>6. CommunityRight'
  BY <1>1, <1>5 DEF RoomsInv, CommunityRight, SettledCommunity
<1>7. CommunityJoined'
  BY <1>1, <1>5 DEF RoomsInv, CommunityJoined, SettledCommunity
<1>8. ChannelOfMember'
  <2>1. ~member => ~Sees
    BY DEF Sees
  <2>2. QED BY <1>1, <1>5, <2>1 DEF RoomsInv, ChannelOfMember, SettledChannel
<1>9. ChannelRight'
  BY <1>1, <1>5 DEF RoomsInv, ChannelRight, SettledChannel
<1>10. ChannelJoined'
  BY <1>1, <1>5 DEF RoomsInv, ChannelJoined, SettledChannel
<1>11. QED BY <1>2, <1>3, <1>4, <1>6, <1>7, <1>8, <1>9, <1>10 DEF RoomsInv

(* The same without a connected socket: nothing joins.                     *)
LEMMA ActWithoutSocket ==
    ASSUME RoomsInv, NEW h \in Handlers, OnlyStep(h, "idle"),
           UNCHANGED <<dbVars, subscribed, seen, ops, outdated>>, rooms = {}, rooms' = {},
           overtaken' \subseteq {"community", "channel"}
    PROVE  RoomsInv'
<1>1. /\ member' = member /\ listed' = listed /\ private' = private
      /\ OthersRead(h) /\ TypeOK /\ overwrites' = overwrites
      /\ "idle" \in Steps /\ "idle" \in Steps \ Subscribing
  BY DEF dbVars, OthersRead, RoomsInv, Steps, Subscribing
<1>2. TypeOK'
  BY <1>1 DEF TypeOK, OnlyStep
<1>3. ASSUME NEW k \in Handlers \ {h} PROVE Placed(k)' /\ (k \notin outdated' => Informed(k)')
  BY <1>1, OthersInformed DEF Overtaking
<1>4. Placed(h)' /\ Informed(h)'
  BY <1>1 DEF Placed, Informed, OnlyStep, TypeOK, Subscribing
<1>5. QED BY <1>1, <1>2, <1>3, <1>4, NoSocket DEF RoomsInv

LEMMA ConnectionStep == RoomsInv /\ (Connect \/ Disconnect) => RoomsInv'
<1>1. ASSUME RoomsInv, Connect PROVE RoomsInv'
  <2>1. /\ rooms = {} /\ rooms' = {"user"} /\ ops < MaxOps /\ ops' = ops + 1 /\ overtaken' = {}
        /\ UNCHANGED <<member, listed, private, overwrites, subscribed, step, seen, outdated>>
        /\ TypeOK /\ ~subscribed
    BY <1>1 DEF Connect, dbVars, RoomsInv, TypeOK
  <2>2. ops' \in 0..MaxOps
    BY <2>1, BoundAssumption DEF TypeOK
  <2>3. TypeOK'
    BY <2>1, <2>2 DEF TypeOK
  <2>4. \A k \in Handlers : Placed(k)' /\ (k \notin outdated' => Informed(k)')
    BY <1>1, <2>1 DEF RoomsInv, Placed, Informed, Sees
  <2>5. ~InCommunity' /\ ~Asked'
    BY <1>1, <2>1 DEF InCommunity, Asked, Pending, RoomsInv, Placed, Subscribing
  <2>6. QED BY <2>1, <2>3, <2>4, <2>5 DEF RoomsInv, CommunityRight, ChannelOfMember, ChannelRight,
                                          CommunityJoined, ChannelJoined
<1>2. ASSUME RoomsInv, Disconnect PROVE RoomsInv'
  <2>1. /\ rooms' = {} /\ subscribed' = FALSE /\ overtaken' = {}
        /\ step' = [h \in Handlers |-> IF step[h] \in Subscribing THEN "idle" ELSE step[h]]
        /\ UNCHANGED <<member, listed, private, overwrites, seen, ops, outdated>> /\ TypeOK
    BY <1>2 DEF Disconnect, dbVars, RoomsInv
  <2>2. step' \in [Handlers -> Steps] /\ \A h \in Handlers : step'[h] \notin Subscribing
    BY <2>1 DEF TypeOK, Steps, Subscribing
  <2>3. TypeOK'
    BY <2>1, <2>2 DEF TypeOK
  <2>4. ASSUME NEW k \in Handlers PROVE Placed(k)' /\ (k \notin outdated' => Informed(k)')
    <3>1. step'[k] = "idle" \/ step'[k] = step[k]
      BY <2>1
    <3>2. Placed(k) /\ (k \notin outdated => Informed(k))
      BY <1>2 DEF RoomsInv
    <3>3. QED BY <2>1, <2>2, <3>1, <3>2 DEF Placed, Informed, Sees
  <2>5. ~InCommunity' /\ ~Asked'
    BY <2>1, <2>2 DEF InCommunity, Asked, Pending, Subscribing
  <2>6. QED BY <2>1, <2>3, <2>4, <2>5 DEF RoomsInv, CommunityRight, ChannelOfMember, ChannelRight,
                                          CommunityJoined, ChannelJoined
<1>3. QED BY <1>1, <1>2

LEMMA SubscribeActs ==
    ASSUME RoomsInv, NEW h \in Handlers, JoinCommunityRoom(h) \/ JoinChannelRoom(h)
    PROVE  RoomsInv'
<1>1. /\ TypeOK /\ Placed(h) /\ (h \notin outdated => Informed(h))
      /\ subscribed \in BOOLEAN /\ rooms \subseteq {"user", "community", "channel"}
      /\ (rooms # {} => "user" \in rooms)
      /\ "visibleIds" \in Steps /\ "idle" \in Steps
  BY DEF RoomsInv, TypeOK, Steps
<1>2. /\ {"communityRoom", "channelRoom"} \cap
            (Leaving \cup Joining \cup ChannelJoining \cup ChannelLeaving) = {}
  BY DEF Leaving, Joining, ChannelJoining, ChannelLeaving, Syncing
<1>3. ASSUME JoinCommunityRoom(h) PROVE RoomsInv'
  <2>1. /\ Go(h, "communityRoom", "visibleIds") /\ rooms' = rooms \cup {"community"}
        /\ Act(h, {"community"})
        /\ UNCHANGED <<dbVars, subscribed, seen, ops, outdated>>
    BY <1>3 DEF JoinCommunityRoom
  <2>2. OnlyStep(h, "visibleIds") /\ step[h] = "communityRoom"
    BY <1>1, <2>1, GoEffect
  <2>3. /\ overtaken' \subseteq {"community", "channel"}
        /\ "community" \in overtaken => SettledCommunity
        /\ "channel" \in overtaken => SettledChannel
        /\ h \in outdated => SettledCommunity
    BY <1>1, <2>1, Settles DEF Act
  <2>4. SettledCommunity
    BY <1>1, <2>1, <2>2, <2>3 DEF Informed, SettledCommunity
  <2>5. rooms # {} /\ (Asked' => Asked)
    BY <1>1, <2>1, <2>2 DEF Placed, Subscribing, Asked, OnlyStep, TypeOK
  <2>6. QED BY <1>1, <1>2, <2>1, <2>2, <2>3, <2>4, <2>5, ActStep
<1>4. ASSUME JoinChannelRoom(h), "visible" \in seen[h] PROVE RoomsInv'
  <2>1. /\ Go(h, "channelRoom", "idle") /\ rooms' = rooms \cup {"channel"}
        /\ Act(h, {"channel"}) /\ subscribed' = TRUE
        /\ UNCHANGED <<dbVars, seen, ops, outdated>>
    BY <1>4 DEF JoinChannelRoom
  <2>2. OnlyStep(h, "idle") /\ step[h] = "channelRoom"
    BY <1>1, <2>1, GoEffect
  <2>3. /\ overtaken' \subseteq {"community", "channel"}
        /\ "community" \in overtaken => SettledCommunity
        /\ "channel" \in overtaken => SettledChannel
        /\ h \in outdated => SettledChannel
    BY <1>1, <2>1, Settles DEF Act
  <2>4. SettledChannel
    BY <1>1, <1>4, <2>1, <2>2, <2>3 DEF Informed, SettledChannel
  <2>5. rooms # {} /\ InCommunity
    BY <1>1, <2>2 DEF Placed, Subscribing, InCommunity, Pending
  <2>6. QED BY <1>1, <1>2, <2>1, <2>2, <2>3, <2>4, <2>5, ActStep
<1>5. ASSUME JoinChannelRoom(h), "visible" \notin seen[h] PROVE RoomsInv'
  <2>1. /\ Go(h, "channelRoom", "idle") /\ subscribed' = TRUE /\ UNCHANGED <<rooms, overtaken>>
        /\ UNCHANGED <<dbVars, seen, ops, outdated>>
    BY <1>5 DEF JoinChannelRoom
  <2>2. OnlyStep(h, "idle") /\ step[h] = "channelRoom"
    BY <1>1, <2>1, GoEffect
  <2>3. /\ overtaken' \subseteq {"community", "channel"}
        /\ "community" \in overtaken => SettledCommunity
        /\ "channel" \in overtaken => SettledChannel
    BY <1>1, <2>1 DEF TypeOK, SettledCommunity, SettledChannel
  <2>4. rooms # {} /\ InCommunity /\ Asked
    BY <1>1, <1>5, <2>2 DEF Placed, Subscribing, InCommunity, Asked, Pending
  <2>5. QED BY <1>1, <1>2, <2>1, <2>2, <2>3, <2>4, ActStep
<1>6. QED BY <1>3, <1>4, <1>5

(* The handlers of events about a membership or a place on the list: each  *)
(* joins or leaves rooms, and settles those it acts on.                    *)
LEMMA EventStep ==
    ASSUME RoomsInv, NEW h \in Handlers,
           \/ OnMembershipCreated(h) \/ OnMembershipRemoved(h)
           \/ OnChannelMembershipCreated(h) \/ OnChannelMembershipRemoved(h)
    PROVE  RoomsInv'
<1>1. /\ TypeOK /\ (h \notin outdated => Informed(h))
      /\ subscribed \in BOOLEAN /\ rooms \subseteq {"user", "community", "channel"}
      /\ (rooms # {} => "user" \in rooms) /\ "idle" \in Steps
  BY DEF RoomsInv, TypeOK, Steps
<1>2. /\ {"onListed", "onUnlisted"} \cap (Leaving \cup Joining) = {}
      /\ {"createdJoin", "onRemoved", "onListed", "onUnlisted"}
            \cap {"visibleIds", "channelRoom"} = {}
  BY DEF Leaving, Joining
<1>3. ASSUME NEW s \in {"createdJoin", "onRemoved", "onListed", "onUnlisted"}, Go(h, s, "idle"),
             NEW W \in SUBSET {"community", "channel"}, Act(h, W),
             UNCHANGED <<dbVars, subscribed, seen, ops, outdated>>,
             \/ \E rs \in SUBSET {"community", "channel"} : JoinSockets(rs)
             \/ \E rs \in SUBSET {"community", "channel"} : LeaveSockets(rs),
             "channel" \in W,
             "community" \notin W =>
                 /\ s \in {"onListed", "onUnlisted"}
                 /\ "community" \in rooms' <=> "community" \in rooms,
             rooms # {} /\ Informed(h) =>
                 /\ "community" \in W => ("community" \in rooms' <=> member)
                 /\ \/ "channel" \in rooms' <=> Sees
                    \/ s = "createdJoin" /\ ~Sees /\ "channel" \in rooms
      PROVE  RoomsInv'
  <2>1. OnlyStep(h, "idle") /\ step[h] = s
    BY <1>1, <1>3, GoEffect
  <2>2. /\ overtaken' \subseteq {"community", "channel"}
        /\ "community" \in overtaken => SettledCommunity
        /\ "channel" \in overtaken => SettledChannel
        /\ h \in outdated =>
              /\ "community" \in W => SettledCommunity
              /\ SettledChannel
    BY <1>1, <1>3, Settles DEF Act
  <2>3. /\ rooms = {} => rooms' = {}
        /\ rooms # {} => rooms' \subseteq {"user", "community", "channel"} /\ "user" \in rooms'
    BY <1>1, <1>3 DEF JoinSockets, LeaveSockets
  <2>4. ASSUME rooms = {} PROVE RoomsInv'
    BY <1>3, <2>1, <2>2, <2>3, <2>4, ActWithoutSocket
  <2>5. ASSUME rooms # {} PROVE RoomsInv'
    <3>1. /\ "community" \in W => SettledCommunity
          /\ SettledChannel \/ (s = "createdJoin" /\ ~Sees /\ "channel" \in rooms)
      BY <1>1, <1>3, <2>2, <2>5 DEF SettledCommunity, SettledChannel
    <3>2. (InCommunity' => InCommunity) /\ (Asked' => Asked)
      BY <1>1, <1>2, <1>3, <2>1 DEF InCommunity, Asked, Pending, OnlyStep, TypeOK
    <3>3. \/ SettledCommunity
          \/ /\ "community" \in rooms' <=> "community" \in rooms
             /\ step[h] \notin Leaving \cup Joining
      BY <1>2, <1>3, <2>1, <3>1
    <3>4. "createdJoin" \notin Leaving \cup ChannelLeaving
      BY DEF Leaving, ChannelLeaving, Syncing
    <3>5. QED BY <1>1, <1>3, <2>1, <2>2, <2>3, <2>5, <3>1, <3>2, <3>3, <3>4, ActStep
  <2>6. QED BY <2>4, <2>5
<1>4. ASSUME OnMembershipCreated(h) PROVE RoomsInv'
  <2> DEFINE rs == {"community"} \cup (IF "visible" \in seen[h] THEN {"channel"} ELSE {})
  <2>1. /\ Go(h, "createdJoin", "idle") /\ JoinSockets(rs) /\ Act(h, {"community", "channel"})
        /\ UNCHANGED <<dbVars, subscribed, seen, ops, outdated>>
        /\ rs \in SUBSET {"community", "channel"}
    BY <1>4 DEF OnMembershipCreated, VisibleRooms
  <2>2. ASSUME rooms # {}, Informed(h)
        PROVE  /\ "community" \in rooms' <=> member
               /\ ("channel" \in rooms' <=> Sees) \/ (~Sees /\ "channel" \in rooms)
    <3>1. step[h] = "createdJoin"
      BY <2>1 DEF Go
    <3>2. rooms' = rooms \cup rs
      BY <1>1, <2>1, <2>2 DEF JoinSockets
    <3>3. QED BY <2>2, <3>1, <3>2 DEF Informed
  <2> HIDE DEF rs
  <2>3. QED BY <1>3, <2>1, <2>2
<1>5. ASSUME OnMembershipRemoved(h) PROVE RoomsInv'
  <2>1. /\ Go(h, "onRemoved", "idle") /\ LeaveSockets({"community", "channel"})
        /\ Act(h, {"community", "channel"})
        /\ UNCHANGED <<dbVars, subscribed, seen, ops, outdated>>
    BY <1>5 DEF OnMembershipRemoved
  <2>2. ASSUME Informed(h)
        PROVE  ("community" \in rooms' <=> member) /\ ("channel" \in rooms' <=> Sees)
    BY <2>1, <2>2 DEF Go, LeaveSockets, Informed, Sees
  <2>3. QED BY <1>3, <2>1, <2>2
<1>6. ASSUME OnChannelMembershipCreated(h) PROVE RoomsInv'
  <2>1. /\ Go(h, "onListed", "idle") /\ JoinSockets({"channel"}) /\ Act(h, {"channel"})
        /\ UNCHANGED <<dbVars, subscribed, seen, ops, outdated>>
    BY <1>6 DEF OnChannelMembershipCreated
  <2>2. /\ "community" \in rooms' <=> "community" \in rooms
        /\ rooms # {} /\ Informed(h) => ("channel" \in rooms' <=> Sees)
    BY <1>1, <2>1 DEF Go, JoinSockets, Informed
  <2>3. QED BY <1>3, <2>1, <2>2
<1>7. ASSUME OnChannelMembershipRemoved(h) PROVE RoomsInv'
  <2>1. /\ Go(h, "onUnlisted", "idle") /\ LeaveSockets({"channel"}) /\ Act(h, {"channel"})
        /\ UNCHANGED <<dbVars, subscribed, seen, ops, outdated>>
    BY <1>7 DEF OnChannelMembershipRemoved
  <2>2. /\ "community" \in rooms' <=> "community" \in rooms
        /\ Informed(h) => ("channel" \in rooms' <=> Sees)
    BY <2>1 DEF Go, LeaveSockets, Informed
  <2>3. QED BY <1>3, <2>1, <2>2
<1>8. QED BY <1>4, <1>5, <1>6, <1>7

(* The end of a sync.                                                      *)
LEMMA SyncStep ==
    ASSUME RoomsInv, NEW h \in Handlers, SyncEveryone(h) \/ SyncViewers(h)
    PROVE  RoomsInv'
<1>1. /\ TypeOK /\ (h \notin outdated => Informed(h))
      /\ subscribed \in BOOLEAN /\ rooms \subseteq {"user", "community", "channel"}
      /\ (rooms # {} => "user" \in rooms) /\ "idle" \in Steps
      /\ CommunityRight /\ ChannelOfMember /\ CommunityJoined
  BY DEF RoomsInv, TypeOK, Steps
<1>2. {"everyone", "apply"} \cap (Leaving \cup Joining \cup {"visibleIds", "channelRoom"}) = {}
  BY DEF Leaving, Joining
<1>3. ASSUME NEW s \in {"everyone", "apply"}, Go(h, s, "idle"),
             UNCHANGED <<dbVars, subscribed, seen, ops, outdated>>
      PROVE  /\ OnlyStep(h, "idle") /\ step[h] = s
             /\ (InCommunity' => InCommunity) /\ (Asked' => Asked)
             /\ Asked => InCommunity
  <2>1. OnlyStep(h, "idle") /\ step[h] = s
    BY <1>1, <1>3, GoEffect
  <2>2. QED BY <1>1, <1>3, <2>1 DEF InCommunity, Asked, Pending, OnlyStep, TypeOK
<1>4. ASSUME SyncEveryone(h) PROVE RoomsInv'
  <2> DEFINE W == IF h \in outdated \/ "community" \in overtaken THEN {"channel"} ELSE {}
  <2>1. /\ Go(h, "everyone", "idle")
        /\ rooms' = IF "community" \in rooms THEN rooms \cup {"channel"} ELSE rooms
        /\ overtaken' = {r \in overtaken \cup W : (r \in rooms') # (r \in May)}
        /\ UNCHANGED <<dbVars, subscribed, seen, ops, outdated>>
        /\ W \in SUBSET {"community", "channel"}
    BY <1>4 DEF SyncEveryone
  <2>2. h \in outdated \/ "community" \in overtaken => "channel" \in W
    OBVIOUS
  <2> HIDE DEF W
  <2>3. /\ overtaken' \subseteq {"community", "channel"}
        /\ "community" \in overtaken => SettledCommunity
        /\ "channel" \in overtaken => SettledChannel
        /\ h \in outdated \/ "community" \in overtaken => SettledChannel
    BY <1>1, <2>1, <2>2, Settles
  <2>4. /\ OnlyStep(h, "idle") /\ step[h] = "everyone"
        /\ (InCommunity' => InCommunity) /\ (Asked' => Asked) /\ (Asked => InCommunity)
    BY <1>3, <2>1
  <2>5. ASSUME rooms = {} PROVE RoomsInv'
    BY <2>1, <2>3, <2>4, <2>5, ActWithoutSocket
  <2>6. ASSUME rooms # {} PROVE RoomsInv'
    <3>1. ASSUME ~SettledChannel
          PROVE  /\ "channel" \in rooms' /\ ~Sees => ~member /\ Pending(Leaving)
                 /\ "channel" \notin rooms' /\ Asked /\ Sees => Pending(Joining)
      <4>1. /\ h \notin outdated /\ "community" \notin overtaken /\ "channel" \notin overtaken
            /\ ~private
        BY <1>1, <2>3, <2>4, <3>1 DEF Informed
      <4>2. Sees <=> member
        BY <4>1 DEF Sees
      <4>3. "channel" \in rooms' /\ ~member => Pending(Leaving)
        BY <1>1, <2>1, <4>1 DEF CommunityRight, ChannelOfMember
      <4>4. "channel" \notin rooms' /\ Asked /\ member => Pending(Joining)
        BY <1>1, <2>1, <2>4, <4>1 DEF CommunityJoined
      <4>5. QED BY <4>2, <4>3, <4>4
    <3>2. "community" \in rooms' <=> "community" \in rooms
      BY <2>1
    <3>3. rooms' \subseteq {"user", "community", "channel"} /\ "user" \in rooms'
      BY <1>1, <2>1, <2>6
    <3>4. subscribed' \in BOOLEAN /\ step[h] \notin Leaving \cup Joining
      BY <1>1, <1>2, <2>1, <2>4
    <3>5. QED BY <2>1, <2>3, <2>4, <2>6, <3>1, <3>2, <3>3, <3>4, ActStep
  <2>7. QED BY <2>5, <2>6
<1>5. ASSUME SyncViewers(h) PROVE RoomsInv'
  <2>1. /\ Go(h, "apply", "idle") /\ PlannedRooms(h) /\ Act(h, {"channel"})
        /\ UNCHANGED <<dbVars, subscribed, seen, ops, outdated>>
    BY <1>5 DEF SyncViewers
  <2>2. /\ overtaken' \subseteq {"community", "channel"}
        /\ "community" \in overtaken => SettledCommunity
        /\ "channel" \in overtaken => SettledChannel
        /\ h \in outdated => SettledChannel
    BY <1>1, <2>1, Settles DEF Act
  <2>3. /\ OnlyStep(h, "idle") /\ step[h] = "apply"
        /\ (InCommunity' => InCommunity) /\ (Asked' => Asked)
    BY <1>3, <2>1
  <2>4. /\ rooms = {} => rooms' = {}
        /\ rooms # {} => rooms' \subseteq {"user", "community", "channel"} /\ "user" \in rooms'
        /\ "community" \in rooms' <=> "community" \in rooms
    <3>1. \/ rooms' = rooms
          \/ "user" \in rooms /\ rooms' = rooms \cup {"channel"}
          \/ rooms' = rooms \ {"channel"}
      BY <2>1 DEF PlannedRooms, JoinSockets, LeaveSockets
    <3>2. QED BY <1>1, <3>1
  <2>5. ASSUME rooms = {} PROVE RoomsInv'
    BY <2>1, <2>2, <2>3, <2>4, <2>5, ActWithoutSocket
  <2>6. ASSUME rooms # {} PROVE RoomsInv'
    <3>1. ASSUME ~SettledChannel
          PROVE  /\ "channel" \in rooms' /\ ~Sees => ~member /\ Pending(Leaving)
                 /\ "channel" \notin rooms' /\ Asked /\ Sees => Pending(Joining)
      <4>1. /\ h \notin outdated /\ "channel" \notin overtaken
            /\ "member" \in seen[h] <=> member
            /\ "visible" \in seen[h] <=> Sees
        BY <1>1, <2>2, <2>3, <3>1 DEF Informed
      <4>2. ~("channel" \in rooms' <=> Sees)
        BY <3>1 DEF SettledChannel
      <4>3. "visible" \notin seen[h] /\ "member" \notin seen[h] /\ rooms' = rooms
        BY <1>1, <2>1, <2>6, <4>1, <4>2 DEF PlannedRooms, JoinSockets, LeaveSockets
      <4>4. ~Sees /\ ~member
        BY <4>1, <4>3
      <4>5. QED BY <1>1, <4>1, <4>3, <4>4 DEF ChannelOfMember
    <3>2. subscribed' \in BOOLEAN /\ step[h] \notin Leaving \cup Joining
      BY <1>1, <1>2, <2>1, <2>3
    <3>3. QED BY <2>1, <2>2, <2>3, <2>4, <2>6, <3>1, <3>2, ActStep
  <2>7. QED BY <2>5, <2>6
<1>6. QED BY <1>4, <1>5

LEMMA RoomsStep == RoomsInv /\ [Next]_vars => RoomsInv'
<1> SUFFICES ASSUME RoomsInv, [Next]_vars PROVE RoomsInv'
  OBVIOUS
<1>1. CASE UNCHANGED vars
  <2>1. /\ UNCHANGED <<member, listed, private, overwrites, rooms, subscribed, step, seen, ops,
                        outdated, overtaken>>
    BY <1>1 DEF vars, dbVars
  <2>2. TypeOK' /\ \A h \in Handlers : Placed(h)' /\ (h \notin outdated' => Informed(h)')
    BY <2>1 DEF RoomsInv, TypeOK, Placed, Informed, Sees
  <2>3. /\ CommunityRight' /\ ChannelOfMember' /\ ChannelRight'
        /\ CommunityJoined' /\ ChannelJoined'
    BY <2>1 DEF RoomsInv, CommunityRight, ChannelOfMember, ChannelRight, CommunityJoined,
               ChannelJoined, InCommunity, Asked, Pending, Sees
  <2>4. QED BY <2>2, <2>3 DEF RoomsInv
<1>2. CASE Connect \/ Disconnect
  BY <1>2, ConnectionStep
<1>3. ASSUME NEW h \in Handlers, JoinAllUserRooms(h) PROVE RoomsInv'
  BY <1>3, SubscribeReads, SubscribeActs DEF JoinAllUserRooms
<1>4. ASSUME NEW h \in Handlers, Membership(h) PROVE RoomsInv'
  BY <1>4, MembershipCommits, ChecksRead, EventStep DEF Membership
<1>5. ASSUME NEW h \in Handlers, ChannelList(h) PROVE RoomsInv'
  BY <1>5, ChannelCommits, ChecksRead, EventStep DEF ChannelList
<1>6. ASSUME NEW h \in Handlers, Visibility(h) PROVE RoomsInv'
  BY <1>6, ChecksRead, UpdateStep, ChannelCommits, PlanStep, SyncStep
  DEF Visibility, SyncChannelRoom
<1>7. QED BY <1>1, <1>2, <1>3, <1>4, <1>5, <1>6 DEF Next

LEMMA RoomsAlways == Spec => []RoomsInv
BY RoomsInitial, RoomsStep, PTL DEF Spec

(* The variables have their types: in particular a connected socket is in  *)
(* its user's room, and SUBSCRIBE_ALL has not finished without a socket.   *)
THEOREM RoomsTypeCorrect == Spec => []TypeOK
BY RoomsAlways, PTL DEF RoomsInv

(* A socket is in a room its user may not see only while a handler that    *)
(* will take it out is on its way, or because one acted on what it had     *)
(* read before a later change: every loss of membership, of a place on the *)
(* list or of visibility takes the sockets out (onMembershipRemoved,       *)
(* onChannelMembershipRemoved, syncChannelRoom).                           *)
THEOREM RoomsShowNoMore == Spec => []ViewersOnly
<1>1. ASSUME RoomsInv PROVE ViewersOnly
  <2>1. /\ TypeOK /\ CommunityRight /\ ChannelRight
        /\ "community" \in May <=> member
        /\ "channel" \in May <=> Sees
    BY <1>1, SeesIsCanView DEF RoomsInv
  <2>2. QED BY <2>1 DEF ViewersOnly, TypeOK, CommunityRight, ChannelRight, Pending, Leaving,
                        ChannelLeaving
<1>2. QED BY <1>1, RoomsAlways, PTL

(* A socket that has finished SUBSCRIBE_ALL misses a room its user may see *)
(* only in the same two cases: what joinAllUserRooms had read too early    *)
(* reaches the socket through the rooms it has joined already.             *)
THEOREM RoomsShowNoLess == Spec => []NoViewerMissing
<1>1. ASSUME RoomsInv PROVE NoViewerMissing
  <2>1. /\ CommunityJoined /\ ChannelJoined
        /\ "community" \in May <=> member
        /\ "channel" \in May <=> Sees
        /\ May \subseteq {"community", "channel"}
    BY <1>1, SeesIsCanView DEF RoomsInv
  <2>2. QED BY <2>1 DEF NoViewerMissing, CommunityJoined, ChannelJoined, InCommunity, Asked,
                        Pending, Joining, ChannelJoining
<1>2. QED BY <1>1, RoomsAlways, PTL

-----------------------------------------------------------------------------
(* SocketSessions.  A bound socket is in the rooms of its token, so an     *)
(* announcement made after the binding reaches it; and a check that starts *)
(* after the binding reads what was stored before it.                      *)

(* What a call relies on: the state of its socket, and that the binding    *)
(* it checks, while it is its own, is of its token.                        *)
CallSound(c) ==
    LET k == call[c].socket
    IN /\ call[c].step = "idle" => call[c] = NoCall
       /\ call[c].step # "idle" => k \in Sockets /\ call[c].token \in Tokens
       /\ call[c].step \in {"revocation", "user", "bind"} => stage[k] \in {"handshake", "connected"}
       /\ call[c].step = "connect" => stage[k] = "joined" /\ owner[k] = c
       /\ call[c].step = "confirm" => stage[k] = "connected"
       /\ call[c].step \in {"connect", "confirm"} /\ owner[k] = c => bound[k] = call[c].token

(* A socket that is still connecting has one call.                         *)
OneHandshake ==
    \A c, d \in Calls :
        /\ call[c].step # "idle" /\ call[d].step # "idle"
        /\ call[c].socket = call[d].socket
        /\ stage[call[c].socket] \in {"handshake", "joined"}
        => c = d

(* A bound socket is in the rooms of its token and in no others.           *)
InRoomsOfBinding(k) ==
    /\ stage[k] \in {"joined", "connected"} =>
          bound[k] \in Tokens /\ memberOf[k] = RoomsOf(bound[k])
    /\ stage[k] \in {"gone", "handshake"} => memberOf[k] = {}

(* The check of k's binding has found it ended, or has yet to read `what'. *)
WillFind(k, what) ==
    \E c \in Calls :
        /\ owner[k] = c /\ call[c].socket = k /\ call[c].step = "confirm"
        /\ call[c].ended \/ what \in call[c].left

(* EndedSocketIsReached for each reason a session ends: a ban may be       *)
(* lifted while the token stays revoked.                                   *)
RevokedReached(k) ==
    Connected(k) /\ IsRevoked(bound[k]) => Announced(k) \/ WillFind(k, "revocation")
BannedReached(k) ==
    Connected(k) /\ ~HasAccess => Announced(k) \/ WillFind(k, "user")

StateTyped ==
    /\ minted \subseteq Tokens /\ expired \subseteq minted
    /\ revoked \subseteq Sessions \cup Tokens /\ old \subseteq minted
    /\ account \in {"active", "banned", "deleted"}
MessagesTyped ==
    /\ todo \subseteq Rooms /\ inFlight \subseteq Rooms \X Instances
    /\ lost \subseteq Rooms
SocketsTyped ==
    /\ stage \in [Sockets -> Stages]
    /\ bound \in [Sockets -> Tokens \cup {None}]
    /\ owner \in [Sockets -> Calls \cup {None}]
    /\ memberOf \in [Sockets -> SUBSET Rooms]
    /\ timer \in [Sockets -> Tokens \cup {None}]

SocketInv ==
    /\ StateTyped /\ MessagesTyped /\ SocketsTyped
    /\ call \in [Calls -> CallRecord]
    /\ \A c \in Calls : CallSound(c)
    /\ OneHandshake
    /\ \A k \in Sockets : InRoomsOfBinding(k)
    /\ \A k \in Sockets : RevokedReached(k)
    /\ \A k \in Sockets : BannedReached(k)

LEMMA SocketInitial == SocketInit => SocketInv
<1> SUFFICES ASSUME SocketInit PROVE SocketInv
  OBVIOUS
<1>1. NoCall \in CallRecord /\ \A c \in Calls : call[c] = NoCall /\ call[c].step = "idle"
  BY DEF SocketInit, NoCall, CallRecord, CallSteps
<1>2. \A k \in Sockets : stage[k] = "gone" /\ memberOf[k] = {}
  BY DEF SocketInit
<1>3. StateTyped /\ MessagesTyped /\ SocketsTyped /\ call \in [Calls -> CallRecord]
  BY <1>1 DEF SocketInit, StateTyped, MessagesTyped, SocketsTyped, Stages
<1>4. \A c \in Calls : CallSound(c)
  BY <1>1 DEF CallSound
<1>5. OneHandshake
  BY <1>1 DEF OneHandshake
<1>6. \A k \in Sockets : InRoomsOfBinding(k) /\ RevokedReached(k) /\ BannedReached(k)
  BY <1>2 DEF InRoomsOfBinding, RevokedReached, BannedReached, Connected
<1>7. QED BY <1>3, <1>4, <1>5, <1>6 DEF SocketInv

(* The rooms of a token.                                                   *)
LEMMA TokenRooms ==
    ASSUME NEW t \in Tokens
    PROVE  /\ RoomsOf(t) \subseteq Rooms /\ UserRoom \in RoomsOf(t) /\ t \in RoomsOf(t)
           /\ \A x \in Sessions \cup Tokens : t = x \/ SidOf[t] = x => x \in RoomsOf(t)
BY RoomAssumption, SidAssumption DEF RoomsOf, Rooms

(* Only the state or the messages change: what was true of the calls and   *)
(* of the sockets' rooms stays, and so do the checks under way.            *)
LEMMA StateStep ==
    ASSUME SocketInv, UNCHANGED <<sockets, call>>, StateTyped', MessagesTyped',
           \A k \in Sockets : Connected(k) =>
               /\ IsRevoked(bound[k])' => IsRevoked(bound[k]) \/ Announced(k)'
               /\ ~HasAccess' => ~HasAccess \/ Announced(k)'
               /\ Announced(k) => Announced(k)'
    PROVE  SocketInv'
<1>1. UNCHANGED <<stage, bound, owner, memberOf, timer, call>>
  BY DEF sockets
<1>2. /\ SocketsTyped' /\ call' \in [Calls -> CallRecord]
      /\ (\A c \in Calls : CallSound(c))' /\ OneHandshake'
  BY <1>1 DEF SocketInv, SocketsTyped, CallSound, OneHandshake
<1>3. (\A k \in Sockets : InRoomsOfBinding(k))'
  BY <1>1 DEF SocketInv, InRoomsOfBinding, RoomsOf
<1>4. ASSUME NEW k \in Sockets PROVE RevokedReached(k)' /\ BannedReached(k)'
  <2>1. /\ Connected(k)' = Connected(k)
        /\ WillFind(k, "revocation")' = WillFind(k, "revocation")
        /\ WillFind(k, "user")' = WillFind(k, "user")
    BY <1>1 DEF Connected, WillFind
  <2>2. RevokedReached(k) /\ BannedReached(k)
    BY DEF SocketInv
  <2>3. RevokedReached(k)'
    BY <2>1, <2>2 DEF RevokedReached
  <2>4. BannedReached(k)'
    BY <2>1, <2>2 DEF BannedReached
  <2>5. QED BY <2>3, <2>4
<1>5. QED BY <1>2, <1>3, <1>4 DEF SocketInv

(* Sockets in K are closed, and no announcement to another one is lost.    *)
LEMMA CloseStep ==
    ASSUME SocketInv, NEW K \in SUBSET Sockets, CloseSockets(K),
           UNCHANGED <<tokens, state>>, MessagesTyped',
           \A k \in Sockets \ K : Announced(k) /\ Connected(k) => Announced(k)'
    PROVE  SocketInv'
<1>1. /\ \A k \in Sockets : /\ k \in K => stage'[k] = "gone" /\ memberOf'[k] = {}
                            /\ k \notin K => /\ stage'[k] = stage[k] /\ bound'[k] = bound[k]
                                             /\ owner'[k] = owner[k]
                                             /\ memberOf'[k] = memberOf[k]
      /\ \A c \in Calls : call'[c] = IF call[c].socket \in K THEN NoCall ELSE call[c]
  BY DEF CloseSockets
<1>2. NoCall \in CallRecord /\ NoCall.step = "idle"
  BY DEF NoCall, CallRecord, CallSteps
<1>3. StateTyped'
  BY DEF SocketInv, StateTyped, tokens, state
<1>4. SocketsTyped' /\ call' \in [Calls -> CallRecord]
  BY <1>2 DEF SocketInv, SocketsTyped, CloseSockets, Stages
<1>5. ASSUME NEW c \in Calls PROVE CallSound(c)'
  <2>1. CallSound(c)
    BY DEF SocketInv
  <2>2. CASE call[c].socket \in K
    BY <1>1, <1>2, <2>2 DEF CallSound
  <2>3. CASE call[c].socket \notin K
    BY <1>1, <2>1, <2>3 DEF CallSound
  <2>4. QED BY <2>2, <2>3
<1>6. OneHandshake'
  BY <1>1, <1>2 DEF SocketInv, OneHandshake, CallSound
<1>7. ASSUME NEW k \in Sockets PROVE InRoomsOfBinding(k)'
  <2>1. InRoomsOfBinding(k)
    BY DEF SocketInv
  <2>2. QED BY <1>1, <2>1 DEF InRoomsOfBinding, RoomsOf
<1>8. ASSUME NEW k \in Sockets PROVE RevokedReached(k)' /\ BannedReached(k)'
  <2>1. CASE k \in K
    BY <1>1, <2>1 DEF RevokedReached, BannedReached, Connected
  <2>2. CASE k \notin K
    <3>1. /\ WillFind(k, "revocation") => WillFind(k, "revocation")'
          /\ WillFind(k, "user") => WillFind(k, "user")'
      BY <1>1, <2>2 DEF WillFind
    <3>2. /\ Connected(k)' = Connected(k) /\ HasAccess' = HasAccess
          /\ IsRevoked(bound[k])' = IsRevoked(bound[k])
      BY <1>1, <2>2 DEF Connected, IsRevoked, HasAccess, state
    <3>3. RevokedReached(k) /\ BannedReached(k)
      BY DEF SocketInv
    <3>4. RevokedReached(k)'
      BY <2>2, <3>1, <3>2, <3>3 DEF RevokedReached
    <3>5. BannedReached(k)'
      BY <2>2, <3>1, <3>2, <3>3 DEF BannedReached
    <3>6. QED BY <3>4, <3>5
  <2>3. QED BY <2>1, <2>2
<1>9. QED BY <1>3, <1>4, <1>5, <1>6, <1>7, <1>8 DEF SocketInv

(* The calls but c stay as they are.                                       *)
OnlyCall(c) == \A d \in Calls \ {c} : call'[d] = call[d]

LEMMA StartEffect ==
    ASSUME call \in [Calls -> CallRecord], NEW c \in Calls, NEW k \in Sockets, NEW t \in Tokens,
           StartCall(c, k, t)
    PROVE  /\ call' \in [Calls -> CallRecord] /\ OnlyCall(c)
           /\ call'[c].step = "revocation" /\ call'[c].socket = k /\ call'[c].token = t
           /\ call[c].step = "idle"
BY DEF StartCall, OnlyCall, NoCall, CallRecord, CallSteps

LEMMA GoToEffect ==
    ASSUME call \in [Calls -> CallRecord], NEW c \in Calls, NEW s \in CallSteps, GoTo(c, s)
    PROVE  /\ call' \in [Calls -> CallRecord] /\ OnlyCall(c)
           /\ call'[c].step = s /\ call'[c].socket = call[c].socket
           /\ call'[c].token = call[c].token
BY DEF GoTo, OnlyCall, CallRecord

LEMMA ReturnEffect ==
    ASSUME call \in [Calls -> CallRecord], NEW c \in Calls, Return(c)
    PROVE  /\ call' \in [Calls -> CallRecord] /\ OnlyCall(c) /\ call'[c] = NoCall
           /\ call'[c].step = "idle"
BY DEF Return, OnlyCall, NoCall, CallRecord, CallSteps

LEMMA StartConfirmEffect ==
    ASSUME call \in [Calls -> CallRecord], NEW c \in Calls, StartConfirm(c)
    PROVE  /\ call' \in [Calls -> CallRecord] /\ OnlyCall(c)
           /\ call'[c].step = "confirm" /\ call'[c].socket = call[c].socket
           /\ call'[c].token = call[c].token /\ call'[c].left = Reads
BY DEF StartConfirm, OnlyCall, CallRecord, CallSteps

LEMMA ReadEffect ==
    ASSUME call \in [Calls -> CallRecord], NEW c \in Calls, NEW what \in Reads,
           ConfirmRead(c, what)
    PROVE  /\ call' \in [Calls -> CallRecord] /\ OnlyCall(c)
           /\ call[c].step = "confirm"
           /\ call'[c].step = call[c].step /\ call'[c].socket = call[c].socket
           /\ call'[c].token = call[c].token
           /\ call'[c].left = call[c].left \ {what}
           /\ call'[c].ended = (call[c].ended \/
                  IF what = "revocation" THEN IsRevoked(call[c].token) ELSE ~HasAccess)
<1> DEFINE found == IF what = "revocation" THEN IsRevoked(call[c].token) ELSE ~HasAccess
<1>1. call[c] \in CallRecord /\ found \in BOOLEAN
  BY DEF IsRevoked, HasAccess
<1>2. call' = [call EXCEPT ![c].left = call[c].left \ {what}, ![c].ended = call[c].ended \/ found]
  BY DEF ConfirmRead
<1> HIDE DEF found
<1>3. /\ call' \in [Calls -> CallRecord] /\ OnlyCall(c)
      /\ call'[c].step = call[c].step /\ call'[c].socket = call[c].socket
      /\ call'[c].token = call[c].token
      /\ call'[c].left = call[c].left \ {what}
      /\ call'[c].ended = (call[c].ended \/ found)
  BY <1>1, <1>2 DEF OnlyCall, CallRecord
<1>4. QED BY <1>3 DEF ConfirmRead, found

(* Only call c changes, and it was not one that the sockets rely on.       *)
LEMMA CallOnly ==
    ASSUME SocketInv, NEW c \in Calls,
           UNCHANGED <<tokens, state, messages, stage, bound, owner, memberOf>>,
           timer' \in [Sockets -> Tokens \cup {None}],
           call' \in [Calls -> CallRecord], OnlyCall(c), CallSound(c)',
           call'[c].step # "idle" =>
               \/ call[c].step # "idle" /\ call'[c].socket = call[c].socket
               \/ stage[call'[c].socket] = "connected",
           \A k \in Sockets : /\ WillFind(k, "revocation") /\ IsRevoked(bound[k])
                                 => WillFind(k, "revocation")'
                              /\ WillFind(k, "user") /\ ~HasAccess => WillFind(k, "user")'
    PROVE  SocketInv'
<1>1. StateTyped' /\ MessagesTyped' /\ SocketsTyped'
  BY DEF SocketInv, StateTyped, MessagesTyped, SocketsTyped, tokens, state, messages
<1>2. ASSUME NEW d \in Calls PROVE CallSound(d)'
  BY DEF SocketInv, CallSound, OnlyCall
<1>3. OneHandshake'
  <2> SUFFICES ASSUME NEW a \in Calls, NEW b \in Calls,
                      call'[a].step # "idle", call'[b].step # "idle",
                      call'[a].socket = call'[b].socket,
                      stage[call'[a].socket] \in {"handshake", "joined"}
               PROVE  a = b
    BY DEF OneHandshake
  <2>1. /\ call[a].step # "idle" /\ call'[a].socket = call[a].socket
        /\ call[b].step # "idle" /\ call'[b].socket = call[b].socket
    BY DEF OnlyCall
  <2>2. QED BY <2>1 DEF SocketInv, OneHandshake
<1>4. ASSUME NEW k \in Sockets PROVE InRoomsOfBinding(k)'
  BY DEF SocketInv, InRoomsOfBinding, RoomsOf
<1>5. ASSUME NEW k \in Sockets PROVE RevokedReached(k)' /\ BannedReached(k)'
  <2>1. /\ Connected(k)' = Connected(k) /\ HasAccess' = HasAccess
        /\ IsRevoked(bound[k])' = IsRevoked(bound[k]) /\ Announced(k)' = Announced(k)
    BY DEF Connected, IsRevoked, HasAccess, Announced, state, messages
  <2>2. RevokedReached(k) /\ BannedReached(k)
    BY DEF SocketInv
  <2>3. RevokedReached(k)'
    BY <2>1, <2>2 DEF RevokedReached
  <2>4. BannedReached(k)'
    BY <2>1, <2>2 DEF BannedReached
  <2>5. QED BY <2>3, <2>4
<1>6. QED BY <1>1, <1>2, <1>3, <1>4, <1>5 DEF SocketInv

(* A call that is not at a check is none that a socket relies on.          *)
LEMMA NotChecking ==
    ASSUME NEW c \in Calls, OnlyCall(c), UNCHANGED owner,
           call[c].step # "confirm" \/ owner[call[c].socket] # c
              \/ (~call[c].ended /\ call[c].left = {}),
           NEW k \in Sockets
    PROVE  /\ WillFind(k, "revocation") => WillFind(k, "revocation")'
           /\ WillFind(k, "user") => WillFind(k, "user")'
BY DEF WillFind, OnlyCall

-----------------------------------------------------------------------------
(* The steps of SocketSessions.                                            *)

LEMMA RevocationStep ==
    ASSUME SocketInv,
           \/ \E x \in Rooms : Revoke(x) \/ Announce(x) \/ AnnouncementLost(x)
           \/ RevokeAllUserTokens
           \/ \E a \in {"active", "banned", "deleted"} : SetAccount(a)
           \/ \E x \in Rooms, i \in Instances : MessageLost(x, i)
           \/ \E t \in Tokens : Mint(t) \/ Expire(t)
    PROVE  SocketInv'
<1>1. StateTyped /\ MessagesTyped
  BY DEF SocketInv
<1>2. ASSUME NEW k \in Sockets, Connected(k)
      PROVE  /\ bound[k] \in Tokens /\ memberOf[k] \subseteq Rooms /\ UserRoom \in memberOf[k]
             /\ \A x \in Sessions \cup Tokens :
                    bound[k] = x \/ SidOf[bound[k]] = x => x \in memberOf[k]
             /\ InstanceOf[k] \in Instances
  BY <1>2, TokenRooms, InstanceAssumption DEF SocketInv, InRoomsOfBinding, Connected
<1>3. ASSUME NEW x \in Rooms, Revoke(x) PROVE SocketInv'
  <2>1. /\ x \in Sessions \cup minted /\ revoked' = revoked \cup {x} /\ todo' = todo \cup {x}
        /\ UNCHANGED <<minted, expired, old, account, inFlight, lost, sockets, call>>
        /\ UNCHANGED <<memberOf, bound>>
    BY <1>3 DEF Revoke, tokens, sockets
  <2>2. StateTyped' /\ MessagesTyped'
    BY <1>1, <2>1 DEF StateTyped, MessagesTyped
  <2>3. ASSUME NEW k \in Sockets, Connected(k)
        PROVE  /\ IsRevoked(bound[k])' => IsRevoked(bound[k]) \/ Announced(k)'
               /\ ~HasAccess' => ~HasAccess /\ (Announced(k) => Announced(k)')
               /\ Announced(k) => Announced(k)'
    <3>1. Announced(k) => Announced(k)'
      BY <2>1 DEF Announced
    <3>2. IsRevoked(bound[k])' => IsRevoked(bound[k]) \/ bound[k] = x \/ SidOf[bound[k]] = x
      BY <2>1 DEF IsRevoked
    <3>3. bound[k] = x \/ SidOf[bound[k]] = x => Announced(k)'
      BY <1>1, <1>2, <2>1, <2>3 DEF Announced, StateTyped
    <3>4. QED BY <2>1, <3>1, <3>2, <3>3 DEF HasAccess
  <2>4. QED BY <2>1, <2>2, <2>3, StateStep
<1>4. ASSUME NEW x \in Rooms, Announce(x) PROVE SocketInv'
  <2>1. /\ x \in todo /\ todo' = todo \ {x} /\ inFlight' = inFlight \cup ({x} \X Instances)
        /\ UNCHANGED <<minted, expired, revoked, old, account, lost, sockets, call>>
        /\ UNCHANGED <<memberOf, bound>>
    BY <1>4 DEF Announce, tokens, state, sockets
  <2>2. StateTyped' /\ MessagesTyped'
    BY <1>1, <2>1 DEF StateTyped, MessagesTyped
  <2>3. ASSUME NEW k \in Sockets, Connected(k)
        PROVE  /\ IsRevoked(bound[k])' => IsRevoked(bound[k]) \/ Announced(k)'
               /\ ~HasAccess' => ~HasAccess /\ (Announced(k) => Announced(k)')
               /\ Announced(k) => Announced(k)'
    <3>1. Announced(k) => Announced(k)'
      BY <1>2, <2>1, <2>3 DEF Announced
    <3>2. QED BY <2>1, <3>1 DEF HasAccess, IsRevoked
  <2>4. QED BY <2>1, <2>2, <2>3, StateStep
<1>5. ASSUME NEW x \in Rooms, AnnouncementLost(x) PROVE SocketInv'
  <2>1. /\ x \in todo /\ todo' = todo \ {x} /\ lost' = lost \cup {x}
        /\ UNCHANGED <<minted, expired, revoked, old, account, inFlight, sockets, call>>
        /\ UNCHANGED <<memberOf, bound>>
    BY <1>5 DEF AnnouncementLost, tokens, state, sockets
  <2>2. StateTyped' /\ MessagesTyped'
    BY <1>1, <2>1 DEF StateTyped, MessagesTyped
  <2>3. ASSUME NEW k \in Sockets, Connected(k)
        PROVE  /\ IsRevoked(bound[k])' => IsRevoked(bound[k]) \/ Announced(k)'
               /\ ~HasAccess' => ~HasAccess /\ (Announced(k) => Announced(k)')
               /\ Announced(k) => Announced(k)'
    <3>1. Announced(k) => Announced(k)'
      BY <2>1 DEF Announced
    <3>2. QED BY <2>1, <3>1 DEF HasAccess, IsRevoked
  <2>4. QED BY <2>1, <2>2, <2>3, StateStep
<1>6. CASE RevokeAllUserTokens
  <2>1. /\ old' = minted /\ todo' = todo \cup {UserRoom}
        /\ UNCHANGED <<minted, expired, revoked, account, inFlight, lost, sockets, call>>
        /\ UNCHANGED <<memberOf, bound>>
    BY <1>6 DEF RevokeAllUserTokens, tokens, sockets
  <2>2. StateTyped' /\ MessagesTyped'
    BY <1>1, <2>1 DEF StateTyped, MessagesTyped, Rooms
  <2>3. ASSUME NEW k \in Sockets, Connected(k) PROVE Announced(k)'
    BY <1>2, <2>1, <2>3 DEF Announced
  <2>4. QED BY <2>1, <2>2, <2>3, StateStep
<1>7. ASSUME NEW a \in {"active", "banned", "deleted"}, SetAccount(a) PROVE SocketInv'
  <2>1. /\ account' = a /\ todo' = IF a = "active" THEN todo ELSE todo \cup {UserRoom}
        /\ UNCHANGED <<minted, expired, revoked, old, inFlight, lost, sockets, call>>
        /\ UNCHANGED <<memberOf, bound>>
    BY <1>7 DEF SetAccount, tokens, sockets
  <2>2. StateTyped' /\ MessagesTyped'
    BY <1>1, <2>1 DEF StateTyped, MessagesTyped, Rooms
  <2>3. ASSUME NEW k \in Sockets, Connected(k)
        PROVE  /\ IsRevoked(bound[k])' => IsRevoked(bound[k])
               /\ ~HasAccess' => Announced(k)'
               /\ Announced(k) => Announced(k)'
    <3>1. (Announced(k) => Announced(k)') /\ (a # "active" => Announced(k)')
      BY <1>2, <2>1, <2>3 DEF Announced
    <3>2. QED BY <2>1, <3>1 DEF HasAccess, IsRevoked
  <2>4. QED BY <2>1, <2>2, <2>3, StateStep
<1>8. ASSUME NEW x \in Rooms, NEW i \in Instances, MessageLost(x, i) PROVE SocketInv'
  <2>1. /\ inFlight' = inFlight \ {<<x, i>>} /\ lost' = lost \cup {x}
        /\ UNCHANGED <<minted, expired, revoked, old, account, todo, sockets, call>>
        /\ UNCHANGED <<memberOf, bound>>
    BY <1>8 DEF MessageLost, tokens, state, sockets
  <2>2. StateTyped' /\ MessagesTyped'
    BY <1>1, <2>1 DEF StateTyped, MessagesTyped
  <2>3. ASSUME NEW k \in Sockets, Connected(k)
        PROVE  /\ IsRevoked(bound[k])' => IsRevoked(bound[k]) \/ Announced(k)'
               /\ ~HasAccess' => ~HasAccess /\ (Announced(k) => Announced(k)')
               /\ Announced(k) => Announced(k)'
    <3>1. Announced(k) => Announced(k)'
      BY <2>1 DEF Announced
    <3>2. QED BY <2>1, <3>1 DEF HasAccess, IsRevoked
  <2>4. QED BY <2>1, <2>2, <2>3, StateStep
<1>9. ASSUME NEW t \in Tokens, Mint(t) \/ Expire(t) PROVE SocketInv'
  <2>1. /\ UNCHANGED <<revoked, old, account, todo, inFlight, lost, sockets, call>>
        /\ UNCHANGED <<memberOf, bound>>
    BY <1>9 DEF Mint, Expire, state, messages, sockets
  <2>2. StateTyped' /\ MessagesTyped'
    BY <1>1, <1>9, <2>1 DEF StateTyped, MessagesTyped, Mint, Expire
  <2>3. ASSUME NEW k \in Sockets
        PROVE  /\ IsRevoked(bound[k])' => IsRevoked(bound[k])
               /\ ~HasAccess' => ~HasAccess
               /\ Announced(k) => Announced(k)'
    BY <2>1 DEF HasAccess, IsRevoked, Announced
  <2>4. QED BY <2>1, <2>2, <2>3, StateStep
<1>10. QED BY <1>3, <1>4, <1>5, <1>6, <1>7, <1>8, <1>9

(* A call that authenticates, or ends without closing its socket.          *)
LEMMA AuthenticateStep ==
    ASSUME SocketInv, NEW c \in Calls,
           \/ \E k \in Sockets, t \in Tokens : Reauthenticate(c, k, t)
           \/ ReadRevocation(c) \/ ReadUser(c) \/ Confirm(c) \/ ConfirmFails(c)
    PROVE  SocketInv'
<1>1. /\ call \in [Calls -> CallRecord] /\ CallSound(c) /\ MessagesTyped
      /\ SocketsTyped /\ timer \in [Sockets -> Tokens \cup {None}]
  BY DEF SocketInv, SocketsTyped
<1>2. ASSUME Return(c), UNCHANGED <<tokens, state, messages, sockets>>,
             call[c].step # "confirm" \/ owner[call[c].socket] # c
                \/ (~call[c].ended /\ call[c].left = {})
      PROVE  SocketInv'
  <2>1. /\ call' \in [Calls -> CallRecord] /\ OnlyCall(c) /\ call'[c] = NoCall
        /\ call'[c].step = "idle" /\ UNCHANGED <<stage, bound, owner, memberOf, timer>>
    BY <1>1, <1>2, ReturnEffect DEF sockets
  <2>2. CallSound(c)'
    BY <2>1 DEF CallSound
  <2>3. QED BY <1>1, <1>2, <2>1, <2>2, NotChecking, CallOnly
<1>3. ASSUME NEW K \in SUBSET Sockets, CloseSockets(K), UNCHANGED <<tokens, state, messages>>
      PROVE  SocketInv'
  <2>1. MessagesTyped' /\ \A k \in Sockets \ K : Announced(k) => Announced(k)'
    BY <1>1, <1>3 DEF MessagesTyped, messages, Announced, CloseSockets
  <2>2. QED BY <1>3, <2>1, CloseStep
<1>4. ASSUME NEW s \in {"user", "bind"}, call[c].step \in {"revocation", "user"}, GoTo(c, s),
             UNCHANGED <<tokens, state, messages, sockets>>
      PROVE  SocketInv'
  <2>1. /\ call' \in [Calls -> CallRecord] /\ OnlyCall(c) /\ call'[c].step = s
        /\ call'[c].socket = call[c].socket /\ call'[c].token = call[c].token
        /\ UNCHANGED <<stage, bound, owner, memberOf, timer>>
    BY <1>1, <1>4, GoToEffect DEF sockets, CallSteps
  <2>2. CallSound(c)'
    BY <1>1, <1>4, <2>1 DEF CallSound
  <2>3. QED BY <1>1, <1>4, <2>1, <2>2, NotChecking, CallOnly
<1>5. ASSUME Reject(c), call[c].step \in {"revocation", "user"},
             UNCHANGED <<tokens, state, messages>>
      PROVE  SocketInv'
  <2>1. call[c].socket \in Sockets
    BY <1>1, <1>5 DEF CallSound
  <2>2. QED BY <1>2, <1>3, <1>5, <2>1 DEF Reject
<1>6. ASSUME NEW k \in Sockets, NEW t \in Tokens, Reauthenticate(c, k, t) PROVE SocketInv'
  <2>1. /\ call' \in [Calls -> CallRecord] /\ OnlyCall(c) /\ stage[k] = "connected"
        /\ call'[c].step = "revocation" /\ call'[c].socket = k /\ call'[c].token = t
        /\ call[c].step = "idle"
        /\ UNCHANGED <<tokens, state, messages, stage, bound, owner, memberOf, timer>>
    <3>1. StartCall(c, k, t) /\ stage[k] = "connected" /\ UNCHANGED sockets
      BY <1>6 DEF Reauthenticate
    <3>2. UNCHANGED <<tokens, state, messages>>
      BY <3>1 DEF StartCall
    <3>3. QED BY <1>1, <3>1, <3>2, StartEffect DEF sockets
  <2>2. CallSound(c)'
    BY <2>1 DEF CallSound
  <2>3. QED BY <1>1, <2>1, <2>2, NotChecking, CallOnly
<1>7. CASE ReadRevocation(c)
  BY <1>4, <1>5, <1>7 DEF ReadRevocation
<1>8. CASE ReadUser(c)
  BY <1>4, <1>5, <1>8 DEF ReadUser
<1>9. ASSUME NEW what \in Reads, ConfirmRead(c, what) PROVE SocketInv'
  <2> DEFINE found == IF what = "revocation" THEN IsRevoked(call[c].token) ELSE ~HasAccess
  <2>1. /\ call' \in [Calls -> CallRecord] /\ OnlyCall(c) /\ call[c].step = "confirm"
        /\ call'[c].step = call[c].step /\ call'[c].socket = call[c].socket
        /\ call'[c].token = call[c].token /\ call'[c].left = call[c].left \ {what}
        /\ call'[c].ended = (call[c].ended \/ found)
        /\ UNCHANGED <<tokens, state, messages, stage, bound, owner, memberOf, timer>>
    BY <1>1, <1>9, ReadEffect DEF ConfirmRead, sockets
  <2>2. CallSound(c)'
    BY <1>1, <2>1 DEF CallSound
  <2>3. ASSUME NEW k \in Sockets, WillFind(k, "revocation"), IsRevoked(bound[k])
        PROVE  WillFind(k, "revocation")'
    <3>1. PICK d \in Calls : /\ owner[k] = d /\ call[d].socket = k /\ call[d].step = "confirm"
                             /\ call[d].ended \/ "revocation" \in call[d].left
      BY <2>3 DEF WillFind
    <3>2. CASE d # c
      BY <2>1, <3>1, <3>2 DEF OnlyCall, WillFind
    <3>3. CASE d = c
      <4>1. call[c].token = bound[k]
        BY <1>1, <3>1, <3>3 DEF CallSound
      <4>2. call'[c].ended \/ "revocation" \in call'[c].left
        BY <2>1, <2>3, <3>1, <3>3, <4>1
      <4>3. QED BY <2>1, <3>1, <3>3, <4>2 DEF WillFind
    <3>4. QED BY <3>2, <3>3
  <2>4. ASSUME NEW k \in Sockets, WillFind(k, "user"), ~HasAccess PROVE WillFind(k, "user")'
    <3>1. PICK d \in Calls : /\ owner[k] = d /\ call[d].socket = k /\ call[d].step = "confirm"
                             /\ call[d].ended \/ "user" \in call[d].left
      BY <2>4 DEF WillFind
    <3>2. CASE d # c
      BY <2>1, <3>1, <3>2 DEF OnlyCall, WillFind
    <3>3. CASE d = c
      <4>1. call'[c].ended \/ "user" \in call'[c].left
        BY <2>1, <2>4, <3>1, <3>3 DEF Reads
      <4>2. QED BY <2>1, <3>1, <3>3, <4>1 DEF WillFind
    <3>4. QED BY <3>2, <3>3
  <2>5. QED BY <1>1, <2>1, <2>2, <2>3, <2>4, CallOnly
<1>10. ASSUME call[c].step = "confirm" PROVE call[c].socket \in Sockets
  BY <1>1, <1>10 DEF CallSound
<1>11. CASE Confirmed(c)
  <2>1. /\ call[c].step = "confirm" /\ call[c].left = {}
        /\ UNCHANGED <<tokens, state, messages>>
        /\ \/ CloseSockets({call[c].socket})
           \/ /\ ~(owner[call[c].socket] = c /\ call[c].ended)
              /\ Return(c) /\ UNCHANGED sockets
    BY <1>11 DEF Confirmed
  <2>2. QED BY <1>2, <1>3, <1>10, <2>1
<1>12. CASE ConfirmFails(c)
  BY <1>3, <1>10, <1>12 DEF ConfirmFails
<1>13. QED BY <1>6, <1>7, <1>8, <1>9, <1>11, <1>12 DEF Confirm

(* Socket k and its call c change, and nothing else of the others.         *)
OnlySocket(k) ==
    \A j \in Sockets \ {k} : /\ stage'[j] = stage[j] /\ bound'[j] = bound[j]
                             /\ owner'[j] = owner[j] /\ memberOf'[j] = memberOf[j]

LEMMA SocketOnly ==
    ASSUME SocketInv, NEW c \in Calls, NEW k \in Sockets,
           UNCHANGED <<tokens, state, messages>>, SocketsTyped',
           call' \in [Calls -> CallRecord], OnlyCall(c), OnlySocket(k),
           call[c].step = "idle" \/ call[c].socket = k,
           call'[c].socket = k, call'[c].step # "idle",
           \A d \in Calls : call'[d].step # "idle" /\ call'[d].socket = k => CallSound(d)',
           stage'[k] \in {"handshake", "joined"} =>
               \A d \in Calls \ {c} : call[d].step # "idle" => call[d].socket # k,
           InRoomsOfBinding(k)', RevokedReached(k)', BannedReached(k)'
    PROVE  SocketInv'
<1>1. /\ StateTyped' /\ MessagesTyped' /\ UNCHANGED <<revoked, old, account, todo, inFlight, lost>>
      /\ \A d \in Calls : CallSound(d)
  BY DEF SocketInv, StateTyped, MessagesTyped, tokens, state, messages
<1>2. ASSUME NEW d \in Calls PROVE CallSound(d)'
  <2>1. CASE call'[d].step # "idle" /\ call'[d].socket = k
    BY <2>1
  <2>2. CASE call'[d].step # "idle" /\ call'[d].socket # k
    BY <1>1, <2>2 DEF CallSound, OnlyCall, OnlySocket
  <2>3. CASE call'[d].step = "idle" /\ d # c
    BY <1>1, <2>3 DEF CallSound, OnlyCall
  <2>4. QED BY <2>1, <2>2, <2>3
<1>3. OneHandshake'
  <2> SUFFICES ASSUME NEW a \in Calls, NEW b \in Calls,
                      call'[a].step # "idle", call'[b].step # "idle",
                      call'[a].socket = call'[b].socket,
                      stage'[call'[a].socket] \in {"handshake", "joined"}
               PROVE  a = b
    BY DEF OneHandshake
  <2>1. CASE call'[a].socket = k
    BY <2>1 DEF OnlyCall
  <2>2. CASE call'[a].socket # k
    <3>1. a # c /\ b # c /\ call'[a] = call[a] /\ call'[b] = call[b]
      BY <2>2 DEF OnlyCall
    <3>2. call[a].socket \in Sockets \ {k}
      BY <1>1, <2>2, <3>1 DEF CallSound
    <3>3. stage[call[a].socket] \in {"handshake", "joined"}
      BY <3>1, <3>2 DEF OnlySocket
    <3>4. QED BY <3>1, <3>3 DEF SocketInv, OneHandshake
  <2>3. QED BY <2>1, <2>2
<1>4. ASSUME NEW j \in Sockets \ {k}
      PROVE  InRoomsOfBinding(j)' /\ RevokedReached(j)' /\ BannedReached(j)'
  <2>1. /\ WillFind(j, "revocation") => WillFind(j, "revocation")'
        /\ WillFind(j, "user") => WillFind(j, "user")'
    BY DEF WillFind, OnlyCall, OnlySocket
  <2>2. /\ Connected(j)' = Connected(j) /\ HasAccess' = HasAccess
        /\ IsRevoked(bound[j])' = IsRevoked(bound[j]) /\ Announced(j)' = Announced(j)
    BY <1>1 DEF Connected, IsRevoked, HasAccess, Announced, OnlySocket
  <2>3. InRoomsOfBinding(j) /\ RevokedReached(j) /\ BannedReached(j)
    BY DEF SocketInv
  <2>4. InRoomsOfBinding(j)'
    BY <2>3 DEF InRoomsOfBinding, RoomsOf, OnlySocket
  <2>5. RevokedReached(j)'
    BY <2>1, <2>2, <2>3 DEF RevokedReached
  <2>6. BannedReached(j)'
    BY <2>1, <2>2, <2>3 DEF BannedReached
  <2>7. QED BY <2>4, <2>5, <2>6
<1>5. QED BY <1>1, <1>2, <1>3, <1>4 DEF SocketInv

(* A check that starts will find what is the case now.                     *)
LEMMA FreshCheck ==
    ASSUME NEW c \in Calls, NEW k \in Sockets, owner'[k] = c,
           call'[c].socket = k, call'[c].step = "confirm", call'[c].left = Reads
    PROVE  RevokedReached(k)' /\ BannedReached(k)'
BY DEF RevokedReached, BannedReached, WillFind, Reads

(* What binding a token does.                                              *)
LEMMA BindEffect ==
    ASSUME SocketInv, NEW c \in Calls, NEW k \in Sockets, NEW left, call[c].token \in Tokens,
           BindToken(c, k, left), stage' \in [Sockets -> Stages],
           \A j \in Sockets \ {k} : stage'[j] = stage[j]
    PROVE  /\ SocketsTyped' /\ OnlySocket(k)
           /\ bound'[k] = call[c].token /\ owner'[k] = c
           /\ memberOf'[k] = (memberOf[k] \ left) \cup RoomsOf(call[c].token)
<1>1. RoomsOf(call[c].token) \subseteq Rooms
  BY TokenRooms
<1>2. SocketsTyped
  BY DEF SocketInv
<1>3. QED BY <1>1, <1>2 DEF BindToken, SocketsTyped, OnlySocket

LEMMA BindStep ==
    ASSUME SocketInv, NEW c \in Calls,
           \/ \E k \in Sockets, t \in Tokens : Handshake(c, k, t)
           \/ Attach(c) \/ HandleConnection(c) \/ Rebind(c)
    PROVE  SocketInv'
<1>1. /\ call \in [Calls -> CallRecord] /\ \A d \in Calls : CallSound(d)
      /\ SocketsTyped /\ OneHandshake
  BY DEF SocketInv
<1>2. ASSUME NEW k \in Sockets, NEW t \in Tokens, Handshake(c, k, t) PROVE SocketInv'
  <2>1. /\ stage[k] = "gone" /\ StartCall(c, k, t) /\ stage' = [stage EXCEPT ![k] = "handshake"]
        /\ UNCHANGED <<bound, owner, memberOf, timer>>
    BY <1>2 DEF Handshake
  <2>2. /\ call' \in [Calls -> CallRecord] /\ OnlyCall(c) /\ call[c].step = "idle"
        /\ call'[c].step = "revocation" /\ call'[c].socket = k /\ call'[c].token = t
    BY <1>1, <2>1, StartEffect
  <2>3. UNCHANGED <<tokens, state, messages>>
    BY <2>1 DEF StartCall
  <2>4. SocketsTyped' /\ OnlySocket(k) /\ stage'[k] = "handshake"
    BY <1>1, <2>1 DEF SocketsTyped, OnlySocket, Stages
  <2>5. \A d \in Calls : call[d].step # "idle" => call[d].socket # k
    BY <1>1, <2>1 DEF CallSound, CallRecord, CallSteps
  <2>6. \A d \in Calls : call'[d].step # "idle" /\ call'[d].socket = k => CallSound(d)'
    BY <2>2, <2>4, <2>5 DEF CallSound, OnlyCall
  <2>7. InRoomsOfBinding(k)' /\ RevokedReached(k)' /\ BannedReached(k)'
    BY <2>1, <2>4 DEF SocketInv, InRoomsOfBinding, RevokedReached, BannedReached, Connected
  <2>8. QED BY <2>2, <2>3, <2>4, <2>5, <2>6, <2>7, SocketOnly
<1>3. CASE Attach(c)
  <2>0. PICK k \in Sockets : call[c].socket = k
    BY <1>1, <1>3 DEF CallSound, Attach
  <2>1. /\ call[c].step = "bind" /\ stage[k] = "handshake" /\ BindToken(c, k, {})
        /\ stage' = [stage EXCEPT ![k] = "joined"] /\ GoTo(c, "connect")
        /\ UNCHANGED <<tokens, state, messages>>
    BY <1>3, <2>0 DEF Attach
  <2>2. k \in Sockets /\ call[c].token \in Tokens
    BY <1>1, <2>0, <2>1 DEF CallSound
  <2>3. /\ call' \in [Calls -> CallRecord] /\ OnlyCall(c) /\ call'[c].step = "connect"
        /\ call'[c].socket = k /\ call'[c].token = call[c].token
    BY <1>1, <2>0, <2>1, GoToEffect DEF CallSteps
  <2>4. /\ stage' \in [Sockets -> Stages] /\ stage'[k] = "joined"
        /\ \A j \in Sockets \ {k} : stage'[j] = stage[j]
    BY <1>1, <2>1, <2>2 DEF SocketsTyped, Stages
  <2>5. /\ SocketsTyped' /\ OnlySocket(k) /\ bound'[k] = call[c].token /\ owner'[k] = c
        /\ memberOf'[k] = memberOf[k] \cup RoomsOf(call[c].token)
    BY <2>1, <2>2, <2>4, BindEffect
  <2>6. \A d \in Calls \ {c} : call[d].step # "idle" => call[d].socket # k
    BY <1>1, <2>0, <2>1 DEF OneHandshake
  <2>7. \A d \in Calls : call'[d].step # "idle" /\ call'[d].socket = k => CallSound(d)'
    BY <2>2, <2>3, <2>4, <2>5, <2>6 DEF CallSound, OnlyCall
  <2>8. memberOf[k] = {}
    BY <2>1, <2>2 DEF SocketInv, InRoomsOfBinding
  <2>9. InRoomsOfBinding(k)' /\ RevokedReached(k)' /\ BannedReached(k)'
    BY <2>2, <2>4, <2>5, <2>8
    DEF InRoomsOfBinding, RevokedReached, BannedReached, Connected, RoomsOf
  <2>10. QED BY <2>0, <2>1, <2>2, <2>3, <2>5, <2>6, <2>7, <2>9, SocketOnly
<1>4. CASE HandleConnection(c)
  <2>0. PICK k \in Sockets : call[c].socket = k
    BY <1>1, <1>4 DEF CallSound, HandleConnection
  <2>1. /\ call[c].step = "connect" /\ stage' = [stage EXCEPT ![k] = "connected"] /\ StartConfirm(c)
        /\ UNCHANGED <<tokens, state, messages, bound, owner, memberOf, timer>>
    BY <1>4, <2>0 DEF HandleConnection
  <2>2. /\ k \in Sockets /\ call[c].token \in Tokens /\ stage[k] = "joined"
        /\ owner[k] = c /\ bound[k] = call[c].token
    BY <1>1, <2>0, <2>1 DEF CallSound
  <2>3. /\ call' \in [Calls -> CallRecord] /\ OnlyCall(c) /\ call'[c].step = "confirm"
        /\ call'[c].socket = k /\ call'[c].token = call[c].token /\ call'[c].left = Reads
    BY <1>1, <2>0, <2>1, StartConfirmEffect
  <2>4. /\ SocketsTyped' /\ OnlySocket(k) /\ stage'[k] = "connected"
    BY <1>1, <2>1, <2>2 DEF SocketsTyped, Stages, OnlySocket
  <2>5. \A d \in Calls \ {c} : call[d].step # "idle" => call[d].socket # k
    BY <1>1, <2>0, <2>1, <2>2 DEF OneHandshake
  <2>6. \A d \in Calls : call'[d].step # "idle" /\ call'[d].socket = k => CallSound(d)'
    BY <2>1, <2>2, <2>3, <2>4, <2>5 DEF CallSound, OnlyCall
  <2>7. InRoomsOfBinding(k)'
    BY <2>1, <2>2, <2>4 DEF SocketInv, InRoomsOfBinding, RoomsOf
  <2>8. RevokedReached(k)' /\ BannedReached(k)'
    BY <2>1, <2>2, <2>3, FreshCheck
  <2>9. QED BY <2>0, <2>1, <2>2, <2>3, <2>4, <2>5, <2>6, <2>7, <2>8, SocketOnly
<1>5. CASE Rebind(c)
  <2>0. PICK k \in Sockets : call[c].socket = k
    BY <1>1, <1>5 DEF CallSound, Rebind
  <2>1. /\ call[c].step = "bind" /\ stage[k] = "connected"
        /\ BindToken(c, k, RoomsOf(bound[k]) \ RoomsOf(call[c].token)) /\ StartConfirm(c)
        /\ UNCHANGED <<tokens, state, messages, stage>>
    BY <1>5, <2>0 DEF Rebind, RoomsToLeave
  <2>2. k \in Sockets /\ call[c].token \in Tokens
    BY <1>1, <2>0, <2>1 DEF CallSound
  <2>3. /\ call' \in [Calls -> CallRecord] /\ OnlyCall(c) /\ call'[c].step = "confirm"
        /\ call'[c].socket = k /\ call'[c].token = call[c].token /\ call'[c].left = Reads
    BY <1>1, <2>0, <2>1, StartConfirmEffect
  <2>4. stage' \in [Sockets -> Stages]
    BY <1>1, <2>1 DEF SocketsTyped
  <2>5. /\ SocketsTyped' /\ OnlySocket(k) /\ bound'[k] = call[c].token /\ owner'[k] = c
        /\ memberOf'[k] = (memberOf[k] \ (RoomsOf(bound[k]) \ RoomsOf(call[c].token)))
                              \cup RoomsOf(call[c].token)
    BY <2>1, <2>2, <2>4, BindEffect
  <2>6. memberOf[k] = RoomsOf(bound[k])
    BY <2>1, <2>2 DEF SocketInv, InRoomsOfBinding
  <2>7. memberOf'[k] = RoomsOf(call[c].token)
    BY <2>5, <2>6
  <2>8. ASSUME NEW d \in Calls, call'[d].step # "idle", call'[d].socket = k PROVE CallSound(d)'
    <3>1. CASE d = c
      BY <2>1, <2>2, <2>3, <2>5, <3>1 DEF CallSound
    <3>2. CASE d # c
      <4>1. CallSound(d) /\ call'[d] = call[d]
        BY <1>1, <2>3, <3>2 DEF OnlyCall
      <4>2. QED BY <2>1, <2>5, <2>8, <3>2, <4>1 DEF CallSound
    <3>3. QED BY <3>1, <3>2
  <2>9. InRoomsOfBinding(k)'
    BY <2>1, <2>2, <2>5, <2>7 DEF InRoomsOfBinding, RoomsOf
  <2>10. RevokedReached(k)' /\ BannedReached(k)'
    BY <2>2, <2>3, <2>5, FreshCheck
  <2>11. QED BY <2>0, <2>1, <2>2, <2>3, <2>4, <2>5, <2>8, <2>9, <2>10, SocketOnly
<1>6. QED BY <1>2, <1>3, <1>4, <1>5

(* Sockets that close, or only set their timer.                            *)
LEMMA EndStep ==
    ASSUME SocketInv,
           \/ \E x \in Rooms, i \in Instances : Deliver(x, i)
           \/ \E k \in Sockets : OnExpiry(k) \/ ClientLeaves(k)
           \/ \E i \in Instances : InstanceStops(i)
    PROVE  SocketInv'
<1>1. MessagesTyped /\ SocketsTyped /\ call \in [Calls -> CallRecord]
  BY DEF SocketInv
<1>2. ASSUME NEW x \in Rooms, NEW i \in Instances, Deliver(x, i) PROVE SocketInv'
  <2>1. /\ inFlight' = inFlight \ {<<x, i>>} /\ CloseSockets(Hit(x, i))
        /\ UNCHANGED <<tokens, state, todo, lost>>
    BY <1>2 DEF Deliver
  <2>2. MessagesTyped' /\ Hit(x, i) \in SUBSET Sockets
    BY <1>1, <2>1 DEF MessagesTyped, Hit
  <2>3. ASSUME NEW k \in Sockets \ Hit(x, i), Announced(k), Connected(k) PROVE Announced(k)'
    <3>1. memberOf'[k] = memberOf[k]
      BY <2>1 DEF CloseSockets
    <3>2. InstanceOf[k] # i \/ x \notin memberOf[k]
      BY <2>3 DEF Hit, Connected
    <3>3. QED BY <2>1, <2>3, <3>1, <3>2 DEF Announced
  <2>4. QED BY <2>1, <2>2, <2>3, CloseStep
<1>3. ASSUME NEW K \in SUBSET Sockets, CloseSockets(K), UNCHANGED <<tokens, state, messages>>
      PROVE  SocketInv'
  <2>1. MessagesTyped' /\ \A k \in Sockets \ K : Announced(k) => Announced(k)'
    BY <1>1, <1>3 DEF MessagesTyped, messages, Announced, CloseSockets
  <2>2. QED BY <1>3, <2>1, CloseStep
<1>4. ASSUME NEW k \in Sockets, OnExpiry(k) PROVE SocketInv'
  <2>1. CASE bound[k] \in expired
    BY <1>3, <1>4, <2>1 DEF OnExpiry
  <2>2. CASE bound[k] \notin expired
    <3>1. /\ timer' = [timer EXCEPT ![k] = bound[k]]
          /\ UNCHANGED <<tokens, state, messages, stage, bound, owner, memberOf, call>>
      BY <1>4, <2>2 DEF OnExpiry
    <3>2. StateTyped' /\ MessagesTyped' /\ SocketsTyped'
      BY <3>1 DEF SocketInv, StateTyped, MessagesTyped, SocketsTyped, tokens, state, messages
    <3>3. /\ (\A c \in Calls : CallSound(c))' /\ OneHandshake' /\ call' \in [Calls -> CallRecord]
          /\ (\A j \in Sockets : InRoomsOfBinding(j))'
      BY <3>1 DEF SocketInv, CallSound, OneHandshake, InRoomsOfBinding, RoomsOf
    <3>4. (\A j \in Sockets : RevokedReached(j))' /\ (\A j \in Sockets : BannedReached(j))'
      BY <3>1 DEF SocketInv, RevokedReached, BannedReached, WillFind, Announced, Connected,
                  IsRevoked, HasAccess, state, messages
    <3>5. QED BY <3>2, <3>3, <3>4 DEF SocketInv
  <2>3. QED BY <2>1, <2>2
<1>5. ASSUME NEW k \in Sockets, ClientLeaves(k) PROVE SocketInv'
  BY <1>3, <1>5 DEF ClientLeaves
<1>6. ASSUME NEW i \in Instances, InstanceStops(i) PROVE SocketInv'
  <2> DEFINE K == {k \in Sockets : InstanceOf[k] = i}
  <2>1. /\ CloseSockets(K) /\ inFlight' = {m \in inFlight : m[2] # i}
        /\ UNCHANGED <<tokens, state, todo, lost>> /\ K \in SUBSET Sockets
    BY <1>6 DEF InstanceStops
  <2>2. MessagesTyped'
    BY <1>1, <2>1 DEF MessagesTyped
  <2>3. ASSUME NEW k \in Sockets \ K, Announced(k) PROVE Announced(k)'
    BY <2>1, <2>3 DEF Announced, CloseSockets
  <2>4. QED BY <2>1, <2>2, <2>3, CloseStep
<1>7. QED BY <1>2, <1>4, <1>5, <1>6

LEMMA SocketStep == SocketInv /\ [SocketNext]_socketVars => SocketInv'
<1> SUFFICES ASSUME SocketInv, [SocketNext]_socketVars PROVE SocketInv'
  OBVIOUS
<1>1. CASE UNCHANGED socketVars
  <2>1. UNCHANGED <<tokens, state, messages, sockets, call>>
    BY <1>1 DEF socketVars
  <2>2. StateTyped' /\ MessagesTyped'
    BY <2>1 DEF SocketInv, StateTyped, MessagesTyped, tokens, state, messages
  <2>3. \A k \in Sockets : /\ IsRevoked(bound[k])' => IsRevoked(bound[k])
                           /\ ~HasAccess' => ~HasAccess
                           /\ Announced(k) => Announced(k)'
    BY <2>1 DEF IsRevoked, HasAccess, Announced, state, messages, sockets
  <2>4. QED BY <2>1, <2>2, <2>3, StateStep
<1>2. ASSUME NEW c \in Calls, Authenticate(c) \/ Confirm(c) \/ ConfirmFails(c) PROVE SocketInv'
  BY <1>2, AuthenticateStep, BindStep DEF Authenticate
<1>3. CASE SocketNext
  BY <1>2, <1>3, RevocationStep, EndStep DEF SocketNext
<1>4. QED BY <1>1, <1>3

LEMMA SocketAlways == SocketSpec => []SocketInv
BY SocketInitial, SocketStep, PTL DEF SocketSpec

LEMMA SocketInvTypes == SocketInv => SocketTypeOK
BY DEF SocketInv, StateTyped, MessagesTyped, SocketsTyped, SocketTypeOK

(* The variables of SocketSessions have their types.                       *)
THEOREM SocketTypeCorrect == SocketSpec => []SocketTypeOK
BY SocketAlways, SocketInvTypes, PTL

(* No connected socket of an ended session is overlooked: a disconnect is  *)
(* prepared, on its way or was lost, or the check of its own binding will  *)
(* find the session ended (terminateSessionsInRoom, confirmBinding).       *)
THEOREM RevocationsReachSockets == SocketSpec => []EndedSocketIsReached
<1>1. ASSUME SocketInv, NEW k \in Sockets, Connected(k), SessionEnded(bound[k])
      PROVE  Announced(k) \/ WillBeFound(k)
  <2>1. CASE Announced(k)
    BY <2>1
  <2>2. ASSUME NEW what \in Reads, WillFind(k, what),
               IF what = "revocation" THEN IsRevoked(bound[k]) ELSE ~HasAccess
        PROVE  WillBeFound(k)
    BY <2>2 DEF WillFind, WillBeFound, Reads
  <2>3. QED BY <1>1, <2>1, <2>2 DEF SocketInv, RevokedReached, BannedReached, SessionEnded, Reads
<1>2. SocketInv => EndedSocketIsReached
  BY <1>1 DEF EndedSocketIsReached
<1>3. QED BY <1>2, SocketAlways, PTL

(* The disconnect of a session or of a token only closes sockets that are  *)
(* bound to it: reauthenticate leaves the rooms of the token before.       *)
THEOREM DisconnectsHitTheirOwn == SocketSpec => RevocationHitsOnlyItsOwn
<1>1. SocketInv => \A x \in Rooms \ {UserRoom}, i \in Instances :
                      Deliver(x, i) => \A k \in Hit(x, i) : x \in RoomsOf(bound[k])
  BY DEF SocketInv, InRoomsOfBinding, Hit
<1>2. QED BY <1>1, SocketAlways, PTL DEF SocketSpec, RevocationHitsOnlyItsOwn

(* Every variable of the three models of MCSocketRooms has its type, in    *)
(* whichever of them the behaviour is.                                     *)
THEOREM AllTypesCorrect == AllSpec => []AllTypesOK
<1> DEFINE I == RoomsInv /\ SocketInv /\ Inv
<1>1. AllInit => I
  BY RoomsInitial, SocketInitial, InitInv DEF AllInit
<1>2. I /\ [AllNext]_<<model, vars, socketVars, windowVars>> => I'
  <2> SUFFICES ASSUME I, [AllNext]_<<model, vars, socketVars, windowVars>> PROVE I'
    OBVIOUS
  <2>1. /\ [Next]_vars /\ [SocketNext]_socketVars /\ [WindowNext]_windowVars
    BY DEF AllNext
  <2>2. QED BY <2>1, RoomsStep, SocketStep, InvStep
<1>3. I => AllTypesOK
  BY SocketInvTypes DEF RoomsInv, Inv, AllTypesOK
<1>4. QED BY <1>1, <1>2, <1>3, PTL DEF AllSpec
=============================================================================

------------------------- MODULE RoomSubscriptions -------------------------
(***************************************************************************)
(* Which rooms a socket is in: SUBSCRIBE_ALL (rooms/rooms.service.ts) and  *)
(* rooms/room-subscription.handler.ts, which follows the changes of        *)
(* membership, channel lists and visibility.  One user with one socket,    *)
(* one community and one channel of it.                                    *)
(*                                                                         *)
(* A handler is one request with the domain event it emits; an action is   *)
(* what it does up to its next await.  The rule for who sees a channel is  *)
(* CanViewChannel of ChannelPermissions.                                   *)
(***************************************************************************)
EXTENDS ChannelPermissions, Naturals

CONSTANTS
    Handlers,
    User,               \* a member of Users, no instance owner
    OverwriteChoices,   \* what replaceOverwrites may store
    MaxOps              \* requests and connections in one behaviour

ASSUME BoundAssumption == MaxOps \in Nat
ASSUME ChoiceAssumption ==
    /\ User \in Users
    /\ \A O \in OverwriteChoices :
          O \subseteq Overwrites /\ \A o \in O : o.allow \cup o.deny \subseteq OverwritableActions

VARIABLES
    member,     \* has a Membership row
    listed,     \* has a ChannelMembership row
    private,    \* Channel.isPrivate
    overwrites, \* the channel's overwrites
    rooms,      \* the rooms of the socket; empty while it is not connected
    subscribed, \* SUBSCRIBE_ALL has finished on this connection
    step,       \* where each handler is
    seen,       \* what each handler has read: "member", "visible", "private"
    ops,        \* requests and connections so far
    outdated,   \* history: handlers that another change has overtaken
    overtaken   \* history: rooms left wrong by such a handler

dbVars == <<member, listed, private, overwrites>>
vars == <<dbVars, rooms, subscribed, step, seen, ops, outdated, overtaken>>

Steps == {"idle", "userRoom", "memberships", "communityRoom", "visibleIds", "channelRoom",
          "general", "onCreated", "createdJoin", "onRemoved", "addChecked", "onListed",
          "removeChecked", "onUnlisted", "toPrivate", "toPublic",
          "plan", "everyone", "members", "viewers", "apply"}
Syncing == {"plan", "everyone", "members", "viewers", "apply"}

TypeOK ==
    /\ member \in BOOLEAN /\ listed \in BOOLEAN /\ private \in BOOLEAN
    /\ overwrites \in OverwriteChoices
    /\ rooms \subseteq {"user", "community", "channel"} /\ (rooms # {} => "user" \in rooms)
    /\ subscribed \in BOOLEAN /\ (subscribed => rooms # {})
    /\ step \in [Handlers -> Steps]
    /\ seen \in [Handlers -> SUBSET {"member", "visible", "private"}]
    /\ ops \in 0..MaxOps
    /\ outdated \subseteq Handlers
    /\ overtaken \subseteq {"community", "channel"}

Init ==
    /\ member \in BOOLEAN /\ listed \in BOOLEAN /\ private \in BOOLEAN
    /\ listed => member
    /\ overwrites \in OverwriteChoices
    /\ rooms = {} /\ subscribed = FALSE
    /\ step = [h \in Handlers |-> "idle"]
    /\ seen = [h \in Handlers |-> {}]
    /\ ops = 0 /\ outdated = {} /\ overtaken = {}

-----------------------------------------------------------------------------
(* baseActions and roles matter to overwrites of READ_CHANNEL only, which  *)
(* the API does not accept.                                                *)
Input ==
    [user |-> User, base |-> {}, roles |-> {}, member |-> member, private |-> private,
     listed |-> listed, overwrites |-> overwrites, timedOut |-> FALSE]

CanView == CanViewChannel(Input)
May == {r \in {"community", "channel"} : IF r = "community" THEN member ELSE CanView}

Begin(h, s) ==
    /\ step[h] = "idle" /\ ops < MaxOps
    /\ step' = [step EXCEPT ![h] = s]
    /\ ops' = ops + 1

Go(h, from, to) == step[h] = from /\ step' = [step EXCEPT ![h] = to]

Fresh(h) == outdated' = outdated \ {h}

(* A commit overtakes every other handler on its way; a handler whose      *)
(* first statement it is has not been overtaken itself.                    *)
OnTheirWay(h) == {k \in Handlers \ {h} : step[k] # "idle"}
Commit(h) == outdated' = outdated \cup OnTheirWay(h)
CommitFirst(h) == outdated' = (outdated \ {h}) \cup OnTheirWay(h)

(* A handler acts on the rooms `rs': each is overtaken if that leaves it   *)
(* wrong and something has changed since the handler looked.               *)
Act(h, rs) ==
    overtaken' =
        {r \in overtaken \cup (IF h \in outdated THEN rs ELSE {}) :
            (r \in rooms') # (r \in May)}

(* A bug: rooms joined for a socket that has left.                         *)
MutantJoinGone(rs) == rooms' = rooms \cup rs

(* socketsJoin and socketsLeave of the sockets in the user's room.         *)
JoinSockets(rs) == rooms' = IF "user" \in rooms THEN rooms \cup rs ELSE rooms
LeaveSockets(rs) == rooms' = rooms \ rs

-----------------------------------------------------------------------------
(* A connection: the handshake joins the user's room.                      *)
Connect ==
    /\ rooms = {} /\ ops < MaxOps
    /\ rooms' = {"user"} /\ ops' = ops + 1
    /\ overtaken' = {}
    /\ UNCHANGED <<dbVars, subscribed, step, seen, outdated>>

(* A SUBSCRIBE_ALL under way dies with its socket.                         *)
Subscribing == {"userRoom", "memberships", "communityRoom", "visibleIds", "channelRoom"}
Disconnect ==
    /\ rooms # {}
    /\ rooms' = {} /\ subscribed' = FALSE /\ overtaken' = {}
    /\ step' = [h \in Handlers |-> IF step[h] \in Subscribing THEN "idle" ELSE step[h]]
    /\ UNCHANGED <<dbVars, seen, ops, outdated>>

SubscribeAll(h) ==
    /\ rooms # {}
    /\ Begin(h, "userRoom") /\ Fresh(h)
    /\ seen' = [seen EXCEPT ![h] = {}]
    /\ UNCHANGED <<dbVars, rooms, subscribed, overtaken>>

JoinUserRoom(h) ==
    /\ Go(h, "userRoom", "memberships")
    /\ rooms' = rooms \cup {"user"}
    /\ UNCHANGED <<dbVars, subscribed, seen, ops, outdated, overtaken>>

ReadMemberships(h) ==
    /\ Go(h, "memberships", IF member THEN "communityRoom" ELSE "idle")
    /\ Fresh(h)
    /\ subscribed' = (subscribed \/ ~member)
    /\ UNCHANGED <<dbVars, rooms, seen, ops, overtaken>>

JoinCommunityRoom(h) ==
    /\ Go(h, "communityRoom", "visibleIds")
    /\ rooms' = rooms \cup {"community"}
    /\ Act(h, {"community"})
    /\ UNCHANGED <<dbVars, subscribed, seen, ops, outdated>>

ReadVisible(h) ==
    /\ Go(h, "visibleIds", "channelRoom")
    /\ seen' = [seen EXCEPT ![h] = IF CanView THEN {"visible"} ELSE {}]
    /\ Fresh(h)
    /\ UNCHANGED <<dbVars, rooms, subscribed, ops, overtaken>>

(* Not joining undoes nothing: what changed since the read reached the     *)
(* socket through the rooms it is in already.                              *)
JoinChannelRoom(h) ==
    /\ Go(h, "channelRoom", "idle")
    /\ subscribed' = TRUE
    /\ IF "visible" \in seen[h]
       THEN rooms' = rooms \cup {"channel"} /\ Act(h, {"channel"})
       ELSE UNCHANGED <<rooms, overtaken>>
    /\ UNCHANGED <<dbVars, seen, ops, outdated>>

JoinAllUserRooms(h) ==
    \/ SubscribeAll(h) \/ JoinUserRoom(h) \/ ReadMemberships(h)
    \/ JoinCommunityRoom(h) \/ ReadVisible(h) \/ JoinChannelRoom(h)

-----------------------------------------------------------------------------
(* MembershipService.create: the unique key refuses a second row.          *)
CreateMembership(h) ==
    /\ ~member
    /\ Begin(h, "general") /\ CommitFirst(h)
    /\ member' = TRUE
    /\ UNCHANGED <<listed, private, overwrites, rooms, subscribed, seen, overtaken>>

(* addMemberToGeneralChannel: this channel, or another, or the call failed. *)
AddMemberToGeneralChannel(h) ==
    /\ Go(h, "general", "onCreated")
    /\ listed' \in {listed, TRUE}
    /\ Commit(h)
    /\ UNCHANGED <<member, private, overwrites, rooms, subscribed, seen, ops, overtaken>>

(* The community's room is joined without asking again.                   *)
ReadForMember(h) ==
    /\ Go(h, "onCreated", "createdJoin")
    /\ seen' = [seen EXCEPT ![h] = IF CanView THEN {"visible"} ELSE {}]
    /\ UNCHANGED <<dbVars, rooms, subscribed, ops, outdated, overtaken>>

(* A bug: the new member is not put into the channels.                     *)
MutantCommunityOnly(h) == JoinSockets({"community"})

VisibleRooms(h) ==
    JoinSockets({"community"} \cup (IF "visible" \in seen[h] THEN {"channel"} ELSE {}))

OnMembershipCreated(h) ==
    /\ Go(h, "createdJoin", "idle")
    /\ VisibleRooms(h)
    /\ Act(h, {"community", "channel"})
    /\ UNCHANGED <<dbVars, subscribed, seen, ops, outdated>>

(* MembershipService.remove, kickUser, banUser: one transaction.           *)
RemoveMembership(h) ==
    /\ member
    /\ Begin(h, "onRemoved") /\ CommitFirst(h)
    /\ member' = FALSE /\ listed' = FALSE
    /\ UNCHANGED <<private, overwrites, rooms, subscribed, seen, overtaken>>

OnMembershipRemoved(h) ==
    /\ Go(h, "onRemoved", "idle")
    /\ LeaveSockets({"community", "channel"})
    /\ Act(h, {"community", "channel"})
    /\ UNCHANGED <<dbVars, subscribed, seen, ops, outdated>>

-----------------------------------------------------------------------------
(* ChannelMembershipService.create: checks, then the row, then the event,  *)
(* whose handler joins without an await.                                   *)
CheckAdd(h) ==
    /\ private /\ member /\ ~listed
    /\ Begin(h, "addChecked") /\ Fresh(h)
    /\ UNCHANGED <<dbVars, rooms, subscribed, seen, overtaken>>

CreateChannelMembership(h) ==
    /\ IF listed THEN Go(h, "addChecked", "idle") /\ UNCHANGED <<listed, outdated>>
                 ELSE Go(h, "addChecked", "onListed") /\ listed' = TRUE /\ Commit(h)
    /\ UNCHANGED <<member, private, overwrites, rooms, subscribed, seen, ops, overtaken>>

OnChannelMembershipCreated(h) ==
    /\ Go(h, "onListed", "idle")
    /\ JoinSockets({"channel"})
    /\ Act(h, {"channel"})
    /\ UNCHANGED <<dbVars, subscribed, seen, ops, outdated>>

(* remove: the delete fails if the row has gone since the check.           *)
CheckRemove(h) ==
    /\ private /\ listed
    /\ Begin(h, "removeChecked") /\ Fresh(h)
    /\ UNCHANGED <<dbVars, rooms, subscribed, seen, overtaken>>

DeleteChannelMembership(h) ==
    /\ IF listed THEN Go(h, "removeChecked", "onUnlisted") /\ listed' = FALSE /\ Commit(h)
                 ELSE Go(h, "removeChecked", "idle") /\ UNCHANGED <<listed, outdated>>
    /\ UNCHANGED <<member, private, overwrites, rooms, subscribed, seen, ops, overtaken>>

OnChannelMembershipRemoved(h) ==
    /\ Go(h, "onUnlisted", "idle")
    /\ LeaveSockets({"channel"})
    /\ Act(h, {"channel"})
    /\ UNCHANGED <<dbVars, subscribed, seen, ops, outdated>>

-----------------------------------------------------------------------------
(* ChannelsService.update: the old value is read, the checks of the actor  *)
(* follow, then the write; the room is synced if the two values differ.    *)
ReadBefore(h) ==
    /\ \E goal \in {"toPrivate", "toPublic"} : Begin(h, goal)
    /\ seen' = [seen EXCEPT ![h] = IF private THEN {"private"} ELSE {}]
    /\ Fresh(h)
    /\ UNCHANGED <<dbVars, rooms, subscribed, overtaken>>

UpdateChannel(h) ==
    /\ step[h] \in {"toPrivate", "toPublic"}
    /\ private' = (step[h] = "toPrivate")
    /\ UNCHANGED <<member, listed, overwrites, rooms, subscribed, seen, ops>>
    /\ IF private' # ("private" \in seen[h])
       THEN /\ step' = [step EXCEPT ![h] = "plan"]
            /\ Commit(h)
            /\ UNCHANGED overtaken
       ELSE /\ step' = [step EXCEPT ![h] = "idle"]
            /\ IF private' = private THEN UNCHANGED outdated ELSE Commit(h)
            /\ overtaken' = IF h \in outdated /\ ("channel" \in rooms) # ("channel" \in May')
                            THEN overtaken \cup {"channel"} ELSE overtaken

(* ChannelPermissionsService.replaceOverwrites: always synced.             *)
ReplaceOverwrites(h) ==
    /\ Begin(h, "plan") /\ CommitFirst(h)
    /\ overwrites' \in OverwriteChoices
    /\ UNCHANGED <<member, listed, private, rooms, subscribed, seen, overtaken>>

(* roomPlan: the channel; then the members and (the channel again and) the *)
(* viewers.                                                                *)
PlanChannel(h) ==
    /\ Go(h, "plan", IF IsVisibleToWholeCommunity(private, overwrites)
                     THEN "everyone" ELSE "members")
    /\ seen' = [seen EXCEPT ![h] = {}]
    /\ Fresh(h)
    /\ UNCHANGED <<dbVars, rooms, subscribed, ops, overtaken>>

PlanMembers(h) ==
    /\ Go(h, "members", "viewers")
    /\ seen' = [seen EXCEPT ![h] = IF member THEN {"member"} ELSE {}]
    /\ UNCHANGED <<dbVars, rooms, subscribed, ops, outdated, overtaken>>

PlanViewers(h) ==
    /\ Go(h, "viewers", "apply")
    /\ seen' = [seen EXCEPT ![h] = IF CanView THEN @ \cup {"visible"} ELSE @]
    /\ UNCHANGED <<dbVars, rooms, subscribed, ops, outdated, overtaken>>

(* A whole-community channel: whoever is in the community's room joins,    *)
(* also if that is wrong.                                                  *)
SyncEveryone(h) ==
    /\ Go(h, "everyone", "idle")
    /\ rooms' = IF "community" \in rooms THEN rooms \cup {"channel"} ELSE rooms
    /\ overtaken' =
          {r \in overtaken \cup (IF h \in outdated \/ "community" \in overtaken
                                THEN {"channel"} ELSE {}) :
              (r \in rooms') # (r \in May)}
    /\ UNCHANGED <<dbVars, subscribed, seen, ops, outdated>>

(* A bug: whoever lost the view stays.                                     *)
MutantOnlyJoins(h) ==
    IF "visible" \in seen[h] THEN JoinSockets({"channel"}) ELSE UNCHANGED rooms

PlannedRooms(h) ==
    IF "visible" \in seen[h] THEN JoinSockets({"channel"})
    ELSE IF "member" \in seen[h] THEN LeaveSockets({"channel"})
    ELSE UNCHANGED rooms

SyncViewers(h) ==
    /\ Go(h, "apply", "idle")
    /\ PlannedRooms(h)
    /\ Act(h, {"channel"})
    /\ UNCHANGED <<dbVars, subscribed, seen, ops, outdated>>

SyncChannelRoom(h) ==
    PlanChannel(h) \/ PlanMembers(h) \/ PlanViewers(h) \/ SyncEveryone(h) \/ SyncViewers(h)

-----------------------------------------------------------------------------
Membership(h) ==
    \/ CreateMembership(h) \/ AddMemberToGeneralChannel(h)
    \/ ReadForMember(h) \/ OnMembershipCreated(h)
    \/ RemoveMembership(h) \/ OnMembershipRemoved(h)

ChannelList(h) ==
    \/ CheckAdd(h) \/ CreateChannelMembership(h) \/ OnChannelMembershipCreated(h)
    \/ CheckRemove(h) \/ DeleteChannelMembership(h) \/ OnChannelMembershipRemoved(h)

Visibility(h) ==
    ReadBefore(h) \/ UpdateChannel(h) \/ ReplaceOverwrites(h) \/ SyncChannelRoom(h)

Next ==
    \/ Connect \/ Disconnect
    \/ \E h \in Handlers :
          JoinAllUserRooms(h) \/ Membership(h) \/ ChannelList(h) \/ Visibility(h)

Spec == Init /\ [][Next]_vars

-----------------------------------------------------------------------------
(* A socket is in a room its user may not see only while a handler that    *)
(* will take it out has yet to act, or because one acted on what it had    *)
(* read before a later change: every loss of membership, of a place on the *)
(* list or of visibility takes the sockets out ("a user who lost access    *)
(* stops receiving the channel's messages", syncChannelRoom).              *)
ViewersOnly ==
    \A r \in rooms \ (May \cup {"user"}) :
        \/ r \in overtaken
        \/ \E h \in Handlers :
              \/ step[h] = "onRemoved"
              \/ r = "channel" /\ step[h] \in Syncing \cup {"onUnlisted"}

(* A subscribed socket misses a room its user may see only in the same     *)
(* two cases: whatever a SUBSCRIBE_ALL did not see yet finds the socket in *)
(* the rooms it has joined already.                                        *)
NoViewerMissing ==
    subscribed => \A r \in May \ rooms :
        \/ r \in overtaken
        \/ \E h \in Handlers :
              \/ step[h] \in {"general", "onCreated", "createdJoin"}
              \/ r = "channel" /\ step[h] \in Syncing \cup {"onListed"}
=============================================================================

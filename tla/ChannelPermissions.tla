------------------------- MODULE ChannelPermissions -------------------------
(***************************************************************************)
(* What a user may do in a channel, and who may see it: the pure rules of  *)
(* src/backend/src/roles/channel-permissions.util.ts and the ways in which *)
(* roles/channel-access.service.ts applies them to many users at once.     *)
(* Actions are RbacActions; an action that the code below does not name is *)
(* scoped to the community.                                                *)
(***************************************************************************)
CONSTANTS
    RbacActions,
    Users,
    Roles,
    NoOne           \* the roleId or userId of an overwrite that has none

(* The instance OWNER passes every check and is no role of a community.    *)
ChannelScopedActions ==
    {"READ_CHANNEL", "READ_MESSAGE", "CREATE_MESSAGE", "ATTACH_FILES",
     "CREATE_REACTION", "PIN_MESSAGE", "UNPIN_MESSAGE", "DELETE_ANY_MESSAGE",
     "JOIN_CHANNEL", "SPEAK", "VIDEO", "SCREEN_SHARE", "MUTE_PARTICIPANT",
     "CAPTURE_REPLAY", "READ_SOUNDBOARD_SOUND"}

(* What replaceOverwrites accepts: an overwrite hides no channel (yet).    *)
OverwritableActions == ChannelScopedActions \ {"READ_CHANNEL", "READ_MESSAGE"}

TimeoutBlockedActions ==
    {"CREATE_MESSAGE", "CREATE_REACTION", "ATTACH_FILES", "SPEAK", "VIDEO", "SCREEN_SHARE"}

ChannelManagementActions == {"MANAGE_CHANNEL_PERMISSIONS"}

ASSUME ActionAssumption ==
    /\ ChannelScopedActions \cup ChannelManagementActions \subseteq RbacActions
    /\ NoOne \notin Users \cup Roles

Overwrites ==
    [target : {"EVERYONE", "ROLE", "MEMBER"}, role : Roles \cup {NoOne},
     user : Users \cup {NoOne}, allow : SUBSET RbacActions, deny : SUBSET RbacActions]

(* ChannelPermissionInput: `base' are the actions of the user's roles,     *)
(* `listed' is a ChannelMembership row.                                    *)
Inputs ==
    [user : Users, base : SUBSET RbacActions, roles : SUBSET Roles,
     member : BOOLEAN, private : BOOLEAN, listed : BOOLEAN,
     overwrites : SUBSET Overwrites, timedOut : BOOLEAN]

-----------------------------------------------------------------------------
Denied(O) == (UNION {o.deny : o \in O}) \cap ChannelScopedActions
Allowed(O) == (UNION {o.allow : o \in O}) \cap ChannelScopedActions
Apply(actions, O) == (actions \ Denied(O)) \cup Allowed(O)

(* A channel has at most one overwrite for everyone and one for each role  *)
(* and member (unique indexes), so a set stands for what `find' finds.     *)
EveryoneOverwrites(in) == {o \in in.overwrites : o.target = "EVERYONE"}
RoleOverwrites(in) == {o \in in.overwrites : o.target = "ROLE" /\ o.role \in in.roles}
MemberOverwrites(in) == {o \in in.overwrites : o.target = "MEMBER" /\ o.user = in.user}

(* EVERYONE, then the user's roles together, then the user.                *)
ComputeOverwrites(actions, in) ==
    Apply(Apply(Apply(actions, EveryoneOverwrites(in)), RoleOverwrites(in)),
          MemberOverwrites(in))

PassesViewGate(in) == in.member /\ ~(in.private /\ ~in.listed)

OverwritesAllowView(in) ==
    "READ_CHANNEL" \in ComputeOverwrites(in.base \cup {"READ_CHANNEL"}, in)

CanViewChannel(in) == PassesViewGate(in) /\ OverwritesAllowView(in)

(* computeChannelActions: overwrites, view gate, timeout.                  *)
ComputeChannelActions(in) ==
    ComputeOverwrites(in.base, in)
        \ ((IF CanViewChannel(in) THEN {} ELSE ChannelScopedActions)
           \cup (IF in.timedOut THEN TimeoutBlockedActions ELSE {}))

IsVisibleToWholeCommunity(private, overwrites) ==
    /\ ~private
    /\ ~ \E o \in overwrites : o.target = "EVERYONE" /\ "READ_CHANNEL" \in o.deny

(* channelActionsGranted: the gate of private channels for actions of the  *)
(* community, and its exception for those who manage channel permissions.  *)
ChannelActionsGranted(in, required) ==
    /\ in.private /\ ~in.listed =>
          /\ "MANAGE_CHANNEL_PERMISSIONS" \in in.base
          /\ required \subseteq ChannelManagementActions
    /\ required \subseteq ComputeChannelActions(in)

(* toCapabilities: what the client shows.                                  *)
CapabilityAction ==
    [post |-> "CREATE_MESSAGE", attach |-> "ATTACH_FILES", react |-> "CREATE_REACTION",
     threadReply |-> "CREATE_MESSAGE", connect |-> "JOIN_CHANNEL", speak |-> "SPEAK",
     video |-> "VIDEO", share |-> "SCREEN_SHARE"]

HasCapability(in, c) ==
    CanViewChannel(in) /\ CapabilityAction[c] \in ComputeChannelActions(in)

(* effectiveForRoleSet: what holders of exactly these roles get, before    *)
(* privacy and timeouts; for the anti-escalation rule of overwrites.       *)
EffectiveForRoleSet(actions, roles, overwrites) ==
    LET everyone == {o \in overwrites : o.target = "EVERYONE"}
        ofRoles == {o \in overwrites : o.target = "ROLE" /\ o.role \in roles}
    IN Apply(Apply(actions, everyone), ofRoles)

-----------------------------------------------------------------------------
(* viewerUserIds: `inputs' has the input of every community member, for    *)
(* one channel; `owners' are instance owners.  A private channel without   *)
(* overwrites takes the fast path.                                         *)
FastViewers(inputs, owners) ==
    {u \in DOMAIN inputs : inputs[u].listed \/ u \in owners}

SlowViewers(inputs, owners) ==
    {u \in DOMAIN inputs : u \in owners \/ CanViewChannel(inputs[u])}

ViewerUserIds(inputs, owners, private, overwrites) ==
    IF private /\ overwrites = {} THEN FastViewers(inputs, owners)
                                  ELSE SlowViewers(inputs, owners)
=============================================================================

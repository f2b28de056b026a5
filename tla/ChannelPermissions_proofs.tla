--------------------- MODULE ChannelPermissions_proofs ---------------------
(* What the rules of ChannelPermissions guarantee for every channel, user, *)
(* set of roles and set of overwrites.                                     *)
EXTENDS ChannelPermissions, TLAPS

(* What validate lets through: overwrites only of overwritable actions.    *)
Valid(overwrites) ==
    \A o \in overwrites : o.allow \cup o.deny \subseteq OverwritableActions

(* An overwrite never touches an action of the community.                  *)
LEMMA ApplyKeepsOthers ==
    ASSUME NEW S, NEW O, NEW a, a \notin ChannelScopedActions
    PROVE  a \in Apply(S, O) <=> a \in S
<1>1. a \notin Denied(O)
  BY DEF Denied
<1>2. a \notin Allowed(O)
  BY DEF Allowed
<1> QED BY <1>1, <1>2 DEF Apply

(* An overwrite that does not name an action leaves it as it was.          *)
LEMMA ApplyKeepsUnnamed ==
    ASSUME NEW S, NEW O, NEW a, \A o \in O : a \notin o.allow \cup o.deny
    PROVE  a \in Apply(S, O) <=> a \in S
<1>1. a \notin Denied(O)
  BY DEF Denied
<1>2. a \notin Allowed(O)
  BY DEF Allowed
<1> QED BY <1>1, <1>2 DEF Apply

(* Who cannot see a channel can do nothing in it: no overwrite, role or    *)
(* membership gives a channel-scoped action back behind the view gate      *)
(* (computeChannelActions, step 5).                                        *)
THEOREM HiddenMeansNothing ==
    ASSUME NEW in \in Inputs, ~CanViewChannel(in)
    PROVE  ComputeChannelActions(in) \cap ChannelScopedActions = {}
BY DEF ComputeChannelActions

(* A timeout takes posting and publishing away whatever the overwrites     *)
(* allow (step 6 comes last), and takes joining, to listen, from nobody.   *)
THEOREM TimeoutWins ==
    ASSUME NEW in \in Inputs, in.timedOut
    PROVE  /\ ComputeChannelActions(in) \cap TimeoutBlockedActions = {}
           /\ "JOIN_CHANNEL" \in ComputeChannelActions([in EXCEPT !.timedOut = FALSE])
                 => "JOIN_CHANNEL" \in ComputeChannelActions(in)
<1>1. ComputeChannelActions(in) \cap TimeoutBlockedActions = {}
  BY DEF ComputeChannelActions
<1>2. ASSUME "JOIN_CHANNEL" \in ComputeChannelActions([in EXCEPT !.timedOut = FALSE])
      PROVE  "JOIN_CHANNEL" \in ComputeChannelActions(in)
  <2> DEFINE out == [in EXCEPT !.timedOut = FALSE]
  <2>1. /\ out.base = in.base /\ out.member = in.member /\ out.private = in.private
        /\ out.listed = in.listed /\ out.overwrites = in.overwrites
        /\ out.roles = in.roles /\ out.user = in.user
    BY DEF Inputs
  <2>2. \A S : ComputeOverwrites(S, out) = ComputeOverwrites(S, in)
    BY <2>1 DEF ComputeOverwrites, EveryoneOverwrites, RoleOverwrites, MemberOverwrites
  <2>3. CanViewChannel(out) <=> CanViewChannel(in)
    BY <2>1, <2>2 DEF CanViewChannel, PassesViewGate, OverwritesAllowView
  <2>4. "JOIN_CHANNEL" \notin TimeoutBlockedActions
    BY DEF TimeoutBlockedActions
  <2> QED BY <1>2, <2>1, <2>2, <2>3, <2>4 DEF ComputeChannelActions
<1> QED BY <1>1, <1>2

(* Overwrites change nothing outside the channel: an action of the         *)
(* community is granted exactly when the roles have it.                    *)
THEOREM CommunityActionsUntouched ==
    ASSUME NEW in \in Inputs, NEW a, a \notin ChannelScopedActions
    PROVE  a \in ComputeChannelActions(in) <=> a \in in.base
<1>1. a \in ComputeOverwrites(in.base, in) <=> a \in in.base
  BY ApplyKeepsOthers DEF ComputeOverwrites
<1>2. a \notin TimeoutBlockedActions
  BY DEF TimeoutBlockedActions, ChannelScopedActions
<1> QED BY <1>1, <1>2 DEF ComputeChannelActions

(* "any role's allow beats any role's deny" (channel-permissions.util.ts:  *)
(* 201): without an overwrite of the user's own.                           *)
THEOREM RoleAllowWins ==
    ASSUME NEW in \in Inputs, NEW o \in RoleOverwrites(in),
           NEW a \in ChannelScopedActions, a \in o.allow,
           MemberOverwrites(in) = {}, CanViewChannel(in), ~in.timedOut
    PROVE  a \in ComputeChannelActions(in)
<1>1. \A S : a \in Apply(S, RoleOverwrites(in))
  <2>1. a \in Allowed(RoleOverwrites(in))
    BY DEF Allowed
  <2> QED BY <2>1 DEF Apply
<1>2. \A S : Apply(S, {}) = S
  BY DEF Apply, Allowed, Denied
<1>3. a \in ComputeOverwrites(in.base, in)
  BY <1>1, <1>2 DEF ComputeOverwrites
<1> QED BY <1>3 DEF ComputeChannelActions

(* While the API accepts no overwrite of READ_CHANNEL, a channel is        *)
(* visible to the members of its community, if it is public or they are on *)
(* its list.                                                               *)
THEOREM ValidOverwritesHideNothing ==
    ASSUME NEW in \in Inputs, Valid(in.overwrites)
    PROVE  CanViewChannel(in) <=> PassesViewGate(in)
<1>1. \A o \in in.overwrites : "READ_CHANNEL" \notin o.allow \cup o.deny
  BY DEF Valid, OverwritableActions
<1>2. \A S : "READ_CHANNEL" \in ComputeOverwrites(S, in) <=> "READ_CHANNEL" \in S
  <2> SUFFICES ASSUME NEW S
               PROVE  "READ_CHANNEL" \in ComputeOverwrites(S, in) <=> "READ_CHANNEL" \in S
    OBVIOUS
  <2>1. /\ \A o \in EveryoneOverwrites(in) : "READ_CHANNEL" \notin o.allow \cup o.deny
        /\ \A o \in RoleOverwrites(in) : "READ_CHANNEL" \notin o.allow \cup o.deny
        /\ \A o \in MemberOverwrites(in) : "READ_CHANNEL" \notin o.allow \cup o.deny
    BY <1>1 DEF EveryoneOverwrites, RoleOverwrites, MemberOverwrites
  <2>2. "READ_CHANNEL" \in Apply(S, EveryoneOverwrites(in)) <=> "READ_CHANNEL" \in S
    BY <2>1, ApplyKeepsUnnamed
  <2> DEFINE S2 == Apply(S, EveryoneOverwrites(in))
  <2>3. "READ_CHANNEL" \in Apply(S2, RoleOverwrites(in)) <=> "READ_CHANNEL" \in S2
    BY <2>1, ApplyKeepsUnnamed
  <2> DEFINE S3 == Apply(S2, RoleOverwrites(in))
  <2>4. "READ_CHANNEL" \in Apply(S3, MemberOverwrites(in)) <=> "READ_CHANNEL" \in S3
    BY <2>1, ApplyKeepsUnnamed
  <2> QED BY <2>2, <2>3, <2>4 DEF ComputeOverwrites
<1>3. OverwritesAllowView(in)
  BY <1>2 DEF OverwritesAllowView
<1> QED BY <1>3 DEF CanViewChannel

(* A channel whose events go to the whole community room (audienceRoom,    *)
(* roomPlan, filterViewers) is one that every member may see.  With an     *)
(* overwrite of READ_CHANNEL for a role it would not be: Valid is needed.  *)
THEOREM WholeCommunityMayView ==
    ASSUME NEW in \in Inputs, Valid(in.overwrites), in.member,
           IsVisibleToWholeCommunity(in.private, in.overwrites)
    PROVE  CanViewChannel(in)
<1>1. PassesViewGate(in)
  BY DEF IsVisibleToWholeCommunity, PassesViewGate
<1> QED BY <1>1, ValidOverwritesHideNothing

(* The fast path of viewerUserIds finds the viewers that the rule finds.   *)
THEOREM FastPathIsExact ==
    ASSUME NEW M \in SUBSET Users, NEW inputs \in [M -> Inputs], NEW owners,
           \A u \in M : /\ inputs[u].member /\ inputs[u].private
                        /\ inputs[u].overwrites = {}
    PROVE  FastViewers(inputs, owners) = SlowViewers(inputs, owners)
<1>1. ASSUME NEW u \in M
      PROVE  CanViewChannel(inputs[u]) <=> inputs[u].listed
  <2>1. inputs[u] \in Inputs
    OBVIOUS
  <2>2. Valid(inputs[u].overwrites)
    BY DEF Valid
  <2>3. CanViewChannel(inputs[u]) <=> PassesViewGate(inputs[u])
    BY <2>1, <2>2, ValidOverwritesHideNothing
  <2>4. inputs[u].member /\ inputs[u].private
    OBVIOUS
  <2> QED BY <2>3, <2>4 DEF PassesViewGate
<1> QED BY <1>1 DEF FastViewers, SlowViewers

(* The lockout safeguard: who may manage channel permissions may do so in  *)
(* every channel, private, hidden or timed out, whatever its overwrites.   *)
THEOREM NoLockout ==
    ASSUME NEW in \in Inputs, "MANAGE_CHANNEL_PERMISSIONS" \in in.base
    PROVE  ChannelActionsGranted(in, ChannelManagementActions)
<1>1. "MANAGE_CHANNEL_PERMISSIONS" \notin ChannelScopedActions
  BY DEF ChannelScopedActions
<1>2. "MANAGE_CHANNEL_PERMISSIONS" \in ComputeChannelActions(in)
  BY <1>1, CommunityActionsUntouched
<1> QED BY <1>2 DEF ChannelActionsGranted, ChannelManagementActions

(* A capability the client shows is one the guard grants.                  *)
THEOREM ShownIsGranted ==
    ASSUME NEW in \in Inputs, NEW c \in DOMAIN CapabilityAction, HasCapability(in, c)
    PROVE  ChannelActionsGranted(in, {CapabilityAction[c]})
BY DEF HasCapability, ChannelActionsGranted, CanViewChannel, PassesViewGate
=============================================================================

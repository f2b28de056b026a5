--------------------------- MODULE VoicePresence ---------------------------
(***************************************************************************)
(* ONE user and ONE voice channel: who LiveKit has in the room, what Redis *)
(* says of it, and the revocations that end the user's voice               *)
(* (src/backend/src/voice-presence/voice-presence.service.ts,              *)
(* livekit/livekit-webhook.controller.ts, livekit/livekit-access.service.ts*)
(* and the voice part of rooms/session-revocation.handler.ts).             *)
(*                                                                         *)
(* LiveKit is external: the user's identity is connected at most once, a   *)
(* second connection takes it over, and every connection is a participant  *)
(* with a sid of its own.  LiveKit reports joins and departures by         *)
(* webhooks, which arrive in any order, late, twice or not at all.  Each   *)
(* webhook, REST call and heartbeat runs in a handler, one Redis or LiveKit*)
(* call at a time.  A pipeline is one step.                                *)
(***************************************************************************)
EXTENDS Naturals

CONSTANTS
    Handlers,       \* requests running at once
    Sids,           \* LiveKit participants, one for each connection
    Sessions,       \* auth sessions
    User,           \* names the revocations of the whole user
    None,
    MaxRepeats,     \* bound: webhooks that LiveKit sends again
    MaxClock,       \* bound: how far the clock advances
    MaxDeaths,      \* bound: processes that die
    Scenarios       \* bound: the sets of events a behaviour may have

(* What a behaviour is not obliged to have: REST joins and leaves, updates *)
(* of flags, reads of the member list; revocations of a session or of the  *)
(* whole user, a tick of the clock after that one has read it; webhooks    *)
(* lost or sent again; checks and removals that fail; a revocation that    *)
(* cannot write its cutoff or look for the rooms; a process that dies with *)
(* what it runs.                                                           *)
Events == {"rest", "flag", "read", "session", "user", "tick",
           "hookLost", "again", "checkFails", "removeFails", "revokeFails", "dies"}

ASSUME NameAssumption == User \notin Sessions /\ {None, "nosid"} \cap Sids = {}
ASSUME BoundAssumption ==
    /\ MaxRepeats \in Nat /\ MaxClock \in Nat /\ MaxDeaths \in Nat
    /\ Scenarios \subseteq SUBSET Events

VARIABLES
    clock,      \* the time, as far as cutoffs tell it apart
    here,       \* LiveKit: the participant in the room, or None
    tokenOf,    \* LiveKit: the token a participant connected with, or None
    hooks,      \* webhooks on their way
    repeats,    \* how many were sent again
    record,     \* Redis: the presence record, see Records
    member,     \* Redis: the user is in the channel's member set
    channels,   \* Redis: the channel is in the user's set of channels
    marked,     \* Redis: sessions with a revocation marker
    cutoff,     \* Redis: tokens issued at or before it are revoked; 0 is none
    now,        \* the clock that a revocation read for its cutoff, or 0
    todo,       \* what revocations still have to do: <<who, task>>
    allowed,    \* the events this behaviour may have
    missed,     \* participants that a loss or a failure let off, see below
    deaths,     \* how many processes have died
    handler     \* what each handler is doing

livekit == <<here, tokenOf>>
webhooks == <<hooks, repeats>>
presence == <<record, member, channels>>
revocation == <<clock, marked, cutoff, now, todo>>
scope == <<allowed, missed, deaths>>

vars == <<livekit, webhooks, presence, revocation, scope, handler>>

Tokens == [session : Sessions, iat : 1..(MaxClock + 1)]

(* A record stores the sid of a participant, or "nosid" when a REST join   *)
(* or a heartbeat made it.                                                 *)
Records == {None, "nosid"} \cup Sids
Hooks == {"joined", "left"} \X Sids
Revokers == Sessions \cup {User}
Tasks == {"cutoff", "list", "remove", "leave"}

(* `sid' is the one a webhook carries, `seen' the record that was read.    *)
Steps == {"idle", "check", "kick", "get", "set", "create", "leave", "delete",
          "flag", "values", "clean"}
HandlerState == [step : Steps, sid : Sids \cup {None}, seen : Records]
Idle == [step |-> "idle", sid |-> None, seen |-> None]

Init ==
    /\ clock = 1 /\ here = None /\ tokenOf = [s \in Sids |-> None]
    /\ hooks = {} /\ repeats = 0
    /\ record = None /\ member = FALSE /\ channels = FALSE
    /\ marked = {} /\ cutoff = 0 /\ now = 0 /\ todo = {}
    /\ allowed \in Scenarios /\ missed = {} /\ deaths = 0
    /\ handler = [h \in Handlers |-> Idle]

-----------------------------------------------------------------------------
(* LiveKit and its tokens                                                  *)

(* A participant is missed when its join webhook is lost or its check      *)
(* fails; and so is the one in the room when its removal, or the search for*)
(* it, fails or dies.                                                      *)
Here == {here} \ {None}

LeftHook == IF here = None THEN {} ELSE {<<"left", here>>}

(* A client connects, with a token issued before or just now; a participant *)
(* of the same identity is disconnected.                                   *)
Connect(s, x, i) ==
    /\ tokenOf[s] = None /\ i \in 1..clock
    /\ here' = s
    /\ tokenOf' = [tokenOf EXCEPT ![s] = [session |-> x, iat |-> i]]
    /\ hooks' = hooks \cup {<<"joined", s>>} \cup LeftHook
    /\ UNCHANGED <<repeats, presence, revocation, scope, handler>>

(* RemoveParticipant takes whoever has the identity now.                   *)
RemoveParticipant ==
    /\ here' = None
    /\ hooks' = hooks \cup LeftHook
    /\ UNCHANGED <<tokenOf, repeats>>

Disconnect ==
    /\ here # None
    /\ RemoveParticipant
    /\ UNCHANGED <<presence, revocation, scope, handler>>

Sent == {m \in Hooks : tokenOf[m[2]] # None /\ (m[1] = "left" => m[2] # here)}

SendAgain(m) ==
    /\ "again" \in allowed /\ repeats < MaxRepeats /\ m \in Sent \ hooks
    /\ repeats' = repeats + 1
    /\ hooks' = hooks \cup {m}
    /\ UNCHANGED <<livekit, presence, revocation, scope, handler>>

HookLost(m) ==
    /\ "hookLost" \in allowed
    /\ m \in hooks
    /\ hooks' = hooks \ {m}
    /\ missed' = missed \cup (IF m[1] = "joined" THEN {m[2]} ELSE {})
    /\ UNCHANGED <<allowed, deaths, livekit, repeats, presence, revocation, handler>>

-----------------------------------------------------------------------------
(* Handlers                                                                *)

At(h, s) == handler[h].step = s
GoTo(h, s) == handler' = [handler EXCEPT ![h].step = s]
Finish(h) == handler' = [handler EXCEPT ![h] = Idle]
Start(h, s, sid) ==
    /\ At(h, "idle")
    /\ handler' = [handler EXCEPT ![h] = [step |-> s, sid |-> sid, seen |-> None]]

Hook(h, m) ==
    /\ m \in hooks
    /\ hooks' = hooks \ {m}
    /\ Start(h, IF m[1] = "joined" THEN "check" ELSE "leave", m[2])
    /\ UNCHANGED <<livekit, repeats, presence, revocation, scope>>

(* checkJoin: the token's issue time against the cutoff, and its session's *)
(* marker.  It fails open.                                                 *)
Revoked(t) == t.iat <= cutoff \/ t.session \in marked

CheckJoin(h) ==
    /\ At(h, "check")
    /\ \/ /\ GoTo(h, IF Revoked(tokenOf[handler[h].sid]) THEN "kick" ELSE "get")
          /\ UNCHANGED missed
       \/ /\ "checkFails" \in allowed
          /\ GoTo(h, "get")
          /\ missed' = missed \cup {handler[h].sid}
    /\ UNCHANGED <<allowed, deaths, livekit, webhooks, presence, revocation>>

(* A removal that fails is logged; the participant gets no presence.       *)
Deny(h) ==
    /\ At(h, "kick")
    /\ \/ RemoveParticipant /\ UNCHANGED missed
       \/ /\ "removeFails" \in allowed
          /\ missed' = missed \cup Here
          /\ UNCHANGED <<livekit, webhooks>>
    /\ Finish(h)
    /\ UNCHANGED <<allowed, deaths, presence, revocation>>

(* The REST join of a connected client, beside the webhook.                *)
MutantJoinChecked(h) ==
    /\ "rest" \in allowed /\ here # None
    /\ Start(h, "check", None)
    /\ UNCHANGED <<livekit, webhooks, presence, revocation, scope>>

JoinDirect(h) ==
    /\ "rest" \in allowed /\ here # None
    /\ Start(h, "get", None)
    /\ UNCHANGED <<livekit, webhooks, presence, revocation, scope>>

(* A heartbeat extends the record's TTL; if it has expired, the user is    *)
(* registered again.  (A definition named Mutant... is the same code with a*)
(* bug put in, which some property notices.)                               *)
MutantOnlyExtends(h) ==
    /\ here # None /\ record = None
    /\ At(h, "idle")
    /\ UNCHANGED vars

RefreshPresence(h) ==
    /\ here # None /\ record = None
    /\ Start(h, "get", None)
    /\ UNCHANGED <<livekit, webhooks, presence, revocation, scope>>

(* The join handler, shared by webhook, REST call and heartbeat: a record  *)
(* that exists keeps what it has, except that a webhook's sid replaces the *)
(* stored one, and a webhook with other metadata writes the record back.   *)
JoinGet(h) ==
    LET sid == handler[h].sid
    IN /\ At(h, "get")
       /\ \/ record = None /\ GoTo(h, "create")
          \/ record # None /\ sid \notin {None, record} /\ GoTo(h, "set")
          \/ record # None /\ sid \in {None, record} /\ Finish(h)
          \/ /\ "flag" \in allowed /\ record \in Sids /\ sid = record
             /\ handler' = [handler EXCEPT ![h] =
                    [step |-> "flag", sid |-> None, seen |-> record]]
       /\ UNCHANGED <<livekit, webhooks, presence, revocation, scope>>

JoinSet(h) ==
    /\ At(h, "set")
    /\ record' = handler[h].sid
    /\ Finish(h)
    /\ UNCHANGED <<livekit, webhooks, member, channels, revocation, scope>>

JoinCreate(h) ==
    /\ At(h, "create")
    /\ record' = IF handler[h].sid = None THEN "nosid" ELSE handler[h].sid
    /\ member' = TRUE /\ channels' = TRUE
    /\ Finish(h)
    /\ UNCHANGED <<livekit, webhooks, revocation, scope>>

(* leaveVoiceChannel: a sid that is not the stored one is stale.           *)
Stale(sid) == sid # None /\ record \in Sids /\ record # sid

LeaveGet(h) ==
    /\ At(h, "leave")
    /\ IF record = None \/ Stale(handler[h].sid) THEN Finish(h) ELSE GoTo(h, "delete")
    /\ UNCHANGED <<livekit, webhooks, presence, revocation, scope>>

LeaveDelete(h) ==
    /\ At(h, "delete")
    /\ record' = None /\ member' = FALSE /\ channels' = FALSE
    /\ Finish(h)
    /\ UNCHANGED <<livekit, webhooks, revocation, scope>>

(* The REST leave, which carries no sid.                                   *)
LeaveDirect(h) ==
    /\ "rest" \in allowed /\ record # None
    /\ Start(h, "leave", None)
    /\ UNCHANGED <<livekit, webhooks, presence, revocation, scope>>

(* updateDeafenState and updateServerMuteState, of a connected user: they  *)
(* write the record back that they read.                                   *)
FlagGet(h) ==
    /\ "flag" \in allowed /\ here # None /\ record # None
    /\ At(h, "idle")
    /\ handler' = [handler EXCEPT ![h] =
           [step |-> "flag", sid |-> None, seen |-> record]]
    /\ UNCHANGED <<livekit, webhooks, presence, revocation, scope>>

FlagSet(h) ==
    /\ At(h, "flag")
    /\ record' = handler[h].seen
    /\ Finish(h)
    /\ UNCHANGED <<livekit, webhooks, member, channels, revocation, scope>>

(* getChannelPresence: the set, the records, and the removal of a member   *)
(* whose record was missing.                                               *)
ReadMembers(h) ==
    /\ "read" \in allowed /\ member
    /\ Start(h, "values", None)
    /\ UNCHANGED <<livekit, webhooks, presence, revocation, scope>>

ReadRecords(h) ==
    /\ At(h, "values")
    /\ IF record = None THEN GoTo(h, "clean") ELSE Finish(h)
    /\ UNCHANGED <<livekit, webhooks, presence, revocation, scope>>

CleanMember(h) ==
    /\ At(h, "clean")
    /\ member' = FALSE
    /\ Finish(h)
    /\ UNCHANGED <<livekit, webhooks, record, channels, revocation, scope>>

(* The TTL of the record; the sets have none.                              *)
MutantNoTtl == FALSE
HasTtl == TRUE

Expire ==
    /\ record # None /\ HasTtl
    /\ record' = None
    /\ UNCHANGED <<livekit, webhooks, member, channels, revocation, scope, handler>>

-----------------------------------------------------------------------------
(* Revocations                                                             *)

(* What a revocation has to remove the user from.  LiveKit knows the rooms *)
(* the user is in, for a session those it joined with that session's token;*)
(* for the whole user the presence index is asked as well.                 *)
FromLiveKit(x) ==
    IF here # None /\ x \in {User, tokenOf[here].session} THEN {<<x, "remove">>} ELSE {}

FromIndex(x) ==
    IF x = User /\ channels THEN {<<x, "remove">>, <<x, "leave">>} ELSE {}

(* The marker of a session is written, then the event is handled.          *)
RevokeSession(x) ==
    /\ "session" \in allowed /\ x \in Sessions \ marked
    /\ marked' = marked \cup {x}
    /\ todo' = todo \cup {<<x, "list">>}
    /\ UNCHANGED <<livekit, webhooks, presence, clock, cutoff, now, scope, handler>>

(* Redis has the marker but its answer is lost, or another session's marker*)
(* fails: revokeSessions throws, and there is no event.                    *)
RevokeSessionFails(x) ==
    /\ {"session", "revokeFails"} \subseteq allowed /\ x \in Sessions \ marked
    /\ marked' = marked \cup {x}
    /\ missed' = missed \cup (IF FromLiveKit(x) = {} THEN {} ELSE Here)
    /\ UNCHANGED <<allowed, deaths, livekit, webhooks, presence, clock, cutoff, now, todo,
                   handler>>

(* revokeVoiceAccess (reset, ban, deletion): the cutoff, then the rooms.   *)
ReadClock ==
    /\ "user" \in allowed /\ now = 0
    /\ now' = clock
    /\ clock' = clock + (IF "tick" \in allowed THEN 1 ELSE 0) /\ clock' <= MaxClock + 1
    /\ todo' = todo \cup {<<User, "cutoff">>}
    /\ UNCHANGED <<livekit, webhooks, presence, marked, cutoff, scope, handler>>

WriteCutoff ==
    /\ <<User, "cutoff">> \in todo
    /\ cutoff' = now
    /\ todo' = (todo \ {<<User, "cutoff">>}) \cup {<<User, "list">>}
    /\ UNCHANGED <<livekit, webhooks, presence, clock, marked, now, scope, handler>>

(* A cutoff that cannot be written is logged; the removal goes on.         *)
CutoffFails ==
    /\ "revokeFails" \in allowed
    /\ <<User, "cutoff">> \in todo
    /\ todo' = (todo \ {<<User, "cutoff">>}) \cup {<<User, "list">>}
    /\ UNCHANGED <<livekit, webhooks, presence, clock, marked, cutoff, now, scope, handler>>

(* The rooms a revocation finds.                                           *)
MutantIndexOnly(x) == FromIndex(x)
Found(x) == FromLiveKit(x) \cup FromIndex(x)

ListRooms(x) ==
    /\ <<x, "list">> \in todo
    /\ todo' = (todo \ {<<x, "list">>}) \cup Found(x)
    /\ UNCHANGED <<livekit, webhooks, presence, clock, marked, cutoff, now, scope, handler>>

(* Both are best effort: LiveKit that cannot be listed, or an index that   *)
(* cannot be read, counts as empty, and the revocation ends with what the  *)
(* other one knows.                                                        *)
ListFails(x) ==
    /\ "revokeFails" \in allowed
    /\ <<x, "list">> \in todo
    /\ \E found \in {FromLiveKit(x), FromIndex(x), {}} :
          /\ todo' = (todo \ {<<x, "list">>}) \cup found
          /\ missed' = missed \cup (IF FromLiveKit(x) \subseteq found THEN {} ELSE Here)
    /\ UNCHANGED <<allowed, deaths, livekit, webhooks, presence, clock, marked, cutoff, now,
                   handler>>

(* A removal that fails is logged.  A session's presence is left after it. *)
Removed(x) ==
    todo' = (todo \ {<<x, "remove">>})
            \cup (IF x = User THEN {} ELSE {<<x, "leave">>})

Remove(x) ==
    /\ <<x, "remove">> \in todo
    /\ Removed(x)
    /\ RemoveParticipant
    /\ UNCHANGED <<presence, clock, marked, cutoff, now, scope, handler>>

RemoveFails(x) ==
    /\ "removeFails" \in allowed
    /\ <<x, "remove">> \in todo
    /\ Removed(x)
    /\ missed' = missed \cup Here
    /\ UNCHANGED <<allowed, deaths, livekit, webhooks, presence, clock, marked, cutoff, now,
                   handler>>

LeaveRevoked(h, x) ==
    /\ <<x, "leave">> \in todo
    /\ todo' = todo \ {<<x, "leave">>}
    /\ Start(h, "leave", None)
    /\ UNCHANGED <<livekit, webhooks, presence, clock, marked, cutoff, now, scope>>

(* A process dies, with the handlers H and the revocations R that it runs: *)
(* what they still had to do is not done.  Nothing resumes a revocation    *)
(* between its marker or cutoff and its removals.                          *)
Reaching(x) ==
    \/ <<x, "remove">> \in todo
    \/ <<x, "list">> \in todo /\ FromLiveKit(x) # {}

Dies(H, R) ==
    /\ "dies" \in allowed /\ deaths < MaxDeaths
    /\ deaths' = deaths + 1
    /\ handler' = [h \in Handlers |-> IF h \in H THEN Idle ELSE handler[h]]
    /\ todo' = {t \in todo : t[1] \notin R}
    /\ missed' = missed
          \cup {handler[h].sid : h \in {g \in H : At(g, "check")}}
          \cup (IF (\E h \in H : At(h, "kick")) \/ (\E x \in R : Reaching(x)) THEN Here ELSE {})
    /\ <<handler, todo>>' # <<handler, todo>>
    /\ UNCHANGED <<allowed, livekit, webhooks, presence, clock, marked, cutoff, now>>

-----------------------------------------------------------------------------
(* What a handler that has started does next.                              *)
Continue(h) ==
    \/ CheckJoin(h) \/ Deny(h)
    \/ JoinGet(h) \/ JoinSet(h) \/ JoinCreate(h)
    \/ LeaveGet(h) \/ LeaveDelete(h)
    \/ FlagSet(h)
    \/ ReadRecords(h) \/ CleanMember(h)

Call(h) ==
    \/ \E m \in Hooks : Hook(h, m)
    \/ JoinDirect(h) \/ RefreshPresence(h) \/ LeaveDirect(h)
    \/ FlagGet(h) \/ ReadMembers(h)
    \/ \E x \in Revokers : LeaveRevoked(h, x)

Revocation ==
    \/ \E x \in Sessions : RevokeSession(x) \/ RevokeSessionFails(x)
    \/ ReadClock \/ WriteCutoff \/ CutoffFails
    \/ \E x \in Revokers : ListRooms(x) \/ ListFails(x) \/ Remove(x) \/ RemoveFails(x)

Environment ==
    \/ \E s \in Sids, x \in Sessions, i \in 1..clock : Connect(s, x, i)
    \/ Disconnect
    \/ \E m \in Hooks : SendAgain(m) \/ HookLost(m)
    \/ Expire
    \/ \E H \in SUBSET Handlers, R \in SUBSET Revokers : Dies(H, R)

Next == (\E h \in Handlers : Call(h) \/ Continue(h)) \/ Revocation \/ Environment

Spec == Init /\ [][Next]_vars

(* A handler that started goes on unless its process dies, a connected     *)
(* client sends heartbeats every 30 seconds, the record of a user who has  *)
(* left, which nobody extends, expires.                                    *)
Fairness ==
    /\ \A h \in Handlers : WF_vars(Continue(h))
    /\ SF_vars(\E h \in Handlers : RefreshPresence(h))
    /\ WF_vars(here = None /\ Expire)

FairSpec == Spec /\ Fairness

-----------------------------------------------------------------------------
(* Properties                                                              *)

TypeOK ==
    /\ clock \in 1..(MaxClock + 1)
    /\ here \in Sids \cup {None}
    /\ tokenOf \in [Sids -> Tokens \cup {None}]
    /\ hooks \subseteq Hooks /\ repeats \in 0..MaxRepeats
    /\ record \in Records
    /\ member \in BOOLEAN /\ channels \in BOOLEAN
    /\ marked \subseteq Sessions
    /\ cutoff \in 0..(MaxClock + 1) /\ now \in 0..(MaxClock + 1)
    /\ todo \subseteq Revokers \X Tasks
    /\ allowed \in SUBSET Events /\ missed \subseteq Sids /\ deaths \in 0..MaxDeaths
    /\ handler \in [Handlers -> HandlerState]
    /\ \A h \in Handlers : At(h, "check") => handler[h].sid \in Sids

(* Something that will take the participant in the room out of it: its     *)
(* join webhook, which checks it, or a revocation of its token.            *)
WillBeRemoved ==
    \/ <<"joined", here>> \in hooks
    \/ \E h \in Handlers : At(h, "check") /\ handler[h].sid = here
    \/ \E h \in Handlers : At(h, "kick")
    \/ \E x \in Revokers : <<x, "remove">> \in todo
    \/ <<tokenOf[here].session, "list">> \in todo
    \/ <<User, "list">> \in todo

(* "Cutoff first, so a rejoin racing the removal below is caught"          *)
(* (session-revocation.handler.ts:166): whenever a participant with a      *)
(* revoked token is in the room, something is on its way that removes it,  *)
(* however joins, takeovers, webhooks, revocations and deaths interleave.  *)
(* Excused is only the participant that was itself missed: its join webhook*)
(* lost, its check failed or dead; or, while it was in the room, a removal *)
(* failed or died, or a search that would have found it was never begun,   *)
(* died or found nothing, LiveKit not answering and, for the whole user,   *)
(* the presence index not naming the channel.  Nothing in the code repairs *)
(* those.                                                                  *)
RevokedParticipantIsReached ==
    here # None /\ Revoked(tokenOf[here]) => WillBeRemoved \/ here \in missed

(* A stale leave is ignored "so it can't wipe the new session's presence"  *)
(* (voice-presence.service.ts:90-93): the departure of another participant *)
(* never removes the record of the one in the room.                        *)
StaleLeaveIgnored ==
    [][\A h \in Handlers :
          LeaveDelete(h) /\ handler[h].sid # None /\ here # None /\ record = here
              => handler[h].sid = here]_vars

(* Presence lost to a stale leave, to a race or to the TTL comes back with *)
(* a heartbeat while the user is connected.                                *)
PresenceIsRestored == []<>(here = None \/ record # None)

(* Once the user has left for good, so has the record, whatever late       *)
(* webhooks, joins and updates bring it back meanwhile.                    *)
GhostsEnd == <>[](here = None) => <>[](record = None)
=============================================================================

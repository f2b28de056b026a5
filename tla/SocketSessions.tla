-------------------------- MODULE SocketSessions --------------------------
(***************************************************************************)
(* The WebSocket connections of ONE user and the revocations that must end *)
(* them (src/backend/src/rooms/socket-session.service.ts, rooms.gateway.ts,*)
(* auth/ws-auth.service.ts, auth/session-revocation.service.ts).           *)
(*                                                                         *)
(* A socket is bound to the access token it authenticated with, and is in  *)
(* the rooms of its user, its session and its token.  A revocation first   *)
(* stores its state (Redis, the User row), then sends a disconnect to a    *)
(* room; the Redis adapter carries it to every instance.  A connection or  *)
(* a REAUTHENTICATE is a call that reads that state in several steps, so a *)
(* revocation can fall between any two of them.                            *)
(*                                                                         *)
(* Calls end with their socket: everything they do later is behind a test  *)
(* of socket.disconnected.                                                 *)
(***************************************************************************)
EXTENDS Naturals, FiniteSets

CONSTANTS
    Sockets,
    Calls,          \* handshakes and REAUTHENTICATEs running at once
    Tokens,         \* access tokens (jti)
    Sessions,       \* session ids (sid)
    SidOf,          \* the sid a token carries, or None
    Instances,      \* backend processes
    InstanceOf,     \* where a socket is connected
    UserRoom,       \* the room user:<id>
    None,
    Revocable,      \* bound: the sessions and tokens that get revoked
    Incidents       \* bound: which of AllIncidents happen

Rooms == {UserRoom} \cup Sessions \cup Tokens

AllIncidents == {"reset", "banned", "deleted", "lost", "leave", "stop"}

ASSUME RoomAssumption ==
    /\ UserRoom \notin Sessions \cup Tokens
    /\ Sessions \cap Tokens = {}
    /\ None \notin Rooms \cup Calls
ASSUME SidAssumption == SidOf \in [Tokens -> Sessions \cup {None}]
ASSUME InstanceAssumption == InstanceOf \in [Sockets -> Instances]
ASSUME RevocableAssumption == Revocable \subseteq Sessions \cup Tokens
ASSUME IncidentAssumption == Incidents \subseteq AllIncidents

VARIABLES
    minted,     \* access tokens that were signed
    expired,    \* those whose exp has passed
    revoked,    \* Redis: revoked sessions and blacklisted tokens
    old,        \* Redis: the tokens signed at or before the user's cutoff
    account,    \* the User row: "active", "banned" or "deleted"
    todo,       \* rooms whose revocation is stored and not announced yet
    inFlight,   \* disconnects on their way: <<room, instance>>
    lost,       \* rooms one of whose disconnects was lost
    stage,      \* of each socket: see Stages
    bound,      \* socket.data.auth: the token it is bound to, or None
    owner,      \* the call that bound it (the identity of socket.data.auth)
    memberOf,     \* the rooms it is in
    timer,      \* the token whose expiry its timer waits for, or None
    call        \* what each call is doing

tokens == <<minted, expired>>
state == <<revoked, old, account>>
messages == <<todo, inFlight, lost>>
sockets == <<stage, bound, owner, memberOf, timer>>

socketVars == <<tokens, state, messages, sockets, call>>

Stages == {"gone", "handshake", "joined", "connected"}
Reads == {"revocation", "user"}

(* step "idle", "revocation", "user" (the two reads of authenticate),      *)
(* "bind", "connect" or "confirm"; `left' are the reads confirmBinding     *)
(* still waits for, and `ended' is whether one found the session ended.    *)
CallSteps == {"idle", "revocation", "user", "bind", "connect", "confirm"}

CallRecord == [step : CallSteps, socket : Sockets \cup {None},
               token : Tokens \cup {None}, left : SUBSET Reads, ended : BOOLEAN]

NoCall == [step |-> "idle", socket |-> None, token |-> None,
           left |-> {}, ended |-> FALSE]

SocketInit ==
    /\ minted = {} /\ expired = {}
    /\ revoked = {} /\ old = {} /\ account = "active"
    /\ todo = {} /\ inFlight = {} /\ lost = {}
    /\ stage = [k \in Sockets |-> "gone"]
    /\ bound = [k \in Sockets |-> None]
    /\ owner = [k \in Sockets |-> None]
    /\ memberOf = [k \in Sockets |-> {}]
    /\ timer = [k \in Sockets |-> None]
    /\ call = [c \in Calls |-> NoCall]

-----------------------------------------------------------------------------
(* What the reads see: TokenBlacklistService.revocationOf, and the user    *)
(* found and not banned.                                                   *)
IsRevoked(t) == t \in revoked \cup old \/ SidOf[t] \in revoked
HasAccess == account = "active"
SessionEnded(t) == IsRevoked(t) \/ ~HasAccess

(* The rooms of a token.                                                   *)
RoomsOf(t) == {UserRoom, t} \cup ({SidOf[t]} \ {None})

(* The sockets in K are closed, and with them their rooms and timers.      *)
CloseSockets(K) ==
    /\ stage' = [k \in Sockets |-> IF k \in K THEN "gone" ELSE stage[k]]
    /\ bound' = [k \in Sockets |-> IF k \in K THEN None ELSE bound[k]]
    /\ owner' = [k \in Sockets |-> IF k \in K THEN None ELSE owner[k]]
    /\ memberOf' = [k \in Sockets |-> IF k \in K THEN {} ELSE memberOf[k]]
    /\ timer' = [k \in Sockets |-> IF k \in K THEN None ELSE timer[k]]
    /\ call' = [c \in Calls |-> IF call[c].socket \in K THEN NoCall ELSE call[c]]

GoTo(c, s) == call' = [call EXCEPT ![c].step = s]
Return(c) == call' = [call EXCEPT ![c] = NoCall]

-----------------------------------------------------------------------------
(* Connecting and re-authenticating                                        *)

(* The handshake's token, or the one of a REAUTHENTICATE, verifies.        *)
StartCall(c, k, t) ==
    /\ call[c].step = "idle"
    /\ t \in minted \ expired
    /\ call' = [call EXCEPT ![c] = [NoCall EXCEPT
           !.step = "revocation", !.socket = k, !.token = t]]
    /\ UNCHANGED <<tokens, state, messages>>

Handshake(c, k, t) ==
    /\ stage[k] = "gone"
    /\ StartCall(c, k, t)
    /\ stage' = [stage EXCEPT ![k] = "handshake"]
    /\ UNCHANGED <<bound, owner, memberOf, timer>>

Reauthenticate(c, k, t) ==
    /\ stage[k] = "connected"
    /\ StartCall(c, k, t)
    /\ UNCHANGED sockets

(* AUTH_FAILED: a connection is refused, a connected socket stays as it    *)
(* was.                                                                    *)
Reject(c) ==
    LET k == call[c].socket
    IN IF stage[k] = "handshake" THEN CloseSockets({k})
                                 ELSE Return(c) /\ UNCHANGED sockets

(* WsAuthService.authenticate: the revocation, then the user; either read  *)
(* may fail.                                                               *)
ReadRevocation(c) ==
    /\ call[c].step = "revocation"
    /\ \/ Reject(c)     \* revoked, or Redis failed
       \/ /\ ~IsRevoked(call[c].token)
          /\ GoTo(c, "user") /\ UNCHANGED sockets
    /\ UNCHANGED <<tokens, state, messages>>

ReadUser(c) ==
    /\ call[c].step = "user"
    /\ \/ Reject(c)     \* gone or banned, or the database failed
       \/ /\ HasAccess
          /\ GoTo(c, "bind") /\ UNCHANGED sockets
    /\ UNCHANGED <<tokens, state, messages>>

(* bindToken, leaving the rooms in `left': the token's rooms, its binding  *)
(* and its expiry timer.                                                   *)
BindToken(c, k, left) ==
    LET t == call[c].token
    IN /\ memberOf' = [memberOf EXCEPT ![k] = (memberOf[k] \ left) \cup RoomsOf(t)]
       /\ bound' = [bound EXCEPT ![k] = t]
       /\ owner' = [owner EXCEPT ![k] = c]
       /\ timer' = [timer EXCEPT ![k] = t]

(* attach, in the connection middleware.                                   *)
Attach(c) ==
    LET k == call[c].socket
    IN /\ call[c].step = "bind" /\ stage[k] = "handshake"
       /\ BindToken(c, k, {})
       /\ stage' = [stage EXCEPT ![k] = "joined"]
       /\ GoTo(c, "connect")
       /\ UNCHANGED <<tokens, state, messages>>

StartConfirm(c) ==
    call' = [call EXCEPT ![c].step = "confirm", ![c].left = Reads]

(* Socket.IO reports the connection, and handleConnection checks again.  (A*)
(* definition named Mutant... is the same code with a bug put in, which    *)
(* some property notices.)                                                 *)
MutantNotConfirmed(c) ==
    /\ call[c].step = "connect"
    /\ stage' = [stage EXCEPT ![call[c].socket] = "connected"]
    /\ Return(c)
    /\ UNCHANGED <<tokens, state, messages, bound, owner, memberOf, timer>>

HandleConnection(c) ==
    /\ call[c].step = "connect"
    /\ stage' = [stage EXCEPT ![call[c].socket] = "connected"]
    /\ StartConfirm(c)
    /\ UNCHANGED <<tokens, state, messages, bound, owner, memberOf, timer>>

(* reauthenticate, after its await: the token bound now is the one to      *)
(* leave (jti and sid rooms, where they differ), and the new binding is    *)
(* checked again.                                                          *)
MutantStayInOldRooms(c, k) == {}
RoomsToLeave(c, k) == RoomsOf(bound[k]) \ RoomsOf(call[c].token)

Rebind(c) ==
    LET k == call[c].socket
    IN /\ call[c].step = "bind" /\ stage[k] = "connected"
       /\ BindToken(c, k, RoomsToLeave(c, k))
       /\ StartConfirm(c)
       /\ UNCHANGED <<tokens, state, messages, stage>>

(* sessionEndReason: both reads at once, answered in any order.            *)
ConfirmRead(c, what) ==
    LET found == IF what = "revocation" THEN IsRevoked(call[c].token) ELSE ~HasAccess
    IN /\ call[c].step = "confirm" /\ what \in call[c].left
       /\ call' = [call EXCEPT ![c].left = call[c].left \ {what},
                               ![c].ended = call[c].ended \/ found]
       /\ UNCHANGED <<tokens, state, messages, sockets>>

(* confirmBinding, once it has both answers: a binding that was replaced   *)
(* meanwhile is left to the call that replaced it.                         *)
MutantOnlyAnswers(c) ==
    /\ call[c].step = "confirm" /\ call[c].left = {}
    /\ Return(c)
    /\ UNCHANGED <<tokens, state, messages, sockets>>

Confirmed(c) ==
    LET k == call[c].socket
    IN /\ call[c].step = "confirm" /\ call[c].left = {}
       /\ IF owner[k] = c /\ call[c].ended
            THEN CloseSockets({k})
            ELSE Return(c) /\ UNCHANGED sockets
       /\ UNCHANGED <<tokens, state, messages>>

(* A read of confirmBinding fails: it can't tell, and disconnects.         *)
MutantFailOpen(c) ==
    /\ call[c].step = "confirm" /\ call[c].left # {}
    /\ timer' = [timer EXCEPT ![call[c].socket] = None]
    /\ Return(c)
    /\ UNCHANGED <<tokens, state, messages, stage, bound, owner, memberOf>>

ConfirmFails(c) ==
    /\ call[c].step = "confirm" /\ call[c].left # {}
    /\ CloseSockets({call[c].socket})
    /\ UNCHANGED <<tokens, state, messages>>

-----------------------------------------------------------------------------
(* Revocations: state first, then the disconnects                          *)

(* A session's marker is written, or a token's jti blacklisted.            *)
Revoke(x) ==
    /\ x \in Revocable \ expired
    /\ x \in Sessions \cup minted
    /\ revoked' = revoked \cup {x}
    /\ todo' = todo \cup {x}
    /\ UNCHANGED <<tokens, old, account, inFlight, lost, sockets, call>>

(* revokeAllUserSessions, after a password change committed.               *)
RevokeAllUserTokens ==
    /\ "reset" \in Incidents /\ account # "deleted"
    /\ old' = minted
    /\ todo' = todo \cup {UserRoom}
    /\ UNCHANGED <<tokens, revoked, account, inFlight, lost, sockets, call>>

(* setBanStatus and deleteUser: the User row alone rejects the user.       *)
SetAccount(a) ==
    /\ account # "deleted" /\ a # account
    /\ a \in {"active"} \cup Incidents
    /\ account' = a
    /\ todo' = IF a = "active" THEN todo ELSE todo \cup {UserRoom}
    /\ UNCHANGED <<tokens, revoked, old, inFlight, lost, sockets, call>>

(* The event of SessionRevocationService, handled by terminateSessionsIn-  *)
(* Room: a disconnect goes to the room on every instance.                  *)
Announce(x) ==
    /\ x \in todo
    /\ todo' = todo \ {x}
    /\ inFlight' = inFlight \cup ({x} \X Instances)
    /\ UNCHANGED <<tokens, state, lost, sockets, call>>

(* The disconnect reaches an instance; it skips sockets still connecting.  *)
Hit(x, i) ==
    {k \in Sockets : InstanceOf[k] = i /\ stage[k] = "connected" /\ x \in memberOf[k]}

Deliver(x, i) ==
    /\ <<x, i>> \in inFlight
    /\ inFlight' = inFlight \ {<<x, i>>}
    /\ CloseSockets(Hit(x, i))
    /\ UNCHANGED <<tokens, state, todo, lost>>

(* The request fails between the two, or Redis drops the message.          *)
AnnouncementLost(x) ==
    /\ "lost" \in Incidents
    /\ x \in todo
    /\ todo' = todo \ {x}
    /\ lost' = lost \cup {x}
    /\ UNCHANGED <<tokens, state, inFlight, sockets, call>>

MessageLost(x, i) ==
    /\ "lost" \in Incidents
    /\ <<x, i>> \in inFlight
    /\ inFlight' = inFlight \ {<<x, i>>}
    /\ lost' = lost \cup {x}
    /\ UNCHANGED <<tokens, state, todo, sockets, call>>

-----------------------------------------------------------------------------
(* Tokens and time                                                         *)

Mint(t) ==
    /\ t \notin minted
    /\ minted' = minted \cup {t}
    /\ UNCHANGED <<expired, state, messages, sockets, call>>

Expire(t) ==
    /\ t \in minted \ expired
    /\ expired' = expired \cup {t}
    /\ UNCHANGED <<minted, state, messages, sockets, call>>

(* onExpiry (or WsJwtAuthGuard, when a message comes first): the binding   *)
(* is read when the timer fires.                                           *)
OnExpiry(k) ==
    /\ stage[k] = "connected" /\ timer[k] \in expired
    /\ IF bound[k] \in expired
         THEN CloseSockets({k})
         ELSE timer' = [timer EXCEPT ![k] = bound[k]]
              /\ UNCHANGED <<stage, bound, owner, memberOf, call>>
    /\ UNCHANGED <<tokens, state, messages>>

ClientLeaves(k) ==
    /\ "leave" \in Incidents
    /\ stage[k] # "gone"
    /\ CloseSockets({k})
    /\ UNCHANGED <<tokens, state, messages>>

(* An instance stops: its sockets close, what it was sent is moot.         *)
InstanceStops(i) ==
    /\ "stop" \in Incidents
    /\ \E k \in Sockets : InstanceOf[k] = i /\ stage[k] # "gone"
    /\ CloseSockets({k \in Sockets : InstanceOf[k] = i})
    /\ inFlight' = {m \in inFlight : m[2] # i}
    /\ UNCHANGED <<tokens, state, todo, lost>>

-----------------------------------------------------------------------------
Authenticate(c) ==
    \/ \E k \in Sockets, t \in Tokens : Handshake(c, k, t) \/ Reauthenticate(c, k, t)
    \/ ReadRevocation(c) \/ ReadUser(c)
    \/ Attach(c) \/ HandleConnection(c) \/ Rebind(c)

Confirm(c) == (\E what \in Reads : ConfirmRead(c, what)) \/ Confirmed(c)

SocketNext ==
    \/ \E c \in Calls : Authenticate(c) \/ Confirm(c) \/ ConfirmFails(c)
    \/ \E x \in Rooms : Revoke(x) \/ Announce(x) \/ AnnouncementLost(x)
    \/ RevokeAllUserTokens
    \/ \E a \in {"active", "banned", "deleted"} : SetAccount(a)
    \/ \E x \in Rooms, i \in Instances : Deliver(x, i) \/ MessageLost(x, i)
    \/ \E t \in Tokens : Mint(t) \/ Expire(t)
    \/ \E k \in Sockets : OnExpiry(k) \/ ClientLeaves(k)
    \/ \E i \in Instances : InstanceStops(i)

SocketSpec == SocketInit /\ [][SocketNext]_socketVars

(* What the code gets done by itself: a started check finishes, a stored   *)
(* revocation is announced, a disconnect arrives, a timer fires.           *)
SocketFairness ==
    /\ \A c \in Calls : WF_socketVars(Confirm(c))
    /\ \A x \in Rooms : WF_socketVars(Announce(x))
    /\ \A x \in Rooms, i \in Instances : WF_socketVars(Deliver(x, i))
    /\ \A k \in Sockets : WF_socketVars(OnExpiry(k))

SocketFairSpec == SocketSpec /\ SocketFairness

-----------------------------------------------------------------------------
(* Properties                                                              *)

SocketTypeOK ==
    /\ minted \subseteq Tokens /\ expired \subseteq minted
    /\ revoked \subseteq Sessions \cup Tokens /\ old \subseteq Tokens
    /\ account \in {"active", "banned", "deleted"}
    /\ todo \subseteq Rooms /\ inFlight \subseteq Rooms \X Instances
    /\ lost \subseteq Rooms
    /\ stage \in [Sockets -> Stages]
    /\ bound \in [Sockets -> Tokens \cup {None}]
    /\ owner \in [Sockets -> Calls \cup {None}]
    /\ memberOf \in [Sockets -> SUBSET Rooms]
    /\ timer \in [Sockets -> Tokens \cup {None}]
    /\ call \in [Calls -> CallRecord]

Connected(k) == stage[k] = "connected"

(* A disconnect that will reach socket k is being prepared or on its way,  *)
(* or was lost.                                                            *)
Announced(k) ==
    \E x \in memberOf[k] : x \in todo \cup lost \/ <<x, InstanceOf[k]>> \in inFlight

(* The check of k's binding has found its session ended, or has the read   *)
(* before it that will.                                                    *)
WillBeFound(k) ==
    \E c \in Calls :
        /\ owner[k] = c /\ call[c].socket = k /\ call[c].step = "confirm"
        /\ \/ call[c].ended
           \/ IsRevoked(bound[k]) /\ "revocation" \in call[c].left
           \/ ~HasAccess /\ "user" \in call[c].left

(* "A revocation writes its state before it sends the disconnect to the    *)
(* rooms, so it reaches the socket either way: through the rooms if it     *)
(* comes after the join, or through this check" (socket-session.service.ts *)
(* :69-72): no connected socket of an ended session is overlooked, however *)
(* the steps of revocations, handshakes and re-authentications interleave. *)
EndedSocketIsReached ==
    \A k \in Sockets :
        Connected(k) /\ SessionEnded(bound[k]) => Announced(k) \/ WillBeFound(k)

(* The disconnect of a session or a token only closes sockets bound to it  *)
(* at that moment: "a revocation of the old token or session must no       *)
(* longer reach this socket" (socket-session.service.ts:167-168).          *)
RevocationHitsOnlyItsOwn ==
    [][\A x \in Rooms \ {UserRoom}, i \in Instances :
          Deliver(x, i) => \A k \in Hit(x, i) : x \in RoomsOf(bound[k])]_socketVars

(* A socket whose session ended is eventually closed (or bound to a token  *)
(* of a session that stands, or the user unbanned), unless a disconnect    *)
(* was lost.                                                               *)
EndedSocketCloses ==
    \A k \in Sockets :
        Connected(k) /\ SessionEnded(bound[k])
            ~> ~Connected(k) \/ ~SessionEnded(bound[k]) \/ lost # {}

(* A socket whose token expired is eventually closed or bound to another   *)
(* token, whatever was lost: the bound on how long a lost disconnect       *)
(* matters (socket-session.service.ts:34-36).                              *)
ExpiredSocketCloses ==
    \A k \in Sockets :
        Connected(k) /\ bound[k] \in expired
            ~> ~Connected(k) \/ bound[k] \notin expired
=============================================================================

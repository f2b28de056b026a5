--------------------------- MODULE MCSocketRooms ---------------------------
(***************************************************************************)
(* Small instances, for TLC, of the three models of one socket: the rooms  *)
(* of what its user may see (RoomSubscriptions), its session               *)
(* (SocketSessions, here with two calls that race), and the messages its   *)
(* client shows of a channel (MessageCache).  They share no state, and a   *)
(* behaviour is one of one of them.                                        *)
(***************************************************************************)
EXTENDS RoomSubscriptions, SocketSessions, MessageCache, TLC

CONSTANTS u1, t1, s1, s2, i1

MCRbacActions ==
    {"READ_CHANNEL", "READ_MESSAGE", "CREATE_MESSAGE", "ATTACH_FILES",
     "CREATE_REACTION", "PIN_MESSAGE", "UNPIN_MESSAGE", "DELETE_ANY_MESSAGE",
     "JOIN_CHANNEL", "SPEAK", "VIDEO", "SCREEN_SHARE", "MUTE_PARTICIPANT",
     "CAPTURE_REPLAY", "READ_SOUNDBOARD_SOUND", "MANAGE_CHANNEL_PERMISSIONS"}

(* No overwrites, or posting denied to everyone.                           *)
MCOverwriteChoices ==
    {{}, {[target |-> "EVERYONE", role |-> NoOne, user |-> NoOne,
           allow |-> {}, deny |-> {"CREATE_MESSAGE"}]}}

(* Each token is of a session of its own; there is one backend process.    *)
MCSidOf == [t \in Tokens |-> IF t = t1 THEN s1 ELSE s2]
MCInstanceOf == [k \in Sockets |-> i1]

VARIABLE model

AllInit ==
    /\ model \in {"rooms", "session", "window"}
    /\ Init /\ SocketInit /\ WindowInit
    /\ model # "rooms" => overwrites = {} /\ private /\ ~member

AllNext ==
    \/ model = "rooms" /\ Next /\ UNCHANGED <<model, socketVars, windowVars>>
    \/ model = "session" /\ SocketNext /\ UNCHANGED <<model, vars, windowVars>>
    \/ model = "window" /\ WindowNext /\ UNCHANGED <<model, vars, socketVars>>

AllSpec == AllInit /\ [][AllNext]_<<model, vars, socketVars, windowVars>>

(* The types of all three.                                                 *)
AllTypesOK == TypeOK /\ SocketTypeOK /\ WindowTypeOK

Symmetry == Permutations(Handlers) \cup Permutations(Calls)
=============================================================================

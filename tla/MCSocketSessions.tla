------------------------- MODULE MCSocketSessions -------------------------
(* A small instance of SocketSessions for TLC, on one backend process:     *)
(* token t1 carries the session s1, and t0 is from before tokens carried   *)
(* a session.                                                              *)
EXTENDS SocketSessions

CONSTANTS t0, t1, s1, i1

MCSidOf == [t \in Tokens |-> IF t = t0 THEN None ELSE s1]
MCInstanceOf == [k \in Sockets |-> i1]
=============================================================================

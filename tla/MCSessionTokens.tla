-------------------------- MODULE MCSessionTokens --------------------------
(* Small instances of SessionTokens for TLC: origin o1 sends a device id,  *)
(* o2 (in the runs that have it) sends none.                               *)
EXTENDS SessionTokens, TLC

CONSTANTS o1, d1

MCDeviceOf == [o \in Origins |-> IF o = o1 THEN d1 ELSE None]

(* Requests, tokens and sessions are interchangeable; origins are not.     *)
Symmetry == Permutations(Requests) \cup Permutations(Tokens) \cup Permutations(Sessions)
=============================================================================

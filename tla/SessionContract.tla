-------------------------- MODULE SessionContract --------------------------
(***************************************************************************)
(* What the sessions of a user promise, whatever rows, locks, markers and  *)
(* transactions implement them (SessionTokens): a session opens once, with *)
(* one current refresh token; a renewal moves it to another token; a       *)
(* session that ended (expired, was revoked or replaced) never reopens.    *)
(***************************************************************************)
CONSTANTS Sessions, Tokens, None

VARIABLES
    status,     \* "new", "open" or "ended", per session
    current     \* the one refresh token that renews the session, or None

vars == <<status, current>>

Init == /\ status = [s \in Sessions |-> "new"]
        /\ current = [s \in Sessions |-> None]

(* A token that no session has.                                            *)
Unused(t) == \A s \in Sessions : current[s] # t

Ended(S, f, v) == [s \in Sessions |-> IF s \in S THEN v ELSE f[s]]

OpenSessions == {s \in Sessions : status[s] = "open"}

(* A sign-in opens a session and ends some others (of the same install).   *)
(* (Here and below, the first line follows from the rest: it only tells    *)
(* steps that do something else apart early.)                              *)
Open(s) ==
    /\ status[s] = "new" /\ status'[s] = "open"
    /\ \E t \in Tokens, S \in SUBSET OpenSessions :
          /\ Unused(t)
          /\ status' = [Ended(S, status, "ended") EXCEPT ![s] = "open"]
          /\ current' = [Ended(S, current, None) EXCEPT ![s] = t]

Renew(s) ==
    /\ status[s] = "open" /\ current'[s] # current[s]
    /\ status' = status
    /\ \E t \in Tokens : Unused(t) /\ current' = [current EXCEPT ![s] = t]

End ==
    /\ status' # status
    /\ \E S \in (SUBSET OpenSessions) \ {{}} :
          /\ status' = Ended(S, status, "ended")
          /\ current' = Ended(S, current, None)

Next ==
    \/ \E s \in Sessions : Open(s) \/ Renew(s)
    \/ End

Spec == Init /\ [][Next]_vars
=============================================================================

------------------------- MODULE TokenRefreshClient -------------------------
(***************************************************************************)
(* How the tabs of one browser refresh the session they share              *)
(* (src/frontend/src/utils/tokenService.ts, sessionRefreshPolicy.ts): the  *)
(* retry ladder, the cross-tab Web Lock, the pause after a failed ladder   *)
(* and the rounds of a page load, over a network that loses and delays,    *)
(* against the server's rotation, grace window and reuse detection, of     *)
(* which SessionTokens has the detail.                                     *)
(*                                                                         *)
(* Time is discrete: Tick is one unit, and what a timer has to do comes    *)
(* before the next one.  The server gets to a request within Grace -       *)
(* Budget units ("leaves the server 18 s or more to get to it") or never.  *)
(***************************************************************************)
EXTENDS Naturals

CONSTANTS
    Tabs,
    None,
    Refusal,        \* the answer 401
    Timeout,        \* REFRESH_REQUEST_TIMEOUT_MS
    Cooldown,       \* REFRESH_COOLDOWN_MS
    MaxAttempts,    \* MAX_SESSION_REFRESH_ATTEMPTS
    MaxBackoff,     \* MAX_SESSION_REFRESH_BACKOFF_MS
    Budget,         \* SESSION_REFRESH_RETRY_BUDGET_MS
    Rounds,         \* PAGE_LOAD_REFRESH_ROUNDS
    Second,         \* the least pause between two rounds
    Grace,          \* the server's REFRESH_TOKEN_REUSE_GRACE_MS
    MaxToken,       \* bound: refresh tokens of the session
    MaxStarts       \* bound: ladders that are started

ASSUME TimeAssumption ==
    /\ {Timeout, MaxAttempts, MaxBackoff, Rounds, Second, MaxToken} \subseteq Nat \ {0}
    /\ {Cooldown, Budget, Grace, MaxStarts} \subseteq Nat
    /\ Budget < Grace
ASSUME NoneAssumption == None \notin Tabs \cup Nat /\ Refusal \notin Nat \cup {None}

Patience == Grace - Budget

VARIABLES
    cookie,     \* the refresh token in the browser's cookie
    newest,     \* the live token; those before it were rotated
    age,        \* how long ago each token was rotated
    ended,      \* reuse was detected and the session ended
    requests,   \* requests the server or the client still has to do with
    holder,     \* the tab that holds the lock
    phase,      \* of each tab: see Phases
    timer,      \* what is left of its timeout, wait or pause
    attempt,    \* of its ladder
    since,      \* how long ago its ladder started
    round,      \* of its page load; 0 for a REST call
    cooldown,   \* what is left of refreshCooldownUntil
    starts,     \* ladders so far, those of a page load counted ahead
    excused     \* history: see Send

server == <<newest, age, ended>>
ladders == <<phase, timer, attempt, since, round, cooldown, starts, excused>>
vars == <<cookie, server, requests, holder, ladders>>

Tokens == 1..MaxToken
Phases == {"idle", "lock", "sent", "backoff", "pause", "signedOut"}

(* answer: None, a token or Refusal; waiting: its client has not given up.  *)
Request ==
    [tab : Tabs, token : Tokens, sent : 0..Patience,
     answer : Tokens \cup {None, Refusal}, waiting : BOOLEAN, excused : BOOLEAN]

TypeOK ==
    /\ cookie \in Tokens /\ newest \in Tokens /\ cookie <= newest
    /\ age \in [Tokens -> 0..(Grace + 1)]
    /\ ended \in BOOLEAN
    /\ requests \subseteq Request
    /\ \A q \in requests : q.waiting => phase[q.tab] = "sent"
    /\ holder \in Tabs \cup {None}
    /\ \A t \in Tabs : phase[t] = "sent" <=> holder = t
    /\ phase \in [Tabs -> Phases]
    /\ timer \in [Tabs -> Nat]
    /\ attempt \in [Tabs -> 1..MaxAttempts]
    /\ since \in [Tabs -> 0..(Budget + 1)]
    /\ round \in [Tabs -> 0..Rounds]
    /\ cooldown \in [Tabs -> 0..Cooldown]
    /\ starts \in 0..MaxStarts
    /\ excused \in [Tabs -> BOOLEAN]

Init ==
    /\ cookie = 1 /\ newest = 1
    /\ age = [k \in Tokens |-> 0] /\ ended = FALSE
    /\ requests = {} /\ holder = None
    /\ phase = [t \in Tabs |-> "idle"]
    /\ timer = [t \in Tabs |-> 0]
    /\ attempt = [t \in Tabs |-> 1]
    /\ since = [t \in Tabs |-> 0]
    /\ round = [t \in Tabs |-> 0]
    /\ cooldown = [t \in Tabs |-> 0]
    /\ starts = 0
    /\ excused = [t \in Tabs |-> FALSE]

-----------------------------------------------------------------------------
SessionRefreshBackoff(n) ==
    IF 2 ^ (n - 1) \in 0..MaxBackoff THEN 2 ^ (n - 1) ELSE MaxBackoff

(* A bug: attempts are counted, time is not.                               *)
MutantNoBudget(n, elapsed) == n < MaxAttempts

(* nextSessionRefreshDelayMs gives a delay.                                *)
MayRetry(n, elapsed) ==
    n < MaxAttempts /\ elapsed + SessionRefreshBackoff(n) <= Budget

-----------------------------------------------------------------------------
(* Starting                                                                *)

(* runRefreshLadder: the first attempt asks for the lock.                  *)
Ladder(t) ==
    /\ phase' = [phase EXCEPT ![t] = "lock"]
    /\ attempt' = [attempt EXCEPT ![t] = 1]
    /\ since' = [since EXCEPT ![t] = 0]
    /\ excused' = [excused EXCEPT ![t] = FALSE]
    /\ timer' = [timer EXCEPT ![t] = 0]

(* refreshSessionWithRetry, unless it is paused.                           *)
RefreshSessionWithRetry(t) ==
    /\ phase[t] = "idle" /\ cooldown[t] = 0 /\ starts < MaxStarts
    /\ starts' = starts + 1
    /\ round' = [round EXCEPT ![t] = 0]
    /\ Ladder(t)
    /\ UNCHANGED <<cookie, server, requests, holder, cooldown>>

(* A page load's refreshSessionUntilAnswered; "Try again" ends a pause     *)
(* first (endRefreshCooldown).                                             *)
RefreshSessionUntilAnswered(t, tryAgain) ==
    /\ phase[t] = "idle" /\ starts + Rounds <= MaxStarts /\ (tryAgain => cooldown[t] > 0)
    /\ starts' = starts + Rounds
    /\ round' = [round EXCEPT ![t] = 1]
    /\ cooldown' = IF tryAgain THEN [cooldown EXCEPT ![t] = 0] ELSE cooldown
    /\ IF cooldown'[t] > 0
         THEN /\ phase' = [phase EXCEPT ![t] = "pause"]
              /\ timer' = [timer EXCEPT ![t] = cooldown[t]]
              /\ UNCHANGED <<attempt, since, excused>>
         ELSE Ladder(t)
    /\ UNCHANGED <<cookie, server, requests, holder>>

-----------------------------------------------------------------------------
(* The request                                                             *)

(* A bug: every tab goes ahead.                                            *)
MutantNoLock(t) == TRUE
LockFree(t) == holder = None

(* With the lock, the request goes out with the cookie of this moment.     *)
(* Its ladder is excused if its first attempt sent a token that had been   *)
(* rotated already (an earlier ladder, or another tab, lost the answer),   *)
(* or if it has waited for the lock.                                       *)
Send(t) ==
    /\ phase[t] = "lock" /\ LockFree(t)
    /\ holder' = t
    /\ phase' = [phase EXCEPT ![t] = "sent"]
    /\ timer' = [timer EXCEPT ![t] = Timeout]
    /\ excused' = [excused EXCEPT ![t] = @ \/ (attempt[t] = 1 /\ cookie # newest)]
    /\ requests' = requests \cup
          {[tab |-> t, token |-> cookie, sent |-> 0, answer |-> None,
            waiting |-> TRUE, excused |-> excused'[t]]}
    /\ UNCHANGED <<cookie, server, attempt, since, round, cooldown, starts>>

(* The server gets to a request: it rotates a live token, gives a token    *)
(* rotated within the grace window its live successor, and ends the        *)
(* session for one rotated before.                                         *)
Unknown(q) == q \in requests /\ q.answer = None
Answered(q, a) ==
    requests' = (requests \ {q}) \cup
        (IF q.waiting THEN {[q EXCEPT !.answer = a, !.sent = 0]} ELSE {})

Rotate(q) ==
    /\ Unknown(q) /\ ~ended /\ q.token = newest /\ newest < MaxToken
    /\ newest' = newest + 1
    /\ Answered(q, newest + 1)
    /\ UNCHANGED <<cookie, age, ended, holder, ladders>>

GraceRefresh(q) ==
    /\ Unknown(q) /\ ~ended /\ q.token < newest /\ age[q.token] <= Grace
    /\ Answered(q, newest)
    /\ UNCHANGED <<cookie, server, holder, ladders>>

DetectReuse(q) ==
    /\ Unknown(q) /\ ~ended /\ q.token < newest /\ age[q.token] > Grace
    /\ ended' = TRUE
    /\ Answered(q, Refusal)
    /\ UNCHANGED <<cookie, newest, age, holder, ladders>>

RefuseEnded(q) ==
    /\ Unknown(q) /\ ended
    /\ Answered(q, Refusal)
    /\ UNCHANGED <<cookie, server, holder, ladders>>

(* The request or its answer is lost, or the server cannot answer: the     *)
(* client waits for its timeout or sees an error.  (One it gave up on ends  *)
(* with Patience.)                                                         *)
Lose(q) ==
    /\ q \in requests /\ q.waiting
    /\ requests' = requests \ {q}
    /\ UNCHANGED <<cookie, server, holder, ladders>>

-----------------------------------------------------------------------------
(* The answer                                                              *)

(* No ladder runs in the tab: between two, for `pause' units, or for good. *)
Rest(t, p, pause, r) ==
    /\ phase' = [phase EXCEPT ![t] = p]
    /\ timer' = [timer EXCEPT ![t] = pause]
    /\ round' = [round EXCEPT ![t] = r]
    /\ attempt' = [attempt EXCEPT ![t] = 1]
    /\ since' = [since EXCEPT ![t] = 0]
    /\ excused' = [excused EXCEPT ![t] = FALSE]

(* "refreshed": the browser has stored the cookie when the lock is let go. *)
Refreshed(q) ==
    /\ q \in requests /\ q.waiting /\ q.answer \in Tokens
    /\ cookie' = q.answer
    /\ requests' = requests \ {q}
    /\ holder' = None
    /\ cooldown' = [cooldown EXCEPT ![q.tab] = 0]
    /\ Rest(q.tab, "idle", 0, 0)
    /\ UNCHANGED <<server, starts>>

(* "rejected": the login page.                                             *)
Rejected(q) ==
    /\ q \in requests /\ q.waiting /\ q.answer = Refusal
    /\ requests' = requests \ {q}
    /\ holder' = None
    /\ Rest(q.tab, "signedOut", 0, 0)
    /\ UNCHANGED <<cookie, server, cooldown, starts>>

(* "unavailable": a timeout, or an error before it.  The ladder waits for  *)
(* its next attempt, or pauses; a page load may have rounds left.          *)
GiveUpRequest(t) ==
    requests' = {q \in requests : q.tab # t} \cup
        {[q EXCEPT !.waiting = FALSE] : q \in {r \in requests : r.tab = t /\ r.answer = None}}

Pause(t) ==
    /\ cooldown' = [cooldown EXCEPT ![t] = Cooldown]
    /\ IF round[t] \in 1..(Rounds - 1)
         THEN Rest(t, "pause", IF Cooldown > Second THEN Cooldown ELSE Second, round[t] + 1)
         ELSE Rest(t, "idle", 0, 0)

BackOff(t) ==
    /\ phase' = [phase EXCEPT ![t] = "backoff"]
    /\ timer' = [timer EXCEPT ![t] = SessionRefreshBackoff(attempt[t])]
    /\ UNCHANGED <<attempt, since, round, excused, cooldown>>

Unavailable(t) ==
    /\ phase[t] = "sent"
    /\ holder' = None
    /\ GiveUpRequest(t)
    /\ IF MayRetry(attempt[t], since[t]) THEN BackOff(t) ELSE Pause(t)
    /\ UNCHANGED <<cookie, server, starts>>

(* A bug: the request has no timeout.                                      *)
MutantNoTimeout(t) == FALSE
TimedOut(t) == phase[t] = "sent" /\ timer[t] = 0

RequestTimeout(t) == TimedOut(t) /\ Unavailable(t)
RequestFails(t) == phase[t] = "sent" /\ timer[t] > 0 /\ Unavailable(t)

(* The wait is over: the next attempt.                                     *)
Retry(t) ==
    /\ phase[t] = "backoff" /\ timer[t] = 0
    /\ phase' = [phase EXCEPT ![t] = "lock"]
    /\ attempt' = [attempt EXCEPT ![t] = @ + 1]
    /\ UNCHANGED <<cookie, server, requests, holder, timer, since, round, cooldown,
                   starts, excused>>

(* The pause is over: the next round.                                      *)
NextRound(t) ==
    /\ phase[t] = "pause" /\ timer[t] = 0
    /\ Ladder(t)
    /\ UNCHANGED <<cookie, server, requests, holder, round, cooldown, starts>>

-----------------------------------------------------------------------------
Less(n) == IF n > 0 THEN n - 1 ELSE 0
More(n, max) == IF n < max THEN n + 1 ELSE max

Due(t) ==
    \/ phase[t] \in {"sent", "backoff", "pause"} /\ timer[t] = 0
    \/ phase[t] = "lock" /\ LockFree(t)

(* A token that may still be sent, or is with the server: only its age     *)
(* matters.                                                                *)
Presented(k) == k >= cookie \/ \E q \in requests : q.token = k

(* The client gives up a request at its timeout; the server never gets to  *)
(* one it has not got to within Patience.                                  *)
Tick ==
    /\ \A t \in Tabs : ~Due(t)
    /\ timer' = [t \in Tabs |-> Less(timer[t])]
    /\ cooldown' = [t \in Tabs |-> Less(cooldown[t])]
    /\ since' = [t \in Tabs |->
          IF phase[t] \in {"lock", "sent", "backoff"} THEN More(since[t], Budget + 1) ELSE 0]
    /\ excused' = [t \in Tabs |->
          excused[t] \/ (phase[t] = "lock" /\ attempt[t] > 1)]
    /\ age' = [k \in Tokens |->
          IF k < newest /\ ~ended /\ Presented(k) THEN More(age[k], Grace + 1) ELSE 0]
    /\ requests' = {[q EXCEPT !.sent = IF q.answer = None THEN @ + 1 ELSE 0] :
                      q \in {r \in requests : r.answer = None => r.sent < Patience}}
    /\ UNCHANGED <<cookie, newest, ended, holder, phase, attempt, round, starts>>

Client(t) == Send(t) \/ RequestTimeout(t) \/ Retry(t) \/ NextRound(t)

Next ==
    \/ \E t \in Tabs :
          \/ RefreshSessionWithRetry(t)
          \/ \E tryAgain \in BOOLEAN : RefreshSessionUntilAnswered(t, tryAgain)
          \/ Client(t) \/ RequestFails(t)
    \/ \E q \in requests :
          \/ Rotate(q) \/ GraceRefresh(q) \/ DetectReuse(q) \/ RefuseEnded(q) \/ Lose(q)
          \/ Refreshed(q) \/ Rejected(q)
    \/ Tick

Spec == Init /\ [][Next]_vars

(* Time passes, timers fire, and a lock that stays free is granted.        *)
(* Nothing is assumed of the network and the server.                       *)
FairSpec == Spec /\ WF_vars(Tick) /\ \A t \in Tabs : WF_vars(Client(t))

-----------------------------------------------------------------------------
(* "a retry past the server's grace window would end the session": no      *)
(* request of a ladder does, however its attempts fail and however late    *)
(* the server gets to them, if the ladder began with a live token and did  *)
(* not wait for another tab before a retry (sessionRefreshPolicy.ts:18-30).*)
RetriesKeepTheSession ==
    [][\A q \in requests : DetectReuse(q) => q.excused]_vars

(* "the browser has stored the rotated cookie before the next tab's        *)
(* request goes out": no tab puts back a cookie that another has replaced, *)
(* also when answers of timed-out requests are still on their way.         *)
CookieNeverGoesBack == [][cookie' >= cookie]_vars

(* A page load does not keep the user on "Connecting..." forever: it ends  *)
(* refreshed, signed out, or offering to try again, whatever the server    *)
(* and the other tabs do (PAGE_LOAD_REFRESH_ROUNDS; the request timeout    *)
(* bounds how long a tab holds the lock).                                  *)
PageLoadEnds == \A t \in Tabs : round[t] > 0 ~> round[t] = 0
=============================================================================

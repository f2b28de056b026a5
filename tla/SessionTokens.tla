--------------------------- MODULE SessionTokens ---------------------------
(***************************************************************************)
(* The sessions of ONE user: refresh token rows in PostgreSQL, revocation  *)
(* markers in Redis, the access tokens in clients' hands, and the HTTP     *)
(* requests that sign in, refresh, revoke and reset concurrently           *)
(* (src/backend/src/auth).                                                 *)
(*                                                                         *)
(* A request is a thread of control that runs one handler at a time.  A    *)
(* step is the code between two points where another request can run: a   *)
(* statement of a transaction, a Redis call, the commit.                   *)
(*                                                                         *)
(* Transactions are READ COMMITTED.  A transaction's own writes stay in    *)
(* its request record until it commits.  Sign-ins and rotations hold the   *)
(* user row FOR SHARE (they are the requests in InTransaction); a          *)
(* revocation holds it FOR NO KEY UPDATE, so from its lock to its commit   *)
(* no sign-in or rotation is in its transaction: that stretch is one       *)
(* action, enabled when UserUnlocked.                                      *)
(*                                                                         *)
(* Time: `clock' counts the instants that matter, the reads of the clock   *)
(* for a user's cutoff; a token's iat is the count when it was signed.     *)
(***************************************************************************)
EXTENDS Naturals, FiniteSets

CONSTANTS
    Requests,   \* concurrent HTTP requests
    Tokens,     \* refresh token ids (jti)
    Sessions,   \* session ids (token families, the sid of access tokens)
    Origins,    \* clients as isSameClient tells them apart (address, agent)
    Devices,    \* client installs (X-Device-Id)
    DeviceOf,   \* the device id an origin sends, or None
    None,       \* no token / no device / no session
    MaxHops,    \* MAX_GRACE_HOPS
    MaxResets,  \* bound: how many times the password is changed
    AdminOps    \* bound: which of "ban" and "delete" administrators do

ASSUME NoneAssumption ==
    None \notin Tokens \cup Sessions \cup Origins \cup Devices
ASSUME DeviceAssumption == DeviceOf \in [Origins -> Devices \cup {None}]
ASSUME BoundAssumption == MaxHops \in Nat \ {0} /\ MaxResets \in Nat
                           /\ AdminOps \subseteq {"ban", "delete"}

VARIABLES
    account,    \* the User row: "active", "banned" or "deleted"
    pwd,        \* version of User.hashedPassword
    token,      \* what a refresh token carries for good, or Unminted
    row,        \* committed RefreshToken rows, see RowStates
    successor,  \* Redis: which token a token was rotated to
    marker,     \* Redis: sessions marked revoked
    cutoff,     \* Redis: the user's cutoff (0: none)
    access,     \* access tokens that were handed out and may be unexpired
    clock,
    held,       \* RefreshToken rows each request has locked
    step,       \* where each request is in its handler
    (* The local variables of each request's handler                       *)
    tok,        \* the refresh token it presented
    nxt,        \* the refresh token it will answer with
    origin,     \* the client it came from
    pw,         \* the password version it checked, or set
    signed,     \* the iat of its access token, or the cutoff it read
    hops,       \* grace successors it has followed
    dels,       \* the rows its deleteMany saw
    ends,       \* the sessions it ends
    (* History variables, for the properties only *)
    opened,     \* password version each session signed in with (0: not yet)
    ended,      \* sessions a committed revocation deleted
    cleared,    \* sessions whose revocation has written its marker
    resetDone,  \* password version whose reset has written its cutoff
    replaced    \* sessions a committed sign-in replaced

redis == <<successor, marker, cutoff>>
locals == <<tok, nxt, origin, pw, signed, hops, dels, ends>>
request == <<step, tok, nxt, origin, pw, signed, hops, dels, ends>>
history == <<opened, ended, cleared, resetDone, replaced>>

stored == <<account, pwd, token, row, redis, access, clock, history>>

vars == <<stored, held, request>>

-----------------------------------------------------------------------------
(* "consumed" is consumed within the grace window, "stale" after it.       *)
RowStates == {"none", "live", "consumed", "stale"}

Unminted == [iat |-> 0, sid |-> None, origin |-> None, device |-> None]

TokenData == [iat : Nat, sid : Sessions \cup {None},
              origin : Origins \cup {None}, device : Devices \cup {None}]

AccessTokens == [sid : Sessions, iat : Nat, late : BOOLEAN]

Steps == {"idle",
          "login", "delete", "store", "loginCommit", "replace",
          "lockUser", "lockToken", "hop", "check", "issue", "refreshCommit",
          "reused", "purge", "purgeWait",
          "mark", "cutoffRead", "cutoffWrite"}

InTransaction == {"delete", "store", "loginCommit",
                  "lockToken", "hop", "check", "issue", "refreshCommit"}

Init ==
    /\ account = "active" /\ pwd = 1
    /\ token = [t \in Tokens |-> Unminted]
    /\ row = [t \in Tokens |-> "none"]
    /\ successor = [t \in Tokens |-> None]
    /\ marker = {} /\ cutoff = 0 /\ access = {} /\ clock = 1
    /\ held = [r \in Requests |-> {}]
    /\ step = [r \in Requests |-> "idle"]
    /\ tok = [r \in Requests |-> None] /\ nxt = [r \in Requests |-> None]
    /\ origin = [r \in Requests |-> None]
    /\ pw = [r \in Requests |-> 0] /\ signed = [r \in Requests |-> 0]
    /\ hops = [r \in Requests |-> 0]
    /\ dels = [r \in Requests |-> {}] /\ ends = [r \in Requests |-> {}]
    /\ opened = [s \in Sessions |-> 0]
    /\ ended = {} /\ cleared = {} /\ resetDone = 1 /\ replaced = {}

-----------------------------------------------------------------------------
(* Helpers                                                                 *)

SessionOf(t) == token[t].sid
RowsOf(S) == {t \in Tokens : row[t] # "none" /\ SessionOf(t) \in S}
Fresh(t) == token[t] = Unminted
FreshSession(s) == \A t \in Tokens : SessionOf(t) # s

(* Nobody is in a transaction that holds the user row FOR SHARE.  (The     *)
(* definitions named Mutant... are the same code with a bug put in: each   *)
(* shows that some property would notice it.)                              *)
MutantNoUserLock == TRUE
UserUnlocked == \A r \in Requests : step[r] \notin InTransaction

(* Every row in T can be locked by r, or is already.                       *)
MutantNoRowLock(r, T) == TRUE
RowsFree(r, T) == \A q \in Requests \ {r} : held[q] \cap T = {}

(* The request goes on at another step of its handler.                     *)
Goto(r, s) == step' = [step EXCEPT ![r] = s]

(* A handler starts, or what follows its commit.                           *)
Begin(r, s, t, n, o, p, S) ==
    /\ Goto(r, s)
    /\ tok' = [tok EXCEPT ![r] = t] /\ nxt' = [nxt EXCEPT ![r] = n]
    /\ origin' = [origin EXCEPT ![r] = o] /\ pw' = [pw EXCEPT ![r] = p]
    /\ signed' = [signed EXCEPT ![r] = 0] /\ hops' = [hops EXCEPT ![r] = 0]
    /\ dels' = [dels EXCEPT ![r] = {}] /\ ends' = [ends EXCEPT ![r] = S]

Answer(r) == Begin(r, "idle", None, None, None, 0, {})

(* The transaction ends, its locks go.                                     *)
Unlock(r) == held' = [held EXCEPT ![r] = {}]

Delete(T) == row' = [t \in Tokens |-> IF t \in T THEN "none" ELSE row[t]]

(* TokenBlacklistService.revocationOf, for a token of session s signed at  *)
(* i.  A cutoff revokes what was signed at or before it.                   *)
MutantCutoffOffByOne(s, i) == s \in marker \/ i < cutoff
IsRevoked(s, i) == s \in marker \/ i <= cutoff

(* JwtStrategy.validate: an access token the API accepts.                  *)
Accepted(a) == ~IsRevoked(a.sid, a.iat) /\ account = "active"

Sign(s, i) ==
    access' = access \cup {[sid |-> s, iat |-> i, late |-> s \in marker]}

-----------------------------------------------------------------------------
(* Signing in: AuthService.issueLoginTokens                                *)

(* The password is checked and the refresh token signed and hashed, before *)
(* the transaction.  A banned user's password is checked all the same.     *)
LoginVerify(r, o, t, s) ==
    /\ step[r] = "idle"
    /\ account # "deleted"
    /\ Fresh(t) /\ FreshSession(s)
    /\ token' = [token EXCEPT ![t] =
           [iat |-> clock, sid |-> s, origin |-> o, device |-> DeviceOf[o]]]
    /\ Begin(r, "login", None, t, o, pwd, {})
    /\ UNCHANGED <<account, pwd, row, redis, access, clock, held, history>>

(* lockUserForLogin: the user row FOR SHARE, and the password compared     *)
(* with the one that was checked; then generateRefreshToken finds the live *)
(* sessions of the same install (nothing can invalidate the comparison     *)
(* between the two: the lock is held).                                     *)
SameInstall(r) ==
    {SessionOf(t) : t \in {u \in Tokens :
        row[u] = "live" /\ token[u].device # None
        /\ token[u].device = DeviceOf[origin[r]]}}

MutantPasswordNotCompared(r) == account # "deleted"
SamePassword(r) == account # "deleted" /\ pw[r] = pwd

LoginLock(r) ==
    /\ step[r] = "login"
    /\ \/ /\ ~SamePassword(r)
          /\ Answer(r)
       \/ /\ SamePassword(r)
          /\ Goto(r, IF SameInstall(r) = {} THEN "store" ELSE "delete")
          /\ ends' = [ends EXCEPT ![r] = SameInstall(r)]
          /\ UNCHANGED <<tok, nxt, origin, pw, signed, hops, dels>>
    /\ UNCHANGED <<stored, held>>

(* deleteMany starts: READ COMMITTED, it will delete the rows committed    *)
(* now and no later ones.                                                  *)
LoginDelete(r) ==
    /\ step[r] = "delete"
    /\ dels' = [dels EXCEPT ![r] = RowsOf(ends[r])]
    /\ Goto(r, "store")
    /\ UNCHANGED <<tok, nxt, origin, pw, signed, hops, ends>>
    /\ UNCHANGED <<stored, held>>

(* deleteMany has locked its rows (it waits for who holds them), the new   *)
(* row is inserted, the access token signed: all before the commit.        *)
LoginStore(r) ==
    /\ step[r] = "store"
    /\ RowsFree(r, dels[r])
    /\ held' = [held EXCEPT ![r] = dels[r]]
    /\ signed' = [signed EXCEPT ![r] = clock]
    /\ Goto(r, "loginCommit")
    /\ UNCHANGED <<tok, nxt, origin, pw, hops, dels, ends>>
    /\ UNCHANGED stored

LoginCommit(r) ==
    LET t == nxt[r]
    IN /\ step[r] = "loginCommit"
       /\ row' = [u \in Tokens |-> IF u = t THEN "live"
                                   ELSE IF u \in dels[r] THEN "none"
                                   ELSE row[u]]
       /\ Sign(SessionOf(t), signed[r])
       /\ opened' = [opened EXCEPT ![SessionOf(t)] = pw[r]]
       /\ replaced' = replaced \cup ends[r]
       /\ IF ends[r] = {} THEN Answer(r)
          ELSE Begin(r, "replace", None, None, None, 0, ends[r])
       /\ Unlock(r)
       /\ UNCHANGED <<account, pwd, token, redis, clock, ended, cleared, resetDone>>

-----------------------------------------------------------------------------
(* Refreshing: AuthController.refresh                                      *)

(* verifyRefreshToken, the ban check and validateRefreshToken, before the  *)
(* transaction.                                                            *)
RefreshVerify(r, t, o) ==
    /\ step[r] = "idle"
    /\ account = "active"
    /\ row[t] # "none"
    /\ Begin(r, "lockUser", t, None, o, 0, {})
    /\ UNCHANGED <<stored, held>>

(* lockUserForTokenRotation: gone or banned meanwhile is a 401.            *)
MutantBanNotRechecked(r) ==
    /\ step[r] = "lockUser"
    /\ Goto(r, "lockToken")
    /\ UNCHANGED <<stored, held, locals>>

RefreshLockUser(r) ==
    /\ step[r] = "lockUser"
    /\ IF account = "active" THEN Goto(r, "lockToken") /\ UNCHANGED locals
                             ELSE Answer(r)
    /\ UNCHANGED <<stored, held>>

(* lockRefreshToken and reloadRefreshToken: the token's state under its    *)
(* lock decides how the refresh goes on.                                   *)
RefreshLockToken(r) ==
    LET t == tok[r]
    IN /\ step[r] = "lockToken"
       /\ RowsFree(r, {t})
       /\ \/ /\ row[t] = "none"
             /\ Answer(r) /\ Unlock(r)
          \/ /\ row[t] = "live"
             /\ Goto(r, "check") /\ UNCHANGED locals
             /\ held' = [held EXCEPT ![r] = {t}]
          \/ /\ row[t] = "consumed"
             /\ Goto(r, "hop")
             /\ nxt' = [nxt EXCEPT ![r] = t]
             /\ UNCHANGED <<tok, origin, pw, signed, hops, dels, ends>>
             /\ held' = [held EXCEPT ![r] = {t}]
          \/ /\ row[t] = "stale"
             /\ Goto(r, "reused") /\ Unlock(r) /\ UNCHANGED locals
       /\ UNCHANGED stored

(* isSameClient: the refresh that created u came from this origin.         *)
MutantAnyClient(u, o) == TRUE
SameClient(u, o) == token[u].origin = o

(* What findGraceSuccessor does with a successor u it has locked.          *)
FollowTo(r, u) ==
    LET gone == row[u] = "none" \/ SessionOf(u) # SessionOf(tok[r])
        same == SameClient(u, origin[r])
    IN \/ /\ gone \/ (same /\ row[u] = "stale")
          /\ Answer(r) /\ Unlock(r)
       \/ /\ ~gone /\ ~same
          /\ Goto(r, "reused") /\ Unlock(r) /\ UNCHANGED locals
       \/ /\ ~gone /\ same /\ row[u] \in {"live", "consumed"}
          /\ nxt' = [nxt EXCEPT ![r] = u]
          /\ held' = [held EXCEPT ![r] = held[r] \cup {u}]
          /\ IF row[u] = "live"
               THEN Goto(r, "check") /\ UNCHANGED hops
               ELSE UNCHANGED step /\ hops' = [hops EXCEPT ![r] = hops[r] + 1]
          /\ UNCHANGED <<tok, origin, pw, signed, dels, ends>>

(* One iteration of findGraceSuccessor, from nxt[r] to its successor.      *)
GraceHop(r) ==
    LET u == successor[nxt[r]]
    IN /\ step[r] = "hop"
       /\ \/ /\ u = None \/ hops[r] = MaxHops
             /\ Answer(r) /\ Unlock(r)
          \/ /\ u # None /\ hops[r] < MaxHops
             /\ RowsFree(r, {u})
             /\ FollowTo(r, u)
       /\ UNCHANGED stored

(* The token whose right to renew is checked: the presented one, or the    *)
(* successor a refresh in the grace window found.                          *)
Renewing(r) == IF nxt[r] = None THEN tok[r] ELSE nxt[r]

RefreshCheck(r) ==
    LET t == Renewing(r)
    IN /\ step[r] = "check"
       /\ IF IsRevoked(SessionOf(t), token[t].iat)
            THEN Goto(r, "purge") /\ Unlock(r)
            ELSE Goto(r, "issue") /\ UNCHANGED held
       /\ UNCHANGED locals
       /\ UNCHANGED stored

(* In the grace window: the successor is handed out and only an access     *)
(* token is signed.                                                        *)
GraceIssue(r) ==
    /\ step[r] = "issue"
    /\ nxt[r] # None
    /\ signed' = [signed EXCEPT ![r] = clock]
    /\ Goto(r, "refreshCommit")
    /\ UNCHANGED <<tok, nxt, origin, pw, hops, dels, ends>>
    /\ UNCHANGED <<stored, held>>

(* Rotation: consumeRefreshToken, generateRefreshToken in the same family, *)
(* remember (in Redis, before the commit), and the access token signed.    *)
Rotate(r, u) ==
    LET t == tok[r]
        d == token[t].device
    IN /\ step[r] = "issue"
       /\ nxt[r] = None
       /\ Fresh(u)
       /\ token' = [token EXCEPT ![u] =
              [iat |-> clock, sid |-> SessionOf(t), origin |-> origin[r],
               device |-> IF d # None THEN d ELSE DeviceOf[origin[r]]]]
       /\ successor' = [successor EXCEPT ![t] = u]
       /\ nxt' = [nxt EXCEPT ![r] = u]
       /\ signed' = [signed EXCEPT ![r] = clock]
       /\ Goto(r, "refreshCommit")
       /\ UNCHANGED <<tok, origin, pw, hops, dels, ends>>
       /\ UNCHANGED <<account, pwd, row, marker, cutoff, access, clock, held, history>>

(* A rotation's new token has no row yet, a grace refresh's successor has. *)
Rotating(r) == row[nxt[r]] = "none"

RefreshCommit(r) ==
    /\ step[r] = "refreshCommit"
    /\ row' = IF Rotating(r)
                THEN [row EXCEPT ![tok[r]] = "consumed", ![nxt[r]] = "live"]
                ELSE row
    /\ Sign(SessionOf(tok[r]), signed[r])
    /\ Answer(r) /\ Unlock(r)
    /\ UNCHANGED <<account, pwd, token, redis, clock, history>>

(* A refresh with a revoked session: invalidateTokenFamily, outside the    *)
(* transaction and without the user lock.  Like every deleteMany it        *)
(* deletes the rows it saw when it started, once nobody holds them.        *)
Purge(r) ==
    /\ step[r] = "purge"
    /\ dels' = [dels EXCEPT ![r] = RowsOf({SessionOf(tok[r])})]
    /\ Goto(r, "purgeWait")
    /\ UNCHANGED <<tok, nxt, origin, pw, signed, hops, ends>>
    /\ UNCHANGED <<stored, held>>

PurgeFinish(r) ==
    /\ step[r] = "purgeWait"
    /\ RowsFree(r, dels[r])
    /\ Delete(dels[r])
    /\ Answer(r)
    /\ UNCHANGED <<account, pwd, token, redis, access, clock, held, history>>

-----------------------------------------------------------------------------
(* Revocations.  Each transaction locks the user FOR NO KEY UPDATE,        *)
(* deletes the sessions' rows and commits; the markers follow.             *)

EndSessions(r, S, T) ==
    /\ UserUnlocked
    /\ Delete(T)
    /\ ended' = ended \cup S
    /\ Begin(r, "mark", None, None, None, 0, S)
    /\ UNCHANGED <<account, pwd, token, redis, access, clock, held,
                   opened, cleared, resetDone, replaced>>

(* logout: the family of the presented token, read again under the lock.   *)
Logout(r, t) ==
    /\ step[r] = "idle"
    /\ row[t] # "none"
    /\ EndSessions(r, {SessionOf(t)}, RowsOf({SessionOf(t)}))

(* revokeSession: a session of the list, by its id.                        *)
RevokeSession(r, s) ==
    /\ step[r] = "idle"
    /\ RowsOf({s}) # {}
    /\ EndSessions(r, {s}, RowsOf({s}))

(* revokeAllOtherSessions: all but the session of the token the request    *)
(* came with.  If that token's row is gone, no session counts as current.  *)
MutantNullFamilyKept(r, t) ==
    LET others == {SessionOf(u) : u \in Tokens \ {t}}
    IN /\ step[r] = "idle"
       /\ ~Fresh(t)
       /\ EndSessions(r, others \ {SessionOf(t)}, RowsOf(others))

RevokeAllOthers(r, t) ==
    LET current == IF row[t] # "none" THEN {SessionOf(t)} ELSE {}
        others == {SessionOf(u) : u \in {v \in Tokens : row[v] # "none" /\ v # t}}
    IN /\ step[r] = "idle"
       /\ ~Fresh(t)
       /\ EndSessions(r, others \ current, RowsOf(others \ current) \ {t})

(* revokeReusedSession: after a refresh found its token reused.            *)
RevokeReused(r) ==
    LET s == SessionOf(tok[r])
    IN /\ step[r] = "reused"
       /\ EndSessions(r, {s}, RowsOf({s}))

(* revokeSessions: the Redis markers, after the commit.                    *)
MarkRevoked(r) ==
    /\ step[r] \in {"mark", "replace"}
    /\ marker' = marker \cup ends[r]
    /\ access' = {[a EXCEPT !.late = a.late /\ a.sid \notin ends[r]] : a \in access}
    /\ cleared' = IF step[r] = "mark" THEN cleared \cup ends[r] ELSE cleared
    /\ Answer(r)
    /\ UNCHANGED <<account, pwd, token, row, successor, cutoff, clock, held,
                   opened, ended, resetDone, replaced>>

(* resetPasswordAndRevokeSessions: the password and every refresh token,   *)
(* in one transaction.                                                     *)
ResetPassword(r) ==
    /\ step[r] = "idle"
    /\ account # "deleted" /\ pwd <= MaxResets
    /\ UserUnlocked
    /\ pwd' = pwd + 1
    /\ Delete(Tokens)
    /\ ended' = ended \cup {SessionOf(t) : t \in {u \in Tokens : row[u] # "none"}}
    /\ Begin(r, "cutoffRead", None, None, None, pwd + 1, {})
    /\ UNCHANGED <<account, token, redis, access, clock, held,
                   opened, cleared, resetDone, replaced>>

(* revokeAllUserTokens: Date.now() after the commit ...  What is signed    *)
(* next may still be in the same millisecond.                              *)
CutoffRead(r) ==
    /\ step[r] = "cutoffRead"
    /\ signed' = [signed EXCEPT ![r] = clock]
    /\ Goto(r, "cutoffWrite")
    /\ UNCHANGED <<tok, nxt, origin, pw, hops, dels, ends>>
    /\ clock' \in {clock, clock + 1}
    /\ UNCHANGED <<account, pwd, token, row, redis, access, held, history>>

(* ... then the SET of that value.                                         *)
CutoffWrite(r) ==
    /\ step[r] = "cutoffWrite"
    /\ cutoff' = signed[r]
    /\ resetDone' = IF pw[r] > resetDone THEN pw[r] ELSE resetDone
    /\ Answer(r)
    /\ UNCHANGED <<account, pwd, token, row, successor, marker, access, clock,
                   held, opened, ended, cleared, replaced>>

(* setBanStatus and deleteUser write the User row, which waits for its     *)
(* FOR SHARE holders.  A banned user keeps their rows; a deleted one's     *)
(* cascade.                                                                *)
SetBanStatus(banned) ==
    /\ "ban" \in AdminOps
    /\ account # "deleted"
    /\ UserUnlocked
    /\ account' = IF banned THEN "banned" ELSE "active"
    /\ UNCHANGED <<pwd, token, row, redis, access, clock, held, request, history>>

DeleteUser ==
    /\ "delete" \in AdminOps
    /\ account # "deleted"
    /\ UserUnlocked
    /\ account' = "deleted"
    /\ Delete(Tokens)
    /\ ended' = ended \cup {SessionOf(t) : t \in {u \in Tokens : row[u] # "none"}}
    /\ UNCHANGED <<pwd, token, redis, access, clock, held, request,
                   opened, cleared, resetDone, replaced>>

-----------------------------------------------------------------------------
(* Failures and time                                                       *)

(* A request dies: the instance crashes, or PostgreSQL or Redis fails its  *)
(* call.  Its transaction rolls back; what it did after a commit is lost.  *)
Fail(r) ==
    /\ step[r] # "idle"
    /\ Answer(r) /\ Unlock(r)
    /\ UNCHANGED stored

(* The grace window of a rotation ends.  Its successor key outlives it, so *)
(* it is never missing while it is asked for.                              *)
GraceEnds(t) ==
    /\ row[t] = "consumed"
    /\ row' = [row EXCEPT ![t] = "stale"]
    /\ UNCHANGED <<account, pwd, token, redis, access, clock, held, request, history>>

(* cleanExpiredTokens: rows 30 days after their rotation, and consumed     *)
(* rows after a week.                                                      *)
CleanExpiredToken(t) ==
    /\ row[t] \in {"live", "stale"}
    /\ \A r \in Requests : t \notin held[r]
    /\ Delete({t})
    /\ UNCHANGED <<account, pwd, token, redis, access, clock, held, request, history>>

(* A marker lives exactly as long as an access token: when it expires, so  *)
(* have the tokens signed before it was set (but not the late ones).  They *)
(* may expire sooner; while they are there is what the properties are      *)
(* about, so they stay until then.                                         *)
MutantMarkerTooShort(s) == access
LeftWhenMarkerExpires(s) == {a \in access : a.sid = s => a.late}

MarkerExpires(s) ==
    /\ s \in marker
    /\ marker' = marker \ {s}
    /\ access' = LeftWhenMarkerExpires(s)
    /\ UNCHANGED <<account, pwd, token, row, successor, cutoff, clock,
                   held, request, history>>

CutoffExpires ==
    /\ cutoff > 0
    /\ cutoff' = 0
    /\ access' = {a \in access : a.iat > cutoff}
    /\ UNCHANGED <<account, pwd, token, row, successor, marker, clock,
                   held, request, history>>

-----------------------------------------------------------------------------
Login(r) ==
    \/ \E o \in Origins, t \in Tokens, s \in Sessions : LoginVerify(r, o, t, s)
    \/ LoginLock(r) \/ LoginDelete(r) \/ LoginStore(r)
    \/ LoginCommit(r)

Refresh(r) ==
    \/ \E t \in Tokens, o \in Origins : RefreshVerify(r, t, o)
    \/ RefreshLockUser(r) \/ RefreshLockToken(r) \/ GraceHop(r)
    \/ RefreshCheck(r) \/ GraceIssue(r) \/ (\E u \in Tokens : Rotate(r, u))
    \/ RefreshCommit(r) \/ Purge(r) \/ PurgeFinish(r)

Revoke(r) ==
    \/ \E t \in Tokens : Logout(r, t) \/ RevokeAllOthers(r, t)
    \/ \E s \in Sessions : RevokeSession(r, s)
    \/ RevokeReused(r) \/ MarkRevoked(r)
    \/ ResetPassword(r) \/ CutoffRead(r) \/ CutoffWrite(r)

Environment ==
    \/ \E b \in BOOLEAN : SetBanStatus(b)
    \/ DeleteUser
    \/ \E t \in Tokens : GraceEnds(t) \/ CleanExpiredToken(t)
    \/ \E s \in Sessions : MarkerExpires(s)
    \/ CutoffExpires

Next ==
    \/ \E r \in Requests : Login(r) \/ Refresh(r) \/ Revoke(r) \/ Fail(r)
    \/ Environment

Spec == Init /\ [][Next]_vars

-----------------------------------------------------------------------------
(* Invariants                                                              *)

(* Every variable has its type (auth.controller.ts and auth.service.ts     *)
(* keep a request's part in local variables).                              *)
StoredTypes ==
    /\ account \in {"active", "banned", "deleted"}
    /\ pwd \in Nat \ {0} /\ cutoff \in Nat /\ clock \in Nat \ {0}
    /\ resetDone \in Nat
    /\ token \in [Tokens -> TokenData]
    /\ row \in [Tokens -> RowStates]
    /\ successor \in [Tokens -> Tokens \cup {None}]
    /\ marker \subseteq Sessions /\ ended \subseteq Sessions
    /\ cleared \subseteq Sessions /\ replaced \subseteq Sessions
    /\ access \subseteq AccessTokens
    /\ opened \in [Sessions -> Nat]

RequestTypes ==
    /\ step \in [Requests -> Steps]
    /\ tok \in [Requests -> Tokens \cup {None}]
    /\ nxt \in [Requests -> Tokens \cup {None}]
    /\ origin \in [Requests -> Origins \cup {None}]
    /\ pw \in [Requests -> Nat] /\ signed \in [Requests -> Nat]
    /\ hops \in [Requests -> Nat]
    /\ dels \in [Requests -> SUBSET Tokens]
    /\ ends \in [Requests -> SUBSET Sessions]

TypeOK == StoredTypes /\ RequestTypes /\ held \in [Requests -> SUBSET Tokens]

(* A session is one chain of refresh tokens: it never has two that can     *)
(* both be rotated ("so the session doesn't fork", auth.service.ts:225),   *)
(* however refreshes with one token, retries in the grace window, sign-ins *)
(* of the same install and purges interleave.                              *)
OneLiveToken ==
    \A t, u \in Tokens :
        row[t] = "live" /\ row[u] = "live" /\ SessionOf(t) = SessionOf(u) => t = u

(* Once a revocation (logout, revoke session, revoke all others, reuse,    *)
(* password reset, account deletion) has committed, no refresh token of    *)
(* the session exists again: not even one a racing refresh was rotating    *)
(* in (session-lock.util.ts:7-16).                                         *)
RevokedSessionHasNoRow ==
    \A t \in Tokens : row[t] # "none" => SessionOf(t) \notin ended

(* Every refresh token belongs to a session that was signed in with the    *)
(* account's current password: a login that checked the old one and a      *)
(* rotation in progress leave nothing behind (auth.service.ts:151-154).    *)
RowsOfCurrentPassword ==
    \A t \in Tokens : row[t] # "none" => opened[SessionOf(t)] = pwd

(* When a revocation has finished, no access token of its sessions is      *)
(* accepted any more, whenever it was signed and whatever expires          *)
(* (session-revocation.service.ts: markers live as long as the tokens).    *)
RevokedAccessRejected ==
    \A a \in access : a.sid \in cleared => ~Accepted(a)

(* When a password reset has finished, no access token of a session signed *)
(* in with an earlier password is accepted (auth.controller.ts:411-413).   *)
OldPasswordAccessRejected ==
    \A a \in access : opened[a.sid] < resetDone => ~Accepted(a)

-----------------------------------------------------------------------------
(* Action properties                                                       *)

(* The refresh token a client is sent is the session's live one at that    *)
(* moment, and one that this client's own refresh created: a retry waits   *)
(* for the rotation it raced, follows the chain, and gets no token that    *)
(* was rotated, deleted or issued to another client                        *)
(* (auth.service.ts:212-229).                                              *)
SentTokenIsCurrent ==
    [][\A r \in Requests : RefreshCommit(r) =>
          /\ row'[nxt[r]] = "live"
          /\ SessionOf(nxt[r]) = SessionOf(tok[r])
          /\ token[nxt[r]].origin = origin[r]]_vars

(* No refresh completes for a banned or deleted user, even one that passed *)
(* the ban check before its transaction (auth.controller.ts:258-286).      *)
BannedNeverRenewed ==
    [][\A r \in Requests : RefreshCommit(r) => account = "active"]_vars

(* "The replaced sessions can't refresh any more" (auth.service.ts:199).   *)
(* This does NOT hold: sign-ins and rotations share the user lock, so a    *)
(* rotation of the replaced session that is in its transaction when the    *)
(* sign-in's deleteMany starts inserts a row the delete cannot see.  Once  *)
(* the marker has expired (or was not written) that row refreshes.         *)
ReplacedSessionNeverRenewed ==
    [][\A r \in Requests : RefreshCommit(r) => SessionOf(tok[r]) \notin replaced]_vars

-----------------------------------------------------------------------------
(* The abstract sessions this implements: a session is open while it has a *)
(* live row, and that row is its current token.                            *)
LiveRows(s) == {t \in Tokens : row[t] = "live" /\ SessionOf(t) = s}

StatusOf(s) == IF LiveRows(s) # {} THEN "open"
               ELSE IF opened[s] = 0 THEN "new" ELSE "ended"

CurrentOf(s) == IF LiveRows(s) # {} THEN CHOOSE t \in LiveRows(s) : TRUE ELSE None

Contract == INSTANCE SessionContract
    WITH status <- [s \in Sessions |-> StatusOf(s)],
         current <- [s \in Sessions |-> CurrentOf(s)]

(* The token tables implement SessionContract: sessions open once, have    *)
(* one current token that only a renewal replaces, and end for good.       *)
ImplementsContract == Contract!Spec
=============================================================================

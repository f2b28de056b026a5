---------------------------- MODULE DeviceLogin ----------------------------
(***************************************************************************)
(* "Sign in with browser": ONE grant that a session approved, and the      *)
(* devices that try to redeem it                                           *)
(* (src/backend/src/auth/device-login-grant.service.ts and the two desktop *)
(* routes of auth.controller.ts).                                          *)
(*                                                                         *)
(* An approval and a redeem read Redis and the database one await at a     *)
(* time, while the account is banned, deleted or given another password,   *)
(* the approving session ends and its access token is revoked.             *)
(***************************************************************************)
EXTENDS Naturals, FiniteSets

CONSTANTS
    Devices,        \* the requests that redeem the grant
    MaxPassword,    \* bound: the password is reset MaxPassword - 1 times
    MaxBans         \* bound: how often the account is banned

ASSUME DeviceAssumption == MaxPassword \in Nat \ {0} /\ MaxBans \in Nat

VARIABLES
    account,    \* "active", "banned" or "deleted"
    password,   \* its version; the approving session signed in with 1
    bans,       \* how often it was banned
    session,    \* the approving session has a refresh token that is live
    revoked,    \* Redis: the access token it approved with is revoked
    grant,      \* Redis: the grant, or where its approval is
    redeem,     \* what each device's request does next
    known,      \* the password version it has read
    signedIn,   \* devices that got a session
    stood       \* history: the approval stood at some moment of the request

deviceVars == <<account, password, bans, session, revoked,
                grant, redeem, known, signedIn, stood>>

GrantStates == {"none", "checked", "approved", "gone"}
RedeemSteps == {"take", "user", "rows", "revoked", "issue", "over"}

DeviceTypeOK ==
    /\ account \in {"active", "banned", "deleted"}
    /\ password \in 1..MaxPassword /\ bans \in 0..MaxBans
    /\ session \in BOOLEAN /\ revoked \in BOOLEAN
    /\ grant \in GrantStates
    /\ redeem \in [Devices -> RedeemSteps]
    /\ known \in [Devices -> 0..MaxPassword]
    /\ signedIn \subseteq Devices /\ stood \subseteq Devices

DeviceInit ==
    /\ account = "active" /\ password = 1 /\ bans = 0
    /\ session = TRUE /\ revoked = FALSE
    /\ grant = "none"
    /\ redeem = [d \in Devices |-> "take"]
    /\ known = [d \in Devices |-> 0]
    /\ signedIn = {} /\ stood = {}

Stands == account = "active" /\ session /\ ~revoked

(* What the requests on their way have seen of it.                         *)
Notice ==
    stood' = stood \cup {d \in Devices : Stands' /\ redeem'[d] \notin {"take", "over"}}

Goto(d, s) == redeem' = [redeem EXCEPT ![d] = s]

-----------------------------------------------------------------------------
(* authorizeDesktopLogin: the guard accepts the access token, then the     *)
(* grant is stored, approved.                                              *)
Authorize ==
    /\ grant = "none"
    /\ account = "active" /\ ~revoked
    /\ grant' = "checked"
    /\ UNCHANGED <<account, password, bans, session, revoked, redeem, known,
                   signedIn, stood>>

CreateApproved ==
    /\ grant = "checked"
    /\ grant' = "approved"
    /\ UNCHANGED <<account, password, bans, session, revoked, redeem, known,
                   signedIn, stood>>

GrantExpires ==
    /\ grant = "approved"
    /\ grant' = "gone"
    /\ UNCHANGED <<account, password, bans, session, revoked, redeem, known,
                   signedIn, stood>>

-----------------------------------------------------------------------------
(* redeem: the script takes the grant out of Redis, and a wrong verifier   *)
(* has spent it.  (A definition named Mutant... is the same code with a    *)
(* bug put in, which the property notices.)                                *)
Redeem(d, right) ==
    /\ redeem[d] = "take" /\ grant = "approved"
    /\ grant' = "gone"
    /\ Goto(d, IF right THEN "user" ELSE "over")
    /\ UNCHANGED <<account, password, bans, session, revoked, known,
                   signedIn>>
    /\ Notice

ReadUser(d) ==
    /\ redeem[d] = "user"
    /\ IF account = "active"
       THEN Goto(d, "rows") /\ known' = [known EXCEPT ![d] = password]
       ELSE Goto(d, "over") /\ UNCHANGED known
    /\ UNCHANGED <<account, password, bans, session, revoked, grant,
                   signedIn, stood>>

(* approvalStands: the refresh tokens, then the access token.              *)
MutantTokenOnly(d) == TRUE
HasRows(d) == session

FindRows(d) ==
    /\ redeem[d] = "rows"
    /\ Goto(d, IF HasRows(d) THEN "revoked" ELSE "over")
    /\ UNCHANGED <<account, password, bans, session, revoked, grant, known,
                   signedIn, stood>>

IsRevoked(d) ==
    /\ redeem[d] = "revoked"
    /\ Goto(d, IF revoked THEN "over" ELSE "issue")
    /\ UNCHANGED <<account, password, bans, session, revoked, grant, known,
                   signedIn, stood>>

(* issueLoginTokens compares the password under its lock.                  *)
IssueLoginTokens(d) ==
    /\ redeem[d] = "issue"
    /\ Goto(d, "over")
    /\ signedIn' = IF account # "deleted" /\ password = known[d]
                   THEN signedIn \cup {d} ELSE signedIn
    /\ UNCHANGED <<account, password, bans, session, revoked, grant, known,
                   stood>>

RedeemFails(d) ==
    /\ redeem[d] \notin {"take", "over"}
    /\ Goto(d, "over")
    /\ UNCHANGED <<account, password, bans, session, revoked, grant, known,
                   signedIn, stood>>

-----------------------------------------------------------------------------
(* Meanwhile.  A transaction ends sessions; what revokes their access      *)
(* tokens comes later, or not at all if the process dies.                  *)
ResetPassword ==
    /\ account # "deleted" /\ password < MaxPassword
    /\ password' = password + 1
    /\ session' = FALSE
    /\ UNCHANGED <<account, bans, revoked, grant, redeem, known, signedIn>>
    /\ Notice

(* Logout, revocation by id, expiry.                                       *)
SessionEnds ==
    /\ session
    /\ session' = FALSE
    /\ UNCHANGED <<account, password, bans, revoked, grant, redeem, known,
                   signedIn>>
    /\ Notice

(* After either of them, or a logout whose refresh token did not verify:   *)
(* it revokes the access token and leaves the session.                     *)
RevokeAccess ==
    /\ ~revoked
    /\ revoked' = TRUE
    /\ UNCHANGED <<account, password, bans, session, grant, redeem, known,
                   signedIn>>
    /\ Notice

SetBanStatus(banned) ==
    /\ account # "deleted"
    /\ bans' = IF banned THEN bans + 1 ELSE bans
    /\ bans' <= MaxBans
    /\ account' = IF banned THEN "banned" ELSE "active"
    /\ UNCHANGED <<password, session, revoked, grant, redeem, known,
                   signedIn>>
    /\ Notice

DeleteUser ==
    /\ account # "deleted"
    /\ account' = "deleted" /\ session' = FALSE
    /\ UNCHANGED <<password, bans, revoked, grant, redeem, known, signedIn>>
    /\ Notice

-----------------------------------------------------------------------------
DeviceNext ==
    \/ Authorize \/ CreateApproved \/ GrantExpires
    \/ \E d \in Devices :
          \/ \E right \in BOOLEAN : Redeem(d, right)
          \/ ReadUser(d) \/ FindRows(d) \/ IsRevoked(d)
          \/ IssueLoginTokens(d) \/ RedeemFails(d)
    \/ ResetPassword \/ SessionEnds \/ RevokeAccess
    \/ \E banned \in BOOLEAN : SetBanStatus(banned)
    \/ DeleteUser

DeviceSpec == DeviceInit /\ [][DeviceNext]_deviceVars

-----------------------------------------------------------------------------
(* A device is signed in by an approval that stood: at one moment of its   *)
(* request the account was active, the approving session live and its      *)
(* token not revoked, all at once, and the password is still the one that  *)
(* session signed in with; and one grant signs in one device (redeem's     *)
(* comment, device-login-grant.service.ts:160-166).  Each of the three is  *)
(* read at a moment of its own, a revocation's marker comes after its      *)
(* commit, and a ban may be lifted.                                        *)
ApprovalStood ==
    [][\A d \in signedIn' \ signedIn :
          d \in stood /\ password = 1 /\ signedIn = {}]_deviceVars
=============================================================================

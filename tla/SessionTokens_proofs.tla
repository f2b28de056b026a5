----------------------- MODULE SessionTokens_proofs -----------------------
(***************************************************************************)
(* Proofs, for any number of requests, tokens, sessions and clients, that  *)
(* the refresh token tables of SessionTokens keep one live token per       *)
(* session, that no row survives a revocation or a password change, and    *)
(* that refreshes send only current tokens to users who may have them.     *)
(*                                                                         *)
(* The inductive invariant is Inv == Typed /\ Order /\ Safe.  Typed: the    *)
(* types, and what each request knows about its tokens (Known).  Order:    *)
(* who holds which lock, so that nothing deletes a locked row (Locks),     *)
(* what a rotation, a grace refresh and a sign-in rely on between two of   *)
(* their statements (Pending), what the user lock keeps true (UserLock).   *)
(* Safe: the properties, with what RevokedSessionHasNoRow needs about      *)
(* sessions that are still being opened (EndedSessions).                   *)
(*                                                                         *)
(* What concerns access tokens and the abstract specification comes after, *)
(* each with an invariant of its own beside Inv: Cleared (a revocation     *)
(* writes its marker, whatever it is interrupted by), OpenedOnce (a session*)
(* is opened once, so SessionContract is implemented) and Resets (what a   *)
(* reset's cutoff covers, with ONE reset all older tokens).                *)
(***************************************************************************)
EXTENDS SessionTokens, TLAPS

LoginSteps == {"login", "delete", "store", "loginCommit"}
RefreshSteps == {"lockUser", "lockToken", "hop", "check", "issue",
                 "refreshCommit", "reused", "purge"}
UnderTokenLock == {"hop", "check", "issue", "refreshCommit"}
FoundSteps == {"check", "issue", "refreshCommit"}

(* The tokens a request works on were minted for a session.                *)
Minted(t) == t \in Tokens /\ SessionOf(t) \in Sessions

KnownTo(r) ==
    /\ step[r] \in LoginSteps =>
          Minted(nxt[r]) /\ origin[r] \in Origins
    /\ step[r] \in RefreshSteps =>
          /\ Minted(tok[r]) /\ origin[r] \in Origins
          /\ nxt[r] # None => Minted(nxt[r])
    /\ step[r] = "refreshCommit" => Minted(nxt[r])

Known ==
    /\ \A t \in Tokens : row[t] # "none" => Minted(t)
    /\ \A t \in Tokens : SessionOf(t) = None => Fresh(t)
    /\ \A r \in Requests : KnownTo(r)

(* A request holds row locks only in a transaction, no two hold the same   *)
(* one or sign in with the same new token, and a sign-in about to commit   *)
(* holds every row it deletes.                                             *)
Locks ==
    /\ \A r \in Requests : step[r] \notin InTransaction => held[r] = {}
    /\ \A r, q \in Requests : \A t \in held[r] : t \in held[q] => r = q
    /\ \A r \in Requests : step[r] = "loginCommit" => dels[r] = held[r]
    /\ \A r, q \in Requests :
          step[r] \in LoginSteps /\ step[q] \in LoginSteps /\ nxt[r] = nxt[q] => r = q

(* A refresh that rotates its token, and one that has found a successor.   *)
InRotation(r) ==
    row[tok[r]] = "live" /\ nxt[r] = None

InGrace(r) ==
    /\ row[tok[r]] \in {"consumed", "stale"}
    /\ nxt[r] \in held[r]
    /\ SessionOf(nxt[r]) = SessionOf(tok[r])

HasSuccessor(r) ==
    /\ InGrace(r)
    /\ row[nxt[r]] = "live"
    /\ token[nxt[r]].origin = origin[r]

HasRotated(r) ==
    /\ row[tok[r]] = "live"
    /\ row[nxt[r]] = "none"
    /\ SessionOf(nxt[r]) = SessionOf(tok[r])
    /\ token[nxt[r]].origin = origin[r]

(* A sign-in's new token has no row yet, nobody presents it, and no other  *)
(* token belongs to the session that is being opened.                      *)
Private(t) ==
    /\ row[t] = "none"
    /\ \A u \in Tokens : SessionOf(u) = SessionOf(t) => u = t
    /\ \A q \in Requests : step[q] \in RefreshSteps => tok[q] # t

PendingOf(r) ==
    /\ step[r] \in LoginSteps => Private(nxt[r])
    /\ step[r] \in {"lockUser", "lockToken"} => nxt[r] = None
    /\ step[r] \in UnderTokenLock => tok[r] \in held[r]
    /\ step[r] = "hop" => InGrace(r)
    /\ step[r] \in {"check", "issue"} => InRotation(r) \/ HasSuccessor(r)
    /\ step[r] = "refreshCommit" => HasRotated(r) \/ HasSuccessor(r)

Pending == \A r \in Requests : PendingOf(r)

(* What the shared user lock keeps true until the commit.                  *)
UserLock ==
    \A r \in Requests :
        /\ step[r] \in {"delete", "store", "loginCommit"} => pw[r] = pwd
        /\ step[r] \in UnderTokenLock \cup {"lockToken"} => account = "active"

(* A session that was revoked had been opened; one being opened was not    *)
(* revoked.                                                                *)
EndedSessions ==
    \A s \in ended : /\ \E t \in Tokens : SessionOf(t) = s
                     /\ \A t \in Tokens : row[t] # "none" => SessionOf(t) # s
                     /\ \A r \in Requests : step[r] \in LoginSteps =>
                            SessionOf(nxt[r]) # s

(* The parts of the inductive invariant: what the variables hold, what the *)
(* requests rely on between their statements, and the properties.          *)
Typed == TypeOK /\ Known
Order == Locks /\ Pending /\ UserLock
Safe == OneLiveToken /\ EndedSessions /\ RowsOfCurrentPassword

Inv == Typed /\ Order /\ Safe

(* A revocation's transaction: the sessions it ends have been opened, and  *)
(* it deletes all their rows.                                              *)
Revocation(r, S, T) ==
    /\ step[r] \in {"idle", "reused"}
    /\ \A s \in S : /\ s \in Sessions
                   /\ \E t \in Tokens : SessionOf(t) = s
                   /\ \A q \in Requests : step[q] \in LoginSteps => SessionOf(nxt[q]) # s
    /\ RowsOf(S) \subseteq T /\ T \subseteq Tokens
    /\ EndSessions(r, S, T)

EndsSessions(r) ==
    \/ \E t \in Tokens : Logout(r, t) \/ RevokeAllOthers(r, t)
    \/ \E s \in Sessions : RevokeSession(r, s)
    \/ RevokeReused(r)

-----------------------------------------------------------------------------

(* A request keeps its place in its handler and its local variables.       *)
SameLocals(q) ==
    /\ step'[q] = step[q] /\ tok'[q] = tok[q] /\ nxt'[q] = nxt[q]
    /\ origin'[q] = origin[q] /\ pw'[q] = pw[q] /\ dels'[q] = dels[q]
    /\ ends'[q] = ends[q]

(* A request that starts a handler, or goes on after its commit, changes   *)
(* its own local variables only.                                           *)
LEMMA BeginEffect ==
  ASSUME RequestTypes, NEW r \in Requests, NEW s \in Steps,
         NEW t \in Tokens \cup {None}, NEW n \in Tokens \cup {None},
         NEW o \in Origins \cup {None}, NEW p \in Nat,
         NEW S \in SUBSET Sessions, Begin(r, s, t, n, o, p, S)
  PROVE  /\ RequestTypes'
         /\ step'[r] = s /\ tok'[r] = t /\ nxt'[r] = n /\ origin'[r] = o
         /\ pw'[r] = p /\ ends'[r] = S
         /\ \A q \in Requests \ {r} : SameLocals(q)
<1>1. RequestTypes'
  BY DEF RequestTypes, Begin, Goto
<1>2. QED BY <1>1 DEF RequestTypes, Begin, Goto, SameLocals

(* A request that answers (auth.controller.ts returns or throws) is idle,  *)
(* and changes its own local variables only.                               *)
LEMMA AnswerEffect ==
  ASSUME RequestTypes, NEW r \in Requests, Answer(r)
  PROVE  /\ RequestTypes'
         /\ step'[r] = "idle"
         /\ \A q \in Requests \ {r} : SameLocals(q)
BY BeginEffect, "idle" \in Steps DEF Answer, Steps

(* The end of a transaction releases its row locks and no others.          *)
LEMMA UnlockEffect ==
  ASSUME NEW r \in Requests, held \in [Requests -> SUBSET Tokens], Unlock(r)
  PROVE  /\ held' \in [Requests -> SUBSET Tokens] /\ held'[r] = {}
         /\ \A q \in Requests \ {r} : held'[q] = held[q]
BY DEF Unlock

(* Every revocation has this form: a session that has rows, or that a      *)
(* refresh found, is not one that a sign-in is still opening.              *)
LEMMA RevocationCases ==
  ASSUME Inv, NEW r \in Requests, EndsSessions(r)
  PROVE \E S, T : Revocation(r, S, T)
<1> USE NoneAssumption DEF SessionOf
<1>1. ASSUME NEW t \in Tokens, row[t] # "none"
      PROVE  /\ SessionOf(t) \in Sessions
             /\ \A q \in Requests : step[q] \in LoginSteps => SessionOf(nxt[q]) # SessionOf(t)
  BY <1>1 DEF Inv, Typed, Known, KnownTo, Minted, Order, Pending, PendingOf, Private
<1>2. ASSUME NEW t \in Tokens, Logout(r, t) PROVE \E S, T : Revocation(r, S, T)
  <2>1. Revocation(r, {SessionOf(t)}, RowsOf({SessionOf(t)}))
    BY <1>1, <1>2 DEF Logout, Revocation, RowsOf
  <2>2. QED BY <2>1
<1>3. ASSUME NEW s \in Sessions, RevokeSession(r, s) PROVE \E S, T : Revocation(r, S, T)
  <2>1. Revocation(r, {s}, RowsOf({s}))
    BY <1>1, <1>3 DEF RevokeSession, Revocation, RowsOf
  <2>2. QED BY <2>1
<1>4. ASSUME NEW t \in Tokens, RevokeAllOthers(r, t) PROVE \E S, T : Revocation(r, S, T)
  <2> DEFINE current == IF row[t] # "none" THEN {SessionOf(t)} ELSE {}
             others == {SessionOf(u) : u \in {v \in Tokens : row[v] # "none" /\ v # t}}
             S == others \ current
  <2>1. EndSessions(r, S, RowsOf(S) \ {t}) /\ step[r] = "idle"
    BY <1>4 DEF RevokeAllOthers
  <2>2. ASSUME NEW s \in S
        PROVE  \E u \in Tokens : row[u] # "none" /\ SessionOf(u) = s
    OBVIOUS
  <2>3. RowsOf(S) \subseteq RowsOf(S) \ {t}
    BY DEF RowsOf
  <2>4. Revocation(r, S, RowsOf(S) \ {t})
    <3> HIDE DEF S
    <3>1. RowsOf(S) \ {t} \subseteq Tokens BY DEF RowsOf
    <3>2. QED BY <1>1, <2>1, <2>2, <2>3, <3>1 DEF Revocation
  <2>5. QED BY <2>4
<1>5. CASE RevokeReused(r)
  <2> DEFINE t == tok[r]
  <2>1. t \in Tokens /\ SessionOf(t) \in Sessions
    BY <1>5 DEF RevokeReused, Inv, Typed, Known, KnownTo, Minted, RefreshSteps
  <2>2. \A q \in Requests : step[q] \in LoginSteps => SessionOf(nxt[q]) # SessionOf(t)
    BY <1>5, <2>1 DEF RevokeReused, RefreshSteps, Inv, Order, Pending, PendingOf, Private
  <2>3. Revocation(r, {SessionOf(t)}, RowsOf({SessionOf(t)}))
    BY <1>5, <2>1, <2>2 DEF RevokeReused, Revocation, RowsOf
  <2>4. QED BY <2>3
<1>6. QED BY <1>2, <1>3, <1>4, <1>5 DEF EndsSessions

(* A request that ends its transaction, or had none, leaves the others     *)
(* what they rely on, if it changed no row they hold.                      *)
LEMMA DoneOrder ==
  ASSUME Inv, NEW r \in Requests,
         step'[r] \notin LoginSteps \cup RefreshSteps, held'[r] = {},
         \A q \in Requests \ {r} : SameLocals(q) /\ held'[q] = held[q],
         \A q \in Requests \ {r} :
             /\ step[q] \in UnderTokenLock => row'[tok[q]] = row[tok[q]]
             /\ step[q] \in LoginSteps \cup FoundSteps /\ nxt[q] # None =>
                    row'[nxt[q]] = row[nxt[q]],
         UNCHANGED token, UNCHANGED <<account, pwd>> \/ UserUnlocked
  PROVE  Order'
<1> USE DEF Inv, Order
<1>1. Locks'
  BY DEF Locks, SameLocals, InTransaction, LoginSteps, RefreshSteps
<1>2. UserLock'
  BY DEF UserLock, SameLocals, UnderTokenLock, UserUnlocked, InTransaction,
         LoginSteps, RefreshSteps
<1>3. Pending'
  <2> SUFFICES ASSUME NEW q \in Requests PROVE PendingOf(q)'
    BY DEF Pending
  <2>1. CASE q = r
    BY <2>1 DEF PendingOf, LoginSteps, RefreshSteps, UnderTokenLock
  <2>2. CASE q # r
    <3>1. SameLocals(q) /\ held'[q] = held[q] /\ PendingOf(q)
      BY <2>2 DEF Pending
    <3>2. step[q] \in LoginSteps => Private(nxt[q])'
      <4> HAVE step[q] \in LoginSteps
      <4>1. nxt[q] # None
        BY NoneAssumption DEF Typed, Known, KnownTo, Minted
      <4>2. QED
        BY <2>2, <3>1, <4>1 DEF PendingOf, Private, SameLocals, SessionOf, RefreshSteps
    <3>3. step[q] \in UnderTokenLock => tok[q] \in held[q] /\ row'[tok[q]] = row[tok[q]]
      BY <2>2, <3>1 DEF PendingOf
    <3>4. step[q] \in UnderTokenLock /\ InGrace(q) => InGrace(q)'
      <4>1. None \notin held[q]
        BY NoneAssumption DEF Typed, TypeOK
      <4>2. QED
        BY <2>2, <3>1, <3>3, <4>1 DEF InGrace, SameLocals, SessionOf
    <3>5. step[q] \in UnderTokenLock /\ InRotation(q) => InRotation(q)'
      BY <3>1, <3>3 DEF InRotation, SameLocals
    <3>6. step[q] \in FoundSteps /\ HasSuccessor(q) => HasSuccessor(q)'
      <4> HAVE step[q] \in FoundSteps /\ HasSuccessor(q)
      <4>1. nxt[q] # None
        BY NoneAssumption DEF Typed, TypeOK, HasSuccessor, InGrace
      <4>2. QED
        BY <2>2, <3>1, <3>4, <4>1
        DEF HasSuccessor, SameLocals, FoundSteps, UnderTokenLock
    <3>7. step[q] = "refreshCommit" /\ HasRotated(q) => HasRotated(q)'
      <4> HAVE step[q] = "refreshCommit" /\ HasRotated(q)
      <4>1. nxt[q] # None
        BY NoneAssumption DEF Typed, Known, KnownTo, Minted
      <4>2. QED
        BY <2>2, <3>1, <3>3, <4>1 DEF HasRotated, SameLocals, UnderTokenLock, FoundSteps,
                                     SessionOf
    <3>8. QED
      BY <3>1, <3>2, <3>3, <3>4, <3>5, <3>6, <3>7
      DEF PendingOf, SameLocals, UnderTokenLock, FoundSteps
  <2>3. QED BY <2>1, <2>2
<1>4. QED BY <1>1, <1>2, <1>3

(* A request that answers in any other way than by a commit.               *)
LEMMA AnswerOrder ==
  ASSUME Inv, NEW r \in Requests, Answer(r),
         UNCHANGED <<row, token, account, pwd>>,
         Unlock(r) \/ (held[r] = {} /\ UNCHANGED held)
  PROVE  Order'
<1>1. /\ step'[r] = "idle"
      /\ \A q \in Requests \ {r} : SameLocals(q)
  BY AnswerEffect DEF Inv, Typed, TypeOK
<1>2. held'[r] = {} /\ \A q \in Requests \ {r} : held'[q] = held[q]
  BY UnlockEffect DEF Inv, Typed, TypeOK
<1>3. step'[r] \notin LoginSteps \cup RefreshSteps
  BY <1>1 DEF LoginSteps, RefreshSteps
<1>4. QED BY <1>1, <1>2, <1>3, DoneOrder

(* A deletion of rows that nobody else holds, and that ends a transaction. *)
LEMMA DeleteOrder ==
  ASSUME Inv, NEW r \in Requests, NEW T \in SUBSET Tokens, Delete(T), RowsFree(r, T),
         step'[r] \notin LoginSteps \cup RefreshSteps, held'[r] = {},
         \A q \in Requests \ {r} : SameLocals(q) /\ held'[q] = held[q],
         UNCHANGED token, UNCHANGED <<account, pwd>> \/ UserUnlocked
  PROVE  Order'
<1>1. ASSUME NEW t \in Tokens, NEW q \in Requests \ {r}, t \in held[q] \/ row[t] = "none"
      PROVE  row'[t] = row[t]
  BY <1>1 DEF Delete, RowsFree
<1>2. ASSUME NEW q \in Requests \ {r}
      PROVE  /\ step[q] \in UnderTokenLock => row'[tok[q]] = row[tok[q]]
             /\ step[q] \in LoginSteps \cup FoundSteps /\ nxt[q] # None =>
                    row'[nxt[q]] = row[nxt[q]]
  <2>1. PendingOf(q) /\ held[q] \in SUBSET Tokens /\ KnownTo(q)
        /\ nxt[q] \in Tokens \cup {None}
    BY DEF Inv, Order, Pending, Typed, TypeOK, RequestTypes, Known
  <2>2. step[q] \in UnderTokenLock => row'[tok[q]] = row[tok[q]]
    BY <1>1, <2>1 DEF PendingOf
  <2>3. step[q] \in LoginSteps /\ nxt[q] # None => row'[nxt[q]] = row[nxt[q]]
    BY <1>1, <2>1 DEF PendingOf, Private
  <2>4. step[q] \in FoundSteps /\ nxt[q] # None =>
            nxt[q] \in held[q] \/ row[nxt[q]] = "none"
    BY <2>1 DEF PendingOf, InGrace, InRotation, HasSuccessor, HasRotated, FoundSteps
  <2>5. QED BY <1>1, <2>1, <2>2, <2>3, <2>4
<1>3. QED BY <1>2, DoneOrder

(* A user row that nobody holds: nobody holds a token's row either.        *)
LEMMA UnlockedRowsFree ==
  ASSUME Locks, UserUnlocked, NEW r \in Requests, NEW T
  PROVE  RowsFree(r, T) /\ held[r] = {}
BY DEF Locks, UserUnlocked, RowsFree

(* A token that is minted concerns only the request it is minted for.      *)
LEMMA MintOthers ==
  ASSUME Inv, NEW r \in Requests, NEW t \in Tokens, Fresh(t), UNCHANGED <<row, held>>,
         \A u \in Tokens \ {t} : token'[u] = token[u],
         \A q \in Requests \ {r} : SameLocals(q),
         \A q \in Requests \ {r} :
             step[q] \in LoginSteps => SessionOf(nxt[q]) # SessionOf(t)',
         step'[r] \in RefreshSteps => step[r] \in RefreshSteps /\ tok'[r] = tok[r],
         NEW q \in Requests \ {r}
  PROVE  PendingOf(q)'
<1> USE NoneAssumption
<1>1. /\ PendingOf(q) /\ KnownTo(q) /\ held[q] \in SUBSET Tokens /\ held'[q] = held[q]
      /\ SameLocals(q) /\ nxt[q] \in Tokens \cup {None}
  BY DEF Inv, Order, Pending, Typed, TypeOK, RequestTypes, Known
<1>2. SessionOf(t) = None
  BY DEF Fresh, Unminted, SessionOf
<1>3. \A u \in Tokens : SessionOf(u) \in Sessions =>
          u # t /\ SessionOf(u)' = SessionOf(u) /\ token'[u].origin = token[u].origin
  BY <1>2 DEF SessionOf
<1>4. step[q] \in LoginSteps => Private(nxt[q])'
  <2> SUFFICES ASSUME step[q] \in LoginSteps PROVE Private(nxt[q])'
    OBVIOUS
  <2>1. /\ nxt[q] \in Tokens /\ SessionOf(nxt[q]) \in Sessions /\ Private(nxt[q])
        /\ nxt'[q] = nxt[q]
    BY <1>1 DEF PendingOf, KnownTo, Minted, SameLocals
  <2>2. /\ token'[nxt[q]] = token[nxt[q]]
        /\ SessionOf(nxt[q]) # SessionOf(t)'
    BY <1>3, <2>1
  <2>3. \A u \in Tokens : token'[u].sid = token[nxt[q]].sid => u = nxt[q]
    BY <2>1, <2>2 DEF Private, SessionOf
  <2>4. \A p \in Requests : step'[p] \in RefreshSteps => tok'[p] # nxt[q]
    BY <2>1 DEF Private, SameLocals
  <2>5. QED BY <2>1, <2>2, <2>3, <2>4 DEF Private, SessionOf
<1>5. step[q] \in RefreshSteps => SessionOf(tok[q])' = SessionOf(tok[q])
  <2> SUFFICES ASSUME step[q] \in RefreshSteps PROVE SessionOf(tok[q])' = SessionOf(tok[q])
    OBVIOUS
  <2>1. tok[q] \in Tokens /\ SessionOf(tok[q]) \in Sessions /\ tok'[q] = tok[q]
    BY <1>1 DEF KnownTo, Minted, SameLocals
  <2>2. QED BY <1>3, <2>1 DEF SessionOf
<1>6. step[q] \in RefreshSteps /\ nxt[q] # None =>
          /\ SessionOf(nxt[q])' = SessionOf(nxt[q])
          /\ (token[nxt[q]].origin)' = token[nxt[q]].origin
  <2> HAVE step[q] \in RefreshSteps /\ nxt[q] # None
  <2>1. nxt[q] \in Tokens /\ SessionOf(nxt[q]) \in Sessions /\ nxt'[q] = nxt[q]
    BY <1>1 DEF KnownTo, Minted, SameLocals
  <2>2. QED BY <1>3, <2>1 DEF SessionOf
<1>7. \/ step[q] \notin RefreshSteps
      \/ /\ InRotation(q) => InRotation(q)'
         /\ InGrace(q) => InGrace(q)'
         /\ HasSuccessor(q) => HasSuccessor(q)'
         /\ step[q] = "refreshCommit" /\ HasRotated(q) => HasRotated(q)'
  <2> SUFFICES ASSUME step[q] \in RefreshSteps
               PROVE  /\ InRotation(q) => InRotation(q)'
                      /\ InGrace(q) => InGrace(q)'
                      /\ HasSuccessor(q) => HasSuccessor(q)'
                      /\ step[q] = "refreshCommit" /\ HasRotated(q) => HasRotated(q)'
    OBVIOUS
  <2>1. /\ tok'[q] = tok[q] /\ nxt'[q] = nxt[q] /\ origin'[q] = origin[q]
        /\ None \notin held[q] /\ (step[q] = "refreshCommit" => nxt[q] # None)
    BY <1>1 DEF SameLocals, KnownTo, Minted
  <2>2. InRotation(q) => InRotation(q)' BY <2>1 DEF InRotation
  <2>3. InGrace(q) => InGrace(q)' BY <1>1, <1>5, <1>6, <2>1 DEF InGrace
  <2>4. HasSuccessor(q) => HasSuccessor(q)'
    <3> HAVE HasSuccessor(q)
    <3>1. nxt[q] # None BY <2>1 DEF HasSuccessor, InGrace
    <3>2. QED BY <1>6, <2>1, <2>3, <3>1 DEF HasSuccessor
  <2>5. step[q] = "refreshCommit" /\ HasRotated(q) => HasRotated(q)'
    BY <1>5, <1>6, <2>1 DEF HasRotated
  <2>6. QED BY <2>2, <2>3, <2>4, <2>5
<1>8. QED BY <1>1, <1>4, <1>7 DEF PendingOf, SameLocals, RefreshSteps, UnderTokenLock

(* What no sign-in is opening stays ended while only sign-ins go on.       *)
LEMMA EndedStay ==
  ASSUME EndedSessions, UNCHANGED <<token, ended>>,
         \A q \in Requests : step'[q] \in LoginSteps =>
             step[q] \in LoginSteps /\ nxt'[q] = nxt[q],
         \A t \in Tokens : row'[t] # "none" =>
             row[t] # "none" \/ SessionOf(t) \notin ended
  PROVE  EndedSessions'
<1> SUFFICES ASSUME NEW s \in ended
             PROVE  /\ \E t \in Tokens : SessionOf(t)' = s
                    /\ \A t \in Tokens : row'[t] # "none" => SessionOf(t)' # s
                    /\ \A r \in Requests : step'[r] \in LoginSteps =>
                           SessionOf(nxt[r])' # s
  BY DEF EndedSessions
<1>1. /\ \E t \in Tokens : SessionOf(t) = s
      /\ \A t \in Tokens : row[t] # "none" => SessionOf(t) # s
      /\ \A r \in Requests : step[r] \in LoginSteps => SessionOf(nxt[r]) # s
  BY DEF EndedSessions
<1>2. QED BY <1>1 DEF SessionOf

(* Every step keeps the types, and what requests know about their tokens.  *)
LEMMA TypedStep ==
  ASSUME Inv, [Next]_vars
  PROVE Typed'
<1> USE NoneAssumption, DeviceAssumption
<1> USE DEF Inv, Typed, TypeOK, StoredTypes, RequestTypes, Known, KnownTo,
            Minted, SessionOf, Fresh, LoginSteps,
            RefreshSteps, RowStates, stored, locals, request, redis, history,
            Begin, Answer, Goto, Unlock
<1> USE DEF Steps
<1>1. CASE UNCHANGED vars
  BY <1>1 DEF vars
<1>2. ASSUME NEW r \in Requests, NEW o \in Origins, NEW t \in Tokens, NEW s \in Sessions,
             LoginVerify(r, o, t, s)
      PROVE Typed'
  BY <1>2 DEF LoginVerify, TokenData, Unminted
<1>3. ASSUME NEW r \in Requests, LoginLock(r) PROVE Typed'
  <2>1. CASE SamePassword(r)
    <3> HIDE DEF Goto
    <3>1. SameInstall(r) \in SUBSET Sessions
      BY DEF SameInstall
    <3>2. \E s \in {"store", "delete"} : Goto(r, s)
      BY <1>3, <2>1 DEF LoginLock
    <3>3. PICK s \in {"store", "delete"} : step' = [step EXCEPT ![r] = s]
      BY <3>2 DEF Goto
    <3>4. /\ ends' = [ends EXCEPT ![r] = SameInstall(r)]
          /\ UNCHANGED <<stored, held, tok, nxt, origin, pw, signed, hops, dels>>
      BY <1>3, <2>1 DEF LoginLock
    <3>5. RequestTypes'
      BY <3>1, <3>3, <3>4 DEF Steps
    <3>6. Known' BY <1>3, <2>1, <3>3, <3>4 DEF LoginLock
    <3>7. QED BY <3>4, <3>5, <3>6
  <2>2. CASE ~SamePassword(r)
    <3> HIDE DEF Begin, Answer, Unlock, Goto
    <3>1. Answer(r) /\ UNCHANGED stored BY <1>3, <2>2 DEF LoginLock
    <3>2. /\ RequestTypes' /\ step'[r] = "idle"
          /\ \A q \in Requests \ {r} : SameLocals(q)
      BY <3>1, AnswerEffect
    <3>3. held' = held BY <1>3 DEF LoginLock
    <3>4. TypeOK' BY <3>1, <3>2, <3>3
    <3>5. Known' BY <3>1, <3>2, <3>3 DEF SameLocals
    <3>6. QED BY <3>4, <3>5
  <2>3. QED BY <1>3, <2>1, <2>2
<1>4. ASSUME NEW r \in Requests, LoginDelete(r) PROVE Typed'
  BY <1>4 DEF LoginDelete, RowsOf
<1>5. ASSUME NEW r \in Requests, LoginStore(r) PROVE Typed'
  BY <1>5 DEF LoginStore
<1>6. ASSUME NEW r \in Requests, LoginCommit(r) PROVE Typed'
  <2>1. access' \subseteq AccessTokens
    <3>1. SessionOf(nxt[r]) \in Sessions /\ signed[r] \in Nat
      BY <1>6 DEF LoginCommit
    <3>2. [sid |-> SessionOf(nxt[r]), iat |-> signed[r],
           late |-> SessionOf(nxt[r]) \in marker] \in AccessTokens
      BY <3>1 DEF AccessTokens
    <3>3. QED BY <1>6, <3>2 DEF LoginCommit, Sign
  <2>2. /\ RequestTypes' /\ step'[r] \in {"idle", "replace"}
        /\ \A q \in Requests \ {r} : SameLocals(q)
    <3> HIDE DEF Begin, Answer
    <3>1. CASE ends[r] = {}
      BY <1>6, <3>1, AnswerEffect DEF LoginCommit
    <3>2. CASE ends[r] # {}
      <4>1. Begin(r, "replace", None, None, None, 0, ends[r])
        BY <1>6, <3>2 DEF LoginCommit
      <4>2. "replace" \in Steps /\ ends[r] \in SUBSET Sessions BY DEF Steps
      <4>3. QED BY <4>1, <4>2, BeginEffect
    <3>3. QED BY <3>1, <3>2
  <2> HIDE DEF Begin, Answer, Unlock, Goto
  <2>3. /\ held' \in [Requests -> SUBSET Tokens] /\ held'[r] = {}
        /\ \A q \in Requests \ {r} : held'[q] = held[q]
    BY <1>6, UnlockEffect DEF LoginCommit
  <2>4. step[r] = "loginCommit" /\ nxt[r] \in Tokens /\ SessionOf(nxt[r]) \in Sessions
    BY <1>6 DEF LoginCommit
  <2>5. row' \in [Tokens -> RowStates]
    BY <1>6 DEF LoginCommit
  <2>6. opened' \in [Sessions -> Nat] /\ replaced' \subseteq Sessions
    BY <1>6, <2>4 DEF LoginCommit
  <2>7. TypeOK' BY <1>6, <2>1, <2>2, <2>3, <2>5, <2>6 DEF LoginCommit
  <2>8. Known' BY <1>6, <2>2, <2>4 DEF LoginCommit, SameLocals
  <2>9. QED BY <2>7, <2>8
<1>7. ASSUME NEW r \in Requests, NEW t \in Tokens, NEW o \in Origins,
             RefreshVerify(r, t, o)
      PROVE Typed'
  BY <1>7 DEF RefreshVerify
<1>8. ASSUME NEW r \in Requests, RefreshLockUser(r) PROVE Typed'
  <2>1. CASE account = "active"
    <3>1. TypeOK' BY <1>8, <2>1 DEF RefreshLockUser
    <3>2. Known' BY <1>8, <2>1 DEF RefreshLockUser
    <3>3. QED BY <3>1, <3>2
  <2>2. CASE account # "active"
    <3> HIDE DEF Begin, Answer, Unlock, Goto
    <3>1. Answer(r) /\ UNCHANGED stored BY <1>8, <2>2 DEF RefreshLockUser
    <3>2. /\ RequestTypes' /\ step'[r] = "idle"
          /\ \A q \in Requests \ {r} : SameLocals(q)
      BY <3>1, AnswerEffect
    <3>3. held' = held BY <1>8 DEF RefreshLockUser
    <3>4. TypeOK' BY <3>1, <3>2, <3>3
    <3>5. Known' BY <3>1, <3>2, <3>3 DEF SameLocals
    <3>6. QED BY <3>4, <3>5
  <2>3. QED BY <1>8, <2>1, <2>2
<1>9. ASSUME NEW r \in Requests, RefreshLockToken(r) PROVE Typed'
  <2>1. CASE row[tok[r]] = "none"
    <3> HIDE DEF Begin, Answer, Unlock, Goto
    <3>1. Answer(r) /\ Unlock(r) /\ UNCHANGED stored
      BY <1>9, <2>1 DEF RefreshLockToken
    <3>2. /\ RequestTypes' /\ step'[r] = "idle"
          /\ \A q \in Requests \ {r} : SameLocals(q)
      BY <3>1, AnswerEffect
    <3>3. /\ held' \in [Requests -> SUBSET Tokens] /\ held'[r] = {}
          /\ \A q \in Requests \ {r} : held'[q] = held[q]
      BY <3>1, UnlockEffect
    <3>4. TypeOK' BY <3>1, <3>2, <3>3
    <3>5. Known' BY <3>1, <3>2, <3>3 DEF SameLocals
    <3>6. QED BY <3>4, <3>5
  <2>2. CASE row[tok[r]] = "live"
    <3>1. TypeOK' BY <1>9, <2>2 DEF RefreshLockToken, RowsFree
    <3>2. Known' BY <1>9, <2>2 DEF RefreshLockToken, RowsFree
    <3>3. QED BY <3>1, <3>2
  <2>3. CASE row[tok[r]] = "consumed"
    <3>1. /\ step' = [step EXCEPT ![r] = "hop"] /\ nxt' = [nxt EXCEPT ![r] = tok[r]]
          /\ held' = [held EXCEPT ![r] = {tok[r]}]
          /\ UNCHANGED <<stored, tok, origin, pw, signed, hops, dels, ends>>
      BY <1>9, <2>3 DEF RefreshLockToken
    <3>2. tok[r] \in Tokens BY <1>9 DEF RefreshLockToken
    <3>3. RequestTypes' BY <3>1, <3>2 DEF Steps
    <3>4. TypeOK' BY <3>1, <3>2, <3>3
    <3>5. Known' BY <1>9, <3>1, <3>2 DEF RefreshLockToken
    <3>6. QED BY <3>4, <3>5
  <2>4. CASE row[tok[r]] = "stale"
    <3>1. TypeOK' BY <1>9, <2>4 DEF RefreshLockToken, RowsFree
    <3>2. Known' BY <1>9, <2>4 DEF RefreshLockToken, RowsFree
    <3>3. QED BY <3>1, <3>2
  <2>5. QED BY <1>9, <2>1, <2>2, <2>3, <2>4 DEF RefreshLockToken
<1>10. ASSUME NEW r \in Requests, GraceHop(r) PROVE Typed'
  <2> DEFINE u == successor[nxt[r]]
  <2>1. CASE Answer(r) /\ Unlock(r)
    <3> HIDE DEF Begin, Answer, Unlock, Goto
    <3>1. Answer(r) /\ Unlock(r) /\ UNCHANGED stored
      BY <1>10, <2>1 DEF GraceHop
    <3>2. /\ RequestTypes' /\ step'[r] = "idle"
          /\ \A q \in Requests \ {r} : SameLocals(q)
      BY <3>1, AnswerEffect
    <3>3. /\ held' \in [Requests -> SUBSET Tokens] /\ held'[r] = {}
          /\ \A q \in Requests \ {r} : held'[q] = held[q]
      BY <3>1, UnlockEffect
    <3>4. TypeOK' BY <3>1, <3>2, <3>3
    <3>5. Known' BY <3>1, <3>2, <3>3 DEF SameLocals
    <3>6. QED BY <3>4, <3>5
  <2>2. CASE Goto(r, "reused") /\ Unlock(r) /\ UNCHANGED <<locals, stored>>
    <3>1. step[r] = "hop" /\ nxt[r] \in Tokens /\ u \in Tokens \cup {None}
      BY <1>10 DEF GraceHop, Order, Pending, PendingOf, InGrace, UnderTokenLock
    <3>2. TypeOK' BY <3>1, <2>2 DEF SameClient, RowsFree
    <3>3. Known' BY <3>1, <2>2 DEF SameClient, RowsFree
    <3>4. QED BY <3>2, <3>3
  <2>3. CASE /\ u # None /\ RowsFree(r, {u}) /\ nxt' = [nxt EXCEPT ![r] = u]
             /\ SessionOf(u) = SessionOf(tok[r]) /\ SameClient(u, origin[r])
             /\ row[u] = "live"
             /\ held' = [held EXCEPT ![r] = held[r] \cup {u}]
             /\ Goto(r, "check")
             /\ UNCHANGED <<stored, tok, origin, pw, signed, hops, dels, ends>>
    <3>1. step[r] = "hop" /\ nxt[r] \in Tokens /\ u \in Tokens \cup {None}
      BY <1>10 DEF GraceHop, Order, Pending, PendingOf, InGrace, UnderTokenLock
    <3>2. TypeOK' BY <3>1, <2>3 DEF SameClient, RowsFree
    <3>3. Known' BY <3>1, <2>3 DEF SameClient, RowsFree
    <3>4. QED BY <3>2, <3>3
  <2>4. CASE /\ u # None /\ RowsFree(r, {u}) /\ nxt' = [nxt EXCEPT ![r] = u]
             /\ SessionOf(u) = SessionOf(tok[r]) /\ SameClient(u, origin[r])
             /\ row[u] = "consumed"
             /\ held' = [held EXCEPT ![r] = held[r] \cup {u}]
             /\ hops' = [hops EXCEPT ![r] = hops[r] + 1]
             /\ UNCHANGED <<stored, step, tok, origin, pw, signed, dels, ends>>
    <3>1. step[r] = "hop" /\ nxt[r] \in Tokens /\ u \in Tokens \cup {None}
      BY <1>10 DEF GraceHop, Order, Pending, PendingOf, InGrace, UnderTokenLock
    <3>2. TypeOK' BY <3>1, <2>4 DEF SameClient, RowsFree
    <3>3. Known' BY <3>1, <2>4 DEF SameClient, RowsFree
    <3>4. QED BY <3>2, <3>3
  <2>5. QED
    <3> HIDE DEF Begin, Answer, Unlock, Goto
    <3>1. QED BY <1>10, <2>1, <2>2, <2>3, <2>4 DEF GraceHop, FollowTo
<1>11. ASSUME NEW r \in Requests, RefreshCheck(r) PROVE Typed'
  <2>1. CASE Goto(r, "purge") /\ Unlock(r) BY <1>11, <2>1 DEF RefreshCheck
  <2>2. CASE Goto(r, "issue") /\ UNCHANGED held BY <1>11, <2>2 DEF RefreshCheck
  <2> HIDE DEF Goto, Unlock, Inv, Typed
  <2>3. QED BY <1>11, <2>1, <2>2 DEF RefreshCheck
<1>12. ASSUME NEW r \in Requests, GraceIssue(r) PROVE Typed'
  BY <1>12 DEF GraceIssue
<1>13. ASSUME NEW r \in Requests, NEW u \in Tokens, Rotate(r, u) PROVE Typed'
  BY <1>13 DEF Rotate, TokenData, Unminted
<1>14. ASSUME NEW r \in Requests, RefreshCommit(r) PROVE Typed'
  <2>1. access' \subseteq AccessTokens
    <3>1. SessionOf(tok[r]) \in Sessions /\ signed[r] \in Nat
      BY <1>14 DEF RefreshCommit
    <3>2. [sid |-> SessionOf(tok[r]), iat |-> signed[r],
           late |-> SessionOf(tok[r]) \in marker] \in AccessTokens
      BY <3>1 DEF AccessTokens
    <3>3. QED BY <1>14, <3>2 DEF RefreshCommit, Sign
  <2>2. row' \in [Tokens -> RowStates]
    BY <1>14 DEF RefreshCommit
  <2>3. Answer(r) /\ Unlock(r) /\ UNCHANGED <<account, pwd, token, redis, clock, history>>
    BY <1>14 DEF RefreshCommit
  <2> HIDE DEF Begin, Answer, Unlock, Goto
  <2>4. /\ RequestTypes' /\ step'[r] = "idle"
        /\ \A q \in Requests \ {r} : SameLocals(q)
    BY <2>3, AnswerEffect
  <2>5. held' \in [Requests -> SUBSET Tokens]
    BY <2>3, UnlockEffect
  <2>6. TypeOK' BY <2>1, <2>2, <2>3, <2>4, <2>5
  <2>7. Known'
    <3>1. \A t \in Tokens : row'[t] # "none" => Minted(t)
      BY <1>14 DEF RefreshCommit
    <3> HIDE DEF TypeOK, StoredTypes, RequestTypes
    <3>2. QED BY <2>3, <2>4, <3>1 DEF SameLocals
  <2>8. QED BY <2>6, <2>7
<1>15. ASSUME NEW r \in Requests, Purge(r) PROVE Typed'
  BY <1>15 DEF Purge, RowsOf
<1>16. ASSUME NEW r \in Requests, PurgeFinish(r) PROVE Typed'
  BY <1>16 DEF PurgeFinish, Delete
<1>17. ASSUME NEW r \in Requests, NEW S, NEW T,
              Revocation(r, S, T)
       PROVE Typed'
  <2>1. S \subseteq Sessions
    BY <1>17 DEF Revocation
  <2>2. QED BY <1>17, <2>1 DEF Revocation, EndSessions, Delete
<1>18. ASSUME NEW r \in Requests, MarkRevoked(r) PROVE Typed'
  <2>1. access' \subseteq AccessTokens
    <3>1. \A a \in AccessTokens : \A b \in BOOLEAN : [a EXCEPT !.late = b] \in AccessTokens
      BY DEF AccessTokens
    <3>2. ASSUME NEW a \in access
          PROVE  [a EXCEPT !.late = a.late /\ a.sid \notin ends[r]] \in AccessTokens
      <4> DEFINE b == a.late /\ a.sid \notin ends[r]
      <4>1. a \in AccessTokens BY DEF Inv, Typed, TypeOK
      <4>2. a.late \in BOOLEAN BY <4>1 DEF AccessTokens
      <4>3. b \in BOOLEAN BY <4>2
      <4> HIDE DEF b
      <4>4. [a EXCEPT !.late = b] \in AccessTokens BY <3>1, <4>1, <4>3
      <4>5. QED BY <4>4 DEF b
    <3>3. access' = {[a EXCEPT !.late = a.late /\ a.sid \notin ends[r]] : a \in access}
      BY <1>18 DEF MarkRevoked
    <3>4. QED BY <3>2, <3>3
  <2>2. QED BY <1>18, <2>1 DEF MarkRevoked
<1>19. ASSUME NEW r \in Requests, ResetPassword(r) PROVE Typed'
  BY <1>19 DEF ResetPassword, Delete
<1>20. ASSUME NEW r \in Requests, CutoffRead(r) PROVE Typed'
  BY <1>20 DEF CutoffRead
<1>21. ASSUME NEW r \in Requests, CutoffWrite(r) PROVE Typed'
  BY <1>21 DEF CutoffWrite
<1>22. ASSUME NEW r \in Requests, Fail(r) PROVE Typed'
  BY <1>22 DEF Fail
<1>23. ASSUME NEW b \in BOOLEAN, SetBanStatus(b) PROVE Typed'
  BY <1>23 DEF SetBanStatus
<1>24. ASSUME DeleteUser PROVE Typed'
  BY <1>24 DEF DeleteUser, Delete
<1>25. ASSUME NEW t \in Tokens, GraceEnds(t) PROVE Typed'
  BY <1>25 DEF GraceEnds
<1>26. ASSUME NEW t \in Tokens, CleanExpiredToken(t) PROVE Typed'
  BY <1>26 DEF CleanExpiredToken, Delete
<1>27. ASSUME NEW s \in Sessions, MarkerExpires(s) PROVE Typed'
  BY <1>27 DEF MarkerExpires, LeftWhenMarkerExpires
<1>28. ASSUME CutoffExpires PROVE Typed'
  BY <1>28 DEF CutoffExpires
<1>29. QED
  <2>1. ASSUME NEW r \in Requests, Login(r) PROVE Typed'
    BY <2>1, <1>2, <1>3, <1>4, <1>5, <1>6 DEF Login
  <2>2. ASSUME NEW r \in Requests, Refresh(r) PROVE Typed'
    BY <2>2, <1>7, <1>8, <1>9, <1>10, <1>11, <1>12, <1>13, <1>14, <1>15, <1>16
    DEF Refresh
  <2>3. ASSUME NEW r \in Requests, Revoke(r) PROVE Typed'
    <3>1. CASE EndsSessions(r)
      <4> HIDE DEF Inv, Typed, TypeOK, StoredTypes, RequestTypes, Known,
                   KnownTo, Minted, SessionOf, Fresh, LoginSteps,
            RefreshSteps, RowStates, stored, locals, request, redis, history,
            Begin, Answer, Goto, Unlock
      <4>2. PICK S, T : Revocation(r, S, T) BY <3>1, RevocationCases
      <4>3. QED BY <4>2, <1>17
    <3>2. CASE ~EndsSessions(r)
      BY <2>3, <3>2, <1>18, <1>19, <1>20, <1>21 DEF Revoke, EndsSessions
    <3>3. QED BY <3>1, <3>2
  <2>4. CASE Environment
    BY <2>4, <1>23, <1>24, <1>25, <1>26, <1>27, <1>28 DEF Environment
  <2>5. QED BY <2>1, <2>2, <2>3, <2>4, <1>1, <1>22 DEF Next

(* Every step keeps what requests rely on between their statements: rows    *)
(* that are locked stay as they were found.                                *)
LEMMA OrderStep ==
  ASSUME Inv, Typed', [Next]_vars
  PROVE Order'
<1> USE NoneAssumption
<1> USE DEF Inv, Typed, TypeOK, StoredTypes, RequestTypes, Known, KnownTo,
            Order, Locks, Pending, PendingOf,
            InRotation, InGrace, HasSuccessor, HasRotated, Private, UserLock,
            Minted, SessionOf, Fresh, Unminted, LoginSteps, RefreshSteps,
            UnderTokenLock, InTransaction, stored, locals, request, redis,
            history, Begin, Answer, Goto, Unlock
<1> USE DEF Safe, OneLiveToken
<1>1. CASE UNCHANGED vars
  BY <1>1 DEF vars
<1>2. ASSUME NEW r \in Requests, NEW o \in Origins, NEW t \in Tokens, NEW s \in Sessions,
             LoginVerify(r, o, t, s)
      PROVE Order'
  <2> HIDE DEF Inv, Typed, TypeOK, StoredTypes, RequestTypes, Known, KnownTo, Order,
               Locks, Pending, PendingOf, InRotation, InGrace, HasSuccessor,
               HasRotated, Private, UserLock, Minted, SessionOf, Fresh,
               OneLiveToken, Safe
  <2>0. /\ RequestTypes /\ held \in [Requests -> SUBSET Tokens]
        /\ Locks /\ Pending /\ Known /\ UserLock
    BY DEF Inv, Order, Typed, TypeOK
  <2>1. /\ step'[r] = "login" /\ nxt'[r] = t /\ step[r] = "idle"
        /\ \A q \in Requests \ {r} : SameLocals(q)
    BY <1>2, <2>0 DEF LoginVerify, RequestTypes, SameLocals
  <2>2. /\ Fresh(t) /\ UNCHANGED <<row, held, account, pwd>>
        /\ \A u \in Tokens \ {t} : token'[u] = token[u]
        /\ SessionOf(t)' = s /\ \A u \in Tokens : SessionOf(u) # s
    BY <1>2 DEF LoginVerify, FreshSession, SessionOf, Inv, Typed, TypeOK, StoredTypes
  <2>3. SessionOf(t) = None
    BY <2>2 DEF Fresh, SessionOf
  <2>4. Locks'
    <3>1. \A q \in Requests : step[q] \in LoginSteps => nxt[q] # t
      BY <2>0, <2>3 DEF Known, KnownTo, Minted
    <3>2. QED BY <2>0, <2>1, <2>2, <3>1 DEF Locks, SameLocals
  <2>5. UserLock'
    BY <2>0, <2>1, <2>2 DEF UserLock, SameLocals
  <2>6. \A q \in Requests \ {r} : step[q] \in LoginSteps => SessionOf(nxt[q]) # SessionOf(t)'
    BY <2>0, <2>2 DEF Known, KnownTo, Minted
  <2>7. \A q \in Requests \ {r} : PendingOf(q)'
    BY <2>1, <2>2, <2>6, MintOthers
  <2>8. PendingOf(r)'
    <3>1. row[t] = "none"
      BY <2>0, <2>3 DEF Known, Minted
    <3>2. \A u \in Tokens : SessionOf(u)' = SessionOf(t)' => u = t
      BY <2>2 DEF SessionOf
    <3>3. \A q \in Requests : step'[q] \in RefreshSteps => tok'[q] # t
      BY <2>0, <2>1, <2>3 DEF Known, KnownTo, Minted, SameLocals
    <3>4. Private(nxt[r])'
      BY <2>1, <2>2, <3>1, <3>2, <3>3 DEF Private, SessionOf
    <3>5. QED BY <2>1, <3>4 DEF PendingOf
  <2>9. QED BY <2>4, <2>5, <2>7, <2>8 DEF Order, Pending
<1>3. ASSUME NEW r \in Requests, LoginLock(r) PROVE Order'
  <2>1. CASE SamePassword(r)
    <3> HIDE DEF Goto
    <3>1. SameInstall(r) \in SUBSET Sessions
      BY DEF SameInstall
    <3>2. \E s \in {"store", "delete"} : Goto(r, s)
      BY <1>3, <2>1 DEF LoginLock
    <3>3. PICK s \in {"store", "delete"} : step' = [step EXCEPT ![r] = s]
      BY <3>2 DEF Goto
    <3>4. /\ ends' = [ends EXCEPT ![r] = SameInstall(r)]
          /\ UNCHANGED <<stored, held, tok, nxt, origin, pw, signed, hops, dels>>
      BY <1>3, <2>1 DEF LoginLock
    <3>5. RequestTypes'
      BY <3>1, <3>3, <3>4 DEF Steps
    <3>6. Locks' BY <1>3, <2>1, <3>3, <3>4 DEF LoginLock
    <3>7. Pending' BY <1>3, <2>1, <3>3, <3>4 DEF LoginLock
    <3>8. UserLock' BY <1>3, <2>1, <3>3, <3>4 DEF LoginLock, SamePassword
    <3>9. QED BY <3>6, <3>7, <3>8
  <2>2. CASE ~SamePassword(r)
    <3> HIDE DEF Begin, Answer, Unlock, Goto
    <3>1. Answer(r) /\ UNCHANGED stored BY <1>3, <2>2 DEF LoginLock
    <3>2. held[r] = {} /\ UNCHANGED held BY <1>3, <2>2 DEF LoginLock
    <3>3. QED BY <3>1, <3>2, AnswerOrder
  <2>3. QED BY <1>3, <2>1, <2>2
<1>4. ASSUME NEW r \in Requests, LoginDelete(r) PROVE Order'
  BY <1>4 DEF LoginDelete
<1>5. ASSUME NEW r \in Requests, LoginStore(r) PROVE Order'
  BY <1>5 DEF LoginStore, RowsFree
<1>6. ASSUME NEW r \in Requests, LoginCommit(r) PROVE Order'
  <2>1. /\ RequestTypes' /\ step'[r] \in {"idle", "replace"}
        /\ \A q \in Requests \ {r} : SameLocals(q)
    <3> HIDE DEF Begin, Answer
    <3>1. CASE ends[r] = {}
      BY <1>6, <3>1, AnswerEffect DEF LoginCommit
    <3>2. CASE ends[r] # {}
      <4>1. Begin(r, "replace", None, None, None, 0, ends[r])
        BY <1>6, <3>2 DEF LoginCommit
      <4>2. "replace" \in Steps /\ ends[r] \in SUBSET Sessions BY DEF Steps
      <4>3. QED BY <4>1, <4>2, BeginEffect
    <3>3. QED BY <3>1, <3>2
  <2> HIDE DEF Begin, Answer, Unlock, Goto
  <2>2. /\ held' \in [Requests -> SUBSET Tokens] /\ held'[r] = {}
        /\ \A q \in Requests \ {r} : held'[q] = held[q]
    BY <1>6, UnlockEffect DEF LoginCommit
  <2>3. step[r] = "loginCommit" /\ nxt[r] \in Tokens /\ SessionOf(nxt[r]) \in Sessions
    BY <1>6 DEF LoginCommit
  <2>4. UNCHANGED <<account, pwd, token>> BY <1>6 DEF LoginCommit
  <2>5. \A t \in Tokens : t \notin dels[r] /\ t # nxt[r] => row'[t] = row[t]
    BY <1>6 DEF LoginCommit
  <2>6. /\ dels[r] = held[r] /\ Private(nxt[r])
        /\ \A q \in Requests \ {r} : PendingOf(q)
    BY <1>6 DEF LoginCommit
  <2>7. \A q \in Requests \ {r} : \A t \in held[q] : t \notin dels[r]
    BY <2>6
  <2>8. ASSUME NEW q \in Requests \ {r}, step[q] \in UnderTokenLock
        PROVE  /\ row'[tok[q]] = row[tok[q]]
               /\ nxt[q] # None => row'[nxt[q]] = row[nxt[q]]
    <3>1. tok[q] \in held[q] /\ tok[q] \in Tokens /\ tok[q] # nxt[r]
      BY <2>6, <2>8
    <3>2. nxt[q] # None => /\ nxt[q] \in Tokens
                           /\ SessionOf(nxt[q]) = SessionOf(tok[q])
                           /\ row[nxt[q]] = "none" \/ nxt[q] \in held[q]
      BY <2>6, <2>8
    <3>3. nxt[q] # nxt[r]
      BY <2>3, <2>6, <3>1, <3>2
    <3>4. QED BY <1>6, <2>7, <3>1, <3>2, <3>3 DEF LoginCommit
  <2>9. ASSUME NEW q \in Requests \ {r}, step[q] \in LoginSteps
        PROVE  row'[nxt[q]] = row[nxt[q]]
    <3>1. nxt[q] # nxt[r] BY <2>3, <2>9
    <3>2. nxt[q] \in Tokens /\ row[nxt[q]] = "none" BY <2>6, <2>9
    <3>3. QED BY <1>6, <3>1, <3>2 DEF LoginCommit
  <2>10. QED
    <3>1. \A q \in Requests \ {r} : SameLocals(q) /\ held'[q] = held[q]
      BY <2>1, <2>2
    <3>2. \A q \in Requests \ {r} :
             /\ step[q] \in UnderTokenLock => row'[tok[q]] = row[tok[q]]
             /\ step[q] \in LoginSteps \cup FoundSteps /\ nxt[q] # None =>
                    row'[nxt[q]] = row[nxt[q]]
      BY <2>8, <2>9 DEF FoundSteps
    <3>3. step'[r] \notin LoginSteps \cup RefreshSteps /\ held'[r] = {}
      BY <2>1, <2>2
    <3> HIDE DEF Inv, Order, Typed, TypeOK, StoredTypes, RequestTypes, Known,
                 KnownTo, Locks, Pending, PendingOf, UserLock, LoginSteps,
                 RefreshSteps, UnderTokenLock
    <3>4. QED BY <2>4, <3>1, <3>2, <3>3, DoneOrder
<1>7. ASSUME NEW r \in Requests, NEW t \in Tokens, NEW o \in Origins,
             RefreshVerify(r, t, o)
      PROVE Order'
  <2>1. Locks' BY <1>7 DEF RefreshVerify
  <2>2. Pending'
    <3> SUFFICES ASSUME NEW q \in Requests PROVE PendingOf(q)'
      OBVIOUS
    <3>1. CASE q = r BY <1>7, <3>1 DEF RefreshVerify
    <3>2. CASE q # r BY <1>7, <3>2 DEF RefreshVerify
    <3>3. QED BY <3>1, <3>2
  <2>3. UserLock' BY <1>7 DEF RefreshVerify
  <2>4. QED BY <2>1, <2>2, <2>3
<1>8. ASSUME NEW r \in Requests, RefreshLockUser(r) PROVE Order'
  <2>1. CASE account = "active"
    <3>1. /\ step' = [step EXCEPT ![r] = "lockToken"]
          /\ UNCHANGED <<locals, stored, held>>
      BY <1>8, <2>1 DEF RefreshLockUser
    <3>2. Locks' BY <1>8, <3>1 DEF RefreshLockUser
    <3>3. Pending' BY <1>8, <3>1 DEF RefreshLockUser
    <3>4. UserLock' BY <1>8, <2>1, <3>1 DEF RefreshLockUser
    <3>5. QED BY <3>2, <3>3, <3>4
  <2>2. CASE account # "active"
    <3> HIDE DEF Begin, Answer, Unlock, Goto
    <3>1. Answer(r) /\ UNCHANGED stored BY <1>8, <2>2 DEF RefreshLockUser
    <3>2. held[r] = {} /\ UNCHANGED held BY <1>8, <2>2 DEF RefreshLockUser
    <3>3. QED BY <3>1, <3>2, AnswerOrder
  <2>3. QED BY <1>8, <2>1, <2>2
<1>9. ASSUME NEW r \in Requests, RefreshLockToken(r) PROVE Order'
  <2>0. /\ tok[r] \in Tokens /\ held[r] \subseteq Tokens /\ step[r] = "lockToken"
        /\ \A q \in Requests \ {r} : tok[r] \notin held[q]
    BY <1>9 DEF RefreshLockToken, RowsFree
  <2>1. CASE row[tok[r]] = "none"
    <3> HIDE DEF Begin, Answer, Unlock, Goto
    <3>1. Answer(r) /\ Unlock(r) /\ UNCHANGED stored
      BY <1>9, <2>1 DEF RefreshLockToken
    <3>2. Unlock(r) BY <1>9, <2>1 DEF RefreshLockToken
    <3>3. QED BY <3>1, <3>2, AnswerOrder
  <2>2. CASE row[tok[r]] = "live"
    <3>1. /\ step' = [step EXCEPT ![r] = "check"] /\ held' = [held EXCEPT ![r] = {tok[r]}]
          /\ UNCHANGED <<locals, stored>>
      BY <1>9, <2>2 DEF RefreshLockToken
    <3>2. Locks' BY <2>0, <3>1
    <3>3. Pending'
      <4> SUFFICES ASSUME NEW q \in Requests PROVE PendingOf(q)'
        OBVIOUS
      <4>1. CASE q = r BY <2>0, <2>2, <3>1, <4>1
      <4>2. CASE q # r BY <2>0, <3>1, <4>2
      <4>3. QED BY <4>1, <4>2
    <3>4. UserLock' BY <2>0, <3>1
    <3>5. QED BY <3>2, <3>3, <3>4
  <2>3. CASE row[tok[r]] = "consumed"
    <3>1. /\ step' = [step EXCEPT ![r] = "hop"] /\ held' = [held EXCEPT ![r] = {tok[r]}]
          /\ nxt' = [nxt EXCEPT ![r] = tok[r]]
          /\ UNCHANGED <<tok, origin, pw, dels, ends, stored>>
      BY <1>9, <2>3 DEF RefreshLockToken
    <3>2. Locks' BY <2>0, <3>1
    <3>3. Pending' BY <2>0, <2>3, <3>1
    <3>4. UserLock' BY <2>0, <3>1
    <3>5. QED BY <3>2, <3>3, <3>4
  <2>4. CASE row[tok[r]] = "stale"
    <3>1. /\ step' = [step EXCEPT ![r] = "reused"] /\ held' = [held EXCEPT ![r] = {}]
          /\ UNCHANGED <<locals, stored>>
      BY <1>9, <2>4 DEF RefreshLockToken
    <3>2. Locks' BY <2>0, <3>1
    <3>3. Pending' BY <2>0, <2>4, <3>1
    <3>4. UserLock' BY <2>0, <3>1
    <3>5. QED BY <3>2, <3>3, <3>4
  <2>5. QED BY <1>9, <2>1, <2>2, <2>3, <2>4 DEF RefreshLockToken
<1>10. ASSUME NEW r \in Requests, GraceHop(r) PROVE Order'
  <2> DEFINE u == successor[nxt[r]]
  <2>1. CASE Answer(r) /\ Unlock(r)
    <3> HIDE DEF Begin, Answer, Unlock, Goto
    <3>1. Answer(r) /\ Unlock(r) /\ UNCHANGED stored
      BY <1>10, <2>1 DEF GraceHop
    <3>2. Unlock(r) BY <1>10, <2>1 DEF GraceHop
    <3>3. QED BY <3>1, <3>2, AnswerOrder
  <2>2. CASE Goto(r, "reused") /\ Unlock(r) /\ UNCHANGED <<locals, stored>>
    <3>1. step[r] = "hop" BY <1>10 DEF GraceHop
    <3>2. Locks' BY <3>1, <2>2 DEF SameClient, RowsFree
    <3>3. Pending' BY <3>1, <2>2 DEF SameClient, RowsFree
    <3>4. UserLock' BY <3>1, <2>2 DEF SameClient, RowsFree
    <3>5. QED BY <3>2, <3>3, <3>4
  <2>3. CASE /\ u # None /\ RowsFree(r, {u}) /\ nxt' = [nxt EXCEPT ![r] = u]
             /\ SessionOf(u) = SessionOf(tok[r]) /\ SameClient(u, origin[r])
             /\ row[u] = "live"
             /\ held' = [held EXCEPT ![r] = held[r] \cup {u}]
             /\ Goto(r, "check")
             /\ UNCHANGED <<stored, tok, origin, pw, signed, hops, dels, ends>>
    <3>1. step[r] = "hop" BY <1>10 DEF GraceHop
    <3>2. Locks' BY <3>1, <2>3 DEF SameClient, RowsFree
    <3>3. Pending'
      <4> SUFFICES ASSUME NEW q \in Requests PROVE PendingOf(q)'
        OBVIOUS
      <4>1. CASE q = r BY <3>1, <2>3, <4>1 DEF SameClient
      <4>2. CASE q # r BY <3>1, <2>3, <4>2
      <4>3. QED BY <4>1, <4>2
    <3>4. UserLock' BY <3>1, <2>3 DEF SameClient, RowsFree
    <3>5. QED BY <3>2, <3>3, <3>4
  <2>4. CASE /\ u # None /\ RowsFree(r, {u}) /\ nxt' = [nxt EXCEPT ![r] = u]
             /\ SessionOf(u) = SessionOf(tok[r]) /\ SameClient(u, origin[r])
             /\ row[u] = "consumed"
             /\ held' = [held EXCEPT ![r] = held[r] \cup {u}]
             /\ hops' = [hops EXCEPT ![r] = hops[r] + 1]
             /\ UNCHANGED <<stored, step, tok, origin, pw, signed, dels, ends>>
    <3>1. step[r] = "hop" BY <1>10 DEF GraceHop
    <3>2. Locks' BY <3>1, <2>4 DEF SameClient, RowsFree
    <3>3. Pending'
      <4> SUFFICES ASSUME NEW q \in Requests PROVE PendingOf(q)'
        OBVIOUS
      <4>1. CASE q = r BY <3>1, <2>4, <4>1 DEF SameClient
      <4>2. CASE q # r BY <3>1, <2>4, <4>2
      <4>3. QED BY <4>1, <4>2
    <3>4. UserLock' BY <3>1, <2>4 DEF SameClient, RowsFree
    <3>5. QED BY <3>2, <3>3, <3>4
  <2>5. QED
    <3> HIDE DEF Begin, Answer, Unlock, Goto, Inv, Typed, TypeOK, StoredTypes,
                 RequestTypes, Known, KnownTo, Order, Locks, Pending, PendingOf,
                 InRotation, InGrace, HasSuccessor, HasRotated, Private, UserLock,
                 Minted, SessionOf, Fresh, OneLiveToken, Safe
    <3>1. QED BY <1>10, <2>1, <2>2, <2>3, <2>4 DEF GraceHop, FollowTo
<1>11. ASSUME NEW r \in Requests, RefreshCheck(r) PROVE Order'
  <2>1. CASE Goto(r, "purge") /\ Unlock(r)
    BY <1>11, <2>1 DEF RefreshCheck
  <2>2. CASE Goto(r, "issue") /\ UNCHANGED held
    BY <1>11, <2>2 DEF RefreshCheck
  <2>3. QED BY <1>11, <2>1, <2>2 DEF RefreshCheck
<1>12. ASSUME NEW r \in Requests, GraceIssue(r) PROVE Order'
  BY <1>12 DEF GraceIssue
<1>13. ASSUME NEW r \in Requests, NEW u \in Tokens, Rotate(r, u) PROVE Order'
  <2> HIDE DEF Inv, Typed, TypeOK, StoredTypes, RequestTypes, Known, KnownTo, Order,
               Locks, Pending, PendingOf, InRotation, InGrace, HasSuccessor,
               HasRotated, Private, UserLock, Minted, SessionOf, Fresh,
               OneLiveToken, Safe
  <2>0. /\ RequestTypes /\ held \in [Requests -> SUBSET Tokens]
        /\ Locks /\ Pending /\ Known /\ UserLock
    BY DEF Inv, Order, Typed, TypeOK
  <2>1. /\ step'[r] = "refreshCommit" /\ nxt'[r] = u /\ tok'[r] = tok[r]
        /\ origin'[r] = origin[r] /\ step[r] = "issue" /\ nxt[r] = None
        /\ \A q \in Requests \ {r} : SameLocals(q)
    BY <1>13, <2>0 DEF Rotate, RequestTypes, SameLocals
  <2>2. /\ Fresh(u) /\ UNCHANGED <<row, held, account, pwd>>
        /\ \A v \in Tokens \ {u} : token'[v] = token[v]
        /\ SessionOf(u)' = SessionOf(tok[r]) /\ token'[u].origin = origin[r]
    BY <1>13, <2>1 DEF Rotate, SessionOf, Inv, Typed, TypeOK, StoredTypes
  <2>3. SessionOf(u) = None /\ row[u] = "none"
    BY <2>0, <2>2 DEF Fresh, SessionOf, Known, Minted
  <2>4. tok[r] \in Tokens /\ tok[r] # u /\ tok[r] \in held[r]
    BY <2>0, <2>1, <2>3 DEF Known, KnownTo, Minted, Pending, PendingOf
  <2>5. Locks'
    BY <2>0, <2>1, <2>2 DEF Locks, SameLocals
  <2>6. UserLock'
    BY <2>0, <2>1, <2>2 DEF UserLock, SameLocals
  <2>7. \A q \in Requests \ {r} : step[q] \in LoginSteps => SessionOf(nxt[q]) # SessionOf(u)'
    BY <2>0, <2>1, <2>2, <2>4 DEF Pending, PendingOf, Private
  <2>8. \A q \in Requests \ {r} : PendingOf(q)'
    BY <2>1, <2>2, <2>7, MintOthers
  <2>9. PendingOf(r)'
    <3>1. InRotation(r)
      BY <2>0, <2>1 DEF Pending, PendingOf, HasSuccessor, InGrace
    <3>2. HasRotated(r)'
      BY <2>1, <2>2, <2>3, <2>4, <3>1 DEF HasRotated, InRotation, SessionOf
    <3>3. QED BY <2>1, <2>2, <2>4, <3>2 DEF PendingOf
  <2>10. QED BY <2>5, <2>6, <2>8, <2>9 DEF Order, Pending
<1>14. ASSUME NEW r \in Requests, RefreshCommit(r) PROVE Order'
  <2> HIDE DEF Inv, Typed, TypeOK, StoredTypes, RequestTypes, Known, KnownTo, Order,
               Locks, Pending, PendingOf, InRotation, InGrace, HasSuccessor,
               HasRotated, Private, UserLock, Minted, SessionOf, Fresh,
               OneLiveToken, Safe
  <2>0. /\ RequestTypes /\ held \in [Requests -> SUBSET Tokens]
        /\ Locks /\ Pending /\ Known /\ UserLock
    BY DEF Inv, Order, Typed, TypeOK
  <2>1. step[r] = "refreshCommit" /\ UNCHANGED <<account, pwd, token>>
        /\ Answer(r) /\ Unlock(r)
    BY <1>14 DEF RefreshCommit
  <2>2. CASE ~Rotating(r)
    BY <1>14, <2>1, <2>2, AnswerOrder DEF RefreshCommit
  <2>3. CASE Rotating(r)
    <3>1. /\ HasRotated(r) /\ tok[r] \in held[r]
      BY <2>0, <2>1, <2>3 DEF Rotating, Pending, PendingOf, HasSuccessor
    <3>2. \A t \in Tokens \ {tok[r], nxt[r]} : row'[t] = row[t]
      BY <1>14, <2>3 DEF RefreshCommit, Inv, Typed, TypeOK, StoredTypes
    <3>3. /\ tok[r] \in Tokens /\ nxt[r] \in Tokens
          /\ row[tok[r]] = "live" /\ row[nxt[r]] = "none"
          /\ SessionOf(nxt[r]) = SessionOf(tok[r])
      BY <2>0, <2>1, <3>1 DEF HasRotated, Known, KnownTo, Minted
    <3>4. ASSUME NEW q \in Requests \ {r}, step[q] \in LoginSteps
          PROVE  /\ nxt[q] \in Tokens \ {tok[r], nxt[r]}
      BY <2>0, <2>1, <3>3, <3>4
      DEF Pending, PendingOf, Private, Known, KnownTo, Minted
    <3>5. ASSUME NEW q \in Requests \ {r}, step[q] \in UnderTokenLock
          PROVE  /\ tok[q] \in Tokens \ {tok[r], nxt[r]}
                 /\ step[q] \in FoundSteps /\ nxt[q] # None =>
                        nxt[q] \in Tokens \ {tok[r], nxt[r]}
      <4>1. /\ tok[q] \in held[q] /\ held[q] \in SUBSET Tokens
            /\ tok[r] \notin held[q] /\ nxt[q] \in Tokens \cup {None}
        BY <2>0, <3>1, <3>5 DEF Pending, PendingOf, Locks, RequestTypes
      <4>2. /\ row[tok[q]] # "none"
            /\ step[q] \in FoundSteps =>
                   InRotation(q) \/ HasSuccessor(q) \/ HasRotated(q)
        BY <2>0, <3>5
        DEF Pending, PendingOf, FoundSteps, InRotation, HasSuccessor, HasRotated, InGrace
      <4>3. CASE HasRotated(q) /\ nxt[q] = nxt[r]
        <5>1. SessionOf(tok[q]) = SessionOf(tok[r]) /\ row[tok[q]] = "live"
          BY <3>3, <4>3 DEF HasRotated
        <5>2. tok[q] = tok[r]
          BY <3>3, <4>1, <5>1 DEF Inv, Safe, OneLiveToken
        <5>3. QED BY <4>1, <5>2
      <4>4. CASE HasRotated(q) /\ nxt[q] # nxt[r]
        BY <3>3, <4>1, <4>2, <4>4 DEF HasRotated
      <4>5. CASE HasSuccessor(q)
        BY <3>3, <4>1, <4>2, <4>5 DEF HasSuccessor, InGrace
      <4>6. QED
        BY <3>3, <4>1, <4>2, <4>3, <4>4, <4>5 DEF InRotation
    <3>6. \A q \in Requests \ {r} :
             /\ step[q] \in UnderTokenLock => row'[tok[q]] = row[tok[q]]
             /\ step[q] \in LoginSteps \cup FoundSteps /\ nxt[q] # None =>
                    row'[nxt[q]] = row[nxt[q]]
      BY <3>2, <3>4, <3>5 DEF FoundSteps
    <3>7. /\ step'[r] \notin LoginSteps \cup RefreshSteps /\ held'[r] = {}
          /\ \A q \in Requests \ {r} : SameLocals(q) /\ held'[q] = held[q]
      <4> HIDE DEF Answer, Unlock
      <4>1. step'[r] = "idle" /\ \A q \in Requests \ {r} : SameLocals(q)
        BY <2>0, <2>1, AnswerEffect
      <4>2. QED BY <2>0, <2>1, <4>1, UnlockEffect
    <3>8. QED BY <2>1, <3>6, <3>7, DoneOrder
  <2>4. QED BY <2>2, <2>3
<1>15. ASSUME NEW r \in Requests, Purge(r) PROVE Order'
  BY <1>15 DEF Purge
<1>16. ASSUME NEW r \in Requests, PurgeFinish(r) PROVE Order'
  <2> HIDE DEF Inv, Typed, TypeOK, StoredTypes, RequestTypes, Known, KnownTo, Order,
               Locks, Pending, PendingOf, InRotation, InGrace, HasSuccessor,
               HasRotated, Private, UserLock, Minted, SessionOf, Fresh,
               OneLiveToken, Safe
  <2>0. /\ RequestTypes /\ held \in [Requests -> SUBSET Tokens]
        /\ Locks /\ Pending /\ Known /\ UserLock
    BY DEF Inv, Order, Typed, TypeOK
  <2>1. /\ Delete(dels[r]) /\ RowsFree(r, dels[r]) /\ Answer(r)
        /\ step[r] = "purgeWait" /\ UNCHANGED <<account, pwd, token, held>>
    BY <1>16 DEF PurgeFinish
  <2>2. dels[r] \in SUBSET Tokens /\ held[r] = {}
    BY <2>0, <2>1 DEF RequestTypes, Locks
  <2>3. /\ step'[r] \notin LoginSteps \cup RefreshSteps
        /\ \A q \in Requests \ {r} : SameLocals(q)
    <3> HIDE DEF Answer
    <3>1. QED BY <2>0, <2>1, AnswerEffect
  <2>4. QED BY <2>1, <2>2, <2>3, DeleteOrder
<1>17. ASSUME NEW r \in Requests, NEW S, NEW T,
              Revocation(r, S, T)
       PROVE Order'
  <2> HIDE DEF Inv, Typed, TypeOK, StoredTypes, RequestTypes, Known, KnownTo, Order,
               Locks, Pending, PendingOf, InRotation, InGrace, HasSuccessor,
               HasRotated, Private, UserLock, Minted, SessionOf, Fresh,
               OneLiveToken, Safe
  <2>0. /\ RequestTypes /\ held \in [Requests -> SUBSET Tokens]
        /\ Locks /\ Pending /\ Known /\ UserLock
    BY DEF Inv, Order, Typed, TypeOK
  <2>1. /\ Delete(T) /\ T \in SUBSET Tokens /\ UserUnlocked
        /\ Begin(r, "mark", None, None, None, 0, S)
        /\ UNCHANGED <<account, pwd, token, held>>
    BY <1>17 DEF Revocation, EndSessions
  <2>2. RowsFree(r, T) /\ held[r] = {}
    BY <2>0, <2>1, UnlockedRowsFree
  <2>3. /\ step'[r] \notin LoginSteps \cup RefreshSteps
        /\ \A q \in Requests \ {r} : SameLocals(q)
    BY <2>0, <2>1 DEF RequestTypes, SameLocals
  <2>4. QED BY <2>1, <2>2, <2>3, DeleteOrder
<1>18. ASSUME NEW r \in Requests, MarkRevoked(r) PROVE Order'
  <2>1. Answer(r) /\ UNCHANGED <<account, pwd, token, row, held>> /\ held[r] = {}
    BY <1>18 DEF MarkRevoked
  <2> HIDE DEF Answer, Inv, Order
  <2>2. QED BY <2>1, AnswerOrder
<1>19. ASSUME NEW r \in Requests, ResetPassword(r) PROVE Order'
  <2> HIDE DEF Inv, Typed, TypeOK, StoredTypes, RequestTypes, Known, KnownTo, Order,
               Locks, Pending, PendingOf, InRotation, InGrace, HasSuccessor,
               HasRotated, Private, UserLock, Minted, SessionOf, Fresh,
               OneLiveToken, Safe
  <2>0. /\ RequestTypes /\ held \in [Requests -> SUBSET Tokens]
        /\ Locks /\ Pending /\ Known /\ UserLock
    BY DEF Inv, Order, Typed, TypeOK
  <2>1. /\ Delete(Tokens) /\ UserUnlocked
        /\ Begin(r, "cutoffRead", None, None, None, pwd + 1, {})
        /\ UNCHANGED <<account, token, held>>
    BY <1>19 DEF ResetPassword
  <2>2. RowsFree(r, Tokens) /\ held[r] = {}
    BY <2>0, <2>1, UnlockedRowsFree
  <2>3. /\ step'[r] \notin LoginSteps \cup RefreshSteps
        /\ \A q \in Requests \ {r} : SameLocals(q)
    BY <2>0, <2>1 DEF RequestTypes, SameLocals
  <2>4. QED BY <2>1, <2>2, <2>3, DeleteOrder
<1>20. ASSUME NEW r \in Requests, CutoffRead(r) PROVE Order'
  BY <1>20 DEF CutoffRead
<1>21. ASSUME NEW r \in Requests, CutoffWrite(r) PROVE Order'
  <2>1. Answer(r) /\ UNCHANGED <<account, pwd, token, row, held>> /\ held[r] = {}
    BY <1>21 DEF CutoffWrite
  <2> HIDE DEF Answer, Inv, Order
  <2>2. QED BY <2>1, AnswerOrder
<1>22. ASSUME NEW r \in Requests, Fail(r) PROVE Order'
  <2>1. Answer(r) /\ Unlock(r) /\ UNCHANGED stored
    BY <1>22 DEF Fail
  <2>2. UNCHANGED <<account, pwd, token, row>>
    BY <2>1
  <2> HIDE DEF Answer, Unlock, Inv, Order
  <2>3. QED BY <2>1, <2>2, AnswerOrder
<1>23. ASSUME NEW b \in BOOLEAN, SetBanStatus(b) PROVE Order'
  BY <1>23 DEF SetBanStatus, UserUnlocked
<1>24. ASSUME DeleteUser PROVE Order'
  BY <1>24 DEF DeleteUser, UserUnlocked, Delete
<1>25. ASSUME NEW t \in Tokens, GraceEnds(t) PROVE Order'
  BY <1>25 DEF GraceEnds
<1>26. ASSUME NEW t \in Tokens, CleanExpiredToken(t) PROVE Order'
  BY <1>26 DEF CleanExpiredToken, Delete
<1>27. ASSUME NEW s \in Sessions, MarkerExpires(s) PROVE Order'
  BY <1>27 DEF MarkerExpires
<1>28. ASSUME CutoffExpires PROVE Order'
  BY <1>28 DEF CutoffExpires
<1>29. QED
  <2> HIDE DEF Inv, Typed, TypeOK, StoredTypes, RequestTypes, Known, KnownTo, Order,
               Locks, Pending, PendingOf, InRotation, InGrace, HasSuccessor,
               HasRotated, Private, UserLock, Minted, SessionOf, Fresh, Unminted,
               LoginSteps, RefreshSteps, UnderTokenLock, InTransaction, stored,
               locals, request, redis, history, Begin, Answer, Goto, Unlock,
               OneLiveToken, Safe
  <2>1. ASSUME NEW r \in Requests, Login(r) PROVE Order'
    BY <2>1, <1>2, <1>3, <1>4, <1>5, <1>6 DEF Login
  <2>2. ASSUME NEW r \in Requests, Refresh(r) PROVE Order'
    BY <2>2, <1>7, <1>8, <1>9, <1>10, <1>11, <1>12, <1>13, <1>14, <1>15, <1>16
    DEF Refresh
  <2>3. ASSUME NEW r \in Requests, Revoke(r) PROVE Order'
    <3>1. CASE EndsSessions(r)
      <4>2. PICK S, T : Revocation(r, S, T) BY <3>1, RevocationCases
      <4>3. QED BY <4>2, <1>17
    <3>2. CASE ~EndsSessions(r)
      BY <2>3, <3>2, <1>18, <1>19, <1>20, <1>21 DEF Revoke, EndsSessions
    <3>3. QED BY <3>1, <3>2
  <2>4. CASE Environment
    BY <2>4, <1>23, <1>24, <1>25, <1>26, <1>27, <1>28 DEF Environment
  <2>5. QED BY <2>1, <2>2, <2>3, <2>4, <1>1, <1>22 DEF Next

(* Steps that store no row, sign nobody in and leave the password and the  *)
(* revocations alone disturb none of the properties.                       *)
Undisturbed ==
    /\ UNCHANGED <<token, opened, pwd, ended>>
    /\ \A t \in Tokens : row'[t] # "none" => row[t] # "none"
    /\ \A t \in Tokens : row'[t] = "live" => row[t] = "live"
    /\ \A q \in Requests : step'[q] \in LoginSteps =>
           step[q] \in LoginSteps /\ nxt'[q] = nxt[q]

LEMMA UndisturbedSafe ==
  ASSUME Safe, Undisturbed
  PROVE Safe'
<1>1. EndedSessions'
  BY EndedStay DEF Safe, Undisturbed
<1>2. OneLiveToken' /\ RowsOfCurrentPassword'
  BY DEF Safe, Undisturbed, OneLiveToken, RowsOfCurrentPassword, SessionOf
<1>3. QED BY <1>1, <1>2 DEF Safe

(* A token that is minted has no row: its session is the presented one's,  *)
(* or a new one that nobody can have revoked.                              *)
LEMMA MintSafe ==
  ASSUME Safe, Known, ended \subseteq Sessions, NEW t \in Tokens, Fresh(t),
         UNCHANGED <<row, opened, pwd, ended>>,
         \A u \in Tokens \ {t} : token'[u] = token[u],
         \A q \in Requests : step'[q] \in LoginSteps =>
             \/ step[q] \in LoginSteps /\ nxt'[q] = nxt[q]
             \/ nxt'[q] = t /\ SessionOf(t)' \notin ended
  PROVE Safe'
<1> USE NoneAssumption
<1>1. SessionOf(t) = None
  BY DEF Fresh, Unminted, SessionOf
<1>2. \A u \in Tokens : row[u] # "none" => u # t
  BY <1>1 DEF Known, Minted
<1>3. \A u \in Tokens \ {t} : SessionOf(u)' = SessionOf(u)
  BY DEF SessionOf
<1>4. OneLiveToken'
  BY <1>2, <1>3 DEF Safe, OneLiveToken
<1>5. RowsOfCurrentPassword'
  BY <1>2, <1>3 DEF Safe, RowsOfCurrentPassword
<1>6. EndedSessions'
  <2> SUFFICES ASSUME NEW e \in ended
               PROVE  /\ \E v \in Tokens : SessionOf(v)' = e
                      /\ \A v \in Tokens : row'[v] # "none" => SessionOf(v)' # e
                      /\ \A q \in Requests : step'[q] \in LoginSteps =>
                             SessionOf(nxt[q])' # e
    BY DEF EndedSessions
  <2>1. /\ \E v \in Tokens : SessionOf(v) = e
        /\ \A v \in Tokens : row[v] # "none" => SessionOf(v) # e
        /\ \A q \in Requests : step[q] \in LoginSteps => SessionOf(nxt[q]) # e
    BY DEF Safe, EndedSessions
  <2>2. PICK v \in Tokens : SessionOf(v) = e
    BY <2>1
  <2>3. SessionOf(v)' = e
    BY <1>1, <1>3, <2>2
  <2>4. \A w \in Tokens : row'[w] # "none" => SessionOf(w)' # e
    BY <1>2, <1>3, <2>1
  <2>5. ASSUME NEW q \in Requests, step'[q] \in LoginSteps
        PROVE  SessionOf(nxt[q])' # e
    <3>1. CASE step[q] \in LoginSteps /\ nxt'[q] = nxt[q]
      <4>1. nxt[q] \in Tokens /\ SessionOf(nxt[q]) \in Sessions
        BY <3>1 DEF Known, KnownTo, Minted
      <4>2. nxt[q] # t
        BY <1>1, <4>1
      <4>3. SessionOf(nxt[q])' = token'[nxt[q]].sid
        BY <3>1 DEF SessionOf
      <4>4. token'[nxt[q]] = token[nxt[q]]
        BY <4>1, <4>2
      <4>5. QED BY <2>1, <3>1, <4>3, <4>4 DEF SessionOf
    <3>2. CASE nxt'[q] = t /\ SessionOf(t)' \notin ended
      BY <3>2 DEF SessionOf
    <3>3. QED BY <2>5, <3>1, <3>2
  <2>6. QED BY <2>3, <2>4, <2>5
<1>7. QED BY <1>4, <1>5, <1>6 DEF Safe

(* What ends sessions deletes all their rows, and the sessions it ends had *)
(* been opened.                                                            *)
LEMMA DeleteSafe ==
  ASSUME Safe, UNCHANGED <<token, opened>>, NEW T \in SUBSET Tokens, Delete(T),
         pwd' = pwd \/ T = Tokens, NEW S, ended' = ended \cup S,
         \A s \in S : /\ \E t \in Tokens : SessionOf(t) = s
                      /\ \A q \in Requests : step[q] \in LoginSteps =>
                             SessionOf(nxt[q]) # s,
         \A t \in Tokens : row[t] # "none" /\ SessionOf(t) \in S => t \in T,
         \A q \in Requests : step'[q] \in LoginSteps =>
             step[q] \in LoginSteps /\ nxt'[q] = nxt[q]
  PROVE Safe'
<1>1. \A t \in Tokens : row'[t] # "none" => t \notin T /\ row'[t] = row[t]
  BY DEF Delete
<1>2. \A t \in Tokens : SessionOf(t)' = SessionOf(t)
  BY DEF SessionOf
<1>3. OneLiveToken'
  BY <1>1, <1>2 DEF Safe, OneLiveToken
<1>4. RowsOfCurrentPassword'
  BY <1>1, <1>2 DEF Safe, RowsOfCurrentPassword
<1>5. EndedSessions'
  <2> SUFFICES ASSUME NEW e \in ended \cup S
               PROVE  /\ \E t \in Tokens : SessionOf(t)' = e
                      /\ \A t \in Tokens : row'[t] # "none" => SessionOf(t)' # e
                      /\ \A q \in Requests : step'[q] \in LoginSteps =>
                             SessionOf(nxt[q])' # e
    BY DEF EndedSessions
  <2>1. /\ \E t \in Tokens : SessionOf(t) = e
        /\ \A q \in Requests : step[q] \in LoginSteps => SessionOf(nxt[q]) # e
    BY DEF Safe, EndedSessions
  <2>2. \A t \in Tokens : row'[t] # "none" => SessionOf(t) # e
    BY <1>1 DEF Safe, EndedSessions
  <2>3. \A q \in Requests : step'[q] \in LoginSteps => SessionOf(nxt[q])' # e
    BY <2>1 DEF SessionOf
  <2>4. QED BY <1>2, <2>1, <2>2, <2>3
<1>6. QED BY <1>3, <1>4, <1>5 DEF Safe

(* Every step keeps the properties.  The steps that matter are the commits  *)
(* of sign-ins and rotations and the revocations.                           *)
LEMMA SafeStep ==
  ASSUME Inv, [Next]_vars
  PROVE Safe'
<1>0. /\ Safe /\ Known /\ Pending /\ UserLock /\ RequestTypes
      /\ row \in [Tokens -> RowStates] /\ ended \subseteq Sessions
      /\ token \in [Tokens -> TokenData]
  BY DEF Inv, Typed, TypeOK, StoredTypes, Order
<1> USE DEF stored, locals, request, redis, history, Begin, Answer, Goto, RequestTypes
<1>1. CASE UNCHANGED vars
  <2>1. Undisturbed BY <1>1 DEF vars, Undisturbed
  <2>2. QED BY <1>0, <2>1, UndisturbedSafe
<1>2. ASSUME NEW r \in Requests, NEW o \in Origins, NEW t \in Tokens, NEW s \in Sessions,
             LoginVerify(r, o, t, s)
      PROVE Safe'
  <2>1. /\ Fresh(t) /\ UNCHANGED <<row, opened, pwd, ended>>
        /\ \A u \in Tokens \ {t} : token'[u] = token[u]
        /\ SessionOf(t)' = s /\ \A u \in Tokens : SessionOf(u) # s
    BY <1>0, <1>2 DEF LoginVerify, FreshSession, SessionOf
  <2>2. SessionOf(t)' \notin ended
    BY <1>0, <2>1 DEF Safe, EndedSessions
  <2>3. \A q \in Requests : \/ step'[q] = step[q] /\ nxt'[q] = nxt[q]
                            \/ nxt'[q] = t
    BY <1>0, <1>2 DEF LoginVerify
  <2>4. QED BY <1>0, <2>1, <2>2, <2>3, MintSafe
<1>3. ASSUME NEW r \in Requests, LoginLock(r) PROVE Undisturbed
  BY <1>0, <1>3 DEF LoginLock, Undisturbed, LoginSteps
<1>4. ASSUME NEW r \in Requests, LoginDelete(r) PROVE Undisturbed
  BY <1>0, <1>4 DEF LoginDelete, Undisturbed, LoginSteps
<1>5. ASSUME NEW r \in Requests, LoginStore(r) PROVE Undisturbed
  BY <1>0, <1>5 DEF LoginStore, Undisturbed, LoginSteps
<1>6. ASSUME NEW r \in Requests, LoginCommit(r) PROVE Safe'
  <2> DEFINE t == nxt[r]
  <2>1. step[r] = "loginCommit" /\ step[r] \in LoginSteps
    BY <1>6 DEF LoginCommit, LoginSteps
  <2>2. /\ t \in Tokens /\ SessionOf(t) \in Sessions /\ Private(t) /\ pw[r] = pwd
    BY <1>0, <2>1 DEF Known, KnownTo, Minted, Pending, PendingOf, UserLock
  <2>3. /\ \A u \in Tokens : row'[u] # "none" => u = t \/ row'[u] = row[u]
        /\ opened' = [opened EXCEPT ![SessionOf(t)] = pw[r]]
        /\ UNCHANGED <<token, pwd, ended>>
    BY <1>6 DEF LoginCommit
  <2>4. \A u \in Tokens : SessionOf(u)' = SessionOf(u)
    BY <2>3 DEF SessionOf
  <2>5. \A u \in Tokens : SessionOf(u) = SessionOf(t) => u = t
    BY <2>2 DEF Private
  <2>6. \A q \in Requests : step'[q] \in LoginSteps =>
             step[q] \in LoginSteps /\ nxt'[q] = nxt[q]
    BY <1>0, <1>6 DEF LoginCommit, LoginSteps
  <2> HIDE DEF t
  <2>7. EndedSessions'
    <3>1. SessionOf(t) \notin ended
      BY <1>0, <2>1 DEF Safe, EndedSessions, t
    <3>2. \A u \in Tokens : row'[u] # "none" =>
             row[u] # "none" \/ SessionOf(u) \notin ended
      BY <2>3, <3>1
    <3>3. QED BY <1>0, <2>3, <2>6, <3>2, EndedStay DEF Safe
  <2>8. OneLiveToken'
    <3> SUFFICES ASSUME NEW u \in Tokens, NEW v \in Tokens, row'[u] = "live",
                        row'[v] = "live", SessionOf(u) = SessionOf(v)
                 PROVE  u = v
      BY <2>4 DEF OneLiveToken
    <3>1. CASE u = t \/ v = t BY <2>5, <3>1
    <3>2. CASE u # t /\ v # t BY <1>0, <2>3, <3>2 DEF Safe, OneLiveToken
    <3>3. QED BY <3>1, <3>2
  <2>9. RowsOfCurrentPassword'
    <3> SUFFICES ASSUME NEW u \in Tokens, row'[u] # "none"
                 PROVE  opened'[SessionOf(u)] = pwd
      BY <2>3, <2>4 DEF RowsOfCurrentPassword
    <3>1. opened \in [Sessions -> Nat] BY DEF Inv, Typed, TypeOK, StoredTypes
    <3>2. CASE u = t BY <2>2, <2>3, <3>1, <3>2
    <3>3. CASE u # t
      <4>1. SessionOf(u) # SessionOf(t) BY <2>5, <3>3
      <4>2. row[u] # "none" BY <2>3, <3>3
      <4>3. SessionOf(u) \in Sessions /\ opened[SessionOf(u)] = pwd
        BY <1>0, <4>2 DEF Safe, RowsOfCurrentPassword, Known, Minted
      <4>4. QED BY <2>3, <3>1, <4>1, <4>3
    <3>4. QED BY <3>2, <3>3
  <2>10. QED BY <2>7, <2>8, <2>9 DEF Safe
<1>7. ASSUME NEW r \in Requests, NEW t \in Tokens, NEW o \in Origins,
             RefreshVerify(r, t, o)
      PROVE Undisturbed
  BY <1>0, <1>7 DEF RefreshVerify, Undisturbed, LoginSteps
<1>8. ASSUME NEW r \in Requests, RefreshLockUser(r) PROVE Undisturbed
  BY <1>0, <1>8 DEF RefreshLockUser, Undisturbed, LoginSteps
<1>9. ASSUME NEW r \in Requests, RefreshLockToken(r) PROVE Undisturbed
  BY <1>0, <1>9 DEF RefreshLockToken, Undisturbed, LoginSteps
<1>10. ASSUME NEW r \in Requests, GraceHop(r) PROVE Undisturbed
  <2>1. UNCHANGED stored /\ step[r] = "hop"
    BY <1>10 DEF GraceHop
  <2>2. /\ step'[r] \notin LoginSteps
        /\ \A q \in Requests \ {r} : step'[q] = step[q] /\ nxt'[q] = nxt[q]
    BY <1>0, <1>10 DEF GraceHop, FollowTo, LoginSteps
  <2>3. QED BY <2>1, <2>2 DEF Undisturbed
<1>11. ASSUME NEW r \in Requests, RefreshCheck(r) PROVE Undisturbed
  BY <1>0, <1>11 DEF RefreshCheck, Undisturbed, LoginSteps
<1>12. ASSUME NEW r \in Requests, GraceIssue(r) PROVE Undisturbed
  BY <1>0, <1>12 DEF GraceIssue, Undisturbed, LoginSteps
<1>13. ASSUME NEW r \in Requests, NEW u \in Tokens, Rotate(r, u) PROVE Safe'
  <2>1. /\ Fresh(u) /\ UNCHANGED <<row, opened, pwd, ended>>
        /\ \A v \in Tokens \ {u} : token'[v] = token[v]
    BY <1>0, <1>13 DEF Rotate
  <2>2. \A q \in Requests : step'[q] \in LoginSteps =>
             step[q] \in LoginSteps /\ nxt'[q] = nxt[q]
    BY <1>0, <1>13 DEF Rotate, LoginSteps
  <2>3. QED BY <1>0, <2>1, <2>2, MintSafe
<1>14. ASSUME NEW r \in Requests, RefreshCommit(r) PROVE Safe'
  <2>1. /\ step[r] = "refreshCommit" /\ UNCHANGED <<token, opened, pwd, ended>>
        /\ \A q \in Requests : step'[q] \in LoginSteps =>
               step[q] \in LoginSteps /\ nxt'[q] = nxt[q]
    BY <1>0, <1>14 DEF RefreshCommit, LoginSteps
  <2>2. CASE ~Rotating(r)
    <3>1. Undisturbed BY <1>14, <2>1, <2>2 DEF RefreshCommit, Undisturbed
    <3>2. QED BY <1>0, <3>1, UndisturbedSafe
  <2>3. CASE Rotating(r)
    <3>1. HasRotated(r)
      BY <1>0, <2>1, <2>3 DEF Rotating, Pending, PendingOf, HasSuccessor
    <3>2. /\ row' = [row EXCEPT ![tok[r]] = "consumed", ![nxt[r]] = "live"]
          /\ tok[r] \in Tokens /\ nxt[r] \in Tokens /\ tok[r] # nxt[r]
          /\ row[tok[r]] = "live" /\ SessionOf(nxt[r]) = SessionOf(tok[r])
      BY <1>0, <1>14, <2>1, <2>3, <3>1
      DEF RefreshCommit, HasRotated, Known, KnownTo, Minted, RefreshSteps
    <3>3. /\ row'[tok[r]] = "consumed"
          /\ \A t \in Tokens : row'[t] # "none" => t = nxt[r] \/ row[t] # "none"
          /\ \A t \in Tokens : row'[t] = "live" => t = nxt[r] \/ row[t] = "live"
      BY <1>0, <3>2
    <3>4. \A t \in Tokens : SessionOf(t)' = SessionOf(t)
      BY <2>1 DEF SessionOf
    <3>5. OneLiveToken'
      BY <1>0, <3>2, <3>3, <3>4 DEF Safe, OneLiveToken
    <3>6. RowsOfCurrentPassword'
      BY <1>0, <2>1, <3>2, <3>3, <3>4 DEF Safe, RowsOfCurrentPassword
    <3>7. SessionOf(tok[r]) \notin ended
      BY <1>0, <3>2 DEF Safe, EndedSessions
    <3>8. EndedSessions'
      BY <1>0, <2>1, <3>2, <3>3, <3>7, EndedStay DEF Safe
    <3>9. QED BY <3>5, <3>6, <3>8 DEF Safe
  <2>4. QED BY <2>2, <2>3
<1>15. ASSUME NEW r \in Requests, Purge(r) PROVE Undisturbed
  BY <1>0, <1>15 DEF Purge, Undisturbed, LoginSteps
<1>16. ASSUME NEW r \in Requests, PurgeFinish(r) PROVE Undisturbed
  BY <1>0, <1>16 DEF PurgeFinish, Delete, Undisturbed, LoginSteps
<1>17. ASSUME NEW r \in Requests, NEW S, NEW T, Revocation(r, S, T) PROVE Safe'
  <2>1. /\ UNCHANGED <<token, opened, pwd>> /\ Delete(T) /\ T \in SUBSET Tokens
        /\ ended' = ended \cup S
        /\ \A s \in S : /\ \E t \in Tokens : SessionOf(t) = s
                        /\ \A q \in Requests : step[q] \in LoginSteps =>
                               SessionOf(nxt[q]) # s
    BY <1>17 DEF Revocation, EndSessions
  <2>2. \A t \in Tokens : row[t] # "none" /\ SessionOf(t) \in S => t \in T
    BY <1>17 DEF Revocation, RowsOf
  <2>3. \A q \in Requests : step'[q] \in LoginSteps =>
             step[q] \in LoginSteps /\ nxt'[q] = nxt[q]
    BY <1>0, <1>17 DEF Revocation, EndSessions, LoginSteps
  <2>4. QED BY <1>0, <2>1, <2>2, <2>3, DeleteSafe
<1>18. ASSUME NEW r \in Requests, MarkRevoked(r) PROVE Undisturbed
  BY <1>0, <1>18 DEF MarkRevoked, Undisturbed, LoginSteps
<1> DEFINE All == {SessionOf(t) : t \in {u \in Tokens : row[u] # "none"}}
<1> HIDE DEF All
<1>30. \A s \in All : /\ \E t \in Tokens : SessionOf(t) = s
                     /\ \A q \in Requests : step[q] \in LoginSteps => SessionOf(nxt[q]) # s
  <2> SUFFICES ASSUME NEW t \in Tokens, row[t] # "none"
               PROVE  \A q \in Requests : step[q] \in LoginSteps =>
                          SessionOf(nxt[q]) # SessionOf(t)
    BY DEF All
  <2> SUFFICES ASSUME NEW q \in Requests, step[q] \in LoginSteps
               PROVE  SessionOf(nxt[q]) # SessionOf(t)
    OBVIOUS
  <2>1. Private(nxt[q]) BY <1>0 DEF Pending, PendingOf
  <2>2. QED BY <2>1 DEF Private
<1>19. ASSUME NEW r \in Requests, ResetPassword(r) PROVE Safe'
  <2>1. UNCHANGED <<token, opened>> /\ Delete(Tokens) /\ ended' = ended \cup All
    BY <1>19 DEF ResetPassword, All
  <2>2. \A q \in Requests : step'[q] \in LoginSteps =>
             step[q] \in LoginSteps /\ nxt'[q] = nxt[q]
    BY <1>0, <1>19 DEF ResetPassword, LoginSteps
  <2>3. QED BY <1>0, <1>30, <2>1, <2>2, DeleteSafe
<1>20. ASSUME NEW r \in Requests, CutoffRead(r) PROVE Undisturbed
  BY <1>0, <1>20 DEF CutoffRead, Undisturbed, LoginSteps
<1>21. ASSUME NEW r \in Requests, CutoffWrite(r) PROVE Undisturbed
  BY <1>0, <1>21 DEF CutoffWrite, Undisturbed, LoginSteps
<1>22. ASSUME NEW r \in Requests, Fail(r) PROVE Undisturbed
  BY <1>0, <1>22 DEF Fail, Undisturbed, LoginSteps
<1>23. ASSUME NEW b \in BOOLEAN, SetBanStatus(b) PROVE Undisturbed
  BY <1>0, <1>23 DEF SetBanStatus, Undisturbed
<1>24. ASSUME DeleteUser PROVE Safe'
  <2>1. /\ UNCHANGED <<token, opened, step, nxt>> /\ Delete(Tokens)
        /\ ended' = ended \cup All
    BY <1>24 DEF DeleteUser, All
  <2>2. QED BY <1>0, <1>30, <2>1, DeleteSafe
<1>25. ASSUME NEW t \in Tokens, GraceEnds(t) PROVE Undisturbed
  BY <1>0, <1>25 DEF GraceEnds, Undisturbed
<1>26. ASSUME NEW t \in Tokens, CleanExpiredToken(t) PROVE Undisturbed
  BY <1>0, <1>26 DEF CleanExpiredToken, Delete, Undisturbed
<1>27. ASSUME NEW s \in Sessions, MarkerExpires(s) PROVE Undisturbed
  BY <1>0, <1>27 DEF MarkerExpires, Undisturbed
<1>28. ASSUME CutoffExpires PROVE Undisturbed
  BY <1>0, <1>28 DEF CutoffExpires, Undisturbed
<1>29. Undisturbed => Safe'
  BY <1>0, UndisturbedSafe
<1>31. QED
  <2> HIDE DEF stored, locals, request, redis, history, Begin, Answer, Goto, RequestTypes
  <2>1. ASSUME NEW r \in Requests, Login(r) PROVE Safe'
    BY <2>1, <1>2, <1>3, <1>4, <1>5, <1>6, <1>29 DEF Login
  <2>2. ASSUME NEW r \in Requests, Refresh(r) PROVE Safe'
    BY <2>2, <1>7, <1>8, <1>9, <1>10, <1>11, <1>12, <1>13, <1>14, <1>15, <1>16, <1>29
    DEF Refresh
  <2>3. ASSUME NEW r \in Requests, Revoke(r) PROVE Safe'
    <3>1. CASE EndsSessions(r)
      <4>2. PICK S, T : Revocation(r, S, T) BY <3>1, RevocationCases
      <4>3. QED BY <4>2, <1>17
    <3>2. CASE ~EndsSessions(r)
      BY <2>3, <3>2, <1>18, <1>19, <1>20, <1>21, <1>29 DEF Revoke, EndsSessions
    <3>3. QED BY <3>1, <3>2
  <2>4. CASE Environment
    BY <2>4, <1>23, <1>24, <1>25, <1>26, <1>27, <1>28, <1>29 DEF Environment
  <2>5. ASSUME NEW r \in Requests, Fail(r) PROVE Safe'
    BY <2>5, <1>22, <1>29
  <2>6. QED BY <2>1, <2>2, <2>3, <2>4, <2>5, <1>1 DEF Next

-----------------------------------------------------------------------------
(* Nothing is stored and nobody works on anything at first.                *)
LEMMA InitInv == Init => Inv
<1> SUFFICES ASSUME Init PROVE Inv
  OBVIOUS
<1> USE NoneAssumption DEF Init, Unminted, SessionOf, Fresh, Minted, LoginSteps, RefreshSteps,
            UnderTokenLock, InTransaction
<1>1. TypeOK
  BY DEF TypeOK, StoredTypes, RequestTypes, TokenData, RowStates, Steps
<1>2. Known
  BY DEF Known, KnownTo
<1>3. Locks /\ Pending /\ UserLock
  BY DEF Locks, Pending, PendingOf, UserLock
<1>4. Safe
  BY DEF Safe, OneLiveToken, EndedSessions, RowsOfCurrentPassword
<1>5. QED BY <1>1, <1>2, <1>3, <1>4 DEF Inv, Typed, Order

(* The three parts together are inductive.                                 *)
LEMMA InvStep ==
  ASSUME Inv, [Next]_vars
  PROVE  Inv'
BY TypedStep, OrderStep, SafeStep DEF Inv

(* Inv holds in every reachable state, whatever the constants are.         *)
THEOREM Invariance == Spec => []Inv
<1>1. Init => Inv
  BY InitInv
<1>2. Inv /\ [Next]_vars => Inv'
  BY InvStep
<1>3. QED BY <1>1, <1>2, PTL DEF Spec

(* Every variable has its type.                                            *)
THEOREM TypeCorrect == Spec => []TypeOK
<1>1. Inv => TypeOK
  BY DEF Inv, Typed
<1>2. QED BY <1>1, Invariance, PTL

(* A session never forks into two refresh tokens that can be rotated       *)
(* (auth.service.ts findGraceSuccessor, generateRefreshToken).             *)
THEOREM NeverForks == Spec => []OneLiveToken
<1>1. Inv => OneLiveToken
  BY DEF Inv, Safe
<1>2. QED BY <1>1, Invariance, PTL

(* Nothing a revocation has ended comes back, whatever sign-in or rotation *)
(* it raced (session-lock.util.ts).                                        *)
THEOREM RevokedForGood == Spec => []RevokedSessionHasNoRow
<1>1. Inv => RevokedSessionHasNoRow
  BY DEF Inv, Safe, EndedSessions, RevokedSessionHasNoRow
<1>2. QED BY <1>1, Invariance, PTL

(* Every refresh token belongs to a session that signed in with the        *)
(* password the account has now (auth.service.ts issueLoginTokens,         *)
(* user.service.ts resetPasswordAndRevokeSessions).                        *)
THEOREM OnlyCurrentPassword == Spec => []RowsOfCurrentPassword
<1>1. Inv => RowsOfCurrentPassword
  BY DEF Inv, Safe
<1>2. QED BY <1>1, Invariance, PTL

(* A refresh sends the session's current token, created for its own client *)
(* (auth.controller.ts refresh, auth.service.ts findGraceSuccessor).       *)
THEOREM SendsCurrentToken == Spec => SentTokenIsCurrent
<1>1. ASSUME Inv, NEW r \in Requests, RefreshCommit(r)
      PROVE  /\ row'[nxt[r]] = "live"
             /\ SessionOf(nxt[r]) = SessionOf(tok[r])
             /\ token[nxt[r]].origin = origin[r]
  <2>1. HasRotated(r) \/ HasSuccessor(r)
    BY <1>1 DEF Inv, Order, Pending, PendingOf, RefreshCommit
  <2>2. nxt[r] \in Tokens /\ tok[r] \in Tokens
    BY <1>1 DEF Inv, Typed, Known, KnownTo, Minted, RefreshCommit, RefreshSteps
  <2>3. row \in [Tokens -> RowStates]
    BY <1>1 DEF Inv, Typed, TypeOK, StoredTypes
  <2>4. row'[nxt[r]] = "live"
    BY <1>1, <2>1, <2>2, <2>3 DEF RefreshCommit, Rotating, HasRotated, HasSuccessor, InGrace
  <2>5. QED BY <2>1, <2>4 DEF HasRotated, HasSuccessor, InGrace
<1>2. Inv => \A r \in Requests : RefreshCommit(r) =>
          /\ row'[nxt[r]] = "live"
          /\ SessionOf(nxt[r]) = SessionOf(tok[r])
          /\ token[nxt[r]].origin = origin[r]
  BY <1>1
<1>3. QED BY <1>2, Invariance, PTL DEF SentTokenIsCurrent

(* No refresh commits for a banned or deleted user (auth.controller.ts     *)
(* refresh, session-lock.util.ts lockUserForTokenRotation).                *)
THEOREM NeverRenewsBanned == Spec => BannedNeverRenewed
<1>1. Inv => \A r \in Requests : RefreshCommit(r) => account = "active"
  BY DEF Inv, Order, UserLock, UnderTokenLock, RefreshCommit
<1>2. QED BY <1>1, Invariance, PTL DEF BannedNeverRenewed

-----------------------------------------------------------------------------
(* What a revocation that has finished relies on: it has deleted the rows  *)
(* of its sessions (so no access token is signed for them any more), and   *)
(* the markers it wrote stand until every token they revoke has expired.   *)
Cleared ==
    /\ cleared \subseteq ended
    /\ \A r \in Requests : step[r] = "mark" => ends[r] \subseteq ended
    /\ \A a \in access : a.sid \in cleared => a.sid \in marker /\ ~a.late

(* A step that writes no marker, hands out no access token and ends no     *)
(* session keeps Cleared.                                                  *)
LEMMA ClearedStays ==
  ASSUME Cleared,
         access' \subseteq access, UNCHANGED <<marker, cleared>>,
         ended \subseteq ended',
         \A q \in Requests : step'[q] = "mark" =>
             (step[q] = "mark" /\ ends'[q] = ends[q]) \/ ends'[q] \subseteq ended'
  PROVE  Cleared'
BY DEF Cleared

(* An access token signed for a session that no revocation has ended does  *)
(* not disturb Cleared.                                                    *)
LEMMA SignKeepsCleared ==
  ASSUME Cleared, NEW s, NEW i, s \notin ended, Sign(s, i),
         UNCHANGED <<marker, cleared, ended>>,
         \A q \in Requests : step'[q] = "mark" => step[q] = "mark" /\ ends'[q] = ends[q]
  PROVE  Cleared'
<1>1. s \notin cleared
  BY DEF Cleared
<1>2. \A a \in access' : a \in access \/ a.sid = s
  BY DEF Sign
<1>3. QED BY <1>1, <1>2 DEF Cleared

(* Every step keeps Cleared.                                               *)
LEMMA ClearedStep ==
  ASSUME Inv, Cleared, [Next]_vars
  PROVE  Cleared'
<1> USE DEF redis, history, stored, locals, request
<1> DEFINE Quiet ==
        /\ access' \subseteq access /\ UNCHANGED <<marker, cleared>>
        /\ ended \subseteq ended'
        /\ \A q \in Requests : step'[q] = "mark" =>
              (step[q] = "mark" /\ ends'[q] = ends[q]) \/ ends'[q] \subseteq ended'
<1>1. Quiet => Cleared'
  BY ClearedStays
<1>2. RequestTypes /\ row \in [Tokens -> RowStates] /\ access \subseteq AccessTokens
  BY DEF Inv, Typed, TypeOK, StoredTypes
<1>3. \A q \in Requests : step[q] \in Steps
  BY <1>2 DEF RequestTypes
<1>4. ASSUME NEW r \in Requests, Answer(r)
      PROVE  \A q \in Requests : step'[q] = "mark" => step[q] = "mark" /\ ends'[q] = ends[q]
  BY <1>2, <1>4, AnswerEffect DEF SameLocals
<1>5. ASSUME NEW r \in Requests, NEW s \in Steps \ {"mark"}, Goto(r, s)
      PROVE  \A q \in Requests : step'[q] = "mark" => step[q] = "mark" /\ q # r
  BY <1>2, <1>5 DEF Goto, RequestTypes
<1> DEFINE Same(q) == ends'[q] = ends[q]
<1>6. CASE UNCHANGED vars
  BY <1>1, <1>6 DEF vars
<1>7. ASSUME NEW r \in Requests, Login(r) PROVE Cleared'
  <2>1. ASSUME NEW o \in Origins, NEW t \in Tokens, NEW s \in Sessions,
               LoginVerify(r, o, t, s)
        PROVE  Cleared'
    BY <1>1, <1>2, <2>1 DEF LoginVerify, Begin, Goto, RequestTypes
  <2>2. CASE LoginLock(r)
    <3>1. CASE Answer(r)
      BY <1>1, <1>4, <2>2, <3>1 DEF LoginLock
    <3>2. CASE /\ Goto(r, IF SameInstall(r) = {} THEN "store" ELSE "delete")
               /\ ends' = [ends EXCEPT ![r] = SameInstall(r)]
      BY <1>1, <1>2, <2>2, <3>2 DEF LoginLock, Goto, RequestTypes
    <3>3. QED BY <2>2, <3>1, <3>2 DEF LoginLock
  <2>3. CASE LoginDelete(r)
    BY <1>1, <1>2, <2>3 DEF LoginDelete, Goto, RequestTypes
  <2>4. CASE LoginStore(r)
    BY <1>1, <1>2, <2>4 DEF LoginStore, Goto, RequestTypes
  <2>5. CASE LoginCommit(r)
    <3>1. SessionOf(nxt[r]) \notin ended
      BY <2>5 DEF LoginCommit, Inv, Safe, EndedSessions, LoginSteps
    <3>2. \A q \in Requests : step'[q] = "mark" => step[q] = "mark" /\ ends'[q] = ends[q]
      BY <1>2, <1>4, <2>5 DEF LoginCommit, Begin, Goto, RequestTypes
    <3>3. Sign(SessionOf(nxt[r]), signed[r]) /\ UNCHANGED <<marker, cleared, ended>>
      BY <2>5 DEF LoginCommit
    <3>4. QED BY <3>1, <3>2, <3>3, SignKeepsCleared
  <2>6. QED BY <1>7, <2>1, <2>2, <2>3, <2>4, <2>5 DEF Login
<1>8. ASSUME NEW r \in Requests, Refresh(r) PROVE Cleared'
  <2>1. CASE RefreshCommit(r)
    <3>1. row[tok[r]] # "none" /\ tok[r] \in Tokens
      BY <2>1 DEF RefreshCommit, Inv, Order, Pending, PendingOf, HasRotated,
                  HasSuccessor, InGrace, Typed, Known, KnownTo, RefreshSteps, Minted
    <3>2. SessionOf(tok[r]) \notin ended
      BY <3>1 DEF Inv, Safe, EndedSessions
    <3>3. Sign(SessionOf(tok[r]), signed[r]) /\ UNCHANGED <<marker, cleared, ended>>
      BY <2>1 DEF RefreshCommit
    <3>4. \A q \in Requests : step'[q] = "mark" => step[q] = "mark" /\ ends'[q] = ends[q]
      BY <1>4, <2>1 DEF RefreshCommit
    <3>5. QED BY <3>2, <3>3, <3>4, SignKeepsCleared
  <2>2. CASE ~RefreshCommit(r)
    <3>1. UNCHANGED <<access, marker, cleared, ended>>
      BY <1>8, <2>2 DEF Refresh, RefreshVerify, RefreshLockUser, RefreshLockToken,
           GraceHop, RefreshCheck, GraceIssue, Rotate, Purge, PurgeFinish
    <3>2. \A q \in Requests : step'[q] = "mark" => step[q] = "mark" /\ ends'[q] = ends[q]
      <4>1. CASE Answer(r) BY <1>4, <4>1
      <4>2. CASE \E t \in Tokens, o \in Origins : RefreshVerify(r, t, o)
        BY <1>2, <4>2 DEF RefreshVerify, Begin, Goto, RequestTypes
      <4>3. CASE GraceHop(r) /\ ~Answer(r)
        BY <1>2, <4>3 DEF GraceHop, FollowTo, Goto, RequestTypes
      <4>4. CASE RefreshLockToken(r) /\ ~Answer(r)
        BY <1>2, <4>4 DEF RefreshLockToken, Goto, RequestTypes
      <4>5. CASE RefreshLockUser(r) /\ ~Answer(r)
        BY <1>2, <4>5 DEF RefreshLockUser, Goto, RequestTypes
      <4>6. CASE RefreshCheck(r) \/ GraceIssue(r) \/ (\E u \in Tokens : Rotate(r, u)) \/ Purge(r)
        BY <1>2, <4>6 DEF RefreshCheck, GraceIssue, Rotate, Purge, Goto, RequestTypes
      <4>7. QED
        BY <1>8, <2>2, <4>1, <4>2, <4>3, <4>4, <4>5, <4>6 DEF Refresh, PurgeFinish
    <3>3. QED BY <1>1, <3>1, <3>2
  <2>3. QED BY <2>1, <2>2
<1>9. ASSUME NEW r \in Requests, Revoke(r) PROVE Cleared'
  <2>1. CASE EndsSessions(r)
    <3>1. PICK S, T : EndSessions(r, S, T) /\ S \subseteq Sessions
      BY <2>1, RevocationCases DEF Revocation
    <3>2. UNCHANGED <<access, marker, cleared>> /\ ended' = ended \cup S
      BY <3>1 DEF EndSessions
    <3>3. ends'[r] = S /\ \A q \in Requests \ {r} : step'[q] = step[q] /\ ends'[q] = ends[q]
      BY <1>2, <3>1 DEF EndSessions, Begin, Goto, RequestTypes
    <3>4. QED BY <1>1, <3>2, <3>3
  <2>2. CASE MarkRevoked(r)
    <3>1. \A q \in Requests : step'[q] = "mark" => step[q] = "mark" /\ ends'[q] = ends[q]
      BY <1>4, <2>2 DEF MarkRevoked
    <3>2. cleared' \subseteq cleared \cup ends[r] /\ cleared' \subseteq ended /\ ended' = ended
      BY <2>2 DEF MarkRevoked, Cleared
    <3>3. ASSUME NEW a \in access', a.sid \in cleared'
          PROVE  a.sid \in marker' /\ ~a.late
      <4>1. PICK b \in access : a = [b EXCEPT !.late = b.late /\ b.sid \notin ends[r]]
        BY <2>2, <3>3 DEF MarkRevoked
      <4>2. b \in AccessTokens
        BY <1>2
      <4>3. a.sid = b.sid /\ (a.late <=> b.late /\ b.sid \notin ends[r])
        BY <4>1, <4>2 DEF AccessTokens
      <4>4. marker' = marker \cup ends[r]
        BY <2>2 DEF MarkRevoked
      <4>5. CASE b.sid \in ends[r] BY <4>3, <4>4, <4>5
      <4>6. CASE b.sid \notin ends[r] BY <3>2, <3>3, <4>3, <4>4, <4>6 DEF Cleared
      <4>7. QED BY <4>5, <4>6
    <3>4. QED BY <3>1, <3>2, <3>3 DEF Cleared
  <2>3. CASE ResetPassword(r)
    BY <1>1, <1>2, <2>3 DEF ResetPassword, Begin, Goto, RequestTypes
  <2>4. CASE CutoffRead(r)
    BY <1>1, <1>2, <2>4 DEF CutoffRead, Goto, RequestTypes
  <2>5. CASE CutoffWrite(r)
    BY <1>1, <1>4, <2>5 DEF CutoffWrite
  <2>6. QED BY <1>9, <2>1, <2>2, <2>3, <2>4, <2>5 DEF Revoke, EndsSessions
<1>10. ASSUME NEW r \in Requests, Fail(r) PROVE Cleared'
  BY <1>1, <1>4, <1>10 DEF Fail
<1>11. CASE Environment
  <2>1. ASSUME NEW s \in Sessions, MarkerExpires(s) PROVE Cleared'
    BY <2>1 DEF MarkerExpires, LeftWhenMarkerExpires, Cleared
  <2>2. CASE ~\E s \in Sessions : MarkerExpires(s)
    BY <1>1, <1>11, <2>2 DEF Environment, SetBanStatus, DeleteUser, GraceEnds,
                             CleanExpiredToken, CutoffExpires
  <2>3. QED BY <2>1, <2>2
<1>12. QED BY <1>6, <1>7, <1>8, <1>9, <1>10, <1>11 DEF Next

(* When a revocation has finished, no access token of its sessions is      *)
(* accepted any more, however it raced a sign-in or a refresh and whatever *)
(* has expired since (session-revocation.service.ts revokeSessions,        *)
(* token-blacklist.service.ts).                                            *)
THEOREM RevokedAccessStaysRejected == Spec => []RevokedAccessRejected
<1>1. Init => Inv /\ Cleared
  BY InitInv DEF Init, Cleared
<1>2. Inv /\ Cleared /\ [Next]_vars => (Inv /\ Cleared)'
  BY InvStep, ClearedStep
<1>3. Inv /\ Cleared => RevokedAccessRejected
  BY DEF Cleared, RevokedAccessRejected, Accepted, IsRevoked
<1>4. QED BY <1>1, <1>2, <1>3, PTL DEF Spec

-----------------------------------------------------------------------------
(* A session that was opened has a token, so no sign-in takes its id       *)
(* again; a sign-in's own session is not opened before its commit.         *)
OpenedOnce ==
    /\ \A s \in Sessions : opened[s] # 0 => \E t \in Tokens : SessionOf(t) = s
    /\ \A r \in Requests : step[r] \in LoginSteps => opened[SessionOf(nxt[r])] = 0

(* A step that opens no session keeps OpenedOnce, if it only mints tokens  *)
(* and no request starts a sign-in.                                        *)
LEMMA OpenedStays ==
  ASSUME Inv, OpenedOnce, opened' = opened,
         \A t \in Tokens : SessionOf(t) # None => token'[t] = token[t],
         \A q \in Requests : step'[q] \in LoginSteps =>
             step[q] \in LoginSteps /\ nxt'[q] = nxt[q]
  PROVE  OpenedOnce'
<1>1. \A s \in Sessions : opened'[s] # 0 => \E t \in Tokens : SessionOf(t)' = s
  BY NoneAssumption DEF OpenedOnce, SessionOf
<1>2. ASSUME NEW q \in Requests, step'[q] \in LoginSteps
      PROVE  opened'[SessionOf(nxt[q])'] = 0
  <2>1. step[q] \in LoginSteps /\ nxt'[q] = nxt[q]
    BY <1>2
  <2>2. nxt[q] \in Tokens /\ SessionOf(nxt[q]) \in Sessions
    BY <2>1 DEF Inv, Typed, Known, KnownTo, Minted
  <2>3. QED BY <2>1, <2>2, NoneAssumption DEF OpenedOnce, SessionOf
<1>3. QED BY <1>1, <1>2 DEF OpenedOnce, LoginSteps

(* The steps that neither sign in nor commit a sign-in: they open no       *)
(* session, and change no token that was minted.                           *)
LEMMA OtherSteps ==
  ASSUME Inv, [Next]_vars,
         ~\E r \in Requests : LoginCommit(r) \/
             \E o \in Origins, t \in Tokens, s \in Sessions : LoginVerify(r, o, t, s)
  PROVE  /\ opened' = opened
         /\ \A t \in Tokens : SessionOf(t) # None => token'[t] = token[t]
         /\ \A q \in Requests : step'[q] \in LoginSteps =>
               step[q] \in LoginSteps /\ nxt'[q] = nxt[q]
<1> USE DEF redis, history, stored, locals, request
<1> DEFINE NoSignIn == \A q \in Requests : step'[q] \in LoginSteps =>
               step[q] \in LoginSteps /\ nxt'[q] = nxt[q]
           Kept == \A t \in Tokens : SessionOf(t) # None => token'[t] = token[t]
           G == opened' = opened /\ Kept /\ NoSignIn
<1>1. RequestTypes /\ token \in [Tokens -> TokenData]
  BY DEF Inv, Typed, TypeOK, StoredTypes
<1>2. ASSUME NEW r \in Requests, Answer(r) PROVE NoSignIn
  BY <1>1, <1>2, AnswerEffect DEF SameLocals, LoginSteps
<1>3. CASE UNCHANGED vars
  BY <1>3 DEF vars
<1>4. ASSUME NEW r \in Requests, LoginLock(r) \/ LoginDelete(r) \/ LoginStore(r) PROVE G
  <2>1. UNCHANGED stored BY <1>4 DEF LoginLock, LoginDelete, LoginStore
  <2>2. CASE LoginLock(r) /\ ~Answer(r)
    BY <1>1, <2>2 DEF LoginLock, Goto, RequestTypes, LoginSteps
  <2>3. CASE LoginDelete(r) \/ LoginStore(r)
    BY <1>1, <2>3 DEF LoginDelete, LoginStore, Goto, RequestTypes, LoginSteps
  <2>4. QED BY <1>2, <1>4, <2>1, <2>2, <2>3
<1>5. ASSUME NEW r \in Requests, Refresh(r) PROVE G
  <2>1. CASE \E u \in Tokens : Rotate(r, u)
    BY <1>1, <2>1 DEF Rotate, Goto, RequestTypes, LoginSteps, Fresh, Unminted, SessionOf
  <2>2. CASE ~\E u \in Tokens : Rotate(r, u)
    <3>1. UNCHANGED <<token, opened>>
      BY <1>5, <2>2 DEF Refresh, RefreshVerify, RefreshLockUser, RefreshLockToken,
           GraceHop, RefreshCheck, GraceIssue, Purge, PurgeFinish, RefreshCommit
    <3>2. NoSignIn
      <4>1. CASE Answer(r) BY <1>2, <4>1
      <4>2. CASE \E t \in Tokens, o \in Origins : RefreshVerify(r, t, o)
        BY <1>1, <4>2 DEF RefreshVerify, Begin, Goto, RequestTypes, LoginSteps
      <4>3. CASE GraceHop(r) /\ ~Answer(r)
        BY <1>1, <4>3 DEF GraceHop, FollowTo, Goto, RequestTypes, LoginSteps
      <4>4. CASE RefreshLockToken(r) /\ ~Answer(r)
        BY <1>1, <4>4 DEF RefreshLockToken, Goto, RequestTypes, LoginSteps
      <4>5. CASE RefreshLockUser(r) /\ ~Answer(r)
        BY <1>1, <4>5 DEF RefreshLockUser, Goto, RequestTypes, LoginSteps
      <4>6. CASE RefreshCheck(r) \/ GraceIssue(r) \/ Purge(r)
        BY <1>1, <4>6 DEF RefreshCheck, GraceIssue, Purge, Goto, RequestTypes, LoginSteps
      <4>7. QED
        BY <1>5, <2>2, <4>1, <4>2, <4>3, <4>4, <4>5, <4>6
        DEF Refresh, PurgeFinish, RefreshCommit
    <3>3. QED BY <3>1, <3>2
  <2>3. QED BY <2>1, <2>2
<1>6. ASSUME NEW r \in Requests, Revoke(r) PROVE G
  <2>1. CASE EndsSessions(r)
    <3>1. PICK S, T : EndSessions(r, S, T)
      BY <2>1, RevocationCases DEF Revocation
    <3>2. QED BY <1>1, <3>1 DEF EndSessions, Begin, Goto, RequestTypes, LoginSteps
  <2>2. CASE MarkRevoked(r)
    BY <1>2, <2>2 DEF MarkRevoked
  <2>3. CASE ResetPassword(r)
    BY <1>1, <2>3 DEF ResetPassword, Begin, Goto, RequestTypes, LoginSteps
  <2>4. CASE CutoffRead(r)
    BY <1>1, <2>4 DEF CutoffRead, Goto, RequestTypes, LoginSteps
  <2>5. CASE CutoffWrite(r)
    BY <1>2, <2>5 DEF CutoffWrite
  <2>6. QED BY <1>6, <2>1, <2>2, <2>3, <2>4, <2>5 DEF Revoke, EndsSessions
<1>7. ASSUME NEW r \in Requests, Fail(r) PROVE G
  BY <1>2, <1>7 DEF Fail
<1>8. CASE Environment
  BY <1>8 DEF Environment, SetBanStatus, DeleteUser, GraceEnds,
              CleanExpiredToken, CutoffExpires, MarkerExpires
<1>9. QED BY <1>3, <1>4, <1>5, <1>6, <1>7, <1>8 DEF Next, Login

(* A sign-in signs for a session that nobody has opened, and opens it.     *)
LEMMA OpenedStep ==
  ASSUME Inv, OpenedOnce, [Next]_vars
  PROVE  OpenedOnce'
<1> USE DEF history, stored
<1>1. /\ RequestTypes /\ token \in [Tokens -> TokenData]
      /\ opened \in [Sessions -> Nat] /\ pw \in [Requests -> Nat]
  BY DEF Inv, Typed, TypeOK, StoredTypes, RequestTypes
<1>2. \A q \in Requests : step[q] \in LoginSteps =>
          nxt[q] \in Tokens /\ SessionOf(nxt[q]) \in Sessions
  BY DEF Inv, Typed, Known, KnownTo, Minted
<1>3. ASSUME NEW r \in Requests, LoginCommit(r) PROVE OpenedOnce'
  <2> DEFINE s == SessionOf(nxt[r])
  <2>1. /\ token' = token /\ opened' = [opened EXCEPT ![s] = pw[r]]
        /\ step[r] \in LoginSteps /\ nxt[r] \in Tokens /\ s \in Sessions
    BY <1>2, <1>3 DEF LoginCommit, LoginSteps
  <2>2. /\ step'[r] \notin LoginSteps
        /\ \A q \in Requests \ {r} : step'[q] = step[q] /\ nxt'[q] = nxt[q]
    BY <1>1, <1>3, AnswerEffect DEF LoginCommit, Begin, Goto, RequestTypes, LoginSteps, SameLocals
  <2>3. ASSUME NEW e \in Sessions, opened'[e] # 0
        PROVE  \E t \in Tokens : SessionOf(t)' = e
    BY <1>1, <2>1, <2>3 DEF OpenedOnce, SessionOf
  <2>4. ASSUME NEW q \in Requests, step'[q] \in LoginSteps
        PROVE  opened'[SessionOf(nxt[q])'] = 0
    <3>1. q # r /\ step[q] \in LoginSteps /\ nxt'[q] = nxt[q]
      BY <2>2, <2>4
    <3>2. nxt[q] # nxt[r]
      BY <2>1, <3>1 DEF Inv, Order, Locks
    <3>3. SessionOf(nxt[q]) # s
      BY <1>2, <2>1, <3>1, <3>2 DEF Inv, Order, Pending, PendingOf, Private
    <3>4. opened[SessionOf(nxt[q])] = 0
      BY <3>1 DEF OpenedOnce
    <3>5. QED BY <1>1, <1>2, <2>1, <3>1, <3>3, <3>4 DEF SessionOf
  <2>5. QED BY <2>3, <2>4 DEF OpenedOnce
<1>4. ASSUME NEW r \in Requests, NEW o \in Origins, NEW t \in Tokens, NEW s \in Sessions,
             LoginVerify(r, o, t, s)
      PROVE OpenedOnce'
  <2>1. /\ Fresh(t) /\ FreshSession(s) /\ opened' = opened
        /\ token' = [token EXCEPT ![t] =
              [iat |-> clock, sid |-> s, origin |-> o, device |-> DeviceOf[o]]]
    BY <1>4 DEF LoginVerify
  <2>2. /\ nxt'[r] = t
        /\ \A q \in Requests \ {r} : step'[q] = step[q] /\ nxt'[q] = nxt[q]
    BY <1>1, <1>4 DEF LoginVerify, Begin, Goto, RequestTypes
  <2>3. SessionOf(t) = None /\ SessionOf(t)' = s
        /\ \A u \in Tokens \ {t} : SessionOf(u)' = SessionOf(u)
    BY <1>1, <2>1 DEF Fresh, Unminted, SessionOf
  <2>4. opened[s] = 0
    BY <2>1 DEF OpenedOnce, FreshSession
  <2>5. \A e \in Sessions : opened'[e] # 0 => \E u \in Tokens : SessionOf(u)' = e
    BY <2>1, <2>3, NoneAssumption DEF OpenedOnce
  <2>6. ASSUME NEW q \in Requests, step'[q] \in LoginSteps
        PROVE  opened'[SessionOf(nxt[q])'] = 0
    <3>1. CASE q = r BY <2>1, <2>2, <2>3, <2>4, <3>1 DEF SessionOf
    <3>2. CASE q # r
      <4>1. step[q] \in LoginSteps /\ nxt'[q] = nxt[q]
        BY <2>2, <2>6, <3>2
      <4>2. nxt[q] # t
        BY <1>2, <2>3, <4>1, NoneAssumption
      <4>3. QED BY <1>2, <2>1, <2>3, <4>1, <4>2 DEF OpenedOnce, SessionOf
    <3>3. QED BY <3>1, <3>2
  <2>7. QED BY <2>5, <2>6 DEF OpenedOnce
<1>5. QED BY <1>3, <1>4, OtherSteps, OpenedStays

-----------------------------------------------------------------------------
(* The refinement.  A session's live row, if it has one, is the only one,  *)
(* so a step shows in the contract by what it does to the live rows.       *)

(* The current token of an open session is its live row.                   *)
LEMMA CurrentIsLive ==
  ASSUME OneLiveToken, NEW s \in Sessions, NEW t \in LiveRows(s)
  PROVE  LiveRows(s) = {t} /\ CurrentOf(s) = t /\ StatusOf(s) = "open"
<1>1. LiveRows(s) = {t}
  BY DEF LiveRows, OneLiveToken
<1>2. QED BY <1>1 DEF CurrentOf, StatusOf

(* A session without a live row has no current token.                      *)
LEMMA NoneIsCurrent ==
  ASSUME NEW s \in Sessions, LiveRows(s) = {}
  PROVE  CurrentOf(s) = None /\ StatusOf(s) = (IF opened[s] = 0 THEN "new" ELSE "ended")
BY DEF CurrentOf, StatusOf

(* A session whose live rows and opening stay as they are shows nothing.   *)
LEMMA SameRows ==
  ASSUME NEW s \in Sessions, LiveRows(s)' = LiveRows(s), opened'[s] = opened[s]
  PROVE  StatusOf(s)' = StatusOf(s) /\ CurrentOf(s)' = CurrentOf(s)
BY DEF StatusOf, CurrentOf

(* A token that has no live row is nobody's current token.                 *)
LEMMA NotCurrent ==
  ASSUME OneLiveToken, NEW t \in Tokens, row[t] # "live"
  PROVE  \A s \in Sessions : CurrentOf(s) # t
<1> TAKE s \in Sessions
<1>1. CASE LiveRows(s) = {} BY <1>1, NoneIsCurrent, NoneAssumption
<1>2. CASE LiveRows(s) # {}
  <2>1. PICK u \in LiveRows(s) : TRUE BY <1>2
  <2>2. CurrentOf(s) = u BY <2>1, CurrentIsLive
  <2>3. u # t BY <2>1 DEF LiveRows
  <2>4. QED BY <2>2, <2>3
<1>3. QED BY <1>1, <1>2

(* A step that only takes live rows away ends sessions, or shows nothing.  *)
LEMMA EndsOrStutters ==
  ASSUME Inv, Inv', opened' = opened,
         \A s \in Sessions : LiveRows(s)' \subseteq LiveRows(s)
  PROVE  [Contract!Next]_(Contract!vars)
<1> DEFINE Lost == {s \in Sessions : LiveRows(s) # {} /\ LiveRows(s)' = {}}
<1>1. ASSUME NEW s \in Sessions, s \notin Lost
      PROVE  StatusOf(s)' = StatusOf(s) /\ CurrentOf(s)' = CurrentOf(s)
  <2>1. CASE LiveRows(s) = {} BY <2>1, SameRows
  <2>2. CASE LiveRows(s) # {}
    <3>1. PICK t : t \in LiveRows(s)' BY <1>1, <2>2
    <3>2. LiveRows(s) = {t} BY <3>1, CurrentIsLive DEF Inv, Safe
    <3>3. LiveRows(s)' = LiveRows(s) BY <3>1, <3>2
    <3>4. QED BY <3>3, SameRows
  <2>3. QED BY <2>1, <2>2
<1>2. ASSUME NEW s \in Lost
      PROVE  StatusOf(s) = "open" /\ StatusOf(s)' = "ended" /\ CurrentOf(s)' = None
  <2>1. PICK t \in Tokens : t \in LiveRows(s) BY DEF LiveRows
  <2>2. opened[s] # 0
    BY <2>1 DEF LiveRows, Inv, Safe, RowsOfCurrentPassword, Typed, TypeOK, StoredTypes
  <2>3. LiveRows(s)' = {} /\ s \in Sessions OBVIOUS
  <2>4. QED BY <2>1, <2>2, <2>3 DEF StatusOf, CurrentOf
<1>3. CASE Lost = {}
  BY <1>1, <1>3 DEF Contract!vars
<1>4. CASE Lost # {}
  <2> HIDE DEF Lost
  <2>1. Lost \in (SUBSET Contract!OpenSessions) \ {{}}
    <3>1. Lost \subseteq Sessions BY DEF Lost
    <3>2. Lost \subseteq Contract!OpenSessions BY <1>2, <3>1 DEF Contract!OpenSessions
    <3>3. QED BY <1>4, <3>2
  <2>2. [s \in Sessions |-> StatusOf(s)]' =
            Contract!Ended(Lost, [s \in Sessions |-> StatusOf(s)], "ended")
    BY <1>1, <1>2 DEF Contract!Ended
  <2>3. [s \in Sessions |-> CurrentOf(s)]' =
            Contract!Ended(Lost, [s \in Sessions |-> CurrentOf(s)], None)
    BY <1>1, <1>2 DEF Contract!Ended
  <2>4. [s \in Sessions |-> StatusOf(s)]' # [s \in Sessions |-> StatusOf(s)]
    <3>1. PICK s \in Lost : TRUE BY <1>4
    <3>2. s \in Sessions BY DEF Lost
    <3>3. [e \in Sessions |-> StatusOf(e)][s] = "open"
          /\ [e \in Sessions |-> StatusOf(e)]'[s] = "ended"
      BY <1>2, <3>2
    <3>4. QED BY <3>3
  <2>5. Contract!End BY <2>1, <2>2, <2>3, <2>4 DEF Contract!End
  <2>6. QED BY <2>5 DEF Contract!Next
<1>5. QED BY <1>3, <1>4

(* A sign-in that commits opens its session, and ends those it replaced.   *)
LEMMA CommitOpens ==
  ASSUME Inv, Inv', OpenedOnce, NEW r \in Requests, LoginCommit(r)
  PROVE  Contract!Next
<1>0. PICK t \in Tokens, s \in Sessions : t = nxt[r] /\ s = SessionOf(t)
  BY DEF LoginCommit, Inv, Typed, Known, KnownTo, Minted, LoginSteps
<1> DEFINE Lost == {e \in Sessions \ {s} : LiveRows(e) # {} /\ LiveRows(e)' = {}}
<1>1. /\ row[t] = "none" /\ opened[s] = 0
      /\ \A u \in Tokens : SessionOf(u) = s => u = t
      /\ pw[r] # 0 /\ opened \in [Sessions -> Nat] /\ row \in [Tokens -> RowStates]
  BY <1>0 DEF LoginCommit, Inv, Typed, TypeOK, StoredTypes, Known, KnownTo, Minted,
         LoginSteps, Order, Pending, PendingOf, Private, UserLock, OpenedOnce
<1>2. /\ token' = token /\ opened' = [opened EXCEPT ![s] = pw[r]]
      /\ row'[t] = "live" /\ \A u \in Tokens \ {t} : row'[u] \in {row[u], "none"}
  BY <1>0, <1>1 DEF LoginCommit
<1>3. LiveRows(s) = {} /\ LiveRows(s)' = {t}
  BY <1>0, <1>1, <1>2 DEF LiveRows, SessionOf
<1>4. \A e \in Sessions \ {s} : LiveRows(e)' \subseteq LiveRows(e)
  BY <1>0, <1>1, <1>2 DEF LiveRows, SessionOf
<1>5. /\ StatusOf(s) = "new" /\ CurrentOf(s) = None
      /\ StatusOf(s)' = "open" /\ CurrentOf(s)' = t
  BY <1>1, <1>3 DEF StatusOf, CurrentOf
<1>6. ASSUME NEW e \in Sessions \ {s}, e \notin Lost
      PROVE  StatusOf(e)' = StatusOf(e) /\ CurrentOf(e)' = CurrentOf(e)
  <2>1. opened'[e] = opened[e] BY <1>1, <1>2
  <2>2. CASE LiveRows(e) = {} BY <1>4, <2>1, <2>2, SameRows
  <2>3. CASE LiveRows(e) # {}
    <3>1. PICK u : u \in LiveRows(e)' BY <1>6, <2>3
    <3>2. LiveRows(e) = {u} BY <1>4, <3>1, CurrentIsLive DEF Inv, Safe
    <3>3. LiveRows(e)' = LiveRows(e) BY <1>4, <3>1, <3>2
    <3>4. QED BY <2>1, <3>3, SameRows
  <2>4. QED BY <2>2, <2>3
<1>7. ASSUME NEW e \in Lost
      PROVE  StatusOf(e) = "open" /\ StatusOf(e)' = "ended" /\ CurrentOf(e)' = None
  <2>1. PICK u \in Tokens : u \in LiveRows(e) BY DEF LiveRows
  <2>2. opened[e] # 0
    BY <2>1 DEF LiveRows, Inv, Safe, RowsOfCurrentPassword, Typed, TypeOK, StoredTypes
  <2>3. LiveRows(e)' = {} /\ e \in Sessions \ {s} /\ opened'[e] = opened[e]
    BY <1>1, <1>2
  <2>4. QED BY <2>1, <2>2, <2>3 DEF StatusOf, CurrentOf
<1> HIDE DEF Lost
<1>8. Lost \subseteq Contract!OpenSessions
  <2>1. Lost \subseteq Sessions BY DEF Lost
  <2>2. QED BY <1>7, <2>1 DEF Contract!OpenSessions
<1>9. Contract!Unused(t)
  <2>1. \A e \in Sessions : CurrentOf(e) # t
    BY <1>1, NotCurrent DEF Inv, Safe
  <2>2. QED BY <2>1 DEF Contract!Unused
<1>10. s \notin Lost BY DEF Lost
<1>11. [e \in Sessions |-> StatusOf(e)]' =
          [Contract!Ended(Lost, [e \in Sessions |-> StatusOf(e)], "ended") EXCEPT ![s] = "open"]
  BY <1>1, <1>5, <1>6, <1>7 DEF Contract!Ended
<1>12. [e \in Sessions |-> CurrentOf(e)]' =
          [Contract!Ended(Lost, [e \in Sessions |-> CurrentOf(e)], None) EXCEPT ![s] = t]
  BY <1>1, <1>5, <1>6, <1>7 DEF Contract!Ended
<1>13. Contract!Open(s)
  <2>1. [e \in Sessions |-> StatusOf(e)][s] = "new" /\ [e \in Sessions |-> StatusOf(e)]'[s] = "open"
    BY <1>1, <1>5
  <2>2. QED BY <1>1, <1>8, <1>9, <1>11, <1>12, <2>1 DEF Contract!Open
<1>14. QED BY <1>1, <1>13 DEF Contract!Next

(* A rotation that commits renews its session; a grace refresh leaves the  *)
(* rows as they are.                                                       *)
LEMMA CommitRenews ==
  ASSUME Inv, Inv', NEW r \in Requests, RefreshCommit(r)
  PROVE  [Contract!Next]_(Contract!vars)
<1>0. PICK t \in Tokens, u \in Tokens, s \in Sessions :
          t = tok[r] /\ u = nxt[r] /\ s = SessionOf(t)
  BY DEF RefreshCommit, Inv, Typed, Known, KnownTo, Minted, RefreshSteps
<1>1. /\ SessionOf(u) = s
      /\ row \in [Tokens -> RowStates]
      /\ HasRotated(r) \/ HasSuccessor(r)
  BY <1>0 DEF RefreshCommit, Inv, Typed, TypeOK, StoredTypes, Order, Pending, PendingOf,
              HasRotated, HasSuccessor, InGrace
<1>2. token' = token /\ opened' = opened
  BY DEF RefreshCommit, history
<1>3. CASE HasSuccessor(r)
  <2>1. row' = row BY <1>3 DEF RefreshCommit, Rotating, HasSuccessor
  <2>2. \A e \in Sessions : LiveRows(e)' = LiveRows(e)
    BY <1>2, <2>1 DEF LiveRows, SessionOf
  <2>3. QED BY <1>2, <2>2, EndsOrStutters
<1>4. CASE HasRotated(r)
  <2>1. row[t] = "live" /\ row[u] = "none"
        /\ row' = [row EXCEPT ![t] = "consumed", ![u] = "live"]
    BY <1>0, <1>4 DEF HasRotated, RefreshCommit, Rotating
  <2>2. LiveRows(s) = {t} /\ CurrentOf(s) = t /\ StatusOf(s) = "open"
    <3>1. t \in LiveRows(s) BY <1>0, <2>1 DEF LiveRows
    <3>2. QED BY <1>1, <3>1, CurrentIsLive DEF Inv, Safe
  <2>3. LiveRows(s)' = {u}
    BY <1>0, <1>1, <1>2, <2>1, <2>2 DEF LiveRows, SessionOf
  <2>4. StatusOf(s)' = "open" /\ CurrentOf(s)' = u
    BY <2>3 DEF StatusOf, CurrentOf
  <2>5. ASSUME NEW e \in Sessions \ {s}
        PROVE  StatusOf(e)' = StatusOf(e) /\ CurrentOf(e)' = CurrentOf(e)
    <3>1. LiveRows(e)' = LiveRows(e)
      BY <1>0, <1>1, <1>2, <2>1 DEF LiveRows, SessionOf
    <3>2. QED BY <1>2, <3>1, SameRows
  <2>6. Contract!Unused(u)
    <3>1. \A e \in Sessions : CurrentOf(e) # u
      BY <1>1, <2>1, NotCurrent DEF Inv, Safe
    <3>2. QED BY <3>1 DEF Contract!Unused
  <2>7. [e \in Sessions |-> StatusOf(e)]' = [e \in Sessions |-> StatusOf(e)]
    BY <1>1, <2>2, <2>4, <2>5
  <2>8. [e \in Sessions |-> CurrentOf(e)]' =
            [[e \in Sessions |-> CurrentOf(e)] EXCEPT ![s] = u]
    BY <1>1, <2>4, <2>5
  <2>9. Contract!Renew(s)
    <3>1. [e \in Sessions |-> StatusOf(e)][s] = "open"
      BY <1>1, <2>2
    <3>2. [e \in Sessions |-> CurrentOf(e)]'[s] # [e \in Sessions |-> CurrentOf(e)][s]
      BY <1>1, <2>1, <2>2, <2>4
    <3>3. QED BY <1>1, <2>6, <2>7, <2>8, <3>1, <3>2 DEF Contract!Renew
  <2>10. QED BY <1>1, <2>9 DEF Contract!Next
<1>5. QED BY <1>1, <1>3, <1>4

(* Every other step creates no live row: it mints a token without one,     *)
(* ages rows, deletes rows, or leaves them alone.                          *)
LEMMA NoNewLiveRow ==
  ASSUME Inv, [Next]_vars, ~\E r \in Requests : LoginCommit(r) \/ RefreshCommit(r)
  PROVE  opened' = opened /\ \A s \in Sessions : LiveRows(s)' \subseteq LiveRows(s)
<1> USE DEF redis, history, stored, locals, request
<1>1. token \in [Tokens -> TokenData] /\ row \in [Tokens -> RowStates]
      /\ \A t \in Tokens : row[t] # "none" => SessionOf(t) # None
  BY NoneAssumption DEF Inv, Typed, TypeOK, StoredTypes, Known, Minted
<1> DEFINE Less == /\ \A t \in Tokens : row'[t] = "live" => row[t] = "live"
                   /\ \A t \in Tokens : row[t] # "none" => token'[t] = token[t]
                   /\ opened' = opened
<1>2. Less => opened' = opened /\ \A s \in Sessions : LiveRows(s)' \subseteq LiveRows(s)
  BY DEF LiveRows, SessionOf
<1>3. CASE UNCHANGED vars
  BY <1>2, <1>3 DEF vars
<1>4. ASSUME NEW r \in Requests, Login(r) PROVE Less
  <2>1. ASSUME NEW o \in Origins, NEW t \in Tokens, NEW s \in Sessions,
               LoginVerify(r, o, t, s)
        PROVE  Less
    BY <1>1, <2>1 DEF LoginVerify, Fresh, Unminted, SessionOf
  <2>2. CASE LoginLock(r) \/ LoginDelete(r) \/ LoginStore(r)
    BY <2>2 DEF LoginLock, LoginDelete, LoginStore
  <2>3. QED BY <1>4, <2>1, <2>2 DEF Login
<1>5. ASSUME NEW r \in Requests, Refresh(r) PROVE Less
  <2>1. ASSUME NEW u \in Tokens, Rotate(r, u) PROVE Less
    BY <1>1, <2>1 DEF Rotate, Fresh, Unminted, SessionOf
  <2>2. CASE PurgeFinish(r)
    BY <2>2 DEF PurgeFinish, Delete
  <2>3. CASE ~PurgeFinish(r) /\ ~\E u \in Tokens : Rotate(r, u)
    BY <1>5, <2>3 DEF Refresh, RefreshVerify, RefreshLockUser, RefreshLockToken,
           GraceHop, RefreshCheck, GraceIssue, Purge
  <2>4. QED BY <2>1, <2>2, <2>3
<1>6. ASSUME NEW r \in Requests, Revoke(r) PROVE Less
  <2>1. CASE EndsSessions(r)
    <3>1. PICK S, T : EndSessions(r, S, T)
      BY <2>1, RevocationCases DEF Revocation
    <3>2. QED BY <3>1 DEF EndSessions, Delete
  <2>2. CASE ~EndsSessions(r)
    BY <1>6, <2>2 DEF Revoke, EndsSessions, MarkRevoked, ResetPassword, CutoffRead,
                      CutoffWrite, Delete
  <2>3. QED BY <2>1, <2>2
<1>7. ASSUME NEW r \in Requests, Fail(r) PROVE Less
  BY <1>7 DEF Fail
<1>8. ASSUME Environment PROVE Less
  <2>1. CASE DeleteUser
    BY <2>1 DEF DeleteUser, Delete
  <2>2. ASSUME NEW t \in Tokens, GraceEnds(t) PROVE Less
    BY <1>1, <2>2 DEF GraceEnds
  <2>3. ASSUME NEW t \in Tokens, CleanExpiredToken(t) PROVE Less
    BY <2>3 DEF CleanExpiredToken, Delete
  <2>4. ASSUME NEW b \in BOOLEAN, SetBanStatus(b) PROVE Less
    BY <2>4 DEF SetBanStatus
  <2>5. CASE CutoffExpires \/ \E s \in Sessions : MarkerExpires(s)
    BY <2>5 DEF CutoffExpires, MarkerExpires
  <2>6. QED
    <3> HIDE DEF Less
    <3>1. QED BY <1>8, <2>1, <2>2, <2>3, <2>4, <2>5 DEF Environment
<1>9. QED BY <1>2, <1>3, <1>4, <1>5, <1>6, <1>7, <1>8 DEF Next

(* The token tables implement SessionContract, whatever requests, tokens   *)
(* and clients there are: each step opens a session, renews one, ends some *)
(* or shows nothing (auth.service.ts, session-lock.util.ts).               *)
THEOREM ImplementsSessions == Spec => ImplementsContract
<1>1. Init => Inv /\ OpenedOnce
  BY InitInv DEF Init, OpenedOnce, LoginSteps
<1>2. Inv /\ OpenedOnce /\ [Next]_vars => (Inv /\ OpenedOnce)'
  BY InvStep, OpenedStep
<1>3. Init => Contract!Init
  <2> SUFFICES ASSUME Init PROVE Contract!Init
    OBVIOUS
  <2>1. \A s \in Sessions : LiveRows(s) = {} /\ opened[s] = 0
    BY DEF Init, LiveRows
  <2>2. QED BY <2>1 DEF Contract!Init, StatusOf, CurrentOf
<1>4. Inv /\ OpenedOnce /\ Inv' /\ [Next]_vars => [Contract!Next]_(Contract!vars)
  <2> SUFFICES ASSUME Inv, OpenedOnce, Inv', [Next]_vars
               PROVE  [Contract!Next]_(Contract!vars)
    OBVIOUS
  <2>1. CASE \E r \in Requests : LoginCommit(r) BY <2>1, CommitOpens
  <2>2. CASE \E r \in Requests : RefreshCommit(r) BY <2>2, CommitRenews
  <2>3. CASE ~\E r \in Requests : LoginCommit(r) \/ RefreshCommit(r)
    BY <2>3, NoNewLiveRow, EndsOrStutters
  <2>4. QED BY <2>1, <2>2, <2>3
<1>5. QED BY <1>1, <1>2, <1>3, <1>4, PTL DEF Spec, ImplementsContract, Contract!Spec

-----------------------------------------------------------------------------
(* What a password reset relies on.  Whatever is signed for a session is   *)
(* signed with the password the account has then, so at the instant a      *)
(* reset reads for its cutoff every access token of an earlier password    *)
(* has been signed.  With more than one reset the last line fails: an      *)
(* earlier reset may write its smaller cutoff last (run SessionTwoResets). *)
Signed ==
    /\ \A a \in access : a.iat <= clock /\ opened[a.sid] # 0
    /\ \A r \in Requests :
          step[r] \in {"loginCommit", "refreshCommit"} => signed[r] <= clock

CutoffCovers(r) ==
    /\ pw[r] \in 2 .. pwd
    /\ step[r] = "cutoffWrite" =>
          \A a \in access : opened[a.sid] < pw[r] => a.iat <= signed[r]

Resets ==
    /\ Signed
    /\ \A r \in Requests : step[r] \in {"cutoffRead", "cutoffWrite"} => CutoffCovers(r)
    /\ resetDone <= pwd /\ pwd <= MaxResets + 1
    /\ MaxResets <= 1 =>
          \A a \in access : opened[a.sid] < resetDone => a.iat <= cutoff

(* A step that signs nothing and neither reads nor writes a cutoff.        *)
LEMMA ResetsStay ==
  ASSUME Resets, NEW r \in Requests,
         UNCHANGED <<pwd, opened, cutoff, resetDone, clock>>,
         \A a \in access' : \E b \in access : a.sid = b.sid /\ a.iat = b.iat,
         step'[r] \notin {"cutoffRead", "cutoffWrite"},
         step'[r] \in {"loginCommit", "refreshCommit"} => signed'[r] <= clock,
         \A q \in Requests \ {r} : step'[q] = step[q] /\ pw'[q] = pw[q] /\ signed'[q] = signed[q]
  PROVE  Resets'
<1>1. Signed'
  BY DEF Resets, Signed
<1>2. \A q \in Requests : step'[q] \in {"cutoffRead", "cutoffWrite"} => CutoffCovers(q)'
  BY DEF Resets, CutoffCovers
<1>3. QED BY <1>1, <1>2 DEF Resets

(* The request that acts is the only one whose local variables change.     *)
OnlyOf(r) ==
    \A q \in Requests \ {r} :
        step'[q] = step[q] /\ pw'[q] = pw[q] /\ signed'[q] = signed[q]

LEMMA AnswerOnlyOf ==
  ASSUME RequestTypes, NEW r \in Requests, Answer(r)
  PROVE  OnlyOf(r) /\ step'[r] = "idle"
BY DEF Answer, Begin, Goto, RequestTypes, OnlyOf

(* An access token signed for the current password disturbs nothing.       *)
LEMMA SignKeepsResets ==
  ASSUME Resets, NEW r \in Requests, NEW s \in Sessions, Sign(s, signed[r]),
         step[r] \in {"loginCommit", "refreshCommit"},
         pwd \in Nat \ {0}, resetDone \in Nat, pw \in [Requests -> Nat],
         opened'[s] = pwd,
         \A a \in access : opened'[a.sid] = opened[a.sid],
         UNCHANGED <<pwd, cutoff, resetDone, clock>>,
         OnlyOf(r), step'[r] \in {"idle", "replace"}
  PROVE  Resets'
<1>1. ASSUME NEW a \in access'
      PROVE  \/ a \in access /\ opened'[a.sid] = opened[a.sid]
             \/ a.sid = s /\ a.iat = signed[r] /\ opened'[a.sid] = pwd
  BY DEF Sign
<1>2. signed[r] <= clock
  BY DEF Resets, Signed
<1>3. Signed'
  BY <1>1, <1>2 DEF Resets, Signed, OnlyOf
<1>4. ASSUME NEW q \in Requests, step'[q] \in {"cutoffRead", "cutoffWrite"}
      PROVE  CutoffCovers(q)'
  <2>1. q # r /\ step'[q] = step[q] /\ pw'[q] = pw[q] /\ signed'[q] = signed[q]
    BY <1>4 DEF OnlyOf
  <2>2. CutoffCovers(q) BY <1>4, <2>1 DEF Resets
  <2>3. QED BY <1>1, <2>1, <2>2 DEF CutoffCovers
<1>5. MaxResets <= 1 => \A a \in access' : opened'[a.sid] < resetDone => a.iat <= cutoff
  BY <1>1 DEF Resets
<1>6. QED BY <1>3, <1>4, <1>5 DEF Resets

LEMMA ResetsStep ==
  ASSUME Inv, OpenedOnce, Resets, [Next]_vars
  PROVE  Resets'
<1> USE DEF redis, history, stored, locals, request
<1>1. /\ RequestTypes /\ row \in [Tokens -> RowStates]
      /\ pwd \in Nat \ {0} /\ resetDone \in Nat /\ clock \in Nat \ {0} /\ cutoff \in Nat
      /\ opened \in [Sessions -> Nat] /\ access \subseteq AccessTokens
      /\ pw \in [Requests -> Nat] /\ signed \in [Requests -> Nat]
  BY DEF Inv, Typed, TypeOK, StoredTypes, RequestTypes
<1>2. CASE UNCHANGED vars
  BY <1>2 DEF vars, Resets, Signed, CutoffCovers
<1>3. ASSUME NEW r \in Requests, Login(r) PROVE Resets'
  <2>1. CASE LoginCommit(r)
    <3>1. PICK s \in Sessions : s = SessionOf(nxt[r])
      BY <2>1 DEF LoginCommit, Inv, Typed, Known, KnownTo, Minted, LoginSteps
    <3>2. /\ opened[s] = 0 /\ pw[r] = pwd /\ opened' = [opened EXCEPT ![s] = pw[r]]
          /\ Sign(s, signed[r]) /\ UNCHANGED <<pwd, cutoff, resetDone, clock>>
      BY <2>1, <3>1 DEF LoginCommit, OpenedOnce, LoginSteps, Inv, Order, UserLock
    <3>3. \A a \in access : a.sid \in Sessions /\ opened'[a.sid] = opened[a.sid]
      BY <1>1, <3>2 DEF AccessTokens, Resets, Signed
    <3>4. OnlyOf(r) /\ step'[r] \in {"idle", "replace"}
      <4>1. CASE Answer(r) BY <1>1, <4>1, AnswerOnlyOf
      <4>2. CASE Begin(r, "replace", None, None, None, 0, ends[r])
        BY <1>1, <4>2 DEF Begin, Goto, RequestTypes, OnlyOf
      <4>3. QED BY <2>1, <4>1, <4>2 DEF LoginCommit
    <3>5. step[r] \in {"loginCommit", "refreshCommit"} BY <2>1 DEF LoginCommit
    <3>6. opened'[s] = pwd BY <1>1, <3>2
    <3>7. QED BY <1>1, <3>2, <3>3, <3>4, <3>5, <3>6, SignKeepsResets
  <2>2. CASE ~LoginCommit(r)
    <3>1. UNCHANGED <<pwd, opened, cutoff, resetDone, clock, access>>
      BY <1>3, <2>2 DEF Login, LoginVerify, LoginLock, LoginDelete, LoginStore
    <3> DEFINE Fine == /\ OnlyOf(r) /\ step'[r] \notin {"cutoffRead", "cutoffWrite"}
                       /\ step'[r] \in {"loginCommit", "refreshCommit"} => signed'[r] <= clock
    <3>2. Fine
      <4>1. CASE Answer(r) BY <1>1, <4>1, AnswerOnlyOf
      <4>2. ASSUME NEW o \in Origins, NEW t \in Tokens, NEW s \in Sessions,
                   LoginVerify(r, o, t, s)
            PROVE  Fine
        BY <1>1, <4>2 DEF LoginVerify, Begin, Goto, RequestTypes, OnlyOf
      <4>3. CASE LoginLock(r) /\ ~Answer(r)
        BY <1>1, <4>3 DEF LoginLock, Goto, RequestTypes, OnlyOf
      <4>4. CASE LoginDelete(r) \/ LoginStore(r)
        BY <1>1, <4>4 DEF LoginDelete, LoginStore, Goto, RequestTypes, OnlyOf
      <4> HIDE DEF Fine
      <4>5. QED BY <1>3, <2>2, <4>1, <4>2, <4>3, <4>4 DEF Login
    <3>3. QED BY <3>1, <3>2, ResetsStay DEF OnlyOf
  <2>3. QED BY <2>1, <2>2
<1>4. ASSUME NEW r \in Requests, Refresh(r) PROVE Resets'
  <2>1. CASE RefreshCommit(r)
    <3>1. PICK s \in Sessions : s = SessionOf(tok[r])
      BY <2>1 DEF RefreshCommit, Inv, Typed, Known, KnownTo, Minted, RefreshSteps
    <3>2. row[tok[r]] # "none" /\ tok[r] \in Tokens
      BY <2>1 DEF RefreshCommit, Inv, Order, Pending, PendingOf, HasRotated,
                  HasSuccessor, InGrace, Typed, Known, KnownTo, RefreshSteps, Minted
    <3>3. opened[s] = pwd
      BY <3>1, <3>2 DEF Inv, Safe, RowsOfCurrentPassword
    <3>4. /\ Sign(s, signed[r]) /\ UNCHANGED <<pwd, opened, cutoff, resetDone, clock>>
          /\ step[r] = "refreshCommit" /\ Answer(r)
      BY <2>1, <3>1 DEF RefreshCommit
    <3>5. OnlyOf(r) /\ step'[r] = "idle" BY <1>1, <3>4, AnswerOnlyOf
    <3>6. QED BY <1>1, <3>3, <3>4, <3>5, SignKeepsResets
  <2>2. CASE ~RefreshCommit(r)
    <3>1. UNCHANGED <<pwd, opened, cutoff, resetDone, clock, access>>
      BY <1>4, <2>2 DEF Refresh, RefreshVerify, RefreshLockUser, RefreshLockToken,
           GraceHop, RefreshCheck, GraceIssue, Rotate, Purge, PurgeFinish
    <3> DEFINE Fine == /\ OnlyOf(r) /\ step'[r] \notin {"cutoffRead", "cutoffWrite"}
                       /\ step'[r] \in {"loginCommit", "refreshCommit"} => signed'[r] <= clock
    <3>2. Fine
      <4>1. CASE Answer(r) BY <1>1, <4>1, AnswerOnlyOf
      <4>2. CASE \E t \in Tokens, o \in Origins : RefreshVerify(r, t, o)
        BY <1>1, <4>2 DEF RefreshVerify, Begin, Goto, RequestTypes, OnlyOf
      <4>3. CASE GraceHop(r) /\ ~Answer(r)
        BY <1>1, <4>3 DEF GraceHop, FollowTo, Goto, RequestTypes, OnlyOf
      <4>4. CASE (RefreshLockToken(r) \/ RefreshLockUser(r)) /\ ~Answer(r)
        BY <1>1, <4>4 DEF RefreshLockToken, RefreshLockUser, Goto, RequestTypes, OnlyOf
      <4>5. CASE RefreshCheck(r) \/ Purge(r)
        BY <1>1, <4>5 DEF RefreshCheck, Purge, Goto, RequestTypes, OnlyOf
      <4>6. CASE GraceIssue(r)
        BY <1>1, <4>6 DEF GraceIssue, Goto, RequestTypes, OnlyOf
      <4>7. ASSUME NEW u \in Tokens, Rotate(r, u) PROVE Fine
        BY <1>1, <4>7 DEF Rotate, Goto, RequestTypes, OnlyOf
      <4> HIDE DEF Fine
      <4>8. QED BY <1>4, <2>2, <4>1, <4>2, <4>3, <4>4, <4>5, <4>6, <4>7 DEF Refresh, PurgeFinish
    <3>3. QED BY <3>1, <3>2, ResetsStay DEF OnlyOf
  <2>3. QED BY <2>1, <2>2
<1>5. ASSUME NEW r \in Requests, Revoke(r) PROVE Resets'
  <2>1. CASE EndsSessions(r)
    <3>1. PICK S, T : EndSessions(r, S, T)
      BY <2>1, RevocationCases DEF Revocation
    <3>2. UNCHANGED <<pwd, opened, cutoff, resetDone, clock, access>>
      BY <3>1 DEF EndSessions
    <3>3. OnlyOf(r) /\ step'[r] = "mark"
      BY <1>1, <3>1 DEF EndSessions, Begin, Goto, RequestTypes, OnlyOf
    <3>4. QED BY <3>2, <3>3, ResetsStay DEF OnlyOf
  <2>2. CASE MarkRevoked(r)
    <3>1. UNCHANGED <<pwd, opened, cutoff, resetDone, clock>> /\ Answer(r)
      BY <2>2 DEF MarkRevoked
    <3>2. ASSUME NEW a \in access' PROVE \E b \in access : a.sid = b.sid /\ a.iat = b.iat
      <4>1. PICK b \in access : a = [b EXCEPT !.late = b.late /\ b.sid \notin ends[r]]
        BY <2>2, <3>2 DEF MarkRevoked
      <4>2. a.sid = b.sid /\ a.iat = b.iat BY <1>1, <4>1 DEF AccessTokens
      <4>3. QED BY <4>2
    <3>3. QED BY <1>1, <3>1, <3>2, AnswerOnlyOf, ResetsStay DEF OnlyOf
  <2>3. CASE ResetPassword(r)
    <3>1. /\ pwd' = pwd + 1 /\ pwd <= MaxResets
          /\ UNCHANGED <<opened, cutoff, resetDone, clock, access>>
          /\ Begin(r, "cutoffRead", None, None, None, pwd + 1, {})
      BY <2>3 DEF ResetPassword
    <3>2. OnlyOf(r) /\ step'[r] = "cutoffRead" /\ pw'[r] = pwd + 1
      BY <1>1, <3>1 DEF Begin, Goto, RequestTypes, OnlyOf
    <3>3. Signed' BY <3>1, <3>2 DEF Resets, Signed, OnlyOf
    <3>4. \A q \in Requests : step'[q] \in {"cutoffRead", "cutoffWrite"} => CutoffCovers(q)'
      <4> TAKE q \in Requests
      <4>1. CASE q = r BY <1>1, <3>1, <3>2, <4>1 DEF CutoffCovers
      <4>2. CASE q # r
        BY <1>1, <3>1, <3>2, <4>2 DEF CutoffCovers, OnlyOf, Resets
      <4>3. QED BY <4>1, <4>2
    <3>5. resetDone' <= pwd' /\ pwd' <= MaxResets + 1
      BY <1>1, <3>1, BoundAssumption DEF Resets, BoundAssumption
    <3>6. QED BY <3>1, <3>3, <3>4, <3>5 DEF Resets
  <2>4. CASE CutoffRead(r)
    <3>1. /\ signed' = [signed EXCEPT ![r] = clock] /\ pw' = pw
          /\ step' = [step EXCEPT ![r] = "cutoffWrite"] /\ step[r] = "cutoffRead"
          /\ clock' \in {clock, clock + 1}
          /\ UNCHANGED <<pwd, opened, cutoff, resetDone, access>>
      BY <2>4 DEF CutoffRead, Goto
    <3>2. \A i \in Nat : i <= clock => i <= clock'
      BY <1>1, <3>1
    <3>3. \A a \in access : a.iat \in Nat BY <1>1 DEF AccessTokens
    <3>4. Signed'
      BY <1>1, <3>1, <3>2, <3>3 DEF Resets, Signed, RequestTypes
    <3>5. \A q \in Requests : step'[q] \in {"cutoffRead", "cutoffWrite"} => CutoffCovers(q)'
      BY <1>1, <3>1 DEF CutoffCovers, Resets, Signed, RequestTypes
    <3>6. QED BY <3>1, <3>4, <3>5 DEF Resets
  <2>5. CASE CutoffWrite(r)
    <3>1. /\ cutoff' = signed[r] /\ step[r] = "cutoffWrite" /\ Answer(r)
          /\ resetDone' = IF pw[r] > resetDone THEN pw[r] ELSE resetDone
          /\ UNCHANGED <<pwd, opened, clock, access>>
      BY <2>5 DEF CutoffWrite
    <3>2. OnlyOf(r) /\ step'[r] = "idle" BY <1>1, <3>1, AnswerOnlyOf
    <3>3. CutoffCovers(r) BY <3>1 DEF Resets
    <3>4. Signed' BY <3>1, <3>2 DEF Resets, Signed, OnlyOf
    <3>5. \A q \in Requests : step'[q] \in {"cutoffRead", "cutoffWrite"} => CutoffCovers(q)'
      BY <3>1, <3>2 DEF CutoffCovers, OnlyOf, Resets
    <3>6. resetDone' <= pwd'
      BY <1>1, <3>1, <3>3 DEF CutoffCovers, Resets
    <3>7. MaxResets <= 1 => resetDone' = pw[r]
      BY <1>1, <3>1, <3>3, BoundAssumption DEF CutoffCovers, Resets, BoundAssumption
    <3>8. MaxResets <= 1 => \A a \in access' : opened'[a.sid] < resetDone' => a.iat <= cutoff'
      BY <3>1, <3>3, <3>7 DEF CutoffCovers
    <3>9. QED BY <3>1, <3>4, <3>5, <3>6, <3>8 DEF Resets
  <2>6. QED BY <1>5, <2>1, <2>2, <2>3, <2>4, <2>5 DEF Revoke, EndsSessions
<1>6. ASSUME NEW r \in Requests, Fail(r) PROVE Resets'
  <2>1. UNCHANGED <<pwd, opened, cutoff, resetDone, clock, access>> /\ Answer(r)
    BY <1>6 DEF Fail
  <2>2. QED BY <1>1, <2>1, AnswerOnlyOf, ResetsStay DEF OnlyOf
<1>7. CASE Environment
  <2>1. CASE CutoffExpires
    <3>1. /\ access' = {a \in access : a.iat > cutoff} /\ cutoff' = 0
          /\ UNCHANGED <<pwd, opened, resetDone, clock, step, pw, signed>>
      BY <2>1 DEF CutoffExpires
    <3>2. \A a \in access : a.iat \in Nat BY <1>1 DEF AccessTokens
    <3>3. Signed' BY <3>1 DEF Resets, Signed
    <3>4. \A q \in Requests : step'[q] \in {"cutoffRead", "cutoffWrite"} => CutoffCovers(q)'
      BY <3>1 DEF CutoffCovers, Resets
    <3>5. MaxResets <= 1 => \A a \in access' : ~(opened'[a.sid] < resetDone')
      BY <1>1, <3>1, <3>2 DEF Resets
    <3>6. QED BY <3>1, <3>3, <3>4, <3>5 DEF Resets
  <2>2. CASE ~CutoffExpires
    <3>1. /\ UNCHANGED <<pwd, opened, cutoff, resetDone, clock, step, pw, signed>>
          /\ access' \subseteq access
      BY <1>7, <2>2 DEF Environment, SetBanStatus, DeleteUser, GraceEnds,
            CleanExpiredToken, MarkerExpires, LeftWhenMarkerExpires
    <3>2. QED BY <3>1 DEF Resets, Signed, CutoffCovers
  <2>3. QED BY <2>1, <2>2
<1>8. QED BY <1>2, <1>3, <1>4, <1>5, <1>6, <1>7 DEF Next

LEMMA ResetsHold == Spec => [](Inv /\ OpenedOnce /\ Resets)
<1>1. Init => Inv /\ OpenedOnce /\ Resets
  BY InitInv, BoundAssumption
  DEF Init, OpenedOnce, LoginSteps, Resets, Signed, BoundAssumption
<1>2. Inv /\ OpenedOnce /\ Resets /\ [Next]_vars => (Inv /\ OpenedOnce /\ Resets)'
  BY InvStep, OpenedStep, ResetsStep
<1>3. QED BY <1>1, <1>2, PTL DEF Spec

(* When a reset writes its cutoff, that cutoff revokes every access token  *)
(* of a session that signed in with an earlier password, one that a        *)
(* sign-in or a refresh was signing during the reset included              *)
(* (auth.controller.ts resetPassword, revokeAllUserTokens).                *)
THEOREM ResetRevokesOlder ==
  Spec => [][\A r \in Requests : CutoffWrite(r) =>
                \A a \in access : opened[a.sid] < pw[r] => ~Accepted(a)']_vars
<1>1. ASSUME Inv, Resets, NEW r \in Requests, CutoffWrite(r),
             NEW a \in access, opened[a.sid] < pw[r]
      PROVE  ~Accepted(a)'
  <2>1. a.iat <= cutoff'
    BY <1>1 DEF Resets, CutoffCovers, CutoffWrite
  <2>2. QED BY <2>1 DEF Accepted, IsRevoked
<1>2. Inv /\ OpenedOnce /\ Resets => \A r \in Requests : CutoffWrite(r) =>
          \A a \in access : opened[a.sid] < pw[r] => ~Accepted(a)'
  BY <1>1
<1>3. QED BY <1>2, ResetsHold, PTL

(* Once the reset has finished no such token is accepted again, whatever   *)
(* expires: for an account whose password is reset once.  (With two resets *)
(* it does not hold: SessionTwoResets.)                                    *)
THEOREM OneResetRevokes == MaxResets <= 1 => (Spec => []OldPasswordAccessRejected)
<1> SUFFICES ASSUME MaxResets <= 1 PROVE Spec => []OldPasswordAccessRejected
  OBVIOUS
<1>1. Resets => OldPasswordAccessRejected
  BY DEF Resets, OldPasswordAccessRejected, Accepted, IsRevoked
<1>2. QED BY <1>1, ResetsHold, PTL
=============================================================================

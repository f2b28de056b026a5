----------------------- MODULE PermissionCache_proofs -----------------------
(***************************************************************************)
(* Proof, for any number of permission checks, role changes and versions,  *)
(* that a permission check sees every role change that had returned when   *)
(* it started (FreshAnswer of PermissionCache); and, for any number of     *)
(* emits, that a room is sent everything in order (SentInOrder of          *)
(* EmitOrder, at the end).                                                 *)
(*                                                                         *)
(* The argument: epochs only grow and every key in use has passed epochs   *)
(* (KeysPast), so right after a bump nothing is, or will be, stored at the *)
(* current key but what is read from the database from then on.  Thus a    *)
(* change all of whose bumps were made is covered at the current key       *)
(* (Settled), and a check that reads the epochs afterwards finds nothing   *)
(* older at its key however long it takes (Checks).                        *)
(*                                                                         *)
(* And, as in the run of both (MCCaches), that the emits to a room keep    *)
(* their order (SentInOrder of EmitOrder): whatever is being redacted or   *)
(* was sent has all earlier calls sent before it (Chained).                *)
(***************************************************************************)
EXTENDS MCCaches, TLAPS

(* What is stored at key k, will be by a SET on its way, or by a check     *)
(* about to fill it, is at least version n.                                *)
Covered(k, n) ==
    /\ \A e \in cache \cup sets : e.key = k => e.version >= n
    /\ \A q \in Readers : rstep[q] = "fill" /\ key[q] = k => actions[q] >= n

Past(k) == k[1] <= epoch["user"] /\ k[2] <= epoch["scope"]

KeysPast ==
    /\ \A e \in cache \cup sets : Past(e.key)
    /\ \A r \in Readers : key[r] # None => Past(key[r])
    /\ \A r \in Readers : rstep[r] \in {"get", "fill"} => key[r] # None

Bounded ==
    /\ returned <= version
    /\ \A w \in Writers : change[w] <= version
    /\ \A r \in Readers : floor[r] <= returned

(* A change in progress that has made all its bumps.                       *)
Done(w) == wstep[w] = "bump" /\ todo[w] = {} /\ w \notin failed

Settled ==
    /\ Covered(CurrentKey, returned)
    /\ \A w \in Writers : Done(w) => Covered(CurrentKey, change[w])
    /\ \A w \in Writers : wstep[w] = "open" => todo[w] # {}

Checks ==
    \A r \in Readers :
        /\ rstep[r] = "get" => Covered(key[r], floor[r])
        /\ rstep[r] \in {"fill", "answered"} => actions[r] >= floor[r]

Inv == TypeOK /\ KeysPast /\ Bounded /\ Settled /\ Checks

-----------------------------------------------------------------------------
(* The current key is a key whose epochs have passed.                      *)
LEMMA CurrentKeyPast ==
    ASSUME TypeOK
    PROVE  CurrentKey \in Keys /\ CurrentKey # None /\ Past(CurrentKey)
  BY NoneAssumption DEF TypeOK, CurrentKey, Keys, Past, Epochs

(* All types are kept.                                                     *)
LEMMA TypeStep ==
    ASSUME TypeOK, KeysPast, [Next]_vars
    PROVE  TypeOK'
<1> USE DEF TypeOK, Goto, Answer, Keys, Values, Epochs
<1>1. CASE UNCHANGED vars
  BY <1>1 DEF vars, redis, reader, writer
<1>2. ASSUME NEW r \in Readers, Check(r) PROVE TypeOK'
  <2>1. CASE ReadEpochs(r)
    BY <2>1 DEF ReadEpochs, CurrentKey, redis, writer
  <2>2. CASE Unavailable(r)
    BY <2>2 DEF Unavailable, redis, writer
  <2>3. CASE Hit(r)
    BY <2>3 DEF Hit, redis, writer
  <2>4. CASE Miss(r)
    BY <2>4 DEF Miss, redis, writer
  <2>5. CASE QueryDatabase(r)
    BY <2>5 DEF QueryDatabase, WasMiss, redis, writer
  <2>6. CASE Fill(r)
    <3>1. key[r] \in Keys
      BY <2>6 DEF Fill, KeysPast
    <3> QED
      BY <2>6, <3>1 DEF Fill, FillKey, writer
  <2>7. CASE ReaderStops(r)
    BY <2>7 DEF ReaderStops, redis, writer
  <2> QED
    BY <1>2, <2>1, <2>2, <2>3, <2>4, <2>5, <2>6, <2>7 DEF Check
<1>3. ASSUME NEW w \in Writers, RoleChange(w) PROVE TypeOK'
  <2>1. ASSUME NEW B \in (SUBSET Epochs) \ {{}}, Begin(w, B) PROVE TypeOK'
    BY <2>1 DEF Begin, redis, reader
  <2>2. CASE Commit(w)
    BY <2>2 DEF Commit, redis, reader
  <2>3. ASSUME NEW e \in Epochs, Bump(w, e) PROVE TypeOK'
    BY <2>3 DEF Bump, reader
  <2>4. ASSUME NEW e \in Epochs, BumpFails(w, e) PROVE TypeOK'
    BY <2>4 DEF BumpFails, reader
  <2>5. CASE Return(w)
    BY <2>5 DEF Return, Finish, Larger, redis, reader
  <2>6. CASE WriterStops(w)
    BY <2>6 DEF WriterStops, Finish, redis, reader
  <2> QED
    BY <1>3, <2>1, <2>2, <2>3, <2>4, <2>5, <2>6 DEF RoleChange
<1>4. CASE Network
  <2>1. ASSUME NEW e \in sets, SetArrives(e) \/ SetLost(e) PROVE TypeOK'
    BY <2>1 DEF SetArrives, SetLost, reader, writer
  <2>2. ASSUME NEW e \in cache, Expire(e) PROVE TypeOK'
    BY <2>2 DEF Expire, reader, writer
  <2>3. ASSUME NEW e \in Epochs, IncrArrives(e) PROVE TypeOK'
    BY <2>3 DEF IncrArrives, reader, writer
  <2> QED
    BY <1>4, <2>1, <2>2, <2>3 DEF Network
<1> QED
  BY <1>1, <1>2, <1>3, <1>4 DEF Next

(* Epochs only grow, a check captures keys that have passed, and nothing   *)
(* is stored but at such keys.                                             *)
LEMMA PastStep ==
    ASSUME TypeOK, KeysPast, Bounded, [Next]_vars
    PROVE  KeysPast' /\ Bounded'
<1> USE DEF TypeOK, Goto, Answer, Epochs, KeysPast, Bounded, Past
<1>0. \A e \in cache \cup sets : e.key[1] \in Nat /\ e.key[2] \in Nat
  BY DEF Values, Keys
<1>1. \A r \in Readers : key[r] # None => key[r][1] \in Nat /\ key[r][2] \in Nat
  BY DEF Keys
<1>2. CASE UNCHANGED vars
  BY <1>2 DEF vars, redis, reader, writer
<1>3. ASSUME NEW r \in Readers, Check(r) PROVE KeysPast' /\ Bounded'
  <2>1. CASE ReadEpochs(r)
    BY <2>1, CurrentKeyPast DEF ReadEpochs, redis, writer
  <2>2. CASE Unavailable(r)
    BY <2>2 DEF Unavailable, redis, writer
  <2>3. CASE Hit(r)
    BY <2>3 DEF Hit, redis, writer
  <2>4. CASE Miss(r)
    BY <2>4 DEF Miss, redis, writer
  <2>5. CASE QueryDatabase(r)
    BY <2>5 DEF QueryDatabase, WasMiss, redis, writer
  <2>6. CASE Fill(r)
    BY <2>6 DEF Fill, FillKey, writer
  <2>7. CASE ReaderStops(r)
    BY <2>7 DEF ReaderStops, redis, writer
  <2> QED
    BY <1>3, <2>1, <2>2, <2>3, <2>4, <2>5, <2>6, <2>7 DEF Check
<1>4. ASSUME NEW w \in Writers, RoleChange(w) PROVE KeysPast' /\ Bounded'
  <2>1. ASSUME NEW B \in (SUBSET Epochs) \ {{}}, Begin(w, B) PROVE KeysPast' /\ Bounded'
    BY <2>1 DEF Begin, redis, reader
  <2>2. CASE Commit(w)
    BY <2>2 DEF Commit, redis, reader
  <2>3. ASSUME NEW e \in Epochs, Bump(w, e) PROVE KeysPast' /\ Bounded'
    BY <1>0, <1>1, <2>3 DEF Bump, reader
  <2>4. ASSUME NEW e \in Epochs, BumpFails(w, e) PROVE KeysPast' /\ Bounded'
    BY <2>4 DEF BumpFails, reader
  <2>5. CASE Return(w)
    BY <2>5 DEF Return, Finish, Larger, redis, reader
  <2>6. CASE WriterStops(w)
    BY <2>6 DEF WriterStops, Finish, redis, reader
  <2> QED
    BY <1>4, <2>1, <2>2, <2>3, <2>4, <2>5, <2>6 DEF RoleChange
<1>5. CASE Network
  <2>1. ASSUME NEW e \in Epochs, IncrArrives(e) PROVE KeysPast' /\ Bounded'
    BY <1>0, <1>1, <2>1 DEF IncrArrives, reader, writer
  <2> QED
    BY <1>5, <2>1 DEF Network, SetArrives, SetLost, Expire, HasTtl, reader, writer
<1> QED
  BY <1>2, <1>3, <1>4, <1>5 DEF Next

(* After a bump nothing is stored at the current key.                      *)
LEMMA NewKeyIsEmpty ==
    ASSUME TypeOK, KeysPast, NEW e \in Epochs,
           epoch' = [epoch EXCEPT ![e] = epoch[e] + 1]
    PROVE  /\ \A f \in cache \cup sets : f.key # CurrentKey'
           /\ \A r \in Readers : key[r] # CurrentKey'
<1> USE DEF TypeOK, KeysPast, Epochs, Past, CurrentKey
<1>1. epoch["user"] \in Nat /\ epoch["scope"] \in Nat
  OBVIOUS
<1>2. epoch'["user"] > epoch["user"] \/ epoch'["scope"] > epoch["scope"]
  BY <1>1
<1>3. ASSUME NEW f \in cache \cup sets PROVE f.key # CurrentKey'
  <2>1. f.key[1] \in Nat /\ f.key[2] \in Nat /\ Past(f.key)
    BY DEF Values, Keys
  <2> QED
    BY <1>1, <1>2, <2>1
<1>4. ASSUME NEW r \in Readers PROVE key[r] # CurrentKey'
  <2>1. CASE key[r] = None
    BY <1>1, <2>1, NoneAssumption
  <2>2. CASE key[r] # None
    <3>1. key[r][1] \in Nat /\ key[r][2] \in Nat /\ Past(key[r])
      BY <2>2 DEF Keys
    <3> QED
      BY <1>1, <1>2, <3>1
  <2> QED
    BY <2>1, <2>2
<1> QED
  BY <1>3, <1>4

-----------------------------------------------------------------------------

(* What stays covered when nothing new is stored: every value that is      *)
(* stored, on its way or about to be was one before.                       *)
NothingNew ==
    /\ (cache \cup sets)' \subseteq cache \cup sets
    /\ \A q \in Readers : rstep'[q] = "fill" =>
          rstep[q] = "fill" /\ key'[q] = key[q] /\ actions'[q] = actions[q]

(* Every action but the two of a fill stores nothing new.                  *)
LEMMA StoresNothingNew ==
    ASSUME TypeOK, [Next]_vars,
           \A r \in Readers : ~QueryDatabase(r) /\ ~Fill(r)
    PROVE  NothingNew
<1> USE DEF TypeOK, Goto, Answer, NothingNew
<1>1. CASE UNCHANGED vars
  BY <1>1 DEF vars, redis, reader
<1>2. ASSUME NEW r \in Readers, Check(r) PROVE NothingNew
  BY <1>2 DEF Check, ReadEpochs, Unavailable, Hit, Miss, ReaderStops, redis
<1>3. ASSUME NEW w \in Writers, RoleChange(w) PROVE NothingNew
  BY <1>3 DEF RoleChange, Begin, Commit, Bump, BumpFails, Return, WriterStops,
              Finish, redis, reader
<1>4. CASE Network
  BY <1>4 DEF Network, SetArrives, SetLost, Expire, HasTtl, IncrArrives, reader
<1> QED
  BY <1>1, <1>2, <1>3, <1>4 DEF Next

(* What is covered at a key stays covered when nothing new is stored ...   *)
LEMMA CoveredStays ==
    ASSUME NothingNew
    PROVE  \A k, n : Covered(k, n) => Covered(k, n)'
  BY DEF NothingNew, Covered

(* ... and when a fill reads the database or sends what it has read: that  *)
(* is not older than any committed version.                                *)
LEMMA CoveredThroughFill ==
    ASSUME TypeOK, NEW r \in Readers, QueryDatabase(r) \/ Fill(r)
    PROVE  \A k : \A n \in Nat : n <= version /\ Covered(k, n) => Covered(k, n)'
<1> USE DEF TypeOK, Goto, Answer, Covered
<1>1. CASE QueryDatabase(r)
  BY <1>1 DEF QueryDatabase, WasMiss, redis
<1>2. CASE Fill(r)
  BY <1>2 DEF Fill, FillKey
<1> QED
  BY <1>1, <1>2

(* Every step keeps what is covered up to the committed version.           *)
LEMMA CoveredStep ==
    ASSUME TypeOK, [Next]_vars
    PROVE  \A k : \A n \in Nat : n <= version /\ Covered(k, n) => Covered(k, n)'
<1>1. CASE \E r \in Readers : QueryDatabase(r) \/ Fill(r)
  BY <1>1, CoveredThroughFill
<1>2. CASE \A r \in Readers : ~QueryDatabase(r) /\ ~Fill(r)
  BY <1>2, StoresNothingNew, CoveredStays
<1> QED
  BY <1>1, <1>2

(* A bump covers every version at the new current key.                     *)
LEMMA BumpCovers ==
    ASSUME TypeOK, KeysPast, NEW e \in Epochs,
           epoch' = [epoch EXCEPT ![e] = epoch[e] + 1],
           UNCHANGED <<cache, reader>>, sets' \subseteq sets
    PROVE  \A n : Covered(CurrentKey, n)'
<1>1. /\ \A f \in cache \cup sets : f.key # CurrentKey'
      /\ \A r \in Readers : key[r] # CurrentKey'
  BY NewKeyIsEmpty
<1> QED
  BY <1>1 DEF Covered, reader

(* Changes that made their bumps stay covered at the current key.          *)
LEMMA SettledStep ==
    ASSUME TypeOK, KeysPast, Bounded, Settled, [Next]_vars
    PROVE  Settled'
<1> USE DEF Settled, Bounded
<1>1. \A k : \A n \in Nat : n <= version /\ Covered(k, n) => Covered(k, n)'
  BY CoveredStep
<1>2. returned \in Nat /\ \A w \in Writers : change[w] \in Nat
  BY DEF TypeOK
<1>3. ASSUME epoch' = epoch, returned' = returned, writer' = writer PROVE Settled'
  <2>1. CurrentKey' = CurrentKey
    BY <1>3 DEF CurrentKey
  <2> QED
    BY <1>1, <1>2, <1>3, <2>1 DEF Done, writer
<1>4. CASE UNCHANGED vars
  BY <1>3, <1>4 DEF vars, redis
<1>5. ASSUME NEW r \in Readers, Check(r) PROVE Settled'
  BY <1>3, <1>5 DEF Check, ReadEpochs, Unavailable, Hit, Miss, QueryDatabase, WasMiss, Fill,
                    ReaderStops, redis
<1>6. ASSUME NEW w \in Writers, RoleChange(w) PROVE Settled'
  <2>1. ASSUME NEW B \in (SUBSET Epochs) \ {{}}, Begin(w, B) PROVE Settled'
    <3>1. CurrentKey' = CurrentKey
      BY <2>1 DEF Begin, redis, CurrentKey
    <3>2. \A v \in Writers : Done(v)' => Done(v)
      BY <2>1 DEF Begin, Done, TypeOK
    <3>3. ASSUME NEW v \in Writers, wstep'[v] = "open" PROVE todo'[v] # {}
      <4>1. CASE v = w
        BY <2>1, <4>1 DEF Begin, TypeOK
      <4>2. CASE v # w
        BY <2>1, <3>3, <4>2 DEF Begin, TypeOK
      <4> QED
        BY <4>1, <4>2
    <3> QED
      BY <1>1, <1>2, <2>1, <3>1, <3>2, <3>3 DEF Begin
  <2>2. CASE Commit(w)
    <3>1. CurrentKey' = CurrentKey
      BY <2>2 DEF Commit, redis, CurrentKey
    <3>2. \A v \in Writers : Done(v)' => Done(v) /\ change'[v] = change[v]
      BY <2>2 DEF Commit, Done, TypeOK
    <3>3. \A v \in Writers : wstep'[v] = "open" => todo'[v] # {}
      BY <2>2 DEF Commit, TypeOK
    <3> QED
      BY <1>1, <1>2, <2>2, <3>1, <3>2, <3>3 DEF Commit
  <2>3. ASSUME NEW e \in Epochs, Bump(w, e) PROVE Settled'
    <3>1. \A n : Covered(CurrentKey, n)'
      BY <2>3, BumpCovers DEF Bump
    <3>2. \A v \in Writers : wstep'[v] = "open" => todo'[v] # {}
      BY <2>3 DEF Bump, MayBump, TypeOK
    <3> QED
      BY <3>1, <3>2
  <2>4. ASSUME NEW e \in Epochs, BumpFails(w, e) PROVE Settled'
    <3>1. CurrentKey' = CurrentKey
      BY <2>4 DEF BumpFails, CurrentKey
    <3>2. \A v \in Writers : Done(v)' => Done(v)
      BY <2>4 DEF BumpFails, Done, TypeOK
    <3>3. \A v \in Writers : wstep'[v] = "open" => todo'[v] # {}
      BY <2>4 DEF BumpFails, TypeOK
    <3> QED
      BY <1>1, <1>2, <2>4, <3>1, <3>2, <3>3 DEF BumpFails
  <2>5. CASE Return(w) \/ WriterStops(w)
    <3>1. CurrentKey' = CurrentKey
      BY <2>5 DEF Return, WriterStops, Finish, redis, CurrentKey
    <3>2. \A v \in Writers : Done(v)' => Done(v) /\ change'[v] = change[v]
      BY <2>5 DEF Return, WriterStops, Finish, Done, TypeOK
    <3>3. \A v \in Writers : wstep'[v] = "open" => todo'[v] # {}
      BY <2>5 DEF Return, WriterStops, Finish, TypeOK
    <3>4. returned' = returned \/ (Done(w) /\ returned' = change[w])
      BY <2>5 DEF Return, WriterStops, Finish, Done, Larger
    <3> QED
      BY <1>1, <1>2, <3>1, <3>2, <3>3, <3>4
  <2> QED
    BY <1>6, <2>1, <2>2, <2>3, <2>4, <2>5 DEF RoleChange
<1>7. CASE Network
  <2>1. ASSUME NEW e \in Epochs, IncrArrives(e) PROVE Settled'
    <3>1. \A n : Covered(CurrentKey, n)'
      BY <2>1, BumpCovers DEF IncrArrives
    <3> QED
      BY <2>1, <3>1 DEF IncrArrives, writer
  <2>2. CASE (\E e \in sets : SetArrives(e) \/ SetLost(e)) \/ \E e \in cache : Expire(e)
    BY <1>3, <2>2 DEF SetArrives, SetLost, Expire
  <2> QED
    BY <1>7, <2>1, <2>2 DEF Network
<1> QED
  BY <1>4, <1>5, <1>6, <1>7 DEF Next

(* A check finds nothing older than the changes that had returned when it  *)
(* started.                                                                *)
LEMMA ChecksStep ==
    ASSUME TypeOK, KeysPast, Bounded, Settled, Checks, [Next]_vars
    PROVE  Checks'
<1> USE DEF Checks, Goto, Answer
<1>1. \A k : \A n \in Nat : n <= version /\ Covered(k, n) => Covered(k, n)'
  BY CoveredStep
<1>2. \A r \in Readers : floor[r] \in Nat /\ floor[r] <= version /\ returned <= version
  BY DEF TypeOK, Bounded
<1>3. SUFFICES ASSUME NEW r \in Readers
               PROVE  /\ rstep'[r] = "get" => Covered(key[r], floor[r])'
                      /\ rstep'[r] \in {"fill", "answered"} => actions'[r] >= floor'[r]
  OBVIOUS
<1>4. CASE rstep'[r] = rstep[r] /\ key'[r] = key[r] /\ floor'[r] = floor[r]
           /\ actions'[r] = actions[r]
  BY <1>1, <1>2, <1>4
<1>5. CASE ReadEpochs(r)
  <2>1. Covered(CurrentKey, returned)'
    BY <1>1, <1>2, <1>5 DEF ReadEpochs, redis, CurrentKey, Settled, TypeOK
  <2>2. key'[r] = CurrentKey' /\ floor'[r] = returned' /\ rstep'[r] = "get"
    BY <1>5 DEF ReadEpochs, redis, CurrentKey, TypeOK
  <2> QED
    BY <2>1, <2>2
<1>6. CASE Hit(r)
  BY <1>6 DEF Hit, Covered, TypeOK
<1>7. CASE QueryDatabase(r)
  BY <1>2, <1>7 DEF QueryDatabase, WasMiss, TypeOK
<1>8. CASE Fill(r)
  BY <1>8 DEF Fill, TypeOK
<1>9. CASE Unavailable(r) \/ Miss(r) \/ ReaderStops(r)
  BY <1>9 DEF Unavailable, Miss, ReaderStops, TypeOK
<1>10. ASSUME NEW q \in Readers \ {r}, Check(q)
       PROVE  rstep'[r] = rstep[r] /\ key'[r] = key[r] /\ floor'[r] = floor[r]
              /\ actions'[r] = actions[r]
  BY <1>10 DEF Check, ReadEpochs, Unavailable, Hit, Miss, QueryDatabase, WasMiss, Fill,
               ReaderStops, TypeOK
<1>11. CASE UNCHANGED reader
  BY <1>4, <1>11 DEF reader
<1>12. ASSUME NEW w \in Writers, RoleChange(w) PROVE UNCHANGED reader
  BY <1>12 DEF RoleChange, Begin, Commit, Bump, BumpFails, Return, WriterStops, Finish
<1>13. ASSUME Network PROVE UNCHANGED reader
  BY <1>13 DEF Network, SetArrives, SetLost, Expire, IncrArrives
<1>14. ASSUME vars' = vars PROVE UNCHANGED reader
  BY <1>14 DEF vars
<1> QED
  BY <1>4, <1>5, <1>6, <1>7, <1>8, <1>9, <1>10, <1>11, <1>12, <1>13, <1>14 DEF Next, Check

-----------------------------------------------------------------------------
LEMMA InitInv == Init => Inv
  BY BoundAssumption, NoneAssumption
  DEF Init, Inv, TypeOK, KeysPast, Bounded, Settled, Checks, Covered, Done, Past,
      Keys, Values, Epochs

LEMMA InvStep == Inv /\ [Next]_vars => Inv'
  BY TypeStep, PastStep, SettledStep, ChecksStep DEF Inv

(* The inductive invariant holds in every reachable state.                 *)
THEOREM Invariance == Spec => []Inv
  BY InitInv, InvStep, PTL DEF Spec

(* Every variable of the cache, the checks and the role changes has its    *)
(* type.                                                                   *)
THEOREM TypeCorrect == Spec => []TypeOK
<1>1. Inv => TypeOK
  BY DEF Inv
<1> QED
  BY Invariance, <1>1, PTL

(* A permission check answers with every role change that had returned,    *)
(* its bumps made, when the check started: no fill, however late it comes, *)
(* brings an older list back (setCachedActions writes under the epochs of  *)
(* the miss, bumps follow the commit).                                     *)
THEOREM ChecksSeeReturnedChanges == Spec => []FreshAnswer
<1>1. Inv => FreshAnswer
  BY DEF Inv, Checks, FreshAnswer
<1> QED
  BY Invariance, <1>1, PTL

-----------------------------------------------------------------------------
(* EmitOrder.  Each emit that waits waits for the one before it, if that   *)
(* was not sent when it was called; so what is redacted or sent has all    *)
(* earlier ones sent before it.                                            *)
IsSent(e) == stage[e] \in {"done", "over"}
SentBefore(e) == \A d \in Emits : d < e => IsSent(d)

AllSent == \A i \in 1..Len(sent) : IsSent(sent[i])

Chained ==
    /\ \A d, e \in Emits : d < e /\ stage[e] # "new" => stage[d] # "new"
    /\ \A e \in Emits :
          /\ stage[e] \in {"redacting", "done", "over"} => SentBefore(e)
          /\ stage[e] = "waiting" /\ before[e] = NoEmit => SentBefore(e)
          /\ stage[e] = "waiting" /\ before[e] # NoEmit => before[e] = e - 1
    /\ pending = NoEmit => \A e \in Emits : stage[e] = "new" \/ IsSent(e)
    /\ pending # NoEmit =>
          /\ stage[pending] # "new"
          /\ \A e \in Emits : e > pending => stage[e] = "new"
    /\ AllSent

EmitInv == EmitTypeOK /\ Chained /\ SentInOrder

LEMMA EmitsAreNumbers ==
    \A e : e \in Emits <=> e \in Nat /\ 1 <= e /\ e <= MaxEmits
BY EmitAssumption DEF Emits, EmitAssumption

LEMMA EmitInitial == EmitInit => EmitInv
<1> SUFFICES ASSUME EmitInit PROVE EmitInv
  OBVIOUS
<1>1. redacts \in [Emits -> BOOLEAN]
  BY DEF EmitInit
<1>2. /\ stage \in [Emits -> Stages] /\ before \in [Emits -> Emits \cup {NoEmit}]
      /\ pending = NoEmit /\ sent \in Seq(Emits) /\ Len(sent) = 0
      /\ \A e \in Emits : stage[e] = "new"
  BY DEF EmitInit, Stages
<1>3. Chained /\ SentInOrder
  BY <1>2 DEF Chained, SentInOrder, AllSent
<1>4. QED BY <1>1, <1>2, <1>3 DEF EmitInv, EmitTypeOK

(* An emit is sent: those before it have been, and none after it.          *)
LEMMA SendEffect ==
  ASSUME EmitInv, NEW e \in Emits, ~IsSent(e), SentBefore(e),
         NEW s \in {"done", "over"}, stage' = [stage EXCEPT ![e] = s],
         sent' = Append(sent, e)
  PROVE  /\ sent' \in Seq(Emits) /\ SentInOrder' /\ stage' \in [Emits -> Stages]
         /\ AllSent'
<1> USE DEF EmitInv
<1>1. stage' \in [Emits -> Stages] /\ stage'[e] = s /\ \A d \in Emits \ {e} : stage'[d] = stage[d]
  BY DEF EmitTypeOK, Stages
<1>2. sent \in Seq(Emits) /\ Len(sent) \in Nat /\ \A i \in 1..Len(sent) : sent[i] \in Emits
  BY DEF EmitTypeOK
<1>3. /\ sent' \in Seq(Emits) /\ Len(sent') = Len(sent) + 1 /\ sent'[Len(sent) + 1] = e
      /\ \A i \in 1..Len(sent) : sent'[i] = sent[i]
  BY <1>2
<1>4. \A i \in 1..Len(sent) : sent[i] < e
  <2> SUFFICES ASSUME NEW i \in 1..Len(sent) PROVE sent[i] < e
    OBVIOUS
  <2>1. IsSent(sent[i]) /\ sent[i] \in Emits /\ sent[i] # e
    BY <1>2 DEF Chained, AllSent
  <2>2. SentBefore(sent[i])
    BY <2>1 DEF Chained, IsSent
  <2>3. ~(e < sent[i])
    BY <2>2 DEF SentBefore
  <2>4. QED BY <2>1, <2>3, EmitsAreNumbers
<1>5. SentInOrder'
  <2> SUFFICES ASSUME NEW i \in 1..Len(sent'), NEW j \in 1..Len(sent'), i < j
               PROVE  sent'[i] < sent'[j]
    BY DEF SentInOrder
  <2>1. i \in 1..Len(sent) /\ (j \in 1..Len(sent) \/ j = Len(sent) + 1)
    BY <1>2, <1>3
  <2>2. QED BY <1>3, <1>4, <2>1 DEF SentInOrder
<1>6. AllSent'
  <2> SUFFICES ASSUME NEW i \in 1..Len(sent') PROVE stage'[sent'[i]] \in {"done", "over"}
    BY DEF IsSent, AllSent
  <2>1. CASE i = Len(sent) + 1
    BY <1>1, <1>3, <2>1
  <2>2. CASE i # Len(sent) + 1
    <3>1. i \in 1..Len(sent)
      BY <1>2, <1>3, <2>2
    <3>2. IsSent(sent[i]) /\ sent[i] \in Emits /\ sent'[i] = sent[i]
      BY <1>2, <1>3, <3>1 DEF Chained, AllSent
    <3>3. QED BY <1>1, <3>2 DEF IsSent
  <2>3. QED BY <2>1, <2>2
<1>7. QED BY <1>1, <1>3, <1>5, <1>6

LEMMA CallStep ==
  ASSUME EmitInv, NEW e \in Emits, SendNow(e) \/ SendLater(e)
  PROVE  EmitInv'
<1> USE DEF EmitInv
<1>1. stage[e] = "new" /\ \A d \in Emits : d < e => stage[d] # "new"
  BY EmitsAreNumbers DEF SendNow, SendLater, IsNext, Emits
<1>2. \A d \in Emits : d > e => stage[d] = "new"
  BY <1>1 DEF Chained
<1>3. ~IsSent(e) /\ stage \in [Emits -> Stages]
  BY <1>1 DEF IsSent, EmitTypeOK
<1>4. CASE SendNow(e)
  <2>1. /\ pending = NoEmit /\ stage' = [stage EXCEPT ![e] = "over"] /\ sent' = Append(sent, e)
        /\ UNCHANGED <<redacts, before, pending>>
    BY <1>4 DEF SendNow, AtOnce
  <2>2. SentBefore(e)
    BY <1>1, <2>1 DEF SentBefore, Chained
  <2>3. /\ sent' \in Seq(Emits) /\ SentInOrder' /\ stage' \in [Emits -> Stages]
        /\ AllSent'
    BY <1>3, <2>1, <2>2, SendEffect
  <2>4. EmitTypeOK'
    BY <2>1, <2>3 DEF EmitTypeOK
  <2>5. stage'[e] = "over" /\ \A d \in Emits \ {e} : stage'[d] = stage[d]
    BY <1>3, <2>1
  <2>6. Chained'
    BY <1>1, <1>2, <2>1, <2>2, <2>3, <2>5, EmitsAreNumbers DEF Chained, SentBefore, IsSent
  <2>7. QED BY <2>3, <2>4, <2>6
<1>5. CASE SendLater(e)
  <2>1. /\ stage' = [stage EXCEPT ![e] = "waiting"] /\ before' = [before EXCEPT ![e] = pending]
        /\ pending' = e /\ UNCHANGED <<redacts, sent>>
    BY <1>5 DEF SendLater
  <2>2. EmitTypeOK' /\ SentInOrder'
    BY <2>1 DEF EmitTypeOK, SentInOrder, Stages
  <2>3. /\ stage'[e] = "waiting" /\ before'[e] = pending
        /\ \A d \in Emits \ {e} : stage'[d] = stage[d] /\ before'[d] = before[d]
    BY <1>3, <2>1 DEF EmitTypeOK
  <2>4. pending = NoEmit => SentBefore(e)
    BY <1>1 DEF SentBefore, Chained
  <2>5. pending # NoEmit => pending = e - 1
    <3> SUFFICES ASSUME pending # NoEmit PROVE pending = e - 1
      OBVIOUS
    <3>1. pending \in Emits /\ stage[pending] # "new"
          /\ \A d \in Emits : d > pending => stage[d] = "new"
      BY DEF Chained, EmitTypeOK
    <3>2. pending < e
      BY <1>1, <1>2, <3>1, EmitsAreNumbers
    <3>3. ~(pending < e - 1)
      <4> SUFFICES ASSUME pending < e - 1 PROVE FALSE
        OBVIOUS
      <4>1. e - 1 \in Emits
        <5>1. /\ pending \in Nat /\ 1 <= pending
              /\ e \in Nat /\ e <= MaxEmits /\ MaxEmits \in Nat
          BY <3>1, EmitsAreNumbers, EmitAssumption DEF EmitAssumption
        <5>2. QED BY <5>1, EmitsAreNumbers
      <4>2. QED BY <1>1, <3>1, <4>1, EmitsAreNumbers
    <3>4. QED BY <3>1, <3>2, <3>3, EmitsAreNumbers
  <2>6. Chained'
    <3>1. \A d \in Emits : IsSent(d)' <=> IsSent(d)
      BY <1>3, <2>3 DEF IsSent
    <3>2. \A d \in Emits : SentBefore(d)' <=> SentBefore(d)
      BY <3>1 DEF SentBefore
    <3>3. \A i \in 1..Len(sent) : sent[i] \in Emits
      BY DEF EmitTypeOK
    <3>4. pending' # NoEmit
      BY <2>1, EmitsAreNumbers, EmitAssumption DEF EmitAssumption
    <3>5. \A d, c \in Emits : d < c /\ stage'[c] # "new" => stage'[d] # "new"
      BY <1>1, <1>2, <2>3 DEF Chained
    <3>6. \A d \in Emits :
          /\ stage'[d] \in {"redacting", "done", "over"} => SentBefore(d)
          /\ stage'[d] = "waiting" /\ before'[d] = NoEmit => SentBefore(d)
          /\ stage'[d] = "waiting" /\ before'[d] # NoEmit => before'[d] = d - 1
      BY <2>3, <2>4, <2>5 DEF Chained
    <3>7. stage'[pending'] # "new" /\ \A d \in Emits : d > pending' => stage'[d] = "new"
      BY <1>2, <2>1, <2>3, EmitsAreNumbers
    <3>8. AllSent'
      BY <1>3, <2>1, <2>3, <3>3 DEF Chained, AllSent, IsSent
    <3>9. QED BY <3>2, <3>4, <3>5, <3>6, <3>7, <3>8 DEF Chained
  <2>7. QED BY <2>2, <2>6
<1>6. QED BY <1>4, <1>5

LEMMA ContinueStep ==
  ASSUME EmitInv, NEW e \in Emits, ContinueEmit(e)
  PROVE  EmitInv'
<1> USE DEF EmitInv
<1>1. stage \in [Emits -> Stages] /\ e \in Nat
  BY EmitsAreNumbers DEF EmitTypeOK
<1>2. CASE Finally(e)
  <2>1. /\ stage[e] = "done" /\ stage' = [stage EXCEPT ![e] = "over"]
        /\ pending' = IF pending = e THEN NoEmit ELSE pending
        /\ UNCHANGED <<redacts, before, sent>>
    BY <1>2 DEF Finally
  <2>2. EmitTypeOK' /\ SentInOrder'
    BY <2>1 DEF EmitTypeOK, SentInOrder, Stages
  <2>3. stage'[e] = "over" /\ \A d \in Emits \ {e} : stage'[d] = stage[d]
    BY <1>1, <2>1
  <2>4. \A d \in Emits : (IsSent(d)' <=> IsSent(d)) /\ (SentBefore(d)' <=> SentBefore(d))
    BY <2>1, <2>3 DEF IsSent, SentBefore
  <2>5. AllSent'
    BY <2>1, <2>4 DEF Chained, AllSent, EmitTypeOK, IsSent
  <2>6. pending = e => \A d \in Emits : stage[d] = "new" \/ IsSent(d)
    BY <1>1, <2>1, EmitsAreNumbers, EmitAssumption
       DEF Chained, SentBefore, EmitAssumption, IsSent
  <2>7. pending' = NoEmit => \A d \in Emits : stage'[d] = "new" \/ IsSent(d)'
    BY <2>1, <2>3, <2>4, <2>6 DEF Chained
  <2>8. pending' # NoEmit => /\ stage'[pending'] # "new"
                             /\ \A d \in Emits : d > pending' => stage'[d] = "new"
    BY <2>1, <2>3 DEF Chained, EmitTypeOK
  <2>9. Chained'
    BY <2>1, <2>3, <2>4, <2>5, <2>7, <2>8 DEF Chained, IsSent
  <2>10. QED BY <2>2, <2>9
<1>3. ASSUME stage[e] = "waiting", SentBefore(e),
             stage' = [stage EXCEPT ![e] = "redacting"],
             UNCHANGED <<redacts, before, pending, sent>>
      PROVE  EmitInv'
  <2>1. EmitTypeOK' /\ SentInOrder'
    BY <1>3 DEF EmitTypeOK, SentInOrder, Stages
  <2>2. stage'[e] = "redacting" /\ \A d \in Emits \ {e} : stage'[d] = stage[d]
    BY <1>1, <1>3
  <2>3. \A d \in Emits : (IsSent(d)' <=> IsSent(d)) /\ (SentBefore(d)' <=> SentBefore(d))
    BY <1>3, <2>2 DEF IsSent, SentBefore
  <2>4. AllSent'
    BY <1>3, <2>3 DEF Chained, AllSent, EmitTypeOK, IsSent
  <2>5. pending # NoEmit
    BY <1>3 DEF Chained, IsSent
  <2>6. Chained'
    BY <1>3, <2>2, <2>3, <2>4, <2>5 DEF Chained, EmitTypeOK
  <2>7. QED BY <2>1, <2>6
<1>4. ASSUME stage[e] \in {"waiting", "redacting"}, SentBefore(e), EmitNow(e),
             UNCHANGED <<redacts, before, pending>>
      PROVE  EmitInv'
  <2>1. stage' = [stage EXCEPT ![e] = "done"] /\ sent' = Append(sent, e) /\ ~IsSent(e)
    BY <1>4 DEF EmitNow, IsSent
  <2>2. /\ sent' \in Seq(Emits) /\ SentInOrder' /\ stage' \in [Emits -> Stages]
        /\ AllSent'
    BY <1>4, <2>1, SendEffect
  <2>3. EmitTypeOK'
    BY <1>4, <2>2 DEF EmitTypeOK
  <2>4. stage'[e] = "done" /\ \A d \in Emits \ {e} : stage'[d] = stage[d]
    BY <1>1, <2>1
  <2>5. \A d \in Emits : (IsSent(d) => IsSent(d)') /\ (SentBefore(d) => SentBefore(d)')
    BY <2>4 DEF IsSent, SentBefore
  <2>6. IsSent(e)' /\ SentBefore(e)'
    BY <1>4, <2>4, <2>5 DEF IsSent
  <2>7. Chained'
    BY <1>4, <2>2, <2>4, <2>5, <2>6 DEF Chained, EmitTypeOK
  <2>8. QED BY <2>2, <2>3, <2>7
<1>5. CASE Run(e)
  <2>1. stage[e] = "waiting" /\ (before[e] # NoEmit => IsSent(before[e]))
        /\ UNCHANGED <<redacts, before, pending>>
    BY <1>5 DEF Run, IsSent
  <2>2. SentBefore(e)
    <3>1. CASE before[e] = NoEmit
      BY <2>1, <3>1 DEF Chained
    <3>2. CASE before[e] # NoEmit
      <4>1. before[e] \in Emits /\ before[e] = e - 1 /\ IsSent(before[e])
        BY <2>1, <3>2 DEF Chained, EmitTypeOK
      <4>2. SentBefore(before[e])
        BY <4>1 DEF Chained, IsSent
      <4>3. QED BY <1>1, <4>1, <4>2, EmitsAreNumbers DEF SentBefore
    <3>3. QED BY <3>1, <3>2
  <2>3. CASE redacts[e]
    BY <1>3, <1>5, <2>1, <2>2, <2>3 DEF Run
  <2>4. CASE ~redacts[e]
    BY <1>4, <1>5, <2>1, <2>2, <2>4 DEF Run
  <2>5. QED BY <2>3, <2>4
<1>6. CASE Redacted(e) \/ RedactionFails(e)
  <2>1. stage[e] = "redacting" /\ EmitNow(e) /\ UNCHANGED <<redacts, before, pending>>
    BY <1>6 DEF Redacted, RedactionFails, SendRedactedAll
  <2>2. SentBefore(e)
    BY <2>1 DEF Chained
  <2>3. QED BY <1>4, <2>1, <2>2
<1>7. QED BY <1>2, <1>5, <1>6 DEF ContinueEmit

LEMMA EmitStep == EmitInv /\ [EmitNext]_emitVars => EmitInv'
<1> SUFFICES ASSUME EmitInv, [EmitNext]_emitVars PROVE EmitInv'
  OBVIOUS
<1>1. CASE UNCHANGED emitVars
  BY <1>1 DEF emitVars, EmitInv, EmitTypeOK, Chained, SentInOrder, SentBefore, IsSent, AllSent
<1>2. QED BY <1>1, CallStep, ContinueStep DEF EmitNext

(* A room is sent everything in the order of the calls and nothing twice,  *)
(* for any number of emits, redactions and delays (WebsocketService        *)
(* sendToRoom, pendingByRoom).                                             *)
THEOREM EmitsKeepTheirOrder == EmitSpec => []SentInOrder
<1>1. EmitInv => SentInOrder
  BY DEF EmitInv
<1>2. QED BY <1>1, EmitStep, EmitInitial, PTL DEF EmitSpec

(* Every variable of both models has its type, in whichever of the two the *)
(* behaviour is.                                                           *)
THEOREM CachesTypeCorrect == CachesSpec => []AllTypesOK
<1>1. CachesInit => Inv /\ EmitInv
  BY InitInv, EmitInitial DEF CachesInit
<1>2. Inv /\ EmitInv /\ [CachesNext]_<<model, vars, emitVars>> => Inv' /\ EmitInv'
  BY InvStep, EmitStep DEF CachesNext
<1>3. Inv /\ EmitInv => AllTypesOK
  BY DEF Inv, EmitInv, AllTypesOK
<1>4. QED BY <1>1, <1>2, <1>3, PTL DEF CachesSpec
=============================================================================

------------------------ MODULE MessageCache_proofs ------------------------
(***************************************************************************)
(* Proof, for any number of messages, sends, tries and lost connections,   *)
(* that a client never shows a message twice, as a placeholder and as a    *)
(* message (NeverBoth), and that no fetch and no late acknowledgement      *)
(* undoes what an event wrote (EventsArePermanent).                        *)
(*                                                                         *)
(* The argument: every row that a client can come to show was stored by    *)
(* then, under the number of a try that was made, so a send that was never *)
(* tried has no row yet when its placeholder is put up.  A deletion is the *)
(* last event of its message.  And a fetch that has read and not been      *)
(* cancelled has read after every event that was handled.                  *)
(***************************************************************************)
EXTENDS MessageCache, TLAPS

-----------------------------------------------------------------------------
(* The inductive invariant                                                 *)

OnTheWay == packets \cup strays
Stored(m) == stored[m] # "none"

(* Tries are numbered as they are made.                                    *)
TriesCounted ==
    /\ \A m \in Own : m \in OnTheWay \/ Stored(m) => m[2] <= tries[m[1]]
    /\ \A s \in Sends : send[s] = "new" => tries[s] = 0

(* A try is handled once: what is on its way, or waits for a connection, is*)
(* not stored.                                                             *)
OnTheWayOnce ==
    /\ packets \cap strays = {}
    /\ \A m \in OnTheWay : ~Stored(m)
    /\ \A s \in Sends : send[s] = "waiting" =>
          tries[s] >= 1 /\ Current(s) \notin OnTheWay /\ ~Stored(Current(s))

(* What the client shows, or is told of, was stored.                       *)
OnlyStored ==
    /\ \A m \in shown \cup result : Stored(m)
    /\ \A i \in 1..Len(incoming) : Stored(incoming[i][2])
    /\ \A e \in heard : Stored(e[2])

(* After a deletion nothing else is told of its message.                   *)
DeleteIsLast ==
    /\ \A e \in heard : e[1] = "delete" =>
          /\ stored[e[2]] = "deleted"
          /\ \A i \in 1..Len(incoming) : incoming[i][2] = e[2] => incoming[i][1] = "delete"
    /\ \A i \in 1..Len(incoming) : incoming[i][1] = "delete" =>
          /\ stored[incoming[i][2]] = "deleted"
          /\ \A j \in i..Len(incoming) :
                incoming[j][2] = incoming[i][2] => incoming[j][1] = "delete"

(* A fetch that has read knows what was handled so far.                    *)
FetchIsRecent ==
    fetch = "read" => \A m \in Messages :
        /\ <<"new", m>> \in heard /\ stored[m] = "there" => m \in result
        /\ <<"delete", m>> \in heard => m \notin result

(* What was deleted is not shown, loaded or not.                           *)
DeletedGone == \A m \in Messages : <<"delete", m>> \in heard => m \notin shown

Inv ==
    /\ WindowTypeOK /\ TriesCounted /\ OnTheWayOnce /\ OnlyStored /\ DeleteIsLast
    /\ FetchIsRecent /\ DeletedGone /\ NeverBoth /\ EventsArePermanent

-----------------------------------------------------------------------------
(* How a step changes what the socket will receive: it appends elements of *)
(* the given kinds about one message, or takes the first element.          *)

Grows(K, m) ==
    /\ Len(incoming) <= Len(incoming')
    /\ \A i \in 1..Len(incoming') :
          IF i <= Len(incoming) THEN incoming'[i] = incoming[i]
                                ELSE incoming'[i][1] \in K /\ incoming'[i][2] = m

Shrinks(kind, m) ==
    /\ Len(incoming) > 0 /\ incoming[1][1] = kind /\ incoming[1][2] = m
    /\ Len(incoming') = Len(incoming) - 1
    /\ \A i \in 1..Len(incoming') : incoming'[i] = incoming[i + 1]

Items == (Events \cup {"ack"}) \X Messages

(* One element is appended or none.                                        *)
LEMMA EmitGrows ==
    ASSUME incoming \in Seq(Items), NEW kind \in Events, NEW m \in Messages,
           incoming' = Emit(kind, m)
    PROVE  incoming' \in Seq(Items) /\ Grows({kind}, m)
<1> <<kind, m>> \in Items
  BY DEF Items
<1> QED BY DEF Emit, Grows

(* A message is created with its event and its acknowledgement.            *)
LEMMA CreateGrows ==
    ASSUME incoming \in Seq(Items), NEW m \in Messages, Create(m)
    PROVE  incoming' \in Seq(Items) /\ Grows({"new", "ack"}, m)
<1> DEFINE n == <<"new", m>>
           a == <<"ack", m>>
<1>1. n \in Items /\ a \in Items
  BY DEF Items, Events
<1>2. \/ incoming' = Append(incoming, a)
      \/ incoming' = Append(Append(incoming, n), a)
      \/ incoming' = incoming \o <<a, n>>
  BY DEF Create, Emit
<1> HIDE DEF n, a
<1>3. /\ incoming' \in Seq(Items) /\ Len(incoming) <= Len(incoming')
      /\ \A i \in 1..Len(incoming') :
            IF i <= Len(incoming) THEN incoming'[i] = incoming[i] ELSE incoming'[i] \in {n, a}
  <2>1. CASE incoming' = Append(incoming, a)
    BY <1>1, <2>1
  <2>2. CASE incoming' = Append(Append(incoming, n), a)
    BY <1>1, <2>2
  <2>3. CASE incoming' = incoming \o <<a, n>>
    BY <1>1, <2>3
  <2> QED BY <1>2, <2>1, <2>2, <2>3
<1> QED BY <1>3 DEF n, a, Grows

LEMMA ReceiveShrinks ==
    ASSUME incoming \in Seq(Items), NEW kind, NEW m, Receive(kind, m)
    PROVE  incoming' \in Seq(Items) /\ Shrinks(kind, m)
BY DEF Receive, Shrinks

-----------------------------------------------------------------------------
(* Types                                                                   *)

LEMMA OwnType ==
    /\ Own \subseteq Messages
    /\ \A m \in Own : m[1] \in Sends /\ m[2] \in 1..MaxTries /\ m = <<m[1], m[2]>>
    /\ \A s \in Sends, a \in 1..MaxTries : <<s, a>> \in Own
BY DEF Own, Messages

(* The initial state has the invariant.                                    *)
LEMMA InitInv == ASSUME WindowInit PROVE Inv
<1> USE OwnType, WindowAssumption DEF WindowInit, WindowAssumption
<1>1. WindowTypeOK
  <2>1. incoming \in Seq((Events \cup {"ack"}) \X Messages)
    OBVIOUS
  <2>2. 0 \in 0..MaxTries /\ 0 \in 0..MaxDrops
    OBVIOUS
  <2>3. /\ stored \in [Messages -> {"none", "there", "deleted"}]
        /\ row \in [Sends -> {"none", "pending", "failed"}]
        /\ send \in [Sends -> SendStates] /\ tries \in [Sends -> 0..MaxTries]
    BY <2>2 DEF SendStates
  <2> QED BY <2>1, <2>2, <2>3 DEF WindowTypeOK
<1>2. TriesCounted /\ OnTheWayOnce /\ OnlyStored
  BY DEF TriesCounted, OnTheWayOnce, OnlyStored, OnTheWay, Stored
<1>3. DeleteIsLast /\ FetchIsRecent /\ DeletedGone
  BY DEF DeleteIsLast, FetchIsRecent, DeletedGone
<1>4. NeverBoth /\ EventsArePermanent
  BY DEF NeverBoth, EventsArePermanent
<1> QED BY <1>1, <1>2, <1>3, <1>4 DEF Inv

(* Tries are counted up to their bound.                                    *)
LEMMA EmittedType ==
    ASSUME WindowTypeOK, NEW s \in Sends, tries[s] < MaxTries, Emitted(s)
    PROVE  /\ tries' \in [Sends -> 0..MaxTries] /\ send' \in [Sends -> SendStates]
           /\ packets' \subseteq Own
           /\ UNCHANGED <<stored, strays, socket, query, heard>>
<1>1. tries[s] + 1 \in 1..MaxTries
  BY WindowAssumption DEF WindowTypeOK, WindowAssumption
<1> QED BY <1>1, OwnType DEF WindowTypeOK, Emitted, SendStates

(* All types are kept.                                                     *)
LEMMA TypeStep ==
    ASSUME WindowTypeOK, TriesCounted, OnTheWayOnce, WindowNext
    PROVE  WindowTypeOK'
<1> USE OwnType DEF server, socket, query, cache, sends
<1>0. incoming \in Seq(Items)
  BY DEF WindowTypeOK, Items
<1>1. ASSUME NEW m \in Others, Post(m) PROVE WindowTypeOK'
  <2>1. incoming' \in Seq(Items)
    BY <1>0, <1>1, EmitGrows DEF Post, Events, Messages
  <2> QED BY <1>1, <2>1 DEF WindowTypeOK, Post, Items
<1>2. ASSUME NEW m \in Own, Create(m) PROVE WindowTypeOK'
  <2>1. incoming' \in Seq(Items)
    BY <1>0, <1>2, CreateGrows
  <2> QED BY <1>2, <2>1 DEF WindowTypeOK, Create, Items
<1>3. ASSUME NEW m \in Own, CreateLate(m) PROVE WindowTypeOK'
  <2>1. incoming' \in Seq(Items)
    BY <1>0, <1>3, EmitGrows DEF CreateLate, Events
  <2> QED BY <1>3, <2>1 DEF WindowTypeOK, CreateLate, Items
<1>4. ASSUME NEW m \in Own, Refuse(m) PROVE WindowTypeOK'
  BY <1>4 DEF WindowTypeOK, Refuse
<1>5. ASSUME NEW m \in Messages, Delete(m) PROVE WindowTypeOK'
  <2>1. incoming' \in Seq(Items)
    BY <1>0, <1>5, EmitGrows DEF Delete, Events
  <2> QED BY <1>5, <2>1 DEF WindowTypeOK, Delete, Items
<1>6. CASE Join
  BY <1>6 DEF WindowTypeOK, Join
<1>7. CASE Drop
  BY <1>7, WindowAssumption DEF WindowTypeOK, Drop, WindowAssumption
<1>8. CASE Reconnect
  <2>1. \A s \in Sends : send[s] = "waiting" => Current(s) \in Own
    BY WindowAssumption DEF OnTheWayOnce, WindowTypeOK, Current, WindowAssumption
  <2>2. packets' \subseteq Own /\ send' \in [Sends -> SendStates]
    BY <1>8, <2>1 DEF WindowTypeOK, Reconnect, SendStates
  <2>3. fetch' \in {"none", "asked", "read", "error"} /\ result' \subseteq Messages
    BY <1>8 DEF WindowTypeOK, Reconnect
  <2> QED BY <1>8, <2>2, <2>3 DEF WindowTypeOK, Reconnect
<1>9. CASE FetchRead
  BY <1>9 DEF WindowTypeOK, FetchRead, There
<1>10. CASE FetchLands
  BY <1>10 DEF WindowTypeOK, FetchLands
<1>11. CASE FetchFails
  BY <1>11 DEF WindowTypeOK, FetchFails
<1>12. ASSUME NEW m \in Messages, HandleNew(m) PROVE WindowTypeOK'
  <2>1. incoming' \in Seq(Items)
    BY <1>0, <1>12, ReceiveShrinks DEF HandleNew
  <2>2. row' \in [Sends -> {"none", "pending", "failed"}]
    BY <1>12 DEF WindowTypeOK, HandleNew, Reconciled
  <2>3. heard' \subseteq Events \X Messages /\ shown' \subseteq Messages
    BY <1>12 DEF WindowTypeOK, HandleNew, Events
  <2> QED BY <1>12, <2>1, <2>2, <2>3 DEF WindowTypeOK, HandleNew, Cancel, Items
<1>13. ASSUME NEW m \in Messages, HandleDelete(m) PROVE WindowTypeOK'
  <2>1. incoming' \in Seq(Items)
    BY <1>0, <1>13, ReceiveShrinks DEF HandleDelete
  <2> QED BY <1>13, <2>1 DEF WindowTypeOK, HandleDelete, Cancel, Items, Events
<1>14. ASSUME NEW m \in Own, HandleAck(m) PROVE WindowTypeOK'
  <2>1. incoming' \in Seq(Items)
    BY <1>0, <1>14, ReceiveShrinks DEF HandleAck
  <2>2. /\ send' \in [Sends -> SendStates] /\ shown' \subseteq Messages
        /\ row' \in [Sends -> {"none", "pending", "failed"}]
    <3>1. CASE send[m[1]] = "sent" /\ m = Current(m[1])
      <4>1. /\ send' = [send EXCEPT ![m[1]] = "done"]
            /\ row' = [row EXCEPT ![m[1]] = "none"]
            /\ shown' \subseteq shown \cup {m}
        BY <1>14, <3>1 DEF HandleAck
      <4>2. send' \in [Sends -> SendStates]
        BY <4>1 DEF WindowTypeOK, SendStates
      <4>3. row' \in [Sends -> {"none", "pending", "failed"}] /\ shown' \subseteq Messages
        BY <4>1 DEF WindowTypeOK
      <4> QED BY <4>2, <4>3
    <3>2. CASE ~(send[m[1]] = "sent" /\ m = Current(m[1]))
      BY <1>14, <3>2 DEF WindowTypeOK, HandleAck
    <3> QED BY <3>1, <3>2
  <2> QED BY <1>14, <2>1, <2>2 DEF WindowTypeOK, HandleAck, Items
<1>15. ASSUME NEW s \in Sends, Send(s) PROVE WindowTypeOK'
  <2>1. tries[s] < MaxTries /\ Emitted(s)
    BY <1>15, WindowAssumption DEF Send, TriesCounted, WindowAssumption
  <2> QED BY <1>15, <2>1, EmittedType DEF WindowTypeOK, Send
<1>16. ASSUME NEW s \in Sends, Retry(s) PROVE WindowTypeOK'
  <2>1. tries[s] < MaxTries /\ Emitted(s)
    BY <1>16 DEF Retry
  <2> QED BY <1>16, <2>1, EmittedType DEF WindowTypeOK, Retry
<1>17. ASSUME NEW s \in Sends, Remove(s) PROVE WindowTypeOK'
  BY <1>17 DEF WindowTypeOK, Remove, SendStates
<1>18. ASSUME NEW s \in Sends, GiveUp(s) PROVE WindowTypeOK'
  BY <1>18 DEF WindowTypeOK, GiveUp, SendStates
<1> QED
  BY <1>1, <1>2, <1>3, <1>4, <1>5, <1>6, <1>7, <1>8, <1>9, <1>10, <1>11, <1>12, <1>13,
     <1>14, <1>15, <1>16, <1>17, <1>18 DEF WindowNext

-----------------------------------------------------------------------------
(* The kinds of steps, as far as the rows and their events are concerned   *)

(* Nothing is stored and nothing shown; the connection or the fetch may be *)
(* lost.                                                                   *)
Quiet ==
    /\ UNCHANGED <<stored, heard, loaded, shown>>
    /\ incoming' = incoming \/ incoming' = <<>>
    /\ UNCHANGED query \/ (fetch' # "read" /\ result' = {})

(* A message is stored, or deleted, and its events are sent.               *)
Makes(m) ==
    /\ ~Stored(m) /\ stored' = [stored EXCEPT ![m] = "there"]
    /\ Grows({"new", "ack"}, m)
    /\ UNCHANGED <<heard, loaded, shown, query>>

Deletes(m) ==
    /\ stored[m] = "there" /\ stored' = [stored EXCEPT ![m] = "deleted"]
    /\ Grows({"delete"}, m)
    /\ UNCHANGED <<heard, loaded, shown, query>>

(* An event is handled.                                                    *)
Hears(kind, m) ==
    /\ Shrinks(kind, m) /\ stored' = stored /\ loaded' = loaded
    /\ \/ fetch' = "none" /\ result' = {}
       \/ UNCHANGED query /\ heard' = heard

(* Every step is of one kind.                                              *)
LEMMA Kinds ==
    ASSUME WindowTypeOK, OnTheWayOnce, WindowNext
    PROVE  \/ Quiet
           \/ \E m \in Messages : Makes(m) \/ Deletes(m)
           \/ \E m \in Messages : Hears("new", m) /\ HandleNew(m)
           \/ \E m \in Messages : Hears("delete", m) /\ HandleDelete(m)
           \/ \E m \in Messages : Hears("ack", m) /\ HandleAck(m)
           \/ FetchRead \/ FetchLands
<1> USE OwnType DEF server, socket, query, cache, sends
<1>0. incoming \in Seq(Items)
  BY DEF WindowTypeOK, Items
<1>1. ASSUME NEW m \in Others, Post(m) PROVE Makes(m) /\ m \in Messages
  <2>1. m \in Messages
    BY DEF Messages
  <2>2. Grows({"new"}, m)
    BY <1>0, <1>1, <2>1, EmitGrows DEF Post, Events
  <2> QED BY <1>1, <2>1, <2>2 DEF Post, Makes, Stored, Grows
<1>2. ASSUME NEW m \in Own, Create(m) PROVE Makes(m)
  BY <1>0, <1>2, CreateGrows DEF Create, Makes, OnTheWayOnce, OnTheWay
<1>3. ASSUME NEW m \in Own, CreateLate(m) PROVE Makes(m)
  <2>1. Grows({"new"}, m)
    BY <1>0, <1>3, EmitGrows DEF CreateLate, Events
  <2> QED BY <1>3, <2>1 DEF CreateLate, Makes, OnTheWayOnce, OnTheWay, Grows
<1>4. ASSUME NEW m \in Messages, Delete(m) PROVE Deletes(m)
  <2>1. Grows({"delete"}, m)
    BY <1>0, <1>4, EmitGrows DEF Delete, Events
  <2> QED BY <1>4, <2>1 DEF Delete, Deletes
<1>5. ASSUME NEW m \in Messages, HandleNew(m) PROVE Hears("new", m)
  BY <1>0, <1>5, ReceiveShrinks DEF HandleNew, Hears, Cancel
<1>6. ASSUME NEW m \in Messages, HandleDelete(m) PROVE Hears("delete", m)
  BY <1>0, <1>6, ReceiveShrinks DEF HandleDelete, Hears, Cancel
<1>7. ASSUME NEW m \in Own, HandleAck(m) PROVE Hears("ack", m)
  BY <1>0, <1>7, ReceiveShrinks DEF HandleAck, Hears
<1>8. CASE \/ Join \/ Drop \/ FetchFails \/ \E m \in Own : Refuse(m)
  BY <1>8 DEF Join, Drop, FetchFails, Refuse, Quiet
<1>9. CASE Reconnect
  BY <1>9 DEF Reconnect, Quiet
<1>10. CASE \E s \in Sends : Send(s) \/ Retry(s) \/ Remove(s) \/ GiveUp(s)
  BY <1>10 DEF Send, Retry, Emitted, Remove, GiveUp, Quiet
<1> QED
  BY <1>1, <1>2, <1>3, <1>4, <1>5, <1>6, <1>7, <1>8, <1>9, <1>10 DEF WindowNext

-----------------------------------------------------------------------------
(* The conjuncts about rows and events                                     *)

LEMMA OnlyStoredStep ==
    ASSUME Inv, WindowNext, WindowTypeOK'
    PROVE  OnlyStored'
<1> USE DEF OnlyStored, Stored
<1>0. /\ OnlyStored /\ stored \in [Messages -> {"none", "there", "deleted"}]
      /\ incoming \in Seq(Items) /\ Len(incoming) \in Nat /\ Len(incoming') \in Nat
      /\ \A i \in 1..Len(incoming) : incoming[i][2] \in Messages
      /\ shown \cup result \subseteq Messages /\ \A e \in heard : e[2] \in Messages
  BY DEF Inv, WindowTypeOK, Items
<1>1. CASE Quiet
  BY <1>0, <1>1 DEF Quiet, query
<1>2. ASSUME NEW m \in Messages, Makes(m) PROVE OnlyStored'
  BY <1>0, <1>2 DEF Makes, Grows, query
<1>3. ASSUME NEW m \in Messages, Deletes(m) PROVE OnlyStored'
  BY <1>0, <1>3 DEF Deletes, Grows, query
<1>4. ASSUME NEW m \in Messages, Hears("new", m), HandleNew(m) PROVE OnlyStored'
  BY <1>0, <1>4 DEF Hears, Shrinks, HandleNew, query
<1>5. ASSUME NEW m \in Messages, Hears("delete", m), HandleDelete(m) PROVE OnlyStored'
  BY <1>0, <1>5 DEF Hears, Shrinks, HandleDelete, query
<1>6. ASSUME NEW m \in Messages, Hears("ack", m), HandleAck(m) PROVE OnlyStored'
  BY <1>0, <1>6 DEF Hears, Shrinks, HandleAck, query
<1>7. CASE FetchRead
  BY <1>0, <1>7 DEF FetchRead, There, server, socket, cache
<1>8. CASE FetchLands
  BY <1>0, <1>8 DEF FetchLands, server, socket
<1> QED BY <1>0, <1>1, <1>2, <1>3, <1>4, <1>5, <1>6, <1>7, <1>8, Kinds DEF Inv

(* Taking the first element keeps what is said of the others.              *)
LEMMA DeleteIsLastShrinks ==
    ASSUME DeleteIsLast, Len(incoming) \in Nat, stored' = stored,
           NEW kind, NEW m, Shrinks(kind, m)
    PROVE  /\ \A e \in heard : e[1] = "delete" =>
                 /\ stored'[e[2]] = "deleted"
                 /\ \A i \in 1..Len(incoming') :
                       incoming'[i][2] = e[2] => incoming'[i][1] = "delete"
           /\ \A i \in 1..Len(incoming') : incoming'[i][1] = "delete" =>
                 /\ stored'[incoming'[i][2]] = "deleted"
                 /\ \A j \in i..Len(incoming') :
                       incoming'[j][2] = incoming'[i][2] => incoming'[j][1] = "delete"
           /\ kind = "delete" =>
                 /\ stored'[m] = "deleted"
                 /\ \A i \in 1..Len(incoming') :
                       incoming'[i][2] = m => incoming'[i][1] = "delete"
<1>1. /\ 1 \in 1..Len(incoming)
      /\ \A i \in 1..Len(incoming') : i + 1 \in 1..Len(incoming) /\ incoming'[i] = incoming[i + 1]
      /\ \A i \in 1..Len(incoming') : \A j \in i..Len(incoming') : j + 1 \in (i + 1)..Len(incoming)
  BY DEF Shrinks
<1>2. \A e \in heard : e[1] = "delete" =>
        /\ stored'[e[2]] = "deleted"
        /\ \A i \in 1..Len(incoming') : incoming'[i][2] = e[2] => incoming'[i][1] = "delete"
  <2> SUFFICES ASSUME NEW e \in heard, e[1] = "delete"
               PROVE  /\ stored'[e[2]] = "deleted"
                      /\ \A i \in 1..Len(incoming') :
                            incoming'[i][2] = e[2] => incoming'[i][1] = "delete"
    OBVIOUS
  <2>1. /\ stored[e[2]] = "deleted"
        /\ \A i \in 1..Len(incoming) : incoming[i][2] = e[2] => incoming[i][1] = "delete"
    BY DEF DeleteIsLast
  <2> QED BY <1>1, <2>1
<1>3. ASSUME NEW i \in 1..Len(incoming'), incoming'[i][1] = "delete"
      PROVE  /\ stored'[incoming'[i][2]] = "deleted"
             /\ \A j \in i..Len(incoming') :
                   incoming'[j][2] = incoming'[i][2] => incoming'[j][1] = "delete"
  <2>1. i + 1 \in 1..Len(incoming) /\ incoming[i + 1][1] = "delete"
    BY <1>1, <1>3
  <2>2. \A j \in i..Len(incoming') : j \in 1..Len(incoming')
    BY DEF Shrinks
  <2>3. /\ stored[incoming[i + 1][2]] = "deleted"
        /\ \A j \in (i + 1)..Len(incoming) :
              incoming[j][2] = incoming[i + 1][2] => incoming[j][1] = "delete"
    BY <2>1 DEF DeleteIsLast
  <2>4. ASSUME NEW j \in i..Len(incoming'), incoming'[j][2] = incoming'[i][2]
        PROVE  incoming'[j][1] = "delete"
    <3>1. incoming'[j] = incoming[j + 1] /\ j + 1 \in (i + 1)..Len(incoming)
      BY <1>1, <2>2
    <3> QED BY <1>1, <2>3, <2>4, <3>1
  <2> QED BY <1>1, <2>3, <2>4
<1>4. kind = "delete" =>
        /\ stored'[m] = "deleted"
        /\ \A i \in 1..Len(incoming') : incoming'[i][2] = m => incoming'[i][1] = "delete"
  BY <1>1 DEF DeleteIsLast, Shrinks
<1> QED BY <1>2, <1>3, <1>4

LEMMA DeleteIsLastStep ==
    ASSUME Inv, WindowNext, WindowTypeOK'
    PROVE  DeleteIsLast'
<1> USE DEF OnlyStored, Stored, DeleteIsLast
<1>0. /\ DeleteIsLast /\ OnlyStored /\ stored \in [Messages -> {"none", "there", "deleted"}]
      /\ incoming \in Seq(Items) /\ Len(incoming) \in Nat /\ Len(incoming') \in Nat
      /\ \A i \in 1..Len(incoming) : incoming[i][2] \in Messages
      /\ \A e \in heard : e[2] \in Messages
  BY DEF Inv, WindowTypeOK, Items
<1>1. CASE Quiet
  BY <1>0, <1>1 DEF Quiet
<1>2. ASSUME NEW m \in Messages, Makes(m) PROVE DeleteIsLast'
  <2>1. /\ ~Stored(m) /\ stored' = [stored EXCEPT ![m] = "there"] /\ UNCHANGED heard
        /\ Grows({"new", "ack"}, m)
    BY <1>2 DEF Makes
  <2>2. QED BY <1>0, <2>1 DEF Grows
<1>3. ASSUME NEW m \in Messages, Deletes(m) PROVE DeleteIsLast'
  <2>1. /\ stored[m] = "there" /\ stored' = [stored EXCEPT ![m] = "deleted"] /\ UNCHANGED heard
        /\ Grows({"delete"}, m)
    BY <1>3 DEF Deletes
  <2>2. QED BY <1>0, <2>1 DEF Grows
<1>4. ASSUME NEW m \in Messages, Hears("new", m), HandleNew(m) PROVE DeleteIsLast'
  <2>1. stored' = stored /\ heard' \subseteq heard \cup {<<"new", m>>}
    BY <1>4 DEF Hears, HandleNew
  <2>2. \A e \in heard' : e[1] = "delete" => e \in heard
    BY <2>1
  <2> QED BY <1>0, <1>4, <2>1, <2>2, DeleteIsLastShrinks DEF Hears
<1>5. ASSUME NEW m \in Messages, Hears("delete", m), HandleDelete(m) PROVE DeleteIsLast'
  <2>1. stored' = stored /\ heard' = heard \cup {<<"delete", m>>}
    BY <1>5 DEF Hears, HandleDelete
  <2>2. \A e \in heard' : e \in heard \/ e[2] = m
    BY <2>1
  <2> QED BY <1>0, <1>5, <2>1, <2>2, DeleteIsLastShrinks DEF Hears
<1>6. ASSUME NEW m \in Messages, Hears("ack", m), HandleAck(m) PROVE DeleteIsLast'
  BY <1>0, <1>6, DeleteIsLastShrinks DEF Hears, HandleAck
<1>7. CASE FetchRead \/ FetchLands
  BY <1>0, <1>7 DEF FetchRead, FetchLands, server, socket
<1> QED BY <1>0, <1>1, <1>2, <1>3, <1>4, <1>5, <1>6, <1>7, Kinds DEF Inv

LEMMA FetchIsRecentStep ==
    ASSUME Inv, WindowNext, WindowTypeOK'
    PROVE  FetchIsRecent'
<1> USE DEF Inv, WindowTypeOK, FetchIsRecent, query
<1>1. CASE Quiet
  BY <1>1 DEF Quiet
<1>2. ASSUME NEW m \in Messages, Makes(m) PROVE FetchIsRecent'
  BY <1>2 DEF Makes, OnlyStored, Stored
<1>3. ASSUME NEW m \in Messages, Deletes(m) PROVE FetchIsRecent'
  BY <1>3 DEF Deletes
<1>4. ASSUME NEW kind, NEW m, Hears(kind, m) PROVE FetchIsRecent'
  BY <1>4 DEF Hears
<1>5. CASE FetchRead
  BY <1>5 DEF FetchRead, There, DeleteIsLast, server
<1>6. CASE FetchLands
  BY <1>6 DEF FetchLands
<1> QED BY <1>1, <1>2, <1>3, <1>4, <1>5, <1>6, Kinds

(* A message that is still told of has not been deleted before.            *)
LEMMA HeardNotDeleted ==
    ASSUME Inv, NEW kind \in {"new", "ack"}, NEW m, Hears(kind, m)
    PROVE  <<"delete", m>> \notin heard
<1> SUFFICES ASSUME <<"delete", m>> \in heard PROVE FALSE
  OBVIOUS
<1> DEFINE e == <<"delete", m>>
<1>1. e \in heard /\ e[1] = "delete" /\ e[2] = m
  OBVIOUS
<1> HIDE DEF e
<1>2. incoming[1][2] = e[2] => incoming[1][1] = "delete"
  <2>1. 1 \in 1..Len(incoming)
    BY DEF Hears, Shrinks, Inv, WindowTypeOK
  <2> QED BY <1>1, <2>1 DEF Inv, DeleteIsLast
<1> QED BY <1>1, <1>2 DEF Hears, Shrinks

(* What an event wrote stays.                                              *)
LEMMA PermanentStep ==
    ASSUME Inv, WindowNext, WindowTypeOK'
    PROVE  DeletedGone' /\ EventsArePermanent'
<1> USE DEF Inv, WindowTypeOK, DeletedGone, EventsArePermanent
<1>1. CASE Quiet
  BY <1>1 DEF Quiet
<1>2. ASSUME NEW m \in Messages, Makes(m) PROVE DeletedGone' /\ EventsArePermanent'
  BY <1>2 DEF Makes, OnlyStored, Stored
<1>3. ASSUME NEW m \in Messages, Deletes(m) PROVE DeletedGone' /\ EventsArePermanent'
  BY <1>3 DEF Deletes
<1>4. ASSUME NEW m \in Messages, Hears("new", m), HandleNew(m)
      PROVE  DeletedGone' /\ EventsArePermanent'
  <2>1. <<"delete", m>> \notin heard
    BY <1>4, HeardNotDeleted
  <2>2. stored' = stored /\ loaded' = loaded
    BY <1>4 DEF Hears
  <2>3. \A x : <<"delete", x>> \in heard' => <<"delete", x>> \in heard
    BY <1>4 DEF HandleNew
  <2>4. CASE loaded
    <3>1. shown' = shown \cup {m} /\ heard' = heard \cup {<<"new", m>>}
      BY <1>4, <2>4 DEF HandleNew
    <3>2. \A x : <<"new", x>> \in heard' => <<"new", x>> \in heard \/ x = m
      BY <3>1
    <3> QED BY <2>1, <2>2, <2>3, <3>1, <3>2
  <2>5. CASE ~loaded
    BY <1>4, <2>2, <2>3, <2>5 DEF HandleNew
  <2> QED BY <2>4, <2>5
<1>5. ASSUME NEW m \in Messages, Hears("delete", m), HandleDelete(m)
      PROVE  DeletedGone' /\ EventsArePermanent'
  <2>1. stored[m] = "deleted"
    BY <1>5 DEF Hears, Shrinks, DeleteIsLast
  <2> QED BY <1>5, <2>1 DEF Hears, HandleDelete
<1>6. ASSUME NEW m \in Messages, Hears("ack", m), HandleAck(m)
      PROVE  DeletedGone' /\ EventsArePermanent'
  <2>1. <<"delete", m>> \notin heard
    BY <1>6, HeardNotDeleted
  <2>2. /\ stored' = stored /\ loaded' = loaded /\ heard' = heard
        /\ shown \subseteq shown' /\ shown' \subseteq shown \cup {m}
    BY <1>6 DEF Hears, HandleAck
  <2> QED BY <2>1, <2>2
<1>7. CASE FetchRead
  BY <1>7 DEF FetchRead, server, cache
<1>8. CASE FetchLands
  BY <1>8 DEF FetchLands, FetchIsRecent, server
<1> QED BY <1>1, <1>2, <1>3, <1>4, <1>5, <1>6, <1>7, <1>8, Kinds

-----------------------------------------------------------------------------
(* The conjuncts about tries                                               *)

(* A try that is made is a new one.                                        *)
LEMMA TriesCountedStep ==
    ASSUME WindowTypeOK, TriesCounted, OnTheWayOnce, WindowNext, WindowTypeOK'
    PROVE  TriesCounted'
<1> USE OwnType DEF TriesCounted, OnTheWay, Stored, server, socket, query, cache, sends
<1>0. /\ stored \in [Messages -> {"none", "there", "deleted"}] /\ tries \in [Sends -> 0..MaxTries]
      /\ send \in [Sends -> SendStates] /\ MaxTries \in Nat
  BY WindowAssumption DEF WindowTypeOK, WindowAssumption
<1>1. ASSUME NEW m \in Others, Post(m) PROVE TriesCounted'
  BY <1>0, <1>1, WindowAssumption DEF Post, WindowAssumption
<1>2. ASSUME NEW m \in Own, Create(m) \/ CreateLate(m) PROVE TriesCounted'
  BY <1>0, <1>2 DEF Create, CreateLate
<1>3. ASSUME NEW m \in Messages, Delete(m) PROVE TriesCounted'
  BY <1>0, <1>3 DEF Delete
<1>4. CASE Reconnect
  <2>1. \A s \in Sends : Current(s)[1] = s /\ Current(s)[2] = tries[s] /\ tries[s] \in Nat
    BY <1>0 DEF Current
  <2>2. \A m \in packets' : m \in packets \/ \E s \in Sends : m = Current(s)
    BY <1>4 DEF Reconnect
  <2>3. \A s \in Sends : send'[s] = "new" => send[s] = "new"
    BY <1>0, <1>4 DEF Reconnect
  <2> QED BY <1>4, <2>1, <2>2, <2>3 DEF Reconnect
<1>5. ASSUME NEW s \in Sends, Emitted(s) PROVE TriesCounted'
  <2> DEFINE n == <<s, tries[s] + 1>>
  <2>1. n[1] = s /\ n[2] = tries[s] + 1
    OBVIOUS
  <2> HIDE DEF n
  <2>2. packets' \subseteq packets \cup {n} /\ strays' = strays /\ stored' = stored
    BY <1>5 DEF Emitted, n
  <2>3. tries' = [tries EXCEPT ![s] = tries[s] + 1]
    BY <1>5 DEF Emitted
  <2>4. \A x \in Sends : tries[x] \in Nat /\ tries'[x] = IF x = s THEN tries[x] + 1 ELSE tries[x]
    BY <1>0, <2>3
  <2>5. \A x \in Sends : send'[x] = "new" => x # s /\ send[x] = "new"
    BY <1>0, <1>5 DEF Emitted
  <2>6. ASSUME NEW m \in Own, m \in packets' \cup strays' \/ stored'[m] # "none"
        PROVE  m[2] <= tries'[m[1]]
    <3>1. CASE m = n
      BY <2>1, <2>4, <3>1
    <3>2. CASE m # n
      BY <2>2, <2>4, <2>6, <3>2
    <3> QED BY <3>1, <3>2
  <2> QED BY <2>4, <2>5, <2>6
<1>6. CASE \/ Join \/ Drop \/ FetchRead \/ FetchLands \/ FetchFails
           \/ \E m \in Own : Refuse(m)
           \/ \E m \in Messages : HandleNew(m) \/ HandleDelete(m)
  BY <1>0, <1>6 DEF Join, Drop, FetchRead, FetchLands, FetchFails, Refuse, HandleNew, HandleDelete
<1>7. ASSUME NEW s \in Sends, Remove(s) \/ GiveUp(s) PROVE TriesCounted'
  BY <1>0, <1>7 DEF Remove, GiveUp
<1>8. ASSUME NEW m \in Own, HandleAck(m) PROVE TriesCounted'
  BY <1>0, <1>8 DEF HandleAck
<1> QED
  BY <1>1, <1>2, <1>3, <1>4, <1>5, <1>6, <1>7, <1>8 DEF WindowNext, Send, Retry

(* A try is handled once.                                                  *)
LEMMA OnTheWayOnceStep ==
    ASSUME WindowTypeOK, TriesCounted, OnTheWayOnce, WindowNext, WindowTypeOK'
    PROVE  OnTheWayOnce'
<1> USE OwnType DEF OnTheWayOnce, OnTheWay, Stored, Current, server, socket, query, cache, sends
<1>0. /\ stored \in [Messages -> {"none", "there", "deleted"}] /\ tries \in [Sends -> 0..MaxTries]
      /\ send \in [Sends -> SendStates] /\ MaxTries \in Nat
      /\ packets \subseteq Own /\ strays \subseteq Own
      /\ \A s \in Sends : send[s] = "waiting" => Current(s) \in Own
  BY WindowAssumption DEF WindowTypeOK, WindowAssumption
<1>1. ASSUME NEW m \in Others, Post(m) PROVE OnTheWayOnce'
  BY <1>0, <1>1, WindowAssumption DEF Post, WindowAssumption
<1>2. ASSUME NEW m \in Own, Create(m) \/ CreateLate(m) PROVE OnTheWayOnce'
  BY <1>0, <1>2 DEF Create, CreateLate
<1>3. ASSUME NEW m \in Messages, Delete(m) PROVE OnTheWayOnce'
  BY <1>0, <1>3 DEF Delete
<1>4. CASE Reconnect
  <2>1. \A s \in Sends : send'[s] # "waiting"
    BY <1>0, <1>4 DEF Reconnect
  <2>2. \A m \in packets' : m \in packets \/ \E s \in Sends : send[s] = "waiting" /\ m = Current(s)
    BY <1>4 DEF Reconnect
  <2> QED BY <1>4, <2>1, <2>2 DEF Reconnect
<1>5. ASSUME NEW s \in Sends, tries[s] < MaxTries, Emitted(s) PROVE OnTheWayOnce'
  <2> DEFINE n == <<s, tries[s] + 1>>
  <2>1. n[1] = s /\ n[2] = tries[s] + 1 /\ tries[s] \in Nat /\ n \in Own
    BY <1>0, <1>5
  <2>2. n \notin packets \cup strays /\ stored[n] = "none"
    BY <2>1 DEF TriesCounted
  <2>3. /\ strays' = strays /\ stored' = stored
        /\ packets' = packets \/ (packets' = packets \cup {n} /\ send'[s] = "sent")
    BY <1>0, <1>5 DEF Emitted
  <2>4. \A x \in Sends : tries'[x] = IF x = s THEN tries[x] + 1 ELSE tries[x]
    BY <1>0, <1>5 DEF Emitted
  <2>5. \A x \in Sends : x # s => send'[x] = send[x]
    BY <1>0, <1>5 DEF Emitted
  <2>6. ASSUME NEW x \in Sends, send'[x] = "waiting"
        PROVE  /\ tries'[x] >= 1 /\ <<x, tries'[x]>> \notin packets' \cup strays'
               /\ stored'[<<x, tries'[x]>>] = "none"
    <3>1. CASE x = s
      BY <2>1, <2>2, <2>3, <2>4, <2>6, <3>1
    <3>2. CASE x # s
      <4>1. send[x] = "waiting" /\ tries'[x] = tries[x]
        BY <2>4, <2>5, <2>6, <3>2
      <4>2. <<x, tries[x]>> # n
        BY <3>2
      <4> QED BY <2>3, <4>1, <4>2
    <3> QED BY <3>1, <3>2
  <2> HIDE DEF n
  <2> QED BY <2>2, <2>3, <2>6
<1>6. CASE \/ Join \/ Drop \/ FetchRead \/ FetchLands \/ FetchFails
           \/ \E m \in Own : Refuse(m)
           \/ \E m \in Messages : HandleNew(m) \/ HandleDelete(m)
  BY <1>0, <1>6 DEF Join, Drop, FetchRead, FetchLands, FetchFails, Refuse, HandleNew, HandleDelete
<1>7. ASSUME NEW s \in Sends, Remove(s) \/ GiveUp(s) PROVE OnTheWayOnce'
  BY <1>0, <1>7 DEF Remove, GiveUp
<1>8. ASSUME NEW m \in Own, HandleAck(m) PROVE OnTheWayOnce'
  BY <1>0, <1>8 DEF HandleAck
<1>9. ASSUME NEW s \in Sends, Send(s) \/ Retry(s) PROVE tries[s] < MaxTries /\ Emitted(s)
  BY <1>9, WindowAssumption DEF Send, Retry, TriesCounted, WindowAssumption
<1> QED
  BY <1>1, <1>2, <1>3, <1>4, <1>5, <1>6, <1>7, <1>8, <1>9 DEF WindowNext

(* A placeholder is put up before any row of its send, and goes with the   *)
(* first.                                                                  *)
LEMMA NeverBothStep ==
    ASSUME Inv, WindowNext
    PROVE  NeverBoth'
<1> USE OwnType DEF NeverBoth, server, socket, query, cache, sends
<1>0. /\ NeverBoth /\ row \in [Sends -> {"none", "pending", "failed"}]
      /\ MaxTries \in Nat /\ tries \in [Sends -> 0..MaxTries]
  BY WindowAssumption DEF Inv, WindowTypeOK, WindowAssumption
<1>1. ASSUME NEW m \in Messages, HandleNew(m) PROVE NeverBoth'
  <2>1. CASE m \in Own \ shown /\ loaded
    <3>1. shown' = shown \cup {m} /\ row' = [row EXCEPT ![m[1]] = "none"]
      BY <1>1, <2>1 DEF HandleNew, Reconciled
    <3>2. \A s \in Sends, a \in 1..MaxTries : <<s, a>> = m => s = m[1]
      OBVIOUS
    <3> QED BY <1>0, <2>1, <3>1, <3>2
  <2>2. CASE ~(m \in Own \ shown /\ loaded)
    BY <1>0, <1>1, <2>2 DEF HandleNew, Reconciled
  <2> QED BY <2>1, <2>2
<1>2. ASSUME NEW m \in Own, HandleAck(m) PROVE NeverBoth'
  <2>1. CASE send[m[1]] = "sent" /\ m = Current(m[1])
    <3>1. shown' \subseteq shown \cup {m} /\ row' = [row EXCEPT ![m[1]] = "none"]
      BY <1>2, <2>1 DEF HandleAck
    <3>2. \A s \in Sends, a \in 1..MaxTries : <<s, a>> = m => s = m[1]
      OBVIOUS
    <3> QED BY <1>0, <3>1, <3>2
  <2>2. CASE ~(send[m[1]] = "sent" /\ m = Current(m[1]))
    BY <1>0, <1>2, <2>2 DEF HandleAck
  <2> QED BY <2>1, <2>2
<1>3. ASSUME NEW s \in Sends, Send(s) PROVE NeverBoth'
  <2>1. tries[s] = 0
    BY <1>3 DEF Send, Inv, TriesCounted
  <2>2. ASSUME NEW a \in 1..MaxTries PROVE <<s, a>> \notin shown
    <3> DEFINE m == <<s, a>>
    <3>1. m \in Own /\ m[1] = s /\ m[2] = a
      OBVIOUS
    <3>2. Stored(m) => a <= 0
      BY <2>1, <3>1 DEF Inv, TriesCounted
    <3> QED BY <1>0, <3>2 DEF Inv, OnlyStored
  <2> QED BY <1>0, <1>3, <2>2 DEF Send
<1>4. ASSUME NEW s \in Sends, Retry(s) \/ Remove(s) \/ GiveUp(s) PROVE NeverBoth'
  BY <1>0, <1>4 DEF Retry, Remove, GiveUp
<1>5. CASE \/ Join \/ Drop \/ Reconnect \/ FetchRead \/ FetchLands \/ FetchFails
           \/ \E m \in Others : Post(m)
           \/ \E m \in Own : Create(m) \/ CreateLate(m) \/ Refuse(m)
           \/ \E m \in Messages : Delete(m) \/ HandleDelete(m)
  BY <1>0, <1>5 DEF Join, Drop, Reconnect, FetchRead, FetchLands, FetchFails, Post, Create,
     CreateLate, Refuse, Delete, HandleDelete
<1> QED BY <1>1, <1>2, <1>3, <1>4, <1>5 DEF WindowNext

LEMMA InvStep == Inv /\ [WindowNext]_windowVars => Inv'
<1> SUFFICES ASSUME Inv, [WindowNext]_windowVars PROVE Inv'
  OBVIOUS
<1>1. CASE WindowNext
  <2>1. WindowTypeOK'
    BY <1>1, TypeStep DEF Inv
  <2> QED
    BY <1>1, <2>1, TriesCountedStep, OnTheWayOnceStep, OnlyStoredStep, DeleteIsLastStep,
       FetchIsRecentStep, PermanentStep, NeverBothStep DEF Inv
<1>2. CASE UNCHANGED windowVars
  BY <1>2 DEF windowVars, server, socket, query, cache, sends, Inv, WindowTypeOK, TriesCounted,
     OnTheWayOnce, OnTheWay, Stored, Current, OnlyStored, DeleteIsLast, FetchIsRecent,
     DeletedGone, NeverBoth, EventsArePermanent
<1> QED BY <1>1, <1>2

-----------------------------------------------------------------------------
(* The theorems                                                            *)

(* The inductive invariant holds in every state.                           *)
THEOREM Invariance == WindowSpec => []Inv
BY InitInv, InvStep, PTL DEF WindowSpec

(* Every variable has its type.                                            *)
THEOREM TypeCorrect == WindowSpec => []WindowTypeOK
<1>1. Inv => WindowTypeOK
  BY DEF Inv
<1> QED BY <1>1, Invariance, PTL

(* What the user sends is shown once: as a placeholder, or as a message    *)
(* (prependOrReconcileOptimistic, reconcileAfterSend).                     *)
THEOREM ShownOnce == WindowSpec => []NeverBoth
<1>1. Inv => NeverBoth
  BY DEF Inv
<1> QED BY <1>1, Invariance, PTL

(* What an event wrote stays written, whatever fetches were under way      *)
(* (handleNewMessage, handleDeleteMessage).                                *)
THEOREM EventsStay == WindowSpec => []EventsArePermanent
<1>1. Inv => EventsArePermanent
  BY DEF Inv
<1> QED BY <1>1, Invariance, PTL
=============================================================================

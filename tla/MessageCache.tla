---------------------------- MODULE MessageCache ----------------------------
(***************************************************************************)
(* The messages of ONE channel as one client shows them: the query cache   *)
(* of its window, at the live edge, against the server's rows              *)
(* (src/frontend/src/socket-hub/, utils/messageCacheUpdaters.ts,           *)
(* utils/optimisticSend.ts, hooks/useSendMessage.ts and                    *)
(* hooks/useOptimisticSendMessage.ts; the server's side is                 *)
(* src/backend/src/messages/messages.gateway.ts).                          *)
(*                                                                         *)
(* Three writers share the cache: events of the socket, fetches that were  *)
(* read some time ago, and the user's own sends, whose placeholder is      *)
(* replaced by the first of an acknowledgement and an event.               *)
(*                                                                         *)
(* A handler cancels the query's fetch and writes the cache before anything*)
(* else can run: what it awaits is settled at once.                        *)
(***************************************************************************)
EXTENDS Naturals, Sequences, FiniteSets

CONSTANTS
    Others,         \* messages of other users
    Sends,          \* messages the user writes; no two have the same content
    MaxTries,       \* bound: how often one is sent, with its retries
    MaxDrops        \* bound: how often the connection is lost

VARIABLES
    stored,         \* of each message, the server's row: "none", "there", "deleted"
    link,           \* the socket: "down", "up", or "joined": it is in the room
    drops,
    incoming,       \* what the socket will receive, in order
    packets,        \* SEND_MESSAGEs sent over this connection and not handled yet
    strays,         \* and those sent over an earlier one
    fetch,          \* the query's fetch: "none", "asked", "read" or "error"
    result,         \* what it read
    loaded,         \* the query has data:
    shown,          \*   rows of the server's messages
    row,            \*   placeholders: "none", "pending" or "failed"
    send,           \* of each send, its promise: see SendStates
    tries,          \* how often it was sent
    placed,         \* history: sends that got a placeholder
    heard           \* history: events that wrote the cache

server == <<stored, packets, strays>>
socket == <<link, drops, incoming>>
query == <<fetch, result>>
cache == <<loaded, shown, row>>
sends == <<send, tries, placed>>
windowVars == <<server, socket, query, cache, sends, heard>>

(* Each of its tries the server handles makes a message of its own.        *)
Own == Sends \X (1..MaxTries)
Messages == Others \cup Own

ASSUME WindowAssumption ==
    MaxTries \in Nat \ {0} /\ MaxDrops \in Nat /\ Others \cap Own = {}

Events == {"new", "delete"}

(* "waiting" for a connection, "sent" and not acknowledged; "failed" may   *)
(* be retried.                                                             *)
SendStates == {"new", "waiting", "sent", "failed", "done", "removed"}
Current(s) == <<s, tries[s]>>

WindowTypeOK ==
    /\ stored \in [Messages -> {"none", "there", "deleted"}]
    /\ packets \subseteq Own /\ strays \subseteq Own
    /\ link \in {"down", "up", "joined"} /\ drops \in 0..MaxDrops
    /\ incoming \in Seq((Events \cup {"ack"}) \X Messages)
    /\ fetch \in {"none", "asked", "read", "error"} /\ result \subseteq Messages
    /\ loaded \in BOOLEAN /\ shown \subseteq Messages
    /\ row \in [Sends -> {"none", "pending", "failed"}]
    /\ send \in [Sends -> SendStates] /\ tries \in [Sends -> 0..MaxTries]
    /\ placed \subseteq Sends /\ heard \subseteq Events \X Messages

(* The user opens the channel.                                             *)
WindowInit ==
    /\ stored = [m \in Messages |-> "none"]
    /\ packets = {} /\ strays = {}
    /\ link = "joined" /\ drops = 0 /\ incoming = <<>>
    /\ fetch = "asked" /\ result = {}
    /\ loaded = FALSE /\ shown = {} /\ row = [s \in Sends |-> "none"]
    /\ send = [s \in Sends |-> "new"] /\ tries = [s \in Sends |-> 0]
    /\ placed = {} /\ heard = {}

-----------------------------------------------------------------------------
(* The server                                                              *)

There == {m \in Messages : stored[m] = "there"}

Emit(kind, m) ==
    IF link = "joined" THEN Append(incoming, <<kind, m>>) ELSE incoming

Post(m) ==
    /\ stored[m] = "none"
    /\ stored' = [stored EXCEPT ![m] = "there"]
    /\ incoming' = Emit("new", m)
    /\ UNCHANGED <<packets, strays, link, drops, query, cache, sends, heard>>

(* handleMessage: the row, the event, the acknowledgement.  A message with *)
(* mentions is redacted first, and acknowledged before its event.          *)
Create(m) ==
    /\ m \in packets
    /\ packets' = packets \ {m}
    /\ stored' = [stored EXCEPT ![m] = "there"]
    /\ \/ incoming' = Append(Emit("new", m), <<"ack", m>>)
       \/ incoming' = IF link = "joined"
                      THEN incoming \o <<<<"ack", m>>, <<"new", m>>>>
                      ELSE Append(incoming, <<"ack", m>>)
    /\ UNCHANGED <<strays, link, drops, query, cache, sends, heard>>

(* The connection it came by is gone, and the acknowledgement with it.     *)
CreateLate(m) ==
    /\ m \in strays
    /\ strays' = strays \ {m}
    /\ stored' = [stored EXCEPT ![m] = "there"]
    /\ incoming' = Emit("new", m)
    /\ UNCHANGED <<packets, link, drops, query, cache, sends, heard>>

(* Timed out, slow mode, not allowed: an exception, and no acknowledgement.*)
Refuse(m) ==
    /\ m \in packets \cup strays
    /\ packets' = packets \ {m} /\ strays' = strays \ {m}
    /\ UNCHANGED <<stored, socket, query, cache, sends, heard>>

Delete(m) ==
    /\ stored[m] = "there"
    /\ stored' = [stored EXCEPT ![m] = "deleted"]
    /\ incoming' = Emit("delete", m)
    /\ UNCHANGED <<packets, strays, link, drops, query, cache, sends, heard>>

(* SUBSCRIBE_ALL is handled.                                               *)
Join ==
    /\ link = "up"
    /\ link' = "joined"
    /\ UNCHANGED <<server, drops, incoming, query, cache, sends, heard>>

-----------------------------------------------------------------------------
(* The connection                                                          *)

Drop ==
    /\ link # "down" /\ drops < MaxDrops
    /\ link' = "down" /\ drops' = drops + 1 /\ incoming' = <<>>
    /\ packets' = {} /\ strays' = strays \cup packets
    /\ UNCHANGED <<stored, query, cache, sends, heard>>

(* handleReconnect invalidates the query, which fetches again, and instead *)
(* of a fetch that runs if there are data.  What waited is sent.           *)
Reconnect ==
    LET waiting == {s \in Sends : send[s] = "waiting"}
    IN /\ link = "down"
       /\ link' = "up"
       /\ IF loaded \/ fetch \in {"none", "error"} THEN fetch' = "asked" /\ result' = {}
          ELSE UNCHANGED query
       /\ send' = [s \in Sends |-> IF s \in waiting THEN "sent" ELSE send[s]]
       /\ packets' = packets \cup {Current(s) : s \in waiting}
       /\ UNCHANGED <<stored, strays, drops, incoming, cache, tries, placed, heard>>

-----------------------------------------------------------------------------
(* The fetch.  Its result replaces what the cache holds.                   *)

FetchRead ==
    /\ fetch = "asked"
    /\ fetch' = "read" /\ result' = There
    /\ UNCHANGED <<server, socket, cache, sends, heard>>

FetchLands ==
    /\ fetch = "read"
    /\ fetch' = "none" /\ result' = {}
    /\ loaded' = TRUE /\ shown' = result
    /\ row' = [s \in Sends |-> "none"]
    /\ UNCHANGED <<server, socket, sends, heard>>

FetchFails ==
    /\ fetch \in {"asked", "read"}
    /\ fetch' = "error" /\ result' = {}
    /\ UNCHANGED <<server, socket, cache, sends, heard>>

-----------------------------------------------------------------------------
(* What the socket receives                                                *)

Receive(kind, m) ==
    /\ incoming # <<>> /\ Head(incoming) = <<kind, m>>
    /\ incoming' = Tail(incoming)

(* cancelQueries.  (A definition named Mutant... is the same code with a   *)
(* bug put in, which some property notices.)                               *)
MutantNoCancel == UNCHANGED query
Cancel == fetch' = "none" /\ result' = {}

(* prependOrReconcileOptimistic: the row is merged by its id, or takes the *)
(* place of the placeholder with its content, or is new.                   *)
MutantPrependOnly(m) == row
Reconciled(m) ==
    IF m \in Own \ shown THEN [row EXCEPT ![m[1]] = "none"] ELSE row

HandleNew(m) ==
    /\ Receive("new", m)
    /\ Cancel
    /\ IF loaded
       THEN shown' = shown \cup {m} /\ row' = Reconciled(m) /\ heard' = heard \cup {<<"new", m>>}
       ELSE UNCHANGED <<shown, row, heard>>
    /\ UNCHANGED <<server, link, drops, loaded, sends>>

HandleDelete(m) ==
    /\ Receive("delete", m)
    /\ Cancel
    /\ shown' = shown \ {m}
    /\ heard' = heard \cup {<<"delete", m>>}
    /\ UNCHANGED <<server, link, drops, loaded, row, sends>>

(* reconcileAfterSend.  It cancels nothing.  An acknowledgement after the  *)
(* timeout is ignored.                                                     *)
HandleAck(m) ==
    LET s == m[1]
    IN /\ Receive("ack", m)
       /\ IF send[s] = "sent" /\ m = Current(s)
          THEN /\ send' = [send EXCEPT ![s] = "done"]
               /\ row' = [row EXCEPT ![s] = "none"]
               /\ shown' = IF row[s] = "none" THEN shown ELSE shown \cup {m}
          ELSE UNCHANGED <<send, row, shown>>
       /\ UNCHANGED <<server, link, drops, query, loaded, tries, placed, heard>>

-----------------------------------------------------------------------------
(* Sends                                                                   *)

(* useSendMessage: emit, or wait for a connection.                         *)
Emitted(s) ==
    /\ tries' = [tries EXCEPT ![s] = @ + 1]
    /\ send' = [send EXCEPT ![s] = IF link = "down" THEN "waiting" ELSE "sent"]
    /\ packets' = IF link = "down" THEN packets
                  ELSE packets \cup {<<s, tries[s] + 1>>}
    /\ UNCHANGED <<stored, strays, socket, query, heard>>

(* Without data there is no placeholder.                                   *)
Send(s) ==
    /\ send[s] = "new"
    /\ IF loaded
       THEN row' = [row EXCEPT ![s] = "pending"] /\ placed' = placed \cup {s}
       ELSE UNCHANGED <<row, placed>>
    /\ Emitted(s)
    /\ UNCHANGED <<loaded, shown>>

(* The buttons of a failed row.                                            *)
Retry(s) ==
    /\ row[s] = "failed" /\ send[s] = "failed" /\ tries[s] < MaxTries
    /\ row' = [row EXCEPT ![s] = "pending"]
    /\ Emitted(s)
    /\ UNCHANGED <<loaded, shown, placed>>

Remove(s) ==
    /\ row[s] = "failed"
    /\ row' = [row EXCEPT ![s] = "none"]
    /\ send' = [send EXCEPT ![s] = "removed"]
    /\ UNCHANGED <<server, socket, query, loaded, shown, tries, placed, heard>>

(* 5 s without a connection, or 10 s without an acknowledgement.           *)
GiveUp(s) ==
    /\ send[s] \in {"waiting", "sent"}
    /\ send' = [send EXCEPT ![s] = "failed"]
    /\ row' = IF row[s] = "none" THEN row
              ELSE [row EXCEPT ![s] = "failed"]
    /\ UNCHANGED <<server, socket, query, loaded, shown, tries, placed, heard>>

-----------------------------------------------------------------------------
WindowNext ==
    \/ \E m \in Others : Post(m)
    \/ \E m \in Own : Create(m) \/ CreateLate(m) \/ Refuse(m) \/ HandleAck(m)
    \/ \E m \in Messages : Delete(m) \/ HandleNew(m) \/ HandleDelete(m)
    \/ Join \/ Drop \/ Reconnect
    \/ FetchRead \/ FetchLands \/ FetchFails
    \/ \E s \in Sends : Send(s) \/ Retry(s) \/ Remove(s) \/ GiveUp(s)

WindowSpec == WindowInit /\ [][WindowNext]_windowVars

-----------------------------------------------------------------------------
(* Properties                                                              *)

(* A message the user sent is there once, as a placeholder or as a message:*)
(* "no render can ever show both" (messageCacheUpdaters.ts:83-86), in      *)
(* whatever order its event, its acknowledgement, the timeout, a retry and *)
(* a fetch reach the cache.                                                *)
NeverBoth ==
    \A s \in Sends : row[s] # "none" =>
        \A a \in 1..MaxTries : <<s, a>> \notin shown

(* What an event wrote stays written: no fetch that read the rows before   *)
(* takes it back (handlers cancel the query's fetch).                      *)
EventsArePermanent ==
    loaded => \A m \in Messages :
        /\ <<"new", m>> \in heard /\ stored[m] = "there" => m \in shown
        /\ <<"delete", m>> \in heard => m \notin shown

(* "an unreconciled optimistic row is still safe: it resolves via its own  *)
(* ack (exact clientId) or eventually times out to 'failed'"               *)
(* (messageCacheUpdaters.ts:194-198), which "IS the error affordance"      *)
(* (useMessageFileUpload.ts:73-75): a send that failed and reached nobody  *)
(* is still there to be retried, unless the user removed it.               *)
FailedSendIsShown ==
    \A s \in placed : send[s] = "failed" /\ (\A a \in 1..MaxTries : stored[<<s, a>>] = "none")
        => row[s] = "failed"
=============================================================================

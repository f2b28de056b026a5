----------------------------- MODULE EmitOrder -----------------------------
(***************************************************************************)
(* WebsocketService.sendToRoom for ONE room                                *)
(* (src/backend/src/websocket/websocket.service.ts): a payload with channel*)
(* mentions is redacted for the room's audience first, which takes queries;*)
(* what is sent to the room meanwhile waits behind it in a chain of        *)
(* promises, whose last one pendingByRoom holds.                           *)
(*                                                                         *)
(* Callbacks of a promise (`then', `finally') run as microtasks: some time *)
(* after it settled, between any two calls.                                *)
(***************************************************************************)
EXTENDS Naturals, Sequences

CONSTANTS
    MaxEmits,       \* bound: calls of sendToRoom; the i-th is emit i
    NoEmit

ASSUME EmitAssumption == MaxEmits \in Nat /\ NoEmit \notin Nat

VARIABLES
    redacts,        \* of each emit: it carries channel mentions
    stage,          \* of each emit: see Stages
    before,         \* of each emit: the one whose promise it waits for
    pending,        \* pendingByRoom: the emit whose promise is the last
    sent            \* what the room was sent, in order

emitVars == <<redacts, stage, before, pending, sent>>

Emits == 1..MaxEmits

(* "done": its promise is settled; "over": and its `finally' has run.      *)
Stages == {"new", "waiting", "redacting", "done", "over"}

EmitTypeOK ==
    /\ redacts \in [Emits -> BOOLEAN]
    /\ stage \in [Emits -> Stages]
    /\ before \in [Emits -> Emits \cup {NoEmit}]
    /\ pending \in Emits \cup {NoEmit}
    /\ sent \in Seq(Emits)

EmitInit ==
    /\ redacts \in [Emits -> BOOLEAN]
    /\ stage = [e \in Emits |-> "new"]
    /\ before = [e \in Emits |-> NoEmit]
    /\ pending = NoEmit /\ sent = <<>>

EmitNow(e) ==
    /\ stage' = [stage EXCEPT ![e] = "done"]
    /\ sent' = Append(sent, e)

(* Calls come one after the other.                                         *)
IsNext(e) == stage[e] = "new" /\ \A d \in 1..(e - 1) : stage[d] # "new"

(* Whether a call is done at once.  (A definition named Mutant... is the   *)
(* same code with a bug put in, which some property notices.)              *)
MutantPlainAtOnce(e) == ~redacts[e]
AtOnce(e) == ~redacts[e] /\ pending = NoEmit

SendNow(e) ==
    /\ IsNext(e) /\ AtOnce(e)
    /\ sent' = Append(sent, e)
    /\ stage' = [stage EXCEPT ![e] = "over"]
    /\ UNCHANGED <<redacts, before, pending>>

SendLater(e) ==
    /\ IsNext(e) /\ ~AtOnce(e)
    /\ stage' = [stage EXCEPT ![e] = "waiting"]
    /\ before' = [before EXCEPT ![e] = pending]
    /\ pending' = e
    /\ UNCHANGED <<redacts, sent>>

(* The `then' callback: without a redaction it emits at once.              *)
Run(e) ==
    /\ stage[e] = "waiting"
    /\ before[e] # NoEmit => stage[before[e]] \in {"done", "over"}
    /\ IF redacts[e]
       THEN stage' = [stage EXCEPT ![e] = "redacting"] /\ UNCHANGED sent
       ELSE EmitNow(e)
    /\ UNCHANGED <<redacts, before, pending>>

Redacted(e) ==
    /\ stage[e] = "redacting"
    /\ EmitNow(e)
    /\ UNCHANGED <<redacts, before, pending>>

(* "Never drop a live message": it is sent with every mention removed.     *)
MutantDropped(e) == stage' = [stage EXCEPT ![e] = "done"] /\ UNCHANGED sent
SendRedactedAll(e) == EmitNow(e)

RedactionFails(e) ==
    /\ stage[e] = "redacting"
    /\ SendRedactedAll(e)
    /\ UNCHANGED <<redacts, before, pending>>

Finally(e) ==
    /\ stage[e] = "done"
    /\ stage' = [stage EXCEPT ![e] = "over"]
    /\ pending' = IF pending = e THEN NoEmit ELSE pending
    /\ UNCHANGED <<redacts, before, sent>>

ContinueEmit(e) == Run(e) \/ Redacted(e) \/ RedactionFails(e) \/ Finally(e)

EmitNext == \E e \in Emits : SendNow(e) \/ SendLater(e) \/ ContinueEmit(e)

(* Microtasks run, and a query answers or fails.                           *)
EmitFairness == \A e \in Emits : WF_emitVars(ContinueEmit(e))

EmitSpec == EmitInit /\ [][EmitNext]_emitVars /\ EmitFairness

-----------------------------------------------------------------------------
(* Properties                                                              *)

(* "later emits to the same room wait behind it, so order is preserved"    *)
(* (websocket.service.ts:31-35): the room is sent everything in the order  *)
(* of the calls, and nothing twice, however long redactions take.          *)
SentInOrder == \A i, j \in 1..Len(sent) : i < j => sent[i] < sent[j]

(* Every emit that was asked for is sent, also when its redaction or that  *)
(* of one before it fails, and the chain of the room is then forgotten:    *)
(* over and over the room has caught up with the calls.                    *)
EverythingSent ==
    []<>(pending = NoEmit /\ \A e \in Emits :
            stage[e] = "new" \/ \E i \in 1..Len(sent) : sent[i] = e)
=============================================================================

------------------------------- MODULE WsPump -------------------------------
(***************************************************************************)
(* One upgraded WebSocket connection (src/websocket.rs): the pump task     *)
(* that moves messages between the socket and the two queues, the byte     *)
(* budget of each queue, the Python object whose recv/send/close the       *)
(* handler calls on its own thread, and the close.                         *)
(*                                                                         *)
(* A message is a record of its number in its direction, its kind and its  *)
(* length.  Overhead is MESSAGE_OVERHEAD_BYTES in the model's units.       *)
(***************************************************************************)
EXTENDS Naturals, Sequences, SequencesExt, Sums

CONSTANTS
    MaxMessage,    \* max_websocket_message_size
    Overhead,      \* charged per queued message
    MaxIn,         \* bound: messages the client sends
    MaxOut         \* bound: messages the handler sends

ASSUME PumpAssumption ==
    /\ MaxMessage \in Nat \ {0} /\ Overhead \in Nat \ {0}
    /\ MaxIn \in Nat /\ MaxOut \in Nat

Kinds    == {"text", "binary"}
Messages == [n : 1 .. MaxIn + MaxOut, kind : Kinds, len : 0 .. MaxMessage]
NoMsg    == [n |-> 0, kind |-> "none", len |-> 0]

VARIABLES
    wire,      \* what the client sent and the pump has not read
    clientIn,  \* history: messages the client sent
    inq,       \* the incoming queue
    inFree,    \* incoming byte budget left
    held,      \* Inbox.held, or NoMsg
    got,       \* history: what recv returned
    outq,      \* the outgoing queue
    outFree,   \* outgoing byte budget left
    accepted,  \* history: messages send() took
    delivered, \* history: messages written to the socket
    pump,      \* the pump: select, forward, send, closing, closed
    moving,    \* the message it forwards or sends
    why,       \* why it left its loop
    outbox,    \* the handler can still send: the outbox was not closed
    inbox      \* the handler's Inbox is alive

inVars  == <<wire, clientIn, inq, inFree, held, got>>
outVars == <<outq, outFree, accepted, delivered>>
wpVars == <<inVars, outVars, pump, moving, why, outbox, inbox>>

(* ByteBudget::new and ByteBudget::cost.                                   *)
Budget  == MaxMessage + Overhead
Cost(m) == m.len + Overhead

(* Bytes reserved by the messages of a queue.                              *)
Reserved(q) == SumOver([k \in DOMAIN q |-> Cost(q[k])], DOMAIN q)

WpInit ==
    /\ wire = <<>> /\ clientIn = <<>>
    /\ inq = <<>> /\ inFree = Budget /\ held = NoMsg /\ got = <<>>
    /\ outq = <<>> /\ outFree = Budget /\ accepted = <<>> /\ delivered = <<>>
    /\ pump = "select" /\ moving = NoMsg /\ why = "none"
    /\ outbox = TRUE /\ inbox = TRUE

-----------------------------------------------------------------------------
(* The client.                                                             *)

(* A message, or what ends the stream: "over" stands for a frame past the  *)
(* limit, "close" for a close frame or the end of the stream, "error" for  *)
(* a read error.                                                           *)
ClientSends ==
    /\ pump \notin {"closing", "closed"}
    /\ \A k \in DOMAIN wire : wire[k].n > 0
    /\ \/ /\ Len(clientIn) < MaxIn
          /\ \E k \in Kinds, l \in {0, MaxMessage} :
                LET m == [n |-> Len(clientIn) + 1, kind |-> k, len |-> l] IN
                wire' = Append(wire, m) /\ clientIn' = Append(clientIn, m)
       \/ /\ \E e \in {"over", "close", "error"} :
                wire' = Append(wire, [n |-> 0, kind |-> e, len |-> 0])
          /\ UNCHANGED clientIn
    /\ UNCHANGED <<inq, inFree, held, got, outVars, pump, moving, why, outbox, inbox>>

-----------------------------------------------------------------------------
(* The pump.                                                               *)

Leave(reason) == pump' = "closing" /\ why' = reason

(* The select read a frame: a message goes to forward, anything else that  *)
(* is not a ping ends the loop.                                            *)
Read ==
    /\ pump = "select"
    /\ wire # <<>>
    /\ wire' = Tail(wire)
    /\ IF Head(wire).n > 0
       THEN pump' = "forward" /\ moving' = Head(wire) /\ UNCHANGED why
       ELSE Leave(Head(wire).kind) /\ UNCHANGED moving
    /\ UNCHANGED <<clientIn, inq, inFree, held, got, outVars, outbox, inbox>>

(* Mutant: the bytes are not reserved.                                     *)
ForwardsUnpaid ==
    /\ pump = "forward"
    /\ IF inbox
       THEN inq' = Append(inq, moving) /\ pump' = "select" /\ UNCHANGED why
       ELSE Leave("inboxGone") /\ UNCHANGED inq
    /\ moving' = NoMsg
    /\ UNCHANGED <<wire, clientIn, inFree, held, got, outVars, outbox, inbox>>

(* Mutant: a message needs more room than it takes.                        *)
ForwardNeedsMore ==
    /\ pump = "forward"
    /\ inFree > Cost(moving)
    /\ IF inbox
       THEN /\ inq' = Append(inq, moving)
            /\ inFree' = inFree - Cost(moving)
            /\ pump' = "select"
            /\ UNCHANGED why
       ELSE Leave("inboxGone") /\ UNCHANGED <<inq, inFree>>
    /\ moving' = NoMsg
    /\ UNCHANGED <<wire, clientIn, held, got, outVars, outbox, inbox>>

(* forward: once the budget has room for the message it is queued; when    *)
(* the Inbox is gone the loop ends.                                        *)
Forward ==
    /\ pump = "forward"
    /\ inFree >= Cost(moving)
    /\ IF inbox
       THEN /\ inq' = Append(inq, moving)
            /\ inFree' = inFree - Cost(moving)
            /\ pump' = "select"
            /\ UNCHANGED why
       ELSE Leave("inboxGone") /\ UNCHANGED <<inq, inFree>>
    /\ moving' = NoMsg
    /\ UNCHANGED <<wire, clientIn, held, got, outVars, outbox, inbox>>

(* Mutant: the pump ends as soon as the handler closes, queued or not.     *)
TakeOutClosedFirst ==
    /\ pump = "select"
    /\ \/ /\ outq # <<>>
          /\ outq' = Tail(outq)
          /\ pump' = "send" /\ moving' = Head(outq)
          /\ UNCHANGED why
       \/ /\ ~outbox
          /\ Leave("outboxClosed")
          /\ UNCHANGED <<outq, moving>>
    /\ UNCHANGED <<inVars, outFree, accepted, delivered, outbox, inbox>>

(* The select took a message off the outgoing queue, or found it empty and *)
(* closed by the handler.                                                  *)
TakeOut ==
    /\ pump = "select"
    /\ \/ /\ outq # <<>>
          /\ outq' = Tail(outq)
          /\ pump' = "send" /\ moving' = Head(outq)
          /\ UNCHANGED why
       \/ /\ outq = <<>> /\ ~outbox
          /\ Leave("outboxClosed")
          /\ UNCHANGED <<outq, moving>>
    /\ UNCHANGED <<inVars, outFree, accepted, delivered, outbox, inbox>>

(* sink.send returned: the budget is released with the message on the      *)
(* wire, or the write failed and the loop ends.                            *)
Sent ==
    /\ pump = "send"
    /\ outFree' = outFree + Cost(moving)
    /\ moving' = NoMsg
    /\ \/ delivered' = Append(delivered, moving) /\ pump' = "select" /\ UNCHANGED why
       \/ Leave("writeFailed") /\ UNCHANGED delivered
    /\ UNCHANGED <<inVars, outq, accepted, outbox, inbox>>

(* run_ws_connection after the pump: the incoming sender is dropped at     *)
(* once (pump # "closing" below), the outgoing receiver only when          *)
(* close_connection has returned.                                          *)
Closed ==
    /\ pump = "closing"
    /\ pump' = "closed"
    /\ outq' = <<>>
    /\ outFree' = outFree + Reserved(outq)
    /\ UNCHANGED <<inVars, accepted, delivered, moving, why, outbox, inbox>>

-----------------------------------------------------------------------------
(* The handler's calls.                                                    *)

Pumping == pump \in {"select", "forward", "send"}

(* Mutant: a refused message is dropped.                                   *)
DropsRefused(m) == UNCHANGED held

KeepRefused(m) == held' = m

(* next_as: the held message or the queue's head; one of the wrong kind    *)
(* goes (back) to `held`.  Taking a message off the queue releases its     *)
(* bytes.  With both empty recv blocks while the pump runs and returns     *)
(* None afterwards, which changes nothing.                                 *)
Recv(kinds) ==
    /\ inbox
    /\ held # NoMsg \/ inq # <<>>
    /\ LET fromHeld == held # NoMsg
           m == IF fromHeld THEN held ELSE Head(inq)
       IN  /\ IF fromHeld THEN UNCHANGED <<inq, inFree>>
              ELSE inq' = Tail(inq) /\ inFree' = inFree + Cost(m)
           /\ IF m.kind \in kinds
              THEN got' = Append(got, m) /\ held' = NoMsg
              ELSE KeepRefused(m) /\ UNCHANGED got
    /\ UNCHANGED <<wire, clientIn, outVars, pump, moving, why, outbox, inbox>>

(* Outbox::push: taken when the budget has room and the pump's receiver    *)
(* lives; BlockingIOError and ConnectionError change nothing.              *)
SendMsg ==
    /\ outbox /\ inbox
    /\ Len(accepted) < MaxOut
    /\ \E l \in {0, MaxMessage} :
        LET m == [n |-> Len(accepted) + 1, kind |-> "text", len |-> l] IN
        /\ outFree >= Cost(m)
        /\ pump # "closed"
        /\ outq' = Append(outq, m)
        /\ outFree' = outFree - Cost(m)
        /\ accepted' = Append(accepted, m)
    /\ UNCHANGED <<inVars, delivered, pump, moving, why, outbox, inbox>>

(* close(): drops the outbox only.                                         *)
Close ==
    /\ outbox
    /\ outbox' = FALSE
    /\ UNCHANGED <<inVars, outVars, pump, moving, why, inbox>>

(* The handler returned and its WebSocket object is gone: both ends go,    *)
(* the messages still queued for it with them.                             *)
HandlerReturns ==
    /\ inbox
    /\ inbox' = FALSE /\ outbox' = FALSE
    /\ inq' = <<>> /\ held' = NoMsg
    /\ inFree' = inFree + Reserved(inq)
    /\ UNCHANGED <<wire, clientIn, got, outVars, pump, moving, why>>

Over == pump = "closed" /\ UNCHANGED wpVars

-----------------------------------------------------------------------------
PumpNext == Read \/ Forward \/ TakeOut \/ Sent \/ Closed

HandlerNext ==
    \/ \E kinds \in {Kinds, {"text"}, {"binary"}} : Recv(kinds)
    \/ SendMsg \/ Close \/ HandlerReturns

WpNext == ClientSends \/ PumpNext \/ HandlerNext \/ Over

(* The pump task is polled and the client reads what it is sent.           *)
WpFairness == WF_wpVars(PumpNext)

(* A handler that keeps calling recv_message().                            *)
Receiving == WF_wpVars(Recv(Kinds))

WpSpec == WpInit /\ [][WpNext]_wpVars
WpFairSpec == WpSpec /\ WpFairness
ReceivingSpec == WpFairSpec /\ Receiving

-----------------------------------------------------------------------------
(* Every variable has its values; neither byte budget goes below zero or   *)
(* above its size.                                                         *)
WpTypeOK ==
    /\ wire \in Seq(Messages \cup [n : {0}, kind : {"over", "close", "error"}, len : {0}])
    /\ clientIn \in Seq(Messages) /\ inq \in Seq(Messages) /\ got \in Seq(Messages)
    /\ outq \in Seq(Messages) /\ accepted \in Seq(Messages) /\ delivered \in Seq(Messages)
    /\ inFree \in 0 .. Budget /\ outFree \in 0 .. Budget
    /\ held \in Messages \cup {NoMsg} /\ moving \in Messages \cup {NoMsg}
    /\ pump \in {"select", "forward", "send", "closing", "closed"}
    /\ why \in {"none", "over", "close", "error", "inboxGone", "outboxClosed", "writeFailed"}
    /\ outbox \in BOOLEAN /\ inbox \in BOOLEAN

(* The handler receives what the client sent, in order, nothing lost or    *)
(* doubled, also across typed receives that refuse a message; and the      *)
(* client what the handler sent.                                           *)
InOrder == IsPrefix(got, clientIn) /\ IsPrefix(delivered, accepted)

(* Every byte of both budgets is free or reserved by a queued message or   *)
(* by the one being written, so a drained queue takes any allowed message. *)
BudgetsExact ==
    /\ inFree + Reserved(inq) = Budget
    /\ outFree + Reserved(outq) + (IF pump = "send" THEN Cost(moving) ELSE 0) = Budget

(* close() flushes: when the pump ends because the handler closed, all it  *)
(* had accepted was written.                                               *)
CloseFlushes == why = "outboxClosed" => delivered = accepted

(* A handler that keeps receiving gets every message the client sent       *)
(* before the connection ends.                                             *)
MessagesArrive ==
    \A n \in 1 .. MaxIn :
        Len(clientIn) >= n ~> Len(got) >= n \/ ~Pumping \/ ~inbox

(* Where the messages of either direction are: the client's next one after *)
(* those received is held, then come the queue's, the one being forwarded  *)
(* and the wire's, of which only the last may be no message; the next one  *)
(* of the handler after those written is being sent, then come the queue's.*)
InOffset  == Len(got) + (IF held # NoMsg THEN 1 ELSE 0)
Taken     == InOffset + Len(inq) + (IF pump = "forward" THEN 1 ELSE 0)
WireMessages ==
    IF wire # <<>> /\ wire[Len(wire)].n = 0 THEN Len(wire) - 1 ELSE Len(wire)
OutOffset == Len(delivered) + (IF pump = "send" THEN 1 ELSE 0)

WpInPlace ==
    /\ Len(got) <= Len(clientIn)
    /\ \A k \in 1 .. Len(got) : got[k] = clientIn[k]
    /\ inbox =>
          /\ held # NoMsg => held = clientIn[Len(got) + 1]
          /\ \A k \in 1 .. Len(inq) : inq[k] = clientIn[InOffset + k]
          /\ pump = "forward" => moving = clientIn[InOffset + Len(inq) + 1]
          /\ \A k \in 1 .. Len(wire) : wire[k].n > 0 => wire[k] = clientIn[Taken + k]
          /\ Len(clientIn) = Taken + WireMessages
    /\ \A k \in 1 .. Len(wire) : wire[k].n = 0 => k = Len(wire)

WpOutPlace ==
    /\ Len(delivered) <= Len(accepted)
    /\ \A k \in 1 .. Len(delivered) : delivered[k] = accepted[k]
    /\ Pumping => /\ why = "none"
                  /\ pump = "send" => moving = accepted[Len(delivered) + 1]
                  /\ \A k \in 1 .. Len(outq) : outq[k] = accepted[OutOffset + k]
                  /\ Len(accepted) = OutOffset + Len(outq)
    /\ why = "outboxClosed" => ~outbox /\ delivered = accepted

(* The inductive invariant.                                                *)
WpIInv ==
    /\ WpTypeOK /\ WpInPlace /\ WpOutPlace /\ BudgetsExact
    /\ moving \in Messages <=> pump \in {"forward", "send"}

(* What the pump keeps in every state: the order of messages either way,   *)
(* the byte budgets, and on close() nothing accepted is lost.              *)
PumpSafe == WpTypeOK /\ InOrder /\ BudgetsExact /\ CloseFlushes
=============================================================================

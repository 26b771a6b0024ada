---------------------------- MODULE WsConnections ----------------------------
(***************************************************************************)
(* WebSocket upgrades of one server run (src/websocket.rs): the connection *)
(* slots, the handshake future that waits for the before_request hooks'    *)
(* verdict, and the OS thread each connection gets, which runs the hooks   *)
(* and then the handler.  The thread and the handshake meet through the    *)
(* verdict channel; either can be gone when the other arrives.             *)
(* What an open connection carries is in module WsPump.                    *)
(***************************************************************************)
EXTENDS Naturals, FiniteSets

CONSTANTS
    Conns,           \* upgrade requests
    MaxConnections   \* max_websocket_connections

ASSUME WsAssumption == IsFiniteSet(Conns) /\ MaxConnections \in Nat \ {0}

VARIABLES
    conn,      \* each upgrade's task: the service future, later the spawned task
    thr,       \* its handler thread
    verdict,   \* the verdict channel: what the thread sent and nobody took yet
    slot,      \* its ConnectionSlot is held
    open,      \* OpenConnections
    stopped    \* the server's runtime was dropped

vars == <<conn, thr, verdict, slot, open, stopped>>

Init ==
    /\ conn = [c \in Conns |-> "new"]
    /\ thr = [c \in Conns |-> "none"]
    /\ verdict = [c \in Conns |-> "none"]
    /\ slot = [c \in Conns |-> FALSE]
    /\ open = 0
    /\ stopped = FALSE

(* Mutant: the slot is dropped only on the way out of the 101 path.        *)
KeepsSlot(c) == UNCHANGED <<slot, open>>

(* Mutant: the slot goes and the count stays.                              *)
LosesCount(c) == slot' = [slot EXCEPT ![c] = FALSE] /\ UNCHANGED open

(* ConnectionSlot::drop.                                                   *)
ReleaseSlot(c) ==
    /\ slot' = [slot EXCEPT ![c] = FALSE]
    /\ open' = IF slot[c] THEN open - 1 ELSE open

(* Mutant: the limit compared one too late.                                *)
RoomForOneMore == open <= MaxConnections

Room == open < MaxConnections

(* answer_upgrade: a slot, then the thread; refused with 503 when there is *)
(* no slot, with 500 (and the slot dropped) when there is no thread.       *)
Upgrade(c) ==
    /\ ~stopped
    /\ conn[c] = "new"
    /\ \/ /\ Room
          /\ slot' = [slot EXCEPT ![c] = TRUE]
          /\ open' = open + 1
          /\ thr' = [thr EXCEPT ![c] = "hooks"]
          /\ conn' = [conn EXCEPT ![c] = "handshake"]
       \/ /\ conn' = [conn EXCEPT ![c] = "refused"]
          /\ UNCHANGED <<thr, slot, open>>
    /\ UNCHANGED <<verdict, stopped>>

(* The receiving half of the verdict channel is alive: it is dropped with  *)
(* the timeout that wraps it, a moment after that elapsed.                 *)
Listening(c) == conn[c] \in {"handshake", "timedout"}

(* Mutant: the thread runs the handler whoever reads the verdict.          *)
AcceptUnheard(c) ==
    /\ thr' = [thr EXCEPT ![c] = "handler"]
    /\ verdict' = [verdict EXCEPT ![c] = IF Listening(c) THEN "accept" ELSE @]

(* serve_connection: an accept that nobody reads ends the thread.          *)
SendAccept(c) ==
    IF Listening(c)
    THEN /\ verdict' = [verdict EXCEPT ![c] = "accept"]
         /\ thr' = [thr EXCEPT ![c] = "handler"]
    ELSE thr' = [thr EXCEPT ![c] = "over"] /\ UNCHANGED verdict

(* The hooks let the upgrade through.                                      *)
HooksAccept(c) ==
    /\ thr[c] = "hooks"
    /\ SendAccept(c)
    /\ UNCHANGED <<conn, slot, open, stopped>>

(* A hook answered or raised ("reject"), or the thread ended with no       *)
(* verdict: it could not enter its context, or panicked ("lost").          *)
HooksEnd(c, v) ==
    /\ thr[c] = "hooks"
    /\ verdict' = [verdict EXCEPT ![c] = IF Listening(c) THEN v ELSE @]
    /\ thr' = [thr EXCEPT ![c] = "over"]
    /\ UNCHANGED <<conn, slot, open, stopped>>

(* run_handler returned or raised.                                         *)
HandlerEnds(c) ==
    /\ thr[c] = "handler"
    /\ thr' = [thr EXCEPT ![c] = "over"]
    /\ UNCHANGED <<conn, verdict, slot, open, stopped>>

(* await_reply returned the verdict.  Accepted: the connection's task is   *)
(* spawned and the 101 sent.  Rejected: the future joins the thread, then  *)
(* answers.  Lost: the join is spawned, and the answer is an error.        *)
TakeVerdict(c) ==
    /\ ~stopped
    /\ conn[c] = "handshake"
    /\ verdict[c] # "none"
    /\ conn' = [conn EXCEPT ![c] =
                  CASE verdict[c] = "accept" -> "upgraded"
                    [] verdict[c] = "reject" -> "rejecting"
                    [] OTHER -> "failed"]
    /\ UNCHANGED <<thr, verdict, slot, open, stopped>>

(* The timeout looked for a verdict, found none, and its timer had fired:  *)
(* it elapses.  A verdict sent from now on is taken and never read.        *)
HandshakeTimeout(c) ==
    /\ ~stopped
    /\ conn[c] = "handshake"
    /\ verdict[c] = "none"
    /\ conn' = [conn EXCEPT ![c] = "timedout"]
    /\ UNCHANGED <<thr, verdict, slot, open, stopped>>

(* The rest of that poll: the receiver is dropped, the join is spawned,    *)
(* and the client is answered 504.                                         *)
GivesUp(c) ==
    /\ ~stopped
    /\ conn[c] = "timedout"
    /\ conn' = [conn EXCEPT ![c] = "failed"]
    /\ UNCHANGED <<thr, verdict, slot, open, stopped>>

(* The client closed its connection before it was answered: hyper drops    *)
(* the service future, and the HandlerThread (or its join) in it.  It does *)
(* so between two polls of it.                                             *)
ClientGone(c) ==
    /\ ~stopped
    /\ conn[c] \in {"handshake", "rejecting"}
    /\ conn' = [conn EXCEPT ![c] = "dropped"]
    /\ ReleaseSlot(c)
    /\ UNCHANGED <<thr, verdict, stopped>>

(* Mutant: the handler thread is dropped, not joined.                      *)
DropsThread(c) ==
    /\ ~stopped
    /\ conn[c] = "upgraded"
    /\ conn' = [conn EXCEPT ![c] = "closed"]
    /\ ReleaseSlot(c)
    /\ UNCHANGED <<thr, verdict, stopped>>

(* The pump ended or the upgrade failed: the connection's task joins the   *)
(* thread.                                                                 *)
PumpEnds(c) ==
    /\ ~stopped
    /\ conn[c] = "upgraded"
    /\ conn' = [conn EXCEPT ![c] = "closing"]
    /\ UNCHANGED <<thr, verdict, slot, open, stopped>>

(* HandlerThread::join: the thread ended, the slot is released.            *)
Join(c) ==
    /\ ~stopped
    /\ conn[c] \in {"rejecting", "failed", "closing"}
    /\ slot[c]
    /\ thr[c] = "over"
    /\ ReleaseSlot(c)
    /\ conn' = [conn EXCEPT ![c] = IF @ = "closing" THEN "closed" ELSE "answered"]
    /\ UNCHANGED <<thr, verdict, stopped>>

(* The runtime is dropped with every task, each once its poll has          *)
(* returned; the threads run on.                                           *)
ServerStops ==
    /\ ~stopped
    /\ \A c \in Conns : conn[c] # "timedout"
    /\ stopped' = TRUE
    /\ conn' = [c \in Conns |-> IF slot[c] THEN "dropped" ELSE conn[c]]
    /\ slot' = [c \in Conns |-> FALSE]
    /\ open' = open - Cardinality({c \in Conns : slot[c]})
    /\ UNCHANGED <<thr, verdict>>

Next ==
    \/ \E c \in Conns :
        \/ Upgrade(c) \/ HooksAccept(c) \/ HandlerEnds(c) \/ TakeVerdict(c)
        \/ HandshakeTimeout(c) \/ GivesUp(c) \/ ClientGone(c) \/ PumpEnds(c) \/ Join(c)
        \/ \E v \in {"reject", "lost"} : HooksEnd(c, v)
    \/ ServerStops

(* Tasks that can run do.  While the handshake waits nothing is assumed of *)
(* the hooks (its budget covers a hook that hangs); afterwards hooks and   *)
(* handlers are assumed to return: recv() returns None once the connection *)
(* is gone.                                                                *)
Fairness ==
    \A c \in Conns :
        /\ WF_vars(TakeVerdict(c) \/ HandshakeTimeout(c) \/ GivesUp(c))
        /\ WF_vars(Join(c))
        /\ WF_vars(~Listening(c) /\ conn[c] # "upgraded" /\ HandlerEnds(c))
        /\ WF_vars(~Listening(c) /\ (HooksAccept(c) \/ HooksEnd(c, "reject")))

Spec == Init /\ [][Next]_vars
FairSpec == Spec /\ Fairness

-----------------------------------------------------------------------------
(* Every variable has its values; the slots taken stay within              *)
(* max_websocket_connections.                                              *)
TypeOK ==
    /\ conn \in [Conns -> {"new", "handshake", "timedout", "upgraded", "rejecting", "failed", "closing",
                           "refused", "answered", "closed", "dropped"}]
    /\ thr \in [Conns -> {"none", "hooks", "handler", "over"}]
    /\ verdict \in [Conns -> {"none", "accept", "reject", "lost"}]
    /\ slot \in [Conns -> BOOLEAN]
    /\ open \in 0 .. MaxConnections
    /\ stopped \in BOOLEAN

(* The counter counts exactly the slots held: none leaks (each leak is a   *)
(* 503 for the rest of the run) and none is released twice.                *)
SlotsExact == open = Cardinality({c \in Conns : slot[c]})

(* A thread that runs hooks or a handler has its connection's slot, on the *)
(* way to the 101, after it, after a rejection and after a 504: it is      *)
(* released by the join only.  The exception is a service future (or a     *)
(* runtime) that is dropped, which takes the slot with it.                 *)
SlotOutlivesThread ==
    \A c \in Conns :
        thr[c] \in {"hooks", "handler"} => slot[c] \/ conn[c] = "dropped"

(* No handler runs for an upgrade that was answered with a rejection or an *)
(* error.  After a 504 one runs only when its accept crossed the deadline: *)
(* sent between the timeout and the drop of the receiver, it was taken     *)
(* and never read.  An accept sent any later ends the thread.              *)
NoHandlerAfterRefusal ==
    \A c \in Conns :
        thr[c] = "handler" =>
            \/ conn[c] \in {"handshake", "timedout", "upgraded", "closing", "dropped"}
            \/ conn[c] = "failed" /\ verdict[c] = "accept"

(* The strengthening that makes the two properties above inductive.        *)
WsInv ==
    \A c \in Conns :
        /\ slot[c] <=> conn[c] \in {"handshake", "timedout", "upgraded", "rejecting", "failed",
                                    "closing"}
        /\ thr[c] = "none" <=> conn[c] \in {"new", "refused"}
        /\ verdict[c] = "accept" => thr[c] \in {"handler", "over"}
        /\ verdict[c] \in {"reject", "lost"} => thr[c] = "over"
        /\ thr[c] = "hooks" => verdict[c] = "none"
        /\ thr[c] = "handler" => verdict[c] = "accept"
        /\ conn[c] = "upgraded" => verdict[c] = "accept"
        /\ conn[c] = "rejecting" => verdict[c] = "reject"
        /\ conn[c] \in {"answered", "closed"} => thr[c] = "over"

(* Once a connection is over, its slot comes back.                         *)
SlotsReturn ==
    \A c \in Conns : conn[c] \in {"timedout", "rejecting", "failed", "closing"} ~> ~slot[c]

(* websocket.rs: "the slot is released only once the thread has been       *)
(* joined, on every path": while the server runs, there are never more     *)
(* handler threads than slots.                                             *)
ThreadsBounded ==
    ~stopped => Cardinality({c \in Conns : thr[c] \in {"hooks", "handler"}}) <= MaxConnections
=============================================================================

----------------------------- MODULE BodyStream -----------------------------
(***************************************************************************)
(* One streamed request body: the feeder task that moves hyper's frames    *)
(* into a bounded channel (src/body.rs), the req.stream object its handler *)
(* reads them from, on any number of Python threads                        *)
(* (src/python/body_stream.rs), and the wait for the handler's reply       *)
(* (await_streamed_reply).                                                 *)
(*                                                                         *)
(* A read takes the stream's mutex with the interpreter's GIL held, lets   *)
(* the GIL go while it waits for a chunk, and takes it back, the mutex     *)
(* still held, to return.  Both locks are in the model.                    *)
(***************************************************************************)
EXTENDS Naturals, Sequences

CONSTANTS
    Frames,     \* frames the client may send
    Bytes,      \* Bytes[n]: the length of the body's first n frames
    MaxSize,    \* max_body_size
    Capacity,   \* CHANNEL_CAPACITY
    Readers,    \* Python threads that read the stream
    Handler,    \* the one the handler runs on
    None        \* nobody

ASSUME BodyAssumption ==
    /\ Frames \in Nat
    /\ Bytes \in [0 .. Frames -> Nat]
    /\ \A m, n \in 0 .. Frames : m <= n => Bytes[m] <= Bytes[n]
    /\ MaxSize \in Nat
    /\ Capacity \in Nat \ {0}
    /\ Handler \in Readers
    /\ None \notin Readers

VARIABLES
    sent,      \* frames that arrived from the client
    end,       \* how the client ended the body: "none" so far, "eof", "error"
    fed,       \* frames the feeder took
    feeder,    \* where the feeder is: next frame, handing a message, done
    msg,       \* the message it hands over
    late,      \* its deadline passed
    dropped,   \* the runtime dropped the feeder
    chan,      \* the channel
    stream,    \* StreamState: "open", "finished", a failure, or "gone"
    gil,       \* the thread that holds the GIL
    mutex,     \* the thread that holds the stream's mutex
    at,        \* where each thread is in its read
    op,        \* "next" or "drain"
    recvd,     \* what its receive returned
    result,    \* what its last read returned
    taken,     \* frames received, in order
    bsReply      \* await_streamed_reply: "body", "budget", "answered", "timeout"

feederVars == <<fed, feeder, msg, dropped>>
clientVars == <<sent, end, late>>
readVars == <<gil, mutex, at, op, recvd, result>>
bsVars == <<feederVars, clientVars, readVars, chan, stream, taken, bsReply>>

Rejections == {"toolarge", "timedout", "read"}
Failures == Rejections \cup {"cutoff"}
NoMsg == [kind |-> "none", frame |-> 0]
Data(i) == [kind |-> "data", frame |-> i]
Final(k) == [kind |-> k, frame |-> 0]

Messages == {Data(i) : i \in 1 .. Frames} \cup {Final(k) : k \in Rejections \cup {"eof"}}

(* feed's running total once it took n frames.                             *)
Total(n) == Bytes[n]

RxOpen == stream = "open"

BsInit ==
    /\ sent = 0 /\ end = "none" /\ late = FALSE
    /\ fed = 0 /\ feeder = "frame" /\ msg = NoMsg /\ dropped = FALSE
    /\ chan = <<>> /\ stream = "open" /\ taken = <<>> /\ bsReply = "body"
    /\ gil = None /\ mutex = None
    /\ at = [r \in Readers |-> "idle"]
    /\ op = [r \in Readers |-> "next"]
    /\ recvd = [r \in Readers |-> "none"]
    /\ result = [r \in Readers |-> "none"]

-----------------------------------------------------------------------------
(* The client.                                                             *)

ClientSends ==
    /\ end = "none" /\ sent < Frames
    /\ sent' = sent + 1
    /\ UNCHANGED <<end, late, feederVars, readVars, chan, stream, taken, bsReply>>

ClientEnds(how) ==
    /\ end = "none"
    /\ end' = how
    /\ UNCHANGED <<sent, late, feederVars, readVars, chan, stream, taken, bsReply>>

(* REQUEST_BUDGET has passed since the feeder started.                     *)
DeadlinePasses ==
    /\ ~late
    /\ late' = TRUE
    /\ UNCHANGED <<sent, end, feederVars, readVars, chan, stream, taken, bsReply>>

-----------------------------------------------------------------------------
(* The feeder.                                                             *)

HandOver(m, pc) == msg' = m /\ feeder' = pc

(* feed: a frame that is there is taken even past the deadline; one that   *)
(* takes the body past max_size ends it.                                   *)
FeedFrame ==
    /\ feeder = "frame" /\ fed < sent
    /\ fed' = fed + 1
    /\ IF Total(fed + 1) > MaxSize THEN HandOver(Final("toolarge"), "last")
                                   ELSE HandOver(Data(fed + 1), "hand")
    /\ UNCHANGED <<dropped, clientVars, readVars, chan, stream, taken, bsReply>>

FeedEnd ==
    /\ feeder = "frame" /\ fed = sent /\ end # "none"
    /\ HandOver(Final(IF end = "eof" THEN "eof" ELSE "read"), "last")
    /\ UNCHANGED <<fed, dropped, clientVars, readVars, chan, stream, taken, bsReply>>

(* Mutant: the wait for the next frame has no deadline.                    *)
WaitsForFrame == feeder = "nowhere" /\ UNCHANGED bsVars

FeedTimeout ==
    /\ feeder = "frame" /\ fed = sent /\ end = "none" /\ late
    /\ HandOver(Final("timedout"), "last")
    /\ UNCHANGED <<fed, dropped, clientVars, readVars, chan, stream, taken, bsReply>>

(* Mutant: the channel has no bound.                                       *)
HandUnbounded ==
    /\ feeder \in {"hand", "last"} /\ RxOpen
    /\ chan' = Append(chan, msg)
    /\ HandOver(NoMsg, IF feeder = "last" THEN "done" ELSE "frame")
    /\ UNCHANGED <<fed, dropped, clientVars, readVars, stream, taken, bsReply>>

(* Mutant: a chunk that finds the channel full is dropped (try_send).      *)
HandDropsWhenFull ==
    /\ feeder \in {"hand", "last"} /\ RxOpen
    /\ feeder = "hand" \/ Len(chan) < Capacity
    /\ chan' = IF Len(chan) < Capacity THEN Append(chan, msg) ELSE chan
    /\ HandOver(NoMsg, IF feeder = "last" THEN "done" ELSE "frame")
    /\ UNCHANGED <<fed, dropped, clientVars, readVars, stream, taken, bsReply>>

(* hand: a message that fits is sent, past the deadline too.               *)
Hand ==
    /\ feeder \in {"hand", "last"} /\ RxOpen /\ Len(chan) < Capacity
    /\ chan' = Append(chan, msg)
    /\ HandOver(NoMsg, IF feeder = "last" THEN "done" ELSE "frame")
    /\ UNCHANGED <<fed, dropped, clientVars, readVars, stream, taken, bsReply>>

(* Mutant: the send has no deadline.                                       *)
GivesUpOnlyWhenGone == feeder \in {"hand", "last"} /\ ~RxOpen

(* Mutant: a full channel ends the feeder at once.                         *)
GivesUpWhenFull == feeder \in {"hand", "last"} /\ (~RxOpen \/ Len(chan) >= Capacity)

(* The stream is gone, or the deadline passed while the send waited (for   *)
(* room, or for the task's cooperative budget).                            *)
GivesUp == feeder \in {"hand", "last"} /\ (~RxOpen \/ late)

(* HandlerGone: the sender is dropped with no last message.                *)
HandFails ==
    /\ GivesUp
    /\ HandOver(NoMsg, "done")
    /\ UNCHANGED <<fed, dropped, clientVars, readVars, chan, stream, taken, bsReply>>

(* The runtime drops its tasks.                                            *)
FeederDropped ==
    /\ feeder # "done"
    /\ dropped' = TRUE
    /\ HandOver(NoMsg, "done")
    /\ UNCHANGED <<fed, clientVars, readVars, chan, stream, taken, bsReply>>

-----------------------------------------------------------------------------
(* A read: __next__ (read() repeats it), or drain_count.                   *)

(* Python calls into the stream, the GIL held.                             *)
Call(r, o) ==
    /\ at[r] = "idle" /\ gil = None /\ stream # "gone"
    /\ r = Handler => bsReply \in {"body", "budget", "timeout"}
    /\ gil' = r
    /\ at' = [at EXCEPT ![r] = "lock"]
    /\ op' = [op EXCEPT ![r] = o]
    /\ UNCHANGED <<mutex, recvd, result, feederVars, clientVars, chan, stream, taken, bsReply>>

(* Mutant: the mutex is not held across the receive.                       *)
MutexUnheld(r) == TRUE

MutexFree(r) == mutex = None

Waits(r) ==
    /\ mutex' = r
    /\ gil' = None
    /\ at' = [at EXCEPT ![r] = "recv"]
    /\ UNCHANGED result

Returns(r, value) ==
    /\ gil' = None
    /\ at' = [at EXCEPT ![r] = "idle"]
    /\ result' = [result EXCEPT ![r] = value]

(* self.lock(), then the state: an open stream is waited on with the GIL   *)
(* released (py.detach), a finished or failed one answers at once.         *)
Lock(r) ==
    /\ at[r] = "lock" /\ MutexFree(r)
    /\ IF stream = "open" THEN Waits(r)
       ELSE /\ Returns(r, IF stream = "finished"
                          THEN IF op[r] = "next" THEN "stop" ELSE "error"
                          ELSE stream)
            /\ UNCHANGED mutex
    /\ UNCHANGED <<op, recvd, feederVars, clientVars, chan, stream, taken, bsReply>>

Closed == feeder = "done" \/ ~RxOpen

(* Mutant: a channel that closed is taken for the body's end.              *)
ReceivedLenient == IF chan # <<>> THEN Head(chan).kind ELSE "eof"

(* Received::of.                                                           *)
Received == IF chan # <<>> THEN Head(chan).kind ELSE "cutoff"

(* blocking_recv returned.  drain_count keeps receiving after a chunk.     *)
Recv(r) ==
    /\ at[r] = "recv" /\ (chan # <<>> \/ Closed)
    /\ recvd' = [recvd EXCEPT ![r] = Received]
    /\ at' = [at EXCEPT ![r] = IF op[r] = "drain" /\ Received = "data" THEN @ ELSE "attach"]
    /\ taken' = IF Received = "data" THEN Append(taken, Head(chan).frame) ELSE taken
    /\ chan' = IF chan = <<>> THEN chan ELSE Tail(chan)
    /\ UNCHANGED <<gil, mutex, op, result, feederVars, clientVars, stream, bsReply>>

(* The thread has its GIL back: the state is set (which drops the receiver *)
(* and what is queued), the mutex released, the call returns.              *)
Attach(r) ==
    /\ at[r] = "attach" /\ gil = None
    /\ stream' = CASE recvd[r] = "data" -> stream
                   [] recvd[r] = "eof" -> "finished"
                   [] OTHER -> recvd[r]
    /\ chan' = IF stream' = "open" THEN chan ELSE <<>>
    /\ mutex' = None
    /\ Returns(r, CASE recvd[r] = "data" -> "chunk"
                    [] recvd[r] = "eof" -> IF op[r] = "next" THEN "stop" ELSE "count"
                    [] OTHER -> recvd[r])
    /\ UNCHANGED <<op, recvd, feederVars, clientVars, taken, bsReply>>

(* The last reference to the stream goes: the receiver and what it holds.  *)
StreamDropped ==
    /\ \A r \in Readers : at[r] = "idle"
    /\ stream # "gone"
    /\ stream' = "gone"
    /\ chan' = <<>>
    /\ UNCHANGED <<feederVars, clientVars, readVars, taken, bsReply>>

-----------------------------------------------------------------------------
(* await_streamed_reply.                                                   *)

(* The feeder ended: the handler's own budget starts.                      *)
BodyRead ==
    /\ bsReply = "body" /\ feeder = "done"
    /\ bsReply' = "budget"
    /\ UNCHANGED <<feederVars, clientVars, readVars, chan, stream, taken>>

HandlerReturns ==
    /\ bsReply \in {"body", "budget"} /\ at[Handler] = "idle"
    /\ bsReply' = "answered"
    /\ UNCHANGED <<feederVars, clientVars, readVars, chan, stream, taken>>

BudgetPasses ==
    /\ bsReply = "budget"
    /\ bsReply' = "timeout"
    /\ UNCHANGED <<feederVars, clientVars, readVars, chan, stream, taken>>

-----------------------------------------------------------------------------
Feed == FeedFrame \/ FeedEnd \/ FeedTimeout \/ Hand \/ HandFails
Step(r) == Lock(r) \/ Recv(r) \/ Attach(r)

BsNext ==
    \/ ClientSends \/ DeadlinePasses
    \/ \E how \in {"eof", "error"} : ClientEnds(how)
    \/ FeedFrame \/ FeedEnd \/ FeedTimeout \/ Hand \/ HandFails \/ FeederDropped
    \/ \E r \in Readers :
        \/ \E o \in {"next", "drain"} : Call(r, o)
        \/ Lock(r) \/ Recv(r) \/ Attach(r)
    \/ StreamDropped \/ BodyRead \/ HandlerReturns \/ BudgetPasses

(* Time passes, the runtime polls its tasks, and a thread that can go on   *)
(* does.  Nothing is assumed of the client or of the handler.              *)
BsFairness ==
    /\ WF_bsVars(DeadlinePasses) /\ WF_bsVars(Feed)
    /\ WF_bsVars(BodyRead) /\ WF_bsVars(BudgetPasses)
    /\ \A r \in Readers : SF_bsVars(Lock(r)) /\ WF_bsVars(Recv(r)) /\ SF_bsVars(Attach(r))

BsSpec == BsInit /\ [][BsNext]_bsVars
BsFairSpec == BsSpec /\ BsFairness

-----------------------------------------------------------------------------
(* Every variable has its values; the channel never holds more than        *)
(* CHANNEL_CAPACITY messages.                                              *)
BsTypeOK ==
    /\ sent \in 0 .. Frames /\ end \in {"none", "eof", "error"} /\ late \in BOOLEAN
    /\ fed \in 0 .. sent /\ feeder \in {"frame", "hand", "last", "done"} /\ dropped \in BOOLEAN
    /\ msg \in Messages \cup {NoMsg} /\ (msg = NoMsg <=> feeder \in {"frame", "done"})
    /\ chan \in Seq(Messages) /\ Len(chan) <= Capacity
    /\ stream \in {"open", "finished", "gone"} \cup Failures
    /\ gil \in Readers \cup {None} /\ mutex \in Readers \cup {None}
    /\ at \in [Readers -> {"idle", "lock", "recv", "attach"}]
    /\ op \in [Readers -> {"next", "drain"}]
    /\ recvd \in [Readers -> {"none", "data", "eof"} \cup Failures]
    /\ result \in [Readers -> {"none", "chunk", "stop", "count", "error"} \cup Failures]
    /\ taken \in Seq(1 .. Frames)
    /\ bsReply \in {"body", "budget", "answered", "timeout"}

(* However many threads read, the chunks come out in the order they came   *)
(* in, none twice and none skipped.                                        *)
InOrder == taken = [i \in 1 .. Len(taken) |-> i]

(* The client ended the body and every frame of it was read.               *)
Complete == end = "eof" /\ Len(taken) = sent

(* body_stream.rs, CutOff: "Reading on would silently truncate the body".  *)
(* A read that reports the body's end, or its length, does so only when    *)
(* every byte the client sent was read and the client had ended the body.  *)
NoSilentTruncation == \A r \in Readers : result[r] \in {"stop", "count"} => Complete

(* What a failure says of the body.                                        *)
Cause(failure) ==
    /\ failure = "toolarge" => Total(sent) > MaxSize
    /\ failure = "timedout" => late
    /\ failure = "read" => end = "error"
    /\ failure = "cutoff" => late \/ dropped

(* A failure tells what happened: a rejection names its cause, and a       *)
(* stream cut off means the budget ran out or the server stopped.          *)
FailureTrue == \A r \in Readers : Cause(result[r])

(* What makes these inductive.  A read holds the mutex from its wait to    *)
(* its return, on a stream that stays open meanwhile; a stream that is not *)
(* open has nothing queued.                                                *)
ReadHeld ==
    /\ \A r \in Readers : at[r] \in {"recv", "attach"} <=> mutex = r
    /\ mutex # None => stream = "open"
    /\ stream = "gone" => \A r \in Readers : at[r] = "idle"
    /\ stream # "open" => chan = <<>>

(* The last message, with n frames before it, is true.                     *)
Told(m, n) ==
    \E k \in Rejections \cup {"eof"} :
        m = Final(k) /\ Cause(k) /\ (k = "eof" => end = "eof" /\ n = sent)

(* The queue continues what was read, frame by frame, and the last message *)
(* is its end.                                                             *)
QueueContinues ==
    \A i \in 1 .. Len(chan) :
        \/ chan[i] = Data(Len(taken) + i)
        \/ i = Len(chan) /\ feeder = "done" /\ Told(chan[i], Len(taken) + i - 1)

(* The feeder has the next message, or is over: cut short, or its last     *)
(* message is queued or just received.                                     *)
FeederContinues ==
    LET n == Len(taken) + Len(chan)
    IN /\ feeder = "frame" => n = fed
       /\ feeder = "hand" => msg = Data(n + 1) /\ n + 1 = fed
       /\ feeder = "last" => Told(msg, n)
       /\ feeder = "done" =>
             \/ late \/ dropped
             \/ chan # <<>> /\ chan[Len(chan)].kind # "data"
             \/ \E r \in Readers : at[r] = "attach" /\ recvd[r] # "data"

(* What a read received, what the stream became and what a read returned   *)
(* are true.                                                               *)
EndsTrue ==
    /\ \A r \in Readers :
          /\ at[r] = "attach" =>
                recvd[r] # "none" /\ Cause(recvd[r]) /\ (recvd[r] = "eof" => Complete)
          /\ result[r] \in {"stop", "count"} => stream # "open" /\ Complete
          /\ Cause(result[r])
    /\ Cause(stream)
    /\ stream = "finished" => Complete

BodyIInv ==
    /\ InOrder /\ ReadHeld /\ EndsTrue
    /\ stream = "open" => QueueContinues /\ FeederContinues

(* body_stream.rs: "A stream that failed keeps failing: every later read   *)
(* raises the same error", and a stream read to its end stays read.        *)
Settled == [][(stream \in Failures \cup {"finished"}) => stream' \in {stream, "gone"}]_bsVars

(* body_stream.rs: "concurrent readers (two threads, or drain_count racing *)
(* __next__) take chunks one at a time": every read returns, at the latest *)
(* when the feeder's deadline ended the body.                              *)
ReadsReturn == \A r \in Readers : at[r] # "idle" ~> at[r] = "idle"

(* The same for a handler that reads alone, with no second thread: its     *)
(* read returns, however long the client stalls.                           *)
LoneReadsReturn ==
    [](\A r \in Readers \ {Handler} : at[r] = "idle")
        => (at[Handler] # "idle" ~> at[Handler] = "idle")

(* The client is answered, whatever the handler and the client do.         *)
ReplyComes == <>(bsReply \in {"answered", "timeout"})

(* What a reader may rely on: order, no silent truncation, and failures    *)
(* that tell what happened.                                                *)
BodySafe == BsTypeOK /\ InOrder /\ NoSilentTruncation /\ FailureTrue

(* How a stream and its request end: a stream that is over stays as it     *)
(* ended, a lone reader's reads return, and the client is answered.        *)
BodyEnds == Settled /\ LoneReadsReturn /\ ReplyComes
=============================================================================

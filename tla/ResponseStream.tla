--------------------------- MODULE ResponseStream ---------------------------
(***************************************************************************)
(* A Stream (SSE) response (src/python/stream.rs; stream_info and          *)
(* build_stream_response of src/handlers.rs): producers send chunks into a *)
(* bounded channel, close it or forget it, before, while and after a       *)
(* request's response body drains it, and the client reads, or leaves.     *)
(* The same Stream may be returned for two requests.                       *)
(***************************************************************************)
EXTENDS Naturals, Sequences, SequencesExt

CONSTANTS
    RsProducers, \* Python threads that hold the Stream
    RsRequests,  \* requests whose handler may return it
    RsCap,       \* STREAM_CHANNEL_CAP
    RsChunks,    \* bound: chunks the producers send
    RsNobody     \* no request

ASSUME RsAssumption == RsCap \in Nat \ {0} /\ RsChunks \in Nat /\ RsNobody \notin RsRequests

VARIABLES
    rsTx,      \* the sender is there: not dropped by close, not collected
    rsClosed,  \* close() was called
    rsRx,      \* the receiver: "held" by the Stream, "body", "dropped"
    rsOwner,   \* the request whose body has it
    rsChan,    \* chunks in the channel
    rsHolders, \* the producers that still refer to the Stream
    rsReply,   \* each request: "none", "stream", "failed", "complete", "gone"
    rsSent,    \* chunks whose send returned
    rsGot,     \* chunks the client got
    rsTries,   \* sends so far
    rsLast     \* what each producer's last send raised

rsVars == <<rsTx, rsClosed, rsRx, rsOwner, rsChan, rsHolders, rsReply, rsSent, rsGot, rsTries,
            rsLast>>

RsInit ==
    /\ rsTx = TRUE /\ rsClosed = FALSE /\ rsRx = "held" /\ rsOwner = RsNobody /\ rsChan = <<>>
    /\ rsHolders = RsProducers
    /\ rsReply = [r \in RsRequests |-> "none"]
    /\ rsSent = <<>> /\ rsGot = <<>> /\ rsTries = 0
    /\ rsLast = [p \in RsProducers |-> "none"]

-----------------------------------------------------------------------------
(* The producers.                                                          *)

(* Mutant: a full buffer drops its oldest chunk.                           *)
PushesOverOldest(p) ==
    /\ rsChan' = Append(IF Len(rsChan) < RsCap THEN rsChan ELSE Tail(rsChan), rsTries + 1)
    /\ rsSent' = Append(rsSent, rsTries + 1)
    /\ rsLast' = [rsLast EXCEPT ![p] = "none"]

(* Mutant: the buffer has no bound.                                        *)
PushesAlways(p) ==
    /\ rsChan' = Append(rsChan, rsTries + 1)
    /\ rsSent' = Append(rsSent, rsTries + 1)
    /\ rsLast' = [rsLast EXCEPT ![p] = "none"]

(* push, on a channel that is open at both ends: full, or taken.           *)
RsPushes(p) ==
    IF Len(rsChan) = RsCap
    THEN rsLast' = [rsLast EXCEPT ![p] = "BlockingIOError"] /\ UNCHANGED <<rsChan, rsSent>>
    ELSE /\ rsChan' = Append(rsChan, rsTries + 1)
         /\ rsSent' = Append(rsSent, rsTries + 1)
         /\ rsLast' = [rsLast EXCEPT ![p] = "none"]

(* send, send_event: ConnectionError when either end is gone.              *)
RsSend(p) ==
    /\ p \in rsHolders /\ rsTries < RsChunks
    /\ rsTries' = rsTries + 1
    /\ IF ~rsTx \/ rsRx = "dropped"
       THEN rsLast' = [rsLast EXCEPT ![p] = "ConnectionError"] /\ UNCHANGED <<rsChan, rsSent>>
       ELSE RsPushes(p)
    /\ UNCHANGED <<rsTx, rsClosed, rsRx, rsOwner, rsHolders, rsReply, rsGot>>

(* Mutant: close() leaves the sender to Python's garbage collector.        *)
CloseLeaves(p) ==
    /\ p \in rsHolders
    /\ rsClosed' = TRUE
    /\ UNCHANGED <<rsTx, rsRx, rsOwner, rsChan, rsHolders, rsReply, rsSent, rsGot, rsTries, rsLast>>

(* close: the sender is dropped.                                           *)
RsClose(p) ==
    /\ p \in rsHolders
    /\ rsTx' = FALSE /\ rsClosed' = TRUE
    /\ UNCHANGED <<rsRx, rsOwner, rsChan, rsHolders, rsReply, rsSent, rsGot, rsTries, rsLast>>

(* A producer ends; the last one's reference takes the Stream with it, and *)
(* a receiver no body took.                                                *)
RsForgets(p) ==
    /\ p \in rsHolders
    /\ rsHolders' = rsHolders \ {p}
    /\ rsTx' = (rsTx /\ rsHolders' # {})
    /\ rsRx' = IF rsHolders' = {} /\ rsRx = "held" THEN "dropped" ELSE rsRx
    /\ UNCHANGED <<rsClosed, rsOwner, rsChan, rsReply, rsSent, rsGot, rsTries, rsLast>>

-----------------------------------------------------------------------------
(* The requests.  A handler that returns the Stream refers to it: so does  *)
(* a producer, its thread.                                                 *)

(* stream_info: the receiver is taken once; a Stream returned again, or    *)
(* with a status that is none, fails its request.                          *)
RsReturned(r) ==
    /\ rsReply[r] = "none" /\ rsHolders # {}
    /\ \/ /\ rsRx = "held"
          /\ rsRx' = "body" /\ rsOwner' = r
          /\ rsReply' = [rsReply EXCEPT ![r] = "stream"]
       \/ /\ rsReply' = [rsReply EXCEPT ![r] = "failed"]
          /\ UNCHANGED <<rsRx, rsOwner>>
    /\ UNCHANGED <<rsTx, rsClosed, rsChan, rsHolders, rsSent, rsGot, rsTries, rsLast>>

(* hyper polls the body: a chunk goes to the client.                       *)
RsDrains(r) ==
    /\ rsOwner = r /\ rsReply[r] = "stream" /\ rsChan # <<>>
    /\ rsGot' = Append(rsGot, Head(rsChan))
    /\ rsChan' = Tail(rsChan)
    /\ UNCHANGED <<rsTx, rsClosed, rsRx, rsOwner, rsHolders, rsReply, rsSent, rsTries, rsLast>>

(* Mutant: the body ends with the sender, whatever is queued.              *)
EndsAtOnce == ~rsTx

(* The receiver says the channel is over: no sender and nothing in it.     *)
RsChannelOver == ~rsTx /\ rsChan = <<>>

RsCompletes(r) ==
    /\ rsOwner = r /\ rsReply[r] = "stream" /\ RsChannelOver
    /\ rsReply' = [rsReply EXCEPT ![r] = "complete"]
    /\ rsRx' = "dropped"
    /\ UNCHANGED <<rsTx, rsClosed, rsOwner, rsChan, rsHolders, rsSent, rsGot, rsTries, rsLast>>

(* The client disconnects, or the reply came after its 504: the body and   *)
(* its receiver are dropped, with what is queued.                          *)
RsClientGone(r) ==
    /\ rsReply[r] = "stream"
    /\ rsReply' = [rsReply EXCEPT ![r] = "gone"]
    /\ rsRx' = "dropped"
    /\ rsChan' = <<>>
    /\ UNCHANGED <<rsTx, rsClosed, rsOwner, rsHolders, rsSent, rsGot, rsTries, rsLast>>

-----------------------------------------------------------------------------
RsNext ==
    \/ \E p \in RsProducers : RsSend(p) \/ RsClose(p) \/ RsForgets(p)
    \/ \E r \in RsRequests :
        RsReturned(r) \/ RsDrains(r) \/ RsCompletes(r) \/ RsClientGone(r)

(* hyper polls the body while its client reads.                            *)
RsFairness == \A r \in RsRequests : WF_rsVars(RsDrains(r)) /\ WF_rsVars(RsCompletes(r))

RsSpec == RsInit /\ [][RsNext]_rsVars /\ RsFairness

-----------------------------------------------------------------------------
(* Every variable has its values; the buffer is within its bound.          *)
RsTypeOK ==
    /\ rsTx \in BOOLEAN /\ rsRx \in {"held", "body", "dropped"}
    /\ rsOwner \in RsRequests \cup {RsNobody}
    /\ Len(rsChan) <= RsCap
    /\ rsReply \in [RsRequests -> {"none", "stream", "failed", "complete", "gone"}]
    /\ rsLast \in [RsProducers -> {"none", "BlockingIOError", "ConnectionError"}]

(* A chunk whose send returned reaches the client, in the order of the     *)
(* sends, once: what it has and what is queued is what was sent, and a     *)
(* response that completed had all of it.                                  *)
RsAllInOrder ==
    /\ rsRx # "dropped" => rsGot \o rsChan = rsSent
    /\ IsPrefix(rsGot, rsSent)
    /\ \A r \in RsRequests : rsReply[r] = "complete" => rsGot = rsSent

(* The safety part: the buffer's bound, and every chunk once and in order. *)
RsSafe == RsTypeOK /\ RsAllInOrder

(* The inductive invariant: the one response with the receiver is the      *)
(* owner's, and a complete one has dropped it, so that nothing is sent or  *)
(* got after.                                                              *)
RsIInv ==
    /\ RsSafe
    /\ rsChan \in Seq(Nat) /\ rsSent \in Seq(Nat) /\ rsGot \in Seq(Nat) /\ rsTries \in Nat
    /\ \A r \in RsRequests :
          /\ rsReply[r] = "stream" => rsOwner = r /\ rsRx = "body"
          /\ rsReply[r] = "complete" => rsRx = "dropped"

(* "close() ends the response at once, whatever still references the       *)
(* stream": a response whose Stream is closed comes to its end.            *)
RsCloseEnds ==
    \A r \in RsRequests : (rsReply[r] = "stream" /\ rsClosed) ~> (rsReply[r] # "stream")

(* What the client of a Stream gets: every chunk a send took, in order,    *)
(* and the end once the stream is closed.                                  *)
RsCorrect == [](RsTypeOK /\ RsAllInOrder) /\ RsCloseEnds
=============================================================================

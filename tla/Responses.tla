----------------------------- MODULE Responses ------------------------------
(***************************************************************************)
(* What a request is answered, once it is resolved to a handler: the       *)
(* handler's value as a response (src/response.rs), an error as a status   *)
(* (src/error.rs, src/handlers/error.rs), the request id (request_id.rs),  *)
(* and finish (src/handlers/pipeline.rs): CORS, HEAD and the sampled       *)
(* access log (src/site.rs).                                               *)
(*                                                                         *)
(* The handler ends on a thread of its own.  Its request may have been     *)
(* answered by then: the budget passes, or the server refuses.             *)
(***************************************************************************)
EXTENDS Integers, FiniteSets

CONSTANTS
    RpReqs,    \* requests
    RpThreads, \* threads that serve them
    RpRange,   \* 2^THREAD_SHIFT: ids one thread mints before the next's range
    RpEvery,   \* AccessLog.sample_n
    RpFloor    \* AccessLog.always_status

ASSUME RpAssumption ==
    /\ IsFiniteSet(RpReqs) /\ IsFiniteSet(RpThreads)
    /\ RpRange \in Nat /\ RpRange >= Cardinality(RpReqs)
    /\ RpEvery \in Nat \ {0} /\ RpFloor \in 400 .. 600

VARIABLES
    rpNextThread, \* NEXT_THREAD
    rpNextId,     \* NEXT_ID of each thread
    rpRoll,       \* SAMPLE_ROLL of each thread
    rpReq,        \* per request: [method, id, pc, handler]
    rpReply,      \* per request: the result being answered
    rpErrors,     \* per request: error log lines that carry its id
    rpSent,       \* per request: the response sent
    rpServed      \* per thread: responses finished under the floor, and lines

rpVars ==
    <<rpNextThread, rpNextId, rpRoll, rpReq, rpReply, rpErrors, rpSent, rpServed>>

RpUnset == -1   (* no id *)
RpClient == -2  (* an id the client sent *)

RpNothing == [ok |-> FALSE, error |-> "none"]
RpFailed(e) == [ok |-> FALSE, error |-> e]

RpInit ==
    /\ rpNextThread = 0
    /\ rpNextId = [t \in RpThreads |-> RpUnset]
    /\ rpRoll = [t \in RpThreads |-> 0]
    /\ rpReq \in [RpReqs -> [method : {"GET", "HEAD"}, id : {RpUnset}, pc : {"arrived"},
                             handler : {"none"}]]
    /\ rpReply = [r \in RpReqs |-> RpNothing]
    /\ rpErrors = [r \in RpReqs |-> 0]
    /\ rpSent = [r \in RpReqs |-> RpNothing]
    /\ rpServed = [t \in RpThreads |-> [under |-> 0, lines |-> 0, missed |-> 0]]

-----------------------------------------------------------------------------
(* A value as a response.  A value is [kind, text]; its text names bytes,  *)
(* of which only "raw" are not UTF-8.                                      *)

RpValue(kind, text) == [kind |-> kind, text |-> text]

RpValues ==
    {RpValue("json", "j"), RpValue("str", "s"), RpValue("bytes", "raw"),
     RpValue("bytes", "s"), RpValue("none", "empty"), RpValue("object", "o"),
     RpValue("badjson", "none"), RpValue("surrogate", "none"), RpValue("badobject", "none")}

(* body_of: the bytes and the type that body has, or why there is none.    *)
BodyOf(v) ==
    CASE v.kind = "json" -> [ok |-> TRUE, text |-> v.text, type |-> "json"]
      [] v.kind \in {"str", "none", "object"} -> [ok |-> TRUE, text |-> v.text, type |-> "text"]
      [] v.kind = "bytes" -> [ok |-> TRUE, text |-> v.text, type |-> "octets"]
      [] OTHER -> RpFailed("response")

(* from_response, for a Response; its type is derived if it names none.    *)
FromResponse(resp) ==
    LET body == BodyOf(resp.body)
    IN IF resp.status \notin 100 .. 999 \/ ~body.ok THEN RpFailed("response")
       ELSE [ok |-> TRUE, text |-> body.text, status |-> resp.status,
             type |-> IF resp.type = "derived" THEN body.type ELSE resp.type]

Response(body, status, type) == [body |-> body, status |-> status, type |-> type]

RpResponses ==
    {Response(v, 200, "derived") : v \in RpValues}
      \cup {Response(v, 404, "own") : v \in {RpValue("str", "s"), RpValue("bytes", "raw")}}
      \cup {Response(RpValue("str", "s"), 42, "own")}

(* Mutant: an after hook's Response names no type.                         *)
ToPyUntyped(data) ==
    Response(RpValue(IF data.text = "raw" THEN "bytes" ELSE "str", data.text),
             data.status, "derived")

(* ResponseData::to_py: what an after_request hook receives.               *)
ToPy(data) ==
    Response(RpValue(IF data.text = "raw" THEN "bytes" ELSE "str", data.text),
             data.status, data.type)

(* HandlerError and Refusal as a status.                                   *)
StatusOf(e) ==
    CASE e \in {"overloaded", "closed"} -> 503
      [] e \in {"timeout", "overran"} -> 504
      [] e = "too_large" -> 413
      [] e = "body_timeout" -> 408
      [] e = "body_read" -> 400
      [] OTHER -> 500

-----------------------------------------------------------------------------
(* The request id.                                                         *)

(* NEXT_ID: the thread takes its range when it mints its first id.         *)
NextIdOf(t) == IF rpNextId[t] = RpUnset THEN rpNextThread * RpRange ELSE rpNextId[t]

(* RequestId::mint.                                                        *)
Mints(r, t) ==
    /\ rpNextId' = [rpNextId EXCEPT ![t] = NextIdOf(t) + 1]
    /\ rpNextThread' = IF rpNextId[t] = RpUnset THEN rpNextThread + 1 ELSE rpNextThread
    /\ rpReq' = [rpReq EXCEPT ![r].id = NextIdOf(t), ![r].pc = "waiting"]

(* RequestId::of: the client's id, usable, or a minted one.                *)
RpDispatch(r, t) ==
    /\ rpReq[r].pc = "arrived"
    /\ \/ Mints(r, t)
       \/ /\ rpReq' = [rpReq EXCEPT ![r].id = RpClient, ![r].pc = "waiting"]
          /\ UNCHANGED <<rpNextId, rpNextThread>>
    /\ UNCHANGED <<rpRoll, rpReply, rpErrors, rpSent, rpServed>>

-----------------------------------------------------------------------------
(* How the handler, and the wait for it, end.                              *)

(* HandlerError::log, where the error happened.                            *)
Logs(r, result) ==
    rpErrors' = IF result.ok THEN rpErrors ELSE [rpErrors EXCEPT ![r] = @ + 1]

(* The handler starts, maybe after the budget passed while it was queued:  *)
(* a blocking task runs though nobody waits for it.                        *)
RpHandlerStarts(r) ==
    /\ rpReq[r].handler = "none"
    /\ rpReq[r].pc = "waiting" \/ rpReply[r] = RpFailed("timeout")
    /\ rpReq' = [rpReq EXCEPT ![r].handler = "running"]
    /\ UNCHANGED <<rpNextThread, rpNextId, rpRoll, rpReply, rpErrors, rpSent, rpServed>>

(* What the handler, between its hooks, comes to: a Response (or a value:  *)
(* one with status 200 and a derived type), an exception, a panic, the     *)
(* rejection of its streamed body that it let through, or, run inline, a   *)
(* reply past the budget.                                                  *)
RpHandlerEnds(r) ==
    /\ rpReq[r].handler = "running"
    /\ \E result \in {FromResponse(v) : v \in RpResponses}
                       \cup {RpFailed(e) : e \in {"python", "panic", "too_large", "body_timeout",
                                                 "body_read", "overran"}} :
         /\ Logs(r, result)
         /\ IF rpReq[r].pc = "waiting"
              THEN rpReply' = [rpReply EXCEPT ![r] = result]
              ELSE UNCHANGED rpReply
    /\ rpReq' = [rpReq EXCEPT ![r].handler = "ended",
                              ![r].pc = IF @ = "waiting" THEN "replied" ELSE @]
    /\ UNCHANGED <<rpNextThread, rpNextId, rpRoll, rpSent, rpServed>>

(* Mutant: a refusal is rendered without being logged.                     *)
RefusedSilently(r, e) ==
    /\ rpReply' = [rpReply EXCEPT ![r] = RpFailed(e)]
    /\ rpReq' = [rpReq EXCEPT ![r].pc = "replied"]
    /\ UNCHANGED rpErrors

(* refuse, and log: the request is given up on without the handler.        *)
Refuses(r, e) ==
    /\ rpReply' = [rpReply EXCEPT ![r] = RpFailed(e)]
    /\ rpReq' = [rpReq EXCEPT ![r].pc = "replied"]
    /\ Logs(r, RpFailed(e))

(* Before the handler: the body is rejected, or nobody has room or is left *)
(* to run it.  While it is queued or runs: the budget passes, or its       *)
(* worker is lost.                                                         *)
RpGivenUp(r) ==
    /\ rpReq[r].pc = "waiting"
    /\ \/ /\ rpReq[r].handler = "none"
          /\ \E e \in {"too_large", "body_timeout", "body_read", "overloaded", "closed"} :
               Refuses(r, e)
       \/ \E e \in {"timeout", "lost"} : Refuses(r, e)
    /\ UNCHANGED <<rpNextThread, rpNextId, rpRoll, rpSent, rpServed>>

-----------------------------------------------------------------------------
(* finish.                                                                 *)

(* into_response and build_response: the response to send.                 *)
Rendered(r) ==
    LET x == rpReply[r]
        status == StatusOf(x.error)
    IN IF x.ok THEN [status |-> x.status, text |-> x.text, type |-> x.type, quotes |-> RpUnset]
       ELSE [status |-> status, text |-> "error", type |-> "json",
             quotes |-> IF status >= 500 THEN rpReq[r].id ELSE RpUnset]

(* Mutant: only a handler's own response gets the CORS headers.            *)
CorsOnOk(r) ==
    LET resp == Rendered(r)
        head == rpReq[r].method = "HEAD"
    IN [ok |-> TRUE, status |-> resp.status, type |-> resp.type, quotes |-> resp.quotes,
        cors |-> rpReply[r].ok, length |-> resp.text,
        text |-> IF head THEN "empty" ELSE resp.text]

(* cors.apply, then without_body: the length a GET's body would have.      *)
Finished(r) ==
    LET resp == Rendered(r)
        head == rpReq[r].method = "HEAD"
    IN [ok |-> TRUE, status |-> resp.status, type |-> resp.type, quotes |-> resp.quotes,
        cors |-> TRUE, length |-> resp.text,
        text |-> IF head THEN "empty" ELSE resp.text]

(* Mutant: a response above the floor rolls too.                           *)
RollsForAll(t, status) == TRUE

(* AccessLog::samples: the roll is only for a response under the floor,    *)
(* and not when every response is logged.                                  *)
Rolls(t, status) == RpEvery # 1 /\ status < RpFloor

Samples(t, status) ==
    status >= RpFloor \/ RpEvery = 1 \/ rpRoll[t] % RpEvery = 0

(* Any thread of the runtime finishes the request.                         *)
RpFinish(r, t) ==
    /\ rpReq[r].pc = "replied"
    /\ LET resp == Finished(r)
           under == resp.status < RpFloor
       IN /\ rpSent' = [rpSent EXCEPT ![r] = resp]
          /\ rpRoll' = IF Rolls(t, resp.status) THEN [rpRoll EXCEPT ![t] = @ + 1] ELSE rpRoll
          /\ rpServed' = [rpServed EXCEPT
               ![t].under = IF under THEN @ + 1 ELSE @,
               ![t].lines = IF under /\ Samples(t, resp.status) THEN @ + 1 ELSE @,
               ![t].missed = IF ~under /\ ~Samples(t, resp.status) THEN @ + 1 ELSE @]
    /\ rpReq' = [rpReq EXCEPT ![r].pc = "answered"]
    /\ UNCHANGED <<rpNextThread, rpNextId, rpReply, rpErrors>>

RpNext ==
    \E r \in RpReqs :
      \/ \E t \in RpThreads : RpDispatch(r, t) \/ RpFinish(r, t)
      \/ RpHandlerStarts(r) \/ RpHandlerEnds(r) \/ RpGivenUp(r)

RpSpec == RpInit /\ [][RpNext]_rpVars

-----------------------------------------------------------------------------
(* Properties.                                                             *)

(* The state is well formed: a request that was answered is answered whole *)
(* (CORS headers on errors too, a HEAD without a body but with its length: *)
(* every response goes through finish).                                    *)
RpTypeOK ==
    /\ rpNextThread \in 0 .. Cardinality(RpThreads)
    /\ \A r \in RpReqs :
         /\ rpReq[r].pc \in {"arrived", "waiting", "replied", "answered"}
         /\ rpReq[r].handler \in {"none", "running", "ended"}
         /\ rpReq[r].pc = "answered" =>
              /\ rpSent[r].cors /\ rpSent[r].status \in 100 .. 999
              /\ rpSent[r].text = IF rpReq[r].method = "HEAD" THEN "empty"
                                  ELSE rpSent[r].length

(* The id a 5xx tells the client leads to its error: some error line       *)
(* carries it, and no other request of the process minted it, whichever    *)
(* threads minted and whatever a late handler still logs.                  *)
RpQuotable ==
    \A r \in RpReqs :
      /\ (rpReq[r].pc = "answered" /\ rpSent[r].quotes # RpUnset) => rpErrors[r] > 0
      /\ \A q \in RpReqs \ {r} :
           (rpReq[r].id # RpUnset /\ rpReq[r].id # RpClient) => rpReq[q].id # rpReq[r].id

(* A hook that returns the Response it was given changes nothing: to_py    *)
(* and then the mapping of a Response give back the data.                  *)
RpHookKeeps ==
    \A r \in RpReqs : rpReply[r].ok => FromResponse(ToPy(rpReply[r])) = rpReply[r]

(* Each thread logs the first of every RpEvery responses under the floor   *)
(* that it finishes, and every response at or above it.                    *)
RpSampled ==
    \A t \in RpThreads :
      /\ rpServed[t].lines = (rpServed[t].under + RpEvery - 1) \div RpEvery
      /\ rpServed[t].missed = 0

RpTypes ==
    /\ rpNextThread \in Nat /\ rpNextId \in [RpThreads -> Nat \cup {RpUnset}]
    /\ rpRoll \in [RpThreads -> Nat]
    /\ rpServed \in [RpThreads -> [under : Nat, lines : Nat, missed : Nat]]
    /\ rpReq \in [RpReqs -> [method : {"GET", "HEAD"}, id : Nat \cup {RpUnset, RpClient},
                             pc : {"arrived", "waiting", "replied", "answered"},
                             handler : {"none", "running", "ended"}]]
    /\ rpErrors \in [RpReqs -> Nat]
    /\ DOMAIN rpReply = RpReqs /\ DOMAIN rpSent = RpReqs

(* The reply to a request, what was logged of it, and what was sent.       *)
RpFits(req, reply, errors, sent) ==
    /\ reply.ok \in BOOLEAN
    /\ reply.ok => reply \in {FromResponse(v) : v \in RpResponses}
    /\ req.pc \in {"replied", "answered"} /\ ~reply.ok => errors > 0
    /\ req.pc = "answered" =>
          /\ sent.cors /\ sent.status \in 100 .. 999
          /\ sent.text = IF req.method = "HEAD" THEN "empty" ELSE sent.length
          /\ sent.quotes # RpUnset => ~reply.ok

RpDispatched == {r \in RpReqs : rpReq[r].pc # "arrived"}
RpMinting == {t \in RpThreads : rpNextId[t] # RpUnset}

(* A thread that mints has a range of its own, which no more ids are taken *)
(* from than there are requests; an id is from one range, and of one       *)
(* request.                                                                *)
RpRanges(rank) ==
    /\ \A t \in RpMinting :
          /\ rank[t] < rpNextThread /\ rank[t] * RpRange <= rpNextId[t]
          /\ rpNextId[t] <= rank[t] * RpRange + Cardinality(RpDispatched)
    /\ \A t, u \in RpMinting : rank[t] = rank[u] => t = u
    /\ \A r \in RpReqs : rpReq[r].id \in Nat =>
          /\ \E t \in RpMinting : rank[t] * RpRange <= rpReq[r].id /\ rpReq[r].id < rpNextId[t]
          /\ \A q \in RpReqs : rpReq[q].id = rpReq[r].id => q = r

RpMinted ==
    /\ rpNextThread = Cardinality(RpMinting)
    /\ \E rank \in [RpThreads -> 0 .. Cardinality(RpThreads)] : RpRanges(rank)

(* What the roll counts.                                                   *)
RpRolled ==
    \A t \in RpThreads : rpRoll[t] = IF RpEvery = 1 THEN 0 ELSE rpServed[t].under

(* The inductive invariant.                                                *)
RpIInv ==
    /\ RpTypes /\ RpMinted /\ RpRolled /\ RpSampled
    /\ \A r \in RpReqs : RpFits(rpReq[r], rpReply[r], rpErrors[r], rpSent[r])

(* Answers are whole, quotable, unchanged by a hook that changes nothing,  *)
(* and sampled as configured.                                              *)
RpSafe == RpTypeOK /\ RpQuotable /\ RpHookKeeps /\ RpSampled
=============================================================================

------------------------------ MODULE HookChain -----------------------------
(***************************************************************************)
(* A request's before hooks, handler and after hooks, in the request's own *)
(* contextvars.Context, on the three paths that run them: the main         *)
(* interpreter (src/handlers.rs, run_with_hooks), an inline worker         *)
(* (src/python/worker.rs, Inline::run), both through the chain of          *)
(* src/python/hook_chain.rs on a thread that serves one request after the  *)
(* other; and the async engine (_async_engine.py, _handle), where requests *)
(* are tasks of one loop.                                                  *)
(*                                                                         *)
(* What a hook or handler does is chosen when it is called: it returns     *)
(* None, a value that is a response, a Response the mapping refuses (its   *)
(* status is none), a Stream, or it raises; it is called plainly, or       *)
(* returns a coroutine, or an asyncio Future.  Every one writes a          *)
(* ContextVar.                                                             *)
(***************************************************************************)
EXTENDS Naturals, Sequences, SequencesExt

CONSTANTS
    HcRequests,  \* requests
    HcBefore,    \* number of before hooks
    HcAfter,     \* number of after hooks
    HcOutcomes   \* what a hook or handler may do

ASSUME HcAssumption ==
    /\ HcBefore \in Nat /\ HcAfter \in Nat
    /\ HcOutcomes \subseteq {"none", "resp", "badresp", "stream", "raise"}
    /\ HcRequests \cap {"own", "other"} = {}

HcPaths == {"main", "inline", "engine"}
HcThreads == {"main", "inline"}
HcCalls == HcBefore + 1 + HcAfter
HcHow == {"plain", "task", "future"}
HcNowhere == 0

VARIABLES
    hcPath,    \* the path each request is served on
    hcStage,   \* the call it is at: 0 before its start, 1 .. HcCalls, then done
    hcCall,    \* how that call runs: "no" between calls
    hcCurrent, \* each thread's current context: a request's, or "own"
    hcWritten, \* what was written to each context: calls of a request
    hcMade,    \* the calls whose writes the rest of the request must see
    hcLog,     \* what its calls did, in order
    hcCur,     \* the response so far: the call that made it, and whether the mapping takes it
    hcResult   \* [kind, by]: "none" yet, "ok", "stream", "fail"

hcVars == <<hcPath, hcStage, hcCall, hcCurrent, hcWritten, hcMade, hcLog, hcCur, hcResult>>

HcContexts == HcRequests \cup {"own", "other"}
HcDone == HcCalls + 1
NoResult == [kind |-> "none", by |-> 0]

HcInit ==
    /\ hcPath \in [HcRequests -> HcPaths]
    /\ hcStage = [r \in HcRequests |-> HcNowhere]
    /\ hcCall = [r \in HcRequests |-> "no"]
    /\ hcCurrent = [t \in HcThreads |-> "own"]
    /\ hcWritten = [c \in HcContexts |-> {}]
    /\ hcMade = [r \in HcRequests |-> {}]
    /\ hcLog = [r \in HcRequests |-> <<>>]
    /\ hcCur = [r \in HcRequests |-> NoResult]
    /\ hcResult = [r \in HcRequests |-> NoResult]

Serving(r) == hcStage[r] \in 1 .. HcCalls
OnThread(r) == hcPath[r] \in HcThreads
SetCurrent(r, c) == IF OnThread(r) THEN [hcCurrent EXCEPT ![hcPath[r]] = c] ELSE hcCurrent

-----------------------------------------------------------------------------
(* The request's context.                                                  *)

(* Mutant: no context is entered, the hooks run in the thread's.           *)
EntersNone(r) == hcCurrent

(* in_request_context: a fresh context, entered for the request.           *)
Enters(r) == SetCurrent(r, r)

(* A thread takes a request when it has none; a task starts any time.      *)
HcStart(r) ==
    /\ hcStage[r] = HcNowhere
    /\ OnThread(r) => \A s \in HcRequests : hcPath[s] = hcPath[r] => ~Serving(s)
    /\ hcStage' = [hcStage EXCEPT ![r] = 1]
    /\ hcCurrent' = Enters(r)
    /\ UNCHANGED <<hcPath, hcCall, hcWritten, hcMade, hcLog, hcCur, hcResult>>

(* Mutant: the task is created the default way, in a copy.                 *)
TaskInCopy(r) ==
    IF hcCall[r] = "future" \/ (hcCall[r] = "task" /\ OnThread(r)) THEN "other"
    ELSE IF OnThread(r) THEN hcCurrent[hcPath[r]] ELSE r

(* The context a call of r runs in.  run_in_task gives the task the        *)
(* request's; a Future was scheduled in another; a task of the engine has  *)
(* its own.                                                                *)
ContextOf(r) ==
    IF hcCall[r] = "future" THEN "other"
    ELSE IF hcCall[r] = "plain" /\ OnThread(r) THEN hcCurrent[hcPath[r]] ELSE r

(* Chain::call, _call: the function is called; a coroutine it returned is  *)
(* run to completion, which on a thread leaves the request's context       *)
(* meanwhile (suspend).                                                    *)
HcCall(r, how) ==
    /\ Serving(r) /\ hcCall[r] = "no"
    /\ hcCall' = [hcCall EXCEPT ![r] = how]
    /\ hcCurrent' = IF how = "task" THEN SetCurrent(r, "own") ELSE hcCurrent
    /\ UNCHANGED <<hcPath, hcStage, hcWritten, hcMade, hcLog, hcCur, hcResult>>

-----------------------------------------------------------------------------
(* What a call's outcome does to the request.                              *)

IsBefore(k) == k <= HcBefore
IsHandler(k) == k = HcBefore + 1

(* The response mapping at call k: main_response makes text of a Stream,   *)
(* worker_response refuses it; both refuse a Response with no status.  The *)
(* engine's _worker_to_response keeps a Response as it is.                 *)
Mapped(r, out) ==
    CASE out = "stream" -> IF hcPath[r] = "main" THEN "ok" ELSE "fail"
      [] out = "badresp" -> IF hcPath[r] = "engine" THEN "kept" ELSE "fail"
      [] OTHER -> "ok"

Ends(r, kind) ==
    /\ hcResult' = [hcResult EXCEPT ![r] = [kind |-> kind, by |-> hcStage[r]]]
    /\ hcStage' = [hcStage EXCEPT ![r] = HcDone]
    /\ UNCHANGED hcCur

(* The last response goes out; _worker_send maps a kept Response now.      *)
Goes(r, cur) ==
    /\ hcResult' = [hcResult EXCEPT ![r] =
                        IF cur.kind = "kept" THEN [cur EXCEPT !.kind = "fail"] ELSE cur]
    /\ hcStage' = [hcStage EXCEPT ![r] = HcDone]
    /\ UNCHANGED hcCur

(* Mutant: the last call's response is not sent.                           *)
GoesPast(r, cur) ==
    /\ hcStage' = [hcStage EXCEPT ![r] = @ + 1]
    /\ hcCur' = [hcCur EXCEPT ![r] = cur]
    /\ UNCHANGED hcResult

(* On to the next call with cur as the response so far.                    *)
GoesOn(r, cur) ==
    IF hcStage[r] = HcCalls THEN Goes(r, cur)
    ELSE /\ hcStage' = [hcStage EXCEPT ![r] = @ + 1]
         /\ hcCur' = [hcCur EXCEPT ![r] = cur]
         /\ UNCHANGED hcResult

Made(r, out) == [kind |-> Mapped(r, out), by |-> hcStage[r]]

(* Mutant: a before hook that raises is logged and the request goes on.    *)
BeforeLenient(r, out) ==
    CASE out \in {"none", "raise"} -> GoesOn(r, hcCur[r])
      [] Mapped(r, out) = "fail" -> Ends(r, "fail")
      [] OTHER -> Goes(r, Made(r, out))

(* Chain::before: None goes on, a value answers the request, an exception  *)
(* fails it.                                                               *)
Before(r, out) ==
    CASE out = "none" -> GoesOn(r, hcCur[r])
      [] out = "raise" -> Ends(r, "fail")
      [] Mapped(r, out) = "fail" -> Ends(r, "fail")
      [] OTHER -> Goes(r, Made(r, out))

(* The handler: on main a Stream goes out as it is, past the after hooks.  *)
Handler(r, out) ==
    CASE out = "raise" -> Ends(r, "fail")
      [] out = "stream" /\ hcPath[r] = "main" -> Ends(r, "stream")
      [] Mapped(r, out) = "fail" -> Ends(r, "fail")
      [] OTHER -> GoesOn(r, Made(r, out))

(* Mutant: an after hook that returns None empties the response.           *)
AfterEmpties(r, out) ==
    CASE out = "raise" -> Ends(r, "fail")
      [] Mapped(r, out) = "fail" -> Ends(r, "fail")
      [] OTHER -> GoesOn(r, Made(r, out))

(* Chain::after: None keeps the response, a value replaces it.             *)
After(r, out) ==
    CASE out = "none" -> GoesOn(r, hcCur[r])
      [] out = "raise" -> Ends(r, "fail")
      [] Mapped(r, out) = "fail" -> Ends(r, "fail")
      [] OTHER -> GoesOn(r, Made(r, out))

(* The call is over: its write is in its context, the thread is back in    *)
(* the request's (Suspended::drop), and leaves it when the request is over *)
(* (Entered::drop).                                                        *)
HcReturn(r, out) ==
    /\ hcCall[r] # "no"
    /\ hcWritten' = [hcWritten EXCEPT ![ContextOf(r)] = @ \cup {<<r, hcStage[r]>>}]
    /\ hcMade' = [hcMade EXCEPT ![r] = IF hcCall[r] = "future" THEN @ ELSE @ \cup {hcStage[r]}]
    /\ hcLog' = [hcLog EXCEPT ![r] = Append(@, out)]
    /\ hcCall' = [hcCall EXCEPT ![r] = "no"]
    /\ LET k == hcStage[r]
       IN CASE IsBefore(k) -> Before(r, out)
            [] IsHandler(k) -> Handler(r, out)
            [] OTHER -> After(r, out)
    /\ hcCurrent' = SetCurrent(r, IF hcStage'[r] = HcDone THEN "own" ELSE r)
    /\ UNCHANGED hcPath

(* A panic in Rust code under the call: caught at the top of the path,     *)
(* the guards have left the contexts.                                      *)
HcPanic(r) ==
    /\ hcCall[r] # "no" /\ OnThread(r)
    /\ hcCall' = [hcCall EXCEPT ![r] = "no"]
    /\ Ends(r, "fail")
    /\ hcCurrent' = SetCurrent(r, "own")
    /\ hcLog' = [hcLog EXCEPT ![r] = Append(@, "raise")]
    /\ UNCHANGED <<hcPath, hcWritten, hcMade>>

-----------------------------------------------------------------------------
HcNext ==
    \E r \in HcRequests :
        \/ HcStart(r)
        \/ \E how \in HcHow : HcCall(r, how)
        \/ \E out \in HcOutcomes : HcReturn(r, out)
        \/ HcPanic(r)

HcSpec == HcInit /\ [][HcNext]_hcVars

-----------------------------------------------------------------------------
(* Every variable has its values, and a request that is over its result.   *)
HcTypeOK ==
    /\ hcPath \in [HcRequests -> HcPaths]
    /\ hcStage \in [HcRequests -> 0 .. HcDone]
    /\ hcCall \in [HcRequests -> HcHow \cup {"no"}]
    /\ hcCurrent \in [HcThreads -> HcRequests \cup {"own"}]
    /\ \A r \in HcRequests :
        /\ Len(hcLog[r]) <= HcCalls
        /\ hcStage[r] = HcDone <=> hcResult[r] # NoResult
        /\ \A res \in {hcCur[r], hcResult[r]} :
            /\ res.kind \in {"none", "ok", "kept", "stream", "fail"}
            /\ res.by \in 0 .. HcCalls

(* request_context.rs: a request's hooks and handler "share their writes   *)
(* with each other and with nothing else": a call sees what the calls of   *)
(* its request before it wrote, coroutines included, and nothing of a      *)
(* request before it on the thread or beside it on the loop.               *)
HcIsolated ==
    \A r \in HcRequests : hcCall[r] \in {"plain", "task"} =>
        hcWritten[ContextOf(r)] = {<<r, k>> : k \in hcMade[r]}

(* hook_chain.rs: "running the handler anyway would bypass an auth hook    *)
(* that denies by raising".  The handler of a request runs only when every *)
(* before hook of it returned None.                                        *)
HcHandlerGuarded ==
    \A r \in HcRequests : Len(hcLog[r]) > HcBefore =>
        \A k \in 1 .. HcBefore : hcLog[r][k] = "none"

(* hook_chain.rs: "The async engine runs the same order and semantics".    *)
(* Two requests whose hooks and handlers did the same get the same answer, *)
(* whatever path each was served on.  A Stream is for main only, and a     *)
(* Response that cannot be sent fails at once in the chain, but only when  *)
(* it is sent in the engine, where a later hook may still replace it.      *)
HcSameAnswer ==
    \A r, s \in HcRequests :
        /\ hcStage[r] = HcDone /\ hcStage[s] = HcDone
        /\ IsPrefix(hcLog[r], hcLog[s])
        /\ \A k \in 1 .. Len(hcLog[r]) : hcLog[r][k] \notin {"stream", "badresp"}
        => hcResult[r] = hcResult[s]

HcKinds == {"none", "ok", "kept", "stream", "fail"}

(* The thread of a request is in its context, but while a coroutine runs;  *)
(* a thread serves one request, and a context has its request's writes.    *)
HcContextKept ==
    /\ DOMAIN hcWritten = HcContexts /\ DOMAIN hcMade = HcRequests
    /\ \A r \in HcRequests :
          /\ hcWritten[r] = {<<r, k>> : k \in hcMade[r]}
          /\ Serving(r) /\ OnThread(r) =>
                /\ hcCurrent[hcPath[r]] = IF hcCall[r] = "task" THEN "own" ELSE r
                /\ \A s \in HcRequests : Serving(s) /\ hcPath[s] = hcPath[r] => s = r

(* What the calls of a log did, for logs that main and the others answer   *)
(* alike.                                                                  *)
HcClean(log) == \A k \in DOMAIN log : log[k] \notin {"stream", "badresp"}

(* The k-th call of a log let the request go on.                           *)
HcPassed(log, k) == IF k <= HcBefore THEN log[k] = "none" ELSE log[k] # "raise"

(* res is the response of the last call of the log that made one.          *)
HcLatest(log, res) ==
    /\ res.kind = "ok" /\ res.by \in HcBefore + 1 .. Len(log)
    /\ res.by = HcBefore + 1 \/ log[res.by] # "none"
    /\ \A k \in res.by + 1 .. Len(log) : log[k] = "none"

(* res answers the request whose calls did what the log says.              *)
HcAnswers(log, res) ==
    LET n == Len(log) IN
    IF log[n] = "raise" THEN res.kind = "fail" /\ res.by = n
    ELSE IF n <= HcBefore THEN log[n] # "none" /\ res.kind = "ok" /\ res.by = n
    ELSE n = HcCalls /\ HcLatest(log, res)

(* How far a request with this log is, and what its calls have made of it: *)
(* the response so far, the result.                                        *)
HcFollows(log, stage, call, cur, res) ==
    LET n == Len(log)
        serving == stage \in 1 .. HcCalls
    IN /\ stage = 0 => n = 0
       /\ serving => stage = n + 1
       /\ stage = HcDone => n \in 1 .. HcCalls
       /\ call # "no" => serving
       /\ \A k \in 1 .. n : k < n \/ serving => HcPassed(log, k)
       /\ serving /\ n > HcBefore =>
             cur.kind \in {"ok", "kept"} /\ (HcClean(log) => HcLatest(log, cur))
       /\ IF stage = HcDone THEN res.kind # "none" ELSE res = NoResult
       /\ stage = HcDone /\ HcClean(log) => HcAnswers(log, res)

HcAllFollow ==
    \A r \in HcRequests : HcFollows(hcLog[r], hcStage[r], hcCall[r], hcCur[r], hcResult[r])

HcTypes ==
    /\ hcPath \in [HcRequests -> HcPaths]
    /\ hcStage \in [HcRequests -> 0 .. HcDone]
    /\ hcCall \in [HcRequests -> HcHow \cup {"no"}]
    /\ hcCurrent \in [HcThreads -> HcRequests \cup {"own"}]
    /\ hcLog \in [HcRequests -> Seq({"none", "resp", "badresp", "stream", "raise"})]
    /\ hcCur \in [HcRequests -> [kind : HcKinds, by : 0 .. HcCalls]]
    /\ hcResult \in [HcRequests -> [kind : HcKinds, by : 0 .. HcCalls]]

(* The inductive invariant.                                                *)
HcIInv == HcTypes /\ HcContextKept /\ HcAllFollow

(* What a request's hooks may rely on, on every path: a context of its     *)
(* own, before hooks that guard the handler, and one meaning of what they  *)
(* return.                                                                 *)
HcSafe == HcTypeOK /\ HcIsolated /\ HcHandlerGuarded /\ HcSameAnswer
=============================================================================

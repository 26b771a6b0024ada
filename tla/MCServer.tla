------------------------------ MODULE MCServer ------------------------------
(***************************************************************************)
(* The parts of a server that run beside the requests, for TLC: the server *)
(* run itself, the accept loops, the WebSocket connections, the workers'   *)
(* collector, the RSS sampler and the response streams.  They share no     *)
(* state, so one behaviour follows one of them, `part`, while the others   *)
(* stay where they cannot step.                                            *)
(***************************************************************************)
EXTENDS ServerRun, WsConnections, WorkerGc, AcceptLoop, RssSampler, ResponseStream

VARIABLE part  \* the component this behaviour is about

serverVars == <<part, runVars, vars, gcVars, alVars, rmVars, rsVars>>

AllFaults == {"build", "poolSpawn", "bridge", "watcher", "tpcSpawn", "serve"}
OnePort   == <<8443>>

(* A run that was stopped before it served, and has returned.              *)
RunIsOver ==
    /\ tpc = FALSE /\ pc = "finalized" /\ i = 0
    /\ interp = [w \in Workers |-> "none"]
    /\ thread = [w \in Workers |-> "none"]
    /\ poolOpen = FALSE /\ bridge = 0 /\ watcher = "none"
    /\ stop = TRUE /\ blocking = FALSE /\ abandoned = {} /\ failed = FALSE

ServerInit ==
    /\ part \in {"run", "ws", "gc", "accept", "rss", "stream"}
    /\ IF part = "run" THEN RunInit ELSE RunIsOver
    /\ Init
    /\ GcInit /\ (part # "gc" => mode = "off")
    /\ AlInit /\ RmInit /\ RsInit

ServerNext ==
    /\ \/ /\ part = "run" /\ RunNext
          /\ UNCHANGED <<vars, gcVars, alVars, rmVars, rsVars>>
       \/ /\ part = "ws" /\ Next
          /\ UNCHANGED <<runVars, gcVars, alVars, rmVars, rsVars>>
       \/ /\ part = "gc" /\ GcNext
          /\ UNCHANGED <<runVars, vars, alVars, rmVars, rsVars>>
       \/ /\ part = "accept" /\ AlNext
          /\ UNCHANGED <<runVars, vars, gcVars, rmVars, rsVars>>
       \/ /\ part = "rss" /\ RmNext
          /\ UNCHANGED <<runVars, vars, gcVars, alVars, rsVars>>
       \/ /\ part = "stream" /\ RsNext
          /\ UNCHANGED <<runVars, vars, gcVars, alVars, rmVars>>
    /\ UNCHANGED part

ServerSpec ==
    /\ ServerInit /\ [][ServerNext]_serverVars
    /\ RunFairness /\ Fairness /\ AlFairness /\ RmFairness /\ RsFairness
    /\ \A w \in GcWorkers : WF_gcVars(Tick(w))
=============================================================================

------------------------------- MODULE MCParts -------------------------------
(***************************************************************************)
(* The parts a request meets on its way, and the ones a start goes         *)
(* through, for TLC: the plan of the topology, port binding, the thread    *)
(* states of the workers, the shared state, routing, hooks, static files,  *)
(* responses and compression.  They share no state, so one behaviour       *)
(* follows one of them, `part`, while the others stay where they are.      *)
(***************************************************************************)
EXTENDS ServerPlan, PortBinding, ThreadStates, SharedState, Routing, HookChain,
        StaticFiles, Responses, Compression, TLC

CONSTANTS o1, o2, o3, q1, q2, q3

VARIABLE part  \* the component this behaviour is about

partsVars == <<part, vars, pbVars, tsVars, shVars, rtVars, hcVars, sfVars, rpVars, coVars>>

(* Three servers: an ephemeral port and a fixed one, the same one twice,   *)
(* and the first one's fixed port.                                         *)
MCAsked == "a" :> <<0, 2>> @@ "b" :> <<1, 1>> @@ "c" :> <<2>>

(* o1 and o3 are two apps' states; o2 is o1's app's in a worker.           *)
MCAppOf   == o1 :> o1 @@ o2 :> o1 @@ o3 :> o3
MCMin     == -2
MCAmounts == {1, -2}

(* A client may write its method in lower case.                            *)
MCUpper ==
    [m \in RtAsked |-> CASE m = "get" -> "GET" [] m = "head" -> "HEAD" [] m = "post" -> "POST"
                       [] OTHER -> m]

(* Two requests for a file that is written once, past the size limit, one  *)
(* for a file that stays as it is: the first versions fit in the cache     *)
(* together; what is read of the second does not fit beside the other.     *)
MCLen == [f1 |-> <<1, 3>>, f2 |-> <<1>>]
MCOf  == [r \in SfRequests |-> IF r = q3 THEN "f2" ELSE "f1"]

-----------------------------------------------------------------------------
(* Compression: one request of every kind beside a plain one.              *)

El(n, q) == [name |-> n, q |-> q]
Els      == {El(n, q) : n \in {"br", "gzip", "*"}, q \in {0, 1}}
Accepts  == {<<>>} \cup {<<e>> : e \in Els} \cup {<<e, f>> : e, f \in Els}
              \cup {<<El("gzip", -1), El("*", 1)>>}

Data(len, type, header, enc, vary) ==
    [len |-> len, type |-> type, header |-> header, encoded |-> enc, length |-> TRUE,
     vary |-> vary]
Text == Data(4, "text", "none", FALSE, <<>>)

Varies == {<<>>, <<{"other"}>>, <<{"odd"}>>, <<{"other"}, {"ae"}>>, <<{"other"}, {"other"}>>}
Datas  ==
    {Data(n, "text", "none", FALSE, v) : n \in {1, 2, 4}, v \in Varies}
      \cup {Data(4, t, h, e, <<>>) : t \in {"text", "other"}, h \in {"none", "text", "other"},
                                     e \in BOOLEAN}

MCOffered ==
    [r \in CoReqs |->
        IF r = "r1"
        THEN {[accept |-> a, data |-> Text] : a \in Accepts}
               \cup {[accept |-> <<El("gzip", 1)>>, data |-> d] : d \in Datas}
        ELSE {[accept |-> <<El("br", 1)>>, data |-> Text]}]

Raw(min, gzip, brotli, level, quality) ==
    [min |-> min, gzip |-> gzip, brotli |-> brotli, level |-> level, quality |-> quality]
MCRaw == {Raw(2, TRUE, TRUE, 6, 4), Raw(0, TRUE, FALSE, 6, 4), Raw(2, TRUE, TRUE, 6, 11),
          Raw(2, FALSE, FALSE, 6, 4), Raw(2, TRUE, TRUE, 0, 4), Raw(5, TRUE, TRUE, 6, 4)}

-----------------------------------------------------------------------------
(* The parts that start in one of several states start in one of them when *)
(* the behaviour is about another part.                                    *)
PartsInit ==
    /\ part \in {"plan", "bind", "tstates", "shared", "routing", "hooks", "static",
                 "responses", "compression"}
    /\ Init /\ (part # "plan" => ~macos)
    /\ PbInit /\ ShInit /\ RtInit /\ SfInit
    /\ TsInit /\ (part # "tstates" => ~tsTpc)
    /\ HcInit /\ (part # "hooks" => \A r \in HcRequests : hcPath[r] = "main")
    /\ RpInit /\ (part # "responses" => \A r \in RpReqs : rpReq[r].method = "GET")
    /\ CoInit /\ (part # "compression" =>
                    /\ coSettings = CoParse(Raw(2, FALSE, FALSE, 6, 4))
                    /\ coAsked["r1"] = [accept |-> <<>>, data |-> Text])

PartsNext ==
    /\ \/ /\ part = "plan" /\ Next
          /\ UNCHANGED <<pbVars, tsVars, shVars, rtVars, hcVars, sfVars, rpVars, coVars>>
       \/ /\ part = "bind" /\ PbNext
          /\ UNCHANGED <<vars, tsVars, shVars, rtVars, hcVars, sfVars, rpVars, coVars>>
       \/ /\ part = "tstates" /\ TsNext
          /\ UNCHANGED <<vars, pbVars, shVars, rtVars, hcVars, sfVars, rpVars, coVars>>
       \/ /\ part = "shared" /\ ShNext
          /\ UNCHANGED <<vars, pbVars, tsVars, rtVars, hcVars, sfVars, rpVars, coVars>>
       \/ /\ part = "routing" /\ RtNext
          /\ UNCHANGED <<vars, pbVars, tsVars, shVars, hcVars, sfVars, rpVars, coVars>>
       \/ /\ part = "hooks" /\ HcNext
          /\ UNCHANGED <<vars, pbVars, tsVars, shVars, rtVars, sfVars, rpVars, coVars>>
       \/ /\ part = "static" /\ SfNext
          /\ UNCHANGED <<vars, pbVars, tsVars, shVars, rtVars, hcVars, rpVars, coVars>>
       \/ /\ part = "responses" /\ RpNext
          /\ UNCHANGED <<vars, pbVars, tsVars, shVars, rtVars, hcVars, sfVars, coVars>>
       \/ /\ part = "compression" /\ CoNext
          /\ UNCHANGED <<vars, pbVars, tsVars, shVars, rtVars, hcVars, sfVars, rpVars>>
    /\ UNCHANGED part

PartsSpec == PartsInit /\ [][PartsNext]_partsVars
=============================================================================

------------------------------ MODULE Routing -------------------------------
(***************************************************************************)
(* The route table (src/router.rs) and what a request for a method and a   *)
(* path resolves to (preprocess and unrouted in src/handlers/pipeline.rs): *)
(* a pre-built response, a route, a static file, the fallback, 405 or 404. *)
(*                                                                         *)
(* A path is a name; a pattern is a path (a literal) or one parameter,     *)
(* which takes any path.  A method is a spelling; RtUpperOf gives the      *)
(* upper-case one it stands for, as to_ascii_uppercase does.               *)
(***************************************************************************)
EXTENDS Integers, Sequences, FiniteSets, SequencesExt

CONSTANTS
    RtMethods,  \* methods an app registers
    RtAsked,    \* methods clients send, in any case
    RtUpperOf,  \* spelling -> the method in upper case
    RtPaths,    \* paths clients ask for
    RtPatterns, \* patterns an app registers; "colon": one with a segment :name
    RtFiles,    \* paths a static mount has a file for
    RtMost      \* bound: registrations

ASSUME RtAssumption ==
    /\ RtMost \in Nat
    /\ RtFiles \subseteq RtPaths
    /\ IsFiniteSet(RtMethods)
    /\ \A m \in RtMethods \cup {"GET", "HEAD"} : RtUpperOf[m] = m
    /\ \A m \in RtAsked : RtUpperOf[RtUpperOf[m]] = RtUpperOf[m]

VARIABLES
    rtRoutes,   \* routes, in registration order: [method, pattern]
    rtRouters,  \* method -> set of [pattern, id]: the per-method routers
    rtFast,     \* fast_responses: pairs <<method, path>>
    rtStatic,   \* a static directory is mounted
    rtFallback, \* a fallback is registered
    rtCalls,    \* registrations tried
    rtAnswer    \* the last request, and what it resolved to

rtVars == <<rtRoutes, rtRouters, rtFast, rtStatic, rtFallback, rtCalls, rtAnswer>>

RtNone == [what |-> "none"]

RtInit ==
    /\ rtRoutes = <<>>
    /\ rtRouters = [m \in RtMethods |-> {}]
    /\ rtFast = {}
    /\ rtStatic = FALSE
    /\ rtFallback = FALSE
    /\ rtCalls = 0
    /\ rtAnswer = RtNone

RtRegisters == rtCalls < RtMost /\ rtCalls' = rtCalls + 1 /\ rtAnswer' = RtNone

-----------------------------------------------------------------------------
(* Registration.                                                           *)

(* matchit's insert refuses a pattern that matches what another does: the  *)
(* same literal, or a second parameter in one place.                       *)
RtConflicts(p, q) == p = q \/ (p \notin RtPaths /\ q \notin RtPaths)

(* RouteTable::insert: nothing is registered when the template or the      *)
(* router refuses.                                                         *)
RtInsertable(m, p) ==
    /\ p # "colon"
    /\ ~\E e \in rtRouters[m] : RtConflicts(e.pattern, p)

(* Mutant: the route is in the list before the router accepts it.          *)
PushesFirst(m, p) ==
    /\ RtRegisters
    /\ rtRoutes' = Append(rtRoutes, [method |-> m, pattern |-> p])
    /\ rtRouters' = IF RtInsertable(m, p)
                      THEN [rtRouters EXCEPT ![m] =
                              @ \cup {[pattern |-> p, id |-> Len(rtRoutes) + 1]}]
                      ELSE rtRouters
    /\ UNCHANGED <<rtFast, rtStatic, rtFallback>>

RtAddRoute(m, p) ==
    /\ RtRegisters
    /\ IF RtInsertable(m, p)
         THEN /\ rtRouters' = [rtRouters EXCEPT ![m] =
                                 @ \cup {[pattern |-> p, id |-> Len(rtRoutes) + 1]}]
              /\ rtRoutes' = Append(rtRoutes, [method |-> m, pattern |-> p])
         ELSE UNCHANGED <<rtRouters, rtRoutes>>
    /\ UNCHANGED <<rtFast, rtStatic, rtFallback>>

(* add_fast_response: a second one for the pair is refused.                *)
RtAddFast(m, path) ==
    /\ RtRegisters
    /\ rtFast' = rtFast \cup {<<m, path>>}
    /\ UNCHANGED <<rtRoutes, rtRouters, rtStatic, rtFallback>>

RtAddStatic ==
    /\ RtRegisters /\ rtStatic' = TRUE
    /\ UNCHANGED <<rtRoutes, rtRouters, rtFast, rtFallback>>

RtSetFallback ==
    /\ RtRegisters /\ rtFallback' = TRUE
    /\ UNCHANGED <<rtRoutes, rtRouters, rtFast, rtStatic>>

-----------------------------------------------------------------------------
(* Resolution.                                                             *)

RtUpper(m) == RtUpperOf[m]

(* Router::at: a literal before a parameter.  The ids that match, if any.  *)
RtAt(m, path) ==
    LET here(ps) == {e.id : e \in {f \in rtRouters[m] : f.pattern \in ps}}
        literal == here({path})
    IN IF literal # {} THEN literal ELSE here(RtPatterns \ (RtPaths \cup {"colon"}))

(* lookup: the method is compared without case.                            *)
RtLookup(m, path) ==
    IF RtUpper(m) \in RtMethods THEN RtAt(RtUpper(m), path) ELSE {}

(* Mutant: HEAD has only its own routes.                                   *)
ResolvesOwn(m, path) == RtLookup(m, path)

(* resolve: a HEAD with no route of its own runs the GET route.            *)
RtResolve(m, path) ==
    LET own == RtLookup(m, path)
    IN IF own = {} /\ RtUpper(m) = "HEAD" THEN RtLookup("GET", path) ELSE own

(* fast_response: the method as it was sent; a HEAD takes the GET one.     *)
RtFastFor(m, path) ==
    IF <<m, path>> \in rtFast THEN {<<m, path>>}
    ELSE IF m = "HEAD" THEN {<<"GET", path>>} \cap rtFast ELSE {}

(* Mutant: pre-built responses are not among the methods of a path.        *)
AllowsRoutes(path) ==
    LET has == {m \in RtMethods : RtAt(m, path) # {}}
    IN IF "GET" \in has THEN has \cup {"HEAD"} ELSE has

(* allowed_methods: routed or pre-built, and HEAD wherever GET is.         *)
RtAllowed(path) ==
    LET has == {m \in RtMethods : RtAt(m, path) # {} \/ <<m, path>> \in rtFast}
    IN IF "GET" \in has THEN has \cup {"HEAD"} ELSE has

(* preprocess, then unrouted: what answers a request.                      *)
RtServes(m, path) ==
    LET fast == RtFastFor(m, path)
        route == RtResolve(m, path)
    IN IF fast # {} THEN [what |-> "fast", by |-> fast]
       ELSE IF route # {} THEN [what |-> "route", by |-> route]
       ELSE IF rtStatic /\ path \in RtFiles /\ m \in {"GET", "HEAD"}
         THEN [what |-> "file", by |-> {path}]
       ELSE IF rtFallback THEN [what |-> "fallback", by |-> {}]
       ELSE IF RtAllowed(path) # {} THEN [what |-> "405", by |-> RtAllowed(path)]
       ELSE [what |-> "404", by |-> {}]

RtAsk(m, path) ==
    /\ rtAnswer' = [what |-> RtServes(m, path).what, by |-> RtServes(m, path).by,
                    method |-> m, path |-> path]
    /\ UNCHANGED <<rtRoutes, rtRouters, rtFast, rtStatic, rtFallback, rtCalls>>

RtNext ==
    \/ \E m \in RtMethods :
         \/ \E p \in RtPatterns : RtAddRoute(m, p)
         \/ \E path \in RtPaths : RtAddFast(m, path)
    \/ RtAddStatic \/ RtSetFallback
    \/ \E m \in RtAsked, path \in RtPaths : RtAsk(m, path)

RtSpec == RtInit /\ [][RtNext]_rtVars

-----------------------------------------------------------------------------
(* Properties.                                                             *)

(* Routes and routers say the same, whatever was refused on the way: an id *)
(* found in a router is the index of the route it was registered as, and   *)
(* every route can be found (RouteTable::insert; a worker runs the handler *)
(* at the index main resolved).                                            *)
RtTypeOK ==
    /\ rtCalls \in 0 .. RtMost
    /\ {[method |-> rtRoutes[i].method, pattern |-> rtRoutes[i].pattern, id |-> i] :
          i \in DOMAIN rtRoutes}
         = UNION {{[method |-> m, pattern |-> e.pattern, id |-> e.id] : e \in rtRouters[m]} :
                    m \in RtMethods}

(* A 405 can be acted on: each method its Allow names would be served for  *)
(* that path, and no registered method that would be is left out (the      *)
(* three lookups of preprocess and allowed_methods agree).  A method is    *)
(* refused with an Allow that names it only when it was not sent in upper  *)
(* case and a pre-built response, which is found as sent, answers it.      *)
RtAllowTruthful ==
    rtAnswer.what = "405" =>
      LET upper == RtUpper(rtAnswer.method)
      IN /\ \A m \in rtAnswer.by : RtServes(m, rtAnswer.path).what \in {"fast", "route"}
         /\ \A m \in RtMethods \ rtAnswer.by :
              RtServes(m, rtAnswer.path).what \notin {"fast", "route"}
         /\ upper \in rtAnswer.by =>
              rtAnswer.method # upper /\ RtServes(upper, rtAnswer.path).what = "fast"

(* A HEAD that no route or pre-built response of its own answers is        *)
(* answered by what would answer the GET in the same case, and never       *)
(* refused where that GET is served (resolve, fast_response and unrouted   *)
(* each have the rule, and only resolve looks past the case).              *)
RtHeadIsGet ==
    (rtAnswer # RtNone /\ RtUpper(rtAnswer.method) = "HEAD") =>
      \A g \in RtAsked :
        (RtUpper(g) = "GET" /\ (g = "GET" <=> rtAnswer.method = "HEAD")) =>
          LET get == RtServes(g, rtAnswer.path)
              own == \/ RtLookup(rtAnswer.method, rtAnswer.path) # {}
                     \/ <<rtAnswer.method, rtAnswer.path>> \in rtFast
          IN /\ ~own => rtAnswer.what = get.what /\ rtAnswer.by = get.by
             /\ get.what \notin {"404", "405"} => rtAnswer.what \notin {"404", "405"}

(* The comment in lookup says that methods are case-insensitive.  They are *)
(* but for a pre-built response and a static file, which fast_response and *)
(* unrouted look for under the method as sent: whatever else answers the   *)
(* method in upper case answers it in any case, the same.                  *)
RtCaseRule ==
    rtAnswer # RtNone =>
      LET upper == RtServes(RtUpper(rtAnswer.method), rtAnswer.path)
      IN upper.what \notin {"fast", "file"} =>
           rtAnswer.what = upper.what /\ rtAnswer.by = upper.by

RtTypes ==
    /\ rtRoutes \in Seq([method : RtMethods, pattern : RtPatterns])
    /\ rtRouters \in [RtMethods -> SUBSET [pattern : RtPatterns, id : Nat]]
    /\ rtFast \subseteq RtMethods \X RtPaths

(* The last answer is still what the table says.                           *)
RtCurrent ==
    rtAnswer # RtNone =>
      \E m \in RtAsked, path \in RtPaths :
        rtAnswer = [what |-> RtServes(m, path).what, by |-> RtServes(m, path).by,
                    method |-> m, path |-> path]

(* The inductive invariant.                                                *)
RtIInv == RtTypeOK /\ RtTypes /\ RtCurrent

(* The table is consistent, and what it answers for a method agrees with   *)
(* what it says of the path's other methods.                               *)
RtSafe == RtTypeOK /\ RtAllowTruthful /\ RtHeadIsGet /\ RtCaseRule
=============================================================================

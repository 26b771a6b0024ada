---------------------------- MODULE PortBinding -----------------------------
(***************************************************************************)
(* Binding a server's listeners (src/server/listener.rs): for each         *)
(* specification the port is first proven free by a probe socket without   *)
(* SO_REUSEPORT, then one SO_REUSEPORT socket per accept loop joins it.    *)
(* Servers start at the same time, in this process or in another one; the  *)
(* kernel's rules for who may bind are external.                           *)
(***************************************************************************)
EXTENDS Naturals, FiniteSets, Sequences

CONSTANTS PbServers,  \* servers that start
          PbAsked,    \* the ports each server's specifications ask for, in order
          PbPorts,    \* the ports of the host
          PbCopies    \* accept loops of a server

ASSUME PbAssumption ==
    /\ PbCopies \in Nat \ {0}
    /\ 0 \notin PbPorts
    /\ PbAsked \in [PbServers -> Seq(PbPorts \cup {0}) \ {<<>>}]

VARIABLES pbAt,     \* each server: the step and specification it is at
          pbFound,  \* the port its probe found free
          pbSocks   \* the sockets of each server, in the order they were made
pbVars == <<pbAt, pbFound, pbSocks>>

PbInit ==
    /\ pbAt = [s \in PbServers |-> [step |-> "probe", spec |-> 1]]
    /\ pbFound = [s \in PbServers |-> 0]
    /\ pbSocks = [s \in PbServers |-> <<>>]

Listening(p) == \E s \in PbServers : \E k \in DOMAIN pbSocks[s] :
                   pbSocks[s][k].port = p /\ pbSocks[s][k].listens

(* Mutant: the reuseport sockets are bound without a probe.                *)
NoProbe(p) == FALSE

(* The probe has no SO_REUSEPORT: it cannot bind a port any socket listens *)
(* on. Both sides set SO_REUSEADDR, so a socket bound and not yet listening*)
(* does not stand in its way.                                              *)
InUse(p) == Listening(p)

(* BoundListeners::bind fails: the sockets made so far are dropped.        *)
PbFails(s) ==
    /\ pbAt' = [pbAt EXCEPT ![s].step = "failed"]
    /\ pbSocks' = [pbSocks EXCEPT ![s] = <<>>]
    /\ UNCHANGED pbFound

(* probe_free: the address asked for, or the kernel's pick for port 0.     *)
PbProbe(s) ==
    /\ pbAt[s].step = "probe"
    /\ LET asked == PbAsked[s][pbAt[s].spec] IN
       \/ \E p \in PbPorts :
             /\ asked \in {0, p}
             /\ IF asked = 0 THEN ~Listening(p) ELSE ~InUse(p)
             /\ pbFound' = [pbFound EXCEPT ![s] = p]
             /\ pbAt' = [pbAt EXCEPT ![s].step = "bind"]
             /\ UNCHANGED pbSocks
       \/ /\ asked # 0
          /\ InUse(asked)
          /\ PbFails(s)

(* Mutant: a copy of a port-0 specification binds port 0 again.            *)
PickAgain(s) == IF PbAsked[s][pbAt[s].spec] = 0 THEN PbPorts ELSE {pbFound[s]}

(* Every copy joins the port the probe found.                              *)
Joined(s) == {pbFound[s]}

(* create_reuseport_listener: the bind joins whoever set SO_REUSEPORT.     *)
PbBind(s) ==
    /\ pbAt[s].step = "bind"
    /\ pbAt' = [pbAt EXCEPT ![s].step = "listen"]
    /\ \E p \in Joined(s) :
          pbSocks' = [pbSocks EXCEPT ![s] =
                         Append(@, [spec |-> pbAt[s].spec, port |-> p, listens |-> FALSE])]
    /\ UNCHANGED pbFound

Copies(s, k) == {i \in DOMAIN pbSocks[s] : pbSocks[s][i].spec = k}

(* Mutant: one socket more than there are accept loops.                    *)
OneCopyMore(n) == n <= PbCopies

MoreCopies(n) == n < PbCopies

(* The socket listens; then the next copy, the next specification, or the  *)
(* set is complete.                                                        *)
PbListen(s) ==
    LET k == pbAt[s].spec IN
    /\ pbAt[s].step = "listen"
    /\ pbSocks' = [pbSocks EXCEPT ![s][Len(pbSocks[s])].listens = TRUE]
    /\ pbAt' = [pbAt EXCEPT ![s] =
                   IF MoreCopies(Cardinality(Copies(s, k))) THEN [@ EXCEPT !.step = "bind"]
                   ELSE IF k < Len(PbAsked[s]) THEN [step |-> "probe", spec |-> k + 1]
                   ELSE [@ EXCEPT !.step = "up"]]
    /\ UNCHANGED pbFound

(* A setsockopt, bind or listen fails for another reason.                  *)
PbError(s) ==
    /\ pbAt[s].step \in {"probe", "bind", "listen"}
    /\ PbFails(s)

(* The run ended: its listeners are released.                              *)
PbReleased(s) ==
    /\ pbAt[s].step = "up"
    /\ pbAt' = [pbAt EXCEPT ![s].step = "over"]
    /\ pbSocks' = [pbSocks EXCEPT ![s] = <<>>]
    /\ UNCHANGED pbFound

PbNext == \E s \in PbServers : \/ PbProbe(s) \/ PbBind(s) \/ PbListen(s)
                               \/ PbError(s) \/ PbReleased(s)

PbSpec == PbInit /\ [][PbNext]_pbVars

-----------------------------------------------------------------------------
PbTypeOK ==
    /\ \A s \in PbServers :
          /\ pbAt[s].step \in {"probe", "bind", "listen", "up", "failed", "over"}
          /\ pbAt[s].spec \in DOMAIN PbAsked[s]
          /\ pbFound[s] \in PbPorts \cup {0}
          /\ Len(pbSocks[s]) <= PbCopies * Len(PbAsked[s])

(* A server that is up has one socket per accept loop on one port per      *)
(* specification, the one asked for unless it asked for 0; one that failed *)
(* or ended has none. No two of its specifications share a port, so none   *)
(* serves TLS and plain HTTP at once (listener.rs, bind and probe_free).   *)
PbWhole ==
    \A s \in PbServers :
       /\ pbAt[s].step = "up" =>
             \A k \in DOMAIN PbAsked[s] :
                \E p \in PbPorts :
                   /\ PbAsked[s][k] \in {0, p}
                   /\ Cardinality(Copies(s, k)) = PbCopies
                   /\ \A i \in DOMAIN pbSocks[s] : i \in Copies(s, k) <=> pbSocks[s][i].port = p
       /\ pbAt[s].step \in {"failed", "over"} => pbSocks[s] = <<>>

PbSteps == {"probe", "bind", "listen", "up", "failed", "over"}
PbSock == [spec : Nat, port : PbPorts, listens : BOOLEAN]

PbTypes ==
    /\ pbAt \in [PbServers -> [step : PbSteps, spec : Nat]]
    /\ pbFound \in [PbServers -> PbPorts \cup {0}]
    /\ pbSocks \in [PbServers -> Seq(PbSock)]

(* The sockets are PbCopies of each specification in turn, as far as the   *)
(* step says.                                                              *)
PbPlaced(step, spec, socks, asked) ==
    LET n == Len(socks) IN
    /\ spec \in 1 .. Len(asked)
    /\ \A i \in 1 .. n : /\ socks[i].spec \in 1 .. spec
                         /\ (socks[i].spec - 1) * PbCopies < i /\ i <= socks[i].spec * PbCopies
    /\ step = "probe" => n = (spec - 1) * PbCopies
    /\ step = "bind" => (spec - 1) * PbCopies <= n /\ n < spec * PbCopies
    /\ step = "listen" => (spec - 1) * PbCopies < n /\ n <= spec * PbCopies
    /\ step = "up" => n = spec * PbCopies /\ spec = Len(asked)
    /\ step \in {"failed", "over"} => n = 0

(* They have a port per specification, the one its probe found free.       *)
PbPorted(step, spec, found, socks, asked) ==
    LET n == Len(socks) IN
    /\ \A i \in 1 .. n : /\ asked[socks[i].spec] \in {0, socks[i].port}
                         /\ i < n \/ step # "listen" => socks[i].listens
    /\ \A i, j \in 1 .. n : socks[i].spec = socks[j].spec <=> socks[i].port = socks[j].port
    /\ step \in {"bind", "listen"} =>
          /\ found \in PbPorts /\ asked[spec] \in {0, found}
          /\ \A i \in 1 .. n : socks[i].spec = spec <=> socks[i].port = found

(* The inductive invariant.                                                *)
PbIInv ==
    /\ PbTypes
    /\ \A s \in PbServers :
          /\ PbPlaced(pbAt[s].step, pbAt[s].spec, pbSocks[s], PbAsked[s])
          /\ PbPorted(pbAt[s].step, pbAt[s].spec, pbFound[s], pbSocks[s], PbAsked[s])

(* Ports and sockets are well formed, and a server has all of its sockets  *)
(* or none.                                                                *)
PbSafe == PbTypeOK /\ PbWhole
=============================================================================

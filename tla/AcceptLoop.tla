----------------------------- MODULE AcceptLoop -----------------------------
(***************************************************************************)
(* The accept loops of one server and the connections they drive: the      *)
(* listener set and its round of polls (src/server/listener.rs), the loops *)
(* of the multi-thread and the TPC servers (src/app.rs, src/tpc.rs), the   *)
(* TLS handshake (src/tls.rs) and the connection driver                    *)
(* (src/conn_driver.rs).                                                   *)
(*                                                                         *)
(* Each loop owns one SO_REUSEPORT socket per listener specification; the  *)
(* kernel queues a new connection on one of them. File descriptors are     *)
(* shared by the process: with none left every accept() fails at once.     *)
(***************************************************************************)
EXTENDS Naturals, FiniteSets, Sequences

CONSTANTS AlLoops,  \* accept loops, one listener group each
          AlPorts,  \* extra_tls_ports, in order
          AlTls,    \* a certificate is configured
          AlConns,  \* connections, each opened again once it is over
          AlFds     \* file descriptors left to connections

ASSUME AlAssumption ==
    /\ AlLoops # {} /\ AlFds \in Nat \ {0}
    /\ AlTls \in BOOLEAN /\ AlPorts \in Seq(Nat)

VARIABLES alLoop,  \* "polling", in accept()'s "backoff", "draining", "ended"
          alQueue, \* the kernel's queue of each listening socket
          alNext,  \* AcceptSource::next of each loop
          alConn,  \* each connection: where it is, on whose socket, secured
          alStop   \* the server's stop token is cancelled
alVars == <<alLoop, alQueue, alNext, alConn, alStop>>

(* ListenerSpec::set: the TLS flag of each listener, or no set at all when *)
(* extra TLS ports come without a certificate.                             *)
SpecSet(tls, ports) ==
    IF ports = <<>> THEN <<tls>>
    ELSE IF tls THEN <<FALSE>> \o [p \in DOMAIN ports |-> TRUE]
    ELSE <<>>

AlSpecs == SpecSet(AlTls, AlPorts)

NoConn == [at |-> "none", loop |-> CHOOSE l \in AlLoops : TRUE, on |-> 1,
           secure |-> FALSE]

AlInit ==
    /\ AlSpecs # <<>>
    /\ alLoop = [l \in AlLoops |-> "polling"]
    /\ alQueue = [l \in AlLoops |-> [i \in DOMAIN AlSpecs |-> <<>>]]
    /\ alNext = [l \in AlLoops |-> 1]
    /\ alConn = [c \in AlConns |-> NoConn]
    /\ alStop = FALSE

Held == {c \in AlConns : alConn[c].at \in {"handshake", "open", "graceful"}}
Exhausted == Cardinality(Held) >= AlFds

(* The kernel completes a handshake and queues the connection on one       *)
(* socket of the port; the sockets close when their loop's function ends.  *)
AlArrives(c) ==
    /\ alConn[c].at = "none"
    /\ \E l \in AlLoops, i \in DOMAIN AlSpecs :
          /\ alLoop[l] # "ended"
          /\ alConn' = [alConn EXCEPT ![c] = [NoConn EXCEPT !.at = "queued",
                                                           !.loop = l, !.on = i]]
          /\ alQueue' = [alQueue EXCEPT ![l][i] = Append(@, c)]
    /\ UNCHANGED <<alLoop, alNext, alStop>>

(* The client goes: a queued connection fails its accept() with            *)
(* ECONNABORTED, an accepted one ends.                                     *)
AlClientLeaves(c) ==
    /\ alConn[c].at \in {"queued", "handshake", "open", "graceful"}
    /\ alConn' = [alConn EXCEPT ![c] =
                     IF @.at = "queued" THEN [@ EXCEPT !.at = "aborted"] ELSE NoConn]
    /\ UNCHANGED <<alLoop, alQueue, alNext, alStop>>

(* The order in which one poll asks the listeners, from `next` on.         *)
Round(l) == [k \in DOMAIN AlSpecs |-> ((alNext[l] + k - 2) % Len(AlSpecs)) + 1]

(* The first listener of the round with a connection waiting.              *)
Polled(l, i) ==
    \E k \in DOMAIN AlSpecs :
       /\ Round(l)[k] = i
       /\ alQueue[l][i] # <<>>
       /\ \A j \in 1..(k - 1) : alQueue[l][Round(l)[j]] = <<>>

(* Mutant: every poll starts at the first listener.                        *)
StaysAtFirst(i) == 1

AfterPoll(i) == (i % Len(AlSpecs)) + 1

(* Mutant: the TLS of the listener the next poll starts at.                *)
TlsOfNext(i) == AlSpecs[AfterPoll(i)]

(* The acceptor of the listener the connection arrived on.                 *)
AcceptorOf(i) == AlSpecs[i]

(* Mutant: an accept error ends the loop.                                  *)
ErrorEnds(l) == alLoop' = [alLoop EXCEPT ![l] = "ended"]

(* handle_accept_error: the loop sleeps, 250 ms or 10 ms, and goes on.     *)
HandleAcceptError(l) == alLoop' = [alLoop EXCEPT ![l] = "backoff"]

(* AcceptSource::accept: one poll. A connection is spawned on the tracker, *)
(* its TLS handshake first; out of descriptors it stays queued; one whose  *)
(* client is gone is consumed. Both errors back off.                       *)
AlAccept(l) ==
    /\ alLoop[l] = "polling"
    /\ \E i \in DOMAIN AlSpecs :
          /\ Polled(l, i)
          /\ alNext' = [alNext EXCEPT ![l] = AfterPoll(i)]
          /\ LET c == Head(alQueue[l][i]) IN
             \/ /\ Exhausted
                /\ HandleAcceptError(l)
                /\ UNCHANGED <<alConn, alQueue>>
             \/ /\ ~Exhausted
                /\ alQueue' = [alQueue EXCEPT ![l][i] = Tail(@)]
                /\ \/ /\ alConn[c].at = "aborted"
                      /\ HandleAcceptError(l)
                      /\ alConn' = [alConn EXCEPT ![c] = NoConn]
                   \/ /\ alConn[c].at = "queued"
                      /\ alConn' = [alConn EXCEPT ![c].at =
                                       IF AcceptorOf(i) THEN "handshake" ELSE "open"]
                      /\ UNCHANGED alLoop
    /\ UNCHANGED alStop

(* The back-off is over, or the idle tick dropped the accept future in it. *)
AlResumes(l) ==
    /\ alLoop[l] = "backoff"
    /\ alLoop' = [alLoop EXCEPT ![l] = "polling"]
    /\ UNCHANGED <<alQueue, alNext, alConn, alStop>>

(* tls::wrap: the handshake completes, or fails or passes its time limit   *)
(* and the connection is dropped.                                          *)
AlHandshake(c) ==
    /\ alConn[c].at = "handshake"
    /\ \/ alConn' = [alConn EXCEPT ![c] = [@ EXCEPT !.at = "open", !.secure = TRUE]]
       \/ alConn' = [alConn EXCEPT ![c] = NoConn]
    /\ UNCHANGED <<alLoop, alQueue, alNext, alStop>>

(* drive_connection: hyper ends the connection (its last response, an      *)
(* error, the header-read timeout).                                        *)
AlConnEnds(c) ==
    /\ alConn[c].at \in {"open", "graceful"}
    /\ alConn' = [alConn EXCEPT ![c] = NoConn]
    /\ UNCHANGED <<alLoop, alQueue, alNext, alStop>>

(* drive_connection: the token is cancelled, graceful_shutdown is called.  *)
AlGraceful(c) ==
    /\ alStop
    /\ alConn[c].at = "open"
    /\ alConn' = [alConn EXCEPT ![c].at = "graceful"]
    /\ UNCHANGED <<alLoop, alQueue, alNext, alStop>>

(* shutdown(), SIGINT, or a thread that failed.                            *)
AlStops ==
    /\ ~alStop
    /\ alStop' = TRUE
    /\ UNCHANGED <<alLoop, alQueue, alNext, alConn>>

(* The select sees the token, in whatever await the loop is, and drains.   *)
AlDrains(l) ==
    /\ alStop
    /\ alLoop[l] \in {"polling", "backoff"}
    /\ alLoop' = [alLoop EXCEPT ![l] = "draining"]
    /\ UNCHANGED <<alQueue, alNext, alConn, alStop>>

Of(l) == {c \in AlConns : alConn[c].at # "none" /\ alConn[c].loop = l}

(* Mutant: the drain waits for its connections with no time limit, and a   *)
(* connection's client may never go.                                       *)
WaitsForAll(l) == Of(l) \cap Held = {}

(* The tracker is empty, or the drain's time limit passed.                 *)
DrainOver(l) == TRUE

(* drain() is over: the connections still open are closed with the runtime *)
(* and the listening sockets reset what is queued on them.                 *)
AlEnds(l) ==
    /\ alLoop[l] = "draining"
    /\ DrainOver(l)
    /\ alLoop' = [alLoop EXCEPT ![l] = "ended"]
    /\ alConn' = [c \in AlConns |-> IF c \in Of(l) THEN NoConn ELSE alConn[c]]
    /\ alQueue' = [alQueue EXCEPT ![l] = [i \in DOMAIN AlSpecs |-> <<>>]]
    /\ UNCHANGED <<alNext, alStop>>

AlNext ==
    \/ \E c \in AlConns : \/ AlArrives(c) \/ AlClientLeaves(c) \/ AlHandshake(c)
                          \/ AlConnEnds(c) \/ AlGraceful(c)
    \/ \E l \in AlLoops : AlAccept(l) \/ AlResumes(l) \/ AlDrains(l) \/ AlEnds(l)
    \/ AlStops

(* The loops and the drain's timer run; nothing is assumed of the clients. *)
AlFairness ==
    \A l \in AlLoops : /\ WF_alVars(AlAccept(l))
                       /\ WF_alVars(AlResumes(l))
                       /\ WF_alVars(AlDrains(l))
                       /\ WF_alVars(AlEnds(l))

AlSpec == AlInit /\ [][AlNext]_alVars /\ AlFairness

-----------------------------------------------------------------------------
(* Connections hold no more descriptors than there are; a connection that  *)
(* is driven belongs to a loop that has not ended.                         *)
AlTypeOK ==
    /\ alLoop \in [AlLoops -> {"polling", "backoff", "draining", "ended"}]
    /\ alNext \in [AlLoops -> DOMAIN AlSpecs]
    /\ \A c \in AlConns :
          /\ alConn[c].at \in {"none", "queued", "aborted", "handshake", "open",
                               "graceful"}
          /\ alConn[c].at # "none" => alLoop[alConn[c].loop] # "ended"
    /\ Cardinality(Held) <= AlFds
    /\ alStop \in BOOLEAN

(* A connection is served in the clear exactly on a listener without TLS:  *)
(* whichever listener the round polled first, it gets that listener's      *)
(* acceptor (listener.rs, accept; tls.rs, wrap).                           *)
AlTlsHonoured ==
    \A c \in AlConns :
       alConn[c].at \in {"open", "graceful"} =>
          (alConn[c].secure <=> AlSpecs[alConn[c].on])

(* However busy the other listeners are and whatever accept() fails with,  *)
(* a queued connection is taken, unless descriptors run out or the server  *)
(* stops; after an exhaustion the loop resumes (listener.rs, accept and    *)
(* handle_accept_error).                                                   *)
AlTaken ==
    \A c \in AlConns :
       alConn[c].at = "queued" ~> \/ alConn[c].at # "queued"
                                  \/ Exhausted
                                  \/ alStop

(* A stopped server's loops end, even with clients that never go.          *)
AlAllEnd == alStop ~> \A l \in AlLoops : alLoop[l] = "ended"

(* What makes AlSafe inductive: a socket queues each connection once, one  *)
(* that arrived on it and is not accepted yet, in the clear so far; only a *)
(* TLS listener's connection is in a handshake.                            *)
AlQueued ==
    \A l \in AlLoops : \A i \in DOMAIN AlSpecs : \A n \in DOMAIN alQueue[l][i] :
       LET c == alQueue[l][i][n] IN
       /\ alConn[c].at \in {"queued", "aborted"}
       /\ alConn[c].loop = l /\ alConn[c].on = i /\ ~alConn[c].secure
       /\ \A m \in DOMAIN alQueue[l][i] : alQueue[l][i][m] = c => m = n

AlHandshaking ==
    \A c \in AlConns : alConn[c].at = "handshake" => AlSpecs[alConn[c].on]

AlConnShape ==
    [at : {"none", "queued", "aborted", "handshake", "open", "graceful"},
     loop : AlLoops, on : DOMAIN AlSpecs, secure : BOOLEAN]

AlShapes ==
    /\ alConn \in [AlConns -> AlConnShape]
    /\ alQueue \in [AlLoops -> [DOMAIN AlSpecs -> Seq(AlConns)]]
    /\ IsFiniteSet(Held)

AlIInv == AlShapes /\ AlQueued /\ AlHandshaking

(* Descriptors are bounded, and a connection is TLS exactly when its       *)
(* listener is.                                                            *)
AlSafe == AlTypeOK /\ AlTlsHonoured

(* Queued connections are taken, and a stopped server's loops end.         *)
AlLoopsEnd == AlTaken /\ AlAllEnd
=============================================================================

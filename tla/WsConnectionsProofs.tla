------------------------ MODULE WsConnectionsProofs -------------------------
(***************************************************************************)
(* Proofs about WsConnections, for any number of upgrades and any limit,   *)
(* and about the pump of one connection (WsPump), for any message sizes    *)
(* and numbers of messages.                                                *)
(*                                                                         *)
(* SlotsExact needs each release to be of a slot that is held, and the     *)
(* handler's properties need to know which verdicts a connection's state   *)
(* allows: WsInv says both.  TypeOK, SlotsExact and WsInv are inductive    *)
(* together (the bound on the counter needs SlotsExact at the server's     *)
(* stop, which gives all slots back at once).                              *)
(*                                                                         *)
(* The pump's orders are not inductive: WpInPlace and WpOutPlace say where *)
(* every message of either direction is, from the one received last to the *)
(* wire, so that a step moves one message from one place to the next.  The *)
(* budgets are sums over the queues; SumTheorems says how they change when *)
(* a message is queued or taken off.                                       *)
(***************************************************************************)
EXTENDS WsConnections, WsPump, SumTheorems, FiniteSetTheorems, SequenceTheorems, TLAPS

Inv == TypeOK /\ SlotsExact /\ WsInv

(* A step that leaves one connection's slot taken: the count grows by one. *)
LEMMA TakeOne ==
    ASSUME TypeOK, SlotsExact, NEW c \in Conns, ~slot[c],
           slot' = [slot EXCEPT ![c] = TRUE], open' = open + 1
    PROVE  SlotsExact'
<1> DEFINE H == {d \in Conns : slot[d]}
<1>1. IsFiniteSet(H)
  BY WsAssumption, FS_Subset
<1>2. {d \in Conns : slot'[d]} = H \cup {c}
  BY DEF TypeOK
<1>3. Cardinality(H \cup {c}) = Cardinality(H) + 1
  BY <1>1, FS_AddElement
<1> QED
  BY <1>2, <1>3 DEF SlotsExact

(* ConnectionSlot::drop of a slot that is held: the count follows, and     *)
(* stays a natural number.                                                 *)
LEMMA ReleaseOne ==
    ASSUME TypeOK, SlotsExact, NEW c \in Conns, slot[c], ReleaseSlot(c)
    PROVE  /\ SlotsExact'
           /\ open' \in 0 .. MaxConnections
           /\ slot' = [slot EXCEPT ![c] = FALSE]
<1> DEFINE H == {d \in Conns : slot[d]}
<1>1. IsFiniteSet(H) /\ c \in H
  BY WsAssumption, FS_Subset
<1>2. {d \in Conns : slot'[d]} = H \ {c}
  <2>1. slot' = [slot EXCEPT ![c] = FALSE] /\ slot \in [Conns -> BOOLEAN]
    BY DEF TypeOK, ReleaseSlot
  <2> QED
    BY <2>1
<1>3. Cardinality(H \ {c}) = Cardinality(H) - 1 /\ Cardinality(H) \in Nat
  BY <1>1, FS_RemoveElement, FS_CardinalityType
<1>4. open' = open - 1 /\ open = Cardinality(H)
  BY DEF ReleaseSlot, SlotsExact
<1>5. Cardinality(H) # 0
  BY <1>1, FS_EmptySet
<1>6. SlotsExact'
  BY <1>2, <1>3, <1>4 DEF SlotsExact
<1>7. open' \in 0 .. MaxConnections
  BY <1>3, <1>4, <1>5, WsAssumption DEF TypeOK
<1> QED
  BY <1>6, <1>7 DEF ReleaseSlot

-----------------------------------------------------------------------------
(* Before the first upgrade no slot is held.                               *)
LEMMA InitInv == Init => Inv
<1> SUFFICES ASSUME Init PROVE Inv
  OBVIOUS
<1>1. TypeOK
  <2>1. slot \in [Conns -> BOOLEAN] /\ stopped \in BOOLEAN
    BY DEF Init
  <2>2. open \in 0 .. MaxConnections
    BY WsAssumption DEF Init
  <2> QED
    BY <2>1, <2>2 DEF Init, TypeOK
<1>2. {c \in Conns : slot[c]} = {}
  BY DEF Init
<1>3. SlotsExact
  BY <1>2, FS_EmptySet DEF Init, SlotsExact
<1>4. WsInv
  BY DEF Init, WsInv
<1> QED
  BY <1>1, <1>3, <1>4 DEF Inv

(* answer_upgrade: the slot taken is counted.                              *)
LEMMA UpgradeInv == ASSUME Inv, NEW c \in Conns, Upgrade(c) PROVE Inv'
<1>1. CASE /\ Room
           /\ slot' = [slot EXCEPT ![c] = TRUE]
           /\ open' = open + 1
           /\ thr' = [thr EXCEPT ![c] = "hooks"]
           /\ conn' = [conn EXCEPT ![c] = "handshake"]
  <2>1. ~slot[c] /\ verdict[c] = "none"
    BY DEF Inv, WsInv, Upgrade, TypeOK
  <2>2. TypeOK'
    BY <1>1, WsAssumption DEF Inv, TypeOK, Upgrade, Room
  <2>3. SlotsExact'
    BY <1>1, <2>1, TakeOne DEF Inv
  <2>4. WsInv'
    BY <1>1, <2>1 DEF Inv, TypeOK, WsInv, Upgrade
  <2> QED
    BY <2>2, <2>3, <2>4 DEF Inv
<1>2. CASE conn' = [conn EXCEPT ![c] = "refused"] /\ UNCHANGED <<thr, slot, open>>
  BY <1>2 DEF Inv, TypeOK, SlotsExact, WsInv, Upgrade
<1> QED
  BY <1>1, <1>2 DEF Upgrade

(* The hooks accept: the handler starts only if the verdict is read.       *)
LEMMA HooksAcceptInv == ASSUME Inv, NEW c \in Conns, HooksAccept(c) PROVE Inv'
<1>1. UNCHANGED <<conn, slot, open, stopped>> /\ thr[c] = "hooks"
  BY DEF HooksAccept
<1>2. CASE Listening(c)
  <2>1. /\ verdict' = [verdict EXCEPT ![c] = "accept"]
        /\ thr' = [thr EXCEPT ![c] = "handler"]
        /\ conn[c] \in {"handshake", "timedout"}
    BY <1>2 DEF HooksAccept, SendAccept, Listening
  <2> QED
    BY <1>1, <2>1 DEF Inv, TypeOK, SlotsExact, WsInv
<1>3. CASE ~Listening(c)
  <2>1. thr' = [thr EXCEPT ![c] = "over"] /\ verdict' = verdict
    BY <1>3 DEF HooksAccept, SendAccept
  <2> QED
    BY <1>1, <2>1 DEF Inv, TypeOK, SlotsExact, WsInv
<1> QED
  BY <1>2, <1>3

(* The hooks reject, or the thread is lost: it ends with its slot held.    *)
LEMMA HooksEndInv ==
    ASSUME Inv, NEW c \in Conns, NEW v \in {"reject", "lost"}, HooksEnd(c, v)
    PROVE  Inv'
  BY DEF Inv, TypeOK, SlotsExact, WsInv, HooksEnd, Listening

(* A handler that returns leaves the slot to the connection task.          *)
LEMMA HandlerEndsInv == ASSUME Inv, NEW c \in Conns, HandlerEnds(c) PROVE Inv'
  BY DEF Inv, TypeOK, SlotsExact, WsInv, HandlerEnds

(* The verdict read: the 101, or a rejection that joins the thread.        *)
LEMMA TakeVerdictInv == ASSUME Inv, NEW c \in Conns, TakeVerdict(c) PROVE Inv'
<1> DEFINE to == CASE verdict[c] = "accept" -> "upgraded"
                   [] verdict[c] = "reject" -> "rejecting"
                   [] OTHER -> "failed"
<1>1. /\ UNCHANGED <<thr, verdict, slot, open, stopped>>
      /\ conn[c] = "handshake" /\ verdict[c] # "none"
      /\ conn' = [conn EXCEPT ![c] = to]
  BY DEF TakeVerdict
<1>2. /\ verdict[c] = "accept" => to = "upgraded"
      /\ verdict[c] = "reject" => to = "rejecting"
      /\ verdict[c] = "lost" => to = "failed"
  OBVIOUS
<1>3. verdict[c] \in {"accept", "reject", "lost"}
  BY <1>1 DEF Inv, TypeOK
<1> HIDE DEF to
<1> QED
  BY <1>1, <1>2, <1>3 DEF Inv, TypeOK, SlotsExact, WsInv

(* The timeout elapses; the future still has the slot.                     *)
LEMMA HandshakeTimeoutInv == ASSUME Inv, NEW c \in Conns, HandshakeTimeout(c) PROVE Inv'
  BY DEF Inv, TypeOK, SlotsExact, WsInv, HandshakeTimeout

(* The handshake gives up: the join task keeps the slot.                   *)
LEMMA GivesUpInv == ASSUME Inv, NEW c \in Conns, GivesUp(c) PROVE Inv'
  BY DEF Inv, TypeOK, SlotsExact, WsInv, GivesUp

(* The service future dropped: its slot goes with it.                      *)
LEMMA ClientGoneInv == ASSUME Inv, NEW c \in Conns, ClientGone(c) PROVE Inv'
<1>1. slot[c]
  BY DEF Inv, WsInv, ClientGone
<1>2. /\ SlotsExact'
      /\ open' \in 0 .. MaxConnections
      /\ slot' = [slot EXCEPT ![c] = FALSE]
  BY <1>1, ReleaseOne DEF Inv, ClientGone
<1> QED
  BY <1>2 DEF Inv, TypeOK, WsInv, ClientGone

(* The pump over, the thread is still to be joined.                        *)
LEMMA PumpEndsInv == ASSUME Inv, NEW c \in Conns, PumpEnds(c) PROVE Inv'
  BY DEF Inv, TypeOK, SlotsExact, WsInv, PumpEnds

(* HandlerThread::join: the slot is dropped after the thread ended.        *)
LEMMA JoinInv == ASSUME Inv, NEW c \in Conns, Join(c) PROVE Inv'
<1>1. /\ SlotsExact'
      /\ open' \in 0 .. MaxConnections
      /\ slot' = [slot EXCEPT ![c] = FALSE]
  BY ReleaseOne DEF Inv, Join
<1> QED
  BY <1>1 DEF Inv, TypeOK, WsInv, Join

(* The runtime's drop releases every slot held at once.                    *)
LEMMA ServerStopsInv == ASSUME Inv, ServerStops PROVE Inv'
<1> DEFINE H == {c \in Conns : slot[c]}
<1>1. IsFiniteSet(H) /\ Cardinality(H) \in Nat
  BY WsAssumption, FS_Subset, FS_CardinalityType
<1>2. open' = 0
  BY <1>1 DEF Inv, SlotsExact, ServerStops
<1>3. {c \in Conns : slot'[c]} = {}
  BY DEF ServerStops
<1>4. SlotsExact'
  BY <1>2, <1>3, FS_EmptySet DEF SlotsExact
<1>5. TypeOK'
  BY <1>2, WsAssumption DEF Inv, TypeOK, ServerStops
<1>6. WsInv'
  BY DEF Inv, TypeOK, WsInv, ServerStops
<1> QED
  BY <1>4, <1>5, <1>6 DEF Inv

(* Every step keeps the inductive invariant.                               *)
LEMMA StepInv == Inv /\ [Next]_vars => Inv'
<1> SUFFICES ASSUME Inv, [Next]_vars PROVE Inv'
  OBVIOUS
<1>1. CASE UNCHANGED vars
  BY <1>1 DEF Inv, TypeOK, SlotsExact, WsInv, vars
<1>2. CASE ServerStops
  BY <1>2, ServerStopsInv
<1>3. ASSUME NEW c \in Conns,
             \/ Upgrade(c) \/ HooksAccept(c) \/ HandlerEnds(c) \/ TakeVerdict(c)
             \/ HandshakeTimeout(c) \/ GivesUp(c) \/ ClientGone(c) \/ PumpEnds(c) \/ Join(c)
             \/ \E v \in {"reject", "lost"} : HooksEnd(c, v)
      PROVE  Inv'
  BY <1>3, UpgradeInv, HooksAcceptInv, HandlerEndsInv, TakeVerdictInv, HandshakeTimeoutInv,
     GivesUpInv, ClientGoneInv, PumpEndsInv, JoinInv, HooksEndInv
<1> QED
  BY <1>1, <1>2, <1>3 DEF Next

(* The inductive invariant holds of every behaviour.                       *)
LEMMA InvHolds == Spec => []Inv
  BY InitInv, StepInv, PTL DEF Spec

-----------------------------------------------------------------------------
(* Type correctness: at most max_websocket_connections slots are held.     *)
THEOREM WsTypeCorrect == Spec => []TypeOK
<1>1. Inv => TypeOK
  BY DEF Inv
<1> QED
  BY InvHolds, <1>1, PTL

(* The counter is exactly the slots held, on every path.                   *)
THEOREM WsSlotsExact == Spec => []SlotsExact
<1>1. Inv => SlotsExact
  BY DEF Inv
<1> QED
  BY InvHolds, <1>1, PTL

(* A thread that runs hooks or a handler has its slot, unless the future   *)
(* or the runtime was dropped.                                             *)
THEOREM WsSlotOutlivesThread == Spec => []SlotOutlivesThread
<1>1. Inv => SlotOutlivesThread
  BY DEF Inv, TypeOK, WsInv, SlotOutlivesThread
<1> QED
  BY InvHolds, <1>1, PTL

(* No handler runs for a refused upgrade, however late its hooks accept,   *)
(* but for an accept sent between the timeout and the drop of the receiver *)
(* (await_reply, serve_connection).                                        *)
THEOREM WsNoLateHandler == Spec => []NoHandlerAfterRefusal
<1>1. Inv => NoHandlerAfterRefusal
  BY DEF Inv, TypeOK, WsInv, NoHandlerAfterRefusal
<1> QED
  BY InvHolds, <1>1, PTL

-----------------------------------------------------------------------------
(* The message pump.                                                       *)

(* A queue with a message more.                                            *)
LEMMA Appended ==
    ASSUME NEW S, NEW s \in Seq(S), NEW m \in S
    PROVE  /\ Append(s, m) \in Seq(S) /\ Len(s) \in Nat
           /\ Len(Append(s, m)) = Len(s) + 1
           /\ \A k \in 1 .. Len(s) : Append(s, m)[k] = s[k]
           /\ Append(s, m)[Len(s) + 1] = m
OBVIOUS

(* A queue without its first message.                                      *)
LEMMA Tailed ==
    ASSUME NEW S, NEW s \in Seq(S), s # <<>>
    PROVE  /\ Tail(s) \in Seq(S) /\ Len(s) \in Nat \ {0} /\ Len(Tail(s)) = Len(s) - 1
           /\ \A k \in 1 .. Len(s) - 1 : Tail(s)[k] = s[k + 1]
           /\ Head(s) = s[1] /\ Head(s) \in S
<1>1. Len(s) \in Nat \ {0}
  BY EmptySeq
<1> QED BY <1>1

(* The bytes of a queue's messages are a number.                           *)
LEMMA CostNat == \A m \in Messages \cup {NoMsg} : Cost(m) \in Nat /\ Cost(m) <= Budget
BY PumpAssumption DEF Cost, Messages, NoMsg, Budget

LEMMA ReservedNat ==
    ASSUME NEW q \in Seq(Messages)
    PROVE  Reserved(q) \in Nat
<1> DEFINE n == [k \in DOMAIN q |-> Cost(q[k])]
<1>1. DOMAIN q = 1 .. Len(q) /\ Len(q) \in Nat
  OBVIOUS
<1>2. IsFiniteSet(DOMAIN q)
  BY <1>1, FS_Interval
<1>3. \A k \in DOMAIN q : n[k] \in Nat
  BY CostNat
<1> HIDE DEF n
<1>4. SumOver(n, DOMAIN q) \in Nat
  BY <1>2, <1>3, SumNat
<1> QED BY <1>4 DEF n, Reserved

LEMMA ReservedEmpty == Reserved(<<>>) = 0
<1> DEFINE n == [k \in DOMAIN <<>> |-> Cost(<<>>[k])]
<1>1. \A k \in DOMAIN <<>> : n[k] = 0
  OBVIOUS
<1> HIDE DEF n
<1>2. SumOver(n, DOMAIN <<>>) = 0
  BY <1>1, SumNone
<1> QED BY <1>2 DEF n, Reserved

(* A message queued reserves its bytes.                                    *)
LEMMA ReservedAppend ==
    ASSUME NEW q \in Seq(Messages), NEW m \in Messages
    PROVE  Reserved(Append(q, m)) = Reserved(q) + Cost(m)
<1> DEFINE a == Append(q, m)
           l == Len(q) + 1
           n == [k \in DOMAIN a |-> Cost(a[k])]
           o == [k \in DOMAIN q |-> Cost(q[k])]
<1>1. a \in Seq(Messages) /\ DOMAIN a = 1 .. l /\ DOMAIN q = 1 .. l - 1 /\ l \in Nat
      /\ a[l] = m /\ \A k \in DOMAIN q : a[k] = q[k]
  BY Appended
<1>2. (DOMAIN a) \ {l} = DOMAIN q /\ l \in DOMAIN a /\ IsFiniteSet(DOMAIN a)
  <2>1. IsFiniteSet(1 .. l) /\ l >= 1
    BY <1>1, FS_Interval
  <2> HIDE DEF l, a
  <2>2. (1 .. l) \ {l} = 1 .. l - 1 /\ l \in 1 .. l
    BY <1>1, <2>1
  <2> QED BY <1>1, <2>1, <2>2
<1>3. n \in [DOMAIN a -> Nat] /\ n[l] = Cost(m) /\ \A k \in DOMAIN q : n[k] = o[k]
  BY <1>1, <1>2, CostNat
<1> HIDE DEF a, n, o, l
<1>4. SumOver(n, DOMAIN a) = SumOver(n, DOMAIN q) + n[l]
  <2>1. SumOver(n, DOMAIN a) = SumOver(n, (DOMAIN a) \ {l}) + n[l]
    BY <1>2, <1>3, SumSplit
  <2> QED BY <1>2, <2>1
<1>5. SumOver(n, DOMAIN q) = SumOver(o, DOMAIN q)
  BY <1>3, SumSame
<1> QED BY <1>3, <1>4, <1>5 DEF Reserved, a, n, o

(* A message taken off gives its bytes back.                               *)
LEMMA ReservedTail ==
    ASSUME NEW q \in Seq(Messages), q # <<>>
    PROVE  Reserved(q) = Reserved(Tail(q)) + Cost(Head(q))
<1> DEFINE t == Tail(q)
           l == Len(q)
           n == [k \in DOMAIN q |-> Cost(q[k])]
           o == [k \in DOMAIN t |-> Cost(t[k])]
           R == (DOMAIN q) \ {1}
           b == [k \in DOMAIN t |-> k + 1]
<1>1. /\ t \in Seq(Messages) /\ DOMAIN q = 1 .. l /\ DOMAIN t = 1 .. l - 1 /\ l \in Nat \ {0}
      /\ Head(q) = q[1] /\ \A k \in 1 .. l - 1 : t[k] = q[k + 1]
  BY Tailed
<1>2. 1 \in DOMAIN q /\ IsFiniteSet(DOMAIN q) /\ IsFiniteSet(DOMAIN t)
  BY <1>1, FS_Interval
<1>3. n \in [DOMAIN q -> Nat] /\ n[1] = Cost(Head(q)) /\ o \in [DOMAIN t -> Nat]
  BY <1>1, <1>2, CostNat
<1>4. b \in Bijection(DOMAIN t, R)
  <2>1. b \in [DOMAIN t -> R]
    BY <1>1
  <2>2. \A x, y \in DOMAIN t : b[x] = b[y] => x = y
    BY <1>1
  <2>3. \A y \in R : \E x \in DOMAIN t : b[x] = y
    <3> SUFFICES ASSUME NEW y \in R PROVE \E x \in DOMAIN t : b[x] = y
      OBVIOUS
    <3>1. y - 1 \in DOMAIN t /\ b[y - 1] = y
      BY <1>1
    <3> QED BY <3>1
  <2> QED BY <2>1, <2>2, <2>3, Fun_IsBij
<1>5. \A k \in DOMAIN t : o[k] = n[b[k]]
  BY <1>1
<1> HIDE DEF t, n, o, R, b, l
<1>6. SumOver(o, DOMAIN t) = SumOver(n, R)
  BY <1>2, <1>3, <1>4, <1>5, SumShift
<1>7. SumOver(n, DOMAIN q) = SumOver(n, R) + n[1]
  BY <1>2, <1>3, SumSplit DEF R
<1> QED BY <1>3, <1>6, <1>7 DEF Reserved, t, n, o

(* Every action's changes are of the model's values.                       *)
Wired == Messages \cup [n : {0}, kind : {"over", "close", "error"}, len : {0}]

LEMMA MessageOf ==
    ASSUME NEW k \in Nat, NEW kind \in Kinds, NEW l \in {0, MaxMessage},
           k + 1 <= MaxIn + MaxOut
    PROVE  [n |-> k + 1, kind |-> kind, len |-> l] \in Messages
BY PumpAssumption DEF Messages

LEMMA Numbered ==
    /\ \A m \in Messages : m.n \in Nat \ {0} /\ m # NoMsg /\ m.kind \in Kinds
    /\ NoMsg \notin Messages
    /\ \A m \in Wired : m.n \in Nat /\ (m.n > 0 => m \in Messages)
                      /\ (~(m.n > 0) => m.n = 0 /\ m.kind \in {"over", "close", "error"})
BY PumpAssumption DEF Messages, NoMsg, Wired

(* The messages coming in stay where they are.                             *)
LEMMA InKept ==
    ASSUME WpInPlace, UNCHANGED inVars, inbox' = inbox \/ ~inbox',
           (pump' = "forward") <=> (pump = "forward"), pump = "forward" => moving' = moving
    PROVE  WpInPlace'
<1>1. wire' = wire /\ clientIn' = clientIn /\ inq' = inq /\ held' = held /\ got' = got
  BY DEF inVars
<1>2. InOffset' = InOffset /\ WireMessages' = WireMessages
  BY <1>1 DEF InOffset, WireMessages
<1>3. Taken' = Taken
  BY <1>1, <1>2 DEF Taken
<1> QED BY <1>1, <1>2, <1>3 DEF WpInPlace

(* The messages going out stay where they are.                             *)
LEMMA OutKept ==
    ASSUME WpOutPlace, UNCHANGED outVars, outbox' = outbox \/ ~outbox',
           \/ pump' = pump /\ why' = why /\ moving' = moving
           \/ pump # "send" /\ pump' \in {"select", "forward"} /\ Pumping /\ why' = why
           \/ pump' = "closing" /\ why' # "outboxClosed"
           \/ pump' = "closed" /\ why' = why
    PROVE  WpOutPlace'
<1>1. outq' = outq /\ accepted' = accepted /\ delivered' = delivered
  BY DEF outVars
<1>2. CASE pump' = pump /\ why' = why /\ moving' = moving
  <2>1. OutOffset' = OutOffset /\ Pumping' = Pumping
    BY <1>1, <1>2 DEF OutOffset, Pumping
  <2> QED BY <1>1, <1>2, <2>1 DEF WpOutPlace
<1>3. CASE pump # "send" /\ pump' \in {"select", "forward"} /\ Pumping /\ why' = why
  <2>1. OutOffset' = OutOffset /\ pump' # "send"
    BY <1>1, <1>3 DEF OutOffset
  <2> QED BY <1>1, <1>3, <2>1 DEF WpOutPlace
<1>4. CASE (pump' = "closing" /\ why' # "outboxClosed") \/ (pump' = "closed" /\ why' = why)
  <2>1. ~Pumping'
    BY <1>4 DEF Pumping
  <2> QED BY <1>1, <1>4, <2>1 DEF WpOutPlace
<1> QED BY <1>2, <1>3, <1>4

(* Lengths and places are numbers.                                         *)
LEMMA Places ==
    ASSUME WpTypeOK
    PROVE  /\ Len(got) \in Nat /\ Len(clientIn) \in Nat /\ Len(inq) \in Nat /\ Len(wire) \in Nat
           /\ Len(outq) \in Nat /\ Len(accepted) \in Nat /\ Len(delivered) \in Nat
           /\ InOffset \in Nat /\ InOffset >= Len(got) /\ (held # NoMsg => InOffset = Len(got) + 1)
           /\ (held = NoMsg => InOffset = Len(got))
           /\ Taken \in Nat /\ Taken >= InOffset + Len(inq)
           /\ (pump = "forward" => Taken = InOffset + Len(inq) + 1)
           /\ (pump # "forward" => Taken = InOffset + Len(inq))
           /\ WireMessages \in Nat /\ WireMessages <= Len(wire)
           /\ \A k \in 1 .. Len(wire) : wire[k] \in Wired /\ wire[k].n \in Nat
<1>1. /\ got \in Seq(Messages) /\ clientIn \in Seq(Messages) /\ inq \in Seq(Messages)
      /\ wire \in Seq(Wired) /\ outq \in Seq(Messages) /\ accepted \in Seq(Messages)
      /\ delivered \in Seq(Messages)
  BY DEF WpTypeOK, Wired
<1>2. /\ Len(got) \in Nat /\ Len(clientIn) \in Nat /\ Len(inq) \in Nat /\ Len(wire) \in Nat
      /\ Len(outq) \in Nat /\ Len(accepted) \in Nat /\ Len(delivered) \in Nat
  BY <1>1
<1>3. /\ InOffset \in Nat /\ InOffset >= Len(got) /\ (held # NoMsg => InOffset = Len(got) + 1)
      /\ (held = NoMsg => InOffset = Len(got))
  BY <1>2 DEF InOffset
<1>4. /\ Taken \in Nat /\ Taken >= InOffset + Len(inq)
      /\ (pump = "forward" => Taken = InOffset + Len(inq) + 1)
      /\ (pump # "forward" => Taken = InOffset + Len(inq))
  BY <1>2, <1>3 DEF Taken
<1>5. wire # <<>> => Len(wire) # 0
  BY <1>1, EmptySeq
<1>6. WireMessages \in Nat /\ WireMessages <= Len(wire)
  BY <1>2, <1>5 DEF WireMessages
<1>7. \A k \in 1 .. Len(wire) : wire[k] \in Wired /\ wire[k].n \in Nat
  BY <1>1, Numbered
<1> QED BY <1>2, <1>3, <1>4, <1>6, <1>7

(* The client sends a message, or what ends the stream.                    *)
LEMMA ClientSendsOK ==
    ASSUME WpIInv, ClientSends
    PROVE  WpIInv'
<1>1. WpTypeOK /\ WpInPlace /\ WpOutPlace /\ BudgetsExact
  BY DEF WpIInv
<1>2. /\ UNCHANGED <<inq, inFree, held, got, outVars, pump, moving, why, outbox, inbox>>
      /\ \A k \in 1 .. Len(wire) : wire[k].n > 0
  BY <1>1 DEF ClientSends, WpTypeOK
<1>3. /\ outq' = outq /\ outFree' = outFree /\ accepted' = accepted /\ delivered' = delivered
      /\ inq' = inq /\ inFree' = inFree /\ held' = held /\ got' = got /\ pump' = pump
      /\ moving' = moving /\ why' = why /\ outbox' = outbox /\ inbox' = inbox
  BY <1>2 DEF outVars
<1>4. WpOutPlace'
  BY <1>1, <1>3, OutKept DEF outVars
<1>5. BudgetsExact'
  BY <1>1, <1>3 DEF BudgetsExact
<1>6. wire \in Seq(Wired) /\ clientIn \in Seq(Messages)
  BY <1>1 DEF WpTypeOK, Wired
<1>7. /\ Len(got) \in Nat /\ Len(clientIn) \in Nat /\ Len(inq) \in Nat /\ Len(wire) \in Nat
      /\ InOffset \in Nat /\ InOffset >= Len(got) /\ (held # NoMsg => InOffset = Len(got) + 1)
      /\ Taken \in Nat /\ Taken >= InOffset + Len(inq)
      /\ (pump = "forward" => Taken = InOffset + Len(inq) + 1)
  BY <1>1, Places
<1>8. WireMessages = Len(wire)
  <2>1. wire # <<>> => Len(wire) \in 1 .. Len(wire)
    BY <1>6, <1>7, EmptySeq
  <2> QED BY <1>2, <2>1 DEF WireMessages
<1>9. InOffset' = InOffset /\ Taken' = Taken
  BY <1>3 DEF InOffset, Taken
<1>10. ASSUME wire' \in Seq(Wired), clientIn' \in Seq(Messages), WpInPlace' PROVE WpIInv'
  BY <1>1, <1>3, <1>4, <1>5, <1>10 DEF WpIInv, WpTypeOK, Wired
<1>11. CASE /\ Len(clientIn) < MaxIn
            /\ \E k \in Kinds, l \in {0, MaxMessage} :
                  LET m == [n |-> Len(clientIn) + 1, kind |-> k, len |-> l] IN
                  wire' = Append(wire, m) /\ clientIn' = Append(clientIn, m)
  <2>1. PICK k \in Kinds, l \in {0, MaxMessage} :
           LET m == [n |-> Len(clientIn) + 1, kind |-> k, len |-> l] IN
           wire' = Append(wire, m) /\ clientIn' = Append(clientIn, m)
    BY <1>11
  <2> DEFINE m == [n |-> Len(clientIn) + 1, kind |-> k, len |-> l]
  <2>2. m \in Messages /\ m \in Wired /\ m.n > 0
    <3>1. Len(clientIn) + 1 <= MaxIn + MaxOut
      BY <1>7, <1>11, PumpAssumption
    <3>2. m \in Messages
      BY <1>7, <3>1, MessageOf
    <3> HIDE DEF m
    <3> QED BY <3>2, Numbered DEF Wired
  <2> HIDE DEF m
  <2>3. wire' = Append(wire, m) /\ clientIn' = Append(clientIn, m)
    BY <2>1 DEF m
  <2>4. /\ wire' \in Seq(Wired) /\ Len(wire') = Len(wire) + 1 /\ wire'[Len(wire) + 1] = m
        /\ \A h \in 1 .. Len(wire) : wire'[h] = wire[h]
    BY <1>6, <2>2, <2>3, Appended
  <2>5. /\ clientIn' \in Seq(Messages) /\ Len(clientIn') = Len(clientIn) + 1
        /\ clientIn'[Len(clientIn) + 1] = m
        /\ \A h \in 1 .. Len(clientIn) : clientIn'[h] = clientIn[h]
    BY <1>6, <2>2, <2>3, Appended
  <2>6. WireMessages' = Len(wire) + 1
    <3>1. wire'[Len(wire')].n # 0
      BY <2>2, <2>4
    <3> QED BY <2>4, <3>1 DEF WireMessages
  <2>7. \A h \in 1 .. Len(wire') : wire'[h].n # 0
    BY <1>2, <1>7, <2>2, <2>4
  <2>8. Len(got') <= Len(clientIn') /\ \A h \in 1 .. Len(got') : got'[h] = clientIn'[h]
    BY <1>1, <1>3, <1>7, <2>5 DEF WpInPlace
  <2>9. ASSUME inbox
        PROVE  /\ held' # NoMsg => held' = clientIn'[Len(got') + 1]
               /\ \A h \in 1 .. Len(inq') : inq'[h] = clientIn'[InOffset' + h]
               /\ pump' = "forward" => moving' = clientIn'[InOffset' + Len(inq') + 1]
               /\ \A h \in 1 .. Len(wire') : wire'[h].n > 0 => wire'[h] = clientIn'[Taken' + h]
               /\ Len(clientIn') = Taken' + WireMessages'
    <3>1. Len(clientIn) = Taken + Len(wire)
      BY <1>1, <1>8, <2>9 DEF WpInPlace
    <3>2. held' # NoMsg => held' = clientIn'[Len(got') + 1]
      BY <1>1, <1>3, <1>7, <2>5, <2>9, <3>1 DEF WpInPlace
    <3>3. \A h \in 1 .. Len(inq') : inq'[h] = clientIn'[InOffset' + h]
      <4> SUFFICES ASSUME NEW h \in 1 .. Len(inq) PROVE inq[h] = clientIn'[InOffset + h]
        BY <1>3, <1>9
      <4>1. inq[h] = clientIn[InOffset + h]
        BY <1>1, <2>9 DEF WpInPlace
      <4>2. InOffset + h \in 1 .. Len(clientIn)
        BY <1>7, <3>1
      <4> QED BY <2>5, <4>1, <4>2
    <3>4. pump' = "forward" => moving' = clientIn'[InOffset' + Len(inq') + 1]
      <4> SUFFICES ASSUME pump = "forward" PROVE moving = clientIn'[InOffset + Len(inq) + 1]
        BY <1>3, <1>9
      <4>1. moving = clientIn[InOffset + Len(inq) + 1]
        BY <1>1, <2>9 DEF WpInPlace
      <4>2. InOffset + Len(inq) + 1 \in 1 .. Len(clientIn)
        BY <1>7, <3>1
      <4> QED BY <2>5, <4>1, <4>2
    <3>5. \A h \in 1 .. Len(wire') : wire'[h].n > 0 => wire'[h] = clientIn'[Taken' + h]
      <4> SUFFICES ASSUME NEW h \in 1 .. Len(wire) + 1 PROVE wire'[h] = clientIn'[Taken + h]
        BY <1>9, <2>4
      <4>1. CASE h = Len(wire) + 1
        BY <1>7, <2>4, <2>5, <3>1, <4>1
      <4>2. CASE h # Len(wire) + 1
        <5>1. h \in 1 .. Len(wire) /\ Taken + h \in 1 .. Len(clientIn)
          BY <1>7, <3>1, <4>2
        <5>2. wire[h] = clientIn[Taken + h]
          BY <1>1, <1>2, <2>9, <5>1 DEF WpInPlace
        <5> QED BY <2>4, <2>5, <5>1, <5>2
      <4> QED BY <4>1, <4>2
    <3>6. Len(clientIn') = Taken' + WireMessages'
      BY <1>7, <1>9, <2>5, <2>6, <3>1
    <3> QED BY <3>2, <3>3, <3>4, <3>5, <3>6
  <2>10. WpInPlace'
    BY <1>3, <2>7, <2>8, <2>9 DEF WpInPlace
  <2> QED BY <1>10, <2>4, <2>5, <2>10
<1>12. CASE /\ \E e \in {"over", "close", "error"} :
                  wire' = Append(wire, [n |-> 0, kind |-> e, len |-> 0])
            /\ UNCHANGED clientIn
  <2>1. PICK e \in {"over", "close", "error"} :
           wire' = Append(wire, [n |-> 0, kind |-> e, len |-> 0])
    BY <1>12
  <2> DEFINE m == [n |-> 0, kind |-> e, len |-> 0]
  <2>2. m \in Wired /\ m.n = 0
    BY DEF Wired
  <2> HIDE DEF m
  <2>3. wire' = Append(wire, m)
    BY <2>1 DEF m
  <2>4. /\ wire' \in Seq(Wired) /\ Len(wire') = Len(wire) + 1 /\ wire'[Len(wire) + 1] = m
        /\ \A h \in 1 .. Len(wire) : wire'[h] = wire[h]
    BY <1>6, <2>2, <2>3, Appended
  <2>5. WireMessages' = Len(wire)
    <3>1. wire' # <<>>
      BY <1>7, <2>4, EmptySeq
    <3> QED BY <1>7, <2>2, <2>4, <3>1 DEF WireMessages
  <2>6. ASSUME NEW h \in 1 .. Len(wire'), wire'[h].n = 0 PROVE h = Len(wire')
    BY <1>2, <1>7, <2>4, <2>6
  <2>7. ASSUME inbox, NEW h \in 1 .. Len(wire'), wire'[h].n > 0
        PROVE  wire'[h] = clientIn[Taken + h]
    <3>1. h \in 1 .. Len(wire)
      BY <1>7, <2>2, <2>4, <2>7
    <3> QED BY <1>1, <1>2, <2>4, <2>7, <3>1 DEF WpInPlace
  <2>8. WpInPlace'
    BY <1>1, <1>3, <1>8, <1>9, <1>12, <2>5, <2>6, <2>7 DEF WpInPlace
  <2> QED BY <1>6, <1>10, <1>12, <2>4, <2>8
<1> QED BY <1>11, <1>12 DEF ClientSends

(* The parts of the invariant, and the types of what an action moves.      *)
LEMMA Parted ==
    ASSUME WpIInv
    PROVE  /\ WpTypeOK /\ WpInPlace /\ WpOutPlace /\ BudgetsExact
           /\ (moving \in Messages <=> pump \in {"forward", "send"})
           /\ wire \in Seq(Wired) /\ clientIn \in Seq(Messages) /\ inq \in Seq(Messages)
           /\ got \in Seq(Messages) /\ outq \in Seq(Messages) /\ accepted \in Seq(Messages)
           /\ delivered \in Seq(Messages)
           /\ inFree \in 0 .. Budget /\ outFree \in 0 .. Budget /\ Budget \in Nat
           /\ Reserved(inq) \in Nat /\ Reserved(outq) \in Nat
           /\ held \in Messages \cup {NoMsg} /\ moving \in Messages \cup {NoMsg}
<1>1. WpTypeOK /\ WpInPlace /\ WpOutPlace /\ BudgetsExact
      /\ (moving \in Messages <=> pump \in {"forward", "send"})
  BY DEF WpIInv
<1>2. Budget \in Nat
  BY PumpAssumption DEF Budget
<1> QED BY <1>1, <1>2, ReservedNat DEF WpTypeOK, Wired

(* The pump reads a message, or what ends the stream.                      *)
LEMMA ReadOK ==
    ASSUME WpIInv, Read
    PROVE  WpIInv'
<1>1. WpTypeOK /\ WpInPlace /\ WpOutPlace /\ BudgetsExact /\ wire \in Seq(Wired)
      /\ moving \notin Messages
  BY Parted DEF Read
<1>2. /\ pump = "select" /\ wire # <<>> /\ wire' = Tail(wire)
      /\ UNCHANGED <<clientIn, inq, inFree, held, got, outVars, outbox, inbox>>
  BY DEF Read
<1>3. /\ outq' = outq /\ outFree' = outFree /\ accepted' = accepted /\ delivered' = delivered
      /\ inq' = inq /\ inFree' = inFree /\ held' = held /\ got' = got /\ clientIn' = clientIn
      /\ outbox' = outbox /\ inbox' = inbox
  BY <1>2 DEF outVars
<1>4. /\ wire' \in Seq(Wired) /\ Len(wire) \in Nat \ {0} /\ Len(wire') = Len(wire) - 1
      /\ \A k \in 1 .. Len(wire) - 1 : wire'[k] = wire[k + 1]
      /\ Head(wire) = wire[1] /\ Head(wire) \in Wired
  BY <1>1, <1>2, Tailed
<1>5. /\ Len(got) \in Nat /\ Len(clientIn) \in Nat /\ Len(inq) \in Nat
      /\ InOffset \in Nat /\ Taken \in Nat /\ Taken = InOffset + Len(inq)
      /\ \A k \in 1 .. Len(wire) : wire[k].n \in Nat
  BY <1>1, <1>2, Places
<1>6. InOffset' = InOffset
  BY <1>3 DEF InOffset
<1>7. /\ Len(got') <= Len(clientIn') /\ \A h \in 1 .. Len(got') : got'[h] = clientIn'[h]
      /\ inbox => /\ held' # NoMsg => held' = clientIn'[Len(got') + 1]
                  /\ \A h \in 1 .. Len(inq') : inq'[h] = clientIn'[InOffset' + h]
  BY <1>1, <1>3, <1>6 DEF WpInPlace
<1>8. ASSUME NEW h \in 1 .. Len(wire'), wire'[h].n = 0 PROVE h = Len(wire')
  <2>1. h + 1 \in 1 .. Len(wire) /\ wire'[h] = wire[h + 1]
    BY <1>4
  <2>2. h + 1 = Len(wire)
    BY <1>1, <1>8, <2>1 DEF WpInPlace
  <2> QED BY <1>4, <2>2
<1>9. CASE Head(wire).n > 0
  <2>1. pump' = "forward" /\ moving' = Head(wire) /\ why' = why
    BY <1>9 DEF Read
  <2>2. moving' \in Messages
    BY <1>4, <1>9, <2>1, Numbered
  <2>3. Taken' = Taken + 1
    BY <1>3, <1>5, <1>6, <2>1 DEF Taken
  <2>4. WireMessages = WireMessages' + 1
    <3>1. CASE Len(wire) = 1
      <4>1. wire' = <<>> /\ wire[Len(wire)].n # 0 /\ Len(wire') = 0
        BY <1>4, <1>9, <3>1, EmptySeq
      <4> QED BY <3>1, <4>1 DEF WireMessages
    <3>2. CASE Len(wire) # 1
      <4>1. wire' # <<>> /\ wire'[Len(wire')] = wire[Len(wire)]
        BY <1>4, <3>2, EmptySeq
      <4> QED BY <1>2, <1>4, <4>1 DEF WireMessages
    <3> QED BY <3>1, <3>2
  <2>5. ASSUME inbox
        PROVE  /\ moving' = clientIn'[InOffset' + Len(inq') + 1]
               /\ \A h \in 1 .. Len(wire') : wire'[h].n > 0 => wire'[h] = clientIn'[Taken' + h]
               /\ Len(clientIn') = Taken' + WireMessages'
    <3>1. moving' = clientIn'[InOffset' + Len(inq') + 1]
      <4>1. wire[1] = clientIn[Taken + 1]
        BY <1>1, <1>4, <1>9, <2>5 DEF WpInPlace
      <4> QED BY <1>3, <1>4, <1>5, <1>6, <2>1, <4>1
    <3>2. ASSUME NEW h \in 1 .. Len(wire'), wire'[h].n > 0 PROVE wire'[h] = clientIn'[Taken' + h]
      <4>1. h + 1 \in 1 .. Len(wire) /\ wire'[h] = wire[h + 1]
        BY <1>4
      <4>2. wire[h + 1] = clientIn[Taken + (h + 1)]
        BY <1>1, <2>5, <3>2, <4>1 DEF WpInPlace
      <4>3. Taken + (h + 1) = Taken' + h
        BY <1>5, <2>3
      <4> QED BY <1>3, <4>1, <4>2, <4>3
    <3>3. WireMessages' \in Nat
      BY <1>4, EmptySeq DEF WireMessages
    <3>4. Len(clientIn) = Taken + WireMessages
      BY <1>1, <2>5 DEF WpInPlace
    <3>5. Len(clientIn') = Taken' + WireMessages'
      BY <1>3, <1>5, <2>3, <2>4, <3>3, <3>4
    <3> QED BY <3>1, <3>2, <3>5
  <2>6. WpInPlace'
    BY <1>3, <1>7, <1>8, <2>5 DEF WpInPlace
  <2>7. WpOutPlace'
    BY <1>1, <1>2, <2>1, OutKept DEF Pumping
  <2>8. BudgetsExact'
    BY <1>1, <1>2, <1>3, <2>1 DEF BudgetsExact
  <2>9. WpTypeOK'
    BY <1>1, <1>3, <1>4, <2>1, <2>2 DEF WpTypeOK, Wired
  <2> QED BY <2>1, <2>2, <2>6, <2>7, <2>8, <2>9 DEF WpIInv
<1>10. CASE ~(Head(wire).n > 0)
  <2>1. pump' = "closing" /\ moving' = moving /\ why' = Head(wire).kind
    BY <1>10 DEF Read, Leave
  <2>2. Head(wire).n = 0 /\ Head(wire).kind \in {"over", "close", "error"}
    BY <1>4, <1>10, Numbered
  <2>3. Len(wire) = 1
    BY <1>1, <1>4, <2>2 DEF WpInPlace
  <2>4. wire' = <<>> /\ Len(wire') = 0
    BY <1>4, <2>3, EmptySeq
  <2>5. Taken' = Taken /\ WireMessages = 0 /\ WireMessages' = 0
    BY <1>2, <1>3, <1>4, <1>5, <1>6, <2>1, <2>2, <2>3, <2>4 DEF Taken, WireMessages
  <2>6. inbox => Len(clientIn') = Taken' + WireMessages'
    BY <1>1, <1>3, <2>5 DEF WpInPlace
  <2>7. WpInPlace'
    BY <1>3, <1>7, <1>8, <2>1, <2>4, <2>6 DEF WpInPlace
  <2>8. WpOutPlace'
    BY <1>1, <1>2, <2>1, <2>2, OutKept
  <2>9. BudgetsExact'
    BY <1>1, <1>2, <1>3, <2>1 DEF BudgetsExact
  <2>10. WpTypeOK'
    BY <1>1, <1>3, <1>4, <2>1, <2>2 DEF WpTypeOK, Wired
  <2> QED BY <1>1, <2>1, <2>7, <2>8, <2>9, <2>10 DEF WpIInv
<1> QED BY <1>9, <1>10

(* The pump queues the message it read.                                    *)
LEMMA ForwardOK ==
    ASSUME WpIInv, Forward
    PROVE  WpIInv'
<1>1. /\ WpTypeOK /\ WpInPlace /\ WpOutPlace /\ BudgetsExact /\ inq \in Seq(Messages)
      /\ moving \in Messages /\ inFree \in 0 .. Budget /\ Budget \in Nat
      /\ Reserved(inq) \in Nat
  BY Parted DEF Forward
<1>2. /\ pump = "forward" /\ inFree >= Cost(moving) /\ moving' = NoMsg
      /\ UNCHANGED <<wire, clientIn, held, got, outVars, outbox, inbox>>
  BY DEF Forward
<1>3. /\ outq' = outq /\ outFree' = outFree /\ accepted' = accepted /\ delivered' = delivered
      /\ wire' = wire /\ held' = held /\ got' = got /\ clientIn' = clientIn
      /\ outbox' = outbox /\ inbox' = inbox
  BY <1>2 DEF outVars
<1>4. Cost(moving) \in Nat /\ NoMsg \notin Messages
  BY <1>1, CostNat, Numbered
<1>5. InOffset' = InOffset /\ WireMessages' = WireMessages
  BY <1>3 DEF InOffset, WireMessages
<1>6. CASE inbox
  <2>1. inq' = Append(inq, moving) /\ inFree' = inFree - Cost(moving) /\ pump' = "select"
        /\ why' = why
    BY <1>6 DEF Forward
  <2>2. /\ inq' \in Seq(Messages) /\ Len(inq) \in Nat /\ Len(inq') = Len(inq) + 1
        /\ \A k \in 1 .. Len(inq) : inq'[k] = inq[k]
        /\ inq'[Len(inq) + 1] = moving
    BY <1>1, <2>1, Appended
  <2>3. InOffset \in Nat /\ Taken = InOffset + Len(inq) + 1
    BY <1>1, <1>2, Places
  <2>4. Taken' = Taken
    BY <1>5, <2>1, <2>2, <2>3 DEF Taken
  <2>5. \A k \in 1 .. Len(inq') : inq'[k] = clientIn[InOffset + k]
    <3> SUFFICES ASSUME NEW k \in 1 .. Len(inq) + 1 PROVE inq'[k] = clientIn[InOffset + k]
      BY <2>2
    <3>1. CASE k = Len(inq) + 1
      <4>1. moving = clientIn[InOffset + Len(inq) + 1]
        BY <1>1, <1>2, <1>6 DEF WpInPlace
      <4>2. InOffset + k = InOffset + Len(inq) + 1
        BY <2>2, <2>3, <3>1
      <4> QED BY <2>2, <3>1, <4>1, <4>2
    <3>2. CASE k # Len(inq) + 1
      BY <1>1, <1>6, <2>2, <3>2 DEF WpInPlace
    <3> QED BY <3>1, <3>2
  <2>6. WpInPlace'
    BY <1>1, <1>3, <1>5, <1>6, <2>1, <2>4, <2>5 DEF WpInPlace
  <2>7. WpOutPlace'
    BY <1>1, <1>2, <2>1, OutKept DEF Pumping
  <2>8. BudgetsExact'
    <3>1. Reserved(inq') = Reserved(inq) + Cost(moving)
      BY <1>1, <2>1, ReservedAppend
    <3>2. inFree' + Reserved(inq') = Budget
      BY <1>1, <1>4, <2>1, <3>1 DEF BudgetsExact
    <3> QED BY <1>1, <1>2, <1>3, <2>1, <3>2 DEF BudgetsExact
  <2>9. inFree' \in 0 .. Budget
    BY <1>1, <1>2, <1>4, <2>1
  <2>10. WpTypeOK'
    BY <1>1, <1>2, <1>3, <2>1, <2>2, <2>9 DEF WpTypeOK
  <2> QED BY <1>2, <1>4, <2>1, <2>6, <2>7, <2>8, <2>10 DEF WpIInv
<1>7. CASE ~inbox
  <2>1. inq' = inq /\ inFree' = inFree /\ pump' = "closing" /\ why' = "inboxGone"
    BY <1>7 DEF Forward, Leave
  <2>2. WpInPlace'
    BY <1>1, <1>3, <1>7 DEF WpInPlace
  <2>3. WpOutPlace'
    BY <1>1, <1>2, <2>1, OutKept
  <2>4. BudgetsExact'
    BY <1>1, <1>2, <1>3, <2>1 DEF BudgetsExact
  <2>5. WpTypeOK'
    BY <1>1, <1>2, <1>3, <2>1 DEF WpTypeOK
  <2> QED BY <1>2, <1>4, <2>1, <2>2, <2>3, <2>4, <2>5 DEF WpIInv
<1> QED BY <1>6, <1>7

(* The places of the messages going out are numbers.                       *)
LEMMA OutPlaces ==
    ASSUME WpTypeOK
    PROVE  /\ Len(outq) \in Nat /\ Len(accepted) \in Nat /\ Len(delivered) \in Nat
           /\ OutOffset \in Nat
           /\ (pump = "send" => OutOffset = Len(delivered) + 1)
           /\ (pump # "send" => OutOffset = Len(delivered))
<1>1. Len(outq) \in Nat /\ Len(accepted) \in Nat /\ Len(delivered) \in Nat
  BY Places
<1> QED BY <1>1 DEF OutOffset

(* Two sequences of one length with the same members are one.              *)
LEMMA SameSeq ==
    ASSUME NEW S, NEW s \in Seq(S), NEW t \in Seq(S), Len(s) = Len(t),
           \A k \in 1 .. Len(s) : s[k] = t[k]
    PROVE  s = t
OBVIOUS

(* A sequence whose members are another's first ones is its prefix.        *)
LEMMA PrefixOf ==
    ASSUME NEW S, NEW s \in Seq(S), NEW t \in Seq(S), Len(s) <= Len(t),
           \A k \in 1 .. Len(s) : s[k] = t[k]
    PROVE  IsPrefix(s, t)
<1> DEFINE h == SubSeq(t, 1, Len(s))
<1>1. h \in Seq(S) /\ Len(h) = Len(s) /\ \A k \in 1 .. Len(s) : h[k] = t[k]
  OBVIOUS
<1> HIDE DEF h
<1>2. s = h
  BY <1>1, SameSeq
<1> QED BY <1>2 DEF IsPrefix, h

(* The pump takes a message to send, or finds the queue empty and closed.  *)
LEMMA TakeOutOK ==
    ASSUME WpIInv, TakeOut
    PROVE  WpIInv'
<1>1. /\ WpTypeOK /\ WpInPlace /\ WpOutPlace /\ BudgetsExact /\ outq \in Seq(Messages)
      /\ delivered \in Seq(Messages) /\ accepted \in Seq(Messages)
      /\ moving \notin Messages /\ outFree \in 0 .. Budget /\ Budget \in Nat
      /\ Reserved(outq) \in Nat
  BY Parted DEF TakeOut
<1>2. /\ pump = "select"
      /\ UNCHANGED <<inVars, outFree, accepted, delivered, outbox, inbox>>
  BY DEF TakeOut
<1>3. /\ outFree' = outFree /\ accepted' = accepted /\ delivered' = delivered
      /\ wire' = wire /\ clientIn' = clientIn /\ inq' = inq /\ inFree' = inFree
      /\ held' = held /\ got' = got /\ outbox' = outbox /\ inbox' = inbox
  BY <1>2 DEF inVars
<1>4. /\ Len(outq) \in Nat /\ Len(accepted) \in Nat /\ Len(delivered) \in Nat
      /\ OutOffset = Len(delivered)
  BY <1>1, <1>2, OutPlaces
<1>5. /\ why = "none" /\ Len(accepted) = Len(delivered) + Len(outq)
      /\ \A k \in 1 .. Len(outq) : outq[k] = accepted[Len(delivered) + k]
      /\ Len(delivered) <= Len(accepted)
      /\ \A k \in 1 .. Len(delivered) : delivered[k] = accepted[k]
  BY <1>1, <1>2, <1>4 DEF WpOutPlace, Pumping
<1>6. CASE /\ outq # <<>> /\ outq' = Tail(outq)
           /\ pump' = "send" /\ moving' = Head(outq) /\ UNCHANGED why
  <2>1. /\ outq' \in Seq(Messages) /\ Len(outq) \in Nat \ {0} /\ Len(outq') = Len(outq) - 1
        /\ \A k \in 1 .. Len(outq) - 1 : outq'[k] = outq[k + 1]
        /\ moving' = outq[1] /\ moving' \in Messages /\ moving' = Head(outq)
    BY <1>1, <1>6, Tailed
  <2>2. OutOffset' = Len(delivered) + 1
    BY <1>3, <1>6 DEF OutOffset
  <2>3. moving' = accepted[Len(delivered) + 1]
    BY <1>5, <2>1
  <2>4. \A k \in 1 .. Len(outq') : outq'[k] = accepted[OutOffset' + k]
    <3> SUFFICES ASSUME NEW k \in 1 .. Len(outq) - 1
                 PROVE  outq'[k] = accepted[Len(delivered) + 1 + k]
      BY <2>1, <2>2
    <3>1. k + 1 \in 1 .. Len(outq) /\ Len(delivered) + (k + 1) = Len(delivered) + 1 + k
      BY <1>4, <2>1
    <3> QED BY <1>5, <2>1, <3>1
  <2>5. Len(accepted) = OutOffset' + Len(outq')
    BY <1>4, <1>5, <2>1, <2>2
  <2>6. WpOutPlace'
    BY <1>3, <1>5, <1>6, <2>3, <2>4, <2>5 DEF WpOutPlace
  <2>7. WpInPlace'
    BY <1>1, <1>2, <1>6, InKept
  <2>8. BudgetsExact'
    <3>1. Reserved(outq) = Reserved(outq') + Cost(moving')
      BY <1>1, <1>6, ReservedTail
    <3>2. Reserved(outq') \in Nat /\ Cost(moving') \in Nat
      BY <2>1, ReservedNat, CostNat
    <3>3. outFree + Reserved(outq) = Budget
      BY <1>1, <1>2 DEF BudgetsExact
    <3>4. outFree + Reserved(outq') + Cost(moving') = Budget
      BY <1>1, <3>1, <3>2, <3>3
    <3> QED BY <1>1, <1>3, <1>6, <3>4 DEF BudgetsExact
  <2>9. WpTypeOK'
    BY <1>1, <1>3, <1>6, <2>1 DEF WpTypeOK
  <2> QED BY <1>6, <2>1, <2>6, <2>7, <2>8, <2>9 DEF WpIInv
<1>7. CASE /\ outq = <<>> /\ ~outbox /\ Leave("outboxClosed")
           /\ UNCHANGED <<outq, moving>>
  <2>1. /\ pump' = "closing" /\ why' = "outboxClosed" /\ outq' = outq /\ moving' = moving
        /\ Len(outq) = 0
    BY <1>7 DEF Leave
  <2>2. delivered = accepted
    BY <1>1, <1>4, <1>5, <2>1, SameSeq
  <2>3. WpOutPlace'
    BY <1>3, <1>5, <1>7, <2>1, <2>2 DEF WpOutPlace, Pumping
  <2>4. WpInPlace'
    BY <1>1, <1>2, <2>1, InKept
  <2>5. BudgetsExact'
    BY <1>1, <1>2, <1>3, <2>1 DEF BudgetsExact
  <2>6. WpTypeOK'
    BY <1>1, <1>3, <2>1 DEF WpTypeOK
  <2> QED BY <1>1, <2>1, <2>3, <2>4, <2>5, <2>6 DEF WpIInv
<1> QED BY <1>6, <1>7 DEF TakeOut

(* A write ends.                                                           *)
LEMMA SentOK ==
    ASSUME WpIInv, Sent
    PROVE  WpIInv'
<1>1. /\ WpTypeOK /\ WpInPlace /\ WpOutPlace /\ BudgetsExact
      /\ delivered \in Seq(Messages) /\ accepted \in Seq(Messages)
      /\ moving \in Messages /\ outFree \in 0 .. Budget /\ Budget \in Nat
      /\ Reserved(outq) \in Nat
  BY Parted DEF Sent
<1>2. /\ pump = "send" /\ outFree' = outFree + Cost(moving) /\ moving' = NoMsg
      /\ UNCHANGED <<inVars, outq, accepted, outbox, inbox>>
  BY DEF Sent
<1>3. /\ accepted' = accepted /\ outq' = outq
      /\ wire' = wire /\ clientIn' = clientIn /\ inq' = inq /\ inFree' = inFree
      /\ held' = held /\ got' = got /\ outbox' = outbox /\ inbox' = inbox
  BY <1>2 DEF inVars
<1>4. /\ Len(outq) \in Nat /\ Len(accepted) \in Nat /\ Len(delivered) \in Nat
      /\ OutOffset = Len(delivered) + 1
  BY <1>1, <1>2, OutPlaces
<1>5. /\ why = "none" /\ moving = accepted[Len(delivered) + 1]
      /\ Len(accepted) = Len(delivered) + 1 + Len(outq)
      /\ \A k \in 1 .. Len(outq) : outq[k] = accepted[Len(delivered) + 1 + k]
      /\ Len(delivered) <= Len(accepted)
      /\ \A k \in 1 .. Len(delivered) : delivered[k] = accepted[k]
  BY <1>1, <1>2, <1>4 DEF WpOutPlace, Pumping
<1>6. Cost(moving) \in Nat /\ NoMsg \notin Messages
  BY <1>1, CostNat, Numbered
<1>7. outFree' + Reserved(outq) = Budget /\ outFree' \in 0 .. Budget
  BY <1>1, <1>2, <1>6 DEF BudgetsExact
<1>8. pump' \in {"select", "closing"}
  BY DEF Sent, Leave
<1>9. WpInPlace'
  BY <1>1, <1>2, <1>8, InKept
<1>10. BudgetsExact'
  <2>1. outFree' + Reserved(outq') + 0 = Budget
    BY <1>1, <1>3, <1>7
  <2> QED BY <1>1, <1>3, <1>8, <2>1 DEF BudgetsExact
<1>11. CASE delivered' = Append(delivered, moving) /\ pump' = "select" /\ UNCHANGED why
  <2>1. /\ delivered' \in Seq(Messages) /\ Len(delivered') = Len(delivered) + 1
        /\ \A k \in 1 .. Len(delivered) : delivered'[k] = delivered[k]
        /\ delivered'[Len(delivered) + 1] = moving
    BY <1>1, <1>11, Appended
  <2>2. OutOffset' = Len(delivered) + 1
    BY <1>4, <1>11, <2>1 DEF OutOffset
  <2>3. \A k \in 1 .. Len(delivered') : delivered'[k] = accepted[k]
    <3> SUFFICES ASSUME NEW k \in 1 .. Len(delivered) + 1 PROVE delivered'[k] = accepted[k]
      BY <2>1
    <3>1. CASE k = Len(delivered) + 1
      BY <1>5, <2>1, <3>1
    <3>2. CASE k # Len(delivered) + 1
      BY <1>4, <1>5, <2>1, <3>2
    <3> QED BY <3>1, <3>2
  <2>4. Len(delivered') <= Len(accepted)
    BY <1>4, <1>5, <2>1
  <2>5. WpOutPlace'
    BY <1>3, <1>5, <1>11, <2>2, <2>3, <2>4 DEF WpOutPlace
  <2>6. WpTypeOK'
    BY <1>1, <1>2, <1>3, <1>7, <1>11, <2>1 DEF WpTypeOK
  <2> QED BY <1>2, <1>6, <1>9, <1>10, <1>11, <2>5, <2>6 DEF WpIInv
<1>12. CASE Leave("writeFailed") /\ UNCHANGED delivered
  <2>1. pump' = "closing" /\ why' = "writeFailed" /\ delivered' = delivered
    BY <1>12 DEF Leave
  <2>2. WpOutPlace'
    BY <1>3, <1>5, <2>1 DEF WpOutPlace, Pumping
  <2>3. WpTypeOK'
    BY <1>1, <1>2, <1>3, <1>7, <2>1 DEF WpTypeOK
  <2> QED BY <1>2, <1>6, <1>9, <1>10, <2>1, <2>2, <2>3 DEF WpIInv
<1> QED BY <1>11, <1>12 DEF Sent

(* The connection closes.                                                  *)
LEMMA ClosedOK ==
    ASSUME WpIInv, Closed
    PROVE  WpIInv'
<1>1. /\ WpTypeOK /\ WpInPlace /\ WpOutPlace /\ BudgetsExact
      /\ outFree \in 0 .. Budget /\ Budget \in Nat /\ Reserved(outq) \in Nat
      /\ (moving \in Messages <=> pump \in {"forward", "send"})
  BY Parted
<1>2. /\ pump = "closing" /\ pump' = "closed" /\ outq' = <<>>
      /\ outFree' = outFree + Reserved(outq)
      /\ UNCHANGED <<inVars, accepted, delivered, moving, why, outbox, inbox>>
  BY DEF Closed
<1>3. /\ accepted' = accepted /\ delivered' = delivered /\ moving' = moving /\ why' = why
      /\ wire' = wire /\ clientIn' = clientIn /\ inq' = inq /\ inFree' = inFree
      /\ held' = held /\ got' = got /\ outbox' = outbox /\ inbox' = inbox
  BY <1>2 DEF inVars
<1>4. WpInPlace'
  BY <1>1, <1>2, InKept
<1>5. WpOutPlace'
  BY <1>1, <1>2, <1>3 DEF WpOutPlace, Pumping
<1>6. outFree' = Budget
  BY <1>1, <1>2 DEF BudgetsExact
<1>7. BudgetsExact'
  <2>1. outFree' + Reserved(outq') + 0 = Budget
    BY <1>1, <1>2, <1>6, ReservedEmpty
  <2> QED BY <1>1, <1>2, <1>3, <2>1 DEF BudgetsExact
<1>8. WpTypeOK'
  BY <1>1, <1>2, <1>3, <1>6 DEF WpTypeOK
<1> QED BY <1>1, <1>2, <1>3, <1>4, <1>5, <1>7, <1>8 DEF WpIInv

(* recv takes the next message, or keeps it for the next call: either way  *)
(* the messages behind it stay in their places.                            *)
LEMMA RecvOK ==
    ASSUME WpIInv, NEW kinds, Recv(kinds)
    PROVE  WpIInv'
<1>1. /\ WpTypeOK /\ WpInPlace /\ WpOutPlace /\ BudgetsExact /\ inq \in Seq(Messages)
      /\ got \in Seq(Messages) /\ held \in Messages \cup {NoMsg}
      /\ inFree \in 0 .. Budget /\ Budget \in Nat /\ Reserved(inq) \in Nat
      /\ (moving \in Messages <=> pump \in {"forward", "send"})
  BY Parted
<1> DEFINE m == IF held # NoMsg THEN held ELSE Head(inq)
<1>2. /\ inbox /\ (held # NoMsg \/ inq # <<>>)
      /\ IF held # NoMsg THEN UNCHANGED <<inq, inFree>>
         ELSE inq' = Tail(inq) /\ inFree' = inFree + Cost(m)
      /\ IF m.kind \in kinds
         THEN got' = Append(got, m) /\ held' = NoMsg
         ELSE held' = m /\ UNCHANGED got
      /\ UNCHANGED <<wire, clientIn, outVars, pump, moving, why, outbox, inbox>>
  BY DEF Recv, KeepRefused
<1>3. /\ outq' = outq /\ outFree' = outFree /\ accepted' = accepted /\ delivered' = delivered
      /\ wire' = wire /\ clientIn' = clientIn /\ pump' = pump /\ moving' = moving /\ why' = why
      /\ outbox' = outbox /\ inbox' = inbox
  BY <1>2 DEF outVars
<1>4. /\ Len(got) \in Nat /\ Len(clientIn) \in Nat /\ Len(inq) \in Nat
      /\ InOffset \in Nat /\ (held # NoMsg => InOffset = Len(got) + 1)
      /\ (held = NoMsg => InOffset = Len(got))
      /\ (pump = "forward" => Taken = InOffset + Len(inq) + 1)
      /\ (pump # "forward" => Taken = InOffset + Len(inq))
      /\ Taken \in Nat /\ WireMessages \in Nat
  BY <1>1, Places
<1>5. held = NoMsg => /\ inq' \in Seq(Messages) /\ Len(inq) \in Nat \ {0}
                      /\ Len(inq') = Len(inq) - 1 /\ m = inq[1] /\ m \in Messages
                      /\ \A k \in 1 .. Len(inq) - 1 : inq'[k] = inq[k + 1]
                      /\ inFree' = inFree + Cost(m) /\ inq' = Tail(inq) /\ m = Head(inq)
  BY <1>1, <1>2, Tailed
<1>6. held # NoMsg => m = held /\ m \in Messages /\ inq' = inq /\ inFree' = inFree
  BY <1>1, <1>2
<1>7. m \in Messages /\ m = clientIn[Len(got) + 1]
  BY <1>1, <1>2, <1>4, <1>5, <1>6 DEF WpInPlace
<1> HIDE DEF m
<1>8. \/ got' = Append(got, m) /\ held' = NoMsg
      \/ held' = m /\ got' = got
  BY <1>2
<1>9. inq' \in Seq(Messages) /\ Len(inq') \in Nat
      /\ Len(got) + 1 + Len(inq') = InOffset + Len(inq)
  <2>1. CASE held = NoMsg
    <3>1. inq' \in Seq(Messages) /\ Len(inq) \in Nat \ {0} /\ Len(inq') = Len(inq) - 1
      BY <1>5, <2>1
    <3>2. InOffset = Len(got) /\ Len(got) \in Nat
      BY <1>4, <2>1
    <3> QED BY <3>1, <3>2
  <2>2. CASE held # NoMsg
    BY <1>1, <1>4, <1>6, <2>2
  <2> QED BY <2>1, <2>2
<1>10. \A k \in 1 .. Len(inq') : inq'[k] = clientIn[Len(got) + 1 + k]
  <2>1. \A k \in 1 .. Len(inq) : inq[k] = clientIn[InOffset + k]
    BY <1>1, <1>2 DEF WpInPlace
  <2>2. CASE held = NoMsg
    <3> SUFFICES ASSUME NEW k \in 1 .. Len(inq) - 1
                 PROVE  inq'[k] = clientIn[Len(got) + 1 + k]
      BY <1>5, <2>2
    <3>1. InOffset = Len(got) /\ Len(got) \in Nat /\ Len(inq) \in Nat
      BY <1>4, <2>2
    <3>2. k + 1 \in 1 .. Len(inq) /\ InOffset + (k + 1) = Len(got) + 1 + k
      BY <3>1
    <3>3. inq'[k] = inq[k + 1]
      BY <1>5, <2>2
    <3> QED BY <2>1, <3>2, <3>3
  <2>3. CASE held # NoMsg
    BY <1>4, <1>6, <2>1, <2>3
  <2> QED BY <2>2, <2>3
<1>11. InOffset' = Len(got) + 1
  <2>1. CASE got' = Append(got, m) /\ held' = NoMsg
    BY <1>1, <1>4, <1>7, <2>1, Appended DEF InOffset
  <2>2. CASE held' = m /\ got' = got
    BY <1>4, <1>7, <2>2, Numbered DEF InOffset
  <2> QED BY <1>8, <2>1, <2>2
<1>12. Taken' = Taken /\ WireMessages' = WireMessages
  BY <1>3, <1>4, <1>9, <1>11 DEF Taken, WireMessages
<1>13. Len(clientIn) = Taken + WireMessages
  BY <1>1, <1>2 DEF WpInPlace
<1>14. Len(got) + 1 <= Len(clientIn)
  BY <1>4, <1>9, <1>13
<1>15. /\ got' \in Seq(Messages) /\ held' \in Messages \cup {NoMsg}
       /\ Len(got') <= Len(clientIn)
       /\ \A k \in 1 .. Len(got') : got'[k] = clientIn[k]
       /\ held' # NoMsg => held' = clientIn[Len(got') + 1]
  <2>1. CASE got' = Append(got, m) /\ held' = NoMsg
    <3>1. /\ got' \in Seq(Messages) /\ Len(got') = Len(got) + 1
          /\ \A k \in 1 .. Len(got) : got'[k] = got[k]
          /\ got'[Len(got) + 1] = m
      BY <1>1, <1>7, <2>1, Appended
    <3>2. ASSUME NEW k \in 1 .. Len(got') PROVE got'[k] = clientIn[k]
      <4>1. CASE k = Len(got) + 1
        BY <1>7, <3>1, <4>1
      <4>2. CASE k # Len(got) + 1
        <5>1. k \in 1 .. Len(got)
          BY <1>4, <3>1, <4>2
        <5> QED BY <1>1, <3>1, <5>1 DEF WpInPlace
      <4> QED BY <4>1, <4>2
    <3> QED BY <1>14, <2>1, <3>1, <3>2
  <2>2. CASE held' = m /\ got' = got
    BY <1>1, <1>7, <2>2 DEF WpInPlace
  <2> QED BY <1>8, <2>1, <2>2
<1>16. pump = "forward" => moving = clientIn[InOffset' + Len(inq') + 1]
  <2> SUFFICES ASSUME pump = "forward" PROVE moving = clientIn[InOffset' + Len(inq') + 1]
    OBVIOUS
  <2>1. moving = clientIn[InOffset + Len(inq) + 1]
    BY <1>1, <1>2 DEF WpInPlace
  <2> QED BY <1>9, <1>11, <2>1
<1>17. WpInPlace'
  BY <1>1, <1>2, <1>3, <1>10, <1>11, <1>12, <1>15, <1>16 DEF WpInPlace
<1>18. WpOutPlace'
  BY <1>1, <1>2, OutKept
<1>19. inFree' + Reserved(inq') = Budget /\ inFree' \in 0 .. Budget
  <2>1. CASE held = NoMsg
    <3>1. Reserved(inq) = Reserved(inq') + Cost(m)
      BY <1>1, <1>2, <1>5, <2>1, ReservedTail
    <3>2. Reserved(inq') \in Nat /\ Cost(m) \in Nat
      BY <1>5, <1>9, <2>1, ReservedNat, CostNat
    <3>3. inFree + Reserved(inq) = Budget /\ inFree' = inFree + Cost(m)
      BY <1>1, <1>5, <2>1 DEF BudgetsExact
    <3> QED BY <1>1, <3>1, <3>2, <3>3
  <2>2. CASE held # NoMsg
    BY <1>1, <1>6, <2>2 DEF BudgetsExact
  <2> QED BY <2>1, <2>2
<1>20. BudgetsExact'
  BY <1>1, <1>3, <1>19 DEF BudgetsExact
<1>21. WpTypeOK'
  BY <1>1, <1>3, <1>9, <1>15, <1>19 DEF WpTypeOK
<1> QED BY <1>1, <1>3, <1>17, <1>18, <1>20, <1>21 DEF WpIInv

(* send() queues a message within the budget.                              *)
LEMMA SendMsgOK ==
    ASSUME WpIInv, SendMsg
    PROVE  WpIInv'
<1>1. /\ WpTypeOK /\ WpInPlace /\ WpOutPlace /\ BudgetsExact /\ outq \in Seq(Messages)
      /\ delivered \in Seq(Messages) /\ accepted \in Seq(Messages)
      /\ outFree \in 0 .. Budget /\ Budget \in Nat /\ Reserved(outq) \in Nat
      /\ (moving \in Messages <=> pump \in {"forward", "send"})
      /\ moving \in Messages \cup {NoMsg}
  BY Parted
<1>2. /\ outbox /\ inbox /\ Len(accepted) < MaxOut
      /\ UNCHANGED <<inVars, delivered, pump, moving, why, outbox, inbox>>
  BY DEF SendMsg
<1>3. /\ delivered' = delivered /\ pump' = pump /\ moving' = moving /\ why' = why
      /\ wire' = wire /\ clientIn' = clientIn /\ inq' = inq /\ inFree' = inFree
      /\ held' = held /\ got' = got /\ outbox' = outbox /\ inbox' = inbox
  BY <1>2 DEF inVars
<1>4. /\ Len(outq) \in Nat /\ Len(accepted) \in Nat /\ Len(delivered) \in Nat
      /\ OutOffset \in Nat /\ (pump = "send" => OutOffset = Len(delivered) + 1)
      /\ (pump # "send" => OutOffset = Len(delivered))
  BY <1>1, OutPlaces
<1>5. PICK l \in {0, MaxMessage} :
        LET m == [n |-> Len(accepted) + 1, kind |-> "text", len |-> l] IN
        /\ outFree >= Cost(m)
        /\ outq' = Append(outq, m)
        /\ outFree' = outFree - Cost(m)
        /\ accepted' = Append(accepted, m)
  BY DEF SendMsg
<1> DEFINE m == [n |-> Len(accepted) + 1, kind |-> "text", len |-> l]
<1>6. m \in Messages
  <2>1. Len(accepted) + 1 <= MaxIn + MaxOut /\ "text" \in Kinds
    BY <1>2, <1>4, PumpAssumption DEF Kinds
  <2> QED BY <1>4, <2>1, MessageOf
<1> HIDE DEF m
<1>7. /\ outFree >= Cost(m) /\ outq' = Append(outq, m) /\ outFree' = outFree - Cost(m)
      /\ accepted' = Append(accepted, m)
  BY <1>5 DEF m
<1>8. /\ outq' \in Seq(Messages) /\ Len(outq') = Len(outq) + 1 /\ outq'[Len(outq) + 1] = m
      /\ \A k \in 1 .. Len(outq) : outq'[k] = outq[k]
  BY <1>1, <1>6, <1>7, Appended
<1>9. /\ accepted' \in Seq(Messages) /\ Len(accepted') = Len(accepted) + 1
      /\ accepted'[Len(accepted) + 1] = m
      /\ \A k \in 1 .. Len(accepted) : accepted'[k] = accepted[k]
  BY <1>1, <1>6, <1>7, Appended
<1>10. OutOffset' = OutOffset /\ Pumping' = Pumping
  BY <1>3 DEF OutOffset, Pumping
<1>11. /\ Len(delivered) <= Len(accepted')
       /\ \A k \in 1 .. Len(delivered) : delivered[k] = accepted'[k]
  <2>1. /\ Len(delivered) <= Len(accepted)
        /\ \A k \in 1 .. Len(delivered) : delivered[k] = accepted[k]
    BY <1>1 DEF WpOutPlace
  <2> QED BY <1>4, <1>9, <2>1
<1>12. ASSUME Pumping
       PROVE  /\ why = "none"
              /\ pump = "send" => moving = accepted'[Len(delivered) + 1]
              /\ \A k \in 1 .. Len(outq') : outq'[k] = accepted'[OutOffset + k]
              /\ Len(accepted') = OutOffset + Len(outq')
  <2>1. /\ why = "none"
        /\ pump = "send" => moving = accepted[Len(delivered) + 1]
        /\ \A k \in 1 .. Len(outq) : outq[k] = accepted[OutOffset + k]
        /\ Len(accepted) = OutOffset + Len(outq)
    BY <1>1, <1>12 DEF WpOutPlace
  <2>2. pump = "send" => moving = accepted'[Len(delivered) + 1]
    BY <1>4, <1>9, <2>1
  <2>3. ASSUME NEW k \in 1 .. Len(outq') PROVE outq'[k] = accepted'[OutOffset + k]
    <3>1. CASE k = Len(outq) + 1
      BY <1>8, <1>9, <2>1, <3>1, <1>4
    <3>2. CASE k # Len(outq) + 1
      <4>1. k \in 1 .. Len(outq) /\ OutOffset + k \in 1 .. Len(accepted)
        BY <1>4, <1>8, <2>1, <3>2
      <4> QED BY <1>8, <1>9, <2>1, <4>1
    <3> QED BY <3>1, <3>2
  <2>4. Len(accepted') = OutOffset + Len(outq')
    BY <1>4, <1>8, <1>9, <2>1
  <2> QED BY <2>1, <2>2, <2>3, <2>4
<1>13. why # "outboxClosed"
  BY <1>1, <1>2 DEF WpOutPlace
<1>14. WpOutPlace'
  BY <1>3, <1>10, <1>11, <1>12, <1>13 DEF WpOutPlace
<1>15. WpInPlace'
  BY <1>1, <1>2, InKept
<1>16. Cost(m) \in Nat /\ Reserved(outq') = Reserved(outq) + Cost(m)
  BY <1>1, <1>6, <1>7, CostNat, ReservedAppend
<1>17. BudgetsExact' /\ outFree' \in 0 .. Budget
  <2> DEFINE c == IF pump = "send" THEN Cost(moving) ELSE 0
  <2>1. c \in Nat
    BY <1>1, CostNat
  <2>2. outFree + Reserved(outq) + c = Budget
    BY <1>1 DEF BudgetsExact
  <2>3. c' = c
    BY <1>3 DEF Cost
  <2> HIDE DEF c
  <2>4. outFree' + Reserved(outq') + c = Budget /\ outFree' \in 0 .. Budget
    BY <1>1, <1>7, <1>16, <2>1, <2>2
  <2> QED BY <1>1, <1>3, <2>4 DEF BudgetsExact, c
<1>18. WpTypeOK'
  BY <1>1, <1>3, <1>8, <1>9, <1>17 DEF WpTypeOK
<1> QED BY <1>1, <1>3, <1>14, <1>15, <1>17, <1>18 DEF WpIInv

(* close() and the handler's return.                                       *)
LEMMA CloseOK ==
    ASSUME WpIInv, Close
    PROVE  WpIInv'
<1>1. /\ WpTypeOK /\ WpInPlace /\ WpOutPlace /\ BudgetsExact
      /\ (moving \in Messages <=> pump \in {"forward", "send"})
  BY Parted
<1>2. /\ outbox' = FALSE /\ UNCHANGED <<inVars, outVars, pump, moving, why, inbox>>
  BY DEF Close
<1>3. WpInPlace'
  BY <1>1, <1>2, InKept
<1>4. WpOutPlace'
  BY <1>1, <1>2, OutKept
<1>5. BudgetsExact'
  BY <1>1, <1>2 DEF BudgetsExact, inVars, outVars
<1>6. WpTypeOK'
  BY <1>1, <1>2 DEF WpTypeOK, inVars, outVars
<1> QED BY <1>1, <1>2, <1>3, <1>4, <1>5, <1>6 DEF WpIInv

LEMMA HandlerReturnsOK ==
    ASSUME WpIInv, HandlerReturns
    PROVE  WpIInv'
<1>1. /\ WpTypeOK /\ WpInPlace /\ WpOutPlace /\ BudgetsExact
      /\ inFree \in 0 .. Budget /\ Budget \in Nat /\ Reserved(inq) \in Nat
      /\ (moving \in Messages <=> pump \in {"forward", "send"})
  BY Parted
<1>2. /\ inbox' = FALSE /\ outbox' = FALSE /\ inq' = <<>> /\ held' = NoMsg
      /\ inFree' = inFree + Reserved(inq)
      /\ UNCHANGED <<wire, clientIn, got, outVars, pump, moving, why>>
  BY DEF HandlerReturns
<1>3. /\ outq' = outq /\ outFree' = outFree /\ accepted' = accepted /\ delivered' = delivered
      /\ wire' = wire /\ clientIn' = clientIn /\ got' = got /\ pump' = pump
      /\ moving' = moving /\ why' = why
  BY <1>2 DEF outVars
<1>4. WpInPlace'
  BY <1>1, <1>2, <1>3 DEF WpInPlace
<1>5. WpOutPlace'
  BY <1>1, <1>2, OutKept
<1>6. inFree' = Budget
  BY <1>1, <1>2 DEF BudgetsExact
<1>7. inFree' + Reserved(inq') = Budget
  BY <1>1, <1>2, <1>6, ReservedEmpty
<1>8. BudgetsExact'
  BY <1>1, <1>3, <1>7 DEF BudgetsExact
<1>9. inq' \in Seq(Messages) /\ inFree' \in 0 .. Budget /\ held' \in Messages \cup {NoMsg}
      /\ inbox' \in BOOLEAN /\ outbox' \in BOOLEAN
  <2>1. inq' = <<>> /\ held' = NoMsg
    BY <1>2
  <2>2. inbox' \in BOOLEAN /\ outbox' \in BOOLEAN
    BY <1>2, Zenon
  <2>3. inFree' \in 0 .. Budget
    BY <1>1, <1>6
  <2> QED BY <2>1, <2>2, <2>3
<1>10. WpTypeOK'
  BY <1>1, <1>3, <1>9 DEF WpTypeOK
<1> QED BY <1>1, <1>3, <1>4, <1>5, <1>8, <1>10 DEF WpIInv

LEMMA WpInitOK == WpInit => WpIInv
<1> SUFFICES ASSUME WpInit PROVE WpIInv
  OBVIOUS
<1>1. Budget \in Nat /\ NoMsg \notin Messages /\ Reserved(<<>>) = 0
  BY PumpAssumption, Numbered, ReservedEmpty DEF Budget
<1>2. WpTypeOK
  BY <1>1 DEF WpInit, WpTypeOK
<1>3. BudgetsExact
  BY <1>1 DEF WpInit, BudgetsExact
<1>4. WpInPlace
  BY DEF WpInit, WpInPlace, Taken, InOffset, WireMessages
<1>5. WpOutPlace
  BY DEF WpInit, WpOutPlace, OutOffset
<1> QED BY <1>1, <1>2, <1>3, <1>4, <1>5 DEF WpIInv, WpInit

LEMMA WpNextOK == WpIInv /\ [WpNext]_wpVars => WpIInv'
<1> SUFFICES ASSUME WpIInv, [WpNext]_wpVars PROVE WpIInv'
  OBVIOUS
<1>1. CASE UNCHANGED wpVars
  <2>1. WpTypeOK /\ WpInPlace /\ WpOutPlace /\ BudgetsExact
        /\ (moving \in Messages <=> pump \in {"forward", "send"})
    BY Parted
  <2>2. UNCHANGED inVars /\ UNCHANGED outVars /\ pump' = pump /\ moving' = moving
        /\ why' = why /\ outbox' = outbox /\ inbox' = inbox
    BY <1>1 DEF wpVars
  <2>3. WpInPlace' /\ WpOutPlace'
    BY <2>1, <2>2, InKept, OutKept
  <2>4. WpTypeOK' /\ BudgetsExact'
    BY <2>1, <2>2 DEF inVars, outVars, WpTypeOK, BudgetsExact
  <2> QED BY <2>1, <2>2, <2>3, <2>4 DEF WpIInv
<1>2. CASE PumpNext
  BY <1>2, ReadOK, ForwardOK, TakeOutOK, SentOK, ClosedOK DEF PumpNext
<1>3. CASE HandlerNext
  BY <1>3, RecvOK, SendMsgOK, CloseOK, HandlerReturnsOK DEF HandlerNext
<1> QED BY <1>1, <1>2, <1>3, ClientSendsOK DEF WpNext, Over

(* What the inductive invariant says of the orders and of close().         *)
LEMMA WpGives == WpIInv => PumpSafe
<1> SUFFICES ASSUME WpIInv PROVE PumpSafe
  OBVIOUS
<1>1. /\ WpTypeOK /\ WpInPlace /\ WpOutPlace /\ BudgetsExact
      /\ clientIn \in Seq(Messages) /\ got \in Seq(Messages)
      /\ accepted \in Seq(Messages) /\ delivered \in Seq(Messages)
  BY Parted
<1>2. IsPrefix(got, clientIn)
  BY <1>1, PrefixOf DEF WpInPlace
<1>3. IsPrefix(delivered, accepted)
  BY <1>1, PrefixOf DEF WpOutPlace
<1>4. CloseFlushes
  BY <1>1 DEF WpOutPlace, CloseFlushes
<1> QED BY <1>1, <1>2, <1>3, <1>4 DEF PumpSafe, InOrder

(* In every state of a connection the handler has received a prefix of     *)
(* what the client sent and the client a prefix of what the handler sent,  *)
(* both byte budgets add up (ByteBudget, forward, Outbox::push), and a     *)
(* pump that ended on close() had written all that was accepted.           *)
THEOREM PumpCorrect == WpSpec => []PumpSafe
<1>1. WpSpec => []WpIInv
  BY WpInitOK, WpNextOK, PTL DEF WpSpec
<1> QED BY <1>1, WpGives, PTL
=============================================================================

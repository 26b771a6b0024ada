------------------------------ MODULE PgCursor ------------------------------
(***************************************************************************)
(* A streaming result set (src/db.rs, fetch_iter): the driver task that    *)
(* runs the statement on the pyronova-db runtime and pushes its rows into  *)
(* a bounded channel, and the PgCursor that any number of Python threads   *)
(* of one interpreter iterate.                                             *)
(*                                                                         *)
(* The receiver moves: the thread that claims it takes it out of the       *)
(* cursor, waits on it with the GIL released, and gives it back under the  *)
(* mutex.  A thread that finds it gone waits on a Condvar, the GIL         *)
(* released too.  GIL, mutex and Condvar are in the model.                 *)
(***************************************************************************)
EXTENDS Naturals, Sequences

CONSTANTS
    CurRows,      \* rows the statement yields
    CurCapacity,  \* CURSOR_CAPACITY: of the channel, and of a batch
    CurReaders,   \* threads that iterate the cursor
    CurNobody     \* no thread

ASSUME CurAssumption ==
    /\ CurRows \in Nat
    /\ CurCapacity \in Nat \ {0}
    /\ CurNobody \notin CurReaders

VARIABLES
    curDriver,  \* where the driver is: "acquire", "rows", "send", "fail", "done"
    curNext,    \* rows the server produced
    curConn,    \* the driver holds a connection
    curChan,    \* the channel
    curRx,      \* CursorState.rx: "here", "out" (CheckedOut), "closed"
    curBuf,     \* CursorState.buf
    curGil,     \* the thread that holds the GIL
    curMutex,   \* the thread that holds the state's mutex
    curAt,      \* where each thread is in __next__
    curBatch,   \* what recv_batch collected for it
    curMsg,     \* the message it leaves with
    curGot,     \* the messages taken out of the cursor, in order
    curLost,    \* a receiving task was lost (TaskError)
    curAlive    \* Python still refers to the cursor

curDriverVars == <<curDriver, curNext, curConn>>
curStream == <<curDriverVars, curChan, curRx, curBuf, curGot, curLost, curAlive>>
curReadVars == <<curGil, curMutex, curAt, curBatch, curMsg>>
curVars == <<curReadVars, curStream>>

Row(i) == [kind |-> "row", row |-> i]
CurErr == [kind |-> "err", row |-> 0]
CurEof == [kind |-> "eof", row |-> 0]
CurNone == [kind |-> "none", row |-> 0]
CurMsgs == {Row(i) : i \in 1 .. CurRows} \cup {CurErr}

CurInit ==
    /\ curDriver = "acquire" /\ curNext = 0 /\ curConn = FALSE
    /\ curChan = <<>> /\ curRx = "here" /\ curBuf = <<>>
    /\ curGil = CurNobody /\ curMutex = CurNobody
    /\ curAt = [r \in CurReaders |-> "idle"]
    /\ curBatch = [r \in CurReaders |-> <<>>]
    /\ curMsg = [r \in CurReaders |-> CurNone]
    /\ curGot = <<>> /\ curLost = FALSE /\ curAlive = TRUE

-----------------------------------------------------------------------------
(* The driver: drive_cursor, stream_rows.                                  *)

(* The receiver exists: in the cursor, or with the thread that claimed it. *)
RxAlive == curAlive /\ curRx # "closed" /\ ~curLost

(* pool.acquire and bind.                                                  *)
DriverStarts ==
    /\ curDriver = "acquire"
    /\ \/ curDriver' = "rows" /\ curConn' = TRUE
       \/ curDriver' = "fail" /\ UNCHANGED curConn
    /\ UNCHANGED <<curNext, curReadVars, curChan, curRx, curBuf, curGot, curLost, curAlive>>

(* rows.try_next: a row, an error, or the end.  The connection goes back   *)
(* when stream_rows returns, before an error is sent.                      *)
DriverRow ==
    /\ curDriver = "rows"
    /\ \/ /\ curNext < CurRows
          /\ curNext' = curNext + 1 /\ curDriver' = "send" /\ UNCHANGED curConn
       \/ curDriver' = "fail" /\ curConn' = FALSE /\ UNCHANGED curNext
       \/ /\ curNext = CurRows
          /\ curDriver' = "done" /\ curConn' = FALSE /\ UNCHANGED curNext
    /\ UNCHANGED <<curReadVars, curChan, curRx, curBuf, curGot, curLost, curAlive>>

(* Mutant: the channel has no bound.                                       *)
SendsUnbounded ==
    /\ curDriver \in {"send", "fail"} /\ RxAlive
    /\ curChan' = Append(curChan, IF curDriver = "send" THEN Row(curNext) ELSE CurErr)
    /\ curDriver' = IF curDriver = "send" THEN "rows" ELSE "done"
    /\ UNCHANGED <<curNext, curConn, curReadVars, curRx, curBuf, curGot, curLost, curAlive>>

(* tx.send: waits for room.  The error is the last message.                *)
DriverSends ==
    /\ curDriver \in {"send", "fail"} /\ RxAlive /\ Len(curChan) < CurCapacity
    /\ curChan' = Append(curChan, IF curDriver = "send" THEN Row(curNext) ELSE CurErr)
    /\ curDriver' = IF curDriver = "send" THEN "rows" ELSE "done"
    /\ UNCHANGED <<curNext, curConn, curReadVars, curRx, curBuf, curGot, curLost, curAlive>>

(* Mutant: a failed send is ignored, the driver reads on.                  *)
IgnoresDroppedCursor == curDriver = "nowhere" /\ UNCHANGED curVars

(* The receiver is gone: the driver stops, the connection goes back.       *)
DriverStops ==
    /\ curDriver \in {"send", "fail"} /\ ~RxAlive
    /\ curDriver' = "done" /\ curConn' = FALSE
    /\ UNCHANGED <<curNext, curReadVars, curChan, curRx, curBuf, curGot, curLost, curAlive>>

-----------------------------------------------------------------------------
(* A read: __next__ (to_list repeats it).                                  *)

Goto(r, pc) == curAt' = [curAt EXCEPT ![r] = pc]
LeavesWith(r, m) == curMsg' = [curMsg EXCEPT ![r] = m]

(* Python calls __next__, the GIL held.  A loop ends with StopIteration.   *)
CurCall(r) ==
    /\ curAt[r] = "idle" /\ curAlive /\ curGil = CurNobody /\ curMsg[r] # CurEof
    /\ curGil' = r
    /\ Goto(r, "lock")
    /\ UNCHANGED <<curMutex, curBatch, curMsg, curStream>>

(* The mutex, at the three places it is taken: the first look, the look of *)
(* a thread that waited (no GIL), and giving the receiver back.            *)
CurLock(r) ==
    /\ curAt[r] \in {"lock", "turn", "giveback"} /\ curMutex = CurNobody
    /\ curMutex' = r
    /\ Goto(r, CASE curAt[r] = "lock" -> "claim"
                 [] curAt[r] = "turn" -> "reclaim"
                 [] OTHER -> "store")
    /\ UNCHANGED <<curGil, curBatch, curMsg, curStream>>

(* Turn::Deliver: a buffered message, or the end of the stream.            *)
Deliver(r, m) ==
    /\ LeavesWith(r, m)
    /\ curGot' = IF m.kind = "eof" THEN curGot ELSE Append(curGot, m)
    /\ UNCHANGED curRx

(* Mutant: a checked-out receiver is taken for the end of the stream.      *)
ClaimsEof(r, deliver, receive, wait) ==
    \/ /\ curBuf # <<>>
       /\ Deliver(r, Head(curBuf)) /\ curBuf' = Tail(curBuf) /\ Goto(r, deliver)
    \/ /\ curBuf = <<>> /\ curRx = "here"
       /\ curRx' = "out" /\ Goto(r, receive) /\ UNCHANGED <<curBuf, curMsg, curGot>>
    \/ /\ curBuf = <<>> /\ curRx \in {"out", "closed"}
       /\ Deliver(r, CurEof) /\ Goto(r, deliver) /\ UNCHANGED curBuf

(* Mutant: the receiver is shared, not checked out.                        *)
SharesReceiver(r, deliver, receive, wait) ==
    \/ /\ curBuf # <<>>
       /\ Deliver(r, Head(curBuf)) /\ curBuf' = Tail(curBuf) /\ Goto(r, deliver)
    \/ /\ curBuf = <<>> /\ curRx \in {"here", "out"}
       /\ curRx' = "out" /\ Goto(r, receive) /\ UNCHANGED <<curBuf, curMsg, curGot>>
    \/ /\ curBuf = <<>> /\ curRx = "closed"
       /\ Deliver(r, CurEof) /\ Goto(r, deliver) /\ UNCHANGED curBuf

(* CursorState::claim, and where the thread goes on: with a message, with  *)
(* the receiver, or to wait for its turn.                                  *)
Claim(r, deliver, receive, wait) ==
    \/ /\ curBuf # <<>>
       /\ Deliver(r, Head(curBuf)) /\ curBuf' = Tail(curBuf) /\ Goto(r, deliver)
    \/ /\ curBuf = <<>> /\ curRx = "here"
       /\ curRx' = "out" /\ Goto(r, receive) /\ UNCHANGED <<curBuf, curMsg, curGot>>
    \/ /\ curBuf = <<>> /\ curRx = "closed"
       /\ Deliver(r, CurEof) /\ Goto(r, deliver) /\ UNCHANGED curBuf
    \/ /\ curBuf = <<>> /\ curRx = "out"
       /\ Goto(r, wait) /\ UNCHANGED <<curRx, curBuf, curMsg, curGot>>

(* The first look, with the GIL: a thread that has to wait lets it go.     *)
CurClaim(r) ==
    /\ curAt[r] = "claim"
    /\ Claim(r, "return", "detach", "turn")
    /\ curMutex' = CurNobody
    /\ curGil' = IF curAt'[r] = "turn" THEN CurNobody ELSE curGil
    /\ UNCHANGED <<curBatch, curDriverVars, curChan, curLost, curAlive>>

(* wait_for_turn: without the GIL; Condvar::wait lets the mutex go.        *)
CurReclaim(r) ==
    /\ curAt[r] = "reclaim"
    /\ Claim(r, "attachReturn", "attachDetach", "waiting")
    /\ curMutex' = CurNobody
    /\ UNCHANGED <<curGil, curBatch, curDriverVars, curChan, curLost, curAlive>>

(* py.detach around recv_batch: the GIL is let go for the wait.            *)
CurDetach(r) ==
    /\ curAt[r] = "detach"
    /\ curGil' = CurNobody
    /\ Goto(r, "recv")
    /\ UNCHANGED <<curMutex, curBatch, curMsg, curStream>>

(* recv_batch: the first message, then what is there, up to a batch.       *)
CurRecv(r) ==
    /\ curAt[r] = "recv" /\ curChan # <<>> /\ Len(curBatch[r]) < CurCapacity
    /\ curBatch' = [curBatch EXCEPT ![r] = Append(@, Head(curChan))]
    /\ curChan' = Tail(curChan)
    /\ UNCHANGED <<curGil, curMutex, curAt, curMsg, curDriverVars, curRx, curBuf, curGot, curLost, curAlive>>

CurRecvDone(r) ==
    /\ curAt[r] = "recv"
    /\ IF curBatch[r] = <<>> THEN curChan = <<>> /\ curDriver = "done"
                             ELSE curChan = <<>> \/ Len(curBatch[r]) = CurCapacity
    /\ Goto(r, "attachGiveback")
    /\ UNCHANGED <<curGil, curMutex, curBatch, curMsg, curStream>>

(* The receiving task panicked: the receiver and what it took are gone.    *)
CurRecvLost(r) ==
    /\ curAt[r] = "recv"
    /\ curLost' = TRUE
    /\ curBatch' = [curBatch EXCEPT ![r] = <<>>]
    /\ curChan' = <<>>
    /\ Goto(r, "attachGiveback")
    /\ UNCHANGED <<curGil, curMutex, curMsg, curDriverVars, curRx, curBuf, curGot, curAlive>>

(* The thread has the GIL again.                                           *)
CurAttach(r) ==
    /\ curAt[r] \in {"attachReturn", "attachDetach", "attachGiveback"} /\ curGil = CurNobody
    /\ curGil' = r
    /\ Goto(r, CASE curAt[r] = "attachReturn" -> "return"
                 [] curAt[r] = "attachDetach" -> "detach"
                 [] OTHER -> "giveback")
    /\ UNCHANGED <<curMutex, curBatch, curMsg, curStream>>

(* receive: the receiver goes back and the batch into buf, whose first     *)
(* message is this thread's; an empty batch or a lost task closes the      *)
(* stream.                                                                 *)
CurStore(r) ==
    /\ curAt[r] = "store"
    /\ LET q == curBuf \o curBatch[r]
       IN \/ /\ ~curLost
             /\ curRx' = IF curBatch[r] = <<>> THEN "closed" ELSE "here"
             /\ curBuf' = IF q = <<>> THEN q ELSE Tail(q)
             /\ LeavesWith(r, IF q = <<>> THEN CurEof ELSE Head(q))
             /\ curGot' = IF q = <<>> THEN curGot ELSE Append(curGot, Head(q))
          \/ /\ curLost
             /\ curRx' = "closed" /\ LeavesWith(r, CurErr) /\ UNCHANGED <<curBuf, curGot>>
    /\ curMutex' = CurNobody
    /\ curBatch' = [curBatch EXCEPT ![r] = <<>>]
    /\ Goto(r, "notify")
    /\ UNCHANGED <<curGil, curDriverVars, curChan, curLost, curAlive>>

(* Mutant: one waiting thread is woken (notify_one).                       *)
NotifyOne(r) ==
    /\ curAt[r] = "notify"
    /\ LET waiting == {w \in CurReaders : curAt[w] = "waiting"}
       IN \/ waiting = {} /\ Goto(r, "return")
          \/ \E w \in waiting : curAt' = [curAt EXCEPT ![w] = "turn", ![r] = "return"]
    /\ UNCHANGED <<curGil, curMutex, curBatch, curMsg, curStream>>

(* returned.notify_all, after the mutex was let go.                        *)
CurNotify(r) ==
    /\ curAt[r] = "notify"
    /\ curAt' = [w \in CurReaders |->
                    IF w = r THEN "return" ELSE IF curAt[w] = "waiting" THEN "turn" ELSE curAt[w]]
    /\ UNCHANGED <<curGil, curMutex, curBatch, curMsg, curStream>>

(* A row, DatabaseError or StopIteration; Python goes on and may switch    *)
(* threads.                                                                *)
CurReturn(r) ==
    /\ curAt[r] = "return"
    /\ curGil' = CurNobody
    /\ Goto(r, "idle")
    /\ UNCHANGED <<curMutex, curBatch, curMsg, curStream>>

(* The last reference goes: the receiver and what it holds are dropped.    *)
CursorDropped ==
    /\ curAlive /\ \A r \in CurReaders : curAt[r] = "idle"
    /\ curAlive' = FALSE
    /\ curChan' = <<>> /\ curBuf' = <<>>
    /\ UNCHANGED <<curDriverVars, curReadVars, curRx, curGot, curLost>>

-----------------------------------------------------------------------------
CurDrive == DriverStarts \/ DriverRow \/ DriverSends \/ DriverStops
CurStep(r) ==
    \/ CurLock(r) \/ CurClaim(r) \/ CurReclaim(r) \/ CurDetach(r) \/ CurRecv(r)
    \/ CurRecvDone(r) \/ CurAttach(r) \/ CurStore(r) \/ CurNotify(r) \/ CurReturn(r)

CurNext ==
    \/ DriverStarts \/ DriverRow \/ DriverSends \/ DriverStops \/ CursorDropped
    \/ \E r \in CurReaders :
        \/ CurCall(r) \/ CurLock(r) \/ CurClaim(r) \/ CurReclaim(r) \/ CurDetach(r) \/ CurRecv(r)
        \/ CurRecvDone(r) \/ CurRecvLost(r) \/ CurAttach(r) \/ CurStore(r) \/ CurNotify(r)
        \/ CurReturn(r)

(* The server answers, the runtime polls its tasks, and a thread that can  *)
(* go on does.  Every loop ends, so weak fairness gets each thread its     *)
(* turn at the GIL and at the mutex.                                       *)
CurFairness ==
    /\ WF_curVars(CurDrive)
    /\ \A r \in CurReaders : WF_curVars(CurStep(r))

CurSpec == CurInit /\ [][CurNext]_curVars
CurFairSpec == CurSpec /\ CurFairness

-----------------------------------------------------------------------------
(* Every variable has its values, and the memory contract of PgCursor: at  *)
(* most CURSOR_CAPACITY messages in the channel and as many in the buffer. *)
CurTypeOK ==
    /\ curDriver \in {"acquire", "rows", "send", "fail", "done"}
    /\ curNext \in 0 .. CurRows /\ curConn \in BOOLEAN
    /\ curChan \in Seq(CurMsgs) /\ Len(curChan) <= CurCapacity
    /\ curBuf \in Seq(CurMsgs) /\ Len(curBuf) < CurCapacity
    /\ curRx \in {"here", "out", "closed"}
    /\ curGil \in CurReaders \cup {CurNobody} /\ curMutex \in CurReaders \cup {CurNobody}
    /\ curAt \in [CurReaders -> {"idle", "lock", "claim", "turn", "reclaim", "waiting", "detach",
                                 "recv", "attachReturn", "attachDetach", "attachGiveback",
                                 "giveback", "store", "notify", "return"}]
    /\ curBatch \in [CurReaders -> Seq(CurMsgs)]
    /\ curMsg \in [CurReaders -> CurMsgs \cup {CurEof, CurNone}]
    /\ curGot \in Seq(CurMsgs)
    /\ curLost \in BOOLEAN /\ curAlive \in BOOLEAN

(* "Threads sharing a cursor take turns": whatever the threads do, the     *)
(* rows come out in the server's order, none twice and none skipped, and   *)
(* an error comes after the rows it follows, with nothing after it.        *)
CurInOrder ==
    \A i \in 1 .. Len(curGot) :
        curGot[i] = Row(i) \/ (curGot[i] = CurErr /\ i = Len(curGot))

(* StopIteration means the whole result was delivered: all rows, or the    *)
(* rows before the error and the error itself, to some thread.             *)
CurStopTruthful ==
    \A r \in CurReaders :
        curAt[r] \in {"return", "attachReturn", "notify"} /\ curMsg[r] = CurEof /\ ~curLost =>
            /\ curDriver = "done"
            /\ \/ Len(curGot) = CurRows
               \/ curGot # <<>> /\ curGot[Len(curGot)] = CurErr

(* What makes CurSafe inductive.  At most one thread has the receiver, and *)
(* while it has, the buffer is empty and no other thread has a batch.      *)
CurHolds(r) ==
    curAt[r] \in {"detach", "attachDetach", "recv", "attachGiveback", "giveback", "store"}

CurOneHolder ==
    /\ curRx = "out" <=> \E r \in CurReaders : CurHolds(r)
    /\ \A r, s \in CurReaders : CurHolds(r) /\ CurHolds(s) => r = s
    /\ curRx = "out" => curBuf = <<>>
    /\ \A r \in CurReaders :
          /\ curBatch[r] # <<>> =>
                curAt[r] \in {"recv", "attachGiveback", "giveback", "store"}
          /\ Len(curBatch[r]) <= CurCapacity

(* Delivered, on the way and in the channel, the messages are numbered: a  *)
(* row that was sent is at its place, the error comes after the last row   *)
(* and after it the driver is done.                                        *)
CurSent == IF curDriver = "send" THEN curNext - 1 ELSE curNext

CurPlaced(q, before) ==
    \A i \in 1 .. Len(q) :
        \/ q[i] = Row(before + i) /\ before + i <= CurSent
        \/ q[i] = CurErr /\ curDriver = "done" /\ before + i = curNext + 1

CurNumbered(got, flight, chan) ==
    /\ CurPlaced(got, 0)
    /\ CurPlaced(flight, Len(got))
    /\ CurPlaced(chan, Len(got) + Len(flight))

(* Nothing sent is missing while the cursor and its receiver live.         *)
CurNoneMissing(got, flight, chan) ==
    curAlive /\ ~curLost =>
        LET n == Len(got) + Len(flight) + Len(chan)
        IN IF curDriver = "done" THEN n = curNext + 1 \/ (n = curNext /\ n = CurRows)
           ELSE n = CurSent

(* Between the delivered messages and the channel is the batch of the      *)
(* thread with the receiver, or the buffer.                                *)
CurStreamed(flight) ==
    CurNumbered(curGot, flight, curChan) /\ CurNoneMissing(curGot, flight, curChan)

CurAllStreamed ==
    /\ curDriver = "send" => curNext > 0
    /\ curRx # "out" => CurStreamed(curBuf)
    /\ \A r \in CurReaders : CurHolds(r) => CurStreamed(curBatch[r])

(* A stream that is lost or dropped keeps nothing; the end of the stream   *)
(* is told only after the driver ended and the channel ran dry.            *)
CurCloses ==
    /\ curLost => curBuf = <<>> /\ curChan = <<>> /\ \A r \in CurReaders : curBatch[r] = <<>>
    /\ ~curAlive => /\ curBuf = <<>> /\ curChan = <<>>
                    /\ \A r \in CurReaders : curAt[r] = "idle"
    /\ \A r \in CurReaders :
          /\ curMsg[r] = CurEof => curRx = "closed"
          /\ curAt[r] \in {"attachGiveback", "giveback", "store"} /\ curBatch[r] = <<>> /\ ~curLost
                => curDriver = "done" /\ curChan = <<>>
    /\ curRx = "closed" /\ ~curLost =>
          curDriver = "done" /\ curChan = <<>> /\ curBuf = <<>>

CurIInv == CurOneHolder /\ CurAllStreamed /\ CurCloses

(* No read hangs: neither a lost wake-up nor the GIL and the mutex taken   *)
(* in two orders leaves a thread waiting (wait_for_turn: "the thread       *)
(* holding the receiver needs the GIL to give it back").                   *)
CurReadsReturn == \A r \in CurReaders : curAt[r] # "idle" ~> curAt[r] = "idle"

(* fetch_iter: "PG connection returns to the pool even if we broke early". *)
CurConnReturns == ~curAlive ~> ~curConn

(* What iterating a cursor from several threads may rely on.               *)
CurSafe == CurTypeOK /\ CurInOrder /\ CurStopTruthful

(* No read of a cursor hangs, and a cursor that is dropped early gives its *)
(* connection back.                                                        *)
CurEnds == CurReadsReturn /\ CurConnReturns
=============================================================================

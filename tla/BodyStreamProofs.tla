-------------------------- MODULE BodyStreamProofs --------------------------
(***************************************************************************)
(* What a reader of a streamed body may rely on, for every body, every     *)
(* limit, every capacity of the channel and every number of threads:       *)
(* order, no silent truncation, failures that tell what happened, and an   *)
(* end that stays.  The invariant is BodyIInv: the frames read, the queue  *)
(* and the feeder's message are one numbered sequence, the last message is *)
(* true when it is made and stays true, and a read holds the mutex.        *)
(***************************************************************************)
EXTENDS BodyStream, TLAPS

BodyInv == BsTypeOK /\ BodyIInv

Kinds == Rejections \cup {"eof"}

(* The messages tell frames from ends.                                     *)
LEMMA MessageKinds ==
    /\ \A n \in 1 .. Frames : Data(n) \in Messages
    /\ \A k \in Kinds : Final(k) \in Messages
    /\ \A n : Data(n).kind = "data" /\ Data(n).frame = n
    /\ \A k : Final(k).kind = k
    /\ \A k \in Kinds : k # "data" /\ k # "none" /\ k # "cutoff"
    /\ NoMsg \notin Messages
<1>1. /\ \A n \in 1 .. Frames : Data(n) \in Messages
      /\ \A k \in Kinds : Final(k) \in Messages
  BY DEF Messages, Kinds
<1>2. \A n : Data(n).kind = "data" /\ Data(n).frame = n
  BY DEF Data
<1>3. \A k : Final(k).kind = k
  BY DEF Final
<1>4. \A k \in Kinds : k # "data" /\ k # "none" /\ k # "cutoff"
  BY DEF Kinds, Rejections
<1>5. NoMsg.kind = "none"
  BY DEF NoMsg
<1>6. \A m \in Messages : m.kind # "none"
  BY <1>2, <1>3, <1>4 DEF Messages, Kinds
<1> QED BY <1>1, <1>2, <1>3, <1>4, <1>5, <1>6

(* A cause stays: time, the client and the runtime do not go back.         *)
LEMMA CauseKept ==
    ASSUME BsTypeOK, sent' \in 0 .. Frames, sent <= sent', late => late', dropped => dropped',
           end # "none" => end' = end, NEW k, Cause(k)
    PROVE  Cause(k)'
<1>1. CASE k = "toolarge"
  <2>1. Bytes[sent] > MaxSize /\ sent \in 0 .. Frames
    BY <1>1 DEF Cause, Total, BsTypeOK
  <2>2. Bytes[sent] <= Bytes[sent'] /\ Bytes[sent] \in Nat /\ Bytes[sent'] \in Nat /\ MaxSize \in Nat
    BY <2>1, BodyAssumption
  <2>3. Bytes[sent'] > MaxSize
    BY <2>1, <2>2
  <2> QED BY <1>1, <2>3 DEF Cause, Total
<1>2. CASE k = "timedout"
  BY <1>2 DEF Cause
<1>3. CASE k = "read"
  BY <1>3 DEF Cause
<1>4. CASE k = "cutoff"
  BY <1>4 DEF Cause
<1>5. CASE k \notin {"toolarge", "timedout", "read", "cutoff"}
  BY <1>5 DEF Cause
<1> QED BY <1>1, <1>2, <1>3, <1>4, <1>5

(* So does the truth of the last message.                                  *)
LEMMA ToldKept ==
    ASSUME BsTypeOK, sent' \in 0 .. Frames, sent <= sent', late => late', dropped => dropped',
           end # "none" => end' = end /\ sent' = sent, NEW m, NEW n, Told(m, n)
    PROVE  \E k \in Kinds : m = Final(k) /\ Cause(k)' /\ (k = "eof" => end' = "eof" /\ n = sent')
<1>1. PICK k \in Kinds : m = Final(k) /\ Cause(k) /\ (k = "eof" => end = "eof" /\ n = sent)
  BY DEF Told, Kinds
<1>2. Cause(k)'
  BY <1>1, CauseKept
<1>3. k = "eof" => end' = "eof" /\ n = sent'
  BY <1>1
<1> QED BY <1>1, <1>2, <1>3

(* What was received, became of the stream and was returned stays true     *)
(* while no read goes on.                                                  *)
LEMMA EndsKept ==
    ASSUME BodyInv, sent' \in 0 .. Frames, sent <= sent', late => late', dropped => dropped',
           end # "none" => end' = end /\ sent' = sent,
           UNCHANGED <<stream, taken, recvd, result>>,
           \A r \in Readers : at'[r] = "attach" => at[r] = "attach"
    PROVE  EndsTrue'
<1>0. BsTypeOK /\ EndsTrue
  BY DEF BodyInv, BodyIInv
<1>1. \A k : Cause(k) => Cause(k)'
  BY <1>0, CauseKept
<1>2. Complete => Complete'
  BY DEF Complete
<1>3. \A r \in Readers : at'[r] = "attach" =>
            recvd'[r] # "none" /\ Cause(recvd[r]) /\ (recvd'[r] = "eof" => Complete')
  BY <1>0, <1>2 DEF EndsTrue
<1>4. \A r \in Readers : result'[r] \in {"stop", "count"} => stream' # "open" /\ Complete'
  BY <1>0, <1>2 DEF EndsTrue
<1>5. \A r \in Readers : (at'[r] = "attach" => Cause(recvd[r])') /\ Cause(result[r])'
  <2> TAKE r \in Readers
  <2>1. recvd'[r] = recvd[r] /\ result'[r] = result[r] /\ Cause(result[r])
        /\ (at'[r] = "attach" => Cause(recvd[r]))
    BY <1>0, <1>3 DEF EndsTrue
  <2> QED BY <1>1, <2>1 DEF Cause
<1>6. Cause(stream)'
  BY <1>0, <1>1 DEF EndsTrue, Cause
<1> QED BY <1>0, <1>2, <1>3, <1>4, <1>5, <1>6 DEF EndsTrue

(* The queue stays the continuation of what was read.                      *)
LEMMA QueueKept ==
    ASSUME BsTypeOK, QueueContinues, sent' \in 0 .. Frames, sent <= sent', late => late',
           dropped => dropped', end # "none" => end' = end /\ sent' = sent,
           UNCHANGED <<taken, chan>>, feeder = "done" => feeder' = "done"
    PROVE  QueueContinues'
<1> SUFFICES ASSUME NEW n \in 1 .. Len(chan)
             PROVE  \/ chan[n] = Data(Len(taken) + n)
                    \/ /\ n = Len(chan) /\ feeder' = "done"
                       /\ \E k \in Kinds : /\ chan[n] = Final(k) /\ Cause(k)'
                                           /\ k = "eof" => end' = "eof" /\ Len(taken) + n - 1 = sent'
  BY DEF QueueContinues, Told, Kinds
<1>1. CASE chan[n] = Data(Len(taken) + n)
  BY <1>1
<1>2. CASE n = Len(chan) /\ feeder = "done" /\ Told(chan[n], Len(taken) + n - 1)
  BY <1>2, ToldKept
<1> QED BY <1>1, <1>2 DEF QueueContinues

(* The client, the clock, the reply and a call: neither the feeder nor a   *)
(* read goes on.                                                           *)
LEMMA OutsideStep ==
    ASSUME BodyInv,
           UNCHANGED <<fed, feeder, msg, dropped, mutex, recvd, result, chan, stream, taken>>,
           sent' \in 0 .. Frames, sent <= sent', late' \in BOOLEAN, late => late',
           end' \in {"none", "eof", "error"}, end # "none" => end' = end /\ sent' = sent,
           gil' \in Readers \cup {None}, op' \in [Readers -> {"next", "drain"}],
           bsReply' \in {"body", "budget", "answered", "timeout"},
           at' \in [Readers -> {"idle", "lock", "recv", "attach"}],
           \A r \in Readers : \/ at'[r] = at[r]
                              \/ at[r] = "idle" /\ at'[r] = "lock" /\ stream # "gone"
    PROVE  BodyInv'
<1>0. BsTypeOK /\ InOrder /\ ReadHeld /\ EndsTrue
  BY DEF BodyInv, BodyIInv
<1>1. BsTypeOK'
  BY <1>0, BodyAssumption DEF BsTypeOK
<1>2. InOrder'
  BY <1>0 DEF InOrder
<1>3. ReadHeld'
  BY <1>0 DEF ReadHeld
<1>4. EndsTrue'
  BY EndsKept
<1>5. ASSUME stream = "open"
      PROVE  QueueContinues' /\ FeederContinues'
  <2>0. QueueContinues /\ FeederContinues
    BY <1>5 DEF BodyInv, BodyIInv
  <2>1. QueueContinues'
    BY <1>0, <2>0, QueueKept
  <2>2. feeder = "last" =>
            \E k \in Kinds : /\ msg = Final(k) /\ Cause(k)'
                             /\ k = "eof" => end' = "eof" /\ Len(taken) + Len(chan) = sent'
    BY <1>0, <2>0, ToldKept DEF FeederContinues
  <2>3. FeederContinues'
    BY <2>0, <2>2 DEF FeederContinues, Told, Kinds
  <2> QED BY <2>1, <2>3
<1> QED BY <1>1, <1>2, <1>3, <1>4, <1>5 DEF BodyInv, BodyIInv

(* The feeder takes a frame or meets the end.                              *)
LEMMA FeedStep ==
    ASSUME BodyInv, FeedFrame \/ FeedEnd \/ FeedTimeout
    PROVE  BodyInv'
<1> USE DEF clientVars, readVars
<1>0. /\ BsTypeOK /\ InOrder /\ ReadHeld /\ sent \in 0 .. Frames /\ fed \in 0 .. sent
      /\ chan \in Seq(Messages) /\ taken \in Seq(1 .. Frames) /\ Frames \in Nat
      /\ end \in {"none", "eof", "error"} /\ late \in BOOLEAN
  BY BodyAssumption DEF BodyInv, BodyIInv, BsTypeOK
<1>1. /\ feeder = "frame" /\ feeder' \in {"hand", "last"}
      /\ UNCHANGED <<dropped, sent, end, late, gil, mutex, at, op, recvd, result,
                     chan, stream, taken, bsReply>>
  BY DEF FeedFrame, FeedEnd, FeedTimeout, HandOver
<1> DEFINE n == Len(taken) + Len(chan)
<1>2. /\ fed' \in 0 .. sent
      /\ \/ feeder' = "hand" /\ msg' = Data(fed') /\ fed' = fed + 1
         \/ /\ feeder' = "last"
            /\ \E k \in Kinds : msg' = Final(k) /\ Cause(k) /\ (k = "eof" => end = "eof" /\ fed = sent)
  <2>1. CASE FeedFrame
    <3>1. fed < sent /\ fed' = fed + 1 /\ fed' \in 0 .. sent
      BY <1>0, <2>1 DEF FeedFrame
    <3>2. CASE Total(fed + 1) > MaxSize
      <4>1. Total(sent) > MaxSize
        <5>1. fed + 1 \in 0 .. Frames /\ fed + 1 <= sent
          BY <1>0, <3>1
        <5>2. Bytes[fed + 1] <= Bytes[sent] /\ Bytes[fed + 1] \in Nat /\ Bytes[sent] \in Nat
              /\ MaxSize \in Nat
          BY <1>0, <5>1, BodyAssumption
        <5> QED BY <3>2, <5>2 DEF Total
      <4>2. Cause("toolarge")
        BY <4>1 DEF Cause
      <4>3. "toolarge" \in Kinds /\ msg' = Final("toolarge") /\ feeder' = "last"
        BY <2>1, <3>2 DEF FeedFrame, HandOver, Kinds, Rejections
      <4> QED BY <3>1, <4>2, <4>3
    <3>3. CASE ~(Total(fed + 1) > MaxSize)
      BY <2>1, <3>1, <3>3 DEF FeedFrame, HandOver
    <3> QED BY <3>2, <3>3
  <2>2. CASE FeedEnd
    <3>1. /\ fed = sent /\ fed' = fed /\ end # "none" /\ feeder' = "last"
          /\ msg' = Final(IF end = "eof" THEN "eof" ELSE "read")
      BY <2>2 DEF FeedEnd, HandOver
    <3>2. CASE end = "eof"
      <4>1. Cause("eof") /\ "eof" \in Kinds
        BY DEF Cause, Kinds
      <4> QED BY <1>0, <3>1, <3>2, <4>1
    <3>3. CASE end = "error"
      <4>1. Cause("read") /\ "read" \in Kinds
        BY <3>3 DEF Cause, Kinds, Rejections
      <4> QED BY <1>0, <3>1, <3>3, <4>1
    <3> QED BY <1>0, <3>1, <3>2, <3>3
  <2>3. CASE FeedTimeout
    <3>1. Cause("timedout") /\ "timedout" \in Kinds
      BY <2>3 DEF FeedTimeout, Cause, Kinds, Rejections
    <3> QED BY <1>0, <2>3, <3>1 DEF FeedTimeout, HandOver
  <2> QED BY <2>1, <2>2, <2>3
<1>3. BsTypeOK'
  <2>1. msg' \in Messages /\ msg' # NoMsg
    <3>1. CASE feeder' = "hand" /\ msg' = Data(fed') /\ fed' = fed + 1
      <4>1. fed' \in 1 .. Frames
        BY <1>0, <1>2, <3>1
      <4> QED BY <3>1, <4>1, MessageKinds
    <3>2. CASE \E k \in Kinds : msg' = Final(k)
      BY <3>2, MessageKinds
    <3> QED BY <1>2, <3>1, <3>2
  <2> QED BY <1>0, <1>1, <1>2, <2>1 DEF BsTypeOK
<1>4. InOrder' /\ ReadHeld'
  BY <1>0, <1>1 DEF InOrder, ReadHeld
<1>5. EndsTrue'
  BY <1>0, <1>1, EndsKept
<1>6. ASSUME stream = "open"
      PROVE  QueueContinues' /\ FeederContinues'
  <2>0. QueueContinues /\ FeederContinues
    BY <1>6 DEF BodyInv, BodyIInv
  <2>1. QueueContinues'
    BY <1>0, <1>1, <2>0, QueueKept
  <2>2. n \in Nat /\ n = fed
    BY <1>0, <1>1, <2>0 DEF FeederContinues
  <2>3. \A k : Cause(k) => Cause(k)'
    BY <1>1 DEF Cause
  <2>4. CASE feeder' = "hand" /\ msg' = Data(fed') /\ fed' = fed + 1
    BY <1>1, <2>1, <2>2, <2>4 DEF FeederContinues
  <2>5. CASE /\ feeder' = "last"
             /\ \E k \in Kinds : msg' = Final(k) /\ Cause(k) /\ (k = "eof" => end = "eof" /\ fed = sent)
    <3>1. Told(msg, Len(taken) + Len(chan))'
      BY <1>1, <2>2, <2>3, <2>5 DEF Told, Kinds
    <3> QED BY <2>1, <2>5, <3>1 DEF FeederContinues
  <2> QED BY <1>2, <2>1, <2>4, <2>5
<1> QED BY <1>1, <1>3, <1>4, <1>5, <1>6 DEF BodyInv, BodyIInv

(* The feeder ends without a last message.                                 *)
LEMMA FeederEnds ==
    ASSUME BodyInv, HandFails \/ FeederDropped
    PROVE  BodyInv'
<1> USE DEF clientVars, readVars
<1>0. /\ BsTypeOK /\ InOrder /\ ReadHeld
      /\ sent \in 0 .. Frames /\ late \in BOOLEAN /\ dropped \in BOOLEAN
  BY DEF BodyInv, BodyIInv, BsTypeOK
<1>1. /\ feeder # "done" /\ feeder' = "done" /\ msg' = NoMsg
      /\ UNCHANGED <<fed, sent, end, late, gil, mutex, at, op, recvd, result, chan, stream, taken,
                     bsReply>>
  BY DEF HandFails, FeederDropped, HandOver, GivesUp
<1>2. dropped' \in BOOLEAN /\ (dropped => dropped') /\ (stream = "open" => late \/ dropped')
  BY <1>0 DEF HandFails, FeederDropped, GivesUp, RxOpen
<1>3. BsTypeOK'
  BY <1>0, <1>1, <1>2 DEF BsTypeOK
<1>4. InOrder' /\ ReadHeld'
  BY <1>0, <1>1 DEF InOrder, ReadHeld
<1>5. EndsTrue'
  BY <1>0, <1>1, <1>2, EndsKept
<1>6. ASSUME stream = "open"
      PROVE  QueueContinues' /\ FeederContinues'
  <2>0. QueueContinues /\ FeederContinues
    BY <1>6 DEF BodyInv, BodyIInv
  <2>1. QueueContinues'
    BY <1>0, <1>1, <1>2, <2>0, QueueKept
  <2>2. FeederContinues'
    BY <1>1, <1>2, <1>6 DEF FeederContinues
  <2> QED BY <2>1, <2>2
<1> QED BY <1>1, <1>3, <1>4, <1>5, <1>6 DEF BodyInv, BodyIInv

(* A message is queued: it is the next of the sequence.                    *)
LEMMA HandStep ==
    ASSUME BodyInv, Hand
    PROVE  BodyInv'
<1> USE DEF clientVars, readVars
<1>0. /\ BsTypeOK /\ InOrder /\ ReadHeld /\ QueueContinues /\ FeederContinues
      /\ chan \in Seq(Messages) /\ taken \in Seq(1 .. Frames) /\ Capacity \in Nat
      /\ sent \in 0 .. Frames
  BY BodyAssumption DEF BodyInv, BodyIInv, BsTypeOK, Hand, RxOpen
<1>1. /\ feeder \in {"hand", "last"} /\ stream = "open" /\ Len(chan) < Capacity
      /\ chan' = Append(chan, msg) /\ msg' = NoMsg
      /\ feeder' = (IF feeder = "last" THEN "done" ELSE "frame")
      /\ UNCHANGED <<fed, dropped, sent, end, late, gil, mutex, at, op, recvd, result, stream,
                     taken, bsReply>>
  BY DEF Hand, HandOver, RxOpen
<1>2. msg \in Messages
  BY <1>0, <1>1 DEF BsTypeOK
<1>3. /\ chan' \in Seq(Messages) /\ Len(chan') = Len(chan) + 1 /\ Len(chan') <= Capacity
      /\ \A n \in 1 .. Len(chan) : chan'[n] = chan[n]
      /\ chan'[Len(chan) + 1] = msg /\ Len(chan) \in Nat /\ Len(taken) \in Nat
  BY <1>0, <1>1, <1>2
<1>4. chan' # <<>>
  <2>1. Len(<<>>) = 0
    OBVIOUS
  <2> QED BY <1>3, <2>1
<1>5. BsTypeOK'
  BY <1>0, <1>1, <1>3 DEF BsTypeOK
<1>6. InOrder' /\ ReadHeld'
  BY <1>0, <1>1 DEF InOrder, ReadHeld
<1>7. EndsTrue'
  BY <1>0, <1>1, EndsKept
<1>8. \A n \in 1 .. Len(chan) : chan'[n] = Data(Len(taken) + n)
  BY <1>0, <1>1, <1>3 DEF QueueContinues
<1>9. \A n \in 1 .. Len(chan') : n \in 1 .. Len(chan) \/ n = Len(chan) + 1
  BY <1>3
<1>10. CASE feeder = "hand"
  <2>1. /\ msg = Data(Len(taken) + (Len(chan) + 1)) /\ Len(taken) + (Len(chan) + 1) = fed
        /\ Len(taken) + Len(chan') = fed /\ feeder' = "frame"
    <3>1. /\ msg = Data(Len(taken) + Len(chan) + 1) /\ Len(taken) + Len(chan) + 1 = fed
      BY <1>0, <1>10 DEF FeederContinues
    <3>2. Len(taken) + Len(chan) + 1 = Len(taken) + (Len(chan) + 1)
      BY <1>3
    <3> QED BY <1>1, <1>3, <1>10, <3>1, <3>2
  <2>2. \A n \in 1 .. Len(chan') : chan'[n] = Data(Len(taken) + n)
    BY <1>3, <1>8, <1>9, <2>1
  <2>3. QueueContinues'
    BY <1>1, <2>2 DEF QueueContinues
  <2>4. FeederContinues'
    BY <1>1, <2>1 DEF FeederContinues
  <2> QED BY <1>1, <1>5, <1>6, <1>7, <2>3, <2>4 DEF BodyInv, BodyIInv
<1>11. CASE feeder = "last"
  <2>1. PICK k \in Kinds : /\ msg = Final(k) /\ Cause(k)
                           /\ k = "eof" => end = "eof" /\ Len(taken) + Len(chan) = sent
    BY <1>0, <1>11 DEF FeederContinues, Told, Kinds
  <2>2. Len(taken) + (Len(chan) + 1) - 1 = Len(taken) + Len(chan)
    BY <1>3
  <2>3. Cause(k)'
    BY <1>1, <2>1 DEF Cause
  <2>4. QueueContinues'
    <3> SUFFICES ASSUME NEW n \in 1 .. Len(chan')
                 PROVE  \/ chan'[n] = Data(Len(taken) + n)
                        \/ /\ n = Len(chan') /\ feeder' = "done"
                           /\ \E j \in Kinds : /\ chan'[n] = Final(j) /\ Cause(j)'
                                               /\ j = "eof" => end' = "eof" /\ Len(taken) + n - 1 = sent'
      BY <1>1 DEF QueueContinues, Told, Kinds
    <3>1. CASE n \in 1 .. Len(chan)
      BY <1>8, <3>1
    <3>2. CASE n = Len(chan) + 1
      BY <1>1, <1>3, <1>11, <2>1, <2>2, <2>3, <3>2
    <3> QED BY <1>9, <3>1, <3>2
  <2>5. chan'[Len(chan')].kind # "data"
    BY <1>3, <2>1, MessageKinds
  <2>6. FeederContinues'
    BY <1>1, <1>4, <1>11, <2>5 DEF FeederContinues
  <2> QED BY <1>1, <1>5, <1>6, <1>7, <2>4, <2>6 DEF BodyInv, BodyIInv
<1> QED BY <1>1, <1>10, <1>11

(* A read takes the mutex and waits, or answers from a stream that is over.*)
LEMMA LockStep ==
    ASSUME BodyInv, NEW r \in Readers, Lock(r)
    PROVE  BodyInv'
<1> USE DEF clientVars, feederVars
<1>0. /\ BsTypeOK /\ InOrder /\ ReadHeld /\ EndsTrue
      /\ at \in [Readers -> {"idle", "lock", "recv", "attach"}]
      /\ result \in [Readers -> {"none", "chunk", "stop", "count", "error"} \cup Failures]
      /\ stream \in {"open", "finished", "gone"} \cup Failures /\ None \notin Readers
      /\ sent \in 0 .. Frames
  BY BodyAssumption DEF BodyInv, BodyIInv, BsTypeOK
<1>1. /\ at[r] = "lock" /\ mutex = None
      /\ UNCHANGED <<op, recvd, fed, feeder, msg, dropped, sent, end, late, chan, stream, taken,
                     bsReply>>
  BY DEF Lock, MutexFree
<1>2. stream # "gone" /\ \A w \in Readers : at[w] \notin {"recv", "attach"}
  BY <1>0, <1>1 DEF ReadHeld
<1>3. CASE stream = "open"
  <2>1. /\ mutex' = r /\ gil' = None /\ result' = result
        /\ at' = [at EXCEPT ![r] = "recv"]
    BY <1>3 DEF Lock, Waits
  <2>2. /\ at' \in [Readers -> {"idle", "lock", "recv", "attach"}] /\ at'[r] = "recv"
        /\ \A w \in Readers : w # r => at'[w] = at[w]
    BY <1>0, <2>1
  <2>3. BsTypeOK'
    BY <1>0, <1>1, <2>1, <2>2 DEF BsTypeOK
  <2>4. InOrder' /\ ReadHeld'
    BY <1>0, <1>1, <1>2, <1>3, <2>1, <2>2 DEF InOrder, ReadHeld
  <2>5. EndsTrue'
    BY <1>0, <1>1, <2>1, <2>2, EndsKept
  <2>6. QueueContinues /\ FeederContinues
    BY <1>3 DEF BodyInv, BodyIInv
  <2>7. QueueContinues'
    BY <1>0, <1>1, <2>6, QueueKept
  <2>8. FeederContinues'
    BY <1>1, <1>2, <2>6 DEF FeederContinues, Told, Cause
  <2> QED BY <2>3, <2>4, <2>5, <2>7, <2>8 DEF BodyInv, BodyIInv
<1>4. CASE stream # "open"
  <2> DEFINE v == IF stream = "finished" THEN IF op[r] = "next" THEN "stop" ELSE "error" ELSE stream
  <2>1. /\ mutex' = mutex /\ gil' = None
        /\ at' = [at EXCEPT ![r] = "idle"] /\ result' = [result EXCEPT ![r] = v]
    BY <1>4 DEF Lock, Returns
  <2>2. /\ v \in {"stop", "error"} \cup Failures
        /\ v = "stop" => stream = "finished"
        /\ v \notin {"stop", "error"} => v = stream /\ stream \in Failures
        /\ v # "count"
    BY <1>0, <1>2, <1>4 DEF Failures, Rejections
  <2>3. Cause(v)
    <3>1. CASE v \in {"stop", "error"}
      BY <3>1 DEF Cause
    <3>2. CASE v = stream
      BY <1>0, <3>2 DEF EndsTrue
    <3> QED BY <2>2, <3>1, <3>2
  <2> HIDE DEF v
  <2>4. /\ at' \in [Readers -> {"idle", "lock", "recv", "attach"}] /\ at'[r] = "idle"
        /\ \A w \in Readers : w # r => at'[w] = at[w]
    BY <1>0, <2>1
  <2>5. /\ result' \in [Readers -> {"none", "chunk", "stop", "count", "error"} \cup Failures]
        /\ result'[r] = v /\ \A w \in Readers : w # r => result'[w] = result[w]
    BY <1>0, <2>1, <2>2
  <2>6. BsTypeOK'
    BY <1>0, <1>1, <2>1, <2>4, <2>5 DEF BsTypeOK
  <2>7. InOrder' /\ ReadHeld'
    BY <1>0, <1>1, <1>2, <1>4, <2>1, <2>4 DEF InOrder, ReadHeld
  <2>8. EndsTrue'
    <3>1. \A k : Cause(k) => Cause(k)'
      BY <1>1 DEF Cause
    <3>2. Complete => Complete'
      BY <1>1 DEF Complete
    <3>3. \A w \in Readers : Cause(result'[w]) /\ at'[w] # "attach"
      BY <1>0, <1>2, <2>3, <2>4, <2>5 DEF EndsTrue
    <3>4. \A w \in Readers : Cause(result[w])'
      BY <1>1, <3>3 DEF Cause
    <3>5. Cause(stream)'
      BY <1>0, <1>1 DEF EndsTrue, Cause
    <3>6. \A w \in Readers : result'[w] \in {"stop", "count"} => stream' # "open" /\ Complete'
      BY <1>0, <1>1, <1>4, <2>2, <2>5, <3>2 DEF EndsTrue
    <3> QED BY <1>0, <1>1, <3>2, <3>3, <3>4, <3>5, <3>6 DEF EndsTrue
  <2> QED BY <1>1, <1>4, <2>6, <2>7, <2>8 DEF BodyInv, BodyIInv
<1> QED BY <1>3, <1>4

(* The last reference goes, when nobody reads.                             *)
LEMMA DropStep ==
    ASSUME BodyInv, StreamDropped
    PROVE  BodyInv'
<1> USE DEF clientVars, feederVars, readVars
<1>0. /\ BsTypeOK /\ InOrder /\ ReadHeld /\ EndsTrue /\ None \notin Readers /\ Capacity \in Nat
      /\ mutex \in Readers \cup {None}
  BY BodyAssumption DEF BodyInv, BodyIInv, BsTypeOK
<1>1. /\ stream' = "gone" /\ chan' = <<>> /\ \A r \in Readers : at[r] = "idle"
      /\ UNCHANGED <<fed, feeder, msg, dropped, sent, end, late, gil, mutex, at, op, recvd, result,
                     taken, bsReply>>
  BY DEF StreamDropped
<1>2. BsTypeOK'
  <2>1. chan' \in Seq(Messages) /\ Len(chan') <= Capacity
    <3>1. <<>> \in Seq(Messages) /\ Len(<<>>) = 0
      OBVIOUS
    <3> QED BY <1>0, <1>1, <3>1
  <2> QED BY <1>0, <1>1, <2>1 DEF BsTypeOK
<1>3. mutex = None
  BY <1>0, <1>1 DEF ReadHeld
<1>4. InOrder' /\ ReadHeld'
  BY <1>0, <1>1, <1>3 DEF InOrder, ReadHeld
<1>5. EndsTrue'
  <2>1. Cause(stream)'
    BY <1>1 DEF Cause
  <2>2. \A r \in Readers : Cause(result[r])'
    BY <1>0, <1>1 DEF EndsTrue, Cause
  <2>3. Complete => Complete'
    BY <1>1 DEF Complete
  <2> QED BY <1>0, <1>1, <2>1, <2>2, <2>3 DEF EndsTrue
<1> QED BY <1>1, <1>2, <1>4, <1>5 DEF BodyInv, BodyIInv

(* The reader that waits is alone: it has the mutex of an open stream.     *)
LEMMA Alone ==
    ASSUME BodyInv, NEW r \in Readers, at[r] \in {"recv", "attach"}
    PROVE  /\ mutex = r /\ stream = "open" /\ QueueContinues /\ FeederContinues
           /\ \A w \in Readers : w # r => at[w] \in {"idle", "lock"}
           /\ \A w \in Readers : result[w] \notin {"stop", "count"}
<1>1. BsTypeOK /\ ReadHeld /\ EndsTrue /\ None \notin Readers
  BY BodyAssumption DEF BodyInv, BodyIInv
<1>2. mutex = r /\ stream = "open"
  BY <1>1 DEF ReadHeld
<1>3. QueueContinues /\ FeederContinues
  BY <1>2 DEF BodyInv, BodyIInv
<1>4. \A w \in Readers : w # r => at[w] \in {"idle", "lock"}
  BY <1>1, <1>2 DEF ReadHeld, BsTypeOK
<1> QED BY <1>1, <1>2, <1>3, <1>4 DEF EndsTrue

(* What is common to the three outcomes of a receive.                      *)
LEMMA RecvKeeps ==
    ASSUME BodyInv, NEW r \in Readers, at[r] = "recv",
           NEW got \in {"data", "eof"} \cup Failures, recvd' = [recvd EXCEPT ![r] = got],
           NEW pc \in {"recv", "attach"}, at' = [at EXCEPT ![r] = pc],
           taken' \in Seq(1 .. Frames), InOrder',
           chan' \in Seq(Messages), Len(chan') <= Capacity,
           UNCHANGED <<gil, mutex, op, result, fed, feeder, msg, dropped, sent, end, late, stream,
                       bsReply>>,
           Cause(got), got = "eof" => Complete',
           QueueContinues', FeederContinues'
    PROVE  BodyInv'
<1>0. /\ BsTypeOK /\ ReadHeld /\ EndsTrue
      /\ at \in [Readers -> {"idle", "lock", "recv", "attach"}]
      /\ recvd \in [Readers -> {"none", "data", "eof"} \cup Failures]
  BY DEF BodyInv, BodyIInv, BsTypeOK
<1>1. /\ mutex = r /\ stream = "open" /\ \A w \in Readers : w # r => at[w] \in {"idle", "lock"}
      /\ \A w \in Readers : result[w] \notin {"stop", "count"}
  BY Alone
<1>2. /\ at' \in [Readers -> {"idle", "lock", "recv", "attach"}] /\ at'[r] = pc
      /\ \A w \in Readers : w # r => at'[w] = at[w]
  BY <1>0
<1>3. /\ recvd' \in [Readers -> {"none", "data", "eof"} \cup Failures] /\ recvd'[r] = got
  BY <1>0
<1>4. BsTypeOK'
  BY <1>0, <1>2, <1>3 DEF BsTypeOK
<1>5. ReadHeld'
  BY <1>0, <1>1, <1>2 DEF ReadHeld
<1>6. EndsTrue'
  <2>1. Cause(stream)' /\ \A w \in Readers : Cause(result[w])'
    BY <1>0 DEF EndsTrue, Cause
  <2>2. \A w \in Readers : at'[w] = "attach" => w = r
    BY <1>1, <1>2
  <2>3. Cause(recvd[r])'
    BY <1>3 DEF Cause
  <2>4. got # "none"
    BY DEF Failures, Rejections
  <2> QED BY <1>1, <1>3, <2>1, <2>2, <2>3, <2>4 DEF EndsTrue
<1> QED BY <1>4, <1>5, <1>6 DEF BodyInv, BodyIInv

(* The next frame is read.                                                 *)
LEMMA RecvData ==
    ASSUME BodyInv, NEW r \in Readers, Recv(r), chan # <<>>, Head(chan).kind = "data"
    PROVE  BodyInv'
<1> USE DEF clientVars, feederVars
<1>0. /\ BsTypeOK /\ InOrder /\ chan \in Seq(Messages) /\ taken \in Seq(1 .. Frames)
      /\ Len(chan) <= Capacity /\ Capacity \in Nat /\ at[r] = "recv"
  BY BodyAssumption DEF BodyInv, BodyIInv, BsTypeOK, Recv
<1>1. /\ Received = "data"
      /\ recvd' = [recvd EXCEPT ![r] = "data"]
      /\ taken' = Append(taken, Head(chan).frame) /\ chan' = Tail(chan)
      /\ UNCHANGED <<gil, mutex, op, result, fed, feeder, msg, dropped, sent, end, late, stream,
                     bsReply>>
  BY DEF Recv, Received
<1>2. PICK pc \in {"recv", "attach"} : at' = [at EXCEPT ![r] = pc]
  BY <1>0, <1>1 DEF Recv
<1>3. QueueContinues /\ FeederContinues /\ \A w \in Readers : at[w] # "attach"
  BY <1>0, Alone
<1>4. /\ Len(taken) \in Nat /\ Len(chan) \in Nat \ {0} /\ 1 \in 1 .. Len(chan)
      /\ Head(chan) = chan[1] /\ chan[1] \in Messages
      /\ Tail(chan) \in Seq(Messages) /\ Len(Tail(chan)) = Len(chan) - 1
      /\ \A n \in 1 .. (Len(chan) - 1) : Tail(chan)[n] = chan[n + 1] /\ n + 1 \in 1 .. Len(chan)
  BY <1>0
<1>5. chan[1] = Data(Len(taken) + 1)
  <2>1. ~Told(chan[1], Len(taken) + 1 - 1)
    BY <1>4, MessageKinds DEF Told, Kinds
  <2> QED BY <1>3, <1>4, <2>1 DEF QueueContinues
<1>6. Head(chan).frame = Len(taken) + 1 /\ Len(taken) + 1 \in 1 .. Frames
  <2>1. Head(chan).frame = Len(taken) + 1
    BY <1>4, <1>5, MessageKinds
  <2>2. PICK m \in 1 .. Frames : chan[1] = Data(m)
    <3>1. ~(\E k \in Kinds : chan[1] = Final(k))
      BY <1>4, MessageKinds
    <3> QED BY <1>4, <3>1 DEF Messages, Kinds
  <2> QED BY <1>4, <2>1, <2>2, MessageKinds
<1>7. /\ taken' \in Seq(1 .. Frames) /\ Len(taken') = Len(taken) + 1
      /\ \A n \in 1 .. Len(taken) : taken'[n] = taken[n]
      /\ taken'[Len(taken) + 1] = Len(taken) + 1
  BY <1>0, <1>1, <1>6
<1>8. InOrder'
  <2>1. \A n \in 1 .. Len(taken) : taken[n] = n
    BY <1>0 DEF InOrder
  <2>2. \A n \in 1 .. Len(taken') : taken'[n] = n
    BY <1>4, <1>7, <2>1
  <2>3. taken' = [n \in 1 .. Len(taken') |-> taken'[n]]
    BY <1>7
  <2> QED BY <2>2, <2>3 DEF InOrder
<1>9. chan' \in Seq(Messages) /\ Len(chan') = Len(chan) - 1 /\ Len(chan') <= Capacity
  BY <1>0, <1>1, <1>4
<1>10. \A k : Cause(k) => Cause(k)'
  BY <1>1 DEF Cause
<1>11. QueueContinues'
  <2> SUFFICES ASSUME NEW n \in 1 .. (Len(chan) - 1)
               PROVE  \/ chan'[n] = Data(Len(taken') + n)
                      \/ /\ n = Len(chan') /\ feeder' = "done"
                         /\ \E k \in Kinds : /\ chan'[n] = Final(k) /\ Cause(k)'
                                             /\ k = "eof" => /\ end' = "eof"
                                                             /\ Len(taken') + n - 1 = sent'
    BY <1>9 DEF QueueContinues, Told, Kinds
  <2>1. /\ chan'[n] = chan[n + 1] /\ n + 1 \in 1 .. Len(chan)
        /\ Len(taken') + n = Len(taken) + (n + 1)
        /\ Len(taken') + n - 1 = Len(taken) + (n + 1) - 1
        /\ n + 1 = Len(chan) => n = Len(chan')
    <3>1. chan'[n] = chan[n + 1] /\ n + 1 \in 1 .. Len(chan)
      BY <1>1, <1>4
    <3>2. n \in Nat /\ Len(taken) \in Nat /\ Len(taken') = Len(taken) + 1
          /\ Len(chan) \in Nat /\ Len(chan') = Len(chan) - 1
      BY <1>4, <1>7, <1>9
    <3> QED BY <3>1, <3>2
  <2>2. CASE chan[n + 1] = Data(Len(taken) + (n + 1))
    BY <2>1, <2>2
  <2>3. CASE n + 1 = Len(chan) /\ feeder = "done" /\ Told(chan[n + 1], Len(taken) + (n + 1) - 1)
    BY <1>1, <1>10, <2>1, <2>3 DEF Told, Kinds
  <2> QED BY <1>3, <2>1, <2>2, <2>3 DEF QueueContinues
<1>12. FeederContinues'
  <2>1. Len(taken') + Len(chan') = Len(taken) + Len(chan)
    BY <1>4, <1>7, <1>9
  <2>2. chan[Len(chan)].kind # "data" =>
            chan' # <<>> /\ chan'[Len(chan')].kind # "data"
    <3> SUFFICES ASSUME chan[Len(chan)].kind # "data"
                 PROVE  chan' # <<>> /\ chan'[Len(chan')].kind # "data"
      OBVIOUS
    <3>1. Len(chan) # 1
      BY <1>4
    <3>2. Len(chan) - 1 \in 1 .. (Len(chan) - 1) /\ Len(chan) - 1 + 1 = Len(chan)
      BY <1>4, <3>1
    <3>3. chan'[Len(chan')] = chan[Len(chan)]
      BY <1>1, <1>4, <1>9, <3>2
    <3>4. Len(<<>>) = 0
      OBVIOUS
    <3> QED BY <1>4, <1>9, <3>1, <3>3, <3>4
  <2>3. feeder = "done" => late \/ dropped \/ chan[Len(chan)].kind # "data"
    BY <1>3 DEF FeederContinues
  <2>4. feeder = "last" => Told(msg, Len(taken) + Len(chan))'
    BY <1>1, <1>3, <1>10, <2>1 DEF FeederContinues, Told
  <2>5. /\ feeder = "frame" => Len(taken) + Len(chan) = fed
        /\ feeder = "hand" => /\ msg = Data(Len(taken) + Len(chan) + 1)
                              /\ Len(taken) + Len(chan) + 1 = fed
    BY <1>3 DEF FeederContinues
  <2> QED BY <1>1, <2>1, <2>2, <2>3, <2>4, <2>5 DEF FeederContinues
<1>13. Cause("data")
  BY DEF Cause
<1> QED BY <1>0, <1>1, <1>2, <1>7, <1>8, <1>9, <1>11, <1>12, <1>13, RecvKeeps

(* The last message is received.                                           *)
LEMMA RecvLast ==
    ASSUME BodyInv, NEW r \in Readers, Recv(r), chan # <<>>, Head(chan).kind # "data"
    PROVE  BodyInv'
<1> USE DEF clientVars, feederVars
<1>0. /\ BsTypeOK /\ InOrder /\ chan \in Seq(Messages) /\ taken \in Seq(1 .. Frames)
      /\ Len(chan) <= Capacity /\ Capacity \in Nat /\ at[r] = "recv"
      /\ QueueContinues
  BY Alone, BodyAssumption DEF BodyInv, BodyIInv, BsTypeOK, Recv
<1>1. /\ Received = Head(chan).kind /\ Received # "data"
      /\ recvd' = [recvd EXCEPT ![r] = Received] /\ at' = [at EXCEPT ![r] = "attach"]
      /\ taken' = taken /\ chan' = Tail(chan)
      /\ UNCHANGED <<gil, mutex, op, result, fed, feeder, msg, dropped, sent, end, late, stream,
                     bsReply>>
  BY DEF Recv, Received
<1>2. /\ Len(taken) \in Nat /\ Len(chan) \in Nat \ {0} /\ 1 \in 1 .. Len(chan)
      /\ Head(chan) = chan[1] /\ chan[1] \in Messages /\ Len(taken) + 1 - 1 = Len(taken)
  BY <1>0
<1>3. Len(chan) = 1 /\ feeder = "done" /\ Told(chan[1], Len(taken))
  <2>1. chan[1] # Data(Len(taken) + 1)
    BY <1>2, MessageKinds
  <2> QED BY <1>0, <1>2, <2>1 DEF QueueContinues
<1>4. PICK k \in Kinds : chan[1] = Final(k) /\ Cause(k) /\ (k = "eof" => end = "eof" /\ Len(taken) = sent)
  BY <1>3 DEF Told, Kinds
<1>5. Received = k /\ k \in {"data", "eof"} \cup Failures
  BY <1>1, <1>2, <1>4, MessageKinds DEF Kinds, Failures
<1>6. chan' \in Seq(Messages) /\ Len(chan') = 0 /\ Len(chan') <= Capacity
  BY <1>0, <1>1, <1>3
<1>7. QueueContinues'
  BY <1>6 DEF QueueContinues
<1>8. at'[r] = "attach" /\ recvd'[r] # "data"
  BY <1>0, <1>1 DEF BsTypeOK
<1>9. FeederContinues'
  BY <1>1, <1>3, <1>8 DEF FeederContinues
<1>10. InOrder' /\ (k = "eof" => Complete')
  BY <1>0, <1>1, <1>4 DEF InOrder, Complete
<1> QED BY <1>0, <1>1, <1>4, <1>5, <1>6, <1>7, <1>9, <1>10, RecvKeeps

(* The channel closed with no last message: the stream was cut off.        *)
LEMMA RecvCut ==
    ASSUME BodyInv, NEW r \in Readers, Recv(r), chan = <<>>
    PROVE  BodyInv'
<1> USE DEF clientVars, feederVars
<1>0. /\ BsTypeOK /\ InOrder /\ chan \in Seq(Messages) /\ taken \in Seq(1 .. Frames)
      /\ Len(chan) <= Capacity /\ at[r] = "recv" /\ stream = "open"
      /\ QueueContinues /\ FeederContinues /\ \A w \in Readers : at[w] # "attach"
  BY Alone DEF BodyInv, BodyIInv, BsTypeOK, Recv
<1>1. /\ feeder = "done" /\ Received = "cutoff"
      /\ recvd' = [recvd EXCEPT ![r] = "cutoff"] /\ at' = [at EXCEPT ![r] = "attach"]
      /\ taken' = taken /\ chan' = chan
      /\ UNCHANGED <<gil, mutex, op, result, fed, feeder, msg, dropped, sent, end, late, stream,
                     bsReply>>
  BY <1>0 DEF Recv, Received, Closed, RxOpen
<1>2. late \/ dropped
  BY <1>0, <1>1 DEF FeederContinues
<1>3. Cause("cutoff") /\ "cutoff" \in {"data", "eof"} \cup Failures
  BY <1>2 DEF Cause, Failures
<1>4. Len(chan') = 0
  BY <1>1
<1>5. QueueContinues'
  BY <1>4 DEF QueueContinues
<1>6. FeederContinues'
  BY <1>1, <1>2 DEF FeederContinues
<1>7. InOrder'
  BY <1>0, <1>1 DEF InOrder
<1> QED BY <1>0, <1>1, <1>3, <1>5, <1>6, <1>7, RecvKeeps

(* A read returns: with a chunk, or with the end it sets.                  *)
LEMMA AttachStep ==
    ASSUME BodyInv, NEW r \in Readers, Attach(r)
    PROVE  BodyInv'
<1> USE DEF clientVars, feederVars
<1>0. /\ BsTypeOK /\ InOrder /\ ReadHeld /\ EndsTrue /\ None \notin Readers /\ Capacity \in Nat
      /\ at \in [Readers -> {"idle", "lock", "recv", "attach"}]
      /\ result \in [Readers -> {"none", "chunk", "stop", "count", "error"} \cup Failures]
      /\ recvd \in [Readers -> {"none", "data", "eof"} \cup Failures]
      /\ at[r] = "attach" /\ chan \in Seq(Messages) /\ sent \in 0 .. Frames
  BY BodyAssumption DEF BodyInv, BodyIInv, BsTypeOK, Attach
<1>1. /\ mutex = r /\ stream = "open" /\ QueueContinues /\ FeederContinues
      /\ \A w \in Readers : w # r => at[w] \in {"idle", "lock"}
      /\ \A w \in Readers : result[w] \notin {"stop", "count"}
  BY <1>0, Alone
<1>2. /\ recvd[r] \in {"data", "eof"} \cup Failures /\ Cause(recvd[r])
      /\ recvd[r] = "eof" => Complete
  BY <1>0 DEF EndsTrue
<1>3. /\ mutex' = None /\ gil' = None /\ at' = [at EXCEPT ![r] = "idle"]
      /\ UNCHANGED <<op, recvd, fed, feeder, msg, dropped, sent, end, late, taken, bsReply>>
  BY DEF Attach, Returns
<1> DEFINE v == CASE recvd[r] = "data" -> "chunk"
                  [] recvd[r] = "eof" -> IF op[r] = "next" THEN "stop" ELSE "count"
                  [] OTHER -> recvd[r]
<1>4. result' = [result EXCEPT ![r] = v]
  BY DEF Attach, Returns
<1>5. /\ v \in {"chunk", "stop", "count"} \cup Failures
      /\ v \in {"stop", "count"} => recvd[r] = "eof"
      /\ v \notin {"chunk", "stop", "count"} => v = recvd[r]
  BY <1>2 DEF Failures, Rejections
<1>6. Cause(v)
  <2>1. CASE v \in {"chunk", "stop", "count"}
    BY <2>1 DEF Cause
  <2>2. CASE v = recvd[r]
    BY <1>2, <2>2
  <2> QED BY <1>5, <2>1, <2>2
<1> HIDE DEF v
<1>7. /\ result' \in [Readers -> {"none", "chunk", "stop", "count", "error"} \cup Failures]
      /\ result'[r] = v /\ \A w \in Readers : w # r => result'[w] = result[w]
  BY <1>0, <1>4, <1>5
<1>8. /\ at' \in [Readers -> {"idle", "lock", "recv", "attach"}] /\ at'[r] = "idle"
      /\ \A w \in Readers : w # r => at'[w] = at[w]
  BY <1>0, <1>3
<1>9. \A w \in Readers : at'[w] \in {"idle", "lock"} /\ at'[w] # "attach" /\ w # None
  BY <1>0, <1>1, <1>8
<1>10. \A k : Cause(k) => Cause(k)'
  BY <1>3 DEF Cause
<1>11. \A w \in Readers : Cause(result[w])'
  <2>1. \A w \in Readers : Cause(result'[w])
    BY <1>0, <1>6, <1>7 DEF EndsTrue
  <2> QED BY <1>3, <2>1 DEF Cause
<1>12. Complete => Complete'
  BY <1>3 DEF Complete
<1>13. CASE recvd[r] = "data"
  <2>1. stream' = "open" /\ chan' = chan
    BY <1>1, <1>13 DEF Attach
  <2>2. BsTypeOK'
    BY <1>0, <1>3, <1>7, <1>8, <1>1, <2>1 DEF BsTypeOK
  <2>3. InOrder' /\ ReadHeld'
    BY <1>0, <1>3, <1>9, <2>1 DEF InOrder, ReadHeld
  <2>4. EndsTrue'
    <3>1. Cause(stream)'
      BY <2>1 DEF Cause
    <3>2. v \notin {"stop", "count"}
      BY <1>5, <1>13
    <3>3. \A w \in Readers : result'[w] \notin {"stop", "count"}
      BY <1>1, <1>7, <3>2
    <3> QED BY <1>9, <1>11, <2>1, <3>1, <3>3 DEF EndsTrue
  <2>5. QueueContinues'
    BY <1>0, <1>1, <1>3, <2>1, QueueKept
  <2>6. FeederContinues'
    <3>1. feeder = "done" => late \/ dropped \/ (chan # <<>> /\ chan[Len(chan)].kind # "data")
      BY <1>1, <1>13 DEF FeederContinues
    <3>2. feeder = "last" => Told(msg, Len(taken) + Len(chan))'
      BY <1>1, <1>3, <1>10, <2>1 DEF FeederContinues, Told
    <3> QED BY <1>1, <1>3, <2>1, <3>1, <3>2 DEF FeederContinues
  <2> QED BY <2>2, <2>3, <2>4, <2>5, <2>6 DEF BodyInv, BodyIInv
<1>14. CASE recvd[r] # "data"
  <2>1. /\ stream' = (IF recvd[r] = "eof" THEN "finished" ELSE recvd[r])
        /\ stream' \in {"finished"} \cup Failures /\ stream' # "open" /\ stream' # "gone"
    BY <1>2, <1>14 DEF Attach, Failures, Rejections
  <2>2. chan' = <<>> /\ chan' \in Seq(Messages) /\ Len(chan') <= Capacity
    <3>1. chan' = <<>>
      BY <2>1 DEF Attach
    <3>2. <<>> \in Seq(Messages) /\ Len(<<>>) = 0
      OBVIOUS
    <3> QED BY <1>0, <3>1, <3>2
  <2>3. BsTypeOK'
    BY <1>0, <1>3, <1>7, <1>8, <2>1, <2>2 DEF BsTypeOK
  <2>4. InOrder' /\ ReadHeld'
    BY <1>0, <1>3, <1>9, <2>1, <2>2 DEF InOrder, ReadHeld
  <2>5. EndsTrue'
    <3>1. Cause(stream)'
      <4>1. CASE recvd[r] = "eof"
        BY <2>1, <4>1 DEF Cause
      <4>2. CASE recvd[r] # "eof"
        BY <1>2, <1>3, <2>1, <4>2 DEF Cause
      <4> QED BY <4>1, <4>2
    <3>2. stream' = "finished" => Complete'
      BY <1>2, <1>12, <2>1 DEF Failures, Rejections
    <3>3. \A w \in Readers : result'[w] \in {"stop", "count"} => Complete'
      BY <1>1, <1>2, <1>5, <1>7, <1>12
    <3> QED BY <1>9, <1>11, <2>1, <3>1, <3>2, <3>3 DEF EndsTrue
  <2> QED BY <2>1, <2>3, <2>4, <2>5 DEF BodyInv, BodyIInv
<1> QED BY <1>13, <1>14

(* The invariant holds at the start and is kept by every step.             *)
LEMMA BodyStart == BsInit => BodyInv
<1> SUFFICES ASSUME BsInit PROVE BodyInv
  OBVIOUS
<1>0. /\ <<>> \in Seq(Messages) /\ <<>> \in Seq(1 .. Frames) /\ Len(<<>>) = 0
      /\ 0 \in 0 .. Frames /\ 0 \in 0 .. 0 /\ 0 <= Capacity
  BY BodyAssumption
<1>1. BsTypeOK
  BY <1>0 DEF BsInit, BsTypeOK
<1>2. InOrder
  <2>1. <<>> = [n \in 1 .. 0 |-> n]
    OBVIOUS
  <2> QED BY <1>0, <2>1 DEF BsInit, InOrder
<1>3. ReadHeld
  BY BodyAssumption DEF BsInit, ReadHeld
<1>4. EndsTrue
  BY DEF BsInit, EndsTrue, Cause
<1>5. QueueContinues /\ FeederContinues
  BY <1>0 DEF BsInit, QueueContinues, FeederContinues
<1> QED BY <1>1, <1>2, <1>3, <1>4, <1>5 DEF BodyInv, BodyIInv

LEMMA BodyStep == BodyInv /\ [BsNext]_bsVars => BodyInv'
<1> SUFFICES ASSUME BodyInv, [BsNext]_bsVars PROVE BodyInv'
  OBVIOUS
<1> USE DEF clientVars, feederVars, readVars
<1>0. /\ sent \in 0 .. Frames /\ Frames \in Nat /\ late \in BOOLEAN
      /\ end \in {"none", "eof", "error"} /\ gil \in Readers \cup {None}
      /\ op \in [Readers -> {"next", "drain"}]
      /\ bsReply \in {"body", "budget", "answered", "timeout"}
      /\ at \in [Readers -> {"idle", "lock", "recv", "attach"}]
  BY BodyAssumption DEF BodyInv, BsTypeOK
<1>1. CASE UNCHANGED bsVars
  BY <1>0, <1>1, OutsideStep DEF bsVars
<1>2. CASE ClientSends
  <2>1. sent' \in 0 .. Frames /\ sent <= sent' /\ end = "none"
    BY <1>0, <1>2 DEF ClientSends
  <2> QED BY <1>0, <1>2, <2>1, OutsideStep DEF ClientSends
<1>3. ASSUME NEW how \in {"eof", "error"}, ClientEnds(how)
      PROVE  BodyInv'
  BY <1>0, <1>3, OutsideStep DEF ClientEnds
<1>4. CASE DeadlinePasses
  BY <1>0, <1>4, OutsideStep DEF DeadlinePasses
<1>5. CASE BodyRead \/ HandlerReturns \/ BudgetPasses
  <2>1. bsReply' \in {"body", "budget", "answered", "timeout"}
    BY <1>5 DEF BodyRead, HandlerReturns, BudgetPasses
  <2> QED BY <1>0, <1>5, <2>1, OutsideStep DEF BodyRead, HandlerReturns, BudgetPasses
<1>6. ASSUME NEW r \in Readers, NEW o \in {"next", "drain"}, Call(r, o)
      PROVE  BodyInv'
  <2>1. /\ gil' \in Readers \cup {None} /\ op' \in [Readers -> {"next", "drain"}]
        /\ at' \in [Readers -> {"idle", "lock", "recv", "attach"}]
        /\ UNCHANGED <<mutex, recvd, result, fed, feeder, msg, dropped, sent, end, late, chan,
                       stream, taken, bsReply>>
    BY <1>0, <1>6 DEF Call
  <2>2. \A w \in Readers : \/ at'[w] = at[w]
                           \/ at[w] = "idle" /\ at'[w] = "lock" /\ stream # "gone"
    BY <1>0, <1>6 DEF Call
  <2> QED BY <1>0, <2>1, <2>2, OutsideStep
<1>7. ASSUME NEW r \in Readers, Recv(r)
      PROVE  BodyInv'
  BY <1>7, RecvData, RecvLast, RecvCut
<1> QED BY <1>1, <1>2, <1>3, <1>4, <1>5, <1>6, <1>7, FeedStep, HandStep, FeederEnds, LockStep,
           AttachStep, DropStep DEF BsNext

(* Whatever the client, the clock and any number of reading threads do:    *)
(* the chunks come out in order, the end of the body is told only when all *)
(* of it was read, and a failure names its cause (body.rs, feed and hand;  *)
(* body_stream.rs, __next__ and drain_count).                              *)
THEOREM BodyCorrect == BsSpec => []BodySafe
<1>1. BodyInv => BodySafe
  BY DEF BodyInv, BodyIInv, EndsTrue, BodySafe, NoSilentTruncation, FailureTrue
<1> QED BY <1>1, BodyStart, BodyStep, PTL DEF BsSpec

(* A stream that ended or failed stays as it is until it is dropped        *)
(* (body_stream.rs: "A stream that failed keeps failing").                 *)
THEOREM EndSettles == BsSpec => Settled
<1>1. BodyInv /\ [BsNext]_bsVars =>
        [(stream \in Failures \cup {"finished"}) => stream' \in {stream, "gone"}]_bsVars
  <2> SUFFICES ASSUME BodyInv, [BsNext]_bsVars, stream \in Failures \cup {"finished"}
               PROVE  stream' \in {stream, "gone"}
    OBVIOUS
  <2>1. \A r \in Readers : ~Attach(r)
    BY Alone DEF Attach, Failures, Rejections
  <2> QED BY <2>1 DEF BsNext, bsVars, ClientSends, ClientEnds, DeadlinePasses, FeedFrame, FeedEnd,
            FeedTimeout, Hand, HandFails, FeederDropped, Call, Lock, Recv, StreamDropped, BodyRead,
            HandlerReturns, BudgetPasses
<1> QED BY <1>1, BodyStart, BodyStep, PTL DEF BsSpec, Settled
=============================================================================

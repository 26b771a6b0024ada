---------------------------- MODULE Compression -----------------------------
(***************************************************************************)
(* Response compression (src/compression.rs): whether a response is        *)
(* compressed and with which codec, and the life of the output buffer,     *)
(* which every thread of the server takes from one pool and which goes     *)
(* back to it only when the response body that owns it is dropped.         *)
(*                                                                         *)
(* A body is the request it answers and its length; a compressed one is    *)
(* what its buffer holds at the moment it is looked at.                    *)
(***************************************************************************)
EXTENDS Integers, Sequences, FiniteSets, SequencesExt

CONSTANTS
    CoReqs,    \* requests whose handlers have answered
    CoOffered, \* per request: what it may be, [accept, data]
    CoRaw,     \* arguments of enable_compression the app may have used
    CoInline,  \* INLINE_MAX_BYTES
    CoSlots,   \* POOL_SLOTS
    CoMaxMin,  \* u32::MAX: the largest min_size
    CoNoBuf    \* no buffer

(* An element of Accept-Encoding; a q below zero, which the parser takes,  *)
(* is one.  A Vary line is the set of its names; "odd" is bytes that are   *)
(* no text.                                                                *)
CoElements == [name : {"br", "gzip", "*", "other"}, q : Int]
CoLines == SUBSET {"ae", "odd", "other"}

ASSUME CoAssumption ==
    /\ CoSlots \in Nat /\ CoInline \in Nat /\ CoMaxMin \in Nat
    /\ IsFiniteSet(CoReqs) /\ CoNoBuf \notin CoReqs
    /\ \A r \in CoReqs : CoOffered[r] # {} /\ \A o \in CoOffered[r] :
          o.accept \in Seq(CoElements) /\ o.data.vary \in Seq(CoLines)

VARIABLES
    coSettings, \* the app's Settings, or CoOff
    coAsked,    \* per request: its Accept-Encoding and the handler's response
    coPc,       \* per request: where its response is
    coAlgo,     \* the codec of its job
    coJobs,     \* requests whose job is on the blocking pool and has not ended
    coBuf,      \* the buffer its job or its body has
    coHolds,    \* per buffer: what its bytes are, and whether it outgrew the pool
    coPool,     \* COMPRESS_POOL
    coOut       \* per request: the response being sent

coVars == <<coSettings, coAsked, coPc, coAlgo, coJobs, coBuf, coHolds, coPool, coOut>>

CoOff == [on |-> FALSE]
CoBlank == [of |-> CoNoBuf, coding |-> "none", big |-> FALSE]

(* As many buffers exist as requests at most: named by who made them.      *)
CoFree == CoReqs \ ({coBuf[r] : r \in CoReqs} \cup ToSet(coPool))

-----------------------------------------------------------------------------
(* The decision.                                                           *)

(* Settings::parse: a size, an algorithm and a level each in its range.    *)
CoParse(raw) ==
    IF /\ raw.min \in 0 .. CoMaxMin
       /\ raw.gzip \/ raw.brotli
       /\ raw.level \in 1 .. 9
       /\ raw.quality \in 0 .. 11
      THEN [on |-> TRUE, min |-> raw.min, level |-> raw.level, quality |-> raw.quality,
            codings |-> {c \in {"br", "gzip"} : raw[IF c = "br" THEN "brotli" ELSE "gzip"]}]
      ELSE CoOff

(* The largest q of an element named c: -1 when there is none.             *)
CoQ(accept, c) ==
    LET qs == {accept[i].q : i \in {j \in DOMAIN accept : accept[j].name = c}}
    IN IF qs = {} THEN -1 ELSE CHOOSE q \in qs : \A p \in qs : p <= q

CoWants(accept, c) ==
    (IF CoQ(accept, c) < 0 THEN CoQ(accept, "*") ELSE CoQ(accept, c)) > 0

(* Mutant: the wildcard counts whatever is said of the codec itself.       *)
StarWins(accept, allowed) ==
    LET shared == {c \in allowed : CoQ(accept, c) > 0 \/ CoQ(accept, "*") > 0}
    IN IF "br" \in shared THEN "br" ELSE IF "gzip" \in shared THEN "gzip" ELSE "none"

(* negotiate: of the codecs both allow, brotli first.                      *)
Negotiate(accept, allowed) ==
    LET shared == {c \in allowed : CoWants(accept, c)}
    IN IF "br" \in shared THEN "br" ELSE IF "gzip" \in shared THEN "gzip" ELSE "none"

(* The type that goes out: the handler's own header before the response's. *)
CoType(data) == IF data.header = "none" THEN data.type ELSE data.header

(* plan: the codec to use, or none.                                        *)
Plan(data, accept, s) ==
    IF /\ s.on /\ accept # <<>> /\ ~data.encoded
       /\ data.len >= s.min
       /\ CoType(data) = "text"
      THEN Negotiate(accept, s.codings)
      ELSE "none"

(* Job::runs_inline: short, and not for brotli at a slow quality.          *)
RunsInline(data, algo) ==
    data.len < CoInline /\ ~(algo = "br" /\ coSettings.quality >= 10)

NamesAcceptEncoding(line) == "ae" \in line /\ "odd" \notin line

(* set_compression_headers: the Vary lines.                                *)
Varied(lines) ==
    IF \E i \in DOMAIN lines : NamesAcceptEncoding(lines[i]) THEN lines
    ELSE IF Len(lines) = 1 /\ "odd" \notin lines[1] THEN <<lines[1] \cup {"ae"}>>
    ELSE Append(lines, {"ae"})

-----------------------------------------------------------------------------
(* A response: its body's bytes are its own (CoNoBuf) or in a buffer.      *)

CoPlain(data) ==
    [body |-> CoNoBuf, coding |-> "none", length |-> data.length, vary |-> data.vary]
CoCompressed(b, algo, lines) ==
    [body |-> b, coding |-> algo, length |-> FALSE, vary |-> Varied(lines)]

CoInit ==
    /\ coSettings \in {CoParse(raw) : raw \in CoRaw}
    /\ coAsked \in [CoReqs -> UNION {CoOffered[r] : r \in CoReqs}]
    /\ \A r \in CoReqs : coAsked[r] \in CoOffered[r]
    /\ coPc = [r \in CoReqs |-> "answered"]
    /\ coAlgo = [r \in CoReqs |-> "none"]
    /\ coJobs = {}
    /\ coBuf = [r \in CoReqs |-> CoNoBuf]
    /\ coHolds = [b \in CoReqs |-> CoBlank]
    /\ coPool = <<>>
    /\ coOut = [r \in CoReqs |-> CoPlain(coAsked[r].data)]

(* compress: no job, and the response goes as it is.                       *)
CoPlans(r) ==
    /\ coPc[r] = "answered"
    /\ LET algo == Plan(coAsked[r].data, coAsked[r].accept, coSettings)
       IN /\ coAlgo' = [coAlgo EXCEPT ![r] = algo]
          /\ coPc' = [coPc EXCEPT ![r] = IF algo = "none" THEN "sending" ELSE "run"]
          /\ coJobs' = IF algo # "none" /\ ~RunsInline(coAsked[r].data, algo)
                         THEN coJobs \cup {r} ELSE coJobs
    /\ UNCHANGED <<coSettings, coAsked, coBuf, coHolds, coPool, coOut>>

CoLeft == [run |-> "left_run", write |-> "left_write"]

(* The client leaves while its job is on the blocking pool: the request's  *)
(* future is dropped, the job goes on.                                     *)
CoClientLeaves(r) ==
    /\ r \in coJobs /\ coPc[r] \in {"run", "write"}
    /\ coPc' = [coPc EXCEPT ![r] = CoLeft[@]]
    /\ UNCHANGED <<coSettings, coAsked, coAlgo, coJobs, coBuf, coHolds, coPool, coOut>>

CoAt(r, step) == coPc[r] \in {step, CoLeft[step]}

(* Job::run: the last buffer of the pool, or a new one.                    *)
CoTakesBuf(r) ==
    /\ CoAt(r, "run")
    /\ \/ /\ coPool # <<>>
          /\ coBuf' = [coBuf EXCEPT ![r] = Last(coPool)]
          /\ coPool' = Front(coPool)
       \/ /\ coPool = <<>>
          /\ \E b \in CoFree : coBuf' = [coBuf EXCEPT ![r] = b]
          /\ UNCHANGED coPool
    /\ coPc' = [coPc EXCEPT ![r] = IF @ = "run" THEN "write" ELSE "left_write"]
    /\ coHolds' = [coHolds EXCEPT ![coBuf'[r]] = CoBlank]
    /\ UNCHANGED <<coSettings, coAsked, coAlgo, coJobs, coOut>>

(* Mutant: a buffer is always kept.                                        *)
KeepsAll(b, big) == Append(coPool, b)

(* PooledCompressBuf::drop: the pool after b comes back to it.             *)
PoolWith(b, big) ==
    IF ~big /\ Len(coPool) < CoSlots THEN Append(coPool, b) ELSE coPool

(* A body whose buffer cannot be used: it is sent as the handler made it.  *)
CoGivesBack(r, big) ==
    /\ coPool' = PoolWith(coBuf[r], big)
    /\ coBuf' = [coBuf EXCEPT ![r] = CoNoBuf]
    /\ UNCHANGED coOut

(* Mutant: the buffer is back in the pool once the body is made from it.   *)
PooledAtOnce(r, big) ==
    /\ coOut' = [coOut EXCEPT ![r] = CoCompressed(coBuf[r], coAlgo[r], @.vary)]
    /\ coPool' = PoolWith(coBuf[r], big)
    /\ UNCHANGED coBuf

(* apply: the body owns the buffer; its headers say what it is.            *)
CoApply(r, big) ==
    /\ coOut' = [coOut EXCEPT ![r] = CoCompressed(coBuf[r], coAlgo[r], @.vary)]
    /\ UNCHANGED <<coPool, coBuf>>

(* The codec has written: the body shrank, or it did not, or the codec     *)
(* failed; a buffer may have grown past what the pool keeps.               *)
CoJobEnds(r) ==
    /\ CoAt(r, "write")
    /\ \E big \in BOOLEAN :
         /\ big => coAsked[r].data.len >= CoInline
         /\ coHolds' = [coHolds EXCEPT ![coBuf[r]] =
                          [of |-> r, coding |-> coAlgo[r], big |-> big]]
         /\ \/ coPc[r] = "write" /\ CoApply(r, big)
            \/ CoGivesBack(r, big)
    /\ coPc' = [coPc EXCEPT ![r] = IF @ = "write" THEN "sending" ELSE "gone"]
    /\ coJobs' = coJobs \ {r}
    /\ UNCHANGED <<coSettings, coAsked, coAlgo>>

(* The blocking task panics: its buffer is freed, never pooled, and the    *)
(* body is sent uncompressed.                                              *)
CoJobPanics(r) ==
    /\ r \in coJobs /\ CoAt(r, "write")
    /\ coBuf' = [coBuf EXCEPT ![r] = CoNoBuf]
    /\ coPc' = [coPc EXCEPT ![r] = IF @ = "write" THEN "sending" ELSE "gone"]
    /\ coJobs' = coJobs \ {r}
    /\ UNCHANGED <<coSettings, coAsked, coAlgo, coHolds, coPool, coOut>>

(* The response body is dropped, written to the socket or not.             *)
CoBodyDropped(r) ==
    /\ coPc[r] = "sending"
    /\ coPool' = IF coBuf[r] = CoNoBuf THEN coPool
                 ELSE PoolWith(coBuf[r], coHolds[coBuf[r]].big)
    /\ coBuf' = [coBuf EXCEPT ![r] = CoNoBuf]
    /\ coPc' = [coPc EXCEPT ![r] = "gone"]
    /\ UNCHANGED <<coSettings, coAsked, coAlgo, coJobs, coHolds, coOut>>

CoNext ==
    \E r \in CoReqs :
      \/ CoPlans(r) \/ CoClientLeaves(r) \/ CoTakesBuf(r)
      \/ CoJobEnds(r) \/ CoJobPanics(r) \/ CoBodyDropped(r)

CoSpec == CoInit /\ [][CoNext]_coVars

-----------------------------------------------------------------------------
(* Properties.                                                             *)

(* The state is well formed; the pool keeps at most POOL_SLOTS buffers,    *)
(* none of them twice and none too large (COMPRESS_POOL's two bounds).     *)
CoTypeOK ==
    /\ coPc \in [CoReqs -> {"answered", "run", "left_run", "write", "left_write",
                            "sending", "gone"}]
    /\ coJobs \subseteq CoReqs
    /\ coBuf \in [CoReqs -> CoReqs \cup {CoNoBuf}]
    /\ Len(coPool) <= CoSlots /\ IsInjective(coPool)
    /\ \A i \in DOMAIN coPool : ~coHolds[coPool[i]].big

(* Bytes on their way to a client are never another response's: the        *)
(* buffer a body owns holds this request's body in the codec its header    *)
(* names, from apply until the body is dropped, whatever other threads     *)
(* compress meanwhile.                                                     *)
CoOwnBytes ==
    \A r \in CoReqs :
      (coPc[r] = "sending" /\ coOut[r].body # CoNoBuf) =>
        /\ coHolds[coOut[r].body].of = r
        /\ coHolds[coOut[r].body].coding = coOut[r].coding

(* What a client is sent, it can read: a codec of the server's is one the  *)
(* client listed with a q above zero (or, not listing it with a q that is  *)
(* zero or more, covered with a wildcard) and the app enabled, on a body   *)
(* the handler had not encoded itself; a header that counted the           *)
(* uncompressed body is gone, and a cache is told that it varies.          *)
CoReadable ==
    \A r \in CoReqs :
      (coPc[r] = "sending" /\ coOut[r].coding # "none") =>
        LET accept == coAsked[r].accept
            says(c) == \E i \in DOMAIN accept : accept[i].name = c /\ accept[i].q > 0
            names(c) == \E i \in DOMAIN accept : accept[i].name = c /\ accept[i].q >= 0
            c == coOut[r].coding
        IN /\ says(c) \/ (~names(c) /\ says("*"))
           /\ coSettings.on /\ c \in coSettings.codings
           /\ ~coAsked[r].data.encoded
           /\ ~coOut[r].length
           /\ \E i \in DOMAIN coOut[r].vary : NamesAcceptEncoding(coOut[r].vary[i])

CoWork == {"run", "left_run", "write", "left_write"}
CoTypes ==
    /\ DOMAIN coOut = CoReqs /\ DOMAIN coHolds = CoReqs
    /\ coAlgo \in [CoReqs -> {"none", "br", "gzip"}]
    /\ coPool \in Seq(CoReqs)
    /\ \A b \in CoReqs : coHolds[b].big \in BOOLEAN
    /\ \A r \in CoReqs : coAsked[r] \in CoOffered[r]

(* A buffer is in one place: with one job, in one body, or in the pool.    *)
CoOneOwner ==
    /\ \A r, s \in CoReqs : r # s /\ coBuf[r] # CoNoBuf => coBuf[r] # coBuf[s]
    /\ \A r \in CoReqs : \A i \in DOMAIN coPool : coPool[i] # coBuf[r]

(* Where each response is: planned with a codec, writing to a buffer of    *)
(* its own, going out compressed or as the handler made it.                *)
CoPlaced ==
    \A r \in CoReqs :
      LET data == coAsked[r].data IN
      /\ coPc[r] \in CoWork =>
            coAlgo[r] # "none" /\ coAlgo[r] = Plan(data, coAsked[r].accept, coSettings)
      /\ coPc[r] \notin {"sending", "gone"} => coOut[r] = CoPlain(data)
      /\ coPc[r] \in {"write", "left_write"} => coBuf[r] # CoNoBuf
      /\ coPc[r] \in {"answered", "run", "left_run", "gone"} => coBuf[r] = CoNoBuf
      /\ coPc[r] = "sending" =>
            \/ coBuf[r] = CoNoBuf /\ coOut[r] = CoPlain(data)
            \/ /\ coBuf[r] # CoNoBuf /\ coAlgo[r] # "none"
               /\ coAlgo[r] = Plan(data, coAsked[r].accept, coSettings)
               /\ coOut[r] = CoCompressed(coBuf[r], coAlgo[r], data.vary)
               /\ coHolds[coBuf[r]].of = r /\ coHolds[coBuf[r]].coding = coAlgo[r]

(* The inductive invariant.                                                *)
CoIInv == CoTypeOK /\ CoTypes /\ CoOneOwner /\ CoPlaced

(* A client gets its own bytes in a form it can read, and the buffer pool  *)
(* stays within its bounds.                                                *)
CoSafe == CoTypeOK /\ CoOwnBytes /\ CoReadable
=============================================================================

---------------------------- MODULE StaticFiles -----------------------------
(***************************************************************************)
(* Static files (src/static_fs.rs): concurrent requests for the files of a *)
(* mount, the cache they share with its byte counter, and the operator who *)
(* writes, replaces and removes files meanwhile.                           *)
(*                                                                         *)
(* A version of a file stands for what one write left in it; its stamp     *)
(* (modification time and length) tells versions apart, as the code        *)
(* assumes: an edit it cannot tell is outside the model. A write changes   *)
(* the file in place, a replacement gives the path a new inode. Every      *)
(* await of serve() is a step of its own, each read of read_to_end and     *)
(* each step on a shared atomic or map included. How a path resolves is    *)
(* abstracted to its outcome.                                              *)
(***************************************************************************)
EXTENDS Naturals, Sequences, FiniteSets, Sums

CONSTANTS SfRequests,  \* requests
          SfOf,        \* the file each request is for
          SfLen,       \* of each file, the lengths of its versions as written
          SfCap,       \* STATIC_CACHE_MAX_BYTES
          SfMax        \* MAX_STATIC_FILE_BYTES

ASSUME SfAssumption ==
    /\ SfCap \in Nat /\ SfMax \in Nat \ {0}
    /\ \A f \in DOMAIN SfLen : SfLen[f] \in Seq(Nat) \ {<<>>}
    /\ SfOf \in [SfRequests -> DOMAIN SfLen]
    /\ IsFiniteSet(SfRequests) /\ IsFiniteSet(DOMAIN SfLen)

SfFiles == DOMAIN SfLen
SfVersions(f) == DOMAIN SfLen[f]

VARIABLES sfInode,   \* the inode each path names; 0: no file there
          sfVer,     \* the version each inode of a file holds
          sfLast,    \* the versions written so far
          sfCache,   \* each entry: its bytes and the version of its stamp
          sfBytes,   \* cache_bytes
          sfReq,     \* each request: where it is, the stamp it took, the inode
                     \* it opened, what it has read, the bytes it has yet to
                     \* take off the counter
          sfSeen,    \* the versions (0: no file) the path had since it came
          sfAnswer   \* what it was answered: bytes, no file, or an error
sfFiles == <<sfInode, sfVer, sfLast>>
sfShared == <<sfCache, sfBytes>>
sfVars == <<sfFiles, sfShared, sfReq, sfSeen, sfAnswer>>

NoFile == [is |-> "none"]
Refused == [is |-> "error"]
File(bytes) == [is |-> "file", bytes |-> bytes]
(* Bytes read: the versions the first and the last read found, and how     *)
(* many they are.                                                          *)
NoBytes == [first |-> 0, last |-> 0, len |-> 0]
NoEntry == [bytes |-> NoBytes, stamp |-> 0]
At(step) == [at |-> step, stamp |-> 0, fd |-> 0, read |-> NoBytes, owed |-> 0]

SfOnDisk(f) == IF sfInode[f] = 0 THEN 0 ELSE sfVer[f][sfInode[f]]
LenOf(f, v) == IF v = 0 THEN 0 ELSE SfLen[f][v]
SfOpened(r) == sfVer[SfOf[r]][sfReq[r].fd]
(* What is read of a version: `take` caps a file that grew past the limit. *)
ReadOf(f, v) == IF LenOf(f, v) > SfMax THEN SfMax ELSE LenOf(f, v)
SfReadLen(r) == sfReq[r].read.len

SfInit ==
    /\ sfInode = [f \in SfFiles |-> 1]
    /\ sfVer = [f \in SfFiles |-> [i \in SfVersions(f) |-> 1]]
    /\ sfLast = [f \in SfFiles |-> 1]
    /\ sfCache = [f \in SfFiles |-> NoEntry] /\ sfBytes = 0
    /\ sfReq = [r \in SfRequests |-> At("idle")]
    /\ sfSeen = [r \in SfRequests |-> {}]
    /\ sfAnswer = [r \in SfRequests |-> NoFile]

-----------------------------------------------------------------------------
(* The operator.                                                           *)

SfSees(f, v) ==
    sfSeen' = [r \in SfRequests |->
                 IF SfOf[r] # f \/ sfReq[r].at \in {"idle", "answered"} THEN sfSeen[r]
                 ELSE sfSeen[r] \cup {v}]

(* The next version is written, to the inode the path has or to a new one. *)
SfWrites(f, inode) ==
    LET v == sfLast[f] + 1 IN
    /\ v \in SfVersions(f)
    /\ sfLast' = [sfLast EXCEPT ![f] = v]
    /\ sfInode' = [sfInode EXCEPT ![f] = inode]
    /\ sfVer' = [sfVer EXCEPT ![f][inode] = v]
    /\ SfSees(f, v)
    /\ UNCHANGED <<sfShared, sfReq, sfAnswer>>

SfWrite(f) == sfInode[f] # 0 /\ SfWrites(f, sfInode[f])
SfReplace(f) == sfLast[f] + 1 \in SfVersions(f) /\ SfWrites(f, sfLast[f] + 1)

SfRemoveFile(f) ==
    /\ sfInode[f] # 0
    /\ sfInode' = [sfInode EXCEPT ![f] = 0]
    /\ SfSees(f, 0)
    /\ UNCHANGED <<sfVer, sfLast, sfShared, sfReq, sfAnswer>>

-----------------------------------------------------------------------------
(* A request.                                                              *)

SfArrives(r) ==
    /\ sfReq[r].at = "idle"
    /\ sfReq' = [sfReq EXCEPT ![r].at = "resolve"]
    /\ sfSeen' = [sfSeen EXCEPT ![r] = {SfOnDisk(SfOf[r])}]
    /\ UNCHANGED <<sfFiles, sfShared, sfAnswer>>

SfGoesTo(r, step) == sfReq' = [sfReq EXCEPT ![r].at = step] /\ UNCHANGED sfAnswer

SfAnswers(r, a) ==
    /\ sfReq' = [sfReq EXCEPT ![r] = At("answered")]
    /\ sfAnswer' = [sfAnswer EXCEPT ![r] = a]

(* cache_remove: the entry is taken out, its bytes come off the counter    *)
(* afterwards; then no response, so the next mount or routing answers.     *)
SfDropsEntry(r) ==
    LET entry == sfCache[SfOf[r]] IN
    /\ sfCache' = [sfCache EXCEPT ![SfOf[r]] = NoEntry]
    /\ IF entry = NoEntry
       THEN SfAnswers(r, NoFile)
       ELSE /\ sfReq' = [sfReq EXCEPT ![r] =
                           [At("pays") EXCEPT !.owed = entry.bytes.len]]
            /\ UNCHANGED sfAnswer
    /\ UNCHANGED sfBytes

(* candidate_path and canonical_within: refused (an encoded NUL, `..`, a   *)
(* path outside the root), not there, or the canonical path.               *)
SfResolve(r) ==
    /\ sfReq[r].at = "resolve"
    /\ \/ SfAnswers(r, Refused) /\ UNCHANGED sfShared
       \/ sfInode[SfOf[r]] = 0 /\ SfDropsEntry(r)
       \/ sfInode[SfOf[r]] # 0 /\ SfGoesTo(r, "stat") /\ UNCHANGED sfShared
    /\ UNCHANGED <<sfFiles, sfSeen>>

(* tokio::fs::metadata: the stamp of the file the path has now; an error   *)
(* other than a missing file is answered (found).                          *)
SfStat(r) ==
    /\ sfReq[r].at = "stat"
    /\ \/ SfAnswers(r, Refused) /\ UNCHANGED sfShared
       \/ sfInode[SfOf[r]] = 0 /\ SfDropsEntry(r)
       \/ /\ sfInode[SfOf[r]] # 0
          /\ sfReq' = [sfReq EXCEPT ![r].at = "lookup", ![r].stamp = SfOnDisk(SfOf[r])]
          /\ UNCHANGED <<sfShared, sfAnswer>>
    /\ UNCHANGED <<sfFiles, sfSeen>>

(* Mutant: an entry is served whatever its stamp.                          *)
AnyEntry(r) == sfCache[SfOf[r]] # NoEntry

(* cached: the entry has the stamp the stat gave.                          *)
IsCurrent(r) == /\ sfCache[SfOf[r]] # NoEntry
                /\ sfCache[SfOf[r]].stamp = sfReq[r].stamp

SfLookup(r) ==
    /\ sfReq[r].at = "lookup"
    /\ IF IsCurrent(r) THEN SfAnswers(r, File(sfCache[SfOf[r]].bytes))
                       ELSE SfGoesTo(r, "open")
    /\ UNCHANGED <<sfFiles, sfShared, sfSeen>>

(* read_regular_file: the open; no file left, or one that became a symlink *)
(* or may not be read.                                                     *)
SfOpen(r) ==
    /\ sfReq[r].at = "open"
    /\ \/ sfInode[SfOf[r]] = 0 /\ SfAnswers(r, NoFile)
       \/ SfAnswers(r, Refused)
       \/ /\ sfInode[SfOf[r]] # 0
          /\ sfReq' = [sfReq EXCEPT ![r].at = "fstat", ![r].fd = sfInode[SfOf[r]]]
          /\ UNCHANGED sfAnswer
    /\ UNCHANGED <<sfFiles, sfShared, sfSeen>>

(* The open file's metadata: the size limit, and the stamp of the entry.   *)
SfFstat(r) ==
    /\ sfReq[r].at = "fstat"
    /\ IF LenOf(SfOf[r], SfOpened(r)) > SfMax
       THEN SfAnswers(r, Refused)
       ELSE /\ sfReq' = [sfReq EXCEPT ![r].at = "read", ![r].stamp = SfOpened(r),
                                      ![r].read = NoBytes]
            /\ UNCHANGED sfAnswer
    /\ UNCHANGED <<sfFiles, sfShared, sfSeen>>

(* What has been read after one more read, which found this version.       *)
Got(bytes, version, len) ==
    [first |-> IF bytes.first = 0 THEN version ELSE bytes.first, last |-> version, len |-> len]

(* One read of read_to_end: some of the bytes left of the version the      *)
(* inode has now, which a write since the fstat, or since the read before, *)
(* may have changed; or the read fails.                                    *)
SfReads(r) ==
    /\ sfReq[r].at = "read"
    /\ \/ SfAnswers(r, Refused)
       \/ \E len \in (SfReadLen(r) + 1) .. ReadOf(SfOf[r], SfOpened(r)) :
             /\ sfReq' = [sfReq EXCEPT ![r].read = Got(@, SfOpened(r), len)]
             /\ UNCHANGED sfAnswer
    /\ UNCHANGED <<sfFiles, sfShared, sfSeen>>

(* Mutant: the entry is stamped after the read.                            *)
StampAfterRead(r) ==
    /\ sfReq[r].at = "read"
    /\ SfReadLen(r) >= ReadOf(SfOf[r], SfOpened(r))
    /\ sfReq' = [sfReq EXCEPT ![r].at = "reserve", ![r].stamp = SfOpened(r),
                              ![r].read = IF @.len = SfMax THEN @ ELSE Got(@, SfOpened(r), @.len)]
    /\ UNCHANGED <<sfFiles, sfShared, sfSeen, sfAnswer>>

(* The read that finds the end: the version the inode has now has no more; *)
(* `take` ends the read at the limit without asking the file again.        *)
SfEof(r) ==
    /\ sfReq[r].at = "read"
    /\ SfReadLen(r) >= ReadOf(SfOf[r], SfOpened(r))
    /\ sfReq' = [sfReq EXCEPT ![r].at = "reserve",
                              ![r].read = IF @.len = SfMax THEN @ ELSE Got(@, SfOpened(r), @.len)]
    /\ UNCHANGED <<sfFiles, sfShared, sfSeen, sfAnswer>>

(* Mutant: the counter is checked here, and added to after the insert.     *)
ChecksOnly(r) ==
    /\ sfReq[r].at = "reserve"
    /\ IF sfBytes + SfReadLen(r) > SfCap THEN SfAnswers(r, File(sfReq[r].read))
                                        ELSE SfGoesTo(r, "insert")
    /\ UNCHANGED <<sfFiles, sfShared, sfSeen>>

(* cache_insert: reserve first, then check; past the cap the reservation   *)
(* is given back and the file is served uncached.                          *)
SfReserve(r) ==
    /\ sfReq[r].at = "reserve"
    /\ sfBytes' = sfBytes + SfReadLen(r)
    /\ IF sfBytes' > SfCap
       THEN sfReq' = [sfReq EXCEPT ![r].at = "pays", ![r].owed = SfReadLen(r)]
       ELSE sfReq' = [sfReq EXCEPT ![r].at = "insert"]
    /\ UNCHANGED <<sfFiles, sfCache, sfSeen, sfAnswer>>

(* Mutant: the entry replaced stays counted.                               *)
ForgetsReplaced(f) == 0

Replaced(f) == sfCache[f].bytes.len

(* The map's insert; the entry it replaced is taken off the counter.       *)
SfInsert(r) ==
    LET f == SfOf[r] IN
    /\ sfReq[r].at = "insert"
    /\ sfCache' = [sfCache EXCEPT ![f] = [bytes |-> sfReq[r].read, stamp |-> sfReq[r].stamp]]
    /\ sfReq' = [sfReq EXCEPT ![r] =
                    [At("pays") EXCEPT !.read = sfReq[r].read, !.owed = Replaced(f)]]
    /\ UNCHANGED <<sfFiles, sfBytes, sfSeen, sfAnswer>>

(* fetch_sub; the answer is the bytes read, or none after a cache_remove.  *)
SfPays(r) ==
    /\ sfReq[r].at = "pays"
    /\ sfBytes' = sfBytes - sfReq[r].owed
    /\ SfAnswers(r, IF sfReq[r].read.first = 0 THEN NoFile ELSE File(sfReq[r].read))
    /\ UNCHANGED <<sfFiles, sfCache, sfSeen>>

SfNext ==
    \/ \E f \in SfFiles : SfWrite(f) \/ SfReplace(f) \/ SfRemoveFile(f)
    \/ \E r \in SfRequests :
          \/ SfArrives(r) \/ SfResolve(r) \/ SfStat(r) \/ SfLookup(r) \/ SfOpen(r)
          \/ SfFstat(r) \/ SfReads(r) \/ SfEof(r) \/ SfReserve(r) \/ SfInsert(r) \/ SfPays(r)

SfSpec == SfInit /\ [][SfNext]_sfVars

-----------------------------------------------------------------------------
SfSteps == {"idle", "resolve", "stat", "lookup", "open", "fstat", "read", "reserve", "insert",
            "pays", "answered"}
SfContents(f) ==
    [first : SfVersions(f) \cup {0}, last : SfVersions(f) \cup {0}, len : Nat]
SfRecord(f) ==
    [at : SfSteps, stamp : SfVersions(f) \cup {0}, fd : SfVersions(f) \cup {0},
     read : SfContents(f), owed : Nat]

SfTypeOK ==
    /\ \A f \in SfFiles :
          /\ sfInode[f] \in SfVersions(f) \cup {0} /\ sfLast[f] \in SfVersions(f)
          /\ sfVer[f] \in [SfVersions(f) -> SfVersions(f)]
          /\ sfCache[f] \in [bytes : SfContents(f), stamp : SfVersions(f) \cup {0}]
    /\ sfBytes \in Nat
    /\ \A r \in SfRequests :
          sfReq[r] \in SfRecord(SfOf[r]) /\ sfSeen[r] \subseteq SfVersions(SfOf[r]) \cup {0}

(* Bytes that one version accounts for are that version whole.             *)
Whole(f, bytes) == bytes.first = bytes.last => bytes.len = ReadOf(f, bytes.first)

(* Bytes whose every piece is of a version in `seen`, in the order they    *)
(* were written.                                                           *)
SfHad(f, bytes, seen) ==
    /\ bytes.first # 0 /\ bytes.first <= bytes.last
    /\ \A v \in SfVersions(f) : bytes.first <= v /\ v <= bytes.last => v \in seen
    /\ Whole(f, bytes)

(* A request is answered with what its file held between its arrival and   *)
(* its answer, through the cache or not: one version whole (as much of it  *)
(* as the limit allows, if the file grew past it after the stat), or, when *)
(* the file was written in place while it was being read, pieces of the    *)
(* versions it had meanwhile. So an edit is never hidden by an entry, and  *)
(* such a torn read, though it is cached, is answered to no request that   *)
(* came after the write it straddles (static_fs.rs, serve and              *)
(* read_regular_file).                                                     *)
SfFresh ==
    \A r \in SfRequests :
       sfAnswer[r].is = "file" => SfHad(SfOf[r], sfAnswer[r].bytes, sfSeen[r])

(* The bytes cached, reserved by requests, and to be given back by them.   *)
SfCached == SumOver([f \in SfFiles |-> sfCache[f].bytes.len], SfFiles)
SfReserved ==
    SumOver([r \in SfRequests |-> IF sfReq[r].at = "insert" THEN SfReadLen(r) ELSE 0], SfRequests)
SfOwed == SumOver([r \in SfRequests |-> sfReq[r].owed], SfRequests)

(* The counter is the entries' bytes, plus what requests have reserved or  *)
(* not yet given back, so it neither drifts nor underflows, and the cached *)
(* bytes stay within the cap (static_fs.rs, cache_insert, cache_remove).   *)
SfAccounted ==
    /\ sfBytes = SfCached + SfReserved + SfOwed
    /\ SfCached <= SfCap

(* A file: what the path names is the last version; each inode i has had   *)
(* the versions i .. ver[i], and no other has.                             *)
SfDiskOK(inode, ver, last, vs) ==
    /\ inode \in vs \cup {0} /\ last \in vs /\ ver \in [vs -> vs]
    /\ inode # 0 => inode <= last /\ ver[inode] = last
    /\ \A i \in vs : ver[i] <= last
    /\ \A i, j, v \in vs : i <= v /\ v <= ver[i] /\ j <= v /\ v <= ver[j] => i = j

(* An entry: one inode had the versions of the stamp and of the bytes, in  *)
(* that order.                                                             *)
SfEntryOK(e, ver, f) ==
    \/ e = NoEntry
    \/ /\ e \in [bytes : SfContents(f), stamp : SfVersions(f)]
       /\ \E i \in SfVersions(f) : /\ i <= e.stamp /\ e.stamp <= e.bytes.first
                                   /\ e.bytes.first <= e.bytes.last /\ e.bytes.last <= ver[i]
       /\ Whole(f, e.bytes)

(* The versions an inode has had since a stamp have been seen.             *)
SfSince(stamp, i, seen, ver, f) ==
    \A v \in SfVersions(f) : stamp <= v /\ v <= ver[i] => v \in seen

(* What has been read so far, of the inode opened.                         *)
SfReading(q, ver, f) ==
    /\ q.read.len <= ReadOf(f, q.read.last)
    /\ \/ q.read = NoBytes
       \/ /\ q.stamp <= q.read.first /\ q.read.first <= q.read.last
          /\ q.read.last <= ver[q.fd]

(* A request: what it has seen, and of which inode what it has is.         *)
SfReqOK(q, seen, answer, ver, disk, f) ==
    /\ q.at # "answered" => answer = NoFile
    /\ answer.is = "file" => SfHad(f, answer.bytes, seen)
    /\ q.at \notin {"idle", "answered"} => disk \in seen
    /\ q.at = "lookup" =>
          \E i \in SfVersions(f) : /\ i <= q.stamp /\ q.stamp <= ver[i]
                                   /\ SfSince(q.stamp, i, seen, ver, f)
    /\ q.at = "fstat" => q.fd \in SfVersions(f) /\ q.fd <= ver[q.fd] /\ ver[q.fd] \in seen
    /\ q.at \in {"read", "reserve", "insert"} =>
          q.fd \in SfVersions(f) /\ q.fd <= q.stamp /\ q.stamp <= ver[q.fd]
    /\ q.at = "read" => SfSince(q.stamp, q.fd, seen, ver, f) /\ SfReading(q, ver, f)
    /\ q.at \in {"reserve", "insert"} =>
          q.stamp <= q.read.first /\ q.read.last <= ver[q.fd] /\ q.read.first # 0
    /\ q.at \in {"reserve", "insert", "pays"} /\ q.read.first # 0 => SfHad(f, q.read, seen)
    /\ q.at # "pays" => q.owed = 0

SfTypes ==
    /\ DOMAIN sfInode = SfFiles /\ DOMAIN sfVer = SfFiles /\ DOMAIN sfLast = SfFiles
    /\ DOMAIN sfCache = SfFiles /\ DOMAIN sfAnswer = SfRequests
    /\ DOMAIN sfReq = SfRequests /\ DOMAIN sfSeen = SfRequests
    /\ \A r \in SfRequests : sfReq[r] \in SfRecord(SfOf[r])
    /\ \A r \in SfRequests : sfSeen[r] \subseteq SfVersions(SfOf[r]) \cup {0}

(* The inductive invariant.                                                *)
SfIInv ==
    /\ SfTypes
    /\ \A f \in SfFiles : /\ SfDiskOK(sfInode[f], sfVer[f], sfLast[f], SfVersions(f))
                          /\ SfEntryOK(sfCache[f], sfVer[f], f)
    /\ \A r \in SfRequests : SfReqOK(sfReq[r], sfSeen[r], sfAnswer[r], sfVer[SfOf[r]],
                                     SfOnDisk(SfOf[r]), SfOf[r])
    /\ sfBytes = SfCached + SfReserved + SfOwed
    /\ SfCached + SfReserved <= SfCap

(* Answers are fresh and the cache's counter is exact.                     *)
SfSafe == SfTypeOK /\ SfFresh /\ SfAccounted
=============================================================================

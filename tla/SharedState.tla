---------------------------- MODULE SharedState -----------------------------
(***************************************************************************)
(* app.state (src/state.rs): one map per running app, seen by SharedState  *)
(* objects of every interpreter.  The objects of the model work on one     *)
(* key.  Its entry is locked while an operation has it (DashMap's shard    *)
(* lock); incr reads, parses, adds and writes under one lock.              *)
(***************************************************************************)
EXTENDS Integers

CONSTANTS
    ShObjects,  \* SharedState objects
    ShAppOf,    \* the object of its app that main made first: its own app's state
    ShInWorker, \* the objects made in a worker
    ShMin,      \* i64::MIN
    ShMax,      \* i64::MAX
    ShAmounts,  \* amounts of incr and decr
    ShOps,      \* bound: operations per object
    ShNobody    \* no object

ASSUME ShAssumption ==
    /\ ShAppOf \in [ShObjects -> ShObjects \ ShInWorker]
    /\ \A o \in ShObjects \ ShInWorker : ShAppOf[o] = o
    /\ ShMin \in Int /\ ShMax \in Int /\ ShMin < 0 /\ ShMax > 0
    /\ ShAmounts \subseteq ShMin .. ShMax
    /\ ShOps \in Nat
    /\ ShNobody \notin ShObjects

VARIABLES
    shMap,    \* the key's value in each map; a map is named by who made it
    shMapOf,  \* the map each object uses; ShNobody: not made
    shHanded, \* the worker interpreter has the running app's map (WORKER_MAP)
    shLock,   \* who holds the entry of each map
    shAt,     \* "idle", or "add": incr holds the entry
    shAmount, \* what that incr adds
    shDone,   \* operations the object has done
    shReply,  \* what the last one returned
    shWrites  \* the value each app's objects wrote last, whichever did

shVars == <<shMap, shMapOf, shHanded, shLock, shAt, shAmount, shDone, shReply, shWrites>>

ShAbsent == [kind |-> "absent", n |-> 0]
ShText == [kind |-> "text", n |-> 0]
ShRaw == [kind |-> "raw", n |-> 0]
ShNumber(n) == [kind |-> "int", n |-> n]
ShRaised(e) == [kind |-> e, n |-> 0]

ShInit ==
    /\ shMap = [o \in ShObjects |-> ShAbsent]
    /\ shMapOf = [o \in ShObjects |-> ShNobody]
    /\ shHanded = FALSE
    /\ shLock = [o \in ShObjects |-> ShNobody]
    /\ shAt = [o \in ShObjects |-> "idle"]
    /\ shAmount = [o \in ShObjects |-> 0]
    /\ shDone = [o \in ShObjects |-> 0]
    /\ shReply = [o \in ShObjects |-> ShAbsent]
    /\ shWrites = [o \in ShObjects |-> ShAbsent]

-----------------------------------------------------------------------------
(* Which map an object gets.                                               *)

(* hand_to_worker: prepare's first step.                                   *)
ShHands ==
    /\ ~shHanded /\ \E o \in ShObjects \ ShInWorker : shMapOf[o] # ShNobody
    /\ shHanded' = TRUE
    /\ UNCHANGED <<shMap, shMapOf, shLock, shAt, shAmount, shDone, shReply, shWrites>>

(* Mutant: the script may run before the map is handed over.               *)
ScriptFirst(o) == TRUE

(* A worker's script makes its objects after the map was handed.           *)
ShScriptRuns(o) == o \in ShInWorker => shHanded

(* map_for_new.                                                            *)
ShNew(o) ==
    /\ shMapOf[o] = ShNobody /\ ShScriptRuns(o)
    /\ shMapOf' = [shMapOf EXCEPT ![o] =
                       IF o \in ShInWorker /\ shHanded THEN ShAppOf[o] ELSE o]
    /\ UNCHANGED <<shMap, shHanded, shLock, shAt, shAmount, shDone, shReply, shWrites>>

-----------------------------------------------------------------------------
(* The operations.                                                         *)

ShHeld(o) == shLock[shMapOf[o]]

ShCalls(o) ==
    /\ shMapOf[o] # ShNobody /\ shAt[o] = "idle" /\ shDone[o] < ShOps
    /\ shDone' = [shDone EXCEPT ![o] = @ + 1]

ShReplies(o, r) == shReply' = [shReply EXCEPT ![o] = r]

ShStores(o, v) ==
    /\ shMap' = [shMap EXCEPT ![shMapOf[o]] = v]
    /\ shWrites' = [shWrites EXCEPT ![ShAppOf[o]] = v]

(* set, set_bytes, __setitem__.                                            *)
ShSet(o) ==
    /\ ShCalls(o) /\ ShHeld(o) = ShNobody
    /\ \E v \in {ShText, ShRaw, ShNumber(ShMax)} : ShStores(o, v)
    /\ ShReplies(o, ShAbsent)
    /\ UNCHANGED <<shMapOf, shHanded, shLock, shAt, shAmount>>

(* delete, __delitem__: whether the key was there.                         *)
ShDelete(o) ==
    /\ ShCalls(o) /\ ShHeld(o) = ShNobody
    /\ ShReplies(o, IF shMap[shMapOf[o]] = ShAbsent THEN ShRaised("KeyError") ELSE ShAbsent)
    /\ ShStores(o, ShAbsent)
    /\ UNCHANGED <<shMapOf, shHanded, shLock, shAt, shAmount>>

(* get_bytes, and get, [], values, items, which refuse what is not text.   *)
ShGet(o, asText) ==
    /\ ShCalls(o) /\ ShHeld(o) = ShNobody
    /\ LET v == shMap[shMapOf[o]]
       IN ShReplies(o, IF asText /\ v = ShRaw THEN ShRaised("TypeError") ELSE v)
    /\ UNCHANGED <<shMap, shMapOf, shHanded, shLock, shAt, shAmount, shWrites>>

(* Mutant: the entry is not held between the read and the write.           *)
EntersUnlocked(o) ==
    /\ ShHeld(o) = ShNobody
    /\ UNCHANGED shLock

ShEnters(o) ==
    /\ ShHeld(o) = ShNobody
    /\ shLock' = [shLock EXCEPT ![shMapOf[o]] = o]

(* decr is incr of the negated amount; i64::MIN has none.                  *)
ShDecrRefused(o) ==
    /\ ShCalls(o) /\ ShMin \in ShAmounts
    /\ ShReplies(o, ShRaised("OverflowError"))
    /\ UNCHANGED <<shMap, shMapOf, shHanded, shLock, shAt, shAmount, shWrites>>

(* incr: the entry, made "0" when missing, and its value.                  *)
ShIncr(o, amount) ==
    /\ ShCalls(o) /\ ShEnters(o)
    /\ shAt' = [shAt EXCEPT ![o] = "add"]
    /\ shAmount' = [shAmount EXCEPT ![o] = amount]
    /\ LET v == shMap[shMapOf[o]]
       IN ShReplies(o, IF v = ShAbsent THEN ShNumber(0) ELSE v)
    /\ UNCHANGED <<shMap, shMapOf, shHanded, shWrites>>

(* Mutant: the sum is not checked.                                         *)
FitsAlways(n) == TRUE

(* checked_add.                                                            *)
ShFits(n) == n \in ShMin .. ShMax

(* The rest of incr.  shReply holds the value it read.                     *)
ShAdds(o) ==
    /\ shAt[o] = "add"
    /\ shAt' = [shAt EXCEPT ![o] = "idle"]
    /\ shLock' = [shLock EXCEPT ![shMapOf[o]] = IF @ = o THEN ShNobody ELSE @]
    /\ LET read == shReply[o]
           sum == read.n + shAmount[o]
       IN CASE read.kind # "int" ->
                 ShReplies(o, ShRaised("TypeError")) /\ UNCHANGED <<shMap, shWrites>>
            [] read.kind = "int" /\ ~ShFits(sum) ->
                 ShReplies(o, ShRaised("OverflowError")) /\ UNCHANGED <<shMap, shWrites>>
            [] OTHER -> ShReplies(o, ShNumber(sum)) /\ ShStores(o, ShNumber(sum))
    /\ UNCHANGED <<shMapOf, shHanded, shAmount, shDone>>

-----------------------------------------------------------------------------
ShNext ==
    \/ ShHands
    \/ \E o \in ShObjects :
        \/ ShNew(o) \/ ShSet(o) \/ ShDelete(o) \/ ShAdds(o) \/ ShDecrRefused(o)
        \/ \E asText \in BOOLEAN : ShGet(o, asText)
        \/ \E amount \in ShAmounts : ShIncr(o, amount)

ShSpec == ShInit /\ [][ShNext]_shVars

-----------------------------------------------------------------------------
(* Every variable has its values; a stored number is an i64.               *)
ShTypeOK ==
    /\ shMapOf \in [ShObjects -> ShObjects \cup {ShNobody}]
    /\ shAt \in [ShObjects -> {"idle", "add"}]
    /\ shLock \in [ShObjects -> ShObjects \cup {ShNobody}]
    /\ \A o \in ShObjects :
        /\ shMap[o].kind \in {"absent", "text", "raw", "int"}
        /\ shMap[o].n \in ShMin .. ShMax

(* "a store every interpreter of one running app sees": the objects of an  *)
(* app, main's and the workers', see the value one of them wrote last.     *)
ShOneStore ==
    \A o \in ShObjects : shMapOf[o] # ShNobody =>
        shMap[shMapOf[o]] = shWrites[ShAppOf[o]]

(* "Atomic increment": an incr that succeeds adds its amount to the value  *)
(* the key has at that moment, whatever other objects do between its read  *)
(* and its write; one that fails changes nothing.                          *)
ShAtomic ==
    [][\A o \in ShObjects : shAt[o] = "add" /\ shAt'[o] = "idle" =>
        LET was == shMap[shMapOf[o]]
        IN shMap'[shMapOf[o]] =
            IF shReply'[o].kind = "int"
            THEN ShNumber((IF was = ShAbsent THEN 0 ELSE was.n) + shAmount[o])
            ELSE was]_shVars

(* What an operation returns: a value, or an exception.                    *)
ShResults ==
    [kind : {"absent", "text", "raw", "int", "KeyError", "TypeError", "OverflowError"},
     n : ShMin .. ShMax]

(* What makes these inductive.  A map is the one of its object's app, what *)
(* it holds is what was written last, and an incr that is under way has    *)
(* the entry and the value it holds.                                       *)
ShIInv ==
    /\ shMap \in [ShObjects -> [kind : {"absent", "text", "raw", "int"}, n : ShMin .. ShMax]]
    /\ shReply \in [ShObjects -> ShResults]
    /\ shAmount \in [ShObjects -> ShMin .. ShMax]
    /\ shWrites = shMap
    /\ \A o \in ShObjects :
          /\ shMapOf[o] # ShNobody => shMapOf[o] = ShAppOf[o]
          /\ shAt[o] = "add" =>
                /\ shMapOf[o] # ShNobody /\ shLock[shMapOf[o]] = o
                /\ LET v == shMap[shMapOf[o]]
                   IN shReply[o] = IF v = ShAbsent THEN ShNumber(0) ELSE v

(* One store per app, and atomic increments.                               *)
ShCorrect == [](ShTypeOK /\ ShOneStore) /\ ShAtomic
=============================================================================

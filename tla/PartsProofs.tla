----------------------------- MODULE PartsProofs -----------------------------
(***************************************************************************)
(* Theorems about the parts a request meets: the shared state, the thread  *)
(* states, compression, the hooks and the request's context, routing,      *)
(* responses and static files.                                             *)
(***************************************************************************)
EXTENDS SharedState, ThreadStates, Compression, HookChain, Routing, Responses, StaticFiles,
        SumTheorems, FiniteSetTheorems, SequenceTheorems, WellFoundedInduction, TLAPS

-----------------------------------------------------------------------------
(* Facts about numbers that need induction, from the well-foundedness of   *)
(* the order on Nat.                                                       *)

(* A set of natural numbers that is not empty has a least element.         *)
LEMMA Least == ASSUME NEW T, T \subseteq Nat, T # {}
               PROVE  \E x \in T : \A y \in T : x <= y
<1> DEFINE R == {ss \in Nat \X Nat : ss[1] < ss[2]}
<1>1. IsWellFoundedOn(R, Nat)
  BY NatLessThanWellFounded DEF OpToRel
<1> HIDE DEF R
<1>2. PICK x \in T : \A y \in T : ~(<<y, x>> \in R)
  BY <1>1, WFMin
<1>3. \A m, n \in Nat : <<n, m>> \in R <=> n < m
  BY DEF R
<1>4. ASSUME NEW y \in T PROVE x <= y
  <2>1. x \in Nat /\ y \in Nat
    OBVIOUS
  <2>2. ~(y < x)
    BY <1>2, <1>3, <2>1
  <2> QED BY <2>1, <2>2
<1> QED BY <1>4

(* Among finitely many numbers there is a greatest.                        *)
LEMMA Greatest ==
    ASSUME NEW n \in Nat, NEW f, \A i \in 1 .. n : f[i] \in Int,
           NEW J \in SUBSET (1 .. n), J # {}
    PROVE  \E j \in J : \A i \in J : f[i] <= f[j]
<1> DEFINE Has(K) == \E j \in K : \A i \in K : f[i] <= f[j]
           T == {m \in Nat : m <= n /\ \E K \in SUBSET (1 .. m) : K # {} /\ ~Has(K)}
<1>1. T = {}
  <2> SUFFICES ASSUME T # {} PROVE FALSE
    OBVIOUS
  <2>1. T \subseteq Nat
    OBVIOUS
  <2> HIDE DEF T
  <2>2. PICK m \in T : \A y \in T : m <= y
    BY <2>1, Least
  <2>3. /\ m \in Nat /\ m <= n
        /\ \E K \in SUBSET (1 .. m) : K # {} /\ ~Has(K)
    BY <2>2 DEF T
  <2>4. PICK K \in SUBSET (1 .. m) : K # {} /\ ~Has(K)
    BY <2>3
  <2>5. \A i \in K : i \in 1 .. m /\ f[i] \in Int
    BY <2>3, <2>4
  <2>6. m >= 1
    <3>1. PICK i \in K : i \in 1 .. m
      BY <2>4, <2>5
    <3> QED BY <2>3, <3>1
  <2>7. m - 1 \notin T
    BY <2>2, <2>3, <2>6
  <2>8. \A L \in SUBSET (1 .. m - 1) : L # {} => Has(L)
    BY <2>3, <2>6, <2>7 DEF T
  <2>9. m \in K
    <3> SUFFICES ASSUME m \notin K PROVE FALSE
      OBVIOUS
    <3>1. \A i \in K : i \in 1 .. m - 1
      BY <2>3, <2>5
    <3> QED BY <2>4, <2>8, <3>1
  <2> DEFINE L == K \ {m}
  <2>10. L \in SUBSET (1 .. m - 1)
    BY <2>3, <2>5
  <2>11. CASE L = {}
    <3>1. \A i \in K : i = m
      BY <2>11
    <3> QED BY <2>4, <2>5, <2>9, <3>1
  <2>12. CASE L # {}
    <3>1. PICK j \in L : \A i \in L : f[i] <= f[j]
      BY <2>8, <2>10, <2>12
    <3>2. f[j] \in Int /\ f[m] \in Int /\ j \in K
      BY <2>5, <2>9
    <3>3. CASE f[m] <= f[j]
      <4>1. \A i \in K : f[i] <= f[j]
        BY <3>1, <3>3
      <4> QED BY <2>4, <3>2, <4>1
    <3>4. CASE f[j] <= f[m]
      <4>1. ASSUME NEW i \in K PROVE f[i] <= f[m]
        BY <2>5, <3>1, <3>2, <3>4
      <4> QED BY <2>4, <2>9, <4>1
    <3> QED BY <3>2, <3>3, <3>4
  <2> QED BY <2>11, <2>12
<1>2. n \notin T
  BY <1>1
<1> QED BY <1>2

-----------------------------------------------------------------------------
(* The shared state.                                                       *)

ShInv == ShTypeOK /\ ShIInv

ShValues == [kind : {"absent", "text", "raw", "int"}, n : ShMin .. ShMax]

(* The values that are stored and replied are values.                      *)
LEMMA ShValueTypes ==
    /\ ShAbsent \in ShValues /\ ShText \in ShValues /\ ShRaw \in ShValues
    /\ \A n \in ShMin .. ShMax : ShNumber(n) \in ShValues
    /\ \A v \in ShValues : v \in ShResults
    /\ \A e \in {"KeyError", "TypeError", "OverflowError"} : ShRaised(e) \in ShResults
    /\ \A n : ShNumber(n).kind = "int" /\ ShNumber(n).n = n
    /\ \A e : ShRaised(e).kind = e
    /\ ShAbsent.kind = "absent"
<1>1. 0 \in ShMin .. ShMax
  BY ShAssumption
<1>2. /\ ShAbsent \in ShValues /\ ShText \in ShValues /\ ShRaw \in ShValues
      /\ \A n \in ShMin .. ShMax : ShNumber(n) \in ShValues
  BY <1>1 DEF ShAbsent, ShText, ShRaw, ShNumber, ShValues
<1>3. \A v \in ShValues : v \in ShResults
  BY DEF ShValues, ShResults
<1>4. \A e \in {"KeyError", "TypeError", "OverflowError"} : ShRaised(e) \in ShResults
  BY <1>1 DEF ShRaised, ShResults
<1>5. /\ \A n : ShNumber(n).kind = "int" /\ ShNumber(n).n = n
      /\ \A e : ShRaised(e).kind = e
      /\ ShAbsent.kind = "absent"
  BY DEF ShNumber, ShRaised, ShAbsent
<1> QED BY <1>2, <1>3, <1>4, <1>5

(* An operation that holds nothing: it reads, or it writes an entry no     *)
(* incr has.                                                               *)
LEMMA ShOperates ==
    ASSUME ShInv, NEW o \in ShObjects, ShCalls(o),
           NEW v \in ShValues,
           \/ UNCHANGED <<shMap, shWrites>>
           \/ ShHeld(o) = ShNobody /\ ShStores(o, v),
           NEW r \in ShResults, ShReplies(o, r),
           UNCHANGED <<shMapOf, shHanded, shLock, shAt, shAmount>>
    PROVE  ShInv'
<1>0. /\ shMap \in [ShObjects -> ShValues] /\ shReply \in [ShObjects -> ShResults]
      /\ shWrites = shMap /\ shAmount \in [ShObjects -> ShMin .. ShMax]
      /\ shMapOf[o] = ShAppOf[o] /\ ShAppOf[o] \in ShObjects /\ shAt[o] = "idle"
      /\ ShTypeOK /\ ShIInv
  BY ShAssumption DEF ShInv, ShIInv, ShTypeOK, ShValues, ShCalls
<1>1. shMap' \in [ShObjects -> ShValues] /\ shWrites' = shMap'
  BY <1>0 DEF ShStores
<1>2. /\ shReply' \in [ShObjects -> ShResults]
      /\ \A p \in ShObjects : p # o => shReply'[p] = shReply[p]
  BY <1>0 DEF ShReplies
<1>3. \A p \in ShObjects : shAt[p] = "add" => shMap'[shMapOf[p]] = shMap[shMapOf[p]]
  <2> SUFFICES ASSUME NEW p \in ShObjects, shAt[p] = "add"
               PROVE  shMap'[shMapOf[p]] = shMap[shMapOf[p]]
    OBVIOUS
  <2>1. shLock[shMapOf[p]] = p /\ p # ShNobody /\ shMapOf[p] \in ShObjects
    BY <1>0, ShAssumption DEF ShIInv
  <2>2. CASE UNCHANGED shMap
    BY <2>2
  <2>3. CASE ShHeld(o) = ShNobody /\ ShStores(o, v)
    <3>1. shMapOf[p] # shMapOf[o]
      BY <2>1, <2>3 DEF ShHeld
    <3> QED BY <1>0, <2>1, <2>3, <3>1 DEF ShStores
  <2> QED BY <2>2, <2>3
<1>4. \A p \in ShObjects : shAt'[p] = "add" => p # o
  BY <1>0
<1>5. ShTypeOK'
  <2>1. \A p \in ShObjects : shMap'[p].kind \in {"absent", "text", "raw", "int"}
                             /\ shMap'[p].n \in ShMin .. ShMax
    BY <1>1 DEF ShValues
  <2> QED BY <1>0, <2>1 DEF ShTypeOK
<1>6. ShIInv'
  BY <1>0, <1>1, <1>2, <1>3, <1>4 DEF ShIInv, ShValues
<1> QED BY <1>5, <1>6 DEF ShInv

(* The first half of an incr: it has the entry and its value.              *)
LEMMA ShIncrStep ==
    ASSUME ShInv, NEW o \in ShObjects, NEW amount \in ShAmounts, ShIncr(o, amount)
    PROVE  ShInv'
<1>0. /\ shMap \in [ShObjects -> ShValues] /\ shReply \in [ShObjects -> ShResults]
      /\ shWrites = shMap /\ shAmount \in [ShObjects -> ShMin .. ShMax]
      /\ shMapOf[o] = ShAppOf[o] /\ ShAppOf[o] \in ShObjects /\ shMapOf[o] # ShNobody
      /\ shAt \in [ShObjects -> {"idle", "add"}]
      /\ shLock \in [ShObjects -> ShObjects \cup {ShNobody}]
      /\ ShTypeOK /\ ShIInv /\ amount \in ShMin .. ShMax
  BY ShAssumption DEF ShInv, ShIInv, ShTypeOK, ShValues, ShCalls, ShIncr
<1> DEFINE v == shMap[shMapOf[o]]
           reply == IF v = ShAbsent THEN ShNumber(0) ELSE v
<1>1. /\ shLock[shMapOf[o]] = ShNobody /\ shLock' = [shLock EXCEPT ![shMapOf[o]] = o]
      /\ shAt' = [shAt EXCEPT ![o] = "add"] /\ shAmount' = [shAmount EXCEPT ![o] = amount]
      /\ shReply' = [shReply EXCEPT ![o] = reply]
      /\ UNCHANGED <<shMap, shMapOf, shHanded, shWrites>>
  BY DEF ShIncr, ShEnters, ShHeld, ShReplies
<1>2. reply \in ShResults
  <2>1. v \in ShValues /\ 0 \in ShMin .. ShMax
    BY <1>0, ShAssumption
  <2> QED BY <2>1, ShValueTypes
<1> HIDE DEF reply
<1>3. /\ shReply' \in [ShObjects -> ShResults] /\ shReply'[o] = reply
      /\ \A p \in ShObjects : p # o => shReply'[p] = shReply[p]
      /\ shAmount' \in [ShObjects -> ShMin .. ShMax]
      /\ shAt' \in [ShObjects -> {"idle", "add"}]
      /\ \A p \in ShObjects : p # o => shAt'[p] = shAt[p]
  BY <1>0, <1>1, <1>2
<1>4. /\ shLock' \in [ShObjects -> ShObjects \cup {ShNobody}] /\ shLock'[shMapOf[o]] = o
      /\ \A m \in ShObjects : m # shMapOf[o] => shLock'[m] = shLock[m]
  BY <1>0, <1>1
<1>5. \A p \in ShObjects : p # o /\ shAt[p] = "add" =>
            shMapOf[p] \in ShObjects /\ shMapOf[p] # shMapOf[o]
  BY <1>0, <1>1, ShAssumption DEF ShIInv, ShTypeOK
<1>6. ShTypeOK'
  BY <1>0, <1>1, <1>3, <1>4 DEF ShTypeOK
<1>7. \A p \in ShObjects : shAt'[p] = "add" =>
            /\ shMapOf[p] # ShNobody /\ shLock'[shMapOf[p]] = p
            /\ shReply'[p] = IF shMap[shMapOf[p]] = ShAbsent THEN ShNumber(0) ELSE shMap[shMapOf[p]]
  <2> TAKE p \in ShObjects
  <2>1. CASE p = o
    BY <1>0, <1>3, <1>4, <2>1 DEF reply
  <2>2. CASE p # o
    BY <1>0, <1>3, <1>4, <1>5, <2>2 DEF ShIInv
  <2> QED BY <2>1, <2>2
<1>8. ShIInv'
  BY <1>0, <1>1, <1>3, <1>7 DEF ShIInv
<1> QED BY <1>6, <1>8 DEF ShInv

(* The second half: the sum is of the value the entry still has.           *)
LEMMA ShAddsStep ==
    ASSUME ShInv, NEW o \in ShObjects, ShAdds(o)
    PROVE  /\ ShInv'
           /\ shMap'[shMapOf[o]] =
                IF shReply'[o].kind = "int"
                THEN ShNumber((IF shMap[shMapOf[o]] = ShAbsent THEN 0 ELSE shMap[shMapOf[o]].n)
                                + shAmount[o])
                ELSE shMap[shMapOf[o]]
           /\ \A p \in ShObjects : p # o => shAt'[p] = shAt[p]
<1> DEFINE m == shMapOf[o]
           v == shMap[m]
           read == shReply[o]
           sum == read.n + shAmount[o]
<1>0. /\ shMap \in [ShObjects -> ShValues] /\ shReply \in [ShObjects -> ShResults]
      /\ shWrites = shMap /\ shAmount \in [ShObjects -> ShMin .. ShMax]
      /\ shAt \in [ShObjects -> {"idle", "add"}] /\ shAt[o] = "add"
      /\ shLock \in [ShObjects -> ShObjects \cup {ShNobody}]
      /\ ShTypeOK /\ ShIInv
  BY DEF ShInv, ShIInv, ShTypeOK, ShValues, ShAdds
<1>1. /\ m = ShAppOf[o] /\ m \in ShObjects /\ m # ShNobody /\ shLock[m] = o
      /\ read = IF v = ShAbsent THEN ShNumber(0) ELSE v
  BY <1>0, ShAssumption DEF ShIInv
<1>2. /\ shAt' = [shAt EXCEPT ![o] = "idle"] /\ shLock' = [shLock EXCEPT ![m] = ShNobody]
      /\ UNCHANGED <<shMapOf, shHanded, shAmount>>
  BY <1>0, <1>1 DEF ShAdds
<1>3. /\ shAt' \in [ShObjects -> {"idle", "add"}] /\ shAt'[o] = "idle"
      /\ \A p \in ShObjects : p # o => shAt'[p] = shAt[p]
      /\ shLock' \in [ShObjects -> ShObjects \cup {ShNobody}]
      /\ \A k \in ShObjects : k # m => shLock'[k] = shLock[k]
  BY <1>0, <1>1, <1>2
<1>4. \A p \in ShObjects : p # o /\ shAt[p] = "add" => shMapOf[p] \in ShObjects /\ shMapOf[p] # m
  BY <1>0, <1>1, ShAssumption DEF ShIInv, ShTypeOK
<1>5. read.n = (IF v = ShAbsent THEN 0 ELSE v.n)
  BY <1>1, ShValueTypes
<1>6. ASSUME NEW w \in ShValues, NEW r \in ShResults,
             shMap' = [shMap EXCEPT ![m] = w], shWrites' = shMap',
             shReply' = [shReply EXCEPT ![o] = r]
      PROVE  ShInv' /\ shMap'[m] = w /\ shReply'[o] = r
  <2>1. /\ shMap' \in [ShObjects -> ShValues] /\ shMap'[m] = w
        /\ \A k \in ShObjects : k # m => shMap'[k] = shMap[k]
    BY <1>0, <1>1, <1>6
  <2>2. /\ shReply' \in [ShObjects -> ShResults] /\ shReply'[o] = r
        /\ \A p \in ShObjects : p # o => shReply'[p] = shReply[p]
    BY <1>0, <1>6
  <2>3. ShTypeOK'
    <3>1. \A p \in ShObjects : shMap'[p].kind \in {"absent", "text", "raw", "int"}
                               /\ shMap'[p].n \in ShMin .. ShMax
      BY <2>1 DEF ShValues
    <3> QED BY <1>0, <1>2, <1>3, <3>1 DEF ShTypeOK
  <2>4. ShIInv'
    BY <1>0, <1>2, <1>3, <1>4, <1>6, <2>1, <2>2 DEF ShIInv, ShValues
  <2> QED BY <2>1, <2>2, <2>3, <2>4 DEF ShInv
<1>7. CASE read.kind # "int" \/ ~ShFits(sum)
  <2>1. /\ UNCHANGED <<shMap, shWrites>>
        /\ \E e \in {"TypeError", "OverflowError"} : ShReplies(o, ShRaised(e))
    BY <1>7 DEF ShAdds
  <2>2. PICK e \in {"TypeError", "OverflowError"} : shReply' = [shReply EXCEPT ![o] = ShRaised(e)]
    BY <2>1 DEF ShReplies
  <2>3. shMap' = [shMap EXCEPT ![m] = v] /\ shWrites' = shMap' /\ v \in ShValues
        /\ ShRaised(e) \in ShResults /\ ShRaised(e).kind # "int"
    BY <1>0, <1>1, <2>1, ShValueTypes
  <2>4. ShInv' /\ shMap'[m] = v /\ shReply'[o] = ShRaised(e)
    BY <1>6, <2>2, <2>3
  <2> QED BY <1>3, <2>3, <2>4
<1>8. CASE read.kind = "int" /\ ShFits(sum)
  <2>1. ShReplies(o, ShNumber(sum)) /\ ShStores(o, ShNumber(sum))
    BY <1>8 DEF ShAdds
  <2>2. ShNumber(sum) \in ShValues /\ ShNumber(sum) \in ShResults
    BY <1>8, ShValueTypes DEF ShFits
  <2>3. /\ shMap' = [shMap EXCEPT ![m] = ShNumber(sum)] /\ shWrites' = shMap'
        /\ shReply' = [shReply EXCEPT ![o] = ShNumber(sum)]
    BY <1>0, <1>1, <2>1 DEF ShStores, ShReplies
  <2>4. ShInv' /\ shMap'[m] = ShNumber(sum) /\ shReply'[o] = ShNumber(sum)
    BY <1>6, <2>2, <2>3
  <2>5. ShNumber(sum) = ShNumber((IF v = ShAbsent THEN 0 ELSE v.n) + shAmount[o])
        /\ ShNumber(sum).kind = "int"
    BY <1>5, ShValueTypes
  <2> QED BY <1>3, <2>4, <2>5
<1> QED BY <1>7, <1>8

(* The invariant holds at the start and is kept by every step.             *)
LEMMA ShStart == ShInit => ShInv
<1> SUFFICES ASSUME ShInit PROVE ShInv
  OBVIOUS
<1>1. ShAbsent \in ShValues /\ ShAbsent \in ShResults /\ 0 \in ShMin .. ShMax
  BY ShValueTypes, ShAssumption
<1>2. ShTypeOK
  BY <1>1 DEF ShInit, ShTypeOK, ShValues
<1>3. ShIInv
  BY <1>1 DEF ShInit, ShIInv, ShValues
<1> QED BY <1>2, <1>3 DEF ShInv

(* Every operation of every object keeps it.                               *)
LEMMA ShStep == ShInv /\ [ShNext]_shVars => ShInv'
<1> SUFFICES ASSUME ShInv, [ShNext]_shVars PROVE ShInv'
  OBVIOUS
<1>0. /\ shMap \in [ShObjects -> ShValues] /\ ShTypeOK /\ ShIInv
      /\ \A o \in ShObjects : shMapOf[o] # ShNobody => shMapOf[o] \in ShObjects
  BY DEF ShInv, ShIInv, ShTypeOK, ShValues
<1>1. CASE UNCHANGED shVars
  BY <1>0, <1>1 DEF ShInv, ShTypeOK, ShIInv, shVars
<1>2. CASE ShHands
  BY <1>0, <1>2 DEF ShHands, ShInv, ShTypeOK, ShIInv
<1>3. ASSUME NEW o \in ShObjects, ShNew(o)
      PROVE  ShInv'
  <2>1. shMapOf' = [shMapOf EXCEPT ![o] = ShAppOf[o]] /\ shMapOf[o] = ShNobody
    BY <1>3, ShAssumption DEF ShNew, ShScriptRuns
  <2>2. shMapOf \in [ShObjects -> ShObjects \cup {ShNobody}] /\ ShAppOf[o] \in ShObjects
    BY <1>0, ShAssumption DEF ShTypeOK, ShIInv
  <2>3. shAt[o] # "add"
    BY <1>0, <2>1 DEF ShIInv
  <2>4. UNCHANGED <<shMap, shHanded, shLock, shAt, shAmount, shDone, shReply, shWrites>>
    BY <1>3 DEF ShNew
  <2>5. /\ shMapOf' \in [ShObjects -> ShObjects \cup {ShNobody}]
        /\ \A p \in ShObjects : p # o => shMapOf'[p] = shMapOf[p]
        /\ shMapOf'[o] = ShAppOf[o]
    BY <2>1, <2>2
  <2> QED BY <1>0, <2>5, <2>3, <2>4 DEF ShInv, ShTypeOK, ShIInv
<1>4. ASSUME NEW o \in ShObjects, ShSet(o)
      PROVE  ShInv'
  <2>1. PICK v \in {ShText, ShRaw, ShNumber(ShMax)} : ShStores(o, v)
    BY <1>4 DEF ShSet
  <2>2. v \in ShValues /\ ShAbsent \in ShResults
    BY <2>1, ShValueTypes, ShAssumption
  <2>3. /\ ShCalls(o) /\ ShHeld(o) = ShNobody /\ ShReplies(o, ShAbsent)
        /\ UNCHANGED <<shMapOf, shHanded, shLock, shAt, shAmount>>
    BY <1>4 DEF ShSet
  <2> QED BY <2>1, <2>2, <2>3, ShOperates
<1>5. ASSUME NEW o \in ShObjects, ShDelete(o)
      PROVE  ShInv'
  <2>1. /\ ShCalls(o) /\ ShHeld(o) = ShNobody /\ ShStores(o, ShAbsent)
        /\ UNCHANGED <<shMapOf, shHanded, shLock, shAt, shAmount>>
    BY <1>5 DEF ShDelete
  <2>2. ShAbsent \in ShValues /\ ShAbsent \in ShResults /\ ShRaised("KeyError") \in ShResults
    BY ShValueTypes
  <2>3. PICK r \in ShResults : ShReplies(o, r)
    BY <1>5, <2>2 DEF ShDelete
  <2> QED BY <2>1, <2>2, <2>3, ShOperates
<1>6. ASSUME NEW o \in ShObjects, NEW asText \in BOOLEAN, ShGet(o, asText)
      PROVE  ShInv'
  <2>1. /\ ShCalls(o) /\ UNCHANGED <<shMap, shWrites>>
        /\ UNCHANGED <<shMapOf, shHanded, shLock, shAt, shAmount>>
    BY <1>6 DEF ShGet
  <2>2. shMap[shMapOf[o]] \in ShValues
    BY <1>0, <2>1 DEF ShCalls
  <2>3. shMap[shMapOf[o]] \in ShResults /\ ShRaised("TypeError") \in ShResults
    BY <2>2, ShValueTypes
  <2>4. PICK r \in ShResults : ShReplies(o, r)
    BY <1>6, <2>3 DEF ShGet
  <2> QED BY <2>1, <2>2, <2>4, ShOperates
<1>7. ASSUME NEW o \in ShObjects, ShDecrRefused(o)
      PROVE  ShInv'
  <2>1. /\ ShCalls(o) /\ UNCHANGED <<shMap, shWrites>> /\ ShReplies(o, ShRaised("OverflowError"))
        /\ UNCHANGED <<shMapOf, shHanded, shLock, shAt, shAmount>>
    BY <1>7 DEF ShDecrRefused
  <2>2. ShRaised("OverflowError") \in ShResults /\ ShAbsent \in ShValues
    BY ShValueTypes
  <2> QED BY <2>1, <2>2, ShOperates
<1> QED BY <1>1, <1>2, <1>3, <1>4, <1>5, <1>6, <1>7, ShIncrStep, ShAddsStep DEF ShNext

(* For every set of objects, whatever operations race: the objects of an   *)
(* app see one store, and an incr adds to the value the key has at that    *)
(* moment or changes nothing (state.rs, incr and map_for_new).             *)
THEOREM SharedCorrect == ShSpec => ShCorrect
<1>1. ShInv => ShTypeOK /\ ShOneStore
  BY ShAssumption DEF ShInv, ShIInv, ShOneStore
<1> DEFINE Adds == \A o \in ShObjects : shAt[o] = "add" /\ shAt'[o] = "idle" =>
              LET was == shMap[shMapOf[o]]
              IN shMap'[shMapOf[o]] =
                  IF shReply'[o].kind = "int"
                  THEN ShNumber((IF was = ShAbsent THEN 0 ELSE was.n) + shAmount[o])
                  ELSE was
<1>2. ShInv /\ [ShNext]_shVars => [Adds]_shVars
  <2> SUFFICES ASSUME ShInv, ShNext, NEW o \in ShObjects, shAt[o] = "add", shAt'[o] = "idle"
               PROVE  shMap'[shMapOf[o]] =
                        IF shReply'[o].kind = "int"
                        THEN ShNumber((IF shMap[shMapOf[o]] = ShAbsent THEN 0
                                       ELSE shMap[shMapOf[o]].n) + shAmount[o])
                        ELSE shMap[shMapOf[o]]
    OBVIOUS
  <2>1. CASE ShAdds(o)
    BY <2>1, ShAddsStep
  <2>2. ASSUME NEW p \in ShObjects, p # o, ShAdds(p) \/ \E a \in ShAmounts : ShIncr(p, a)
        PROVE  FALSE
    BY <2>2, ShAddsStep DEF ShIncr, ShInv, ShTypeOK
  <2>3. ASSUME NEW a \in ShAmounts, ShIncr(o, a)
        PROVE  FALSE
    BY <2>3 DEF ShIncr, ShCalls
  <2>4. UNCHANGED shAt \/ \E p \in ShObjects : ShAdds(p) \/ \E a \in ShAmounts : ShIncr(p, a)
    BY DEF ShNext, ShHands, ShNew, ShSet, ShDelete, ShGet, ShDecrRefused
  <2> QED BY <2>1, <2>2, <2>3, <2>4
<1>3. ShSpec => []ShInv
  BY ShStart, ShStep, PTL DEF ShSpec
<1>4. ShSpec => [](ShTypeOK /\ ShOneStore)
  BY <1>1, <1>3, PTL
<1>5. ShSpec => ShAtomic
  BY <1>2, <1>3, PTL DEF ShSpec, ShAtomic
<1> QED BY <1>4, <1>5 DEF ShCorrect

-----------------------------------------------------------------------------
(* The thread states.                                                      *)

(* What the thread states and the threads are.                             *)
LEMMA TsFacts ==
    /\ TsMainState.interp = 0 /\ TsRtState.interp = 0 /\ Null.interp = TsNobody
    /\ \A w \in TsWorkers :
          /\ Creator(w).interp = w /\ Fresh(w).interp = w /\ Creator(w) # Fresh(w)
          /\ Creator(w) \in TsStates \ {Null} /\ Fresh(w) \in TsStates \ {Null}
          /\ w \in TsOsThreads /\ w # 0 /\ w # TsRt /\ w \in Int /\ w # TsNobody /\ w <= TsN
          /\ 1 <= w
    /\ TsMainState \in TsStates \ {Null} /\ TsRtState \in TsStates \ {Null} /\ Null \in TsStates
    /\ TsMainState # TsRtState
    /\ 0 \in TsOsThreads /\ TsRt \in TsOsThreads /\ TsRt # 0 /\ TsNobody # 0
    /\ \A t \in TsOsThreads : t = 0 \/ t = TsRt \/ t \in TsWorkers
    /\ \A i \in 1 .. TsN + 1 : i \in Int /\ (i <= TsN => i \in TsWorkers) /\ (i > TsN => i = TsN + 1)
    /\ TsN \in Int /\ TsN >= 1
<1>1. TsN \in Nat \ {0}
  BY TsAssumption
<1>2. /\ \A w \in TsWorkers : /\ w \in TsOsThreads /\ w # 0 /\ w # TsRt /\ w \in Int
                               /\ w # TsNobody /\ w <= TsN /\ 1 <= w
      /\ 0 \in TsOsThreads /\ TsRt \in TsOsThreads /\ TsRt # 0 /\ TsNobody # 0
      /\ \A t \in TsOsThreads : t = 0 \/ t = TsRt \/ t \in TsWorkers
      /\ \A i \in 1 .. TsN + 1 : i \in Int /\ (i <= TsN => i \in TsWorkers) /\ (i > TsN => i = TsN + 1)
      /\ TsN \in Int /\ TsN >= 1
  BY <1>1 DEF TsWorkers, TsOsThreads, TsRt, TsNobody
<1>3. /\ TsMainState.interp = 0 /\ TsRtState.interp = 0 /\ Null.interp = TsNobody
      /\ \A w \in TsWorkers : Creator(w).interp = w /\ Fresh(w).interp = w
  BY DEF TsMainState, TsRtState, Null, Creator, Fresh
<1>4. TsMainState # TsRtState /\ \A w \in TsWorkers : Creator(w) # Fresh(w)
  <2>1. TsMainState.kind # TsRtState.kind /\ \A w \in TsWorkers : Creator(w).kind # Fresh(w).kind
    BY DEF TsMainState, TsRtState, Creator, Fresh
  <2> QED BY <2>1
<1>5. /\ TsMainState \in TsStates /\ TsRtState \in TsStates /\ Null \in TsStates
      /\ \A w \in TsWorkers : Creator(w) \in TsStates /\ Fresh(w) \in TsStates
  BY DEF TsStates
<1>6. /\ TsMainState # Null /\ TsRtState # Null
      /\ \A w \in TsWorkers : Creator(w) # Null /\ Fresh(w) # Null
  BY <1>2, <1>3
<1> QED BY <1>2, <1>3, <1>4, <1>5, <1>6

(* Before the first interpreter is created nothing is held but main's GIL. *)
LEMMA TsStart == TsInit => TsIInv
<1> SUFFICES ASSUME TsInit PROVE TsIInv
  OBVIOUS
<1>1. TsTypes /\ TsPlaces
  <2>1. 1 \in 1 .. TsN + 1 /\ 1 \in 1 .. TsSteps
    BY TsAssumption
  <2>2. TsTypes
    BY <2>1, TsFacts DEF TsInit, TsTypes
  <2>3. TsPlaces
    BY TsFacts DEF TsInit, TsPlaces
  <2> QED BY <2>2, <2>3
<1>2. TsHolders
  BY TsFacts DEF TsInit, TsHolders
<1>3. TsOwned
  BY TsFacts DEF TsInit, TsOwned
<1>4. TsProgress
  BY TsFacts DEF TsInit, TsProgress, TsClearing
<1> QED BY <1>1, <1>2, <1>3, <1>4 DEF TsIInv

(* Each step of the building thread, of a worker's thread and of a runtime *)
(* thread keeps the invariant.                                             *)
LEMMA TsStep == TsIInv /\ [TsNext]_tsVars => TsIInv'
<1> SUFFICES ASSUME TsIInv, [TsNext]_tsVars, tsTpc' = tsTpc PROVE TsIInv'
  BY DEF TsNext, tsVars
<1> USE DEF TsIInv, tsState, tsWorker, tsBuild
<1>0. CASE UNCHANGED tsVars
  BY <1>0 DEF TsTypes, TsPlaces, TsHolders, TsOwned, TsProgress, tsVars
<1>1. CASE TsRefused
  <2>1. TsTypes'
    BY <1>1, TsFacts DEF TsRefused, Current, TsTypes, TsPlaces, TsProgress
  <2>2. TsPlaces'
    BY <1>1, TsFacts DEF TsRefused, Current, TsTypes, TsPlaces, TsClearing, TsHolders
  <2>3. TsHolders'
    BY <1>1, TsFacts DEF TsRefused, Current, TsTypes, TsPlaces, TsHolders, TsOwned, TsProgress,
       TsClearing
  <2>4. TsOwned'
    BY <1>1, TsFacts DEF TsRefused, Current, TsTypes, TsPlaces, TsOwned, TsProgress, TsClearing
  <2>5. TsProgress'
    BY <1>1, TsFacts DEF TsRefused, Current, TsTypes, TsPlaces, TsOwned, TsProgress, TsClearing
  <2> QED BY <2>1, <2>2, <2>3, <2>4, <2>5
<1>2. CASE TsCreated
  <2>1. TsTypes'
    BY <1>2, TsFacts, TsAssumption DEF TsCreated, Current, Runs, TsTypes, TsPlaces, TsProgress
  <2>2. TsPlaces'
    BY <1>2, TsFacts DEF TsCreated, Current, Runs, TsTypes, TsPlaces, TsClearing, TsHolders
  <2>3. TsHolders'
    BY <1>2, TsFacts DEF TsCreated, Current, Runs, TsTypes, TsPlaces, TsHolders, TsOwned,
       TsProgress, TsClearing
  <2>4. TsOwned'
    BY <1>2, TsFacts DEF TsCreated, Current, Runs, TsTypes, TsPlaces, TsOwned, TsProgress,
       TsClearing
  <2>5. TsProgress'
    BY <1>2, TsFacts DEF TsCreated, Current, Runs, TsTypes, TsPlaces, TsOwned, TsProgress,
       TsClearing
  <2> QED BY <2>1, <2>2, <2>3, <2>4, <2>5
<1>3. CASE TsInitStep
  <2>1. TsTypes'
    BY <1>3, TsFacts, TsAssumption DEF TsInitStep, TsTypes, TsPlaces, TsProgress
  <2>2. TsPlaces'
    BY <1>3, TsFacts DEF TsInitStep, TsTypes, TsPlaces, TsClearing, TsHolders
  <2>3. TsHolders'
    BY <1>3, TsFacts DEF TsInitStep, TsTypes, TsPlaces, TsHolders, TsOwned, TsProgress, TsClearing
  <2>4. TsOwned'
    BY <1>3, TsFacts DEF TsInitStep, TsTypes, TsPlaces, TsOwned, TsProgress, TsClearing
  <2>5. TsProgress'
    BY <1>3, TsFacts DEF TsInitStep, TsTypes, TsPlaces, TsOwned, TsProgress, TsClearing
  <2> QED BY <2>1, <2>2, <2>3, <2>4, <2>5
<1>4. CASE TsPrepared
  <2>1. TsTypes'
    BY <1>4, TsFacts DEF TsPrepared, Current, Runs, TsTypes, TsPlaces, TsProgress
  <2>2. TsPlaces'
    BY <1>4, TsFacts DEF TsPrepared, Current, Runs, TsTypes, TsPlaces, TsClearing, TsHolders
  <2>3. TsHolders'
    BY <1>4, TsFacts DEF TsPrepared, Current, Runs, TsTypes, TsPlaces, TsHolders, TsOwned,
       TsProgress, TsClearing
  <2>4. TsOwned'
    BY <1>4, TsFacts DEF TsPrepared, Current, Runs, TsTypes, TsPlaces, TsHolders, TsOwned,
       TsProgress, TsClearing
  <2>5. TsProgress'
    BY <1>4, TsFacts DEF TsPrepared, Current, Runs, TsTypes, TsPlaces, TsOwned, TsProgress,
       TsClearing
  <2> QED BY <2>1, <2>2, <2>3, <2>4, <2>5
<1>5. CASE TsInitFails
  <2>1. TsTypes'
    BY <1>5, TsFacts DEF TsInitFails, Current, Runs, OfOthers, TsTypes, TsPlaces, TsProgress
  <2>2. TsPlaces'
    BY <1>5, TsFacts DEF TsInitFails, Current, Runs, OfOthers, TsTypes, TsPlaces, TsClearing,
       TsHolders
  <2>3. TsHolders'
    BY <1>5, TsFacts DEF TsInitFails, Current, Runs, OfOthers, TsTypes, TsPlaces, TsHolders,
       TsOwned, TsProgress, TsClearing
  <2>4. TsOwned'
    BY <1>5, TsFacts DEF TsInitFails, Current, Runs, OfOthers, TsTypes, TsPlaces, TsOwned,
       TsProgress, TsClearing
  <2>5. TsProgress'
    BY <1>5, TsFacts DEF TsInitFails, Current, Runs, OfOthers, TsTypes, TsPlaces, TsOwned,
       TsProgress, TsClearing
  <2> QED BY <2>1, <2>2, <2>3, <2>4, <2>5
<1>6. CASE TsSwapsBack
  <2>1. TsTypes'
    BY <1>6, TsFacts DEF TsSwapsBack, Current, GilFree, TsTypes, TsPlaces, TsProgress
  <2>2. TsPlaces'
    BY <1>6, TsFacts DEF TsSwapsBack, Current, GilFree, TsTypes, TsPlaces, TsClearing, TsHolders
  <2>3. TsHolders'
    BY <1>6, TsFacts DEF TsSwapsBack, Current, GilFree, TsTypes, TsPlaces, TsHolders, TsOwned,
       TsProgress, TsClearing
  <2>4. TsOwned'
    BY <1>6, TsFacts DEF TsSwapsBack, Current, GilFree, TsTypes, TsPlaces, TsOwned, TsProgress,
       TsClearing
  <2>5. TsProgress'
    BY <1>6, TsFacts DEF TsSwapsBack, Current, GilFree, TsTypes, TsPlaces, TsOwned, TsProgress,
       TsClearing
  <2> QED BY <2>1, <2>2, <2>3, <2>4, <2>5
<1>7. CASE TsDetaches
  <2>1. TsTypes'
    BY <1>7, TsFacts DEF TsDetaches, Current, TsTypes, TsPlaces, TsProgress
  <2>2. TsPlaces'
    BY <1>7, TsFacts DEF TsDetaches, Current, TsTypes, TsPlaces, TsClearing, TsHolders
  <2>3. TsHolders'
    BY <1>7, TsFacts DEF TsDetaches, Current, TsTypes, TsPlaces, TsHolders, TsOwned,
       TsProgress, TsClearing
  <2>4. TsOwned'
    BY <1>7, TsFacts DEF TsDetaches, Current, TsTypes, TsPlaces, TsOwned, TsProgress, TsClearing
  <2>5. TsProgress'
    BY <1>7, TsFacts DEF TsDetaches, Current, TsTypes, TsPlaces, TsOwned, TsProgress, TsClearing
  <2> QED BY <2>1, <2>2, <2>3, <2>4, <2>5
<1>8. CASE TsSpawns
  <2>1. TsTypes'
    BY <1>8, TsFacts DEF TsSpawns, NextToSpawn, TsTypes, TsPlaces, TsProgress
  <2>2. TsPlaces'
    BY <1>8, TsFacts DEF TsSpawns, NextToSpawn, TsTypes, TsPlaces, TsClearing, TsHolders
  <2>3. TsHolders'
    BY <1>8, TsFacts DEF TsSpawns, NextToSpawn, TsTypes, TsPlaces, TsHolders, TsOwned,
       TsProgress, TsClearing
  <2>4. TsOwned'
    BY <1>8, TsFacts DEF TsSpawns, NextToSpawn, TsTypes, TsPlaces, TsOwned, TsProgress, TsClearing
  <2>5. TsProgress'
    BY <1>8, TsFacts DEF TsSpawns, NextToSpawn, TsTypes, TsPlaces, TsOwned, TsProgress, TsClearing
  <2> QED BY <2>1, <2>2, <2>3, <2>4, <2>5
<1>9. CASE TsSpawnFails
  <2>1. TsTypes'
    BY <1>9, TsFacts DEF TsSpawnFails, NextToSpawn, TsTypes, TsPlaces, TsProgress
  <2>2. TsPlaces'
    BY <1>9, TsFacts DEF TsSpawnFails, NextToSpawn, TsTypes, TsPlaces, TsClearing, TsHolders
  <2>3. TsHolders'
    BY <1>9, TsFacts DEF TsSpawnFails, NextToSpawn, TsTypes, TsPlaces, TsHolders, TsOwned,
       TsProgress, TsClearing
  <2>4. TsOwned'
    BY <1>9, TsFacts DEF TsSpawnFails, NextToSpawn, TsTypes, TsPlaces, TsOwned, TsProgress,
       TsClearing
  <2>5. TsProgress'
    BY <1>9, TsFacts DEF TsSpawnFails, NextToSpawn, TsTypes, TsPlaces, TsOwned, TsProgress,
       TsClearing
  <2> QED BY <2>1, <2>2, <2>3, <2>4, <2>5
<1>10. CASE TsServed
  <2>1. TsTypes'
    BY <1>10, TsFacts DEF TsServed, TsJoined, TsRunning, TsTypes, TsPlaces, TsProgress
  <2>2. TsPlaces'
    BY <1>10, TsFacts DEF TsServed, TsJoined, TsRunning, TsTypes, TsPlaces, TsClearing, TsHolders
  <2>3. TsHolders'
    BY <1>10, TsFacts DEF TsServed, TsJoined, TsRunning, TsTypes, TsPlaces, TsHolders, TsOwned, TsProgress, TsClearing
  <2>4. TsOwned'
    BY <1>10, TsFacts DEF TsServed, TsJoined, TsRunning, TsTypes, TsPlaces, TsOwned, TsProgress, TsClearing
  <2>5. TsProgress'
    BY <1>10, TsFacts DEF TsServed, TsJoined, TsRunning, TsTypes, TsPlaces, TsOwned, TsProgress, TsClearing
  <2> QED BY <2>1, <2>2, <2>3, <2>4, <2>5
<1>11. CASE TsEndAllNext
  <2>1. TsTypes'
    BY <1>11, TsFacts DEF TsEndAllNext, ToEnd, TsTypes, TsPlaces, TsProgress
  <2>2. TsPlaces'
    BY <1>11, TsFacts DEF TsEndAllNext, ToEnd, TsTypes, TsPlaces, TsClearing, TsHolders
  <2>3. TsHolders'
    BY <1>11, TsFacts DEF TsEndAllNext, ToEnd, TsTypes, TsPlaces, TsHolders, TsOwned,
       TsProgress, TsClearing
  <2>4. TsOwned'
    BY <1>11, TsFacts DEF TsEndAllNext, ToEnd, TsTypes, TsPlaces, TsOwned, TsProgress, TsClearing
  <2>5. TsProgress'
    <3>1. /\ tsPc = "endall" /\ tsPc' = "endall" /\ tsW' = tsW + 1 /\ tsW <= TsN
          /\ tsW \in Int /\ \A w \in TsWorkers : w \in Int
          /\ UNCHANGED <<tsState, tsWorker, tsFailed, tsDetached, tsSaved, tsAt>>
      BY <1>11, TsFacts DEF TsEndAllNext, TsTypes
    <3>2. ~(tsInterp[tsW] = "live" /\ tsAt[tsW] = "off")
      BY <1>11 DEF TsEndAllNext, ToEnd
    <3>3. tsFailed
      BY <3>1, TsFacts DEF TsProgress, TsClearing
    <3>4. \A w \in TsWorkers : w < tsW' /\ tsAt[w] = "off" => tsInterp[w] # "live"
      <4>1. \A w \in TsWorkers : w < tsW /\ tsAt[w] = "off" => tsInterp[w] # "live"
        BY <3>1, <3>3 DEF TsProgress, TsClearing
      <4>2. \A w \in TsWorkers : w < tsW' => w < tsW \/ w = tsW
        BY <3>1
      <4> QED BY <3>2, <4>1, <4>2
    <3> QED BY <3>1, <3>3, <3>4, TsFacts DEF TsProgress, TsClearing
  <2> QED BY <2>1, <2>2, <2>3, <2>4, <2>5
<1>12. CASE TsEndAllEnters
  <2>1. TsTypes'
    BY <1>12, TsFacts DEF TsEndAllEnters, ToEnd, EntersToEnd, Current, Runs, GilFree, TsTypes,
       TsPlaces, TsProgress
  <2>2. TsPlaces'
    BY <1>12, TsFacts DEF TsEndAllEnters, ToEnd, EntersToEnd, Current, Runs, GilFree, TsTypes,
       TsPlaces, TsClearing, TsHolders
  <2>3. TsHolders'
    BY <1>12, TsFacts DEF TsEndAllEnters, ToEnd, EntersToEnd, Current, Runs, GilFree, TsTypes,
       TsPlaces, TsHolders, TsOwned, TsProgress, TsClearing
  <2>4. TsOwned'
    BY <1>12, TsFacts DEF TsEndAllEnters, ToEnd, EntersToEnd, Current, Runs, GilFree, TsTypes,
       TsPlaces, TsOwned, TsProgress, TsClearing
  <2>5. TsProgress'
    BY <1>12, TsFacts DEF TsEndAllEnters, ToEnd, EntersToEnd, Current, Runs, GilFree, TsTypes,
       TsPlaces, TsHolders, TsOwned, TsProgress, TsClearing
  <2> QED BY <2>1, <2>2, <2>3, <2>4, <2>5
<1>13. CASE TsEndAllEnds
  <2>1. TsTypes'
    BY <1>13, TsFacts DEF TsEndAllEnds, ReleasesAndEnds, OfOthers, Current, Runs, TsTypes,
       TsPlaces, TsProgress
  <2>2. TsPlaces'
    BY <1>13, TsFacts DEF TsEndAllEnds, ReleasesAndEnds, OfOthers, Current, Runs, TsTypes,
       TsPlaces, TsClearing, TsHolders
  <2>3. TsHolders'
    BY <1>13, TsFacts DEF TsEndAllEnds, ReleasesAndEnds, OfOthers, Current, Runs, TsTypes,
       TsPlaces, TsHolders, TsOwned, TsProgress, TsClearing
  <2>4. TsOwned'
    BY <1>13, TsFacts DEF TsEndAllEnds, ReleasesAndEnds, OfOthers, Current, Runs, TsTypes,
       TsPlaces, TsOwned, TsProgress, TsClearing
  <2>5. TsProgress'
    BY <1>13, TsFacts DEF TsEndAllEnds, ReleasesAndEnds, OfOthers, Current, Runs, TsTypes,
       TsPlaces, TsOwned, TsProgress, TsClearing
  <2> QED BY <2>1, <2>2, <2>3, <2>4, <2>5
<1>14. CASE TsEndAllBack
  <2>1. TsTypes'
    BY <1>14, TsFacts DEF TsEndAllBack, Current, GilFree, TsTypes, TsPlaces, TsProgress
  <2>2. TsPlaces'
    BY <1>14, TsFacts DEF TsEndAllBack, Current, GilFree, TsTypes, TsPlaces, TsClearing, TsHolders
  <2>3. TsHolders'
    BY <1>14, TsFacts DEF TsEndAllBack, Current, GilFree, TsTypes, TsPlaces, TsHolders,
       TsOwned, TsProgress, TsClearing
  <2>4. TsOwned'
    BY <1>14, TsFacts DEF TsEndAllBack, Current, GilFree, TsTypes, TsPlaces, TsOwned,
       TsProgress, TsClearing
  <2>5. TsProgress'
    <3>1. tsPc = "back" /\ tsPc' = "endall" /\ UNCHANGED <<tsLive, tsWorker, tsFailed, tsAt>>
      BY <1>14 DEF TsEndAllBack
    <3>2. CASE tsFailed
      <4>1. tsW' = tsW + 1 /\ tsW <= TsN
        BY <1>14, <3>1, <3>2 DEF TsEndAllBack, TsProgress, TsClearing
      <4>2. \A w \in TsWorkers : w < tsW' /\ tsAt[w] = "off" => tsInterp[w] # "live"
        <5>1. \A w \in TsWorkers : (w < tsW \/ w = tsW) /\ tsAt[w] = "off" => tsInterp[w] # "live"
          BY <3>1, <3>2 DEF TsProgress, TsClearing
        <5>2. tsW \in Int /\ \A w \in TsWorkers : w \in Int
          BY TsFacts DEF TsTypes
        <5> HIDE DEF TsIInv
        <5> QED BY <4>1, <5>1, <5>2
      <4> QED BY <3>1, <3>2, <4>2, TsFacts DEF TsProgress, TsClearing
    <3>3. CASE ~tsFailed
      <4>1. /\ tsW' = TsN + 1
            /\ \A w \in TsWorkers : tsAt[w] # "off" /\ (tsTpc => tsAt[w] = "gone")
        BY <1>14, <3>1, <3>3 DEF TsEndAllBack, TsProgress, TsClearing
      <4> QED BY <3>1, <3>3, <4>1, TsFacts DEF TsProgress, TsClearing
    <3> QED BY <3>2, <3>3
  <2> QED BY <2>1, <2>2, <2>3, <2>4, <2>5
<1>15. CASE TsReturns
  <2>1. TsTypes'
    BY <1>15, TsFacts DEF TsReturns, TsJoined, TsRunning, TsTypes, TsPlaces, TsProgress
  <2>2. TsPlaces'
    BY <1>15, TsFacts DEF TsReturns, TsJoined, TsRunning, TsTypes, TsPlaces, TsClearing, TsHolders
  <2>3. TsHolders'
    BY <1>15, TsFacts DEF TsReturns, TsJoined, TsRunning, TsTypes, TsPlaces, TsHolders, TsOwned, TsProgress, TsClearing
  <2>4. TsOwned'
    BY <1>15, TsFacts DEF TsReturns, TsJoined, TsRunning, TsTypes, TsPlaces, TsOwned, TsProgress, TsClearing
  <2>5. TsProgress'
    BY <1>15, TsFacts DEF TsReturns, TsJoined, TsRunning, TsTypes, TsPlaces, TsOwned, TsProgress, TsClearing
  <2> QED BY <2>1, <2>2, <2>3, <2>4, <2>5
<1>16. ASSUME NEW w \in TsWorkers, TsBinds(w) PROVE TsIInv'
  <2>1. TsTypes'
    BY <1>16, TsFacts DEF TsBinds, Rebinds, GilFree, TsTypes, TsPlaces, TsProgress
  <2>2. TsPlaces'
    BY <1>16, TsFacts DEF TsBinds, Rebinds, GilFree, TsTypes, TsPlaces, TsClearing, TsHolders
  <2>3. TsHolders'
    BY <1>16, TsFacts DEF TsBinds, Rebinds, GilFree, TsTypes, TsPlaces, TsHolders, TsOwned,
       TsProgress, TsClearing
  <2>4. TsOwned'
    BY <1>16, TsFacts DEF TsBinds, Rebinds, GilFree, TsTypes, TsPlaces, TsOwned, TsProgress,
       TsClearing
  <2>5. TsProgress'
    BY <1>16, TsFacts DEF TsBinds, Rebinds, GilFree, TsTypes, TsPlaces, TsOwned, TsProgress,
       TsClearing
  <2> QED BY <2>1, <2>2, <2>3, <2>4, <2>5
<1>17. ASSUME NEW w \in TsWorkers, TsCalls(w) PROVE TsIInv'
  <2>1. TsTypes'
    BY <1>17, TsFacts DEF TsCalls, Current, Runs, GilFree, TsTypes, TsPlaces, TsProgress
  <2>2. TsPlaces'
    BY <1>17, TsFacts DEF TsCalls, Current, Runs, GilFree, TsTypes, TsPlaces, TsClearing,
       TsHolders
  <2>3. TsHolders'
    BY <1>17, TsFacts DEF TsCalls, Current, Runs, GilFree, TsTypes, TsPlaces, TsHolders,
       TsOwned, TsProgress, TsClearing
  <2>4. TsOwned'
    BY <1>17, TsFacts DEF TsCalls, Current, Runs, GilFree, TsTypes, TsPlaces, TsOwned,
       TsProgress, TsClearing
  <2>5. TsProgress'
    BY <1>17, TsFacts DEF TsCalls, Current, Runs, GilFree, TsTypes, TsPlaces, TsOwned,
       TsProgress, TsClearing
  <2> QED BY <2>1, <2>2, <2>3, <2>4, <2>5
<1>18. ASSUME NEW w \in TsWorkers, TsCallEnds(w) PROVE TsIInv'
  <2>1. TsTypes'
    BY <1>18, TsFacts DEF TsCallEnds, Current, Runs, TsTypes, TsPlaces, TsProgress
  <2>2. TsPlaces'
    BY <1>18, TsFacts DEF TsCallEnds, Current, Runs, TsTypes, TsPlaces, TsClearing, TsHolders
  <2>3. TsHolders'
    BY <1>18, TsFacts DEF TsCallEnds, Current, Runs, TsTypes, TsPlaces, TsHolders, TsOwned,
       TsProgress, TsClearing
  <2>4. TsOwned'
    BY <1>18, TsFacts DEF TsCallEnds, Current, Runs, TsTypes, TsPlaces, TsHolders, TsOwned,
       TsProgress, TsClearing
  <2>5. TsProgress'
    BY <1>18, TsFacts DEF TsCallEnds, Current, Runs, TsTypes, TsPlaces, TsOwned, TsProgress,
       TsClearing
  <2> QED BY <2>1, <2>2, <2>3, <2>4, <2>5
<1>19. ASSUME NEW w \in TsWorkers, TsEndsOwn(w) PROVE TsIInv'
  <2>1. TsTypes'
    BY <1>19, TsFacts DEF TsEndsOwn, EntersToEnd, Current, Runs, GilFree, TsTypes, TsPlaces,
       TsProgress
  <2>2. TsPlaces'
    BY <1>19, TsFacts DEF TsEndsOwn, EntersToEnd, Current, Runs, GilFree, TsTypes, TsPlaces,
       TsClearing, TsHolders
  <2>3. TsHolders'
    BY <1>19, TsFacts DEF TsEndsOwn, EntersToEnd, Current, Runs, GilFree, TsTypes, TsPlaces,
       TsHolders, TsOwned, TsProgress, TsClearing
  <2>4. TsOwned'
    BY <1>19, TsFacts DEF TsEndsOwn, EntersToEnd, Current, Runs, GilFree, TsTypes, TsPlaces,
       TsOwned, TsProgress, TsClearing
  <2>5. TsProgress'
    BY <1>19, TsFacts DEF TsEndsOwn, EntersToEnd, Current, Runs, GilFree, TsTypes, TsPlaces,
       TsOwned, TsProgress, TsClearing
  <2> QED BY <2>1, <2>2, <2>3, <2>4, <2>5
<1>20. ASSUME NEW w \in TsWorkers, TsEndedOwn(w) PROVE TsIInv'
  <2>1. TsTypes'
    BY <1>20, TsFacts DEF TsEndedOwn, ReleasesAndEnds, OfOthers, Current, Runs, TsTypes,
       TsPlaces, TsProgress
  <2>2. TsPlaces'
    BY <1>20, TsFacts DEF TsEndedOwn, ReleasesAndEnds, OfOthers, Current, Runs, TsTypes,
       TsPlaces, TsClearing, TsHolders
  <2>3. TsHolders'
    BY <1>20, TsFacts DEF TsEndedOwn, ReleasesAndEnds, OfOthers, Current, Runs, TsTypes,
       TsPlaces, TsHolders, TsOwned, TsProgress, TsClearing
  <2>4. TsOwned'
    BY <1>20, TsFacts DEF TsEndedOwn, ReleasesAndEnds, OfOthers, Current, Runs, TsTypes,
       TsPlaces, TsOwned, TsProgress, TsClearing
  <2>5. TsProgress'
    BY <1>20, TsFacts DEF TsEndedOwn, ReleasesAndEnds, OfOthers, Current, Runs, TsTypes,
       TsPlaces, TsOwned, TsProgress, TsClearing
  <2> QED BY <2>1, <2>2, <2>3, <2>4, <2>5
<1>21. CASE TsRtAttaches
  <2>1. TsTypes'
    BY <1>21, TsFacts DEF TsRtAttaches, Current, Runs, GilFree, TsTypes, TsPlaces, TsProgress
  <2>2. TsPlaces'
    BY <1>21, TsFacts DEF TsRtAttaches, Current, Runs, GilFree, TsTypes, TsPlaces, TsClearing,
       TsHolders
  <2>3. TsHolders'
    BY <1>21, TsFacts DEF TsRtAttaches, Current, Runs, GilFree, TsTypes, TsPlaces, TsHolders,
       TsOwned, TsProgress, TsClearing
  <2>4. TsOwned'
    BY <1>21, TsFacts DEF TsRtAttaches, Current, Runs, GilFree, TsTypes, TsPlaces, TsOwned,
       TsProgress, TsClearing
  <2>5. TsProgress'
    BY <1>21, TsFacts DEF TsRtAttaches, Current, Runs, GilFree, TsTypes, TsPlaces, TsOwned,
       TsProgress, TsClearing
  <2> QED BY <2>1, <2>2, <2>3, <2>4, <2>5
<1>22. CASE TsRtDetaches
  <2>1. TsTypes'
    BY <1>22, TsFacts DEF TsRtDetaches, Current, Runs, TsTypes, TsPlaces, TsProgress
  <2>2. TsPlaces'
    BY <1>22, TsFacts DEF TsRtDetaches, Current, Runs, TsTypes, TsPlaces, TsClearing, TsHolders
  <2>3. TsHolders'
    BY <1>22, TsFacts DEF TsRtDetaches, Current, Runs, TsTypes, TsPlaces, TsHolders, TsOwned,
       TsProgress, TsClearing
  <2>4. TsOwned'
    BY <1>22, TsFacts DEF TsRtDetaches, Current, Runs, TsTypes, TsPlaces, TsOwned, TsProgress,
       TsClearing
  <2>5. TsProgress'
    BY <1>22, TsFacts DEF TsRtDetaches, Current, Runs, TsTypes, TsPlaces, TsOwned, TsProgress,
       TsClearing
  <2> QED BY <2>1, <2>2, <2>3, <2>4, <2>5
<1>23. CASE TsRtEnds
  <2>1. TsTypes'
    BY <1>23, TsFacts DEF TsRtEnds, GilFree, TsTypes, TsPlaces, TsProgress
  <2>2. TsPlaces'
    BY <1>23, TsFacts DEF TsRtEnds, GilFree, TsTypes, TsPlaces, TsClearing, TsHolders
  <2>3. TsHolders'
    BY <1>23, TsFacts DEF TsRtEnds, GilFree, TsTypes, TsPlaces, TsHolders, TsOwned, TsProgress,
       TsClearing
  <2>4. TsOwned'
    BY <1>23, TsFacts DEF TsRtEnds, GilFree, TsTypes, TsPlaces, TsOwned, TsProgress, TsClearing
  <2>5. TsProgress'
    BY <1>23, TsFacts DEF TsRtEnds, GilFree, TsTypes, TsPlaces, TsOwned, TsProgress, TsClearing
  <2> QED BY <2>1, <2>2, <2>3, <2>4, <2>5
<1> QED
  BY <1>0, <1>1, <1>2, <1>3, <1>4, <1>5, <1>6, <1>7, <1>8, <1>9, <1>10, <1>11, <1>12, <1>13, <1>14,
     <1>15, <1>16, <1>17, <1>18, <1>19, <1>20, <1>21, <1>22, <1>23 DEF TsNext

(* What the invariant gives: one holder per GIL, the right interpreter     *)
(* current, main's thread state back, nothing left.                        *)
LEMMA TsGives == TsIInv => TsSafe
<1> SUFFICES ASSUME TsIInv PROVE TsSafe
  OBVIOUS
<1> USE DEF TsIInv
<1>0. tsPc \in {"init", "ending"} => tsW \in TsWorkers
  BY TsFacts DEF TsTypes, TsProgress
<1>1. /\ \A w \in TsWorkers :
            \/ tsCurrent[w] = Null /\ tsRuns[w] = TsNobody
            \/ /\ tsCurrent[w].interp = w /\ tsRuns[w] = w
               /\ tsCurrent[w] \in tsLive /\ tsAt[w] # "off"
      /\ \/ tsCurrent[TsRt] = Null /\ tsRuns[TsRt] = TsNobody
         \/ /\ tsCurrent[TsRt] = TsRtState /\ tsRuns[TsRt] = 0
            /\ TsRtState \in tsLive /\ tsCurrent[0] # TsMainState
      /\ \/ tsCurrent[0] \in {Null, TsMainState} /\ tsRuns[0] = TsNobody
         \/ /\ tsW \in TsWorkers /\ tsAt[tsW] = "off"
            /\ tsCurrent[0].interp = tsW /\ tsRuns[0] = tsW /\ tsCurrent[0] \in tsLive
  BY <1>0, TsFacts DEF TsPlaces, TsHolders, TsOwned, TsProgress, TsClearing
<1>2. TsOneHolder
  BY <1>1, TsFacts DEF TsOneHolder
<1>3. TsRightInterpreter
  BY <1>1, TsFacts DEF TsRightInterpreter
<1>4. TsMainRestored
  BY DEF TsMainRestored, TsHolders
<1>5. TsNoneLeft
  <2> DEFINE lost == {w \in TsWorkers : tsAt[w] = "lost"}
             kept == lost \cup {w \in TsWorkers : TsRunning(w)}
  <2> SUFFICES ASSUME tsPc = "over"
               PROVE  /\ Cardinality(lost) <= 1 /\ (tsTpc => kept = {})
                      /\ \A w \in TsWorkers \ kept :
                            tsInterp[w] \in {"none", "ended"} /\ tsRole[w] # "held"
                      /\ tsLive \subseteq {TsMainState, TsRtState} \cup {tsTstate[w] : w \in kept}
                      /\ tsRtAt = "gone" => TsRtState \notin tsLive
    BY DEF TsNoneLeft
  <2>1. \A v, w \in lost : v = w
    BY DEF TsProgress
  <2>2. Cardinality(lost) <= 1
    <3>1. CASE lost = {}
      BY <3>1, FS_EmptySet
    <3>2. CASE lost # {}
      <4>1. PICK v : lost = {v}
        BY <2>1, <3>2
      <4> QED BY <4>1, FS_Singleton
    <3> QED BY <3>1, <3>2
  <2>3. \A w \in TsWorkers \ kept : tsInterp[w] \in {"none", "ended"} /\ tsRole[w] # "held"
    BY TsFacts DEF TsRunning, TsTypes, TsPlaces, TsOwned, TsProgress, TsClearing
  <2>4. ASSUME NEW s \in tsLive
        PROVE  s \in {TsMainState, TsRtState} \cup {tsTstate[w] : w \in kept}
    <3>1. CASE s \in {TsMainState, TsRtState}
      BY <3>1
    <3>2. CASE s \notin {TsMainState, TsRtState}
      <4>1. PICK w \in TsWorkers : s.interp = w
        BY <3>2, TsFacts DEF TsTypes, TsStates
      <4>2. tsInterp[w] = "live" /\ s = tsTstate[w]
        BY <4>1 DEF TsOwned
      <4>3. w \in kept
        BY <2>3, <4>2
      <4> QED BY <4>2, <4>3
    <3> QED BY <3>1, <3>2
  <2>5. tsTpc => kept = {}
    BY DEF TsRunning, TsProgress
  <2> QED BY <2>2, <2>3, <2>4, <2>5 DEF TsOwned
<1> QED BY <1>2, <1>3, <1>4, <1>5 DEF TsSafe, TsTypeOK

(* pool.rs and worker.rs, build and teardown: for every number of workers  *)
(* and of init steps, whichever step fails, a thread has the GIL of the    *)
(* interpreter it works in and of no other, the building thread comes back *)
(* to main's, and when run() returns all that was created is freed but the *)
(* one worker a failed spawn lost and those whose thread still runs after  *)
(* a pool's join gave up on it.                                            *)
THEOREM TsCorrect == TsSpec => []TsSafe
<1>1. TsInit => TsIInv
  BY TsStart
<1>2. TsIInv /\ [TsNext]_tsVars => TsIInv'
  BY TsStep
<1>3. TsIInv => TsSafe
  BY TsGives
<1> QED BY <1>1, <1>2, <1>3, PTL DEF TsSpec

-----------------------------------------------------------------------------
(* Compression.                                                            *)

(* A codec that is wanted was listed with a q above zero, or not listed    *)
(* and covered by the wildcard.                                            *)
LEMMA CoWantsSays ==
    ASSUME NEW accept \in Seq(CoElements), NEW c, CoWants(accept, c)
    PROVE  LET says(d) == \E i \in DOMAIN accept : accept[i].name = d /\ accept[i].q > 0
               names(d) == \E i \in DOMAIN accept : accept[i].name = d /\ accept[i].q >= 0
           IN says(c) \/ (~names(c) /\ says("*"))
<1> DEFINE J(d) == {j \in DOMAIN accept : accept[j].name = d}
           qs(d) == {accept[i].q : i \in J(d)}
<1>1. DOMAIN accept = 1 .. Len(accept) /\ Len(accept) \in Nat
      /\ \A i \in DOMAIN accept : accept[i].q \in Int
  <2>1. DOMAIN accept = 1 .. Len(accept) /\ Len(accept) \in Nat
        /\ \A i \in DOMAIN accept : accept[i] \in CoElements
    OBVIOUS
  <2>2. \A e \in CoElements : e.q \in Int
    BY DEF CoElements
  <2> QED BY <2>1, <2>2
<1>2. ASSUME NEW d, J(d) # {}
      PROVE  \E i \in J(d) : CoQ(accept, d) = accept[i].q /\ \A j \in J(d) : accept[j].q <= accept[i].q
  <2> DEFINE f == [i \in DOMAIN accept |-> accept[i].q]
             q == CHOOSE x \in qs(d) : \A p \in qs(d) : p <= x
  <2>1. PICK j \in J(d) : \A i \in J(d) : f[i] <= f[j]
    <3>1. \A i \in 1 .. Len(accept) : f[i] \in Int
      BY <1>1
    <3>2. J(d) \in SUBSET (1 .. Len(accept))
      BY <1>1
    <3> HIDE DEF f, J
    <3> QED BY <1>1, <1>2, <3>1, <3>2, Greatest
  <2>2. accept[j].q \in qs(d) /\ \A p \in qs(d) : p <= accept[j].q
    BY <2>1
  <2>3. q \in qs(d) /\ \A p \in qs(d) : p <= q
    BY <2>2
  <2>4. qs(d) # {}
    BY <2>2
  <2>5. CoQ(accept, d) = q
    BY <2>4 DEF CoQ
  <2> QED BY <2>3, <2>5
<1>3. \A d : J(d) = {} => CoQ(accept, d) = -1
  BY DEF CoQ
<1>4. \A d : CoQ(accept, d) > 0 => \E i \in DOMAIN accept : accept[i].name = d /\ accept[i].q > 0
  <2> SUFFICES ASSUME NEW d, CoQ(accept, d) > 0
               PROVE  \E i \in DOMAIN accept : accept[i].name = d /\ accept[i].q > 0
    OBVIOUS
  <2>1. J(d) # {}
    BY <1>3
  <2> QED BY <1>2, <2>1
<1>5. \A d : CoQ(accept, d) < 0 => ~\E i \in DOMAIN accept : accept[i].name = d /\ accept[i].q >= 0
  <2> SUFFICES ASSUME NEW d, CoQ(accept, d) < 0,
                      NEW i \in DOMAIN accept, accept[i].name = d, accept[i].q >= 0
               PROVE  FALSE
    OBVIOUS
  <2>1. i \in J(d)
    OBVIOUS
  <2>2. PICK k \in J(d) : CoQ(accept, d) = accept[k].q /\ \A j \in J(d) : accept[j].q <= accept[k].q
    BY <1>2, <2>1
  <2>3. accept[i].q <= accept[k].q /\ accept[i].q \in Int /\ accept[k].q \in Int
    BY <1>1, <2>1, <2>2
  <2> QED BY <2>2, <2>3
<1>6. CASE CoQ(accept, c) < 0
  BY <1>4, <1>5, <1>6 DEF CoWants
<1>7. CASE ~(CoQ(accept, c) < 0)
  BY <1>4, <1>7 DEF CoWants
<1> QED BY <1>6, <1>7

(* What a plan with a codec says of the request and the settings.          *)
LEMMA CoPlanMeans ==
    ASSUME NEW data, NEW accept, NEW s, Plan(data, accept, s) # "none"
    PROVE  /\ s.on /\ ~data.encoded
           /\ Plan(data, accept, s) \in s.codings
           /\ CoWants(accept, Plan(data, accept, s))
           /\ Plan(data, accept, s) \in {"br", "gzip"}
<1>1. Plan(data, accept, s) = Negotiate(accept, s.codings) /\ s.on /\ ~data.encoded
  BY DEF Plan
<1>2. Negotiate(accept, s.codings) # "none"
  BY <1>1
<1>3. LET n == Negotiate(accept, s.codings)
      IN n \in s.codings /\ CoWants(accept, n) /\ n \in {"br", "gzip"}
  BY <1>2 DEF Negotiate
<1> QED BY <1>1, <1>3

(* A plan is one of the codecs the module has, or none.                    *)
LEMMA CoPlanCodecs == \A data, accept, s : Plan(data, accept, s) \in {"none", "br", "gzip"}
BY DEF Plan, Negotiate

(* The Vary lines that go out name Accept-Encoding.                        *)
LEMMA CoVariedNames ==
    ASSUME NEW lines \in Seq(CoLines)
    PROVE  \E i \in DOMAIN Varied(lines) : NamesAcceptEncoding(Varied(lines)[i])
<1>1. CASE \E i \in DOMAIN lines : NamesAcceptEncoding(lines[i])
  BY <1>1 DEF Varied
<1>2. CASE /\ ~\E i \in DOMAIN lines : NamesAcceptEncoding(lines[i])
           /\ Len(lines) = 1 /\ "odd" \notin lines[1]
  <2>1. Varied(lines) = <<lines[1] \cup {"ae"}>>
    BY <1>2 DEF Varied
  <2>2. NamesAcceptEncoding(lines[1] \cup {"ae"})
    BY <1>2 DEF NamesAcceptEncoding
  <2>3. \A x : 1 \in DOMAIN <<x>> /\ <<x>>[1] = x
    OBVIOUS
  <2> QED BY <2>1, <2>2, <2>3
<1>3. CASE /\ ~\E i \in DOMAIN lines : NamesAcceptEncoding(lines[i])
           /\ ~(Len(lines) = 1 /\ "odd" \notin lines[1])
  <2>1. Varied(lines) = Append(lines, {"ae"})
    BY <1>3 DEF Varied
  <2>2. {"ae"} \in CoLines
    BY DEF CoLines
  <2>3. Len(lines) + 1 \in DOMAIN Append(lines, {"ae"}) /\ Append(lines, {"ae"})[Len(lines) + 1] = {"ae"}
    BY <2>2
  <2> QED BY <2>1, <2>3 DEF NamesAcceptEncoding
<1> QED BY <1>1, <1>2, <1>3

(* The two kinds of response.                                              *)
LEMMA CoResponses ==
    /\ \A d : CoPlain(d).body = CoNoBuf /\ CoPlain(d).coding = "none" /\ CoPlain(d).vary = d.vary
    /\ \A b, a, l : LET c == CoCompressed(b, a, l)
                   IN c.body = b /\ c.coding = a /\ ~c.length /\ c.vary = Varied(l)
BY DEF CoPlain, CoCompressed

(* With every buffer in the pool the invariant holds.                      *)
LEMMA CoStart == CoInit => CoIInv
<1> SUFFICES ASSUME CoInit PROVE CoIInv
  OBVIOUS
<1>1. CoTypeOK
  BY CoAssumption DEF CoInit, CoTypeOK, IsInjective
<1>2. CoTypes
  <2>1. CoBlank.big = FALSE /\ <<>> \in Seq(CoReqs)
    BY DEF CoBlank
  <2>2. DOMAIN coOut = CoReqs /\ DOMAIN coHolds = CoReqs
    BY DEF CoInit
  <2>3. coAlgo \in [CoReqs -> {"none", "br", "gzip"}] /\ coPool \in Seq(CoReqs)
        /\ \A r \in CoReqs : coAsked[r] \in CoOffered[r]
    BY <2>1 DEF CoInit
  <2>4. \A b \in CoReqs : coHolds[b].big \in BOOLEAN
    BY <2>1 DEF CoInit
  <2> QED BY <2>2, <2>3, <2>4 DEF CoTypes
<1>3. CoOneOwner
  BY CoAssumption DEF CoInit, CoOneOwner
<1>4. CoPlaced
  BY CoAssumption DEF CoInit, CoPlaced, CoWork
<1> QED BY <1>1, <1>2, <1>3, <1>4 DEF CoIInv

(* Taking the last buffer of the pool, and giving one back.                *)
LEMMA CoPoolTakes ==
    ASSUME CoIInv, coPool # <<>>
    PROVE  /\ Last(coPool) \in CoReqs /\ Front(coPool) \in Seq(CoReqs)
           /\ Len(Front(coPool)) <= CoSlots
           /\ \A i \in DOMAIN Front(coPool) :
                 /\ i \in DOMAIN coPool /\ Front(coPool)[i] = coPool[i]
                 /\ Front(coPool)[i] # Last(coPool)
           /\ \A r \in CoReqs : Last(coPool) # coBuf[r]
<1>1. coPool \in Seq(CoReqs) /\ Len(coPool) \in Nat /\ Len(coPool) >= 1
  BY DEF CoIInv, CoTypes
<1>2. Len(coPool) \in DOMAIN coPool /\ Last(coPool) = coPool[Len(coPool)] /\ Last(coPool) \in CoReqs
  BY <1>1 DEF Last
<1>3. /\ Front(coPool) \in Seq(CoReqs) /\ Len(Front(coPool)) = Len(coPool) - 1
      /\ DOMAIN Front(coPool) = 1 .. Len(coPool) - 1
      /\ \A i \in DOMAIN Front(coPool) : Front(coPool)[i] = coPool[i]
  <2> DEFINE f == SubSeq(coPool, 1, Len(coPool) - 1)
  <2>1. 1 \in Int /\ Len(coPool) - 1 \in Int /\ \A i \in 1 .. Len(coPool) - 1 : coPool[i] \in CoReqs
    BY <1>1
  <2>2. /\ f \in Seq(CoReqs) /\ Len(f) = IF 1 <= Len(coPool) - 1 THEN Len(coPool) - 1 - 1 + 1 ELSE 0
        /\ \A i \in 1 .. Len(coPool) - 1 - 1 + 1 : f[i] = coPool[1 + i - 1]
    BY <2>1, SubSeqProperties
  <2> HIDE DEF f
  <2>3. Len(f) = Len(coPool) - 1 /\ DOMAIN f = 1 .. Len(coPool) - 1
    <3>1. \A n \in Nat : n >= 1 => (IF 1 <= n - 1 THEN n - 1 - 1 + 1 ELSE 0) = n - 1
      OBVIOUS
    <3>2. Len(f) = Len(coPool) - 1
      BY <1>1, <2>2, <3>1
    <3>3. DOMAIN f = 1 .. Len(f)
      BY <2>2
    <3> QED BY <3>2, <3>3
  <2>4. \A i \in DOMAIN f : f[i] = coPool[i]
    BY <1>1, <2>2, <2>3
  <2> QED BY <2>2, <2>3, <2>4 DEF f, Front
<1>4. \A i \in DOMAIN Front(coPool) : i \in DOMAIN coPool /\ i # Len(coPool)
  BY <1>1, <1>3
<1>5. \A i \in DOMAIN Front(coPool) : Front(coPool)[i] # Last(coPool)
  BY <1>2, <1>3, <1>4 DEF CoIInv, CoTypeOK, IsInjective
<1>6. Len(Front(coPool)) <= CoSlots
  BY <1>1, <1>3, CoAssumption DEF CoIInv, CoTypeOK
<1>7. \A r \in CoReqs : Last(coPool) # coBuf[r]
  BY <1>2 DEF CoIInv, CoOneOwner
<1> QED BY <1>2, <1>3, <1>4, <1>5, <1>6, <1>7

(* A buffer that comes back is in the pool once.                           *)
LEMMA CoPoolGiven ==
    ASSUME CoIInv, NEW r \in CoReqs, coBuf[r] # CoNoBuf, NEW big \in BOOLEAN
    PROVE  LET p == PoolWith(coBuf[r], big)
           IN /\ p \in Seq(CoReqs) /\ Len(p) <= CoSlots /\ IsInjective(p)
              /\ \A i \in DOMAIN p :
                    \/ p[i] = coBuf[r] /\ ~big
                    \/ i \in DOMAIN coPool /\ p[i] = coPool[i] /\ p[i] # coBuf[r]
<1> DEFINE b == coBuf[r]
           p == PoolWith(b, big)
<1>1. coPool \in Seq(CoReqs) /\ b \in CoReqs /\ Len(coPool) \in Nat /\ Len(coPool) <= CoSlots
      /\ \A i \in DOMAIN coPool : coPool[i] # b
  BY DEF CoIInv, CoTypes, CoTypeOK, CoOneOwner
<1>2. \A i, j \in DOMAIN coPool : coPool[i] = coPool[j] => i = j
  BY DEF CoIInv, CoTypeOK, IsInjective
<1> HIDE DEF b
<1>3. CASE ~big /\ Len(coPool) < CoSlots
  <2>1. p = Append(coPool, b)
    BY <1>3 DEF PoolWith
  <2>2. /\ p \in Seq(CoReqs) /\ Len(p) = Len(coPool) + 1
        /\ \A i \in DOMAIN p : (i = Len(coPool) + 1 /\ p[i] = b) \/ (i \in DOMAIN coPool /\ p[i] = coPool[i])
    BY <1>1, <2>1
  <2>3. Len(p) <= CoSlots
    BY <1>1, <1>3, <2>2, CoAssumption
  <2> HIDE DEF p
  <2>4. IsInjective(p)
    BY <1>1, <1>2, <2>2 DEF IsInjective
  <2> QED BY <1>1, <1>3, <2>2, <2>3, <2>4 DEF b, p
<1>4. CASE ~(~big /\ Len(coPool) < CoSlots)
  <2>1. p = coPool
    BY <1>4 DEF PoolWith
  <2> HIDE DEF p
  <2>2. IsInjective(p)
    BY <1>2, <2>1 DEF IsInjective
  <2> QED BY <1>1, <2>1, <2>2 DEF b, p
<1> QED BY <1>3, <1>4

(* Every step of every request keeps the invariant.                        *)
LEMMA CoStep == CoIInv /\ [CoNext]_coVars => CoIInv'
<1> SUFFICES ASSUME CoIInv, [CoNext]_coVars PROVE CoIInv'
  OBVIOUS
<1>0. CASE UNCHANGED coVars
  BY <1>0 DEF CoIInv, CoTypeOK, CoTypes, CoOneOwner, CoPlaced, coVars, Plan, RunsInline
<1>a. CoTypeOK /\ CoTypes /\ CoOneOwner /\ CoPlaced
  BY DEF CoIInv
<1>b. CoNoBuf \notin CoReqs
  BY CoAssumption
<1>c. CoLeft["run"] = "left_run" /\ CoLeft["write"] = "left_write"
  BY DEF CoLeft
<1>1. ASSUME NEW r \in CoReqs, CoPlans(r) PROVE CoIInv'
  <2> DEFINE algo == Plan(coAsked[r].data, coAsked[r].accept, coSettings)
  <2>1. /\ coPc[r] = "answered" /\ coPc' = [coPc EXCEPT ![r] = IF algo = "none" THEN "sending" ELSE "run"]
        /\ coAlgo' = [coAlgo EXCEPT ![r] = algo]
        /\ (coJobs' = coJobs \/ coJobs' = coJobs \cup {r})
        /\ UNCHANGED <<coSettings, coAsked, coBuf, coHolds, coPool, coOut>>
    BY <1>1 DEF CoPlans
  <2>2. algo \in {"none", "br", "gzip"}
    BY CoPlanCodecs
  <2>3. CoTypeOK' /\ CoTypes' /\ CoOneOwner'
    BY <1>a, <2>1, <2>2 DEF CoTypeOK, CoTypes, CoOneOwner
  <2>4. CoPlaced'
    BY <1>a, <2>1, <2>2 DEF CoPlaced, CoTypeOK, CoTypes, CoWork
  <2> QED BY <2>3, <2>4 DEF CoIInv
<1>2. ASSUME NEW r \in CoReqs, CoClientLeaves(r) PROVE CoIInv'
  <2>1. /\ coPc[r] \in {"run", "write"}
        /\ coPc' = [coPc EXCEPT ![r] = IF coPc[r] = "run" THEN "left_run" ELSE "left_write"]
        /\ UNCHANGED <<coSettings, coAsked, coAlgo, coJobs, coBuf, coHolds, coPool, coOut>>
    BY <1>2, <1>c DEF CoClientLeaves
  <2>2. CoTypeOK' /\ CoTypes' /\ CoOneOwner'
    BY <1>a, <2>1 DEF CoTypeOK, CoTypes, CoOneOwner
  <2>3. CoPlaced'
    BY <1>a, <2>1 DEF CoPlaced, CoTypeOK, CoTypes, CoWork
  <2> QED BY <2>2, <2>3 DEF CoIInv
<1>3. ASSUME NEW r \in CoReqs, CoTakesBuf(r) PROVE CoIInv'
  <2>1. /\ coPc[r] \in {"run", "left_run"} /\ coBuf[r] = CoNoBuf
        /\ coPc' = [coPc EXCEPT ![r] = IF coPc[r] = "run" THEN "write" ELSE "left_write"]
        /\ UNCHANGED <<coSettings, coAsked, coAlgo, coJobs, coOut>>
    BY <1>3, <1>a, <1>c DEF CoTakesBuf, CoAt, CoPlaced
  <2>2. PICK b \in CoReqs :
          /\ coBuf' = [coBuf EXCEPT ![r] = b] /\ coPool' \in Seq(CoReqs) /\ Len(coPool') <= CoSlots
          /\ \A s \in CoReqs : coBuf[s] # b
          /\ \A i \in DOMAIN coPool' : i \in DOMAIN coPool /\ coPool'[i] = coPool[i] /\ coPool'[i] # b
    <3>1. CASE coPool # <<>>
      BY <1>3, <3>1, CoPoolTakes DEF CoTakesBuf
    <3>2. CASE coPool = <<>>
      <4>1. PICK b \in CoFree : coBuf' = [coBuf EXCEPT ![r] = b]
        BY <1>3, <3>2 DEF CoTakesBuf
      <4>2. b \in CoReqs /\ \A s \in CoReqs : coBuf[s] # b
        BY <4>1 DEF CoFree
      <4>3. coPool' = <<>> /\ <<>> \in Seq(CoReqs) /\ Len(<<>>) = 0 /\ DOMAIN <<>> = {}
        BY <1>3, <3>2 DEF CoTakesBuf
      <4>4. coPool' \in Seq(CoReqs) /\ Len(coPool') <= CoSlots /\ DOMAIN coPool' = {}
        BY <4>3, CoAssumption
      <4> QED BY <4>1, <4>2, <4>4
    <3> QED BY <3>1, <3>2
  <2>3. coBuf'[r] = b /\ \A s \in CoReqs : s # r => coBuf'[s] = coBuf[s]
    BY <1>a, <2>2 DEF CoTypeOK
  <2>4. coHolds' = [coHolds EXCEPT ![b] = CoBlank]
    BY <1>3, <2>3 DEF CoTakesBuf
  <2>5. /\ DOMAIN coHolds' = CoReqs /\ coHolds'[b] = CoBlank /\ CoBlank.big = FALSE
        /\ \A c \in CoReqs : c # b => coHolds'[c] = coHolds[c]
    BY <1>a, <2>2, <2>4 DEF CoTypes, CoBlank
  <2>6. \A i \in DOMAIN coPool' : coPool[i] \in CoReqs
    BY <1>a, <2>2 DEF CoTypes
  <2>7. CoTypeOK'
    <3>1. IsInjective(coPool')
      BY <1>a, <2>2 DEF CoTypeOK, IsInjective
    <3>2. \A i \in DOMAIN coPool' : ~coHolds'[coPool'[i]].big
      BY <1>a, <2>2, <2>5, <2>6 DEF CoTypeOK
    <3> QED BY <1>a, <2>1, <2>2, <3>1, <3>2 DEF CoTypeOK
  <2>8. CoTypes'
    <3>1. \A c \in CoReqs : coHolds'[c].big \in BOOLEAN
      BY <1>a, <2>5 DEF CoTypes
    <3> QED BY <1>a, <2>1, <2>2, <2>5, <3>1 DEF CoTypes
  <2>9. CoOneOwner'
    BY <1>a, <2>2, <2>3 DEF CoOneOwner
  <2>10. CoPlaced'
    <3> SUFFICES ASSUME NEW s \in CoReqs PROVE CoPlaced!(s)'
      BY DEF CoPlaced
    <3> QED BY <1>a, <1>b, <2>1, <2>2, <2>3, <2>5 DEF CoPlaced, CoTypeOK, CoWork
  <2> QED BY <2>7, <2>8, <2>9, <2>10 DEF CoIInv
<1>4. ASSUME NEW r \in CoReqs, CoJobEnds(r) PROVE CoIInv'
  <2>1. /\ coPc[r] \in {"write", "left_write"} /\ coBuf[r] # CoNoBuf /\ coBuf[r] \in CoReqs
        /\ coPc' = [coPc EXCEPT ![r] = IF coPc[r] = "write" THEN "sending" ELSE "gone"]
        /\ coJobs' = coJobs \ {r}
        /\ UNCHANGED <<coSettings, coAsked, coAlgo>>
    BY <1>4, <1>a, <1>c DEF CoJobEnds, CoAt, CoPlaced, CoTypeOK
  <2>2. PICK big \in BOOLEAN :
          /\ coHolds' = [coHolds EXCEPT ![coBuf[r]] = [of |-> r, coding |-> coAlgo[r], big |-> big]]
          /\ (coPc[r] = "write" /\ CoApply(r, big)) \/ CoGivesBack(r, big)
    BY <1>4 DEF CoJobEnds
  <2>3. /\ DOMAIN coHolds' = CoReqs /\ coHolds'[coBuf[r]].of = r
        /\ coHolds'[coBuf[r]].coding = coAlgo[r] /\ coHolds'[coBuf[r]].big = big
        /\ \A c \in CoReqs : c # coBuf[r] => coHolds'[c] = coHolds[c]
    BY <1>a, <2>1, <2>2 DEF CoTypes
  <2>4. \A c \in CoReqs : coHolds'[c].big \in BOOLEAN
    BY <1>a, <2>3 DEF CoTypes
  <2>5. \A s \in CoReqs : coBuf[s] \in CoReqs /\ coBuf[s] = coBuf[r] => s = r
    BY <1>a, <2>1 DEF CoOneOwner
  <2>6. CASE coPc[r] = "write" /\ CoApply(r, big)
    <3>1. /\ coOut' = [coOut EXCEPT ![r] = CoCompressed(coBuf[r], coAlgo[r], coOut[r].vary)]
          /\ UNCHANGED <<coPool, coBuf>>
      BY <2>6 DEF CoApply
    <3>2. coOut[r].vary = coAsked[r].data.vary
      BY <1>a, <2>1, CoResponses DEF CoPlaced
    <3>3. \A i \in DOMAIN coPool : coPool[i] \in CoReqs /\ coPool[i] # coBuf[r]
      BY <1>a DEF CoTypes, CoOneOwner
    <3>4. CoTypeOK'
      BY <1>a, <2>1, <2>3, <3>1, <3>3 DEF CoTypeOK
    <3>5. CoTypes' /\ CoOneOwner'
      BY <1>a, <2>1, <2>3, <2>4, <3>1 DEF CoTypes, CoOneOwner
    <3>6. CoPlaced'
      <4> SUFFICES ASSUME NEW s \in CoReqs PROVE CoPlaced!(s)'
        BY DEF CoPlaced
      <4>1. CASE s = r
        <5>1. coOut'[r] = CoCompressed(coBuf[r], coAlgo[r], coAsked[r].data.vary) /\ coPc'[r] = "sending"
          BY <1>a, <2>1, <2>6, <3>1, <3>2 DEF CoTypes, CoTypeOK
        <5> QED BY <1>a, <2>1, <2>3, <3>1, <4>1, <5>1 DEF CoPlaced, CoTypeOK, CoWork
      <4>2. CASE s # r
        <5>1. coOut'[s] = coOut[s] /\ coPc'[s] = coPc[s]
              /\ (coBuf[s] \in CoReqs => coHolds'[coBuf[s]] = coHolds[coBuf[s]])
          BY <1>a, <2>1, <2>3, <2>5, <3>1, <4>2 DEF CoTypes, CoTypeOK
        <5> QED BY <1>a, <2>1, <3>1, <4>2, <5>1 DEF CoPlaced, CoTypeOK, CoWork
      <4> QED BY <4>1, <4>2
    <3> QED BY <3>4, <3>5, <3>6 DEF CoIInv
  <2>7. CASE CoGivesBack(r, big)
    <3>1. /\ coPool' = PoolWith(coBuf[r], big) /\ coBuf' = [coBuf EXCEPT ![r] = CoNoBuf]
          /\ UNCHANGED coOut
      BY <2>7 DEF CoGivesBack
    <3>2. /\ coPool' \in Seq(CoReqs) /\ Len(coPool') <= CoSlots /\ IsInjective(coPool')
          /\ \A i \in DOMAIN coPool' :
                \/ coPool'[i] = coBuf[r] /\ ~big
                \/ i \in DOMAIN coPool /\ coPool'[i] = coPool[i] /\ coPool'[i] # coBuf[r]
      BY <2>1, <3>1, CoPoolGiven
    <3>3. \A i \in DOMAIN coPool : coPool[i] \in CoReqs
      BY <1>a DEF CoTypes
    <3>4. CoTypeOK'
      <4>1. \A i \in DOMAIN coPool' : ~coHolds'[coPool'[i]].big
        BY <1>a, <2>3, <3>2, <3>3 DEF CoTypeOK
      <4> QED BY <1>a, <2>1, <3>1, <3>2, <4>1 DEF CoTypeOK
    <3>5. CoTypes'
      BY <1>a, <2>1, <2>3, <2>4, <3>1, <3>2 DEF CoTypes
    <3>6. coBuf'[r] = CoNoBuf /\ \A s \in CoReqs : s # r => coBuf'[s] = coBuf[s]
      BY <1>a, <3>1 DEF CoTypeOK
    <3>7. CoOneOwner'
      <4>1. \A s \in CoReqs : \A i \in DOMAIN coPool' : coPool'[i] # coBuf'[s]
        BY <1>a, <1>b, <2>1, <3>2, <3>3, <3>6 DEF CoOneOwner
      <4> QED BY <1>a, <3>6, <4>1 DEF CoOneOwner
    <3>8. CoPlaced'
      <4> SUFFICES ASSUME NEW s \in CoReqs PROVE CoPlaced!(s)'
        BY DEF CoPlaced
      <4>1. CASE s = r
        BY <1>a, <2>1, <3>1, <3>6, <4>1 DEF CoPlaced, CoTypeOK, CoWork
      <4>2. CASE s # r
        <5>1. coPc'[s] = coPc[s] /\ (coBuf[s] \in CoReqs => coHolds'[coBuf[s]] = coHolds[coBuf[s]])
          BY <1>a, <2>1, <2>3, <2>5, <4>2 DEF CoTypeOK
        <5> QED BY <1>a, <2>1, <3>1, <3>6, <4>2, <5>1 DEF CoPlaced, CoTypeOK, CoWork
      <4> QED BY <4>1, <4>2
    <3> QED BY <3>4, <3>5, <3>7, <3>8 DEF CoIInv
  <2> QED BY <2>2, <2>6, <2>7
<1>5. ASSUME NEW r \in CoReqs, CoJobPanics(r) PROVE CoIInv'
  <2>1. /\ coPc[r] \in {"write", "left_write"}
        /\ coPc' = [coPc EXCEPT ![r] = IF coPc[r] = "write" THEN "sending" ELSE "gone"]
        /\ coBuf' = [coBuf EXCEPT ![r] = CoNoBuf] /\ coJobs' = coJobs \ {r}
        /\ UNCHANGED <<coSettings, coAsked, coAlgo, coHolds, coPool, coOut>>
    BY <1>5, <1>c DEF CoJobPanics, CoAt
  <2>2. CoTypeOK' /\ CoTypes'
    BY <1>a, <2>1 DEF CoTypeOK, CoTypes
  <2>3. coBuf'[r] = CoNoBuf /\ \A s \in CoReqs : s # r => coBuf'[s] = coBuf[s]
    BY <1>a, <2>1 DEF CoTypeOK
  <2>4. CoOneOwner'
    <3>1. \A i \in DOMAIN coPool : coPool[i] \in CoReqs
      BY <1>a DEF CoTypes
    <3> QED BY <1>a, <1>b, <2>1, <2>3, <3>1 DEF CoOneOwner
  <2>5. CoPlaced'
    BY <1>a, <2>1, <2>3 DEF CoPlaced, CoTypeOK, CoWork
  <2> QED BY <2>2, <2>4, <2>5 DEF CoIInv
<1>6. ASSUME NEW r \in CoReqs, CoBodyDropped(r) PROVE CoIInv'
  <2>1. /\ coPc[r] = "sending" /\ coPc' = [coPc EXCEPT ![r] = "gone"]
        /\ coPool' = IF coBuf[r] = CoNoBuf THEN coPool
                     ELSE PoolWith(coBuf[r], coHolds[coBuf[r]].big)
        /\ coBuf' = [coBuf EXCEPT ![r] = CoNoBuf]
        /\ UNCHANGED <<coSettings, coAsked, coAlgo, coJobs, coHolds, coOut>>
    BY <1>6 DEF CoBodyDropped
  <2>2. /\ coPool' \in Seq(CoReqs) /\ Len(coPool') <= CoSlots /\ IsInjective(coPool')
        /\ \A i \in DOMAIN coPool' :
              \/ coBuf[r] # CoNoBuf /\ coPool'[i] = coBuf[r] /\ ~coHolds[coBuf[r]].big
              \/ i \in DOMAIN coPool /\ coPool'[i] = coPool[i] /\ coPool'[i] # coBuf[r]
    <3>1. CASE coBuf[r] = CoNoBuf
      <4>1. coPool' = coPool
        BY <2>1, <3>1
      <4>2. \A i \in DOMAIN coPool : coPool[i] # coBuf[r]
        BY <1>a DEF CoOneOwner
      <4> QED BY <1>a, <4>1, <4>2 DEF CoTypeOK, CoTypes
    <3>2. CASE coBuf[r] # CoNoBuf
      <4>1. coHolds[coBuf[r]].big \in BOOLEAN
        BY <1>a, <3>2 DEF CoTypes, CoTypeOK
      <4> QED BY <2>1, <3>2, <4>1, CoPoolGiven
    <3> QED BY <3>1, <3>2
  <2>3. \A i \in DOMAIN coPool : coPool[i] \in CoReqs
    BY <1>a DEF CoTypes
  <2>4. CoTypeOK' /\ CoTypes'
    <3>1. \A i \in DOMAIN coPool' : ~coHolds'[coPool'[i]].big
      BY <1>a, <2>1, <2>2 DEF CoTypeOK
    <3> QED BY <1>a, <2>1, <2>2, <3>1 DEF CoTypeOK, CoTypes
  <2>5. coBuf'[r] = CoNoBuf /\ \A s \in CoReqs : s # r => coBuf'[s] = coBuf[s]
    BY <1>a, <2>1 DEF CoTypeOK
  <2>6. CoOneOwner'
    <3>1. \A s \in CoReqs : \A i \in DOMAIN coPool' : coPool'[i] # coBuf'[s]
      BY <1>a, <1>b, <2>2, <2>3, <2>5 DEF CoOneOwner, CoTypeOK
    <3> QED BY <1>a, <2>5, <3>1 DEF CoOneOwner
  <2>7. CoPlaced'
    BY <1>a, <2>1, <2>5 DEF CoPlaced, CoTypeOK, CoWork
  <2> QED BY <2>4, <2>6, <2>7 DEF CoIInv
<1> QED BY <1>0, <1>1, <1>2, <1>3, <1>4, <1>5, <1>6 DEF CoNext

(* What the invariant gives.                                               *)
LEMMA CoGives == CoIInv => CoSafe
<1> SUFFICES ASSUME CoIInv PROVE CoSafe
  OBVIOUS
<1>1. CoOwnBytes
  BY CoResponses DEF CoIInv, CoPlaced, CoOwnBytes
<1>2. CoReadable
  <2> SUFFICES ASSUME NEW r \in CoReqs, coPc[r] = "sending", coOut[r].coding # "none"
               PROVE  LET accept == coAsked[r].accept
                          says(c) == \E i \in DOMAIN accept : accept[i].name = c /\ accept[i].q > 0
                          names(c) == \E i \in DOMAIN accept : accept[i].name = c /\ accept[i].q >= 0
                          c == coOut[r].coding
                      IN /\ says(c) \/ (~names(c) /\ says("*"))
                         /\ coSettings.on /\ c \in coSettings.codings
                         /\ ~coAsked[r].data.encoded
                         /\ ~coOut[r].length
                         /\ \E i \in DOMAIN coOut[r].vary : NamesAcceptEncoding(coOut[r].vary[i])
    BY DEF CoReadable
  <2> DEFINE data == coAsked[r].data
             accept == coAsked[r].accept
  <2>1. /\ coAlgo[r] = Plan(data, accept, coSettings) /\ coAlgo[r] # "none"
        /\ coOut[r] = CoCompressed(coBuf[r], coAlgo[r], data.vary)
    BY CoResponses DEF CoIInv, CoPlaced
  <2>2. accept \in Seq(CoElements) /\ data.vary \in Seq(CoLines)
    BY CoAssumption DEF CoIInv, CoTypes
  <2>3. coOut[r].coding = Plan(data, accept, coSettings) /\ ~coOut[r].length
        /\ coOut[r].vary = Varied(data.vary)
    BY <2>1, CoResponses
  <2> HIDE DEF data, accept
  <2>4. /\ coSettings.on /\ ~data.encoded
        /\ Plan(data, accept, coSettings) \in coSettings.codings
        /\ CoWants(accept, Plan(data, accept, coSettings))
    BY <2>1, CoPlanMeans
  <2>5. \E i \in DOMAIN Varied(data.vary) : NamesAcceptEncoding(Varied(data.vary)[i])
    BY <2>2, CoVariedNames
  <2>6. LET says(d) == \E i \in DOMAIN accept : accept[i].name = d /\ accept[i].q > 0
            names(d) == \E i \in DOMAIN accept : accept[i].name = d /\ accept[i].q >= 0
            c == Plan(data, accept, coSettings)
        IN says(c) \/ (~names(c) /\ says("*"))
    BY <2>2, <2>4, CoWantsSays
  <2> QED BY <2>3, <2>4, <2>5, <2>6 DEF data, accept
<1> QED BY <1>1, <1>2 DEF CoSafe, CoIInv

(* For every set of requests, pool size and request: a client gets its own *)
(* bytes in a form it can read, and a buffer is in one place at a time     *)
(* (compression.rs, Job::run, apply and PooledCompressBuf::drop).          *)
THEOREM CompressCorrect == CoSpec => []CoSafe
<1>1. CoInit => CoIInv
  BY CoStart
<1>2. CoIInv /\ [CoNext]_coVars => CoIInv'
  BY CoStep
<1>3. CoIInv => CoSafe
  BY CoGives
<1> QED BY <1>1, <1>2, <1>3, PTL DEF CoSpec

-----------------------------------------------------------------------------
(* Hooks and the request's context.                                        *)

(* The calls of a request are its before hooks, handler and after hooks.   *)
LEMMA HcNumbers ==
    /\ HcBefore \in Nat /\ HcAfter \in Nat /\ HcCalls \in Nat /\ HcDone = HcCalls + 1
    /\ HcCalls >= HcBefore + 1 /\ HcDone \in 0 .. HcDone
BY HcAssumption DEF HcCalls, HcDone

(* The record of a response.                                               *)
LEMMA HcRecords ==
    /\ \A x, k : [kind |-> x, by |-> k].kind = x /\ [kind |-> x, by |-> k].by = k
    /\ NoResult.kind = "none" /\ NoResult.by = 0
BY DEF NoResult

(* c is the response so far, after cur, once call k did `out` and passed.  *)
HcKeeps(k, out, cur, c) ==
    /\ k <= HcBefore => out = "none" /\ c = cur
    /\ k > HcBefore =>
          /\ out # "raise"
          /\ \/ k > HcBefore + 1 /\ out = "none" /\ c = cur
             \/ \E m \in {"ok", "kept"} :
                   /\ c = [kind |-> m, by |-> k]
                   /\ out \notin {"stream", "badresp"} => m = "ok"
                   /\ k = HcBefore + 1 \/ out # "none"

HcGoesOn(r, c) ==
    /\ hcStage[r] < HcCalls /\ hcStage' = [hcStage EXCEPT ![r] = hcStage[r] + 1]
    /\ hcCur' = [hcCur EXCEPT ![r] = c] /\ hcResult' = hcResult

HcSends(r, res) ==
    /\ hcStage' = [hcStage EXCEPT ![r] = HcDone] /\ hcCur' = hcCur
    /\ hcResult' = [hcResult EXCEPT ![r] = res]

(* res ends the request at call k, which did `out`.                        *)
HcCuts(k, out, res) ==
    \/ out = "raise" /\ res = [kind |-> "fail", by |-> k]
    \/ out \in {"stream", "badresp"} /\ \E x \in {"ok", "fail", "stream"} : res = [kind |-> x, by |-> k]
    \/ out = "resp" /\ k <= HcBefore /\ res = [kind |-> "ok", by |-> k]

(* A call returns: the request goes on, its last response is sent, or the  *)
(* call ends it.                                                           *)
LEMMA HcReturnKinds ==
    ASSUME NEW r \in HcRequests, NEW out \in HcOutcomes, HcReturn(r, out), HcIInv
    PROVE  \/ \E c : HcKeeps(hcStage[r], out, hcCur[r], c) /\ HcGoesOn(r, c)
           \/ \E c, res : /\ HcKeeps(hcStage[r], out, hcCur[r], c) /\ hcStage[r] = HcCalls /\ HcSends(r, res)
                          /\ IF c.kind = "kept" THEN res = [kind |-> "fail", by |-> c.by] ELSE res = c
           \/ \E res : HcCuts(hcStage[r], out, res) /\ HcSends(r, res)
<1> DEFINE k == hcStage[r]
<1>1. k \in 1 .. HcCalls /\ out \in {"none", "resp", "badresp", "stream", "raise"} /\ hcPath[r] \in HcPaths
  BY HcAssumption DEF HcIInv, HcTypes, HcAllFollow, HcFollows, HcReturn
<1>2. /\ HcBefore \in Nat /\ HcCalls \in Nat /\ HcCalls >= HcBefore + 1
  BY HcNumbers
<1>3. ASSUME NEW c, HcKeeps(hcStage[r], out, hcCur[r], c), GoesOn(r, c), c \in [kind : HcKinds, by : 0 .. HcCalls]
      PROVE  \/ HcGoesOn(r, c)
             \/ \E res : /\ k = HcCalls /\ HcSends(r, res)
                         /\ IF c.kind = "kept" THEN res = [kind |-> "fail", by |-> c.by] ELSE res = c
  <2>1. CASE k = HcCalls
    <3> DEFINE res == IF c.kind = "kept" THEN [c EXCEPT !.kind = "fail"] ELSE c
    <3>1. HcSends(r, res)
      BY <1>3, <2>1 DEF GoesOn, Goes, HcSends
    <3>2. c.kind = "kept" => res = [kind |-> "fail", by |-> c.by]
      BY <1>3
    <3>3. c.kind # "kept" => res = c
      OBVIOUS
    <3> HIDE DEF res
    <3> QED BY <2>1, <3>1, <3>2, <3>3
  <2>2. CASE k # HcCalls
    <3>1. k < HcCalls
      BY <1>1, <1>2, <2>2
    <3> QED BY <1>3, <2>2, <3>1 DEF GoesOn, HcGoesOn
  <2> QED BY <2>1, <2>2
<1>4. Made(r, out) = [kind |-> Mapped(r, out), by |-> k]
      /\ Mapped(r, out) \in {"ok", "kept", "fail"} /\ (out \in {"none", "resp", "raise"} => Mapped(r, out) = "ok")
  BY <1>1 DEF Made, Mapped
<1>5. hcCur[r] \in [kind : HcKinds, by : 0 .. HcCalls]
  BY DEF HcIInv, HcTypes
<1>6. Mapped(r, out) # "fail" => Made(r, out) \in [kind : HcKinds, by : 0 .. HcCalls]
  BY <1>1, <1>2, <1>4 DEF HcKinds
<1>7. ASSUME NEW x, Ends(r, x) PROVE HcSends(r, [kind |-> x, by |-> k])
  BY <1>7 DEF Ends, HcSends
<1>8. CASE k <= HcBefore
  <2>1. Before(r, out)
    BY <1>1, <1>2, <1>8 DEF HcReturn, IsBefore, IsHandler
  <2>2. CASE out = "none"
    <3>1. GoesOn(r, hcCur[r]) /\ HcKeeps(k, out, hcCur[r], hcCur[r])
      BY <1>1, <1>2, <1>4, <1>8, <2>1, <2>2 DEF Before, HcKeeps
    <3> QED BY <1>3, <1>5, <3>1
  <2>3. CASE out = "raise"
    BY <1>7, <2>1, <2>3 DEF Before, HcCuts
  <2>4. CASE out \notin {"none", "raise"} /\ Mapped(r, out) = "fail"
    <3>1. Ends(r, "fail") /\ out \in {"stream", "badresp"}
      BY <1>1, <1>4, <2>1, <2>4 DEF Before
    <3> QED BY <1>7, <3>1 DEF HcCuts
  <2>5. CASE out \notin {"none", "raise"} /\ Mapped(r, out) # "fail"
    <3> DEFINE res == IF Made(r, out).kind = "kept" THEN [Made(r, out) EXCEPT !.kind = "fail"] ELSE Made(r, out)
    <3>1. Goes(r, Made(r, out))
      BY <2>1, <2>5 DEF Before
    <3>2. HcSends(r, res)
      BY <3>1 DEF Goes, HcSends
    <3>3. \E x \in {"ok", "fail"} : res = [kind |-> x, by |-> k] /\ (out = "resp" => x = "ok")
      BY <1>4, <2>5, HcRecords
    <3>4. HcCuts(hcStage[r], out, res)
      BY <1>1, <1>8, <2>5, <3>3 DEF HcCuts
    <3> HIDE DEF res
    <3> QED BY <3>2, <3>4
  <2> QED BY <2>2, <2>3, <2>4, <2>5
<1>9. CASE k > HcBefore
  <2>1. IF k = HcBefore + 1 THEN Handler(r, out) ELSE After(r, out)
    BY <1>1, <1>2, <1>9 DEF HcReturn, IsBefore, IsHandler
  <2>2. CASE out = "raise"
    <3>1. Ends(r, "fail")
      BY <2>1, <2>2 DEF Handler, After
    <3> QED BY <1>7, <2>2, <3>1 DEF HcCuts
  <2>3. CASE out # "raise" /\ k # HcBefore + 1 /\ out = "none"
    <3>1. GoesOn(r, hcCur[r]) /\ HcKeeps(k, out, hcCur[r], hcCur[r])
      BY <1>1, <1>2, <1>4, <1>9, <2>1, <2>3 DEF After, HcKeeps
    <3> QED BY <1>3, <1>5, <3>1
  <2>4. CASE out = "stream" /\ k = HcBefore + 1 /\ hcPath[r] = "main"
    <3>1. Ends(r, "stream")
      BY <2>1, <2>4 DEF Handler, Mapped
    <3> QED BY <1>7, <2>4, <3>1 DEF HcCuts
  <2>5. CASE /\ out # "raise" /\ ~(k # HcBefore + 1 /\ out = "none")
             /\ ~(out = "stream" /\ k = HcBefore + 1 /\ hcPath[r] = "main")
    <3>1. IF Mapped(r, out) = "fail" THEN Ends(r, "fail") ELSE GoesOn(r, Made(r, out))
      BY <2>1, <2>5 DEF Handler, After
    <3>2. CASE Mapped(r, out) = "fail"
      <4>1. out \in {"stream", "badresp"}
        BY <1>1, <1>4, <3>2
      <4> QED BY <1>7, <3>1, <3>2, <4>1 DEF HcCuts
    <3>3. CASE Mapped(r, out) # "fail"
      <4>1. HcKeeps(k, out, hcCur[r], Made(r, out))
        BY <1>1, <1>2, <1>4, <1>9, <2>5, <3>3 DEF HcKeeps
      <4> QED BY <1>3, <1>6, <3>1, <3>3, <4>1
    <3> QED BY <3>2, <3>3
  <2> QED BY <2>2, <2>3, <2>4, <2>5
<1> QED BY <1>1, <1>2, <1>8, <1>9

(* What is said of a log, once one more call is in it.                     *)
LEMMA HcMoreLog ==
    ASSUME NEW log \in Seq({"none", "resp", "badresp", "stream", "raise"}),
           NEW out \in {"none", "resp", "badresp", "stream", "raise"}
    PROVE  LET more == Append(log, out)
               n == Len(log)
           IN /\ more \in Seq({"none", "resp", "badresp", "stream", "raise"})
              /\ n \in Nat /\ Len(more) = n + 1 /\ more[n + 1] = out
              /\ \A k \in 1 .. n : more[k] = log[k]
              /\ HcClean(more) => HcClean(log) /\ out \notin {"stream", "badresp"}
<1> DEFINE more == Append(log, out)
           n == Len(log)
<1>1. /\ more \in Seq({"none", "resp", "badresp", "stream", "raise"})
      /\ n \in Nat /\ Len(more) = n + 1 /\ more[n + 1] = out
      /\ \A k \in 1 .. n : more[k] = log[k]
  OBVIOUS
<1>2. DOMAIN log = 1 .. n /\ DOMAIN more = 1 .. n + 1
  BY <1>1
<1> HIDE DEF more, n
<1>3. HcClean(more) => HcClean(log) /\ out \notin {"stream", "badresp"}
  <2> SUFFICES ASSUME HcClean(more) PROVE HcClean(log) /\ out \notin {"stream", "badresp"}
    OBVIOUS
  <2>1. \A k \in 1 .. n + 1 : more[k] \notin {"stream", "badresp"}
    BY <1>2 DEF HcClean
  <2>2. \A k \in 1 .. n : k \in 1 .. n + 1
    BY <1>1
  <2> QED BY <1>1, <1>2, <2>1, <2>2 DEF HcClean
<1> QED BY <1>1, <1>3 DEF more, n

(* The latest response, once one more call has passed.                     *)
LEMMA HcLatestMore ==
    ASSUME NEW log \in Seq({"none", "resp", "badresp", "stream", "raise"}),
           NEW out \in {"none", "resp", "badresp", "stream", "raise"},
           NEW cur, NEW c, cur.by \in Nat, Len(log) + 1 > HcBefore,
           HcKeeps(Len(log) + 1, out, cur, c), HcClean(Append(log, out)),
           Len(log) > HcBefore => HcLatest(log, cur)
    PROVE  HcLatest(Append(log, out), c)
<1> DEFINE more == Append(log, out)
           n == Len(log)
<1>1. /\ n \in Nat /\ Len(more) = n + 1 /\ more[n + 1] = out
      /\ \A k \in 1 .. n : more[k] = log[k]
      /\ out \notin {"stream", "badresp"} /\ HcBefore \in Nat
  BY HcMoreLog, HcNumbers
<1> HIDE DEF more
<1>2. CASE n + 1 > HcBefore + 1 /\ out = "none" /\ c = cur
  <2>1. n > HcBefore /\ HcLatest(log, cur)
    BY <1>1, <1>2
  <2>2. cur.by \in HcBefore + 1 .. n /\ cur.by \in 1 .. n
    BY <1>1, <2>1 DEF HcLatest
  <2>3. ASSUME NEW k \in cur.by + 1 .. n + 1 PROVE more[k] = "none"
    <3>1. CASE k = n + 1
      BY <1>1, <1>2, <3>1
    <3>2. CASE k # n + 1
      <4>1. k \in cur.by + 1 .. n /\ k \in 1 .. n
        BY <1>1, <2>2, <3>2
      <4> QED BY <1>1, <2>1, <4>1 DEF HcLatest
    <3> QED BY <3>1, <3>2
  <2>4. cur.kind = "ok" /\ (cur.by = HcBefore + 1 \/ more[cur.by] # "none")
    BY <1>1, <2>1, <2>2 DEF HcLatest
  <2>5. cur.by \in HcBefore + 1 .. n + 1
    BY <1>1, <2>2
  <2> QED BY <1>1, <1>2, <2>3, <2>4, <2>5 DEF HcLatest, more
<1>3. CASE ~(n + 1 > HcBefore + 1 /\ out = "none" /\ c = cur)
  <2>1. c = [kind |-> "ok", by |-> n + 1] /\ (n + 1 = HcBefore + 1 \/ out # "none")
    BY <1>1, <1>3 DEF HcKeeps
  <2>2. c.kind = "ok" /\ c.by = n + 1
    BY <2>1
  <2>3. c.by \in HcBefore + 1 .. n + 1 /\ \A k \in c.by + 1 .. n + 1 : FALSE
    BY <1>1, <2>2
  <2> QED BY <1>1, <2>1, <2>2, <2>3 DEF HcLatest, more
<1> QED BY <1>2, <1>3

(* A call passes and another one follows.                                  *)
LEMMA HcFollowsOn ==
    ASSUME NEW log \in Seq({"none", "resp", "badresp", "stream", "raise"}),
           NEW out \in {"none", "resp", "badresp", "stream", "raise"},
           NEW stage \in 1 .. HcCalls, NEW call, NEW cur, NEW res, NEW c, cur.by \in Nat,
           HcFollows(log, stage, call, cur, res), stage < HcCalls, HcKeeps(stage, out, cur, c)
    PROVE  HcFollows(Append(log, out), stage + 1, "no", c, res)
<1> DEFINE more == Append(log, out)
           n == Len(log)
<1>1. /\ n \in Nat /\ Len(more) = n + 1 /\ more[n + 1] = out
      /\ \A k \in 1 .. n : more[k] = log[k]
      /\ HcClean(more) => HcClean(log)
      /\ HcBefore \in Nat /\ HcCalls \in Nat /\ HcDone = HcCalls + 1
  BY HcMoreLog, HcNumbers
<1> HIDE DEF more
<1>2. /\ stage = n + 1 /\ res = NoResult /\ \A k \in 1 .. n : HcPassed(log, k)
      /\ n > HcBefore => cur.kind \in {"ok", "kept"} /\ (HcClean(log) => HcLatest(log, cur))
  BY <1>1 DEF HcFollows
<1>3. \A k \in 1 .. n + 1 : HcPassed(more, k)
  <2>1. HcPassed(more, n + 1)
    BY <1>1, <1>2 DEF HcKeeps, HcPassed
  <2>2. \A k \in 1 .. n : HcPassed(more, k)
    BY <1>1, <1>2 DEF HcPassed
  <2>3. \A k \in 1 .. n + 1 : k = n + 1 \/ k \in 1 .. n
    BY <1>1
  <2> QED BY <2>1, <2>2, <2>3
<1>4. n + 1 > HcBefore => c.kind \in {"ok", "kept"}
  <2> SUFFICES ASSUME n + 1 > HcBefore PROVE c.kind \in {"ok", "kept"}
    OBVIOUS
  <2>1. CASE c = cur /\ n > HcBefore
    BY <1>2, <2>1
  <2>2. CASE \E m \in {"ok", "kept"} : c = [kind |-> m, by |-> stage]
    BY <2>2
  <2> QED BY <1>1, <1>2, <2>1, <2>2 DEF HcKeeps
<1>5. n + 1 > HcBefore /\ HcClean(more) => HcLatest(more, c)
  BY <1>1, <1>2, HcLatestMore DEF more
<1> QED
  <2>1. stage + 1 \in 1 .. HcCalls /\ stage + 1 = Len(more) + 1 /\ stage + 1 # HcDone /\ stage + 1 # 0
    BY <1>1, <1>2
  <2> QED BY <1>1, <1>2, <1>3, <1>4, <1>5, <2>1 DEF HcFollows, more

(* The last call passes: its response, or the latest before it, is sent.   *)
LEMMA HcFollowsSent ==
    ASSUME NEW log \in Seq({"none", "resp", "badresp", "stream", "raise"}),
           NEW out \in {"none", "resp", "badresp", "stream", "raise"},
           NEW call, NEW cur, NEW res, NEW c, NEW sent, cur.by \in Nat,
           HcFollows(log, HcCalls, call, cur, res), HcKeeps(HcCalls, out, cur, c),
           IF c.kind = "kept" THEN sent = [kind |-> "fail", by |-> c.by] ELSE sent = c
    PROVE  HcFollows(Append(log, out), HcDone, "no", cur, sent)
<1> DEFINE more == Append(log, out)
           n == Len(log)
<1>1. /\ n \in Nat /\ Len(more) = n + 1 /\ more[n + 1] = out
      /\ \A k \in 1 .. n : more[k] = log[k]
      /\ HcClean(more) => HcClean(log)
      /\ HcBefore \in Nat /\ HcCalls \in Nat /\ HcDone = HcCalls + 1 /\ HcCalls >= HcBefore + 1
  BY HcMoreLog, HcNumbers
<1> HIDE DEF more
<1>2. /\ HcCalls = n + 1 /\ \A k \in 1 .. n : HcPassed(log, k)
      /\ n > HcBefore => cur.kind \in {"ok", "kept"} /\ (HcClean(log) => HcLatest(log, cur))
  BY <1>1 DEF HcFollows
<1>3. \A k \in 1 .. n : HcPassed(more, k)
  BY <1>1, <1>2 DEF HcPassed
<1>4. c.kind \in {"ok", "kept"}
  <2>1. CASE c = cur /\ n > HcBefore
    BY <1>2, <2>1
  <2>2. CASE \E m \in {"ok", "kept"} : c = [kind |-> m, by |-> HcCalls]
    BY <2>2
  <2> QED BY <1>1, <1>2, <2>1, <2>2 DEF HcKeeps
<1>5. sent.kind # "none"
  BY <1>4, HcRecords
<1>6. ASSUME HcClean(more) PROVE HcAnswers(more, sent)
  <2>1. HcLatest(more, c)
    BY <1>1, <1>2, <1>6, HcLatestMore DEF more
  <2>2. c.kind = "ok" /\ sent = c
    BY <2>1 DEF HcLatest
  <2>3. more[n + 1] # "raise"
    BY <1>1, <1>2 DEF HcKeeps
  <2> QED BY <1>1, <1>2, <2>1, <2>2, <2>3 DEF HcAnswers
<1> QED
  <2>1. HcDone \notin 1 .. HcCalls /\ HcDone # 0 /\ Len(more) \in 1 .. HcCalls
    BY <1>1, <1>2
  <2>2. \A k \in 1 .. n + 1 : k < n + 1 => k \in 1 .. n
    BY <1>1
  <2> QED BY <1>1, <1>3, <1>5, <1>6, <2>1, <2>2 DEF HcFollows, more

(* A call ends the request.                                                *)
LEMMA HcFollowsCut ==
    ASSUME NEW log \in Seq({"none", "resp", "badresp", "stream", "raise"}),
           NEW out \in {"none", "resp", "badresp", "stream", "raise"},
           NEW stage \in 1 .. HcCalls, NEW call, NEW cur, NEW res, NEW sent,
           HcFollows(log, stage, call, cur, res), HcCuts(stage, out, sent)
    PROVE  HcFollows(Append(log, out), HcDone, "no", cur, sent)
<1> DEFINE more == Append(log, out)
           n == Len(log)
<1>1. /\ n \in Nat /\ Len(more) = n + 1 /\ more[n + 1] = out
      /\ \A k \in 1 .. n : more[k] = log[k]
      /\ HcClean(more) => out \notin {"stream", "badresp"}
      /\ HcBefore \in Nat /\ HcCalls \in Nat /\ HcDone = HcCalls + 1 /\ HcCalls >= HcBefore + 1
  BY HcMoreLog, HcNumbers
<1> HIDE DEF more
<1>2. stage = n + 1 /\ \A k \in 1 .. n : HcPassed(log, k)
  BY <1>1 DEF HcFollows
<1>3. \A k \in 1 .. n : HcPassed(more, k)
  BY <1>1, <1>2 DEF HcPassed
<1>4. sent.kind # "none" /\ (out = "raise" => sent.kind = "fail" /\ sent.by = n + 1)
      /\ (out \notin {"raise", "stream", "badresp"} =>
            sent.kind = "ok" /\ sent.by = n + 1 /\ n + 1 <= HcBefore /\ out = "resp")
  BY <1>2, HcRecords DEF HcCuts
<1>5. HcClean(more) => HcAnswers(more, sent)
  BY <1>1, <1>4 DEF HcAnswers
<1> QED
  <2>1. HcDone \notin 1 .. HcCalls /\ HcDone # 0 /\ Len(more) \in 1 .. HcCalls
    BY <1>1, <1>2
  <2>2. \A k \in 1 .. n + 1 : k < n + 1 => k \in 1 .. n
    BY <1>1
  <2> QED BY <1>1, <1>3, <1>4, <1>5, <2>1, <2>2 DEF HcFollows, more

HcOuts == {"none", "resp", "badresp", "stream", "raise"}
HcResults == [kind : HcKinds, by : 0 .. HcCalls]

(* The context of a request is kept by a step of r that leaves its thread  *)
(* where the call and the stage say it should be.                          *)
LEMMA HcContextStep ==
    ASSUME HcTypes, HcContextKept, NEW r \in HcRequests, NEW c \in HcRequests \cup {"own"},
           hcPath' = hcPath, hcCurrent' = SetCurrent(r, c),
           \A s \in HcRequests : s # r => hcStage'[s] = hcStage[s] /\ hcCall'[s] = hcCall[s],
           Serving(r) \/ (OnThread(r) => \A s \in HcRequests : hcPath[s] = hcPath[r] => ~Serving(s)),
           Serving(r)' => c = IF hcCall'[r] = "task" THEN "own" ELSE r,
           DOMAIN hcWritten' = HcContexts, DOMAIN hcMade' = HcRequests,
           \A s \in HcRequests : hcWritten'[s] = {<<s, k>> : k \in hcMade'[s]}
    PROVE  HcContextKept' /\ hcCurrent' \in [HcThreads -> HcRequests \cup {"own"}]
<1>1. \A s \in HcRequests : s # r => (Serving(s)' <=> Serving(s))
  BY DEF Serving
<1>2. \A s \in HcRequests : OnThread(s)' <=> OnThread(s)
  BY DEF OnThread
<1>3. \A s \in HcRequests : s # r /\ Serving(s) /\ OnThread(r) => hcPath[s] # hcPath[r]
  BY DEF HcContextKept, OnThread
<1>4. hcCurrent' \in [HcThreads -> HcRequests \cup {"own"}]
      /\ (OnThread(r) => hcCurrent'[hcPath[r]] = c)
      /\ \A t \in HcThreads : (OnThread(r) => t # hcPath[r]) => hcCurrent'[t] = hcCurrent[t]
  BY DEF SetCurrent, OnThread, HcTypes
<1>5. ASSUME NEW s \in HcRequests, Serving(s)', OnThread(s)'
      PROVE  /\ hcCurrent'[hcPath'[s]] = IF hcCall'[s] = "task" THEN "own" ELSE s
             /\ \A u \in HcRequests : Serving(u)' /\ hcPath'[u] = hcPath'[s] => u = s
  <2>1. CASE s = r
    <3>1. hcCurrent'[hcPath'[s]] = IF hcCall'[s] = "task" THEN "own" ELSE s
      BY <1>2, <1>4, <1>5, <2>1
    <3>2. \A u \in HcRequests : Serving(u)' /\ hcPath'[u] = hcPath'[s] => u = s
      BY <1>1, <1>2, <1>3, <1>5, <2>1
    <3> QED BY <3>1, <3>2
  <2>2. CASE s # r
    <3>1. Serving(s) /\ OnThread(s) /\ hcPath[s] \in HcThreads
      BY <1>1, <1>2, <1>5, <2>2 DEF OnThread
    <3>2. OnThread(r) => hcPath[s] # hcPath[r]
      BY <1>3, <2>2, <3>1
    <3>3. hcCurrent'[hcPath[s]] = hcCurrent[hcPath[s]]
      BY <1>4, <3>1, <3>2
    <3>4. hcCurrent[hcPath[s]] = IF hcCall[s] = "task" THEN "own" ELSE s
      BY <3>1 DEF HcContextKept
    <3>5. ASSUME NEW u \in HcRequests, Serving(u)', hcPath'[u] = hcPath'[s] PROVE u = s
      <4>1. u # r
        BY <3>1, <3>2, <3>5 DEF OnThread
      <4> QED BY <1>1, <3>1, <3>5, <4>1 DEF HcContextKept
    <3> QED BY <2>2, <3>3, <3>4, <3>5
  <2> QED BY <2>1, <2>2
<1> QED BY <1>4, <1>5 DEF HcContextKept

(* Before any request starts no thread is in a request's context.          *)
LEMMA HcBegins == HcInit => HcIInv
<1> SUFFICES ASSUME HcInit PROVE HcIInv
  OBVIOUS
<1>1. 0 \in 0 .. HcCalls /\ 0 \in 0 .. HcDone /\ 0 # HcDone /\ 0 \notin 1 .. HcCalls
  BY HcNumbers
<1>2. NoResult \in HcResults
  BY <1>1 DEF NoResult, HcResults, HcKinds
<1>3. <<>> \in Seq(HcOuts) /\ Len(<<>>) = 0
  OBVIOUS
<1>4. HcTypes
  BY <1>1, <1>2, <1>3 DEF HcInit, HcTypes, HcNowhere, HcResults, HcOuts
<1>5. HcContextKept
  BY <1>1 DEF HcInit, HcContextKept, Serving, HcNowhere, HcContexts
<1>6. HcFollows(<<>>, 0, "no", NoResult, NoResult)
  BY <1>1, <1>3 DEF HcFollows
<1>7. HcAllFollow
  BY <1>6 DEF HcInit, HcAllFollow, HcNowhere
<1> QED BY <1>4, <1>5, <1>7 DEF HcIInv

(* A request starts in a context of its own, on a thread that serves none. *)
LEMMA HcStartKeeps ==
    ASSUME HcIInv, NEW r \in HcRequests, HcStart(r) PROVE HcIInv'
<1>1. HcTypes /\ HcContextKept /\ HcAllFollow
  BY DEF HcIInv
<1>2. /\ hcStage[r] = 0 /\ hcStage' = [hcStage EXCEPT ![r] = 1] /\ hcCurrent' = SetCurrent(r, r)
      /\ OnThread(r) => \A s \in HcRequests : hcPath[s] = hcPath[r] => ~Serving(s)
      /\ UNCHANGED <<hcPath, hcCall, hcWritten, hcMade, hcLog, hcCur, hcResult>>
  BY DEF HcStart, HcNowhere, Enters
<1>3. 1 \in 0 .. HcDone /\ 1 \in 1 .. HcCalls /\ 1 # HcDone /\ 0 # HcDone /\ 0 \notin 1 .. HcCalls
  BY HcNumbers
<1>4. hcStage'[r] = 1 /\ \A s \in HcRequests : s # r => hcStage'[s] = hcStage[s]
  BY <1>1, <1>2 DEF HcTypes
<1>5. HcFollows(hcLog[r], 0, hcCall[r], hcCur[r], hcResult[r])
  BY <1>1, <1>2 DEF HcAllFollow
<1>6. hcCall[r] = "no"
  BY <1>3, <1>5 DEF HcFollows
<1>7. HcContextKept' /\ hcCurrent' \in [HcThreads -> HcRequests \cup {"own"}]
  BY <1>1, <1>2, <1>4, <1>6, HcContextStep DEF HcContextKept
<1>8. HcTypes'
  BY <1>1, <1>2, <1>3, <1>7 DEF HcTypes
<1>9. HcFollows(hcLog[r], 1, hcCall[r], hcCur[r], hcResult[r])
  <2>1. Len(hcLog[r]) = 0 /\ ~(0 > HcBefore)
    BY <1>5, HcNumbers DEF HcFollows
  <2> QED BY <1>3, <1>5, <1>6, <2>1 DEF HcFollows
<1>10. HcAllFollow'
  BY <1>1, <1>2, <1>4, <1>9 DEF HcAllFollow
<1> QED BY <1>7, <1>8, <1>10 DEF HcIInv

(* A call starts; a coroutine's leaves the thread in its own context.      *)
LEMMA HcCallKeeps ==
    ASSUME HcIInv, NEW r \in HcRequests, NEW how \in HcHow, HcCall(r, how) PROVE HcIInv'
<1>1. HcTypes /\ HcContextKept /\ HcAllFollow
  BY DEF HcIInv
<1>2. /\ Serving(r) /\ hcCall[r] = "no" /\ hcCall' = [hcCall EXCEPT ![r] = how]
      /\ hcCurrent' = IF how = "task" THEN SetCurrent(r, "own") ELSE hcCurrent
      /\ UNCHANGED <<hcPath, hcStage, hcWritten, hcMade, hcLog, hcCur, hcResult>>
  BY DEF HcCall
<1>3. hcCall'[r] = how /\ \A s \in HcRequests : s # r => hcCall'[s] = hcCall[s]
  BY <1>1, <1>2 DEF HcTypes
<1>4. hcCurrent' = SetCurrent(r, IF how = "task" THEN "own" ELSE r)
  <2>1. CASE how = "task"
    BY <1>2, <2>1
  <2>2. CASE how # "task" /\ OnThread(r)
    <3>1. hcCurrent[hcPath[r]] = r
      BY <1>1, <1>2, <2>2 DEF HcContextKept
    <3>2. [hcCurrent EXCEPT ![hcPath[r]] = r] = hcCurrent
      BY <1>1, <2>2, <3>1 DEF HcTypes, OnThread
    <3> QED BY <1>2, <2>2, <3>2 DEF SetCurrent
  <2>3. CASE how # "task" /\ ~OnThread(r)
    BY <1>2, <2>3 DEF SetCurrent
  <2> QED BY <2>1, <2>2, <2>3
<1>5. HcContextKept' /\ hcCurrent' \in [HcThreads -> HcRequests \cup {"own"}]
  <2> DEFINE c == IF how = "task" THEN "own" ELSE r
  <2>1. c \in HcRequests \cup {"own"} /\ hcCurrent' = SetCurrent(r, c)
        /\ (Serving(r)' => c = IF hcCall'[r] = "task" THEN "own" ELSE r)
    BY <1>3, <1>4
  <2> HIDE DEF c
  <2> QED BY <1>1, <1>2, <1>3, <2>1, HcContextStep DEF HcContextKept
<1>6. HcTypes'
  BY <1>1, <1>2, <1>5 DEF HcTypes
<1>7. HcFollows(hcLog[r], hcStage[r], how, hcCur[r], hcResult[r])
  BY <1>1, <1>2 DEF HcAllFollow, HcFollows, Serving
<1>8. HcAllFollow'
  BY <1>1, <1>2, <1>3, <1>7 DEF HcAllFollow
<1> QED BY <1>5, <1>6, <1>8 DEF HcIInv

(* A call returns, whatever it did.                                        *)
LEMMA HcReturnKeeps ==
    ASSUME HcIInv, NEW r \in HcRequests, NEW out \in HcOutcomes, HcReturn(r, out) PROVE HcIInv'
<1> DEFINE k == hcStage[r]
           log == hcLog[r]
<1>1. HcTypes /\ HcContextKept /\ HcAllFollow
  BY DEF HcIInv
<1>2. /\ hcCall[r] # "no" /\ hcCall' = [hcCall EXCEPT ![r] = "no"] /\ hcPath' = hcPath
      /\ hcWritten' = [hcWritten EXCEPT ![ContextOf(r)] = @ \cup {<<r, k>>}]
      /\ hcMade' = [hcMade EXCEPT ![r] = IF hcCall[r] = "future" THEN @ ELSE @ \cup {k}]
      /\ hcLog' = [hcLog EXCEPT ![r] = Append(log, out)]
      /\ hcCurrent' = SetCurrent(r, IF hcStage'[r] = HcDone THEN "own" ELSE r)
  BY DEF HcReturn
<1>3. HcFollows(log, k, hcCall[r], hcCur[r], hcResult[r])
  BY <1>1 DEF HcAllFollow
<1>4. k \in 1 .. HcCalls /\ Serving(r) /\ out \in HcOuts /\ log \in Seq(HcOuts)
      /\ hcCur[r] \in HcResults
  BY <1>1, <1>2, <1>3, HcAssumption DEF HcFollows, Serving, HcTypes, HcOuts, HcResults
<1>5. hcCur[r].by \in Nat /\ \A c \in HcResults : c.kind \in HcKinds /\ c.by \in 0 .. HcCalls
  BY <1>4, HcNumbers DEF HcResults
<1>6. \A x \in HcKinds : \A b \in 0 .. HcCalls : [kind |-> x, by |-> b] \in HcResults
  BY DEF HcResults
<1>7. ASSUME NEW c, HcKeeps(k, out, hcCur[r], c) PROVE c \in HcResults
  <2>1. k \in 0 .. HcCalls /\ k \in Nat /\ HcBefore \in Nat
    BY <1>4, HcNumbers
  <2>2. c = hcCur[r] \/ \E m \in {"ok", "kept"} : c = [kind |-> m, by |-> k]
    BY <1>7, <2>1 DEF HcKeeps
  <2> QED BY <1>4, <1>6, <2>1, <2>2 DEF HcKinds
<1> DEFINE Moved ==
          /\ hcStage' \in [HcRequests -> 0 .. HcDone] /\ hcCur' \in [HcRequests -> HcResults]
          /\ hcResult' \in [HcRequests -> HcResults]
          /\ \A s \in HcRequests : s # r =>
                hcStage'[s] = hcStage[s] /\ hcCur'[s] = hcCur[s] /\ hcResult'[s] = hcResult[s]
          /\ HcFollows(Append(log, out), hcStage'[r], "no", hcCur'[r], hcResult'[r])
<1>8. Moved
  <2>0. k + 1 \in 0 .. HcDone /\ HcDone \in 0 .. HcDone /\ k \in 0 .. HcCalls
    BY <1>4, HcNumbers
  <2>a. hcStage \in [HcRequests -> 0 .. HcDone] /\ hcCur \in [HcRequests -> HcResults]
        /\ hcResult \in [HcRequests -> HcResults]
    BY <1>1 DEF HcTypes, HcResults
  <2>1. ASSUME NEW c, HcKeeps(k, out, hcCur[r], c), HcGoesOn(r, c) PROVE Moved
    <3>1. /\ hcStage' = [hcStage EXCEPT ![r] = k + 1] /\ hcCur' = [hcCur EXCEPT ![r] = c]
          /\ hcResult' = hcResult /\ k < HcCalls
      BY <2>1 DEF HcGoesOn
    <3>2. hcStage'[r] = k + 1 /\ hcCur'[r] = c /\ hcResult'[r] = hcResult[r]
      BY <2>a, <3>1
    <3>3. HcFollows(Append(log, out), k + 1, "no", c, hcResult[r])
      BY <1>3, <1>4, <1>5, <2>1, <3>1, HcFollowsOn DEF HcOuts
    <3> QED BY <1>7, <2>0, <2>a, <2>1, <3>1, <3>2, <3>3
  <2>2. ASSUME NEW c, NEW res, HcKeeps(k, out, hcCur[r], c), k = HcCalls, HcSends(r, res),
               IF c.kind = "kept" THEN res = [kind |-> "fail", by |-> c.by] ELSE res = c
        PROVE  Moved
    <3>1. /\ hcStage' = [hcStage EXCEPT ![r] = HcDone] /\ hcCur' = hcCur
          /\ hcResult' = [hcResult EXCEPT ![r] = res]
      BY <2>2 DEF HcSends
    <3>2. hcStage'[r] = HcDone /\ hcCur'[r] = hcCur[r] /\ hcResult'[r] = res
      BY <2>a, <3>1
    <3>3. HcFollows(Append(log, out), HcDone, "no", hcCur[r], res)
      BY <1>3, <1>4, <1>5, <2>2, HcFollowsSent DEF HcOuts
    <3>4. c \in HcResults
      BY <1>7, <2>2
    <3>5. res \in HcResults
      BY <1>5, <1>6, <2>2, <3>4 DEF HcKinds
    <3> QED BY <2>0, <2>a, <3>1, <3>2, <3>3, <3>5
  <2>3. ASSUME NEW res, HcCuts(k, out, res), HcSends(r, res) PROVE Moved
    <3>1. /\ hcStage' = [hcStage EXCEPT ![r] = HcDone] /\ hcCur' = hcCur
          /\ hcResult' = [hcResult EXCEPT ![r] = res]
      BY <2>3 DEF HcSends
    <3>2. hcStage'[r] = HcDone /\ hcCur'[r] = hcCur[r] /\ hcResult'[r] = res
      BY <2>a, <3>1
    <3>3. HcFollows(Append(log, out), HcDone, "no", hcCur[r], res)
      BY <1>3, <1>4, <2>3, HcFollowsCut DEF HcOuts
    <3>4. res \in HcResults
      BY <1>6, <2>0, <2>3 DEF HcCuts, HcKinds
    <3> QED BY <2>0, <2>a, <3>1, <3>2, <3>3, <3>4
  <2> HIDE DEF Moved
  <2> QED BY <1>1, <1>4, <2>1, <2>2, <2>3, HcReturnKinds
<1>9. hcCall'[r] = "no" /\ \A s \in HcRequests : s # r => hcCall'[s] = hcCall[s]
  BY <1>1, <1>2 DEF HcTypes
<1>10. /\ DOMAIN hcWritten' = HcContexts /\ DOMAIN hcMade' = HcRequests
       /\ \A s \in HcRequests : hcWritten'[s] = {<<s, j>> : j \in hcMade'[s]}
  <2>1. /\ ContextOf(r) = IF hcCall[r] = "future" THEN "other" ELSE r
    <3>1. OnThread(r) /\ hcCall[r] # "task" => hcCurrent[hcPath[r]] = r
      BY <1>1, <1>4 DEF HcContextKept
    <3>2. hcCall[r] \in {"plain", "task", "future"}
      BY <1>1, <1>2 DEF HcTypes, HcHow
    <3> QED BY <3>1, <3>2 DEF ContextOf
  <2>2. "other" \in HcContexts /\ "other" \notin HcRequests /\ r \in HcContexts
    BY HcAssumption DEF HcContexts
  <2>3. DOMAIN hcWritten' = HcContexts /\ DOMAIN hcMade' = HcRequests
    BY <1>1, <1>2 DEF HcContextKept
  <2>4. CASE hcCall[r] = "future"
    <3>1. \A s \in HcRequests : hcWritten'[s] = hcWritten[s] /\ hcMade'[s] = hcMade[s]
      BY <1>1, <1>2, <2>1, <2>2, <2>4 DEF HcContextKept
    <3> QED BY <1>1, <2>3, <3>1 DEF HcContextKept
  <2>5. CASE hcCall[r] # "future"
    <3>1. \A s \in HcRequests : s # r => hcWritten'[s] = hcWritten[s] /\ hcMade'[s] = hcMade[s]
      BY <1>1, <1>2, <2>1, <2>2, <2>5 DEF HcContextKept
    <3>2. hcWritten'[r] = hcWritten[r] \cup {<<r, k>>} /\ hcMade'[r] = hcMade[r] \cup {k}
      BY <1>1, <1>2, <2>1, <2>2, <2>5 DEF HcContextKept
    <3>3. hcWritten[r] = {<<r, j>> : j \in hcMade[r]}
      BY <1>1 DEF HcContextKept
    <3>4. hcWritten'[r] = {<<r, j>> : j \in hcMade'[r]}
      BY <3>2, <3>3
    <3> QED BY <1>1, <2>3, <3>1, <3>4 DEF HcContextKept
  <2> QED BY <2>4, <2>5
<1>11. HcContextKept' /\ hcCurrent' \in [HcThreads -> HcRequests \cup {"own"}]
  <2> DEFINE c == IF hcStage'[r] = HcDone THEN "own" ELSE r
  <2>1. c \in HcRequests \cup {"own"} /\ hcCurrent' = SetCurrent(r, c)
    BY <1>2
  <2>2. Serving(r)' => c = IF hcCall'[r] = "task" THEN "own" ELSE r
    BY <1>9, HcNumbers DEF Serving
  <2> HIDE DEF c
  <2> QED BY <1>1, <1>2, <1>4, <1>8, <1>9, <1>10, <2>1, <2>2, HcContextStep
<1>12. HcTypes'
  <2>1. Append(log, out) \in Seq(HcOuts)
    BY <1>4
  <2> QED BY <1>1, <1>2, <1>8, <1>11, <2>1 DEF HcTypes, HcOuts, HcResults
<1>13. HcAllFollow'
  <2>1. hcLog'[r] = Append(log, out) /\ \A s \in HcRequests : s # r => hcLog'[s] = hcLog[s]
    BY <1>1, <1>2 DEF HcTypes
  <2> QED BY <1>1, <1>8, <1>9, <2>1 DEF HcAllFollow
<1> QED BY <1>11, <1>12, <1>13 DEF HcIInv

(* A panic fails the request and leaves its context.                       *)
LEMMA HcPanicKeeps ==
    ASSUME HcIInv, NEW r \in HcRequests, HcPanic(r) PROVE HcIInv'
<1> DEFINE k == hcStage[r]
           log == hcLog[r]
           res == [kind |-> "fail", by |-> k]
<1>1. HcTypes /\ HcContextKept /\ HcAllFollow
  BY DEF HcIInv
<1>2. /\ hcCall[r] # "no" /\ hcCall' = [hcCall EXCEPT ![r] = "no"]
      /\ hcStage' = [hcStage EXCEPT ![r] = HcDone] /\ hcCur' = hcCur
      /\ hcResult' = [hcResult EXCEPT ![r] = res]
      /\ hcLog' = [hcLog EXCEPT ![r] = Append(log, "raise")]
      /\ hcCurrent' = SetCurrent(r, "own")
      /\ UNCHANGED <<hcPath, hcWritten, hcMade>>
  BY DEF HcPanic, Ends
<1>3. HcFollows(log, k, hcCall[r], hcCur[r], hcResult[r])
  BY <1>1 DEF HcAllFollow
<1>4. k \in 1 .. HcCalls /\ Serving(r) /\ log \in Seq(HcOuts) /\ "raise" \in HcOuts
  BY <1>1, <1>2, <1>3 DEF HcFollows, Serving, HcTypes, HcOuts
<1>5. HcCuts(k, "raise", res)
  BY DEF HcCuts
<1>6. res \in HcResults /\ HcDone \in 0 .. HcDone /\ HcDone \notin 1 .. HcCalls
  BY <1>4, HcNumbers DEF HcResults, HcKinds
<1> HIDE DEF res
<1>7. HcFollows(Append(log, "raise"), HcDone, "no", hcCur[r], res)
  BY <1>3, <1>4, <1>5, HcFollowsCut DEF HcOuts
<1>8. /\ hcStage'[r] = HcDone /\ hcCall'[r] = "no" /\ hcResult'[r] = res /\ hcLog'[r] = Append(log, "raise")
      /\ \A s \in HcRequests : s # r =>
            /\ hcStage'[s] = hcStage[s] /\ hcCall'[s] = hcCall[s]
            /\ hcResult'[s] = hcResult[s] /\ hcLog'[s] = hcLog[s]
  BY <1>1, <1>2 DEF HcTypes
<1>9. HcContextKept' /\ hcCurrent' \in [HcThreads -> HcRequests \cup {"own"}]
  <2>1. ~Serving(r)'
    BY <1>6, <1>8 DEF Serving
  <2>2. DOMAIN hcWritten' = HcContexts /\ DOMAIN hcMade' = HcRequests
        /\ \A s \in HcRequests : hcWritten'[s] = {<<s, j>> : j \in hcMade'[s]}
    BY <1>1, <1>2 DEF HcContextKept
  <2>3. "own" \in HcRequests \cup {"own"}
    OBVIOUS
  <2> QED BY <1>1, <1>2, <1>4, <1>8, <2>1, <2>2, <2>3, HcContextStep
<1>10. HcTypes'
  <2>1. Append(log, "raise") \in Seq(HcOuts)
    BY <1>4
  <2> QED BY <1>1, <1>2, <1>6, <1>9, <2>1 DEF HcTypes, HcOuts, HcResults
<1>11. HcAllFollow'
  BY <1>1, <1>2, <1>7, <1>8 DEF HcAllFollow
<1> QED BY <1>9, <1>10, <1>11 DEF HcIInv

(* Every step of every request keeps the invariant.                        *)
LEMMA HcStep == HcIInv /\ [HcNext]_hcVars => HcIInv'
<1> SUFFICES ASSUME HcIInv, [HcNext]_hcVars PROVE HcIInv'
  OBVIOUS
<1>1. CASE UNCHANGED hcVars
  BY <1>1 DEF HcIInv, HcTypes, HcContextKept, HcAllFollow, Serving, OnThread, hcVars
<1> QED BY <1>1, HcStartKeeps, HcCallKeeps, HcReturnKeeps, HcPanicKeeps DEF HcNext

(* The answer to a request whose calls streamed nothing and made nothing   *)
(* that cannot be sent is a function of what they did.                     *)
LEMMA HcOneAnswer ==
    ASSUME NEW a \in Seq(HcOuts), NEW b \in Seq(HcOuts), NEW ca, NEW cb, NEW ua, NEW ub,
           NEW ra \in [kind : HcKinds, by : 0 .. HcCalls], NEW rb \in [kind : HcKinds, by : 0 .. HcCalls],
           HcFollows(a, HcDone, ca, ua, ra), HcFollows(b, HcDone, cb, ub, rb),
           Len(a) <= Len(b), SubSeq(a, 1, Len(a)) = SubSeq(b, 1, Len(a)), HcClean(a)
    PROVE  ra = rb
<1>1. Len(a) \in Nat /\ Len(b) \in Nat /\ HcCalls \in Nat /\ HcBefore \in Nat
  BY HcNumbers
<1>2. Len(a) \in 1 .. HcCalls /\ Len(b) \in 1 .. HcCalls
  BY DEF HcFollows
<1>3. \A k \in 1 .. Len(a) : a[k] = b[k]
  <2>1. \A k \in 1 .. Len(a) : SubSeq(a, 1, Len(a))[k] = a[k]
    BY <1>1, SubSeqProperties
  <2>2. \A k \in 1 .. Len(a) : SubSeq(b, 1, Len(a))[k] = b[k]
    BY <1>1, SubSeqProperties
  <2> QED BY <2>1, <2>2
<1>4. HcAnswers(a, ra)
  BY DEF HcFollows
<1>5. Len(a) = Len(b)
  <2> SUFFICES ASSUME Len(a) < Len(b) PROVE FALSE
    BY <1>1
  <2>1. HcPassed(b, Len(a))
    BY <1>1, <1>2 DEF HcFollows
  <2>2. HcPassed(a, Len(a))
    BY <1>2, <1>3, <2>1 DEF HcPassed
  <2>3. a[Len(a)] = "raise" \/ (Len(a) <= HcBefore /\ a[Len(a)] # "none") \/ Len(a) = HcCalls
    BY <1>4 DEF HcAnswers
  <2> QED BY <1>1, <1>2, <2>2, <2>3 DEF HcPassed
<1>6. a = b
  BY <1>3, <1>5, SeqEqual
<1>7. HcAnswers(a, rb)
  BY <1>6 DEF HcFollows
<1>8. ra.kind = rb.kind /\ ra.by = rb.by
  <2>1. CASE a[Len(a)] = "raise"
    BY <1>4, <1>7, <2>1 DEF HcAnswers
  <2>2. CASE a[Len(a)] # "raise" /\ Len(a) <= HcBefore
    BY <1>4, <1>7, <2>2 DEF HcAnswers
  <2>3. CASE a[Len(a)] # "raise" /\ ~(Len(a) <= HcBefore)
    <3>1. HcLatest(a, ra) /\ HcLatest(a, rb)
      BY <1>4, <1>7, <2>3 DEF HcAnswers
    <3> DEFINE x == ra.by
               y == rb.by
    <3>2. /\ x \in HcBefore + 1 .. Len(a) /\ y \in HcBefore + 1 .. Len(a)
          /\ x = HcBefore + 1 \/ a[x] # "none"
          /\ y = HcBefore + 1 \/ a[y] # "none"
          /\ \A k \in x + 1 .. Len(a) : a[k] = "none"
          /\ \A k \in y + 1 .. Len(a) : a[k] = "none"
          /\ ra.kind = rb.kind
      BY <3>1 DEF HcLatest
    <3> HIDE DEF x, y
    <3>3. ~(x < y) /\ ~(y < x)
      BY <1>1, <3>2
    <3> QED BY <1>1, <3>2, <3>3 DEF x, y
  <2> QED BY <2>1, <2>2, <2>3
<1> QED BY <1>8

(* What the invariant gives.                                               *)
LEMMA HcGives == HcIInv => HcSafe
<1> SUFFICES ASSUME HcIInv PROVE HcSafe
  OBVIOUS
<1>1. HcTypes /\ HcContextKept /\ HcAllFollow
  BY DEF HcIInv
<1>2. HcTypeOK
  <2> SUFFICES ASSUME NEW r \in HcRequests
               PROVE  /\ Len(hcLog[r]) <= HcCalls
                      /\ hcStage[r] = HcDone <=> hcResult[r] # NoResult
                      /\ \A res \in {hcCur[r], hcResult[r]} :
                            res.kind \in HcKinds /\ res.by \in 0 .. HcCalls
    BY <1>1 DEF HcTypeOK, HcTypes, HcKinds
  <2>1. HcFollows(hcLog[r], hcStage[r], hcCall[r], hcCur[r], hcResult[r])
    BY <1>1 DEF HcAllFollow
  <2>2. hcStage[r] \in 0 .. HcDone /\ Len(hcLog[r]) \in Nat
    BY <1>1 DEF HcTypes
  <2>3. Len(hcLog[r]) <= HcCalls
    BY <2>1, <2>2, HcNumbers DEF HcFollows
  <2>4. hcStage[r] = HcDone <=> hcResult[r] # NoResult
    BY <2>1 DEF HcFollows, NoResult
  <2>5. hcCur[r] \in [kind : HcKinds, by : 0 .. HcCalls] /\ hcResult[r] \in [kind : HcKinds, by : 0 .. HcCalls]
    BY <1>1 DEF HcTypes
  <2> QED BY <2>3, <2>4, <2>5
<1>3. HcIsolated
  <2> SUFFICES ASSUME NEW r \in HcRequests, hcCall[r] \in {"plain", "task"}
               PROVE  hcWritten[ContextOf(r)] = {<<r, k>> : k \in hcMade[r]}
    BY DEF HcIsolated
  <2>1. Serving(r)
    BY <1>1 DEF HcAllFollow, HcFollows, Serving
  <2>2. OnThread(r) /\ hcCall[r] = "plain" => hcCurrent[hcPath[r]] = r
    BY <1>1, <2>1 DEF HcContextKept
  <2>3. ContextOf(r) = r
    BY <2>2 DEF ContextOf
  <2> QED BY <1>1, <2>3 DEF HcContextKept
<1>4. HcHandlerGuarded
  <2> SUFFICES ASSUME NEW r \in HcRequests, Len(hcLog[r]) > HcBefore, NEW k \in 1 .. HcBefore
               PROVE  hcLog[r][k] = "none"
    BY DEF HcHandlerGuarded
  <2>1. HcFollows(hcLog[r], hcStage[r], hcCall[r], hcCur[r], hcResult[r])
    BY <1>1 DEF HcAllFollow
  <2>2. Len(hcLog[r]) \in Nat
    BY <1>1 DEF HcTypes
  <2>3. k \in 1 .. Len(hcLog[r]) /\ k < Len(hcLog[r]) /\ k <= HcBefore
    BY <2>2, HcNumbers
  <2>4. HcPassed(hcLog[r], k)
    BY <2>1, <2>3 DEF HcFollows
  <2> QED BY <2>3, <2>4 DEF HcPassed
<1>5. HcSameAnswer
  <2> SUFFICES ASSUME NEW r \in HcRequests, NEW s \in HcRequests, hcStage[r] = HcDone, hcStage[s] = HcDone,
                      IsPrefix(hcLog[r], hcLog[s]),
                      \A k \in 1 .. Len(hcLog[r]) : hcLog[r][k] \notin {"stream", "badresp"}
               PROVE  hcResult[r] = hcResult[s]
    BY DEF HcSameAnswer
  <2> DEFINE a == hcLog[r]
             b == hcLog[s]
  <2>1. a \in Seq(HcOuts) /\ b \in Seq(HcOuts)
    BY <1>1 DEF HcTypes, HcOuts
  <2>2. /\ HcFollows(a, HcDone, hcCall[r], hcCur[r], hcResult[r])
        /\ HcFollows(b, HcDone, hcCall[s], hcCur[s], hcResult[s])
    BY <1>1 DEF HcAllFollow
  <2>3. /\ hcResult[r] \in [kind : HcKinds, by : 0 .. HcCalls]
        /\ hcResult[s] \in [kind : HcKinds, by : 0 .. HcCalls]
    BY <1>1 DEF HcTypes
  <2>4. Len(a) <= Len(b) /\ SubSeq(a, 1, Len(a)) = SubSeq(b, 1, Len(a))
    BY DEF IsPrefix
  <2>5. HcClean(a)
    BY <2>1 DEF HcClean
  <2> HIDE DEF a, b
  <2> QED BY <2>1, <2>2, <2>3, <2>4, <2>5, HcOneAnswer DEF HcOuts
<1> QED BY <1>2, <1>3, <1>4, <1>5 DEF HcSafe

(* What the hooks and the handler of a request may rely on, whatever they  *)
(* do and on whichever path: hook_chain.rs, request_context.rs and the     *)
(* engine's _handle give the request a context of its own, no before hook  *)
(* that raised or answered is followed by the handler, and the same        *)
(* returns get the same answer, but for a Response that cannot be built    *)
(* and a Stream, which the paths treat each in its way.                    *)
THEOREM HooksCorrect == HcSpec => []HcSafe
<1>1. HcInit => HcIInv
  BY HcBegins
<1>2. HcIInv /\ [HcNext]_hcVars => HcIInv'
  BY HcStep
<1>3. HcIInv => HcSafe
  BY HcGives
<1> QED BY <1>1, <1>2, <1>3, PTL DEF HcSpec

-----------------------------------------------------------------------------
(* Routing.                                                                *)

(* The routes, and the entries of the routers, as one set each.            *)
RtListed(routes) ==
    {[method |-> routes[i].method, pattern |-> routes[i].pattern, id |-> i] : i \in DOMAIN routes}

RtFound(routers) ==
    UNION {{[method |-> m, pattern |-> e.pattern, id |-> e.id] : e \in routers[m]} : m \in RtMethods}

RtLists == Seq([method : RtMethods, pattern : RtPatterns])
RtTables == [RtMethods -> SUBSET [pattern : RtPatterns, id : Nat]]
RtPushed(routes, m, p) == Append(routes, [method |-> m, pattern |-> p])
RtInserted(routers, m, p, i) == [routers EXCEPT ![m] = @ \cup {[pattern |-> p, id |-> i]}]

(* A route that is in both under its index leaves them equal.              *)
LEMMA RtInsertKeeps ==
    ASSUME NEW routes \in RtLists, NEW routers \in RtTables, NEW m \in RtMethods, NEW p \in RtPatterns,
           RtListed(routes) = RtFound(routers)
    PROVE  RtListed(RtPushed(routes, m, p)) = RtFound(RtInserted(routers, m, p, Len(routes) + 1))
<1> DEFINE new == [method |-> m, pattern |-> p]
           entry == [pattern |-> p, id |-> Len(routes) + 1]
           both == [method |-> m, pattern |-> p, id |-> Len(routes) + 1]
           after == RtPushed(routes, m, p)
           table == RtInserted(routers, m, p, Len(routes) + 1)
<1>0. after = Append(routes, new) /\ table = [routers EXCEPT ![m] = @ \cup {entry}]
      /\ routes \in Seq([method : RtMethods, pattern : RtPatterns])
      /\ routers \in [RtMethods -> SUBSET [pattern : RtPatterns, id : Nat]]
  BY DEF RtPushed, RtInserted, RtLists, RtTables
<1> HIDE DEF after, table
<1>1. /\ new \in [method : RtMethods, pattern : RtPatterns]
      /\ new.method = m /\ new.pattern = p /\ entry.pattern = p /\ entry.id = Len(routes) + 1
  OBVIOUS
<1>2. /\ DOMAIN after = DOMAIN routes \cup {Len(routes) + 1}
      /\ after[Len(routes) + 1] = new
      /\ \A i \in DOMAIN routes : after[i] = routes[i]
  <2> HIDE DEF new
  <2>1. Len(routes) \in Nat /\ DOMAIN routes = 1 .. Len(routes)
    BY <1>0
  <2>2. Len(after) = Len(routes) + 1 /\ DOMAIN after = 1 .. Len(after)
    BY <1>0, <1>1
  <2> QED BY <1>0, <1>1, <2>1, <2>2
<1>3. RtListed(after) = RtListed(routes) \cup {both}
  <2> HIDE DEF new
  <2> QED BY <1>1, <1>2 DEF RtListed
<1>4. table[m] = routers[m] \cup {entry} /\ \A n \in RtMethods : n # m => table[n] = routers[n]
  BY <1>0
<1>5. RtFound(table) = RtFound(routers) \cup {both}
  <2> HIDE DEF entry
  <2>1. ASSUME NEW x \in RtFound(table) PROVE x \in RtFound(routers) \cup {both}
    <3>1. PICK n \in RtMethods : \E e \in table[n] : x = [method |-> n, pattern |-> e.pattern, id |-> e.id]
      BY DEF RtFound
    <3>2. PICK e \in table[n] : x = [method |-> n, pattern |-> e.pattern, id |-> e.id]
      BY <3>1
    <3>3. e \in routers[n] \/ (n = m /\ e = entry)
      BY <1>4
    <3>4. CASE e \in routers[n]
      <4>1. x \in {[method |-> n, pattern |-> d.pattern, id |-> d.id] : d \in routers[n]}
        BY <3>2, <3>4
      <4> QED BY <4>1 DEF RtFound
    <3>5. CASE n = m /\ e = entry
      <4>1. e.pattern = p /\ e.id = Len(routes) + 1
        BY <1>1, <3>5
      <4> QED BY <3>2, <3>5, <4>1
    <3> QED BY <3>3, <3>4, <3>5
  <2>2. ASSUME NEW x \in RtFound(routers) PROVE x \in RtFound(table)
    BY <1>4 DEF RtFound
  <2>3. both \in RtFound(table)
    <3>1. entry \in table[m] /\ both = [method |-> m, pattern |-> entry.pattern, id |-> entry.id]
      BY <1>1, <1>4
    <3> QED BY <3>1 DEF RtFound
  <2> QED BY <2>1, <2>2, <2>3
<1> QED BY <1>3, <1>5 DEF after, table

(* The table is empty before the first registration.                       *)
LEMMA RtStart == RtInit => RtIInv
<1> SUFFICES ASSUME RtInit PROVE RtIInv
  OBVIOUS
<1>1. RtTypes
  BY DEF RtInit, RtTypes
<1>2. RtCurrent
  BY DEF RtInit, RtCurrent
<1>3. RtTypeOK
  BY RtAssumption DEF RtInit, RtTypeOK
<1> QED BY <1>1, <1>2, <1>3 DEF RtIInv

(* Every registration and every request keeps the invariant.               *)
LEMMA RtStep == RtIInv /\ [RtNext]_rtVars => RtIInv'
<1> SUFFICES ASSUME RtIInv, [RtNext]_rtVars PROVE RtIInv'
  OBVIOUS
<1>1. RtTypes /\ RtCurrent /\ rtCalls \in 0 .. RtMost /\ RtListed(rtRoutes) = RtFound(rtRouters)
  BY DEF RtIInv, RtTypeOK, RtListed, RtFound
<1>2. ASSUME RtTypes', RtCurrent', rtCalls' \in 0 .. RtMost, RtListed(rtRoutes') = RtFound(rtRouters')
      PROVE  RtIInv'
  BY <1>2 DEF RtIInv, RtTypeOK, RtListed, RtFound
<1>3. ASSUME RtRegisters PROVE RtCurrent' /\ rtCalls' \in 0 .. RtMost
  BY <1>1, <1>3, RtAssumption DEF RtRegisters, RtCurrent
<1>4. ASSUME NEW m \in RtMethods, NEW p \in RtPatterns, RtAddRoute(m, p) PROVE RtIInv'
  <2>1. RtRegisters /\ UNCHANGED rtFast
    BY <1>4 DEF RtAddRoute
  <2>2. CASE RtInsertable(m, p)
    <3>1. /\ rtRouters' = [rtRouters EXCEPT ![m] = @ \cup {[pattern |-> p, id |-> Len(rtRoutes) + 1]}]
          /\ rtRoutes' = Append(rtRoutes, [method |-> m, pattern |-> p])
      BY <1>4, <2>2 DEF RtAddRoute
    <3>a. /\ rtRoutes \in RtLists /\ rtRouters \in RtTables
          /\ rtRoutes' = RtPushed(rtRoutes, m, p)
          /\ rtRouters' = RtInserted(rtRouters, m, p, Len(rtRoutes) + 1)
      BY <1>1, <3>1 DEF RtTypes, RtLists, RtTables, RtPushed, RtInserted
    <3>2. RtListed(rtRoutes') = RtFound(rtRouters')
      BY <1>1, <3>a, RtInsertKeeps
    <3>3. [pattern |-> p, id |-> Len(rtRoutes) + 1] \in [pattern : RtPatterns, id : Nat]
      BY <1>1 DEF RtTypes
    <3>4. [method |-> m, pattern |-> p] \in [method : RtMethods, pattern : RtPatterns]
      OBVIOUS
    <3>5. RtTypes'
      BY <1>1, <2>1, <3>1, <3>3, <3>4 DEF RtTypes
    <3> QED BY <1>2, <1>3, <2>1, <3>2, <3>5
  <2>3. CASE ~RtInsertable(m, p)
    <3>1. UNCHANGED <<rtRouters, rtRoutes>>
      BY <1>4, <2>3 DEF RtAddRoute
    <3> QED BY <1>1, <1>2, <1>3, <2>1, <3>1 DEF RtTypes
  <2> QED BY <2>2, <2>3
<1>5. ASSUME NEW m \in RtMethods, NEW path \in RtPaths, RtAddFast(m, path) PROVE RtIInv'
  BY <1>1, <1>2, <1>3, <1>5 DEF RtAddFast, RtTypes
<1>6. CASE RtAddStatic
  BY <1>1, <1>2, <1>3, <1>6 DEF RtAddStatic, RtTypes
<1>7. CASE RtSetFallback
  BY <1>1, <1>2, <1>3, <1>7 DEF RtSetFallback, RtTypes
<1>8. ASSUME UNCHANGED <<rtRoutes, rtRouters, rtFast, rtStatic, rtFallback>>
      PROVE  \A m, path : RtServes(m, path)' = RtServes(m, path)
  BY <1>8 DEF RtServes, RtFastFor, RtResolve, RtLookup, RtAt, RtAllowed
<1>9. ASSUME NEW m \in RtAsked, NEW path \in RtPaths, RtAsk(m, path) PROVE RtIInv'
  <2>1. /\ rtAnswer' = [what |-> RtServes(m, path).what, by |-> RtServes(m, path).by,
                        method |-> m, path |-> path]
        /\ UNCHANGED <<rtRoutes, rtRouters, rtFast, rtStatic, rtFallback, rtCalls>>
    BY <1>9 DEF RtAsk
  <2>2. RtServes(m, path)' = RtServes(m, path)
    BY <1>8, <2>1
  <2>3. RtCurrent'
    BY <2>1, <2>2 DEF RtCurrent
  <2> QED BY <1>1, <1>2, <2>1, <2>3 DEF RtTypes
<1>10. CASE UNCHANGED rtVars
  <2>1. \A m, path : RtServes(m, path)' = RtServes(m, path)
    BY <1>8, <1>10 DEF rtVars
  <2>2. RtCurrent'
    BY <1>1, <1>10, <2>1 DEF RtCurrent, rtVars
  <2> QED BY <1>1, <1>2, <1>10, <2>2 DEF RtTypes, rtVars
<1> QED BY <1>4, <1>5, <1>6, <1>7, <1>9, <1>10 DEF RtNext

(* When a request is answered by a pre-built response or a route.          *)
LEMMA RtServedMeans ==
    ASSUME NEW m, NEW path
    PROVE  /\ RtServes(m, path).what \in {"fast", "route"}
                <=> RtFastFor(m, path) # {} \/ RtResolve(m, path) # {}
           /\ RtServes(m, path).what = "405" => RtServes(m, path).by = RtAllowed(path)
BY DEF RtServes

(* A registered method, and HEAD where GET is registered, are served just  *)
(* where allowed_methods names them.                                       *)
LEMMA RtAllowedServed ==
    ASSUME RtTypes, NEW path, NEW m
    PROVE  /\ m \in RtAllowed(path) => RtFastFor(m, path) # {} \/ RtResolve(m, path) # {}
           /\ m \in RtMethods \ RtAllowed(path) => RtFastFor(m, path) = {} /\ RtResolve(m, path) = {}
<1> DEFINE has == {n \in RtMethods : RtAt(n, path) # {} \/ <<n, path>> \in rtFast}
<1>1. RtAllowed(path) = IF "GET" \in has THEN has \cup {"HEAD"} ELSE has
  BY DEF RtAllowed
<1>2. \A n \in RtMethods : RtUpper(n) = n /\ RtLookup(n, path) = RtAt(n, path)
  BY RtAssumption DEF RtUpper, RtLookup
<1>3. RtUpper("HEAD") = "HEAD" /\ RtUpper("GET") = "GET"
  BY RtAssumption DEF RtUpper
<1>4. ASSUME NEW n \in has PROVE RtFastFor(n, path) # {} \/ RtResolve(n, path) # {}
  BY <1>2 DEF RtFastFor, RtResolve
<1>5. ASSUME "GET" \in has PROVE RtFastFor("HEAD", path) # {} \/ RtResolve("HEAD", path) # {}
  BY <1>2, <1>3, <1>5 DEF RtFastFor, RtResolve
<1>6. ASSUME m \in RtMethods, m \notin RtAllowed(path) PROVE RtFastFor(m, path) = {} /\ RtResolve(m, path) = {}
  <2>1. m \notin has /\ (m = "HEAD" => "GET" \notin has)
    BY <1>1, <1>6
  <2>2. RtAt(m, path) = {} /\ <<m, path>> \notin rtFast
    BY <1>6, <2>1
  <2>3. m = "HEAD" => <<"GET", path>> \notin rtFast /\ RtLookup("GET", path) = {}
    <3>1. "GET" \notin RtMethods => <<"GET", path>> \notin rtFast
      BY DEF RtTypes
    <3>2. "GET" \notin RtMethods => RtLookup("GET", path) = {}
      BY <1>3 DEF RtLookup
    <3> QED BY <1>2, <2>1, <3>1, <3>2
  <2> QED BY <1>2, <1>6, <2>2, <2>3 DEF RtFastFor, RtResolve
<1> HIDE DEF has
<1> QED BY <1>1, <1>4, <1>5, <1>6

(* The case of a method: a route does not mind it, a pre-built response    *)
(* and a static file do.                                                   *)
LEMMA RtSpelling ==
    ASSUME RtTypes, NEW m \in RtAsked, NEW path
    PROVE  /\ RtUpper(RtUpper(m)) = RtUpper(m)
           /\ RtUpper("HEAD") = "HEAD" /\ RtUpper("GET") = "GET"
           /\ RtLookup(m, path) = RtLookup(RtUpper(m), path)
           /\ RtResolve(m, path) = RtResolve(RtUpper(m), path)
           /\ m # RtUpper(m) => <<m, path>> \notin rtFast /\ RtFastFor(m, path) = {}
<1>1. RtUpper(RtUpper(m)) = RtUpper(m) /\ RtUpper("HEAD") = "HEAD" /\ RtUpper("GET") = "GET"
  BY RtAssumption DEF RtUpper
<1>2. RtLookup(m, path) = RtLookup(RtUpper(m), path)
  BY <1>1 DEF RtLookup
<1>3. RtResolve(m, path) = RtResolve(RtUpper(m), path)
  BY <1>1, <1>2 DEF RtResolve
<1>4. ASSUME m # RtUpper(m) PROVE <<m, path>> \notin rtFast /\ RtFastFor(m, path) = {}
  <2>1. m \notin RtMethods \cup {"GET", "HEAD"}
    BY <1>4, RtAssumption DEF RtUpper
  <2>2. <<m, path>> \notin rtFast
    BY <2>1 DEF RtTypes
  <2> QED BY <2>1, <2>2 DEF RtFastFor
<1> QED BY <1>1, <1>2, <1>3, <1>4

(* What the invariant gives.                                               *)
LEMMA RtGives == RtIInv => RtSafe
<1> SUFFICES ASSUME RtIInv PROVE RtSafe
  OBVIOUS
<1>1. RtTypes /\ RtCurrent /\ RtTypeOK
  BY DEF RtIInv
<1>2. ASSUME rtAnswer # RtNone
      PROVE  \E m \in RtAsked, path \in RtPaths :
               /\ rtAnswer.method = m /\ rtAnswer.path = path
               /\ rtAnswer.what = RtServes(m, path).what /\ rtAnswer.by = RtServes(m, path).by
  BY <1>1, <1>2 DEF RtCurrent
<1>3. RtAllowTruthful
  <2> SUFFICES ASSUME rtAnswer.what = "405" PROVE RtAllowTruthful
    BY DEF RtAllowTruthful
  <2>1. rtAnswer # RtNone
    BY DEF RtNone
  <2>2. PICK m \in RtAsked, path \in RtPaths :
           /\ rtAnswer.method = m /\ rtAnswer.path = path
           /\ rtAnswer.what = RtServes(m, path).what /\ rtAnswer.by = RtServes(m, path).by
    BY <1>2, <2>1
  <2>3. rtAnswer.by = RtAllowed(path)
    BY <2>2, RtServedMeans
  <2>4. ASSUME RtUpper(m) \in RtAllowed(path)
        PROVE  m # RtUpper(m) /\ RtServes(RtUpper(m), path).what = "fast"
    <3>1. RtFastFor(RtUpper(m), path) # {} \/ RtResolve(RtUpper(m), path) # {}
      BY <1>1, <2>4, RtAllowedServed
    <3>2. RtFastFor(m, path) = {} /\ RtResolve(m, path) = {}
      BY <2>2, RtServedMeans
    <3>3. RtResolve(RtUpper(m), path) = {}
      BY <1>1, <3>2, RtSpelling
    <3> QED BY <3>1, <3>2, <3>3 DEF RtServes
  <2> QED BY <1>1, <2>2, <2>3, <2>4, RtServedMeans, RtAllowedServed DEF RtAllowTruthful
<1>4. RtHeadIsGet
  <2> SUFFICES ASSUME rtAnswer # RtNone, RtUpper(rtAnswer.method) = "HEAD", NEW g \in RtAsked,
                      RtUpper(g) = "GET", g = "GET" <=> rtAnswer.method = "HEAD"
               PROVE  LET get == RtServes(g, rtAnswer.path)
                          own == \/ RtLookup(rtAnswer.method, rtAnswer.path) # {}
                                 \/ <<rtAnswer.method, rtAnswer.path>> \in rtFast
                      IN /\ ~own => rtAnswer.what = get.what /\ rtAnswer.by = get.by
                         /\ get.what \notin {"404", "405"} => rtAnswer.what \notin {"404", "405"}
    BY DEF RtHeadIsGet
  <2>1. PICK m \in RtAsked, path \in RtPaths :
           /\ rtAnswer.method = m /\ rtAnswer.path = path
           /\ rtAnswer.what = RtServes(m, path).what /\ rtAnswer.by = RtServes(m, path).by
    BY <1>2
  <2>2. /\ RtLookup("GET", path) = RtLookup(g, path) /\ RtUpper("GET") = "GET"
        /\ RtResolve(g, path) = RtResolve("GET", path)
        /\ g # "GET" => RtFastFor(g, path) = {}
        /\ m # "HEAD" => RtFastFor(m, path) = {}
    BY <1>1, <2>1, RtSpelling
  <2>3. RtResolve("GET", path) = RtLookup("GET", path)
    BY <2>2 DEF RtResolve
  <2>4. ASSUME RtLookup(m, path) = {}, <<m, path>> \notin rtFast
        PROVE  RtServes(m, path) = RtServes(g, path)
    <3>1. RtFastFor(m, path) = RtFastFor(g, path)
      BY <2>1, <2>2, <2>4 DEF RtFastFor
    <3>2. RtResolve(m, path) = RtResolve(g, path)
      BY <2>1, <2>2, <2>3, <2>4 DEF RtResolve
    <3>3. m \in {"GET", "HEAD"} <=> g \in {"GET", "HEAD"}
      BY <2>1, <2>2, <1>1, RtSpelling
    <3> QED BY <3>1, <3>2, <3>3 DEF RtServes
  <2>5. ASSUME RtLookup(m, path) # {} \/ <<m, path>> \in rtFast
        PROVE  RtServes(m, path).what \in {"fast", "route"}
    BY <2>5 DEF RtServes, RtFastFor, RtResolve
  <2> QED BY <2>1, <2>4, <2>5
<1>5. RtCaseRule
  <2> SUFFICES ASSUME rtAnswer # RtNone,
                      RtServes(RtUpper(rtAnswer.method), rtAnswer.path).what \notin {"fast", "file"}
               PROVE  /\ rtAnswer.what = RtServes(RtUpper(rtAnswer.method), rtAnswer.path).what
                      /\ rtAnswer.by = RtServes(RtUpper(rtAnswer.method), rtAnswer.path).by
    BY DEF RtCaseRule
  <2>1. PICK m \in RtAsked, path \in RtPaths :
           /\ rtAnswer.method = m /\ rtAnswer.path = path
           /\ rtAnswer.what = RtServes(m, path).what /\ rtAnswer.by = RtServes(m, path).by
    BY <1>2
  <2>2. RtFastFor(RtUpper(m), path) = {}
    BY <2>1 DEF RtServes
  <2>3. CASE m = RtUpper(m)
    BY <2>1, <2>3
  <2>4. CASE m # RtUpper(m)
    <3>1. /\ RtFastFor(m, path) = {} /\ RtResolve(m, path) = RtResolve(RtUpper(m), path)
          /\ m \notin {"GET", "HEAD"}
      BY <1>1, <2>4, RtSpelling
    <3>2. \/ RtResolve(RtUpper(m), path) # {}
          \/ ~(rtStatic /\ path \in RtFiles /\ RtUpper(m) \in {"GET", "HEAD"})
      BY <2>1, <2>2 DEF RtServes
    <3> QED BY <2>1, <2>2, <3>1, <3>2 DEF RtServes
  <2> QED BY <2>3, <2>4
<1> QED BY <1>1, <1>3, <1>4, <1>5 DEF RtSafe

(* For every set of methods in any case, of paths and of patterns, however *)
(* many routes are registered: an id a router holds is the index of the    *)
(* route it was registered as, the Allow of a 405 is true, a HEAD is       *)
(* answered as the GET in the same case would be, and the case of a method *)
(* matters for pre-built responses and static files only (router.rs,       *)
(* insert, resolve, fast_response and allowed_methods).                    *)
THEOREM RoutingCorrect == RtSpec => []RtSafe
<1>1. RtInit => RtIInv
  BY RtStart
<1>2. RtIInv /\ [RtNext]_rtVars => RtIInv'
  BY RtStep
<1>3. RtIInv => RtSafe
  BY RtGives
<1> QED BY <1>1, <1>2, <1>3, PTL DEF RtSpec

-----------------------------------------------------------------------------
(* Responses.                                                              *)

(* A Response the mapping takes, given back by a hook, is taken as it was. *)
LEMMA RpHookReturns ==
    ASSUME NEW v \in RpResponses, FromResponse(v).ok
    PROVE  LET x == FromResponse(v)
           IN x.ok = TRUE /\ x.status \in 100 .. 999 /\ FromResponse(ToPy(x)) = x
<1> DEFINE x == FromResponse(v)
           body == BodyOf(v.body)
<1>1. ~RpFailed("response").ok
  BY DEF RpFailed
<1>2. v.status \in 100 .. 999 /\ body.ok
  BY <1>1 DEF FromResponse
<1>3. body.type \in {"json", "text", "octets"}
  <2>1. CASE v.body.kind = "json"
    BY <2>1 DEF BodyOf
  <2>2. CASE v.body.kind \in {"str", "none", "object"}
    BY <2>2 DEF BodyOf
  <2>3. CASE v.body.kind = "bytes"
    BY <2>3 DEF BodyOf
  <2>4. CASE v.body.kind \notin {"json", "str", "none", "object", "bytes"}
    <3>1. body = RpFailed("response")
      BY <2>4 DEF BodyOf
    <3> QED BY <1>1, <1>2, <3>1
  <2> QED BY <2>1, <2>2, <2>3, <2>4
<1> DEFINE type == IF v.type = "derived" THEN body.type ELSE v.type
<1>4. x = [ok |-> TRUE, text |-> body.text, status |-> v.status, type |-> type]
  BY <1>2 DEF FromResponse
<1>5. type # "derived"
  BY <1>3
<1> HIDE DEF x, body, type
<1>6. x.ok = TRUE /\ x.text = body.text /\ x.status = v.status /\ x.type = type
  BY <1>4
<1> DEFINE kind == IF x.text = "raw" THEN "bytes" ELSE "str"
           p == ToPy(x)
<1>7. p.body.kind = kind /\ p.body.text = x.text /\ p.status = x.status /\ p.type = x.type
  BY DEF ToPy, Response, RpValue
<1> HIDE DEF p
<1>8. BodyOf(p.body).ok /\ BodyOf(p.body).text = x.text
  <2>1. CASE kind = "bytes"
    BY <1>7, <2>1 DEF BodyOf
  <2>2. CASE kind = "str"
    BY <1>7, <2>2 DEF BodyOf
  <2> QED BY <2>1, <2>2
<1>9. FromResponse(p) = [ok |-> TRUE, text |-> x.text, status |-> x.status, type |-> x.type]
  BY <1>2, <1>5, <1>6, <1>7, <1>8 DEF FromResponse
<1>10. FromResponse(p) = x
  BY <1>4, <1>6, <1>9
<1> QED BY <1>2, <1>6, <1>10 DEF p, x

(* An error is a status.                                                   *)
LEMMA RpStatuses == \A e : StatusOf(e) \in 400 .. 599
<1> SUFFICES ASSUME NEW e PROVE StatusOf(e) \in 400 .. 599
  OBVIOUS
<1>1. CASE e \in {"overloaded", "closed"}
  BY <1>1 DEF StatusOf
<1>2. CASE e \in {"timeout", "overran"}
  BY <1>2 DEF StatusOf
<1>3. CASE e = "too_large"
  BY <1>3 DEF StatusOf
<1>4. CASE e = "body_timeout"
  BY <1>4 DEF StatusOf
<1>5. CASE e = "body_read"
  BY <1>5 DEF StatusOf
<1>6. CASE e \notin {"overloaded", "closed", "timeout", "overran", "too_large", "body_timeout", "body_read"}
  BY <1>6 DEF StatusOf
<1> QED BY <1>1, <1>2, <1>3, <1>4, <1>5, <1>6

(* One more response under the floor, logged when the roll says so.        *)
LEMMA RpNextLine ==
    ASSUME NEW u \in Nat, NEW e \in Nat, e >= 1
    PROVE  (u + 1 + e - 1) \div e
             = IF u % e = 0 THEN (u + e - 1) \div e + 1 ELSE (u + e - 1) \div e
<1>1. PICK q \in Int, r \in Int : u = q * e + r /\ 0 <= r /\ r < e /\ r = u % e
  OBVIOUS
<1> QED OBVIOUS

(* Ranges of different threads do not meet.                                *)
LEMMA RpApart ==
    \A a, b \in Nat : a < b => a * RpRange + RpRange <= b * RpRange
<1> SUFFICES ASSUME NEW a \in Nat, NEW b \in Nat, a < b
             PROVE  a * RpRange + RpRange <= b * RpRange
  OBVIOUS
<1>1. RpRange \in Nat
  BY RpAssumption
<1>2. \A e \in Nat : e * RpRange \in Nat
  BY <1>1
<1>3. PICK e \in Nat : b = a + 1 + e
  <2>1. b - a - 1 \in Nat /\ b = a + 1 + (b - a - 1)
    OBVIOUS
  <2> QED BY <2>1
<1>4. b * RpRange = a * RpRange + RpRange + e * RpRange
  BY <1>1, <1>3
<1> QED BY <1>1, <1>2, <1>4

(* A step that mints nothing and dispatches nothing.                       *)
LEMMA RpMintsNot ==
    ASSUME RpMinted, UNCHANGED <<rpNextThread, rpNextId>>,
           \A r \in RpReqs : /\ rpReq'[r].id = rpReq[r].id
                             /\ rpReq'[r].pc = "arrived" <=> rpReq[r].pc = "arrived"
    PROVE  RpMinted'
<1>1. RpMinting' = RpMinting /\ RpDispatched' = RpDispatched
  BY DEF RpMinting, RpDispatched
<1>2. PICK rank \in [RpThreads -> 0 .. Cardinality(RpThreads)] : RpRanges(rank)
  BY DEF RpMinted
<1>3. RpRanges(rank)'
  BY <1>1, <1>2 DEF RpRanges
<1> QED BY <1>1, <1>3 DEF RpMinted

(* A request is dispatched.                                                *)
LEMMA RpOneMore ==
    ASSUME RpTypes, NEW r \in RpReqs, rpReq[r].pc = "arrived", rpReq'[r].pc # "arrived",
           \A q \in RpReqs : q # r => rpReq'[q] = rpReq[q]
    PROVE  /\ Cardinality(RpDispatched) \in Nat
           /\ Cardinality(RpDispatched') = Cardinality(RpDispatched) + 1
           /\ Cardinality(RpDispatched) < RpRange
<1>1. RpDispatched' = RpDispatched \cup {r} /\ r \notin RpDispatched
  BY DEF RpDispatched
<1>2. RpDispatched \subseteq RpReqs /\ RpDispatched' \subseteq RpReqs
  BY DEF RpDispatched
<1>3. IsFiniteSet(RpDispatched) /\ IsFiniteSet(RpDispatched')
  BY <1>2, RpAssumption, FS_Subset
<1>4. Cardinality(RpDispatched) \in Nat /\ Cardinality(RpReqs) \in Nat
  BY <1>3, RpAssumption, FS_CardinalityType
<1>5. Cardinality(RpDispatched') = Cardinality(RpDispatched) + 1
  BY <1>1, <1>3, FS_AddElement
<1>6. Cardinality(RpDispatched') <= Cardinality(RpReqs)
  BY <1>2, RpAssumption, FS_Subset
<1> QED BY <1>4, <1>5, <1>6, RpAssumption

(* RequestId::mint: the id is no other request's.                          *)
LEMMA RpMintKeeps ==
    ASSUME RpTypes, RpMinted, NEW r \in RpReqs, NEW t \in RpThreads, rpReq[r].pc = "arrived", Mints(r, t)
    PROVE  RpMinted'
<1> DEFINE card == Cardinality(RpDispatched)
           n == NextIdOf(t)
<1>1. PICK rank \in [RpThreads -> 0 .. Cardinality(RpThreads)] : RpRanges(rank)
  BY DEF RpMinted
<1>2. /\ rpNextId \in [RpThreads -> Nat \cup {RpUnset}] /\ rpNextThread \in Nat
      /\ rpReq \in [RpReqs -> [method : {"GET", "HEAD"}, id : Nat \cup {RpUnset, RpClient},
                               pc : {"arrived", "waiting", "replied", "answered"},
                               handler : {"none", "running", "ended"}]]
  BY DEF RpTypes
<1>3. /\ rpNextId' = [rpNextId EXCEPT ![t] = n + 1]
      /\ rpNextThread' = IF rpNextId[t] = RpUnset THEN rpNextThread + 1 ELSE rpNextThread
      /\ rpReq'[r].id = n /\ rpReq'[r].pc = "waiting"
      /\ \A q \in RpReqs : q # r => rpReq'[q] = rpReq[q]
  BY <1>2 DEF Mints
<1>4. card \in Nat /\ Cardinality(RpDispatched') = card + 1 /\ card < RpRange
  BY <1>3, RpOneMore
<1>5. RpRange \in Nat /\ RpUnset = -1 /\ RpUnset \notin Nat
  BY RpAssumption DEF RpUnset
<1>6. /\ IsFiniteSet(RpMinting) /\ Cardinality(RpMinting) = rpNextThread
      /\ rpNextThread <= Cardinality(RpThreads) /\ Cardinality(RpThreads) \in Nat
  <2>1. RpMinting \subseteq RpThreads
    BY DEF RpMinting
  <2> QED BY <2>1, RpAssumption, FS_Subset, FS_CardinalityType DEF RpMinted
<1>7. \A u \in RpMinting :
         /\ rank[u] \in Nat /\ rpNextId[u] \in Nat /\ u \in RpThreads /\ rank[u] < rpNextThread
         /\ rank[u] * RpRange <= rpNextId[u] /\ rpNextId[u] <= rank[u] * RpRange + card
         /\ rank[u] * RpRange \in Nat
  BY <1>1, <1>2, <1>5 DEF RpRanges, RpMinting
<1>8. \E k \in 0 .. Cardinality(RpThreads) :
         /\ k < rpNextThread' /\ k * RpRange \in Nat /\ k * RpRange <= n /\ n <= k * RpRange + card
         /\ n \in Nat /\ \A u \in RpMinting : u # t => rank[u] # k
         /\ t \in RpMinting => n = rpNextId[t] /\ k = rank[t]
         /\ rpNextThread <= rpNextThread' /\ rpNextThread' = Cardinality(RpMinting \cup {t})
  <2>1. CASE t \in RpMinting
    <3>1. n = rpNextId[t] /\ rpNextThread' = rpNextThread
      BY <1>3, <2>1 DEF NextIdOf, RpMinting
    <3>2. RpMinting \cup {t} = RpMinting
      BY <2>1
    <3>3. \A u \in RpMinting : u # t => rank[u] # rank[t]
      BY <1>1, <2>1 DEF RpRanges
    <3>4. rank[t] \in 0 .. Cardinality(RpThreads)
      BY <1>1
    <3>5. /\ rank[t] < rpNextThread' /\ rank[t] * RpRange \in Nat /\ rank[t] * RpRange <= n
          /\ n <= rank[t] * RpRange + card /\ n \in Nat
      BY <1>7, <2>1, <3>1
    <3>6. rpNextThread <= rpNextThread' /\ rpNextThread' = Cardinality(RpMinting \cup {t})
      <4>1. rpNextThread <= rpNextThread'
        BY <1>2, <3>1
      <4>2. rpNextThread' = Cardinality(RpMinting \cup {t})
        BY <1>6, <3>1, <3>2, Zenon
      <4> QED BY <4>1, <4>2
    <3> HIDE DEF n, card
    <3> WITNESS rank[t] \in 0 .. Cardinality(RpThreads)
    <3> QED BY <3>1, <3>3, <3>5, <3>6
  <2>2. CASE t \notin RpMinting
    <3>1. n = rpNextThread * RpRange /\ rpNextThread' = rpNextThread + 1
      BY <1>3, <2>2 DEF NextIdOf, RpMinting
    <3>2. Cardinality(RpMinting \cup {t}) = rpNextThread + 1
      BY <1>6, <2>2, FS_AddElement
    <3>3. \A u \in RpMinting : rank[u] # rpNextThread
      BY <1>2, <1>7
    <3>4. n \in Nat
      BY <1>2, <1>5, <3>1
    <3> QED BY <1>2, <1>4, <1>6, <2>2, <3>1, <3>2, <3>3, <3>4
  <2> QED BY <2>1, <2>2
<1>9. PICK k \in 0 .. Cardinality(RpThreads) :
         /\ k < rpNextThread' /\ k * RpRange \in Nat /\ k * RpRange <= n /\ n <= k * RpRange + card
         /\ n \in Nat /\ \A u \in RpMinting : u # t => rank[u] # k
         /\ t \in RpMinting => n = rpNextId[t] /\ k = rank[t]
         /\ rpNextThread <= rpNextThread' /\ rpNextThread' = Cardinality(RpMinting \cup {t})
  BY <1>8
<1> HIDE DEF n, card
<1> DEFINE more == [rank EXCEPT ![t] = k]
<1>10. /\ more \in [RpThreads -> 0 .. Cardinality(RpThreads)] /\ more[t] = k
       /\ \A u \in RpThreads : u # t => more[u] = rank[u]
  OBVIOUS
<1> HIDE DEF more
<1>11. RpMinting' = RpMinting \cup {t}
       /\ rpNextId'[t] = n + 1 /\ \A u \in RpThreads : u # t => rpNextId'[u] = rpNextId[u]
  <2>1. rpNextId'[t] = n + 1 /\ \A u \in RpThreads : u # t => rpNextId'[u] = rpNextId[u]
    BY <1>2, <1>3
  <2>2. n + 1 # RpUnset
    BY <1>5, <1>9
  <2> QED BY <2>1, <2>2 DEF RpMinting
<1>12. ASSUME NEW q \in RpReqs, q # r PROVE rpReq[q].id # n
  <2> SUFFICES ASSUME rpReq[q].id = n PROVE FALSE
    OBVIOUS
  <2>1. PICK u \in RpMinting : rank[u] * RpRange <= n /\ n < rpNextId[u]
    BY <1>1, <1>9 DEF RpRanges
  <2>2. CASE u = t
    BY <1>9, <2>1, <2>2
  <2>3. CASE u # t
    <3>1. rank[u] # k /\ rank[u] \in Nat /\ k \in Nat
      BY <1>6, <1>7, <1>9, <2>3
    <3>2. n < rank[u] * RpRange + RpRange /\ n < k * RpRange + RpRange
      BY <1>4, <1>5, <1>7, <1>9, <2>1 DEF card
    <3>3. rank[u] < k => rank[u] * RpRange + RpRange <= k * RpRange
      BY <3>1, RpApart
    <3>4. k < rank[u] => k * RpRange + RpRange <= rank[u] * RpRange
      BY <3>1, RpApart
    <3>5. rank[u] * RpRange \in Nat /\ k * RpRange \in Nat /\ n \in Nat
      BY <1>7, <1>9
    <3>6. rank[u] < k \/ k < rank[u]
      BY <3>1
    <3> QED BY <1>5, <1>9, <2>1, <3>2, <3>3, <3>4, <3>5, <3>6
  <2> QED BY <2>2, <2>3
<1>13. RpRanges(more)'
  <2>1. ASSUME NEW u \in RpMinting'
        PROVE  /\ more[u] < rpNextThread' /\ more[u] * RpRange <= rpNextId'[u]
               /\ rpNextId'[u] <= more[u] * RpRange + Cardinality(RpDispatched')
    <3>1. CASE u = t
      BY <1>4, <1>9, <1>10, <1>11, <3>1 DEF card
    <3>2. CASE u # t
      <4>1. u \in RpMinting /\ more[u] = rank[u] /\ rpNextId'[u] = rpNextId[u]
        BY <1>7, <1>10, <1>11, <3>2
      <4>2. rank[u] < rpNextThread'
        BY <1>2, <1>3, <1>7, <4>1
      <4>3. rpNextId[u] <= rank[u] * RpRange + (card + 1)
        BY <1>4, <1>7, <4>1 DEF card
      <4> QED BY <1>4, <1>7, <4>1, <4>2, <4>3 DEF card
    <3> QED BY <3>1, <3>2
  <2>2. ASSUME NEW u \in RpMinting', NEW w \in RpMinting', more[u] = more[w] PROVE u = w
    BY <1>1, <1>7, <1>9, <1>10, <1>11, <2>2 DEF RpRanges
  <2>3. ASSUME NEW p \in RpReqs, rpReq'[p].id \in Nat
        PROVE  /\ \E u \in RpMinting' : more[u] * RpRange <= rpReq'[p].id /\ rpReq'[p].id < rpNextId'[u]
               /\ \A q \in RpReqs : rpReq'[q].id = rpReq'[p].id => q = p
    <3>1. CASE p = r
      <4>1. t \in RpMinting' /\ more[t] * RpRange <= n /\ n < rpNextId'[t]
        BY <1>9, <1>10, <1>11
      <4> QED BY <1>3, <1>12, <3>1, <4>1
    <3>2. CASE p # r
      <4>1. rpReq'[p].id = rpReq[p].id /\ rpReq[p].id \in Nat
        BY <1>3, <2>3, <3>2
      <4>2. PICK u \in RpMinting : rank[u] * RpRange <= rpReq[p].id /\ rpReq[p].id < rpNextId[u]
        BY <1>1, <4>1 DEF RpRanges
      <4>3. u \in RpMinting' /\ more[u] = rank[u]
        BY <1>7, <1>9, <1>10, <1>11
      <4>4. rpReq[p].id < rpNextId'[u]
        BY <1>7, <1>9, <1>11, <4>1, <4>2
      <4>5. \A q \in RpReqs : rpReq'[q].id = rpReq[p].id => q = p
        BY <1>1, <1>3, <1>12, <3>2, <4>1 DEF RpRanges
      <4> QED BY <4>1, <4>2, <4>3, <4>4, <4>5
    <3> QED BY <3>1, <3>2
  <2> QED BY <2>1, <2>2, <2>3 DEF RpRanges
<1> QED BY <1>9, <1>10, <1>11, <1>13 DEF RpMinted

(* A client's id is nobody's minted one.                                   *)
LEMMA RpClientKeeps ==
    ASSUME RpTypes, RpMinted, NEW r \in RpReqs, rpReq[r].pc = "arrived",
           rpReq' = [rpReq EXCEPT ![r].id = RpClient, ![r].pc = "waiting"],
           UNCHANGED <<rpNextId, rpNextThread>>
    PROVE  RpMinted'
<1>1. PICK rank \in [RpThreads -> 0 .. Cardinality(RpThreads)] : RpRanges(rank)
  BY DEF RpMinted
<1>2. /\ rpReq'[r].id = RpClient /\ rpReq'[r].pc = "waiting" /\ RpClient \notin Nat
      /\ \A q \in RpReqs : q # r => rpReq'[q] = rpReq[q]
  BY DEF RpTypes, RpClient
<1>3. /\ Cardinality(RpDispatched) \in Nat
      /\ Cardinality(RpDispatched') = Cardinality(RpDispatched) + 1
  BY <1>2, RpOneMore
<1>4. RpMinting' = RpMinting
  BY DEF RpMinting
<1>5. \A t \in RpMinting : /\ rpNextId[t] \in Nat /\ rank[t] * RpRange \in Nat
                           /\ rpNextId[t] <= rank[t] * RpRange + Cardinality(RpDispatched)
  BY <1>1, RpAssumption DEF RpRanges, RpMinting, RpTypes
<1>6. \A t \in RpMinting : rpNextId[t] <= rank[t] * RpRange + Cardinality(RpDispatched')
  BY <1>3, <1>5
<1>7. ASSUME NEW p \in RpReqs, rpReq'[p].id \in Nat
      PROVE  /\ \E t \in RpMinting : rank[t] * RpRange <= rpReq'[p].id /\ rpReq'[p].id < rpNextId[t]
             /\ \A q \in RpReqs : rpReq'[q].id = rpReq'[p].id => q = p
  <2>1. p # r /\ rpReq'[p] = rpReq[p]
    BY <1>2, <1>7
  <2>2. rpReq[p].id \in Nat
    BY <1>7, <2>1
  <2>3. \E t \in RpMinting : rank[t] * RpRange <= rpReq[p].id /\ rpReq[p].id < rpNextId[t]
    BY <1>1, <2>2 DEF RpRanges
  <2>4. ASSUME NEW q \in RpReqs, rpReq'[q].id = rpReq[p].id PROVE q = p
    <3>1. q # r
      BY <1>2, <2>2, <2>4
    <3>2. rpReq[q].id = rpReq[p].id
      BY <1>2, <2>4, <3>1
    <3> QED BY <1>1, <2>2, <3>2 DEF RpRanges
  <2> QED BY <2>1, <2>3, <2>4
<1>8. RpRanges(rank)'
  BY <1>1, <1>4, <1>6, <1>7 DEF RpRanges
<1> QED BY <1>4, <1>8 DEF RpMinted

(* What a handler, or the wait for it, comes to.                           *)
RpOutcome(x) == x.ok \in BOOLEAN /\ (x.ok => x \in {FromResponse(v) : v \in RpResponses})

(* A request that was just replied to.                                     *)
LEMMA RpRepliedFits ==
    ASSUME NEW req, NEW reply, NEW errors, NEW sent, req.pc = "replied", RpOutcome(reply),
           ~reply.ok => errors > 0
    PROVE  RpFits(req, reply, errors, sent)
BY DEF RpFits, RpOutcome

(* No request has arrived.                                                 *)
LEMMA RpStart == RpInit => RpIInv
<1> SUFFICES ASSUME RpInit PROVE RpIInv
  OBVIOUS
<1>1. RpTypes
  BY DEF RpInit, RpTypes, RpUnset, RpClient
<1>2. ASSUME NEW r \in RpReqs PROVE RpFits(rpReq[r], rpReply[r], rpErrors[r], rpSent[r])
  <2>1. rpReq[r].pc = "arrived" /\ rpReply[r].ok = FALSE
    BY DEF RpInit, RpNothing
  <2> QED BY <2>1 DEF RpFits
<1>3. RpMinting = {}
  BY DEF RpInit, RpMinting
<1>4. RpMinted
  <2>1. rpNextThread = Cardinality(RpMinting)
    BY <1>3, FS_EmptySet DEF RpInit
  <2>2. \A r \in RpReqs : rpReq[r].id \notin Nat
    BY DEF RpInit, RpUnset
  <2>3. 0 \in 0 .. Cardinality(RpThreads)
    BY RpAssumption, FS_CardinalityType
  <2>4. [t \in RpThreads |-> 0] \in [RpThreads -> 0 .. Cardinality(RpThreads)]
    BY <2>3
  <2>5. RpRanges([t \in RpThreads |-> 0])
    BY <1>3, <2>2 DEF RpRanges
  <2> QED BY <2>1, <2>4, <2>5 DEF RpMinted
<1>5. RpRolled
  BY DEF RpInit, RpRolled
<1>6. RpSampled
  <2>1. RpEvery \in Nat /\ RpEvery >= 1
    BY RpAssumption
  <2>2. (0 + RpEvery - 1) \div RpEvery = 0
    BY <2>1
  <2> QED BY <2>2 DEF RpInit, RpSampled
<1> QED BY <1>1, <1>2, <1>4, <1>5, <1>6 DEF RpIInv

(* Every step of every request keeps the invariant.                        *)
LEMMA RpStep == RpIInv /\ [RpNext]_rpVars => RpIInv'
<1> SUFFICES ASSUME RpIInv, [RpNext]_rpVars PROVE RpIInv'
  OBVIOUS
<1>1. /\ RpTypes /\ RpMinted /\ RpRolled /\ RpSampled
      /\ \A r \in RpReqs : RpFits(rpReq[r], rpReply[r], rpErrors[r], rpSent[r])
  BY DEF RpIInv
<1>2. CASE UNCHANGED rpVars
  BY <1>1, <1>2, RpMintsNot DEF RpIInv, RpTypes, RpRolled, RpSampled, rpVars
<1>3. ASSUME NEW r \in RpReqs, NEW t \in RpThreads, RpDispatch(r, t) PROVE RpIInv'
  <2>1. /\ rpReq[r].pc = "arrived" /\ UNCHANGED <<rpRoll, rpReply, rpErrors, rpSent, rpServed>>
        /\ \/ Mints(r, t)
           \/ /\ rpReq' = [rpReq EXCEPT ![r].id = RpClient, ![r].pc = "waiting"]
              /\ UNCHANGED <<rpNextId, rpNextThread>>
    BY <1>3 DEF RpDispatch
  <2>2. RpMinted'
    BY <1>1, <2>1, RpMintKeeps, RpClientKeeps
  <2>3. NextIdOf(t) \in Nat
    BY <1>1, RpAssumption DEF NextIdOf, RpTypes
  <2>4. \E id \in Nat \cup {RpClient} : rpReq' = [rpReq EXCEPT ![r].id = id, ![r].pc = "waiting"]
    BY <2>1, <2>3 DEF Mints
  <2>5. rpNextThread' \in Nat /\ rpNextId' \in [RpThreads -> Nat \cup {RpUnset}]
    BY <1>1, <2>1, <2>3 DEF RpTypes, Mints
  <2>6. RpTypes'
    BY <1>1, <2>1, <2>4, <2>5 DEF RpTypes
  <2>7. rpReq'[r].pc = "waiting" /\ \A q \in RpReqs : q # r => rpReq'[q] = rpReq[q]
    BY <1>1, <2>4 DEF RpTypes
  <2>8. \A q \in RpReqs : RpFits(rpReq'[q], rpReply'[q], rpErrors'[q], rpSent'[q])
    BY <1>1, <2>1, <2>7 DEF RpFits
  <2>9. RpRolled' /\ RpSampled'
    BY <1>1, <2>1 DEF RpRolled, RpSampled
  <2> QED BY <2>2, <2>6, <2>8, <2>9 DEF RpIInv, RpFits
<1>4. ASSUME NEW r \in RpReqs, RpHandlerStarts(r) PROVE RpIInv'
  <2>1. /\ rpReq' = [rpReq EXCEPT ![r].handler = "running"]
        /\ UNCHANGED <<rpNextThread, rpNextId, rpRoll, rpReply, rpErrors, rpSent, rpServed>>
    BY <1>4 DEF RpHandlerStarts
  <2>2. RpTypes'
    BY <1>1, <2>1 DEF RpTypes
  <2>3. \A q \in RpReqs : /\ rpReq'[q].id = rpReq[q].id /\ rpReq'[q].pc = rpReq[q].pc
                          /\ rpReq'[q].method = rpReq[q].method
    BY <1>1, <2>1 DEF RpTypes
  <2>4. RpMinted'
    BY <1>1, <2>1, <2>3, RpMintsNot
  <2>5. \A q \in RpReqs : RpFits(rpReq'[q], rpReply'[q], rpErrors'[q], rpSent'[q])
    BY <1>1, <2>1, <2>3 DEF RpFits
  <2>6. RpRolled' /\ RpSampled'
    BY <1>1, <2>1 DEF RpRolled, RpSampled
  <2> QED BY <2>2, <2>4, <2>5, <2>6 DEF RpIInv, RpFits
<1>5. ASSUME NEW r \in RpReqs, NEW result, RpOutcome(result), Logs(r, result), rpReq[r].pc = "waiting", rpReply' = [rpReply EXCEPT ![r] = result],
             rpReq'[r].pc = "replied"
      PROVE  /\ rpErrors' \in [RpReqs -> Nat] /\ DOMAIN rpReply' = RpReqs
             /\ RpFits(rpReq'[r], rpReply'[r], rpErrors'[r], rpSent'[r])
             /\ \A q \in RpReqs : q # r => rpErrors'[q] = rpErrors[q] /\ rpReply'[q] = rpReply[q]
  <2>1. rpErrors \in [RpReqs -> Nat] /\ DOMAIN rpReply = RpReqs
    BY <1>1 DEF RpTypes
  <2>2. /\ rpErrors' \in [RpReqs -> Nat]
        /\ ~result.ok => rpErrors'[r] > 0
        /\ \A q \in RpReqs : q # r => rpErrors'[q] = rpErrors[q]
    BY <1>5, <2>1 DEF Logs
  <2>3. rpReply'[r] = result /\ DOMAIN rpReply' = RpReqs
        /\ \A q \in RpReqs : q # r => rpReply'[q] = rpReply[q]
    BY <1>5, <2>1
  <2>4. RpFits(rpReq'[r], result, rpErrors'[r], rpSent'[r])
    BY <1>5, <2>2, RpRepliedFits
  <2> QED BY <2>2, <2>3, <2>4
<1>6. ASSUME NEW r \in RpReqs, RpHandlerEnds(r) PROVE RpIInv'
  <2>1. PICK result \in {FromResponse(v) : v \in RpResponses}
                          \cup {RpFailed(e) : e \in {"python", "panic", "too_large",
                                                    "body_timeout", "body_read", "overran"}} :
           /\ Logs(r, result)
           /\ IF rpReq[r].pc = "waiting" THEN rpReply' = [rpReply EXCEPT ![r] = result]
              ELSE UNCHANGED rpReply
    BY <1>6 DEF RpHandlerEnds
  <2>2. /\ rpReq' = [rpReq EXCEPT ![r].handler = "ended",
                                  ![r].pc = IF @ = "waiting" THEN "replied" ELSE @]
        /\ UNCHANGED <<rpNextThread, rpNextId, rpRoll, rpSent, rpServed>>
    BY <1>6 DEF RpHandlerEnds
  <2>3. /\ \A q \in RpReqs : /\ rpReq'[q].id = rpReq[q].id /\ rpReq'[q].method = rpReq[q].method
                             /\ q # r => rpReq'[q] = rpReq[q]
        /\ rpReq'[r].pc = IF rpReq[r].pc = "waiting" THEN "replied" ELSE rpReq[r].pc
        /\ rpReq' \in [RpReqs -> [method : {"GET", "HEAD"}, id : Nat \cup {RpUnset, RpClient},
                             pc : {"arrived", "waiting", "replied", "answered"},
                             handler : {"none", "running", "ended"}]]
    <3> DEFINE w == IF rpReq[r].pc = "waiting" THEN "replied" ELSE rpReq[r].pc
    <3>1. rpReq' = [rpReq EXCEPT ![r].handler = "ended", ![r].pc = w]
      BY <1>1, <2>2 DEF RpTypes
    <3>2. w \in {"arrived", "waiting", "replied", "answered"}
      BY <1>1 DEF RpTypes
    <3> HIDE DEF w
    <3> DEFINE x == [[rpReq[r] EXCEPT !.handler = "ended"] EXCEPT !.pc = w]
               Reqs == [method : {"GET", "HEAD"}, id : Nat \cup {RpUnset, RpClient},
                        pc : {"arrived", "waiting", "replied", "answered"},
                        handler : {"none", "running", "ended"}]
    <3>3. rpReq \in [RpReqs -> Reqs] /\ rpReq[r] \in Reqs
      BY <1>1 DEF RpTypes
    <3>4. rpReq' = [rpReq EXCEPT ![r] = x]
      BY <3>1, <3>3
    <3>5. x \in Reqs /\ x.id = rpReq[r].id /\ x.method = rpReq[r].method /\ x.pc = w
      BY <3>2, <3>3
    <3> HIDE DEF x, Reqs
    <3>6. /\ rpReq' \in [RpReqs -> Reqs] /\ rpReq'[r] = x
          /\ \A q \in RpReqs : q # r => rpReq'[q] = rpReq[q]
      BY <3>3, <3>4, <3>5
    <3> QED BY <3>5, <3>6 DEF w, Reqs
  <2>4. RpMinted'
    BY <1>1, <2>2, <2>3, RpMintsNot
  <2>5. RpRolled' /\ RpSampled'
    BY <1>1, <2>2 DEF RpRolled, RpSampled
  <2>6. RpOutcome(result)
    <3>1. CASE result \in {RpFailed(e) : e \in {"python", "panic", "too_large",
                                               "body_timeout", "body_read", "overran"}}
      <4>1. result.ok = FALSE
        BY <3>1 DEF RpFailed
      <4> QED BY <4>1 DEF RpOutcome
    <3>2. CASE result \in {FromResponse(v) : v \in RpResponses}
      <4>1. PICK v \in RpResponses : result = FromResponse(v)
        BY <3>2
      <4>2. FromResponse(v).ok = TRUE \/ FromResponse(v).ok = FALSE
        BY DEF FromResponse, RpFailed
      <4>3. result.ok \in BOOLEAN
        BY <4>1, <4>2
      <4> QED BY <3>2, <4>3 DEF RpOutcome
    <3> QED BY <3>1, <3>2
  <2>7. CASE rpReq[r].pc = "waiting"
    <3>1. rpReply' = [rpReply EXCEPT ![r] = result] /\ rpReq'[r].pc = "replied"
      BY <2>1, <2>3, <2>7
    <3>2. /\ rpErrors' \in [RpReqs -> Nat] /\ DOMAIN rpReply' = RpReqs
          /\ RpFits(rpReq'[r], rpReply'[r], rpErrors'[r], rpSent'[r])
          /\ \A q \in RpReqs : q # r => rpErrors'[q] = rpErrors[q] /\ rpReply'[q] = rpReply[q]
      BY <1>5, <2>1, <2>6, <2>7, <3>1
    <3>3. \A q \in RpReqs : RpFits(rpReq'[q], rpReply'[q], rpErrors'[q], rpSent'[q])
      BY <1>1, <2>2, <2>3, <3>2
    <3>4. RpTypes'
      BY <1>1, <2>2, <2>3, <3>2 DEF RpTypes
    <3> QED BY <2>4, <2>5, <3>3, <3>4 DEF RpIInv, RpFits
  <2>8. CASE rpReq[r].pc # "waiting"
    <3>1. UNCHANGED rpReply /\ rpReq'[r].pc = rpReq[r].pc
      BY <2>1, <2>3, <2>8
    <3>2. /\ rpErrors' \in [RpReqs -> Nat] /\ rpErrors'[r] >= rpErrors[r]
          /\ \A q \in RpReqs : q # r => rpErrors'[q] = rpErrors[q]
      BY <1>1, <2>1 DEF Logs, RpTypes
    <3>3. rpErrors[r] \in Nat /\ rpErrors'[r] \in Nat
      BY <1>1, <3>2 DEF RpTypes
    <3>a. rpErrors[r] > 0 => rpErrors'[r] > 0
      BY <3>2, <3>3
    <3>b. RpFits(rpReq[r], rpReply[r], rpErrors[r], rpSent[r])
      BY <1>1
    <3>4. RpFits(rpReq'[r], rpReply'[r], rpErrors'[r], rpSent'[r])
      BY <2>2, <2>3, <3>1, <3>a, <3>b, Zenon DEF RpFits
    <3>5. \A q \in RpReqs : RpFits(rpReq'[q], rpReply'[q], rpErrors'[q], rpSent'[q])
      BY <1>1, <2>2, <2>3, <3>1, <3>2, <3>4
    <3>6. RpTypes'
      BY <1>1, <2>2, <2>3, <3>1, <3>2 DEF RpTypes
    <3> QED BY <2>4, <2>5, <3>5, <3>6 DEF RpIInv, RpFits
  <2> QED BY <2>7, <2>8
<1>7. ASSUME NEW r \in RpReqs, RpGivenUp(r) PROVE RpIInv'
  <2>1. rpReq[r].pc = "waiting" /\ UNCHANGED <<rpNextThread, rpNextId, rpRoll, rpSent, rpServed>>
        /\ \E e : Refuses(r, e)
    BY <1>7 DEF RpGivenUp
  <2>2. PICK e : Refuses(r, e)
    BY <2>1
  <2> DEFINE result == RpFailed(e)
  <2>3. /\ rpReply' = [rpReply EXCEPT ![r] = result] /\ rpReq' = [rpReq EXCEPT ![r].pc = "replied"]
        /\ Logs(r, result) /\ result.ok = FALSE
    BY <2>2 DEF Refuses, RpFailed
  <2> HIDE DEF result
  <2>4. /\ \A q \in RpReqs : rpReq'[q].id = rpReq[q].id /\ (q # r => rpReq'[q] = rpReq[q])
        /\ rpReq'[r].pc = "replied"
        /\ rpReq' \in [RpReqs -> [method : {"GET", "HEAD"}, id : Nat \cup {RpUnset, RpClient},
                             pc : {"arrived", "waiting", "replied", "answered"},
                             handler : {"none", "running", "ended"}]]
    BY <1>1, <2>3 DEF RpTypes
  <2>5. RpMinted'
    BY <1>1, <2>1, <2>4, RpMintsNot
  <2>6. RpRolled' /\ RpSampled'
    BY <1>1, <2>1 DEF RpRolled, RpSampled
  <2>7. /\ rpErrors' \in [RpReqs -> Nat] /\ DOMAIN rpReply' = RpReqs
        /\ RpFits(rpReq'[r], rpReply'[r], rpErrors'[r], rpSent'[r])
        /\ \A q \in RpReqs : q # r => rpErrors'[q] = rpErrors[q] /\ rpReply'[q] = rpReply[q]
    <3>1. RpOutcome(result)
      BY <2>3 DEF RpOutcome
    <3> QED BY <1>5, <2>1, <2>3, <2>4, <3>1
  <2>8. \A q \in RpReqs : RpFits(rpReq'[q], rpReply'[q], rpErrors'[q], rpSent'[q])
    BY <1>1, <2>1, <2>4, <2>7
  <2>9. RpTypes'
    BY <1>1, <2>1, <2>4, <2>7 DEF RpTypes
  <2> QED BY <2>5, <2>6, <2>8, <2>9 DEF RpIInv, RpFits
<1>8. ASSUME NEW r \in RpReqs, NEW t \in RpThreads, RpFinish(r, t) PROVE RpIInv'
  <2> DEFINE resp == Finished(r)
             under == resp.status < RpFloor
             u == rpServed[t].under
  <2>1. /\ rpReq[r].pc = "replied" /\ rpReq' = [rpReq EXCEPT ![r].pc = "answered"]
        /\ rpSent' = [rpSent EXCEPT ![r] = resp]
        /\ rpRoll' = IF Rolls(t, resp.status) THEN [rpRoll EXCEPT ![t] = @ + 1] ELSE rpRoll
        /\ rpServed' = [rpServed EXCEPT
               ![t].under = IF under THEN @ + 1 ELSE @,
               ![t].lines = IF under /\ Samples(t, resp.status) THEN @ + 1 ELSE @,
               ![t].missed = IF ~under /\ ~Samples(t, resp.status) THEN @ + 1 ELSE @]
        /\ UNCHANGED <<rpNextThread, rpNextId, rpReply, rpErrors>>
    BY <1>8 DEF RpFinish
  <2>2. /\ resp.cors /\ resp.status \in 100 .. 999
        /\ resp.text = IF rpReq[r].method = "HEAD" THEN "empty" ELSE resp.length
        /\ resp.quotes # RpUnset => ~rpReply[r].ok
    <3> DEFINE x == Rendered(r)
    <3>1. x.status \in 100 .. 999 /\ (x.quotes # RpUnset => ~rpReply[r].ok)
      <4>1. CASE rpReply[r].ok
        <5>1. PICK v \in RpResponses : rpReply[r] = FromResponse(v)
          BY <1>1, <4>1 DEF RpFits
        <5>2. rpReply[r].status \in 100 .. 999
          BY <4>1, <5>1, RpHookReturns
        <5>3. x.status = rpReply[r].status /\ x.quotes = RpUnset
          BY <4>1 DEF Rendered
        <5> QED BY <5>2, <5>3
      <4>2. CASE ~rpReply[r].ok
        <5>1. x.status = StatusOf(rpReply[r].error)
          BY <4>2 DEF Rendered
        <5>2. x.status \in 400 .. 599
          BY <5>1, RpStatuses
        <5> QED BY <4>2, <5>2
      <4> QED BY <4>1, <4>2
    <3> HIDE DEF x
    <3>2. /\ resp.cors = TRUE /\ resp.status = x.status /\ resp.quotes = x.quotes /\ resp.length = x.text
          /\ resp.text = IF rpReq[r].method = "HEAD" THEN "empty" ELSE x.text
      BY DEF Finished, x
    <3> HIDE DEF resp
    <3> QED BY <3>1, <3>2
  <2> HIDE DEF resp
  <2>3. /\ \A q \in RpReqs : rpReq'[q].id = rpReq[q].id /\ (q # r => rpReq'[q] = rpReq[q])
        /\ rpReq'[r].pc = "answered" /\ rpReq'[r].method = rpReq[r].method
        /\ rpReq' \in [RpReqs -> [method : {"GET", "HEAD"}, id : Nat \cup {RpUnset, RpClient},
                             pc : {"arrived", "waiting", "replied", "answered"},
                             handler : {"none", "running", "ended"}]]
    BY <1>1, <2>1 DEF RpTypes
  <2>4. RpMinted'
    BY <1>1, <2>1, <2>3, RpMintsNot
  <2>5. DOMAIN rpSent' = RpReqs /\ rpSent'[r] = resp /\ \A q \in RpReqs : q # r => rpSent'[q] = rpSent[q]
    BY <1>1, <2>1 DEF RpTypes
  <2>6. \A q \in RpReqs : RpFits(rpReq'[q], rpReply'[q], rpErrors'[q], rpSent'[q])
    <3>1. RpFits(rpReq'[r], rpReply'[r], rpErrors'[r], rpSent'[r])
      BY <1>1, <2>1, <2>2, <2>3, <2>5 DEF RpFits
    <3> QED BY <1>1, <2>1, <2>3, <2>5, <3>1
  <2>7. /\ rpServed[t] \in [under : Nat, lines : Nat, missed : Nat] /\ rpRoll[t] \in Nat /\ u \in Nat
        /\ RpEvery \in Nat /\ RpEvery >= 1 /\ RpFloor \in Int /\ resp.status \in Int
        /\ rpRoll[t] = (IF RpEvery = 1 THEN 0 ELSE u)
        /\ rpServed[t].lines = (u + RpEvery - 1) \div RpEvery /\ rpServed[t].missed = 0
    <3>1. rpServed[t] \in [under : Nat, lines : Nat, missed : Nat] /\ rpRoll[t] \in Nat
      BY <1>1 DEF RpTypes
    <3>2. RpEvery \in Nat /\ RpEvery >= 1 /\ RpFloor \in Int /\ resp.status \in Int
      BY <2>2, RpAssumption
    <3>3. /\ rpRoll[t] = (IF RpEvery = 1 THEN 0 ELSE u)
          /\ rpServed[t].lines = (u + RpEvery - 1) \div RpEvery /\ rpServed[t].missed = 0
      BY <1>1 DEF RpRolled, RpSampled
    <3> QED BY <3>1, <3>2, <3>3
  <2>8. /\ rpServed' \in [RpThreads -> [under : Nat, lines : Nat, missed : Nat]]
        /\ \A s \in RpThreads : s # t => rpServed'[s] = rpServed[s]
        /\ rpServed'[t].under = IF under THEN u + 1 ELSE u
        /\ rpServed'[t].lines = IF under /\ Samples(t, resp.status) THEN rpServed[t].lines + 1
                                ELSE rpServed[t].lines
        /\ rpServed'[t].missed = IF ~under /\ ~Samples(t, resp.status) THEN rpServed[t].missed + 1
                                 ELSE rpServed[t].missed
    <3> DEFINE a == IF under THEN u + 1 ELSE u
               b == IF under /\ Samples(t, resp.status) THEN rpServed[t].lines + 1 ELSE rpServed[t].lines
               c == IF ~under /\ ~Samples(t, resp.status) THEN rpServed[t].missed + 1
                    ELSE rpServed[t].missed
               x == [under |-> a, lines |-> b, missed |-> c]
    <3> HIDE DEF under
    <3>1. rpServed \in [RpThreads -> [under : Nat, lines : Nat, missed : Nat]]
      BY <1>1 DEF RpTypes
    <3>2. rpServed' = [rpServed EXCEPT ![t].under = a, ![t].lines = b, ![t].missed = c]
      BY <2>1, <3>1
    <3>3. a \in Nat /\ b \in Nat /\ c \in Nat
      BY <2>7
    <3> HIDE DEF a, b, c
    <3>4. rpServed' = [rpServed EXCEPT ![t] = x]
      <4> DEFINE y == [[[rpServed[t] EXCEPT !.under = a] EXCEPT !.lines = b] EXCEPT !.missed = c]
      <4>1. rpServed' = [rpServed EXCEPT ![t] = y]
        BY <3>1, <3>2
      <4>2. rpServed[t] \in [under : Nat, lines : Nat, missed : Nat]
        BY <3>1
      <4>3. y = x
        <5> DEFINE z == rpServed[t]
        <5>1. z = [under |-> z.under, lines |-> z.lines, missed |-> z.missed]
          BY <4>2
        <5> HIDE DEF z
        <5>2. [z EXCEPT !.under = a] = [under |-> a, lines |-> z.lines, missed |-> z.missed]
          BY <5>1
        <5>3. [[under |-> a, lines |-> z.lines, missed |-> z.missed] EXCEPT !.lines = b]
                = [under |-> a, lines |-> b, missed |-> z.missed]
          OBVIOUS
        <5>4. [[under |-> a, lines |-> b, missed |-> z.missed] EXCEPT !.missed = c] = x
          OBVIOUS
        <5> QED BY <5>2, <5>3, <5>4 DEF z
      <4> QED BY <4>1, <4>3
    <3>5. x \in [under : Nat, lines : Nat, missed : Nat] /\ x.under = a /\ x.lines = b /\ x.missed = c
      BY <3>3
    <3> HIDE DEF x
    <3>6. /\ rpServed' \in [RpThreads -> [under : Nat, lines : Nat, missed : Nat]] /\ rpServed'[t] = x
          /\ \A s \in RpThreads : s # t => rpServed'[s] = rpServed[s]
      BY <3>1, <3>4, <3>5
    <3> QED BY <3>5, <3>6 DEF a, b, c
  <2>9. /\ rpRoll' \in [RpThreads -> Nat]
        /\ \A s \in RpThreads : s # t => rpRoll'[s] = rpRoll[s]
        /\ rpRoll'[t] = IF RpEvery # 1 /\ under THEN rpRoll[t] + 1 ELSE rpRoll[t]
    BY <1>1, <2>1 DEF RpTypes, Rolls
  <2>10. Samples(t, resp.status) <=> ~under \/ RpEvery = 1 \/ rpRoll[t] % RpEvery = 0
    BY <2>7 DEF Samples
  <2> HIDE DEF under
  <2>11. RpTypes'
    BY <1>1, <2>1, <2>3, <2>5, <2>8, <2>9 DEF RpTypes
  <2>12. RpRolled'
    <3>1. rpRoll'[t] = IF RpEvery = 1 THEN 0 ELSE rpServed'[t].under
      BY <2>7, <2>8, <2>9
    <3> QED BY <1>1, <2>8, <2>9, <3>1 DEF RpRolled
  <2>13. rpServed'[t].missed = 0
    BY <2>7, <2>8, <2>10
  <2>14. rpServed'[t].lines = (rpServed'[t].under + RpEvery - 1) \div RpEvery
    <3>1. CASE ~under
      BY <2>7, <2>8, <3>1
    <3>2. CASE under
      <4>1. (u + 1 + RpEvery - 1) \div RpEvery
               = IF u % RpEvery = 0 THEN (u + RpEvery - 1) \div RpEvery + 1 ELSE (u + RpEvery - 1) \div RpEvery
        BY <2>7, RpNextLine
      <4>2. Samples(t, resp.status) <=> u % RpEvery = 0
        <5>1. CASE RpEvery = 1
          <6>1. u % 1 = 0
            BY <2>7
          <6> QED BY <2>10, <5>1, <6>1
        <5>2. CASE RpEvery # 1
          BY <2>7, <2>10, <3>2, <5>2
        <5> QED BY <5>1, <5>2
      <4> QED BY <2>7, <2>8, <3>2, <4>1, <4>2
    <3> QED BY <3>1, <3>2
  <2>15. RpSampled'
    BY <1>1, <2>8, <2>13, <2>14 DEF RpSampled
  <2> QED BY <2>4, <2>6, <2>11, <2>12, <2>15 DEF RpIInv, RpFits
<1> QED BY <1>2, <1>3, <1>4, <1>6, <1>7, <1>8 DEF RpNext

(* What the invariant gives.                                               *)
LEMMA RpGives == RpIInv => RpSafe
<1> SUFFICES ASSUME RpIInv PROVE RpSafe
  OBVIOUS
<1>1. /\ RpTypes /\ RpMinted /\ RpSampled
      /\ \A r \in RpReqs : RpFits(rpReq[r], rpReply[r], rpErrors[r], rpSent[r])
  BY DEF RpIInv
<1>2. rpNextThread \in 0 .. Cardinality(RpThreads)
  <2>1. RpMinting \subseteq RpThreads
    BY DEF RpMinting
  <2>2. Cardinality(RpMinting) <= Cardinality(RpThreads) /\ Cardinality(RpThreads) \in Nat
    BY <2>1, RpAssumption, FS_Subset, FS_CardinalityType
  <2> QED BY <1>1, <2>2 DEF RpMinted, RpTypes
<1>3. RpTypeOK
  BY <1>1, <1>2 DEF RpTypeOK, RpTypes, RpFits
<1>4. RpQuotable
  <2>1. ASSUME NEW r \in RpReqs, rpReq[r].pc = "answered", rpSent[r].quotes # RpUnset PROVE rpErrors[r] > 0
    BY <1>1, <2>1 DEF RpFits
  <2>2. ASSUME NEW r \in RpReqs, NEW q \in RpReqs \ {r}, rpReq[r].id # RpUnset, rpReq[r].id # RpClient
        PROVE  rpReq[q].id # rpReq[r].id
    <3>1. rpReq[r].id \in Nat
      BY <1>1, <2>2 DEF RpTypes
    <3> QED BY <1>1, <2>2, <3>1 DEF RpMinted, RpRanges
  <2> QED BY <2>1, <2>2 DEF RpQuotable
<1>5. RpHookKeeps
  <2> SUFFICES ASSUME NEW r \in RpReqs, rpReply[r].ok PROVE FromResponse(ToPy(rpReply[r])) = rpReply[r]
    BY DEF RpHookKeeps
  <2>1. PICK v \in RpResponses : rpReply[r] = FromResponse(v)
    BY <1>1 DEF RpFits
  <2>2. FromResponse(v).ok
    BY <2>1
  <2>3. FromResponse(ToPy(FromResponse(v))) = FromResponse(v)
    BY <2>2, RpHookReturns
  <2> QED BY <2>1, <2>3
<1> QED BY <1>1, <1>3, <1>4, <1>5 DEF RpSafe

(* For every number of threads and requests, every sampling rate and       *)
(* floor: finish sends a whole answer, the id a 5xx quotes is in the log   *)
(* and of one request (request_id.rs), a hook that gives back its Response *)
(* changes nothing, and AccessLog::samples logs as configured.             *)
THEOREM ResponsesCorrect == RpSpec => []RpSafe
<1>1. RpInit => RpIInv
  BY RpStart
<1>2. RpIInv /\ [RpNext]_rpVars => RpIInv'
  BY RpStep
<1>3. RpIInv => RpSafe
  BY RpGives
<1> QED BY <1>1, <1>2, <1>3, PTL DEF RpSpec

-----------------------------------------------------------------------------
(* Static files.                                                           *)

(* What a request holds reserved, and what each file, request and debt is. *)
SfHolds(q) == IF q.at = "insert" THEN q.read.len ELSE 0
SfStored(cache) == [f \in SfFiles |-> cache[f].bytes.len]
SfHeld(req) == [r \in SfRequests |-> SfHolds(req[r])]
SfDebt(req) == [r \in SfRequests |-> req[r].owed]

LEMMA SfReadNat ==
    ASSUME NEW f \in SfFiles, NEW v \in SfVersions(f) \cup {0}
    PROVE  ReadOf(f, v) \in Nat /\ ReadOf(f, v) <= SfMax
<1>1. SfLen[f] \in Seq(Nat) /\ SfMax \in Nat
  BY SfAssumption DEF SfFiles
<1>2. v # 0 => SfLen[f][v] \in Nat
  BY <1>1 DEF SfVersions
<1> QED BY <1>1, <1>2 DEF ReadOf, LenOf

(* Versions are numbers.                                                   *)
LEMMA SfVersionsNat ==
    ASSUME NEW f \in SfFiles
    PROVE  SfVersions(f) \subseteq Nat \ {0} /\ 1 \in SfVersions(f)
BY SfAssumption DEF SfFiles, SfVersions

(* The next version is written to the inode the path has, or to a new one. *)
SfWritten(inode, ver, last, i, new, vs) ==
    /\ vs \subseteq Nat \ {0} /\ last + 1 \in vs
    /\ SfDiskOK(inode, ver, last, vs)
    /\ ((i = inode /\ inode # 0) \/ i = last + 1)
    /\ new = [ver EXCEPT ![i] = last + 1]

LEMMA SfWriteDisk ==
    ASSUME NEW vs, NEW inode, NEW ver, NEW last, NEW i, NEW new,
           SfWritten(inode, ver, last, i, new, vs)
    PROVE  /\ SfDiskOK(i, new, last + 1, vs)
           /\ i \in vs
           /\ \A j \in vs : \/ new[j] = ver[j]
                            \/ new[j] = last + 1 /\ (j <= ver[j] => last = ver[j])
           /\ \A j \in vs : ver[j] <= new[j]
<1> USE DEF SfDiskOK, SfWritten
<1>1. i \in vs
  OBVIOUS
<1>2. /\ \A j \in vs : new[j] = IF j = i THEN last + 1 ELSE ver[j]
      /\ new \in [vs -> vs]
  BY <1>1
<1>3. \A j \in vs : ver[j] \in Nat /\ j \in Nat /\ ver[j] <= last
  OBVIOUS
<1>4. last \in Nat /\ i <= last + 1
  OBVIOUS
<1>5. \A j \in vs : new[j] <= last + 1
  BY <1>2, <1>3, <1>4
<1>6. ASSUME NEW k \in vs, NEW j \in vs, NEW v \in vs,
             k <= v, v <= new[k], j <= v, v <= new[j]
      PROVE  k = j
  <2>1. CASE k = i /\ j # i
    BY <1>2, <1>3, <1>4, <1>6, <2>1
  <2>2. CASE k # i /\ j = i
    BY <1>2, <1>3, <1>4, <1>6, <2>2
  <2>3. CASE k # i /\ j # i
    BY <1>2, <1>3, <1>4, <1>6, <2>3
  <2> QED BY <2>1, <2>2, <2>3
<1>7. SfDiskOK(i, new, last + 1, vs)
  BY <1>1, <1>2, <1>4, <1>5, <1>6
<1>8. i <= ver[i] => last = ver[i]
  BY <1>1, <1>3, <1>4
<1> QED BY <1>1, <1>2, <1>3, <1>7, <1>8

(* An inode keeps the versions it has had.                                 *)
LEMMA SfWriteEntry ==
    ASSUME NEW f \in SfFiles, NEW e, NEW ver, NEW new, SfEntryOK(e, ver, f),
           ver \in [SfVersions(f) -> SfVersions(f)], new \in [SfVersions(f) -> SfVersions(f)],
           \A j \in SfVersions(f) : ver[j] <= new[j]
    PROVE  SfEntryOK(e, new, f)
<1>1. CASE e = NoEntry
  BY <1>1 DEF SfEntryOK
<1>2. CASE e # NoEntry
  <2>1. PICK i \in SfVersions(f) : /\ i <= e.stamp /\ e.stamp <= e.bytes.first
                                   /\ e.bytes.first <= e.bytes.last /\ e.bytes.last <= ver[i]
    BY <1>2 DEF SfEntryOK
  <2>2. e \in [bytes : SfContents(f), stamp : SfVersions(f)] /\ Whole(f, e.bytes)
    BY <1>2 DEF SfEntryOK
  <2>3. e.bytes.last \in Nat /\ ver[i] \in Nat /\ new[i] \in Nat /\ ver[i] <= new[i]
    BY <2>2, SfVersionsNat DEF SfContents
  <2>4. e.bytes.last <= new[i]
    BY <2>1, <2>3
  <2> QED BY <2>1, <2>2, <2>4 DEF SfEntryOK
<1> QED BY <1>1, <1>2

(* A version is written: what an inode in use has had since a stamp is     *)
(* still seen, and what was seen still is.                                 *)
SfRewritten(ver, new, last, v, f) ==
    /\ ver \in [SfVersions(f) -> SfVersions(f)] /\ new \in [SfVersions(f) -> SfVersions(f)]
    /\ last \in Nat /\ v = last + 1
    /\ \A j \in SfVersions(f) : new[j] = ver[j] \/ (new[j] = v /\ (j <= ver[j] => last = ver[j]))
    /\ \A j \in SfVersions(f) : ver[j] <= new[j]

LEMMA SfWriteSince ==
    ASSUME NEW f \in SfFiles, NEW stamp \in Nat, NEW i \in SfVersions(f), NEW seen, NEW seen2,
           NEW ver, NEW new, NEW last, NEW v, SfRewritten(ver, new, last, v, f),
           i <= stamp, stamp <= ver[i], SfSince(stamp, i, seen, ver, f),
           seen \subseteq seen2, v \in seen2
    PROVE  stamp <= new[i] /\ SfSince(stamp, i, seen2, new, f)
<1>1. \A j \in SfVersions(f) : ver[j] \in Nat /\ new[j] \in Nat /\ j \in Nat
  BY SfVersionsNat DEF SfRewritten
<1>2. i <= ver[i] /\ ver[i] <= new[i] /\ last \in Nat /\ v = last + 1
      /\ (new[i] = ver[i] \/ (new[i] = v /\ last = ver[i]))
  BY <1>1 DEF SfRewritten
<1>3. stamp <= new[i]
  BY <1>1, <1>2
<1>4. ASSUME NEW w \in SfVersions(f), stamp <= w, w <= new[i] PROVE w \in seen2
  <2>1. CASE w <= ver[i]
    BY <1>4, <2>1 DEF SfSince
  <2>2. CASE ~(w <= ver[i])
    <3>1. w = v
      BY <1>1, <1>2, <1>4, <2>2
    <3> QED BY <3>1
  <2> QED BY <2>1, <2>2
<1> QED BY <1>3, <1>4 DEF SfSince

(* What is fresh stays so when more has been seen.                         *)
LEMMA SfHadMore ==
    \A f, bytes, seen, seen2 : SfHad(f, bytes, seen) /\ seen \subseteq seen2
                                  => SfHad(f, bytes, seen2)
BY DEF SfHad

(* What a request knows stays true when the file is written.               *)
LEMMA SfWriteReq ==
    ASSUME NEW f \in SfFiles, NEW q \in SfRecord(f), NEW seen, NEW seen2, NEW a, NEW ver, NEW new,
           NEW disk, NEW v, NEW last, SfRewritten(ver, new, last, v, f),
           SfReqOK(q, seen, a, ver, disk, f), seen \subseteq seen2,
           q.at \notin {"idle", "answered"} => v \in seen2
    PROVE  SfReqOK(q, seen2, a, new, v, f)
<1> DEFINE vs == SfVersions(f)
<1>1. \A j \in vs : ver[j] \in Nat /\ new[j] \in Nat /\ j \in Nat /\ ver[j] <= new[j]
                    /\ new[j] \in {ver[j], v}
  BY SfVersionsNat DEF SfRewritten
<1>1a. q.stamp \in Nat /\ q.fd \in Nat /\ q.read.first \in Nat /\ q.read.last \in Nat
  BY SfVersionsNat DEF SfRecord, SfContents
<1>2. q.at = "lookup" =>
          \E i \in vs : /\ i <= q.stamp /\ q.stamp <= new[i]
                        /\ SfSince(q.stamp, i, seen2, new, f)
  <2> SUFFICES ASSUME q.at = "lookup"
               PROVE  \E i \in vs : /\ i <= q.stamp /\ q.stamp <= new[i]
                                    /\ SfSince(q.stamp, i, seen2, new, f)
    OBVIOUS
  <2>1. PICK i \in vs : /\ i <= q.stamp /\ q.stamp <= ver[i]
                        /\ SfSince(q.stamp, i, seen, ver, f)
    BY DEF SfReqOK
  <2>2. q.stamp <= new[i] /\ SfSince(q.stamp, i, seen2, new, f)
    BY <1>1a, <2>1, SfWriteSince
  <2> QED BY <2>1, <2>2
<1>3. q.at = "fstat" => q.fd \in vs /\ q.fd <= new[q.fd] /\ new[q.fd] \in seen2
  <2> SUFFICES ASSUME q.at = "fstat"
               PROVE  q.fd \in vs /\ q.fd <= new[q.fd] /\ new[q.fd] \in seen2
    OBVIOUS
  <2>1. q.fd \in vs /\ q.fd <= ver[q.fd] /\ ver[q.fd] \in seen
    BY DEF SfReqOK
  <2>2. v \in seen2
    OBVIOUS
  <2>3. q.fd <= new[q.fd]
    BY <1>1, <2>1
  <2>4. new[q.fd] \in seen2
    BY <1>1, <2>1, <2>2
  <2> QED BY <2>1, <2>3, <2>4
<1>4. q.at \in {"read", "reserve", "insert"} =>
          q.fd \in vs /\ q.fd <= q.stamp /\ q.stamp <= new[q.fd]
  <2> SUFFICES ASSUME q.at \in {"read", "reserve", "insert"}
               PROVE  q.fd \in vs /\ q.fd <= q.stamp /\ q.stamp <= new[q.fd]
    OBVIOUS
  <2>1. q.fd \in vs /\ q.fd <= q.stamp /\ q.stamp <= ver[q.fd]
    BY DEF SfReqOK
  <2>2. q.stamp <= new[q.fd]
    BY <1>1, <1>1a, <2>1
  <2> QED BY <2>1, <2>2
<1>5. q.at = "read" => SfSince(q.stamp, q.fd, seen2, new, f) /\ SfReading(q, new, f)
  <2> SUFFICES ASSUME q.at = "read"
               PROVE  SfSince(q.stamp, q.fd, seen2, new, f) /\ SfReading(q, new, f)
    OBVIOUS
  <2>1. /\ q.fd \in vs /\ q.fd <= q.stamp /\ q.stamp <= ver[q.fd]
        /\ SfSince(q.stamp, q.fd, seen, ver, f) /\ SfReading(q, ver, f)
    BY DEF SfReqOK
  <2>2. SfSince(q.stamp, q.fd, seen2, new, f)
    BY <1>1a, <2>1, SfWriteSince
  <2>3. SfReading(q, new, f)
    BY <1>1, <1>1a, <2>1 DEF SfReading
  <2> QED BY <2>2, <2>3
<1>6. q.at \in {"reserve", "insert"} =>
          q.stamp <= q.read.first /\ q.read.last <= new[q.fd] /\ q.read.first # 0
  <2> SUFFICES ASSUME q.at \in {"reserve", "insert"}
               PROVE  q.stamp <= q.read.first /\ q.read.last <= new[q.fd] /\ q.read.first # 0
    OBVIOUS
  <2>1. q.fd \in vs /\ q.stamp <= q.read.first /\ q.read.last <= ver[q.fd] /\ q.read.first # 0
    BY DEF SfReqOK
  <2>2. q.read.last <= new[q.fd]
    BY <1>1, <1>1a, <2>1
  <2> QED BY <2>1, <2>2
<1>7. /\ a.is = "file" => SfHad(f, a.bytes, seen2)
      /\ q.at \in {"reserve", "insert", "pays"} /\ q.read.first # 0 => SfHad(f, q.read, seen2)
  BY SfHadMore DEF SfReqOK
<1>8. /\ q.at # "answered" => a = NoFile
      /\ q.at \notin {"idle", "answered"} => v \in seen2
      /\ q.at # "pays" => q.owed = 0
  BY DEF SfReqOK
<1> QED BY <1>2, <1>3, <1>4, <1>5, <1>6, <1>7, <1>8 DEF SfReqOK

(* The counter's three terms.                                              *)
LEMMA SfTerms ==
    /\ SfCached = SumOver(SfStored(sfCache), SfFiles)
    /\ SfReserved = SumOver(SfHeld(sfReq), SfRequests)
    /\ SfOwed = SumOver(SfDebt(sfReq), SfRequests)
BY DEF SfCached, SfReserved, SfOwed, SfStored, SfHeld, SfDebt, SfHolds, SfReadLen

LEMMA SfTermsNext ==
    /\ SfCached' = SumOver(SfStored(sfCache'), SfFiles)
    /\ SfReserved' = SumOver(SfHeld(sfReq'), SfRequests)
    /\ SfOwed' = SumOver(SfDebt(sfReq'), SfRequests)
BY DEF SfCached, SfReserved, SfOwed, SfStored, SfHeld, SfDebt, SfHolds, SfReadLen

(* Entries of the cache and what requests hold and owe are numbers.        *)
LEMMA SfEntryNat ==
    ASSUME NEW f \in SfFiles, NEW e, NEW ver, SfEntryOK(e, ver, f)
    PROVE  e \in [bytes : SfContents(f), stamp : SfVersions(f) \cup {0}] /\ e.bytes.len \in Nat
<1>1. CASE e = NoEntry
  <2>1. NoBytes \in SfContents(f) /\ NoBytes.len \in Nat
    BY DEF NoBytes, SfContents
  <2> QED BY <1>1, <2>1 DEF NoEntry
<1>2. CASE e # NoEntry
  BY <1>2 DEF SfEntryOK, SfContents
<1> QED BY <1>1, <1>2

LEMMA SfHoldsNat ==
    ASSUME NEW f \in SfFiles, NEW q \in SfRecord(f)
    PROVE  SfHolds(q) \in Nat /\ q.owed \in Nat
BY DEF SfRecord, SfContents, SfHolds

(* The record a request starts and ends with.                              *)
LEMMA SfAtType ==
    ASSUME NEW f, NEW step \in SfSteps
    PROVE  /\ At(step) \in SfRecord(f) /\ At(step).at = step /\ At(step).owed = 0
           /\ At(step).read = NoBytes /\ NoBytes \in SfContents(f) /\ NoBytes.first = 0
           /\ NoBytes.len = 0 /\ NoBytes.last = 0
<1>1. /\ NoBytes \in SfContents(f) /\ NoBytes.first = 0 /\ NoBytes.len = 0 /\ NoBytes.last = 0
  BY DEF NoBytes, SfContents
<1> HIDE DEF NoBytes
<1> QED BY <1>1 DEF At, SfRecord

LEMMA SfOfFile == \A r \in SfRequests : SfOf[r] \in SfFiles
BY SfAssumption DEF SfFiles

SfBalance(bytes, cache, req) ==
    LET stored == SumOver(SfStored(cache), SfFiles)
        held == SumOver(SfHeld(req), SfRequests)
    IN /\ bytes = stored + held + SumOver(SfDebt(req), SfRequests)
       /\ stored + held <= SfCap

(* The counter stays exact when one entry and one request change.          *)
SfMoved(r, e, q, cache, cache2, req, req2) ==
    /\ \A g \in SfFiles : cache[g].bytes.len \in Nat
    /\ e.bytes.len \in Nat
    /\ \A g \in SfFiles : cache2[g] = IF g = SfOf[r] THEN e ELSE cache[g]
    /\ \A p \in SfRequests : SfHolds(req[p]) \in Nat /\ req[p].owed \in Nat
    /\ SfHolds(q) \in Nat /\ q.owed \in Nat
    /\ \A p \in SfRequests : req2[p] = IF p = r THEN q ELSE req[p]
SfCounts(r, e, q, bytes, bytes2, cache, req) ==
    LET f == SfOf[r] IN
    /\ bytes2 \in Int
    /\ bytes2 + cache[f].bytes.len + SfHolds(req[r]) + req[r].owed
          = bytes + e.bytes.len + SfHolds(q) + q.owed
    /\ \/ bytes2 <= SfCap
       \/ e.bytes.len + SfHolds(q) <= cache[f].bytes.len + SfHolds(req[r])

LEMMA SfBalanceMoves ==
    ASSUME NEW r \in SfRequests, NEW e, NEW q, NEW cache, NEW cache2, NEW req, NEW req2,
           NEW bytes, NEW bytes2, SfBalance(bytes, cache, req),
           SfMoved(r, e, q, cache, cache2, req, req2),
           SfCounts(r, e, q, bytes, bytes2, cache, req)
    PROVE  SfBalance(bytes2, cache2, req2)
<1> DEFINE f == SfOf[r]
           c == SfStored(cache)
           c2 == SfStored(cache2)
           h == SfHeld(req)
           h2 == SfHeld(req2)
           o == SfDebt(req)
           o2 == SfDebt(req2)
<1>1. f \in SfFiles /\ IsFiniteSet(SfFiles) /\ IsFiniteSet(SfRequests) /\ SfCap \in Nat
  BY SfOfFile, SfAssumption DEF SfFiles
<1>2. /\ c \in [SfFiles -> Nat] /\ c2 \in [SfFiles -> Nat]
      /\ \A g \in SfFiles \ {f} : c[g] = c2[g]
      /\ c[f] = cache[f].bytes.len /\ c2[f] = e.bytes.len
  BY <1>1 DEF SfStored, SfMoved
<1>3. /\ h \in [SfRequests -> Nat] /\ h2 \in [SfRequests -> Nat]
      /\ \A p \in SfRequests \ {r} : h[p] = h2[p]
      /\ h[r] = SfHolds(req[r]) /\ h2[r] = SfHolds(q)
  BY DEF SfHeld, SfMoved
<1>4. /\ o \in [SfRequests -> Nat] /\ o2 \in [SfRequests -> Nat]
      /\ \A p \in SfRequests \ {r} : o[p] = o2[p]
      /\ o[r] = req[r].owed /\ o2[r] = q.owed
  BY DEF SfDebt, SfMoved
<1>5. bytes = SumOver(c, SfFiles) + SumOver(h, SfRequests) + SumOver(o, SfRequests)
      /\ SumOver(c, SfFiles) + SumOver(h, SfRequests) <= SfCap
  BY DEF SfBalance
<1>6. bytes2 \in Int /\ bytes2 + c[f] + h[r] + o[r] = bytes + c2[f] + h2[r] + o2[r]
  BY <1>2, <1>3, <1>4 DEF SfCounts
<1>6a. bytes2 <= SfCap \/ c2[f] + h2[r] <= c[f] + h[r]
  BY <1>2, <1>3, <1>4 DEF SfCounts
<1> HIDE DEF f, c, c2, h, h2, o, o2
<1>7. SumOver(c2, SfFiles) + c[f] = SumOver(c, SfFiles) + c2[f]
  BY <1>1, <1>2, SumChange
<1>8. SumOver(h2, SfRequests) + h[r] = SumOver(h, SfRequests) + h2[r]
  BY <1>1, <1>3, SumChange
<1>9. SumOver(o2, SfRequests) + o[r] = SumOver(o, SfRequests) + o2[r]
  BY <1>1, <1>4, SumChange
<1>10. SumOver(c, SfFiles) \in Nat /\ SumOver(c2, SfFiles) \in Nat
  <2>1. (\A x \in SfFiles : c[x] \in Nat) /\ (\A x \in SfFiles : c2[x] \in Nat)
    BY <1>2
  <2> QED BY <2>1, <1>1, SumNat
<1>11. /\ SumOver(h, SfRequests) \in Nat /\ SumOver(h2, SfRequests) \in Nat
       /\ SumOver(o, SfRequests) \in Nat /\ SumOver(o2, SfRequests) \in Nat
  <2>1. /\ \A x \in SfRequests : h[x] \in Nat
        /\ \A x \in SfRequests : h2[x] \in Nat
        /\ \A x \in SfRequests : o[x] \in Nat
        /\ \A x \in SfRequests : o2[x] \in Nat
    BY <1>3, <1>4
  <2> QED BY <2>1, <1>1, SumNat
<1>12. /\ c[f] \in Nat /\ c2[f] \in Nat /\ h[r] \in Nat /\ h2[r] \in Nat
       /\ o[r] \in Nat /\ o2[r] \in Nat
  BY <1>1, <1>2, <1>3, <1>4
<1>13. bytes2 = SumOver(c2, SfFiles) + SumOver(h2, SfRequests) + SumOver(o2, SfRequests)
  <2> DEFINE C == SumOver(c, SfFiles)
             D == SumOver(c2, SfFiles)
             H == SumOver(h, SfRequests)
             K == SumOver(h2, SfRequests)
             O == SumOver(o, SfRequests)
             P == SumOver(o2, SfRequests)
  <2>1. /\ C \in Nat /\ D \in Nat /\ H \in Nat /\ K \in Nat /\ O \in Nat /\ P \in Nat
        /\ D + c[f] = C + c2[f] /\ K + h[r] = H + h2[r] /\ P + o[r] = O + o2[r]
        /\ bytes = C + H + O
    BY <1>5, <1>7, <1>8, <1>9, <1>10, <1>11
  <2> HIDE DEF C, D, H, K, O, P
  <2>2. bytes2 + c[f] + h[r] + o[r] = C + H + O + c2[f] + h2[r] + o2[r]
    BY <1>6, <2>1
  <2>3. bytes2 = D + K + P
    BY <1>6, <1>12, <2>1, <2>2
  <2> QED BY <2>3 DEF D, K, P
<1>14. SumOver(c2, SfFiles) + SumOver(h2, SfRequests) <= SfCap
  BY <1>1, <1>5, <1>6, <1>6a, <1>7, <1>8, <1>10, <1>11, <1>12, <1>13
<1> QED BY <1>13, <1>14 DEF SfBalance, c2, h2, o2

(* A request's step: its record, what it has seen, its answer and its      *)
(* file's entry become q, s, a and e.                                      *)
SfTakesStep(r, q, s, a, e) ==
    /\ UNCHANGED sfFiles
    /\ sfReq' = [sfReq EXCEPT ![r] = q]
    /\ DOMAIN sfSeen' = SfRequests /\ DOMAIN sfAnswer' = SfRequests /\ DOMAIN sfCache' = SfFiles
    /\ \A p \in SfRequests : sfSeen'[p] = IF p = r THEN s ELSE sfSeen[p]
    /\ \A p \in SfRequests : sfAnswer'[p] = IF p = r THEN a ELSE sfAnswer[p]
    /\ \A f \in SfFiles : sfCache'[f] = IF f = SfOf[r] THEN e ELSE sfCache[f]

(* What such a step leaves to show of the invariant.                       *)
LEMMA SfRequestStep ==
    ASSUME SfIInv, NEW r \in SfRequests,
           NEW q \in SfRecord(SfOf[r]), NEW s \in SUBSET (SfVersions(SfOf[r]) \cup {0}),
           NEW a, NEW e, SfTakesStep(r, q, s, a, e),
           SfEntryOK(e, sfVer[SfOf[r]], SfOf[r]),
           SfReqOK(q, s, a, sfVer[SfOf[r]], SfOnDisk(SfOf[r]), SfOf[r]),
           SfCounts(r, e, q, sfBytes, sfBytes', sfCache, sfReq)
    PROVE  SfIInv'
<1> USE DEF SfTakesStep
<1> DEFINE f == SfOf[r]
<1>1. f \in SfFiles
  BY SfOfFile
<1>2. sfInode' = sfInode /\ sfVer' = sfVer /\ sfLast' = sfLast
  BY DEF sfFiles
<1>3. \A p \in SfRequests : sfReq'[p] = IF p = r THEN q ELSE sfReq[p]
  BY DEF SfIInv, SfTypes
<1>4. \A p \in SfRequests : sfReq[p] \in SfRecord(SfOf[p]) /\ sfReq'[p] \in SfRecord(SfOf[p])
  <2>1. \A p \in SfRequests : sfReq[p] \in SfRecord(SfOf[p])
    BY DEF SfIInv, SfTypes
  <2> QED BY <2>1, <1>3
<1>6. SfTypes'
  <2>2. \A p \in SfRequests : sfSeen'[p] \subseteq SfVersions(SfOf[p]) \cup {0}
    BY DEF SfIInv, SfTypes
  <2>3. DOMAIN sfInode' = SfFiles /\ DOMAIN sfVer' = SfFiles /\ DOMAIN sfLast' = SfFiles
    BY <1>2 DEF SfIInv, SfTypes
  <2>4. DOMAIN sfReq' = SfRequests
    BY DEF SfIInv, SfTypes
  <2> QED BY <1>4, <2>2, <2>3, <2>4 DEF SfTypes
<1>7. \A g \in SfFiles : SfEntryOK(sfCache[g], sfVer[g], g)
                        /\ SfEntryOK(sfCache'[g], sfVer[g], g)
  BY DEF SfIInv
<1>8. (\A g \in SfFiles : /\ SfDiskOK(sfInode[g], sfVer[g], sfLast[g], SfVersions(g))
                          /\ SfEntryOK(sfCache[g], sfVer[g], g))'
  BY <1>2, <1>7 DEF SfIInv
<1>9. (\A p \in SfRequests : SfReqOK(sfReq[p], sfSeen[p], sfAnswer[p], sfVer[SfOf[p]],
                                     SfOnDisk(SfOf[p]), SfOf[p]))'
  <2>1. \A g \in SfFiles : SfOnDisk(g)' = SfOnDisk(g)
    BY <1>2 DEF SfOnDisk
  <2>2. \A p \in SfRequests : SfReqOK(sfReq'[p], sfSeen'[p], sfAnswer'[p], sfVer[SfOf[p]],
                                     SfOnDisk(SfOf[p]), SfOf[p])
    BY <1>3 DEF SfIInv
  <2>3. \A p \in SfRequests : SfOnDisk(SfOf[p])' = SfOnDisk(SfOf[p])
    BY <2>1, SfOfFile
  <2> QED BY <1>2, <2>2, <2>3
<1>10. SfBalance(sfBytes, sfCache, sfReq)
  BY SfTerms DEF SfIInv, SfBalance
<1>11. SfBalance(sfBytes', sfCache', sfReq')
  <2>1. \A g \in SfFiles : sfCache[g].bytes.len \in Nat
    BY <1>7, SfEntryNat
  <2>2. e.bytes.len \in Nat
    BY <1>1, SfEntryNat
  <2>3. \A p \in SfRequests : SfHolds(sfReq[p]) \in Nat /\ sfReq[p].owed \in Nat
    BY <1>4, SfHoldsNat, SfOfFile
  <2>4. SfHolds(q) \in Nat /\ q.owed \in Nat
    BY <1>1, SfHoldsNat
  <2>5. SfMoved(r, e, q, sfCache, sfCache', sfReq, sfReq')
    BY <1>3, <2>1, <2>2, <2>3, <2>4 DEF SfMoved
  <2> QED BY <1>10, <2>5, SfBalanceMoves
<1>12. (sfBytes = SfCached + SfReserved + SfOwed /\ SfCached + SfReserved <= SfCap)'
  BY <1>11, SfTermsNext DEF SfBalance
<1> QED BY <1>6, <1>8, <1>9, <1>12 DEF SfIInv

(* The counter and the three terms it is the sum of are numbers.           *)
LEMMA SfBytesNat ==
    ASSUME SfIInv
    PROVE  sfBytes \in Nat /\ SfCached \in Nat /\ SfReserved \in Nat /\ SfOwed \in Nat
           /\ SfCached <= SfCap
<1>1. \A g \in SfFiles : SfStored(sfCache)[g] \in Nat
  BY SfEntryNat DEF SfStored, SfIInv
<1>2. \A p \in SfRequests : sfReq[p] \in SfRecord(SfOf[p])
  BY DEF SfIInv, SfTypes, SfRecord
<1>3. \A p \in SfRequests : SfHeld(sfReq)[p] \in Nat
  BY <1>2, SfHoldsNat, SfOfFile DEF SfHeld
<1>4. \A p \in SfRequests : SfDebt(sfReq)[p] \in Nat
  BY <1>2, SfHoldsNat, SfOfFile DEF SfDebt
<1>5. IsFiniteSet(SfFiles) /\ IsFiniteSet(SfRequests)
  BY SfAssumption DEF SfFiles
<1>6. SfCached \in Nat
  BY <1>1, <1>5, SfTerms, SumNat
<1>7. SfReserved \in Nat
  BY <1>3, <1>5, SfTerms, SumNat
<1>8. SfOwed \in Nat
  BY <1>4, <1>5, SfTerms, SumNat
<1> QED BY <1>6, <1>7, <1>8, SfAssumption DEF SfIInv

(* A request's record after a step, and what it was.                       *)
LEMMA SfOld ==
    ASSUME SfIInv, NEW r \in SfRequests
    PROVE  /\ sfReq[r] \in SfRecord(SfOf[r])
           /\ SfOf[r] \in SfFiles /\ SfVersions(SfOf[r]) \subseteq Nat \ {0}
           /\ sfSeen[r] \subseteq SfVersions(SfOf[r]) \cup {0}
           /\ SfDiskOK(sfInode[SfOf[r]], sfVer[SfOf[r]], sfLast[SfOf[r]], SfVersions(SfOf[r]))
           /\ SfEntryOK(sfCache[SfOf[r]], sfVer[SfOf[r]], SfOf[r])
           /\ SfReqOK(sfReq[r], sfSeen[r], sfAnswer[r], sfVer[SfOf[r]],
                      SfOnDisk(SfOf[r]), SfOf[r])
           /\ SfHolds(sfReq[r]) \in Nat /\ sfReq[r].owed \in Nat
           /\ sfCache[SfOf[r]].bytes.len \in Nat
           /\ sfBytes \in Nat
<1>1. SfOf[r] \in SfFiles
  BY SfOfFile
<1>2. SfVersions(SfOf[r]) \subseteq Nat \ {0}
  BY <1>1, SfVersionsNat
<1>3. sfReq[r] \in SfRecord(SfOf[r]) /\ sfSeen[r] \subseteq SfVersions(SfOf[r]) \cup {0}
  BY DEF SfIInv, SfTypes, SfRecord
<1>4. SfEntryOK(sfCache[SfOf[r]], sfVer[SfOf[r]], SfOf[r])
  BY <1>1 DEF SfIInv
<1>5. SfHolds(sfReq[r]) \in Nat /\ sfReq[r].owed \in Nat
  BY <1>1, <1>3, SfHoldsNat
<1>6. sfCache[SfOf[r]].bytes.len \in Nat
  BY <1>1, <1>4, SfEntryNat
<1>7. sfBytes \in Nat
  BY SfBytesNat
<1> QED BY <1>1, <1>2, <1>3, <1>4, <1>5, <1>6, <1>7 DEF SfIInv

(* A step that leaves the cache alone and neither reserves nor pays.       *)
LEMMA SfQuietStep ==
    ASSUME SfIInv, UNCHANGED <<sfFiles, sfShared, sfSeen>>, NEW r \in SfRequests,
           NEW q \in SfRecord(SfOf[r]), NEW a,
           sfReq' = [sfReq EXCEPT ![r] = q],
           DOMAIN sfAnswer' = SfRequests,
           \A p \in SfRequests : sfAnswer'[p] = IF p = r THEN a ELSE sfAnswer[p],
           sfReq[r].at \notin {"insert", "pays"}, q.at # "insert", q.owed = 0,
           SfReqOK(q, sfSeen[r], a, sfVer[SfOf[r]], SfOnDisk(SfOf[r]), SfOf[r])
    PROVE  SfIInv'
<1>1. UNCHANGED sfFiles /\ sfCache' = sfCache /\ sfBytes' = sfBytes /\ sfSeen' = sfSeen
  BY DEF sfShared
<1>2. DOMAIN sfSeen' = SfRequests /\ DOMAIN sfCache' = SfFiles
  BY <1>1 DEF SfIInv, SfTypes
<1> DEFINE f == SfOf[r]
           e == sfCache[f]
           s == sfSeen[r]
<1>3. SfEntryOK(e, sfVer[f], f) /\ s \in SUBSET (SfVersions(f) \cup {0})
  BY SfOld
<1>4. SfHolds(q) = 0 /\ SfHolds(sfReq[r]) = 0 /\ sfReq[r].owed = 0
  <2>1. SfHolds(q) = 0 /\ SfHolds(sfReq[r]) = 0
    BY DEF SfHolds
  <2>2. SfReqOK(sfReq[r], s, sfAnswer[r], sfVer[f], SfOnDisk(f), f)
    BY SfOld
  <2>3. sfReq[r].owed = 0
    BY <2>2 DEF SfReqOK
  <2> QED BY <2>1, <2>3
<1>5. SfCounts(r, e, q, sfBytes, sfBytes', sfCache, sfReq)
  <2>1. e.bytes.len \in Nat /\ sfBytes \in Nat
    BY SfOld
  <2> QED BY <1>1, <1>4, <2>1 DEF SfCounts
<1>6. \A p \in SfRequests : sfSeen'[p] = IF p = r THEN s ELSE sfSeen[p]
  BY <1>1
<1>7. \A g \in SfFiles : sfCache'[g] = IF g = f THEN e ELSE sfCache[g]
  BY <1>1
<1>8. SfTakesStep(r, q, s, a, e)
  BY <1>1, <1>2, <1>6, <1>7 DEF SfTakesStep
<1> HIDE DEF e, s
<1>9. SfReqOK(q, s, a, sfVer[f], SfOnDisk(f), f)
  BY DEF s
<1> QED BY <1>3, <1>5, <1>8, <1>9, SfRequestStep

(* An answer is the end of a request that neither reserved nor owes.       *)
LEMMA SfAnswersOK ==
    ASSUME SfIInv, UNCHANGED <<sfFiles, sfShared, sfSeen>>, NEW r \in SfRequests, NEW a,
           SfAnswers(r, a), sfReq[r].at \notin {"insert", "pays"},
           a.is = "file" => SfHad(SfOf[r], a.bytes, sfSeen[r])
    PROVE  SfIInv'
<1> DEFINE q == At("answered")
<1>1. q \in SfRecord(SfOf[r]) /\ q.at = "answered" /\ q.owed = 0
  BY SfAtType DEF SfSteps
<1>2. sfReq' = [sfReq EXCEPT ![r] = q] /\ sfAnswer' = [sfAnswer EXCEPT ![r] = a]
  BY DEF SfAnswers
<1> HIDE DEF q
<1>3. DOMAIN sfAnswer' = SfRequests
      /\ \A p \in SfRequests : sfAnswer'[p] = IF p = r THEN a ELSE sfAnswer[p]
  BY <1>2 DEF SfIInv, SfTypes
<1>4. SfReqOK(q, sfSeen[r], a, sfVer[SfOf[r]], SfOnDisk(SfOf[r]), SfOf[r])
  BY <1>1 DEF SfReqOK
<1> QED BY <1>1, <1>2, <1>3, <1>4, SfQuietStep

(* A request goes on, with a record q, and no answer yet.                  *)
LEMMA SfGoesOn ==
    ASSUME SfIInv, UNCHANGED <<sfFiles, sfShared, sfSeen, sfAnswer>>, NEW r \in SfRequests,
           NEW q \in SfRecord(SfOf[r]), sfReq' = [sfReq EXCEPT ![r] = q],
           sfReq[r].at \notin {"insert", "pays"}, q.at # "insert", q.owed = 0,
           SfReqOK(q, sfSeen[r], sfAnswer[r], sfVer[SfOf[r]], SfOnDisk(SfOf[r]), SfOf[r])
    PROVE  SfIInv'
<1> DEFINE a == sfAnswer[r]
<1>1. DOMAIN sfAnswer' = SfRequests
      /\ \A p \in SfRequests : sfAnswer'[p] = IF p = r THEN a ELSE sfAnswer[p]
  BY DEF SfIInv, SfTypes
<1>2. UNCHANGED <<sfFiles, sfShared, sfSeen>>
  OBVIOUS
<1>3. SfReqOK(q, sfSeen[r], a, sfVer[SfOf[r]], SfOnDisk(SfOf[r]), SfOf[r])
  OBVIOUS
<1> HIDE DEF a
<1> QED BY <1>1, <1>2, <1>3, SfQuietStep

(* A request comes.                                                        *)
LEMMA SfArrivesOK ==
    ASSUME SfIInv, NEW r \in SfRequests, SfArrives(r)
    PROVE  SfIInv'
<1> DEFINE f == SfOf[r]
           vs == SfVersions(f)
           q == [sfReq[r] EXCEPT !.at = "resolve"]
           s == {SfOnDisk(f)}
           a == sfAnswer[r]
           e == sfCache[f]
<1>1. /\ sfReq[r] \in SfRecord(f) /\ f \in SfFiles /\ SfEntryOK(e, sfVer[f], f)
      /\ SfReqOK(sfReq[r], sfSeen[r], a, sfVer[f], SfOnDisk(f), f)
      /\ SfDiskOK(sfInode[f], sfVer[f], sfLast[f], vs)
      /\ sfBytes \in Nat /\ e.bytes.len \in Nat
  BY SfOld
<1>2. q \in SfRecord(f) /\ q.at = "resolve" /\ q.owed = sfReq[r].owed /\ q.read = sfReq[r].read
  BY <1>1 DEF SfRecord, SfSteps
<1>3. sfReq[r].at = "idle" /\ sfReq[r].owed = 0 /\ a = NoFile
  BY <1>1 DEF SfArrives, SfReqOK
<1>4. s \in SUBSET (vs \cup {0})
  BY <1>1 DEF SfOnDisk, SfDiskOK
<1>5. SfReqOK(q, s, a, sfVer[f], SfOnDisk(f), f)
  <2> HIDE DEF q
  <2> QED BY <1>2, <1>3 DEF SfReqOK, NoFile
<1>6. SfTakesStep(r, q, s, a, e)
  BY DEF SfTakesStep, SfArrives, sfShared, SfIInv, SfTypes
<1>7. SfCounts(r, e, q, sfBytes, sfBytes', sfCache, sfReq)
  <2>1. sfBytes' = sfBytes
    BY DEF SfArrives, sfShared
  <2>2. SfHolds(q) = 0 /\ SfHolds(sfReq[r]) = 0
    BY <1>2, <1>3 DEF SfHolds
  <2> HIDE DEF q
  <2> QED BY <1>1, <1>2, <1>3, <2>1, <2>2 DEF SfCounts
<1> HIDE DEF q, s, a, e
<1> QED BY <1>1, <1>2, <1>4, <1>5, <1>6, <1>7, SfRequestStep

(* An entry is dropped with a file: the request owes the entry's bytes.    *)
LEMMA SfDropsOK ==
    ASSUME SfIInv, NEW r \in SfRequests, SfDropsEntry(r), UNCHANGED <<sfFiles, sfSeen>>,
           sfReq[r].at \in {"resolve", "stat"}
    PROVE  SfIInv'
<1> DEFINE f == SfOf[r]
           vs == SfVersions(f)
           old == sfCache[f]
<1>1. /\ sfReq[r] \in SfRecord(f) /\ f \in SfFiles /\ SfEntryOK(old, sfVer[f], f)
      /\ SfReqOK(sfReq[r], sfSeen[r], sfAnswer[r], sfVer[f], SfOnDisk(f), f)
      /\ sfBytes \in Nat /\ old.bytes.len \in Nat
      /\ sfSeen[r] \in SUBSET (vs \cup {0})
  BY SfOld
<1>2. /\ sfCache' = [sfCache EXCEPT ![f] = NoEntry] /\ sfBytes' = sfBytes
      /\ DOMAIN sfCache = SfFiles /\ DOMAIN sfAnswer = SfRequests /\ DOMAIN sfSeen = SfRequests
  BY DEF SfDropsEntry, SfIInv, SfTypes
<1>3. CASE old = NoEntry
  <2>1. SfAnswers(r, NoFile)
    BY <1>3 DEF SfDropsEntry
  <2> DEFINE q == At("answered")
             e == NoEntry
             s == sfSeen[r]
             a == NoFile
  <2>2. q \in SfRecord(f) /\ q.at = "answered" /\ q.owed = 0 /\ a.is = "none"
    BY SfAtType DEF SfSteps, NoFile
  <2>3. SfTakesStep(r, q, s, a, e)
    BY <1>2, <2>1 DEF SfTakesStep, SfAnswers
  <2>4. sfReq[r].owed = 0
    BY <1>1 DEF SfReqOK
  <2>5. SfHolds(q) = 0 /\ SfHolds(sfReq[r]) = 0
    BY <2>2 DEF SfHolds
  <2> HIDE DEF q, a, s
  <2>6. SfReqOK(q, s, a, sfVer[f], SfOnDisk(f), f)
    BY <2>2 DEF SfReqOK
  <2>7. SfEntryOK(e, sfVer[f], f)
    BY DEF SfEntryOK
  <2>8. SfCounts(r, e, q, sfBytes, sfBytes', sfCache, sfReq)
    BY <1>1, <1>2, <1>3, <2>2, <2>4, <2>5 DEF SfCounts
  <2>9. s \in SUBSET (vs \cup {0})
    BY <1>1 DEF s
  <2> HIDE DEF e
  <2> QED BY <1>1, <2>2, <2>3, <2>6, <2>7, <2>8, <2>9, SfRequestStep
<1>4. CASE old # NoEntry
  <2> DEFINE q == [At("pays") EXCEPT !.owed = old.bytes.len]
             e == NoEntry
             s == sfSeen[r]
             a == sfAnswer[r]
  <2>1. sfReq' = [sfReq EXCEPT ![r] = q] /\ sfAnswer' = sfAnswer
    BY <1>4 DEF SfDropsEntry
  <2>2. q \in SfRecord(f) /\ q.at = "pays" /\ q.owed = old.bytes.len
        /\ q.read.first = 0
    <3>1. "pays" \in SfSteps
      BY DEF SfSteps
    <3>2. At("pays") \in SfRecord(f) /\ At("pays").at = "pays" /\ At("pays").read.first = 0
      BY <3>1, SfAtType
    <3> QED BY <1>1, <3>2 DEF SfRecord
  <2> HIDE DEF q
  <2>3. SfTakesStep(r, q, s, a, e)
    BY <1>2, <2>1 DEF SfTakesStep
  <2>4. sfReq[r].owed = 0 /\ a = NoFile /\ SfOnDisk(f) \in s
    BY <1>1 DEF SfReqOK
  <2>5. SfHolds(q) = 0 /\ SfHolds(sfReq[r]) = 0
    BY <2>2 DEF SfHolds
  <2>6. SfReqOK(q, s, a, sfVer[f], SfOnDisk(f), f)
    BY <2>2, <2>4 DEF SfReqOK, NoFile
  <2>7. SfEntryOK(e, sfVer[f], f)
    BY DEF SfEntryOK
  <2>8. e.bytes.len = 0
    BY DEF NoBytes, NoEntry
  <2>9. SfCounts(r, e, q, sfBytes, sfBytes', sfCache, sfReq)
    BY <1>1, <1>2, <2>2, <2>4, <2>5, <2>8 DEF SfCounts
  <2> HIDE DEF e, s, a
  <2>10. s \in SUBSET (vs \cup {0})
    BY <1>1 DEF s
  <2> QED BY <1>1, <2>2, <2>3, <2>6, <2>7, <2>9, <2>10, SfRequestStep
<1> QED BY <1>3, <1>4

(* A request resolves its path.                                            *)
LEMMA SfResolveOK ==
    ASSUME SfIInv, NEW r \in SfRequests, SfResolve(r)
    PROVE  SfIInv'
<1>1. sfReq[r].at = "resolve" /\ UNCHANGED <<sfFiles, sfSeen>>
  BY DEF SfResolve
<1>2. CASE SfAnswers(r, Refused) /\ UNCHANGED sfShared
  BY <1>1, <1>2, SfAnswersOK DEF Refused
<1>3. CASE sfInode[SfOf[r]] = 0 /\ SfDropsEntry(r)
  BY <1>1, <1>3, SfDropsOK
<1>4. CASE sfInode[SfOf[r]] # 0 /\ SfGoesTo(r, "stat") /\ UNCHANGED sfShared
  <2> DEFINE q == [sfReq[r] EXCEPT !.at = "stat"]
  <2>1. sfReq[r] \in SfRecord(SfOf[r])
    BY SfOld
  <2>2. q \in SfRecord(SfOf[r]) /\ q.at = "stat" /\ q.owed = sfReq[r].owed
    BY <2>1 DEF SfRecord, SfSteps
  <2>3. sfReq' = [sfReq EXCEPT ![r] = q] /\ UNCHANGED <<sfFiles, sfShared, sfSeen, sfAnswer>>
    BY <1>1, <1>4 DEF SfGoesTo
  <2> HIDE DEF q
  <2>4. SfReqOK(sfReq[r], sfSeen[r], sfAnswer[r], sfVer[SfOf[r]], SfOnDisk(SfOf[r]), SfOf[r])
    BY SfOld
  <2>5. q.owed = 0 /\ SfReqOK(q, sfSeen[r], sfAnswer[r], sfVer[SfOf[r]], SfOnDisk(SfOf[r]), SfOf[r])
    BY <1>1, <2>2, <2>4 DEF SfReqOK, NoFile
  <2> QED BY <1>1, <2>2, <2>3, <2>5, SfGoesOn
<1> QED BY <1>2, <1>3, <1>4 DEF SfResolve

(* A request stats the file: the stamp is the inode's version now.         *)
LEMMA SfStatOK ==
    ASSUME SfIInv, NEW r \in SfRequests, SfStat(r)
    PROVE  SfIInv'
<1> DEFINE f == SfOf[r]
           vs == SfVersions(f)
<1>1. sfReq[r].at = "stat" /\ UNCHANGED <<sfFiles, sfSeen>>
  BY DEF SfStat
<1>2. CASE SfAnswers(r, Refused) /\ UNCHANGED sfShared
  BY <1>1, <1>2, SfAnswersOK DEF Refused
<1>3. CASE sfInode[f] = 0 /\ SfDropsEntry(r)
  BY <1>1, <1>3, SfDropsOK
<1>4. CASE /\ sfInode[f] # 0
           /\ sfReq' = [sfReq EXCEPT ![r].at = "lookup", ![r].stamp = SfOnDisk(f)]
           /\ UNCHANGED <<sfShared, sfAnswer>>
  <2> DEFINE q == [sfReq[r] EXCEPT !.at = "lookup", !.stamp = SfOnDisk(f)]
  <2>1. /\ sfReq[r] \in SfRecord(f) /\ vs \subseteq Nat \ {0}
        /\ SfReqOK(sfReq[r], sfSeen[r], sfAnswer[r], sfVer[f], SfOnDisk(f), f)
        /\ SfDiskOK(sfInode[f], sfVer[f], sfLast[f], vs)
    BY SfOld
  <2>2. SfOnDisk(f) = sfVer[f][sfInode[f]] /\ SfOnDisk(f) = sfLast[f]
        /\ sfInode[f] \in vs /\ sfInode[f] <= SfOnDisk(f) /\ SfOnDisk(f) \in vs
    BY <1>4, <2>1 DEF SfOnDisk, SfDiskOK
  <2>3. q \in SfRecord(f) /\ q.at = "lookup" /\ q.owed = sfReq[r].owed /\ q.stamp = SfOnDisk(f)
    BY <2>1, <2>2 DEF SfRecord, SfSteps
  <2>4. sfReq' = [sfReq EXCEPT ![r] = q] /\ UNCHANGED <<sfFiles, sfShared, sfSeen, sfAnswer>>
    <3>1. sfReq' = [sfReq EXCEPT ![r] = q]
      BY <1>4, <2>1 DEF SfIInv, SfTypes, SfRecord
    <3> QED BY <1>1, <1>4, <3>1
  <2> HIDE DEF q
  <2>5. q.owed = 0 /\ sfAnswer[r] = NoFile /\ SfOnDisk(f) \in sfSeen[r]
    BY <1>1, <2>1, <2>3 DEF SfReqOK
  <2>6. SfSince(q.stamp, sfInode[f], sfSeen[r], sfVer[f], f)
    BY <2>1, <2>2, <2>3, <2>5 DEF SfSince
  <2>7. q.stamp <= sfVer[f][sfInode[f]]
    BY <2>1, <2>2, <2>3
  <2>8. \E i \in vs : /\ i <= q.stamp /\ q.stamp <= sfVer[f][i]
                      /\ SfSince(q.stamp, i, sfSeen[r], sfVer[f], f)
    BY <2>2, <2>3, <2>6, <2>7
  <2>9. SfReqOK(q, sfSeen[r], sfAnswer[r], sfVer[f], SfOnDisk(f), f)
    BY <2>3, <2>5, <2>8 DEF SfReqOK, NoFile
  <2> QED BY <1>1, <2>3, <2>4, <2>5, <2>9, SfGoesOn
<1> QED BY <1>2, <1>3, <1>4 DEF SfStat

(* An entry with the stamp of the stat has a version seen since: one inode *)
(* had the stamp's version, and every later one it had has been seen.      *)
LEMMA SfHit ==
    ASSUME NEW f \in SfFiles, NEW e, NEW q, NEW seen, NEW a, NEW inode, NEW ver,
           NEW last, NEW disk, q.at = "lookup", e # NoEntry, e.stamp = q.stamp,
           SfEntryOK(e, ver, f), SfDiskOK(inode, ver, last, SfVersions(f)),
           SfReqOK(q, seen, a, ver, disk, f)
    PROVE  SfHad(f, e.bytes, seen)
<1> DEFINE vs == SfVersions(f)
<1>1. PICK i \in vs : /\ i <= e.stamp /\ e.stamp <= e.bytes.first
                      /\ e.bytes.first <= e.bytes.last /\ e.bytes.last <= ver[i]
  BY DEF SfEntryOK
<1>2. /\ e.stamp \in vs /\ e.bytes.first \in vs \cup {0} /\ e.bytes.last \in vs \cup {0}
      /\ ver[i] \in vs /\ Whole(f, e.bytes) /\ vs \subseteq Nat \ {0}
  BY SfVersionsNat DEF SfEntryOK, SfDiskOK, SfContents
<1>3. PICK j \in vs : /\ j <= q.stamp /\ q.stamp <= ver[j] /\ SfSince(q.stamp, j, seen, ver, f)
  BY DEF SfReqOK
<1>4. /\ e.stamp \in Nat \ {0} /\ e.bytes.first \in Nat /\ e.bytes.last \in Nat /\ ver[i] \in Nat
  BY <1>2
<1>5. e.stamp <= ver[i] /\ e.bytes.first # 0
  BY <1>1, <1>4
<1>6. i = j
  BY <1>1, <1>2, <1>3, <1>5 DEF SfDiskOK
<1>7. ASSUME NEW v \in vs, e.bytes.first <= v, v <= e.bytes.last PROVE v \in seen
  <2>1. q.stamp <= v /\ v <= ver[j]
    BY <1>1, <1>2, <1>4, <1>6, <1>7
  <2> QED BY <1>3, <2>1 DEF SfSince
<1> QED BY <1>1, <1>2, <1>5, <1>7 DEF SfHad

LEMMA SfLookupOK ==
    ASSUME SfIInv, NEW r \in SfRequests, SfLookup(r)
    PROVE  SfIInv'
<1> DEFINE f == SfOf[r]
           vs == SfVersions(f)
<1>1. sfReq[r].at = "lookup" /\ UNCHANGED <<sfFiles, sfShared, sfSeen>>
  BY DEF SfLookup
<1>2. /\ sfReq[r] \in SfRecord(f) /\ vs \subseteq Nat \ {0}
      /\ SfReqOK(sfReq[r], sfSeen[r], sfAnswer[r], sfVer[f], SfOnDisk(f), f)
      /\ SfEntryOK(sfCache[f], sfVer[f], f)
      /\ SfDiskOK(sfInode[f], sfVer[f], sfLast[f], vs)
  BY SfOld
<1>3. CASE IsCurrent(r)
  <2> DEFINE a == File(sfCache[f].bytes)
  <2>1. SfAnswers(r, a)
    BY <1>3 DEF SfLookup
  <2>2. SfHad(f, sfCache[f].bytes, sfSeen[r])
    BY <1>1, <1>2, <1>3, SfHit, SfOfFile DEF IsCurrent
  <2>3. SfHad(f, a.bytes, sfSeen[r])
    BY <2>2 DEF File
  <2> HIDE DEF a
  <2> QED BY <1>1, <2>1, <2>3, SfAnswersOK
<1>4. CASE ~IsCurrent(r)
  <2> DEFINE q == [sfReq[r] EXCEPT !.at = "open"]
  <2>2. q \in SfRecord(f) /\ q.at = "open" /\ q.owed = sfReq[r].owed
    BY <1>2 DEF SfRecord, SfSteps
  <2>3. sfReq' = [sfReq EXCEPT ![r] = q] /\ UNCHANGED <<sfFiles, sfShared, sfSeen, sfAnswer>>
    BY <1>1, <1>4 DEF SfGoesTo, SfLookup
  <2> HIDE DEF q
  <2>5. q.owed = 0 /\ SfReqOK(q, sfSeen[r], sfAnswer[r], sfVer[f], SfOnDisk(f), f)
    BY <1>1, <1>2, <2>2 DEF SfReqOK, NoFile
  <2> QED BY <1>1, <2>2, <2>3, <2>5, SfGoesOn
<1> QED BY <1>3, <1>4

(* A request opens the file: the inode the path has now.                   *)
LEMMA SfOpenOK ==
    ASSUME SfIInv, NEW r \in SfRequests, SfOpen(r)
    PROVE  SfIInv'
<1> DEFINE f == SfOf[r]
           vs == SfVersions(f)
<1>1. sfReq[r].at = "open" /\ UNCHANGED <<sfFiles, sfShared, sfSeen>>
  BY DEF SfOpen
<1>2. /\ sfReq[r] \in SfRecord(f) /\ vs \subseteq Nat \ {0}
      /\ SfReqOK(sfReq[r], sfSeen[r], sfAnswer[r], sfVer[f], SfOnDisk(f), f)
      /\ SfDiskOK(sfInode[f], sfVer[f], sfLast[f], vs)
  BY SfOld
<1>3. CASE SfAnswers(r, NoFile)
  BY <1>1, <1>3, SfAnswersOK DEF NoFile
<1>4. CASE SfAnswers(r, Refused)
  BY <1>1, <1>4, SfAnswersOK DEF Refused
<1>5. CASE /\ sfInode[f] # 0
           /\ sfReq' = [sfReq EXCEPT ![r].at = "fstat", ![r].fd = sfInode[f]]
           /\ UNCHANGED sfAnswer
  <2> DEFINE q == [sfReq[r] EXCEPT !.at = "fstat", !.fd = sfInode[f]]
  <2>1. SfOnDisk(f) = sfVer[f][sfInode[f]]
        /\ sfInode[f] \in vs /\ sfInode[f] <= SfOnDisk(f)
    BY <1>2, <1>5 DEF SfOnDisk, SfDiskOK
  <2>2. q \in SfRecord(f) /\ q.at = "fstat" /\ q.owed = sfReq[r].owed /\ q.fd = sfInode[f]
    BY <1>2, <2>1 DEF SfRecord, SfSteps
  <2>3. sfReq' = [sfReq EXCEPT ![r] = q]
    BY <1>5, <1>2 DEF SfIInv, SfTypes, SfRecord
  <2>4. UNCHANGED <<sfFiles, sfShared, sfSeen, sfAnswer>>
    BY <1>1, <1>5
  <2> HIDE DEF q
  <2>5. q.owed = 0 /\ sfAnswer[r] = NoFile /\ SfOnDisk(f) \in sfSeen[r]
    BY <1>1, <1>2, <2>2 DEF SfReqOK
  <2>6. q.fd \in vs /\ q.fd <= sfVer[f][q.fd] /\ sfVer[f][q.fd] \in sfSeen[r]
    BY <2>1, <2>2, <2>5
  <2>7. SfReqOK(q, sfSeen[r], sfAnswer[r], sfVer[f], SfOnDisk(f), f)
    BY <2>2, <2>5, <2>6 DEF SfReqOK, NoFile
  <2> QED BY <1>1, <2>2, <2>3, <2>4, <2>5, <2>7, SfGoesOn
<1> QED BY <1>3, <1>4, <1>5 DEF SfOpen

(* The open file is stamped.                                               *)
LEMMA SfFstatOK ==
    ASSUME SfIInv, NEW r \in SfRequests, SfFstat(r)
    PROVE  SfIInv'
<1> DEFINE f == SfOf[r]
           vs == SfVersions(f)
           v == sfVer[f][sfReq[r].fd]
<1>1. sfReq[r].at = "fstat" /\ UNCHANGED <<sfFiles, sfShared, sfSeen>>
  BY DEF SfFstat
<1>2. /\ sfReq[r] \in SfRecord(f) /\ vs \subseteq Nat \ {0} /\ f \in SfFiles
      /\ SfReqOK(sfReq[r], sfSeen[r], sfAnswer[r], sfVer[f], SfOnDisk(f), f)
      /\ SfDiskOK(sfInode[f], sfVer[f], sfLast[f], vs)
  BY SfOld
<1>3. CASE SfAnswers(r, Refused)
  BY <1>1, <1>3, SfAnswersOK DEF Refused
<1>4. CASE /\ sfReq' = [sfReq EXCEPT ![r].at = "read", ![r].stamp = SfOpened(r), ![r].read = NoBytes]
           /\ UNCHANGED sfAnswer
  <2> DEFINE q == [sfReq[r] EXCEPT !.at = "read", !.stamp = v, !.read = NoBytes]
  <2>1. sfReq[r].fd \in vs /\ sfReq[r].fd <= v /\ v \in sfSeen[r] /\ v \in vs
    BY <1>1, <1>2 DEF SfReqOK, SfDiskOK
  <2>2. q \in SfRecord(f) /\ q.at = "read" /\ q.owed = sfReq[r].owed /\ q.stamp = v
        /\ q.fd = sfReq[r].fd /\ q.read = NoBytes
    <3>1. NoBytes \in SfContents(f)
      BY DEF NoBytes, SfContents
    <3> QED BY <1>2, <2>1, <3>1 DEF SfRecord, SfSteps
  <2>3. sfReq' = [sfReq EXCEPT ![r] = q]
    BY <1>4, <1>2 DEF SfIInv, SfTypes, SfRecord, SfOpened
  <2>4. UNCHANGED <<sfFiles, sfShared, sfSeen, sfAnswer>>
    BY <1>1, <1>4
  <2> HIDE DEF q
  <2>5. q.owed = 0 /\ sfAnswer[r] = NoFile /\ SfOnDisk(f) \in sfSeen[r]
    BY <1>1, <1>2, <2>2 DEF SfReqOK
  <2>6. q.fd \in vs /\ q.fd <= q.stamp /\ q.stamp <= sfVer[f][q.fd]
    BY <1>2, <2>1, <2>2
  <2>7. SfSince(q.stamp, q.fd, sfSeen[r], sfVer[f], f)
    BY <1>2, <2>1, <2>2 DEF SfSince
  <2>8. SfReading(q, sfVer[f], f)
    <3>1. NoBytes.len = 0 /\ NoBytes.last = 0 /\ ReadOf(f, 0) \in Nat
      BY <1>2, SfReadNat DEF NoBytes
    <3> QED BY <2>2, <3>1 DEF SfReading
  <2>9. SfReqOK(q, sfSeen[r], sfAnswer[r], sfVer[f], SfOnDisk(f), f)
    BY <2>2, <2>5, <2>6, <2>7, <2>8 DEF SfReqOK, NoFile
  <2> QED BY <1>1, <2>2, <2>3, <2>4, <2>5, <2>9, SfGoesOn
<1> QED BY <1>3, <1>4 DEF SfFstat

(* What a request that reads knows of its record and of its file.          *)
LEMMA SfReader ==
    ASSUME SfIInv, NEW r \in SfRequests, sfReq[r].at = "read"
    PROVE  /\ sfReq[r] \in SfRecord(SfOf[r]) /\ SfVersions(SfOf[r]) \subseteq Nat \ {0}
           /\ SfOf[r] \in SfFiles /\ sfReq[r].fd \in SfVersions(SfOf[r])
           /\ SfOpened(r) \in SfVersions(SfOf[r])
           /\ sfReq[r].fd <= sfReq[r].stamp /\ sfReq[r].stamp <= SfOpened(r)
           /\ SfSince(sfReq[r].stamp, sfReq[r].fd, sfSeen[r], sfVer[SfOf[r]], SfOf[r])
           /\ SfReading(sfReq[r], sfVer[SfOf[r]], SfOf[r])
           /\ sfReq[r].owed = 0 /\ sfAnswer[r] = NoFile /\ SfOnDisk(SfOf[r]) \in sfSeen[r]
BY SfOld DEF SfReqOK, SfDiskOK, SfOpened

(* One more read, which found the version the inode has now.               *)
LEMMA SfGotOK ==
    ASSUME SfIInv, NEW r \in SfRequests, sfReq[r].at = "read", NEW len \in Nat
    PROVE  LET b == Got(sfReq[r].read, SfOpened(r), len) IN
           /\ b \in SfContents(SfOf[r]) /\ b.first # 0 /\ b.len = len /\ b.last = SfOpened(r)
           /\ sfReq[r].stamp <= b.first /\ b.first <= b.last
           /\ b.first \in SfVersions(SfOf[r])
           /\ b.first = b.last /\ sfReq[r].read # NoBytes => sfReq[r].read.last = SfOpened(r)
<1> DEFINE f == SfOf[r]
           vs == SfVersions(f)
           c == sfReq[r].read
           v == SfOpened(r)
           b == Got(c, v, len)
<1>1. /\ vs \subseteq Nat \ {0} /\ v \in vs /\ c \in SfContents(f) /\ sfReq[r].stamp \in vs \cup {0}
      /\ sfReq[r].stamp <= v /\ SfReading(sfReq[r], sfVer[f], f) /\ v = sfVer[f][sfReq[r].fd]
      /\ sfReq[r].fd \in vs /\ sfReq[r].fd <= sfReq[r].stamp
  BY SfReader DEF SfRecord, SfOpened
<1>2. c.first \in vs \cup {0} /\ c.last \in vs \cup {0}
  BY <1>1 DEF SfContents
<1>3. b.first = (IF c.first = 0 THEN v ELSE c.first) /\ b.last = v /\ b.len = len
  BY DEF Got
<1>4. b \in SfContents(f)
  BY <1>1, <1>2 DEF Got, SfContents
<1>5. \/ c = NoBytes /\ c.first = 0
      \/ sfReq[r].stamp <= c.first /\ c.first <= c.last /\ c.last <= v
  BY <1>1 DEF SfReading, NoBytes
<1>6. v \in Nat \ {0} /\ c.first \in Nat /\ c.last \in Nat /\ sfReq[r].stamp \in Nat
  BY <1>1, <1>2
<1>7. b.first # 0 /\ sfReq[r].stamp <= b.first /\ b.first <= b.last /\ b.first \in vs
  BY <1>1, <1>2, <1>3, <1>5, <1>6
<1>8. sfReq[r].stamp # 0
  BY <1>1, <1>6
<1>9. b.first = b.last /\ c # NoBytes => c.last = v
  BY <1>3, <1>5, <1>6, <1>8
<1> QED BY <1>3, <1>4, <1>7, <1>9

(* A piece of the file is read: of a version seen since the stamp.         *)
LEMMA SfReadsOK ==
    ASSUME SfIInv, NEW r \in SfRequests, SfReads(r)
    PROVE  SfIInv'
<1> DEFINE f == SfOf[r]
           vs == SfVersions(f)
           v == SfOpened(r)
<1>1. sfReq[r].at = "read" /\ UNCHANGED <<sfFiles, sfShared, sfSeen>>
  BY DEF SfReads
<1>2. CASE SfAnswers(r, Refused)
  BY <1>1, <1>2, SfAnswersOK DEF Refused
<1>3. CASE \E len \in (SfReadLen(r) + 1) .. ReadOf(f, v) :
             /\ sfReq' = [sfReq EXCEPT ![r].read = Got(@, v, len)]
             /\ UNCHANGED sfAnswer
  <2>1. PICK len \in (SfReadLen(r) + 1) .. ReadOf(f, v) :
             /\ sfReq' = [sfReq EXCEPT ![r].read = Got(@, v, len)]
             /\ UNCHANGED sfAnswer
    BY <1>3
  <2>2. /\ sfReq[r] \in SfRecord(f) /\ vs \subseteq Nat \ {0} /\ f \in SfFiles
        /\ sfReq[r].fd \in vs /\ v \in vs
        /\ sfReq[r].fd <= sfReq[r].stamp /\ sfReq[r].stamp <= v /\ v = sfVer[f][sfReq[r].fd]
        /\ SfSince(sfReq[r].stamp, sfReq[r].fd, sfSeen[r], sfVer[f], f)
        /\ sfReq[r].owed = 0 /\ sfAnswer[r] = NoFile /\ SfOnDisk(f) \in sfSeen[r]
    BY <1>1, SfReader DEF SfOpened
  <2>3. SfReadLen(r) \in Nat /\ ReadOf(f, v) \in Nat
    BY <2>2, SfReadNat DEF SfReadLen, SfRecord, SfContents
  <2>4. len \in Nat /\ len <= ReadOf(f, v)
    BY <2>1, <2>3
  <2> DEFINE b == Got(sfReq[r].read, v, len)
             q == [sfReq[r] EXCEPT !.read = b]
  <2>5. /\ b \in SfContents(f) /\ b.len = len /\ b.last = v
        /\ sfReq[r].stamp <= b.first /\ b.first <= b.last
    BY <1>1, <2>4, SfGotOK
  <2> HIDE DEF b
  <2>6. sfReq' = [sfReq EXCEPT ![r] = q]
    BY <2>1 DEF b
  <2>7. q \in SfRecord(f) /\ q.at = "read" /\ q.owed = 0 /\ q.stamp = sfReq[r].stamp
        /\ q.fd = sfReq[r].fd /\ q.read = b
    BY <1>1, <2>2, <2>5 DEF SfRecord
  <2> HIDE DEF q
  <2>8. SfReading(q, sfVer[f], f)
    <3>1. q.read.last <= sfVer[f][q.fd]
      BY <2>2, <2>5, <2>7
    <3> QED BY <2>4, <2>5, <2>7, <3>1 DEF SfReading
  <2>9. SfReqOK(q, sfSeen[r], sfAnswer[r], sfVer[f], SfOnDisk(f), f)
    BY <2>2, <2>7, <2>8 DEF SfReqOK, NoFile
  <2>10. UNCHANGED <<sfFiles, sfShared, sfSeen, sfAnswer>>
    BY <1>1, <2>1
  <2> QED BY <1>1, <2>6, <2>7, <2>9, <2>10, SfGoesOn
<1> QED BY <1>2, <1>3 DEF SfReads

(* The end is found: what was read is fresh, whole if of one version.      *)
LEMMA SfEofOK ==
    ASSUME SfIInv, NEW r \in SfRequests, SfEof(r)
    PROVE  SfIInv'
<1> DEFINE f == SfOf[r]
           vs == SfVersions(f)
           v == SfOpened(r)
           c == sfReq[r].read
           b == IF c.len = SfMax THEN c ELSE Got(c, v, c.len)
           q == [sfReq[r] EXCEPT !.at = "reserve", !.read = b]
<1>1. /\ sfReq[r].at = "read" /\ UNCHANGED <<sfFiles, sfShared, sfSeen, sfAnswer>>
      /\ c.len >= ReadOf(f, v)
  BY DEF SfEof, SfReadLen
<1>2. /\ sfReq[r] \in SfRecord(f) /\ vs \subseteq Nat \ {0} /\ f \in SfFiles
      /\ sfReq[r].fd \in vs /\ v \in vs
      /\ sfReq[r].fd <= sfReq[r].stamp /\ sfReq[r].stamp <= v /\ v = sfVer[f][sfReq[r].fd]
      /\ SfSince(sfReq[r].stamp, sfReq[r].fd, sfSeen[r], sfVer[f], f)
      /\ SfReading(sfReq[r], sfVer[f], f)
      /\ sfReq[r].owed = 0 /\ sfAnswer[r] = NoFile /\ SfOnDisk(f) \in sfSeen[r]
  BY <1>1, SfReader DEF SfOpened
<1>3. /\ c \in SfContents(f) /\ c.len \in Nat /\ c.first \in vs \cup {0} /\ c.last \in vs \cup {0}
      /\ sfReq[r].stamp \in vs \cup {0} /\ v \in Nat /\ SfMax \in Nat \ {0}
  BY <1>2, SfAssumption DEF SfRecord, SfContents
<1>4. /\ ReadOf(f, v) \in Nat /\ ReadOf(f, c.last) \in Nat /\ ReadOf(f, c.last) <= SfMax
      /\ c.len <= ReadOf(f, c.last)
  BY <1>2, <1>3, SfReadNat DEF SfReading
<1>5. /\ b \in SfContents(f) /\ b.first # 0 /\ sfReq[r].stamp <= b.first
      /\ b.first <= b.last /\ b.last <= v /\ Whole(f, b)
  <2>1. CASE c.len = SfMax
    <3>1. c # NoBytes /\ b = c
      BY <1>3, <2>1 DEF NoBytes
    <3>2. sfReq[r].stamp <= c.first /\ c.first <= c.last /\ c.last <= v
      BY <1>2, <3>1 DEF SfReading
    <3>3. sfReq[r].stamp # 0 /\ c.first # 0
      BY <1>2, <1>3, <3>2
    <3>4. c.len = ReadOf(f, c.last)
      BY <1>3, <1>4, <2>1
    <3> QED BY <1>3, <3>1, <3>2, <3>3, <3>4 DEF Whole
  <2>2. CASE c.len # SfMax
    <3> DEFINE g == Got(c, v, c.len)
    <3>1. /\ g \in SfContents(f) /\ g.first # 0 /\ g.len = c.len /\ g.last = v
          /\ sfReq[r].stamp <= g.first /\ g.first <= g.last
          /\ g.first = g.last /\ c # NoBytes => c.last = v
      BY <1>1, <1>3, SfGotOK
    <3>2. c = NoBytes => c.len = 0
      BY DEF NoBytes
    <3> HIDE DEF g
    <3>3. g.first = g.last => g.len = ReadOf(f, g.first)
      BY <1>1, <1>3, <1>4, <3>1, <3>2
    <3>4. b = g
      BY <2>2 DEF g
    <3>5. g.last <= v
      BY <1>3, <3>1
    <3> HIDE DEF b
    <3> QED BY <3>1, <3>3, <3>4, <3>5 DEF Whole
  <2> QED BY <2>1, <2>2
<1>6. sfReq' = [sfReq EXCEPT ![r] = q]
  BY <1>2 DEF SfEof, SfIInv, SfTypes, SfRecord
<1> HIDE DEF b
<1>7. q \in SfRecord(f) /\ q.at = "reserve" /\ q.owed = 0 /\ q.stamp = sfReq[r].stamp
      /\ q.fd = sfReq[r].fd /\ q.read = b
  BY <1>2, <1>5 DEF SfRecord, SfSteps
<1> HIDE DEF q
<1>8. SfHad(f, b, sfSeen[r])
  <2>1. ASSUME NEW w \in vs, b.first <= w, w <= b.last PROVE w \in sfSeen[r]
    <3>1. b.first \in Nat /\ b.last \in Nat /\ w \in Nat /\ sfReq[r].stamp \in Nat
      BY <1>2, <1>3, <1>5 DEF SfContents
    <3>2. sfReq[r].stamp <= w /\ w <= sfVer[f][sfReq[r].fd]
      BY <1>2, <1>3, <1>5, <2>1, <3>1
    <3> QED BY <1>2, <3>2 DEF SfSince
  <2> QED BY <1>5, <2>1 DEF SfHad
<1>9. SfReqOK(q, sfSeen[r], sfAnswer[r], sfVer[f], SfOnDisk(f), f)
  BY <1>2, <1>5, <1>7, <1>8 DEF SfReqOK, NoFile
<1> QED BY <1>1, <1>6, <1>7, <1>9, SfGoesOn

(* The bytes read are reserved: within the cap, or owed at once.           *)
LEMMA SfReserveOK ==
    ASSUME SfIInv, NEW r \in SfRequests, SfReserve(r)
    PROVE  SfIInv'
<1> DEFINE f == SfOf[r]
           vs == SfVersions(f)
           s == sfSeen[r]
           a == sfAnswer[r]
           e == sfCache[f]
           n == sfReq[r].read.len
<1>1. /\ sfReq[r].at = "reserve" /\ UNCHANGED <<sfFiles, sfCache, sfSeen, sfAnswer>>
      /\ sfBytes' = sfBytes + n
  BY DEF SfReserve, SfReadLen
<1>2. /\ sfReq[r] \in SfRecord(f) /\ f \in SfFiles /\ SfEntryOK(e, sfVer[f], f)
      /\ SfReqOK(sfReq[r], s, a, sfVer[f], SfOnDisk(f), f)
      /\ sfBytes \in Nat /\ e.bytes.len \in Nat
      /\ s \in SUBSET (vs \cup {0})
  BY SfOld
<1>3. n \in Nat /\ SfCap \in Nat
  BY <1>2, SfAssumption DEF SfRecord, SfContents
<1>4. sfReq[r].owed = 0 /\ SfHolds(sfReq[r]) = 0
  BY <1>1, <1>2 DEF SfReqOK, SfHolds
<1>5. DOMAIN sfCache = SfFiles /\ DOMAIN sfAnswer = SfRequests /\ DOMAIN sfSeen = SfRequests
  BY DEF SfIInv, SfTypes
<1>6. CASE sfBytes' > SfCap
  <2> DEFINE q == [sfReq[r] EXCEPT !.at = "pays", !.owed = n]
  <2>1. sfReq' = [sfReq EXCEPT ![r] = q]
    BY <1>6, <1>2 DEF SfReserve, SfReadLen, SfIInv, SfTypes, SfRecord
  <2>2. q \in SfRecord(f) /\ q.at = "pays" /\ q.owed = n /\ q.read = sfReq[r].read
    BY <1>2, <1>3 DEF SfRecord, SfSteps
  <2> HIDE DEF q, n
  <2>3. SfHolds(q) = 0
    BY <2>2 DEF SfHolds
  <2>4. SfCounts(r, e, q, sfBytes, sfBytes', sfCache, sfReq)
    BY <1>1, <1>2, <1>3, <1>4, <2>2, <2>3 DEF SfCounts
  <2>5. SfReqOK(q, s, a, sfVer[f], SfOnDisk(f), f)
    BY <1>1, <1>2, <2>2 DEF SfReqOK, NoFile
  <2>6. SfTakesStep(r, q, s, a, e)
    BY <1>1, <1>5, <2>1 DEF SfTakesStep
  <2> HIDE DEF s, a, e
  <2> QED BY <1>2, <2>2, <2>4, <2>5, <2>6, SfRequestStep
<1>7. CASE ~(sfBytes' > SfCap)
  <2> DEFINE q == [sfReq[r] EXCEPT !.at = "insert"]
  <2>1. sfReq' = [sfReq EXCEPT ![r] = q]
    BY <1>7 DEF SfReserve
  <2>2. q \in SfRecord(f) /\ q.at = "insert" /\ q.owed = 0 /\ q.read = sfReq[r].read
        /\ q.fd = sfReq[r].fd /\ q.stamp = sfReq[r].stamp
    BY <1>2, <1>4 DEF SfRecord, SfSteps
  <2>3. SfHolds(q) = n
    BY <2>2 DEF SfHolds
  <2> HIDE DEF q, n
  <2>4. SfCounts(r, e, q, sfBytes, sfBytes', sfCache, sfReq)
    BY <1>1, <1>2, <1>3, <1>4, <1>7, <2>2, <2>3 DEF SfCounts
  <2>5. SfReqOK(q, s, a, sfVer[f], SfOnDisk(f), f)
    BY <1>1, <1>2, <2>2 DEF SfReqOK, NoFile
  <2>6. SfTakesStep(r, q, s, a, e)
    BY <1>1, <1>5, <2>1 DEF SfTakesStep
  <2> HIDE DEF s, a, e
  <2> QED BY <1>2, <2>2, <2>4, <2>5, <2>6, SfRequestStep
<1> QED BY <1>6, <1>7

(* The entry is inserted: the reservation becomes its bytes, and those of  *)
(* the entry replaced are owed.                                            *)
LEMMA SfInsertOK ==
    ASSUME SfIInv, NEW r \in SfRequests, SfInsert(r)
    PROVE  SfIInv'
<1> DEFINE f == SfOf[r]
           vs == SfVersions(f)
           s == sfSeen[r]
           a == sfAnswer[r]
           n == sfCache[f].bytes.len
           e == [bytes |-> sfReq[r].read, stamp |-> sfReq[r].stamp]
           q == [At("pays") EXCEPT !.read = sfReq[r].read, !.owed = n]
<1>1. /\ sfReq[r].at = "insert" /\ UNCHANGED <<sfFiles, sfBytes, sfSeen, sfAnswer>>
      /\ sfCache' = [sfCache EXCEPT ![f] = e] /\ sfReq' = [sfReq EXCEPT ![r] = q]
  BY DEF SfInsert, Replaced
<1>2. /\ sfReq[r] \in SfRecord(f) /\ f \in SfFiles /\ vs \subseteq Nat \ {0}
      /\ SfReqOK(sfReq[r], s, a, sfVer[f], SfOnDisk(f), f)
      /\ SfDiskOK(sfInode[f], sfVer[f], sfLast[f], vs)
      /\ sfBytes \in Nat /\ n \in Nat
      /\ s \in SUBSET (vs \cup {0})
  BY SfOld
<1>3. /\ sfReq[r].fd \in vs /\ sfReq[r].fd <= sfReq[r].stamp
      /\ sfReq[r].stamp <= sfReq[r].read.first /\ sfReq[r].read.last <= sfVer[f][sfReq[r].fd]
      /\ sfReq[r].read.first # 0 /\ SfHad(f, sfReq[r].read, s) /\ sfReq[r].owed = 0
      /\ a = NoFile /\ SfOnDisk(f) \in s
  BY <1>1, <1>2 DEF SfReqOK
<1>4. sfReq[r].read \in SfContents(f) /\ sfReq[r].stamp \in vs
  <2>1. sfReq[r].read \in SfContents(f) /\ sfReq[r].stamp \in vs \cup {0}
    BY <1>2 DEF SfRecord
  <2>2. sfReq[r].stamp # 0
    BY <1>2, <1>3, <2>1
  <2> QED BY <2>1, <2>2
<1>5. SfEntryOK(e, sfVer[f], f) /\ e.bytes = sfReq[r].read
  <2>1. sfReq[r].read.first <= sfReq[r].read.last /\ Whole(f, sfReq[r].read)
    BY <1>3 DEF SfHad
  <2> QED BY <1>3, <1>4, <2>1 DEF SfEntryOK
<1>6. q \in SfRecord(f) /\ q.at = "pays" /\ q.owed = n /\ q.read = sfReq[r].read
  <2>1. "pays" \in SfSteps
    BY DEF SfSteps
  <2>2. At("pays") \in SfRecord(f) /\ At("pays").at = "pays"
    BY <2>1, SfAtType
  <2> QED BY <1>2, <1>4, <2>2 DEF SfRecord
<1>7. DOMAIN sfCache = SfFiles /\ DOMAIN sfAnswer = SfRequests /\ DOMAIN sfSeen = SfRequests
  BY DEF SfIInv, SfTypes
<1> HIDE DEF q, e, n
<1>8. SfHolds(q) = 0 /\ SfHolds(sfReq[r]) = e.bytes.len
  BY <1>1, <1>5, <1>6 DEF SfHolds
<1>9. e.bytes.len \in Nat
  BY <1>4, <1>5 DEF SfContents
<1>10. SfCounts(r, e, q, sfBytes, sfBytes', sfCache, sfReq)
  BY <1>1, <1>2, <1>3, <1>6, <1>8, <1>9 DEF SfCounts, n
<1>11. SfReqOK(q, s, a, sfVer[f], SfOnDisk(f), f)
  BY <1>3, <1>6 DEF SfReqOK, NoFile
<1>12. SfTakesStep(r, q, s, a, e)
  BY <1>1, <1>7 DEF SfTakesStep
<1> HIDE DEF s, a
<1> QED BY <1>2, <1>5, <1>6, <1>10, <1>11, <1>12, SfRequestStep

(* What is owed comes off the counter, and the request is answered.        *)
LEMMA SfPaysOK ==
    ASSUME SfIInv, NEW r \in SfRequests, SfPays(r)
    PROVE  SfIInv'
<1> DEFINE f == SfOf[r]
           vs == SfVersions(f)
           s == sfSeen[r]
           a == IF sfReq[r].read.first = 0 THEN NoFile ELSE File(sfReq[r].read)
           e == sfCache[f]
           q == At("answered")
<1>1. /\ sfReq[r].at = "pays" /\ UNCHANGED <<sfFiles, sfCache, sfSeen>>
      /\ sfBytes' = sfBytes - sfReq[r].owed
      /\ sfReq' = [sfReq EXCEPT ![r] = q] /\ sfAnswer' = [sfAnswer EXCEPT ![r] = a]
  BY DEF SfPays, SfAnswers
<1>2. /\ sfReq[r] \in SfRecord(f) /\ f \in SfFiles /\ SfEntryOK(e, sfVer[f], f)
      /\ SfReqOK(sfReq[r], s, sfAnswer[r], sfVer[f], SfOnDisk(f), f)
      /\ sfBytes \in Nat /\ e.bytes.len \in Nat /\ sfReq[r].owed \in Nat
      /\ s \in SUBSET (vs \cup {0})
  BY SfOld
<1>3. a.is = "file" => SfHad(f, a.bytes, s)
  BY <1>1, <1>2 DEF SfReqOK, NoFile, File
<1>4. q \in SfRecord(f) /\ q.at = "answered" /\ q.owed = 0
  BY SfAtType DEF SfSteps
<1>5. DOMAIN sfCache = SfFiles /\ DOMAIN sfAnswer = SfRequests /\ DOMAIN sfSeen = SfRequests
  BY DEF SfIInv, SfTypes
<1> HIDE DEF q, a
<1>6. SfHolds(q) = 0 /\ SfHolds(sfReq[r]) = 0
  BY <1>1, <1>4 DEF SfHolds
<1>7. SfCounts(r, e, q, sfBytes, sfBytes', sfCache, sfReq)
  BY <1>1, <1>2, <1>4, <1>6 DEF SfCounts
<1>8. SfReqOK(q, s, a, sfVer[f], SfOnDisk(f), f)
  BY <1>3, <1>4 DEF SfReqOK
<1>9. SfTakesStep(r, q, s, a, e)
  BY <1>1, <1>5 DEF SfTakesStep
<1> HIDE DEF s, e
<1> QED BY <1>2, <1>4, <1>7, <1>8, <1>9, SfRequestStep

(* The operator changes a file; no request, entry or counter changes.      *)
LEMMA SfBalanceKept ==
    ASSUME SfIInv, UNCHANGED <<sfShared, sfReq>>
    PROVE  (sfBytes = SfCached + SfReserved + SfOwed /\ SfCached + SfReserved <= SfCap)'
BY SfTerms, SfTermsNext DEF SfIInv, sfShared

(* A version is written, in place or to a new inode.                       *)
LEMMA SfWritesOK ==
    ASSUME SfIInv, NEW f \in SfFiles, NEW i, SfWrites(f, i),
           (i = sfInode[f] /\ sfInode[f] # 0) \/ i = sfLast[f] + 1
    PROVE  SfIInv'
<1> DEFINE vs == SfVersions(f)
           v == sfLast[f] + 1
           new == [sfVer[f] EXCEPT ![i] = v]
<1>1. /\ v \in vs /\ sfLast' = [sfLast EXCEPT ![f] = v] /\ sfInode' = [sfInode EXCEPT ![f] = i]
      /\ sfVer' = [sfVer EXCEPT ![f] = new] /\ SfSees(f, v)
      /\ UNCHANGED <<sfShared, sfReq, sfAnswer>>
  BY DEF SfWrites
<1>2. SfDiskOK(sfInode[f], sfVer[f], sfLast[f], vs) /\ vs \subseteq Nat \ {0}
  BY SfVersionsNat DEF SfIInv
<1>3. /\ SfDiskOK(i, new, v, vs) /\ i \in vs
      /\ \A j \in vs : \/ new[j] = sfVer[f][j]
                       \/ new[j] = v /\ (j <= sfVer[f][j] => sfLast[f] = sfVer[f][j])
      /\ \A j \in vs : sfVer[f][j] <= new[j]
  <2>1. new = [sfVer[f] EXCEPT ![i] = sfLast[f] + 1] /\ sfLast[f] + 1 \in vs
    BY <1>1
  <2>2. SfWritten(sfInode[f], sfVer[f], sfLast[f], i, new, vs)
    BY <1>2, <2>1 DEF SfWritten
  <2> HIDE DEF new, vs
  <2> QED BY <2>2, SfWriteDisk
<1>4. /\ sfVer[f] \in [vs -> vs] /\ new \in [vs -> vs] /\ sfLast[f] \in Nat /\ v \in Nat
      /\ new[i] = v /\ i # 0
  BY <1>2, <1>3 DEF SfDiskOK
<1> HIDE DEF new
<1>5. /\ \A g \in SfFiles : sfVer'[g] = IF g = f THEN new ELSE sfVer[g]
      /\ \A g \in SfFiles : sfInode'[g] = IF g = f THEN i ELSE sfInode[g]
      /\ \A g \in SfFiles : sfLast'[g] = IF g = f THEN v ELSE sfLast[g]
      /\ DOMAIN sfVer' = SfFiles /\ DOMAIN sfInode' = SfFiles /\ DOMAIN sfLast' = SfFiles
  BY <1>1 DEF SfIInv, SfTypes
<1>6. /\ DOMAIN sfSeen' = SfRequests
      /\ \A r \in SfRequests : sfSeen'[r] =
            IF SfOf[r] # f \/ sfReq[r].at \in {"idle", "answered"} THEN sfSeen[r]
            ELSE sfSeen[r] \cup {v}
  BY <1>1 DEF SfSees
<1>7. sfCache' = sfCache /\ sfReq' = sfReq /\ sfAnswer' = sfAnswer
  BY <1>1 DEF sfShared
<1>8. SfTypes'
  <2>1. \A r \in SfRequests : sfSeen'[r] \subseteq SfVersions(SfOf[r]) \cup {0}
    BY <1>1, <1>6 DEF SfIInv, SfTypes
  <2> QED BY <1>5, <1>6, <1>7, <2>1 DEF SfIInv, SfTypes
<1>9. \A g \in SfFiles : SfDiskOK(sfInode'[g], sfVer'[g], sfLast'[g], SfVersions(g))
  BY <1>3, <1>5 DEF SfIInv
<1>10. \A g \in SfFiles : SfEntryOK(sfCache[g], sfVer'[g], g)
  <2>1. SfEntryOK(sfCache[f], new, f)
    <3>1. SfEntryOK(sfCache[f], sfVer[f], f)
      BY DEF SfIInv
    <3> QED BY <1>3, <1>4, <3>1, SfWriteEntry
  <2> QED BY <1>5, <2>1 DEF SfIInv
<1>11. \A g \in SfFiles : SfOnDisk(g)' = IF g = f THEN v ELSE SfOnDisk(g)
  BY <1>4, <1>5 DEF SfOnDisk
<1>12. ASSUME NEW r \in SfRequests
       PROVE  SfReqOK(sfReq[r], sfSeen'[r], sfAnswer[r], sfVer'[SfOf[r]], SfOnDisk(SfOf[r])',
                      SfOf[r])
  <2>1. /\ SfReqOK(sfReq[r], sfSeen[r], sfAnswer[r], sfVer[SfOf[r]], SfOnDisk(SfOf[r]),
                   SfOf[r])
        /\ SfOf[r] \in SfFiles /\ sfReq[r] \in SfRecord(SfOf[r])
    BY SfOld
  <2>2. CASE SfOf[r] # f
    <3>1. sfSeen'[r] = sfSeen[r] /\ sfVer'[SfOf[r]] = sfVer[SfOf[r]]
          /\ SfOnDisk(SfOf[r])' = SfOnDisk(SfOf[r])
      BY <1>5, <1>6, <1>11, <2>1, <2>2
    <3> QED BY <2>1, <3>1
  <2>3. CASE SfOf[r] = f
    <3>1. sfVer'[SfOf[r]] = new /\ SfOnDisk(SfOf[r])' = v
      BY <1>5, <1>11, <2>3
    <3>2. /\ sfSeen[r] \subseteq sfSeen'[r]
          /\ sfReq[r].at \notin {"idle", "answered"} => v \in sfSeen'[r]
      BY <1>6, <2>3
    <3>3. SfRewritten(sfVer[f], new, sfLast[f], v, f)
      BY <1>3, <1>4 DEF SfRewritten
    <3>4. SfReqOK(sfReq[r], sfSeen[r], sfAnswer[r], sfVer[f], SfOnDisk(f), f)
          /\ sfReq[r] \in SfRecord(f)
      BY <2>1, <2>3
    <3> DEFINE q == sfReq[r]
               s2 == sfSeen'[r]
               ver == sfVer[f]
               last == sfLast[f]
    <3> HIDE DEF q, s2, ver, last
    <3>5. SfReqOK(q, s2, sfAnswer[r], new, v, f)
      BY <3>2, <3>3, <3>4, SfWriteReq DEF q, s2, ver, last
    <3> QED BY <2>3, <3>1, <3>5 DEF q, s2
  <2> QED BY <2>2, <2>3
<1>13. (sfBytes = SfCached + SfReserved + SfOwed /\ SfCached + SfReserved <= SfCap)'
  BY <1>1, SfBalanceKept
<1> QED BY <1>7, <1>8, <1>9, <1>10, <1>12, <1>13 DEF SfIInv

(* The path loses its file.                                                *)
LEMMA SfRemovesOK ==
    ASSUME SfIInv, NEW f \in SfFiles, SfRemoveFile(f)
    PROVE  SfIInv'
<1>1. /\ sfInode' = [sfInode EXCEPT ![f] = 0] /\ SfSees(f, 0)
      /\ UNCHANGED <<sfVer, sfLast, sfShared, sfReq, sfAnswer>>
  BY DEF SfRemoveFile
<1>2. /\ \A g \in SfFiles : sfInode'[g] = IF g = f THEN 0 ELSE sfInode[g]
      /\ DOMAIN sfInode' = SfFiles
  BY <1>1 DEF SfIInv, SfTypes
<1>3. /\ DOMAIN sfSeen' = SfRequests
      /\ \A r \in SfRequests : sfSeen'[r] =
            IF SfOf[r] # f \/ sfReq[r].at \in {"idle", "answered"} THEN sfSeen[r]
            ELSE sfSeen[r] \cup {0}
  BY <1>1 DEF SfSees
<1>4. /\ sfCache' = sfCache /\ sfReq' = sfReq /\ sfAnswer' = sfAnswer /\ sfVer' = sfVer
      /\ sfLast' = sfLast
  BY <1>1 DEF sfShared
<1>5. SfTypes'
  <2>1. \A r \in SfRequests : sfSeen'[r] \subseteq SfVersions(SfOf[r]) \cup {0}
    BY <1>3 DEF SfIInv, SfTypes
  <2> QED BY <1>2, <1>3, <1>4, <2>1 DEF SfIInv, SfTypes
<1>6. \A g \in SfFiles : SfDiskOK(sfInode'[g], sfVer[g], sfLast[g], SfVersions(g))
  <2>1. \A g \in SfFiles : SfDiskOK(sfInode[g], sfVer[g], sfLast[g], SfVersions(g))
    BY DEF SfIInv
  <2> QED BY <1>2, <2>1 DEF SfDiskOK
<1>7. \A g \in SfFiles : SfOnDisk(g)' = IF g = f THEN 0 ELSE SfOnDisk(g)
  BY <1>2, <1>4 DEF SfOnDisk
<1>8. ASSUME NEW r \in SfRequests
      PROVE  SfReqOK(sfReq[r], sfSeen'[r], sfAnswer[r], sfVer[SfOf[r]], SfOnDisk(SfOf[r])',
                     SfOf[r])
  <2>1. /\ SfReqOK(sfReq[r], sfSeen[r], sfAnswer[r], sfVer[SfOf[r]], SfOnDisk(SfOf[r]),
                   SfOf[r])
        /\ SfOf[r] \in SfFiles
    BY SfOld
  <2>2. /\ sfSeen[r] \subseteq sfSeen'[r]
        /\ sfReq[r].at \notin {"idle", "answered"} => SfOnDisk(SfOf[r])' \in sfSeen'[r]
    BY <1>3, <1>7, <2>1 DEF SfReqOK
  <2> DEFINE q == sfReq[r]
             s == sfSeen[r]
             s2 == sfSeen'[r]
             a == sfAnswer[r]
             ver == sfVer[SfOf[r]]
             d == SfOnDisk(SfOf[r])
             d2 == SfOnDisk(SfOf[r])'
             g == SfOf[r]
  <2>3. SfReqOK(q, s, a, ver, d, g) /\ s \subseteq s2
        /\ (q.at \notin {"idle", "answered"} => d2 \in s2)
    BY <2>1, <2>2
  <2> HIDE DEF q, s, s2, a, ver, d, d2, g
  <2>4. q.at = "lookup" =>
          \E i \in SfVersions(g) : /\ i <= q.stamp /\ q.stamp <= ver[i]
                        /\ SfSince(q.stamp, i, s2, ver, g)
    BY <2>3 DEF SfReqOK, SfSince
  <2>5. /\ a.is = "file" => SfHad(g, a.bytes, s2)
        /\ q.at \in {"reserve", "insert", "pays"} /\ q.read.first # 0 => SfHad(g, q.read, s2)
    BY <2>3, SfHadMore DEF SfReqOK
  <2>6. q.at = "read" => SfSince(q.stamp, q.fd, s2, ver, g)
    BY <2>3 DEF SfReqOK, SfSince
  <2>7. SfReqOK(q, s2, a, ver, d2, g)
    BY <2>3, <2>4, <2>5, <2>6 DEF SfReqOK
  <2> QED BY <2>7 DEF q, s2, a, ver, d2, g
<1>9. (sfBytes = SfCached + SfReserved + SfOwed /\ SfCached + SfReserved <= SfCap)'
  BY <1>1, SfBalanceKept
<1> QED BY <1>4, <1>5, <1>6, <1>8, <1>9 DEF SfIInv

LEMMA SfInitOK == SfInit => SfIInv
<1> SUFFICES ASSUME SfInit PROVE SfIInv
  OBVIOUS
<1>1. SfTypes
  <2>1. \A r \in SfRequests : sfReq[r] \in SfRecord(SfOf[r])
    BY SfAtType DEF SfInit, SfSteps
  <2> QED BY <2>1 DEF SfInit, SfTypes
<1>2. ASSUME NEW f \in SfFiles
      PROVE  /\ SfDiskOK(sfInode[f], sfVer[f], sfLast[f], SfVersions(f))
             /\ SfEntryOK(sfCache[f], sfVer[f], f)
  <2>1. SfVersions(f) \subseteq Nat \ {0} /\ 1 \in SfVersions(f)
    BY SfVersionsNat
  <2>2. /\ sfInode[f] = 1 /\ sfLast[f] = 1 /\ sfVer[f] = [i \in SfVersions(f) |-> 1]
        /\ sfCache[f] = NoEntry
    BY DEF SfInit
  <2>3. sfVer[f] \in [SfVersions(f) -> SfVersions(f)] /\ \A i \in SfVersions(f) : sfVer[f][i] = 1
    BY <2>1, <2>2
  <2>4. SfDiskOK(sfInode[f], sfVer[f], sfLast[f], SfVersions(f))
    <3>1. ASSUME NEW i \in SfVersions(f), NEW j \in SfVersions(f), NEW v \in SfVersions(f),
                 i <= v, v <= sfVer[f][i], j <= v, v <= sfVer[f][j]
          PROVE  i = j
      <4>1. i \in Nat \ {0} /\ j \in Nat \ {0} /\ v \in Nat \ {0}
        BY <2>1
      <4> QED BY <2>3, <3>1, <4>1
    <3> QED BY <2>1, <2>2, <2>3, <3>1 DEF SfDiskOK
  <2> QED BY <2>2, <2>4 DEF SfEntryOK
<1>3. ASSUME NEW r \in SfRequests
      PROVE  SfReqOK(sfReq[r], sfSeen[r], sfAnswer[r], sfVer[SfOf[r]], SfOnDisk(SfOf[r]),
                     SfOf[r])
  <2>1. sfReq[r].at = "idle" /\ sfReq[r].owed = 0 /\ sfAnswer[r] = NoFile
    BY DEF SfInit, At
  <2> QED BY <2>1 DEF SfReqOK, NoFile
<1>4. SfCached = 0
  <2>1. \A f \in SfFiles : SfStored(sfCache)[f] = 0
    BY DEF SfInit, SfStored, NoEntry, NoBytes
  <2> QED BY <2>1, SfTerms, SumNone
<1>5. SfReserved = 0
  <2>1. \A r \in SfRequests : SfHeld(sfReq)[r] = 0
    BY DEF SfInit, SfHeld, SfHolds, At
  <2> QED BY <2>1, SfTerms, SumNone
<1>6. SfOwed = 0
  <2>1. \A r \in SfRequests : SfDebt(sfReq)[r] = 0
    BY DEF SfInit, SfDebt, At
  <2> QED BY <2>1, SfTerms, SumNone
<1>7. sfBytes = SfCached + SfReserved + SfOwed /\ SfCached + SfReserved <= SfCap
  BY <1>4, <1>5, <1>6, SfAssumption DEF SfInit
<1> QED BY <1>1, <1>2, <1>3, <1>7 DEF SfIInv

LEMMA SfNextOK == SfIInv /\ [SfNext]_sfVars => SfIInv'
<1> SUFFICES ASSUME SfIInv, [SfNext]_sfVars PROVE SfIInv'
  OBVIOUS
<1>1. ASSUME NEW f \in SfFiles, SfWrite(f) PROVE SfIInv'
  BY <1>1, SfWritesOK DEF SfWrite
<1>2. ASSUME NEW f \in SfFiles, SfReplace(f) PROVE SfIInv'
  BY <1>2, SfWritesOK DEF SfReplace
<1>3. ASSUME NEW f \in SfFiles, SfRemoveFile(f) PROVE SfIInv'
  BY <1>3, SfRemovesOK
<1>4. ASSUME NEW r \in SfRequests,
             \/ SfArrives(r) \/ SfResolve(r) \/ SfStat(r) \/ SfLookup(r) \/ SfOpen(r)
             \/ SfFstat(r) \/ SfReads(r) \/ SfEof(r) \/ SfReserve(r) \/ SfInsert(r) \/ SfPays(r)
      PROVE  SfIInv'
  BY <1>4, SfArrivesOK, SfResolveOK, SfStatOK, SfLookupOK, SfOpenOK, SfFstatOK, SfReadsOK,
     SfEofOK, SfReserveOK, SfInsertOK, SfPaysOK
<1>5. CASE UNCHANGED sfVars
  <2>1. /\ sfInode' = sfInode /\ sfVer' = sfVer /\ sfLast' = sfLast /\ sfCache' = sfCache
        /\ sfBytes' = sfBytes /\ sfReq' = sfReq /\ sfSeen' = sfSeen /\ sfAnswer' = sfAnswer
    BY <1>5 DEF sfVars, sfFiles, sfShared
  <2>2. \A f \in SfFiles : SfOnDisk(f)' = SfOnDisk(f)
    BY <2>1 DEF SfOnDisk
  <2>3. (sfBytes = SfCached + SfReserved + SfOwed /\ SfCached + SfReserved <= SfCap)'
    BY <2>1, SfBalanceKept DEF sfShared
  <2>4. SfTypes'
    BY <2>1 DEF SfIInv, SfTypes
  <2>5. \A r \in SfRequests : SfOnDisk(SfOf[r])' = SfOnDisk(SfOf[r])
    BY <2>2, SfOfFile
  <2> QED BY <2>1, <2>3, <2>4, <2>5 DEF SfIInv
<1> QED BY <1>1, <1>2, <1>3, <1>4, <1>5 DEF SfNext

LEMMA SfGives == SfIInv => SfSafe
<1> SUFFICES ASSUME SfIInv PROVE SfSafe
  OBVIOUS
<1>1. SfFresh
  BY DEF SfIInv, SfReqOK, SfFresh
<1>2. SfTypeOK
  <2>1. ASSUME NEW f \in SfFiles
        PROVE  /\ sfInode[f] \in SfVersions(f) \cup {0} /\ sfLast[f] \in SfVersions(f)
               /\ sfVer[f] \in [SfVersions(f) -> SfVersions(f)]
               /\ sfCache[f] \in [bytes : SfContents(f), stamp : SfVersions(f) \cup {0}]
    <3>1. SfDiskOK(sfInode[f], sfVer[f], sfLast[f], SfVersions(f))
          /\ SfEntryOK(sfCache[f], sfVer[f], f)
      BY DEF SfIInv
    <3>2. sfCache[f] \in [bytes : SfContents(f), stamp : SfVersions(f) \cup {0}]
      BY <3>1, SfEntryNat
    <3> QED BY <3>1, <3>2 DEF SfDiskOK
  <2>2. ASSUME NEW r \in SfRequests
        PROVE  /\ sfReq[r] \in SfRecord(SfOf[r])
               /\ sfSeen[r] \subseteq SfVersions(SfOf[r]) \cup {0}
    BY DEF SfIInv, SfTypes
  <2>3. sfBytes \in Nat
    BY SfBytesNat
  <2> QED BY <2>1, <2>2, <2>3 DEF SfTypeOK
<1>3. SfAccounted
  BY SfBytesNat DEF SfIInv, SfAccounted
<1> QED BY <1>1, <1>2, <1>3 DEF SfSafe

(* Answers are fresh and the cache's counter is exact: whatever writes,    *)
(* replacements, removals and other requests come between its steps, and   *)
(* between the reads of one file, a request is answered with one version   *)
(* its file had since it came, whole, or with pieces of the versions it    *)
(* had while it was read and since the request came; and the counter is    *)
(* the cached bytes plus what requests hold and owe, within the cap        *)
(* (static_fs.rs, serve, read_regular_file, cache_insert, cache_remove).   *)
THEOREM StaticCorrect == SfSpec => []SfSafe
<1>1. SfInit => SfIInv
  BY SfInitOK
<1>2. SfIInv /\ [SfNext]_sfVars => SfIInv'
  BY SfNextOK
<1>3. SfIInv => SfSafe
  BY SfGives
<1> QED BY <1>1, <1>2, <1>3, PTL DEF SfSpec
=============================================================================

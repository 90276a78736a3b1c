-------------------------- MODULE SimProcessProofs --------------------------
(***************************************************************************)
(* Why comparing only the values under a signature's redis keys misses     *)
(* nothing: the pigeonhole argument behind make_rediskey, for every way of *)
(* cutting signatures into parts.                                          *)
(***************************************************************************)
EXTENDS SimProcess, ListProofs

(* The differing bits fall into at most as many parts as there are bits.   *)
LEMMA TouchedParts ==
  ASSUME NEW D \in SUBSET Bits
  PROVE  /\ IsFiniteSet(D)
         /\ IsFiniteSet({BlockOf[x] : x \in D})
         /\ Cardinality({BlockOf[x] : x \in D}) <= Cardinality(D)
<1> DEFINE T == {BlockOf[x] : x \in D}
           f == [x \in D |-> BlockOf[x]]
<1>1. IsFiniteSet(D)
  BY SimAssumption, FS_Subset
<1>2. f \in Surjection(D, T)
  BY DEF Surjection
<1>3. IsFiniteSet(T) /\ Cardinality(T) <= Cardinality(D)
  <2> HIDE DEF T, f
  <2> QED BY <1>1, <1>2, FS_Surjection
<1> QED
  BY <1>1, <1>3

(* A set of at least two numbers has two of them, in order.                *)
LEMMA TwoInOrder ==
  ASSUME NEW S \in SUBSET Nat, IsFiniteSet(S), Cardinality(S) >= 2
  PROVE  \E i, j \in S : i < j
<1>1. PICK i \in S : TRUE
  <2>1. Cardinality(S) # 0
    OBVIOUS
  <2> QED BY <2>1, FS_EmptySet, Zenon
<1>2. S # {i}
  <2>1. Cardinality(S) # 1
    OBVIOUS
  <2> QED BY <2>1, FS_Singleton, Zenon
<1>3. PICK j \in S : j # i
  BY <1>1, <1>2
<1> QED
  BY <1>1, <1>3

(* Signatures that differ in few bits agree on two parts: two less than    *)
(* there are parts is few enough (make_rediskey, hamming_dist).            *)
LEMMA TwoPartsAgree ==
  ASSUME NEW a \in SUBSET Bits, NEW b \in SUBSET Bits, HammingDist(a, b) <= Blocks - 2
  PROVE  \E i, j \in 1 .. Blocks :
           i < j /\ a \intersect Part(i) = b \intersect Part(i)
                 /\ a \intersect Part(j) = b \intersect Part(j)
<1> DEFINE D == (a \ b) \union (b \ a)
           T == {BlockOf[x] : x \in D}
           Free == (1 .. Blocks) \ T
<1>1. D \in SUBSET Bits /\ Cardinality(D) <= Blocks - 2
  BY DEF HammingDist
<1>2. IsFiniteSet(D) /\ IsFiniteSet(T) /\ Cardinality(T) <= Cardinality(D)
  BY <1>1, TouchedParts
<1>3. /\ Blocks \in Nat
      /\ IsFiniteSet(1 .. Blocks) /\ Cardinality(1 .. Blocks) = Blocks
  BY SimAssumption, FS_Interval
<1>4. IsFiniteSet(Free) /\ Cardinality(Free) >= 2
  <2> HIDE DEF T
  <2>1. IsFiniteSet(Free)
        /\ Cardinality(Free) = Blocks - Cardinality((1 .. Blocks) \intersect T)
    BY <1>3, FS_Difference
  <2>2. (1 .. Blocks) \intersect T \in SUBSET T
    OBVIOUS
  <2>3. Cardinality((1 .. Blocks) \intersect T) <= Cardinality(T)
        /\ IsFiniteSet((1 .. Blocks) \intersect T)
    BY <1>2, <2>2, FS_Subset
  <2>4. /\ Cardinality((1 .. Blocks) \intersect T) \in Nat
        /\ Cardinality(T) \in Nat /\ Cardinality(D) \in Nat
    <3> HIDE DEF D
    <3> QED BY <1>2, <2>3, FS_CardinalityType
  <2> HIDE DEF D, Free
  <2> QED
    BY <1>1, <1>2, <1>3, <2>1, <2>3, <2>4
<1>5. PICK i, j \in Free : i < j
  <2>1. Free \in SUBSET Nat
    BY <1>3
  <2> HIDE DEF Free
  <2> QED BY <1>4, <2>1, TwoInOrder
<1>6. ASSUME NEW p \in Free
      PROVE  a \intersect Part(p) = b \intersect Part(p)
  BY <1>6 DEF Part
<1> QED
  BY <1>5, <1>6

(* Two signatures within hamdis bits of each other have a redis key in     *)
(* common, so the LRANGE of one reaches what the RPUSH of the other stored *)
(* (make_rediskey).                                                        *)
THEOREM SimilarShareKey ==
  ASSUME NEW a \in Signs, NEW b \in Signs, HammingDist(a, b) <= HamDis
  PROVE  RedisKeys(a) \intersect RedisKeys(b) # {}
<1>1. /\ a \in SUBSET Bits /\ b \in SUBSET Bits
      /\ HamDis <= Blocks - 2 /\ HamDis \in Nat /\ Blocks \in Nat
  BY SimAssumption
<1>2. Cardinality((a \ b) \union (b \ a)) \in Nat
  <2>1. (a \ b) \union (b \ a) \in SUBSET Bits
    BY <1>1
  <2> QED
    BY <2>1, TouchedParts, FS_CardinalityType
<1>3. HammingDist(a, b) <= Blocks - 2
  BY <1>1, <1>2 DEF HammingDist
<1>4. PICK i, j \in 1 .. Blocks :
        i < j /\ a \intersect Part(i) = b \intersect Part(i)
              /\ a \intersect Part(j) = b \intersect Part(j)
  BY <1>1, <1>3, TwoPartsAgree
<1>5. Key(a, i, j) = Key(b, i, j)
  BY <1>4 DEF Key
<1>6. \A s : Key(s, i, j) \in RedisKeys(s)
  <2>1. <<i, j>> \in {q \in (1 .. Blocks) \X (1 .. Blocks) : q[1] < q[2]}
    BY <1>4
  <2> QED
    BY <2>1 DEF RedisKeys
<1> QED
  BY <1>5, <1>6

(* Nothing that is owed is missing: redis has it, or a thread is about to   *)
(* push it again.                                                          *)
OwedHeld ==
  \A x \in owed : \A k \in RedisKeys(x[2]) : x \in Entries(lists[k]) \/ InFlight(k, x)

(* In such a state a request's LRANGE sees every stored document within     *)
(* hamdis bits of its own: the step SimilarSeen is about (redis_get_value). *)
THEOREM KeptIsSeen ==
  ASSUME TypeOK, OwedHeld, NEW t \in Threads, Lrange(t), input[t].sign \in Signs,
         NEW x \in owed, HammingDist(x[2], input[t].sign) <= HamDis
  PROVE  \E k \in MyKeys(t) : x \in Entries(redisvalue'[t][k]) \/ InFlight(k, x)
<1>1. x[2] \in Signs
  BY DEF TypeOK
<1>2. PICK k \in RedisKeys(x[2]) : k \in MyKeys(t)
  BY <1>1, SimilarShareKey DEF MyKeys
<1>3. k \in Keys
  BY <1>1, <1>2 DEF Keys
<1>4. x \in Entries(lists[k]) \/ InFlight(k, x)
  BY <1>2 DEF OwedHeld
<1>5. redisvalue'[t][k] = lists[k]
  BY <1>2, <1>3 DEF Lrange, TypeOK
<1> QED
  BY <1>2, <1>4, <1>5

-----------------------------------------------------------------------------
(* Lists of values.                                                        *)

(* What is in two lists is in their concatenation.                         *)
LEMMA EntriesJoined ==
  ASSUME NEW a \in Seq(Value), NEW b \in Seq(Value)
  PROVE  Entries(a) \union Entries(b) \subseteq Entries(a \o b)
<1>1. \A i \in 1 .. Len(a) : i \in 1 .. Len(a \o b) /\ (a \o b)[i] = a[i]
  OBVIOUS
<1>2. \A i \in 1 .. Len(b) :
        Len(a) + i \in 1 .. Len(a \o b) /\ (a \o b)[Len(a) + i] = b[i]
  OBVIOUS
<1> QED
  BY <1>1, <1>2 DEF Entries

(* LTRIM leaves a list of values, wherever it starts.                      *)
LEMMA LtrimType ==
  ASSUME NEW list \in Seq(Value), NEW start \in Int
  PROVE  Ltrim(list, start) \in Seq(Value)
<1>1. CASE start >= 0
  BY <1>1 DEF Ltrim
<1>2. CASE start < 0 /\ Len(list) <= -start
  BY <1>2 DEF Ltrim
<1>3. CASE start < 0 /\ Len(list) > -start
  BY <1>3 DEF Ltrim
<1> QED
  BY <1>1, <1>2, <1>3

(* A longest run of expired values exists, so the LTRIM starts somewhere.  *)
LEMMA TrimStartType ==
  ASSUME NEW values \in Seq(Value)
  PROVE  TrimStart(values) \in Int
<1> DEFINE st == IF Truncates(values) THEN Len(values) - MaxRedisList ELSE 0
           M == Len(values) - st
           Stops == {n \in 0 .. M : n < M => ~Expired(values[st + n + 1])}
           IsRun(n) == /\ \A i \in 1 .. n : Expired(values[st + i])
                       /\ n < M => ~Expired(values[st + n + 1])
<1>1. st \in Nat /\ M \in Nat /\ MaxRedisList \in Nat /\ Len(values) \in Nat
  BY SimAssumption DEF Truncates
<1> HIDE DEF st, M
<1>2. \E n \in 0 .. M : IsRun(n)
  <2>1. Stops \in SUBSET Nat /\ M \in Stops
    BY <1>1
  <2>2. PICK n \in Stops : \A m \in Stops : n <= m
    <3> HIDE DEF Stops
    <3> QED BY <2>1, LeastNatural
  <2>3. ASSUME NEW i \in 1 .. n
        PROVE  Expired(values[st + i])
    <3>1. n \in 0 .. M /\ n \in Int
      BY <1>1, <2>2
    <3>2. i - 1 \in 0 .. M /\ ~ (n <= i - 1) /\ st + (i - 1) + 1 = st + i
      BY <1>1, <3>1
    <3>3. i - 1 \notin Stops
      <4> HIDE DEF Stops
      <4> QED BY <2>2, <3>2
    <3> QED
      BY <3>2, <3>3
  <2> QED
    BY <2>2, <2>3
<1>3. ExpiredRun(values) \in Int
  <2>1. (CHOOSE n \in 0 .. M : IsRun(n)) \in 0 .. M
    BY <1>2
  <2>2. ExpiredRun(values) = IF Len(values) < CheckNum THEN 0
                             ELSE CHOOSE n \in 0 .. M : IsRun(n)
    BY DEF ExpiredRun, st, M
  <2> HIDE DEF IsRun
  <2> QED
    BY <1>1, <2>1, <2>2
<1> QED
  BY <1>1, <1>3 DEF TrimStart

(* What get_similar_doc finds are values it was given.                     *)
LEMMA SimilarType ==
  ASSUME NEW r \in Request, NEW values \in Seq(Value)
  PROVE  Similar(r, values) \in Seq(Value)
<1> DEFINE distance == [i \in DOMAIN values |-> HammingDist(values[i].sign, r.sign)]
           I == {i \in DOMAIN values : /\ values[i].doc # r.doc
                                       /\ ~Expired(values[i])
                                       /\ distance[i] <= HamDis}
<1>1. \A i \in DOMAIN values : distance[i] \in Int
  <2> SUFFICES ASSUME NEW i \in DOMAIN values
               PROVE  HammingDist(values[i].sign, r.sign) \in Int
    OBVIOUS
  <2>1. values[i] \in Value
    OBVIOUS
  <2>2. values[i].sign \in SUBSET Bits /\ r.sign \in SUBSET Bits
    BY <2>1, SimAssumption DEF Value, Request
  <2>3. (values[i].sign \ r.sign) \union (r.sign \ values[i].sign) \in SUBSET Bits
    BY <2>2
  <2>4. Cardinality((values[i].sign \ r.sign) \union (r.sign \ values[i].sign)) \in Nat
    BY <2>3, TouchedParts, FS_CardinalityType
  <2> QED
    BY <2>4 DEF HammingDist
<1>2. I \in SUBSET DOMAIN values
  OBVIOUS
<1>3. Similar(r, values) = PickBy(values, I, distance)
  BY DEF Similar
<1> HIDE DEF I, distance
<1> QED
  BY <1>1, <1>2, <1>3, PickByParts

(* LREM takes nothing out but the values it is given.                      *)
LEMMA RemovedOnly ==
  ASSUME NEW list \in Seq(Value), NEW values \in Seq(Value)
  PROVE  /\ RemoveOnce(list, values) \in Seq(Value)
         /\ Entries(list) \ Entries(RemoveOnce(list, values)) \subseteq Entries(values)
<1> DEFINE Copies(i) == {j \in 1 .. i : list[j] = list[i]}
           Asked(i) == {n \in DOMAIN values : values[n] = list[i]}
           I == {i \in DOMAIN list : Cardinality(Copies(i)) > Cardinality(Asked(i))}
<1>1. RemoveOnce(list, values) = Pick(list, I)
  BY DEF RemoveOnce
<1>2. I \in SUBSET DOMAIN list
  OBVIOUS
<1>3. ASSUME NEW i \in DOMAIN list, i \notin I
      PROVE  \E n \in DOMAIN values : values[n] = list[i]
  <2>1. i \in 1 .. i /\ i \in Int
    OBVIOUS
  <2>2. Copies(i) \in SUBSET (1 .. i) /\ i \in Copies(i) /\ IsFiniteSet(1 .. i)
    BY <2>1, FS_Interval
  <2>3. SUFFICES ASSUME Asked(i) = {} PROVE FALSE
    OBVIOUS
  <2>4. ~ (Cardinality(Copies(i)) > Cardinality(Asked(i)))
    BY <1>3
  <2> HIDE DEF Copies, Asked, I
  <2>5. IsFiniteSet(Copies(i)) /\ Cardinality(Copies(i)) # 0
    BY <2>2, FS_Subset, FS_EmptySet
  <2>6. Cardinality(Copies(i)) \in Nat /\ Cardinality(Asked(i)) = 0
    BY <2>3, <2>5, FS_CardinalityType, FS_EmptySet
  <2> QED
    BY <2>4, <2>5, <2>6
<1> HIDE DEF I
<1>4. /\ Pick(list, I) \in Seq(Value)
      /\ \A i \in I : \E n \in 1 .. Len(Pick(list, I)) : Pick(list, I)[n] = list[i]
  BY <1>2, PickParts
<1>5. ASSUME NEW i \in 1 .. Len(list),
             <<list[i].doc, list[i].sign>> \notin Entries(RemoveOnce(list, values))
      PROVE  <<list[i].doc, list[i].sign>> \in Entries(values)
  <2>1. i \notin I
    <3> SUFFICES ASSUME i \in I PROVE FALSE
      OBVIOUS
    <3>1. PICK n \in 1 .. Len(Pick(list, I)) : Pick(list, I)[n] = list[i]
      BY <1>4
    <3> QED
      BY <1>1, <1>5, <3>1 DEF Entries
  <2>2. PICK n \in DOMAIN values : values[n] = list[i]
    BY <1>3, <2>1
  <2> QED
    BY <2>2 DEF Entries
<1> QED
  BY <1>1, <1>4, <1>5 DEF Entries

-----------------------------------------------------------------------------
(* The invariant.                                                          *)

(* A thread at work has a request, and only APPEND goes the way of         *)
(* redis_ltrim_ahead, COMPARE and APPCOM that of LRANGE (sim_process).      *)
Requested ==
  \A t \in Threads :
    /\ pc[t] # "idle" => input[t] \in Request
    /\ pc[t] = "ahead" => input[t].strategy = "APPEND"
    /\ pc[t] \in {"lrange", "compare", "lrem"} =>
         input[t].strategy \in {"COMPARE", "APPCOM"}

(* What is kept of every list as one message to redis changes it.          *)
LEMMA PutType ==
  ASSUME TypeOK, NEW new \in [Keys -> Seq(Value)], Put(new)
  PROVE  /\ lists' \in [Keys -> Seq(Value)] /\ ttl' \in [Keys -> Nat]
         /\ \A k \in Keys : lists'[k] = <<>> => ttl'[k] = 0
<1>1. ttl' = [k \in Keys |-> IF new[k] = <<>> THEN 0 ELSE ttl[k]] /\ lists' = new
  BY DEF Put
<1>2. \A k \in Keys : ttl[k] \in Nat
  BY DEF TypeOK
<1> QED
  BY <1>1, <1>2

(* What a thread pushes are values.                                        *)
LEMMA PushedType ==
  ASSUME TypeOK, Requested, NEW t \in Threads, pc[t] = "rpush", NEW k \in Keys
  PROVE  Pushed(t, k) \in Seq(Value)
<1>1. input[t] \in Request /\ simdis[t][k] \in Seq(Value) /\ now \in Nat /\ permanent \in BOOLEAN
  BY SimAssumption DEF TypeOK, Requested
<1>2. ASSUME NEW v \in Value
      PROVE  Delayed(v) \in Value
  <2>1. now + HitLifetime \in Nat
    BY <1>1, SimAssumption
  <2> DEFINE stamp == now + HitLifetime
  <2>2. Delayed(v) = [v EXCEPT !.timestamp = stamp]
    BY DEF Delayed
  <2> HIDE DEF stamp
  <2>3. stamp \in Nat
    BY <2>1 DEF stamp
  <2> QED
    BY <2>2, <2>3 DEF Value
<1>3. [i \in 1 .. Len(simdis[t][k]) |-> Delayed(simdis[t][k][i])] \in Seq(Value)
  <2>1. \A i \in 1 .. Len(simdis[t][k]) : Delayed(simdis[t][k][i]) \in Value
    BY <1>1, <1>2
  <2> QED
    BY <1>1, <2>1
<1>4. NewValue(t) \in Value
  <2>1. (IF permanent THEN 0 ELSE now + input[t].expiretime) \in Nat
    BY <1>1 DEF Request
  <2> QED
    BY <1>1, <2>1 DEF NewValue, Value, Request
<1>5. Own(t, k) \in Seq(Value)
  BY <1>4 DEF Own
<1> DEFINE D == IF Delays(t)
                THEN [i \in 1 .. Len(simdis[t][k]) |-> Delayed(simdis[t][k][i])] ELSE <<>>
<1>6. D \in Seq(Value)
  BY <1>3
<1>7. Pushed(t, k) = D \o Own(t, k)
  BY DEF Pushed
<1> HIDE DEF D
<1> QED
  BY <1>5, <1>6, <1>7

(* RPUSH pushes again what is delayed.                                     *)
LEMMA PushedAgain ==
  ASSUME TypeOK, Requested, NEW t \in Threads, pc[t] = "rpush", NEW k \in Keys, Delays(t),
         NEW x \in Entries(simdis[t][k])
  PROVE  x \in Entries(Pushed(t, k))
<1> DEFINE D == [i \in 1 .. Len(simdis[t][k]) |-> Delayed(simdis[t][k][i])]
<1>1. simdis[t][k] \in Seq(Value)
  BY DEF TypeOK
<1>2. PICK i \in 1 .. Len(simdis[t][k]) : x = <<simdis[t][k][i].doc, simdis[t][k][i].sign>>
  BY DEF Entries
<1>3. Pushed(t, k) = D \o Own(t, k)
  BY DEF Pushed
<1>4. Len(D) = Len(simdis[t][k]) /\ D[i] = Delayed(simdis[t][k][i])
  BY <1>1, <1>2
<1>5. D[i].doc = simdis[t][k][i].doc /\ D[i].sign = simdis[t][k][i].sign
  BY <1>1, <1>2, <1>4 DEF Delayed, Value
<1>6. Own(t, k) \in Seq({NewValue(t)})
  <2> DEFINE v == NewValue(t)
  <2>1. Own(t, k) = <<v>> \/ Own(t, k) = <<>>
    BY DEF Own
  <2> HIDE DEF v
  <2>2. <<v>> \in Seq({v}) /\ <<>> \in Seq({v})
    OBVIOUS
  <2>3. Own(t, k) \in Seq({v})
    BY <2>1, <2>2
  <2> QED
    BY <2>3 DEF v
<1>7. D \in Seq({D[j] : j \in 1 .. Len(simdis[t][k])})
  BY <1>1
<1> HIDE DEF D
<1>8. i \in 1 .. Len(Pushed(t, k)) /\ Pushed(t, k)[i] = D[i]
  BY <1>2, <1>3, <1>4, <1>6, <1>7
<1> QED
  BY <1>2, <1>5, <1>8 DEF Entries

(* RPUSH pushes the document itself under each of its keys.                *)
LEMMA PushedOwn ==
  ASSUME TypeOK, Requested, NEW t \in Threads, pc[t] = "rpush", NEW k \in MyKeys(t), Appends(t)
  PROVE  <<input[t].doc, input[t].sign>> \in Entries(Pushed(t, k))
<1> DEFINE D == IF Delays(t)
                THEN [i \in 1 .. Len(simdis[t][k]) |-> Delayed(simdis[t][k][i])] ELSE <<>>
<1>1. input[t].sign \in Signs
  BY DEF Requested, Request
<1>2. k \in Keys /\ simdis[t][k] \in Seq(Value)
  <2>1. k \in Keys
    BY <1>1 DEF Keys, MyKeys
  <2>2. simdis \in [Threads -> [Keys -> Seq(Value)]]
    BY DEF TypeOK
  <2> QED
    BY <2>1, <2>2
<1>3. Pushed(t, k) = D \o <<NewValue(t)>>
  BY DEF Pushed, Own
<1>4. D \in Seq({D[j] : j \in 1 .. Len(simdis[t][k])})
  BY <1>2
<1> HIDE DEF D
<1>5. /\ Len(D) + 1 \in 1 .. Len(Pushed(t, k))
      /\ Pushed(t, k)[Len(D) + 1] = NewValue(t)
  BY <1>3, <1>4
<1>6. NewValue(t).doc = input[t].doc /\ NewValue(t).sign = input[t].sign
  BY DEF NewValue
<1> QED
  BY <1>5, <1>6 DEF Entries

(* The types in three parts: what redis holds, what the threads hold, the  *)
(* rest.                                                                   *)
StoreOK ==
  /\ lists \in [Keys -> Seq(Value)] /\ ttl \in [Keys -> Nat]
  /\ \A k \in Keys : lists[k] = <<>> => ttl[k] = 0

LocalOK ==
  /\ pc \in [Threads -> {"idle", "delete", "ahead", "lrange", "compare", "lrem",
                         "rpush", "expire", "ltrim"}]
  /\ input \in [Threads -> Request \union {NoInput}]
  /\ redisvalue \in [Threads -> [Keys -> Seq(Value)]]
  /\ simdis \in [Threads -> [Keys -> Seq(Value)]]
  /\ sameDoc \in [Threads -> BOOLEAN]
  /\ \A t \in Threads : pc[t] \in {"idle", "lrange", "compare"} => simdis[t] = Nothing

HistoryOK == owed \subseteq Docs \X Signs /\ taken \subseteq Docs \X Signs

RestOK ==
  /\ now \in 0 .. MaxTime /\ permanent \in BOOLEAN
  /\ HistoryOK
  /\ requests \in 0 .. MaxRequests /\ failures \in 0 .. MaxFailures

LEMMA TypeParts == TypeOK <=> StoreOK /\ LocalOK /\ RestOK
  BY DEF TypeOK, StoreOK, LocalOK, RestOK, HistoryOK

(* A thread that returns holds nothing.                                    *)
LEMMA ReturnKeeps ==
  ASSUME LocalOK, Requested, NEW t \in Threads, Return(t)
  PROVE  LocalOK' /\ Requested'
<1>1. Nothing \in [Keys -> Seq(Value)]
  BY DEF Nothing
<1>2. LocalOK'
  BY <1>1 DEF LocalOK, Return, Nothing
<1>3. Requested'
  BY DEF LocalOK, Requested, Return
<1> QED
  BY <1>2, <1>3

(* A thread that goes on to the next message keeps what it holds.          *)
LEMMA GotoKeeps ==
  ASSUME LocalOK, Requested, NEW t \in Threads, pc[t] # "idle",
         NEW label \in {"rpush", "expire", "ltrim"}, Goto(t, label)
  PROVE  LocalOK' /\ Requested'
  BY DEF LocalOK, Requested, Goto, local, Nothing

LEMMA AfterInsertKeeps ==
  ASSUME LocalOK, Requested, NEW t \in Threads, pc[t] # "idle", AfterInsert(t)
  PROVE  LocalOK' /\ Requested'
  BY ReturnKeeps, GotoKeeps DEF AfterInsert

LEMMA LocalUnchanged ==
  ASSUME LocalOK, Requested, UNCHANGED <<pc, local>>
  PROVE  LocalOK' /\ Requested'
  BY DEF LocalOK, Requested, local, Nothing

(* Messages that shorten lists, and those that leave redis alone.          *)
LEMMA PutAwayKeeps ==
  ASSUME TypeOK, NEW new \in [Keys -> Seq(Value)], PutAway(new)
  PROVE  StoreOK' /\ HistoryOK'
  BY PutType DEF PutAway, StoreOK, TypeOK, HistoryOK

LEMMA StoreUnchanged ==
  ASSUME StoreOK, UNCHANGED redis
  PROVE  StoreOK'
  BY DEF StoreOK, redis

LEMMA CountKeeps ==
  ASSUME RestOK, Answered \/ Fails
  PROVE  failures' \in 0 .. MaxFailures
  BY SimAssumption DEF RestOK, Answered, Fails, HistoryOK, history

LEMMA TypesInductive ==
  ASSUME TypeOK, Requested, [Next]_vars
  PROVE  TypeOK' /\ Requested'
<1>0. StoreOK /\ LocalOK /\ RestOK
  BY TypeParts
<1> SUFFICES StoreOK' /\ LocalOK' /\ RestOK' /\ Requested'
  BY TypeParts DEF TypeOK, StoreOK, LocalOK, RestOK, HistoryOK
<1>1. CASE Tick
  <2> DEFINE new == [k \in Keys |-> IF ttl[k] # 0 /\ ttl[k] <= now + 1 THEN <<>> ELSE lists[k]]
  <2>1. new \in [Keys -> Seq(Value)]
    BY <1>0 DEF StoreOK
  <2>2. PutAway(new)
    BY <1>1 DEF Tick
  <2> HIDE DEF new
  <2>3. StoreOK' /\ HistoryOK'
    BY <2>1, <2>2, PutAwayKeeps
  <2>4. LocalOK' /\ Requested'
    BY <1>0, <1>1, LocalUnchanged DEF Tick
  <2>5. RestOK'
    BY <1>0, <1>1, <2>3, SimAssumption DEF Tick, RestOK, HistoryOK, history
  <2> QED
    BY <2>3, <2>4, <2>5
<1>2. ASSUME NEW t \in Threads, NEW r \in Requests, Receive(t, r)
      PROVE  StoreOK' /\ LocalOK' /\ RestOK' /\ Requested'
  <2>1. r \in Request
    BY SimAssumption
  <2>2. StoreOK'
    BY <1>0, <1>2, StoreUnchanged DEF Receive
  <2>3. RestOK'
    BY <1>0, <1>2, SimAssumption DEF Receive, RestOK, HistoryOK, history
  <2> DEFINE label == CASE r.strategy = "DELETE" -> "delete"
                        [] r.strategy = "APPEND" -> "ahead"
                        [] OTHER -> "lrange"
  <2>4. /\ label \in {"delete", "ahead", "lrange"}
        /\ label = "ahead" => r.strategy = "APPEND"
        /\ label = "lrange" => r.strategy \in {"COMPARE", "APPCOM"}
    <3>0. r.strategy \in {"APPEND", "COMPARE", "APPCOM", "DELETE"}
      BY <2>1 DEF Request
    <3>1. CASE r.strategy = "DELETE"
      BY <3>1
    <3>2. CASE r.strategy = "APPEND"
      BY <3>2
    <3>3. CASE r.strategy # "DELETE" /\ r.strategy # "APPEND"
      BY <3>0, <3>3
    <3> QED
      BY <3>0, <3>1, <3>2, <3>3
  <2>5. pc' = [pc EXCEPT ![t] = label] /\ pc[t] = "idle"
    BY <1>2 DEF Receive
  <2> HIDE DEF label
  <2>6. LocalOK'
    BY <1>0, <1>2, <2>1, <2>4, <2>5 DEF Receive, LocalOK, Nothing
  <2>7. Requested'
    BY <1>0, <1>2, <2>1, <2>4, <2>5 DEF Receive, LocalOK, Requested
  <2> QED
    BY <2>2, <2>3, <2>6, <2>7
<1>3. ASSUME NEW t \in Threads, DocDelete(t)
      PROVE  StoreOK' /\ LocalOK' /\ RestOK' /\ Requested'
  <2> DEFINE v == [doc |-> input[t].doc, sign |-> input[t].sign,
                   timestamp |-> input[t].expiretime]
             new == [k \in Keys |-> IF k \in MyKeys(t)
                                    THEN Pick(lists[k], {i \in DOMAIN lists[k] : lists[k][i] # v})
                                    ELSE lists[k]]
  <2>1. new \in [Keys -> Seq(Value)]
    <3> SUFFICES ASSUME NEW k \in Keys
                 PROVE  Pick(lists[k], {i \in DOMAIN lists[k] : lists[k][i] # v}) \in Seq(Value)
                        /\ lists[k] \in Seq(Value)
      OBVIOUS
    <3>1. lists[k] \in Seq(Value)
      BY <1>0 DEF StoreOK
    <3>2. {i \in DOMAIN lists[k] : lists[k][i] # v} \in SUBSET DOMAIN lists[k]
      OBVIOUS
    <3> QED
      BY <3>1, <3>2, PickParts
  <2>2. PutAway(new) \/ UNCHANGED <<redis, history>>
    BY <1>3 DEF DocDelete
  <2> HIDE DEF new
  <2>3. StoreOK' /\ HistoryOK'
    BY <1>0, <2>1, <2>2, PutAwayKeeps, StoreUnchanged DEF RestOK, HistoryOK, history
  <2>4. LocalOK' /\ Requested'
    BY <1>0, <1>3, ReturnKeeps DEF DocDelete
  <2>5. RestOK'
    <3>1. Answered \/ Fails
      BY <1>3 DEF DocDelete
    <3>2. failures' \in 0 .. MaxFailures
      BY <1>0, <3>1, CountKeeps
    <3> QED
      BY <1>0, <1>3, <2>3, <3>2 DEF DocDelete, RestOK, HistoryOK, history
  <2> QED
    BY <2>3, <2>4, <2>5
<1>4. ASSUME NEW t \in Threads, LtrimAhead(t)
      PROVE  StoreOK' /\ LocalOK' /\ RestOK' /\ Requested'
  <2> DEFINE new == [k \in Keys |-> IF k \in MyKeys(t)
                                    THEN Ltrim(lists[k], -MaxRedisList) ELSE lists[k]]
  <2>1. new \in [Keys -> Seq(Value)]
    <3> SUFFICES ASSUME NEW k \in Keys
                 PROVE  Ltrim(lists[k], -MaxRedisList) \in Seq(Value) /\ lists[k] \in Seq(Value)
      OBVIOUS
    <3>1. lists[k] \in Seq(Value) /\ -MaxRedisList \in Int
      BY <1>0, SimAssumption DEF StoreOK
    <3> QED
      BY <3>1, LtrimType
  <2>2. PutAway(new) \/ UNCHANGED <<redis, history>>
    BY <1>4 DEF LtrimAhead
  <2> HIDE DEF new
  <2>3. StoreOK' /\ HistoryOK'
    BY <1>0, <2>1, <2>2, PutAwayKeeps, StoreUnchanged DEF RestOK, HistoryOK, history
  <2>4. LocalOK' /\ Requested'
    BY <1>0, <1>4, GotoKeeps DEF LtrimAhead
  <2>5. RestOK'
    <3>1. Answered \/ Fails
      BY <1>4 DEF LtrimAhead
    <3>2. failures' \in 0 .. MaxFailures
      BY <1>0, <3>1, CountKeeps
    <3> QED
      BY <1>0, <1>4, <2>3, <3>2 DEF LtrimAhead, RestOK, HistoryOK, history
  <2> QED
    BY <2>3, <2>4, <2>5
<1>5. ASSUME NEW t \in Threads, Lrange(t)
      PROVE  StoreOK' /\ LocalOK' /\ RestOK' /\ Requested'
  <2>1. [k \in Keys |-> IF k \in MyKeys(t) THEN lists[k] ELSE <<>>] \in [Keys -> Seq(Value)]
    BY <1>0 DEF StoreOK
  <2>2. StoreOK' /\ RestOK'
    BY <1>0, <1>5, StoreUnchanged DEF Lrange, RestOK, HistoryOK, history
  <2>3. LocalOK'
    BY <1>0, <1>5, <2>1 DEF Lrange, LocalOK, Nothing
  <2>4. Requested'
    BY <1>0, <1>5 DEF Lrange, LocalOK, Requested
  <2> QED
    BY <2>2, <2>3, <2>4
<1>6. ASSUME NEW t \in Threads, LrangeFails(t)
      PROVE  StoreOK' /\ LocalOK' /\ RestOK' /\ Requested'
  <2>1. StoreOK' /\ LocalOK' /\ Requested'
    BY <1>0, <1>6, StoreUnchanged, ReturnKeeps DEF LrangeFails
  <2>2. RestOK'
    BY <1>0, <1>6, CountKeeps DEF LrangeFails, RestOK, HistoryOK, history
  <2> QED
    BY <2>1, <2>2
<1>7. ASSUME NEW t \in Threads, Compare(t)
      PROVE  StoreOK' /\ LocalOK' /\ RestOK' /\ Requested'
  <2>1. [k \in Keys |-> Similar(input[t], redisvalue[t][k])] \in [Keys -> Seq(Value)]
    <3>1. input[t] \in Request
      BY <1>7 DEF Compare, Requested
    <3>2. \A k \in Keys : redisvalue[t][k] \in Seq(Value)
      BY <1>0 DEF LocalOK
    <3> QED
      BY <3>1, <3>2, SimilarType
  <2>2. StoreOK' /\ RestOK'
    BY <1>0, <1>7, StoreUnchanged DEF Compare, RestOK, HistoryOK, history
  <2>3. LocalOK'
    BY <1>0, <1>7, <2>1 DEF Compare, LocalOK, Nothing
  <2>4. Requested'
    BY <1>0, <1>7 DEF Compare, LocalOK, Requested
  <2> QED
    BY <2>2, <2>3, <2>4
<1>8. ASSUME NEW t \in Threads, Lrem(t)
      PROVE  StoreOK' /\ LocalOK' /\ RestOK' /\ Requested'
  <2> DEFINE new == [k \in Keys |-> RemoveOnce(lists[k], simdis[t][k])]
  <2>1. new \in [Keys -> Seq(Value)]
    <3>1. \A k \in Keys : lists[k] \in Seq(Value) /\ simdis[t][k] \in Seq(Value)
      BY <1>0 DEF StoreOK, LocalOK
    <3> QED
      BY <3>1, RemovedOnly
  <2>2. \/ Put(new) /\ owed' \subseteq owed /\ taken' \subseteq taken \union owed
        \/ UNCHANGED <<redis, history>>
    BY <1>8 DEF Lrem, Gone
  <2> HIDE DEF new
  <2>3. StoreOK' /\ HistoryOK'
    BY <1>0, <2>1, <2>2, PutType, StoreUnchanged DEF RestOK, StoreOK, HistoryOK, history
  <2>4. LocalOK' /\ Requested'
    BY <1>0, <1>8, GotoKeeps DEF Lrem
  <2>5. RestOK'
    <3>1. Answered \/ Fails
      BY <1>8 DEF Lrem
    <3>2. failures' \in 0 .. MaxFailures
      BY <1>0, <3>1, CountKeeps
    <3> QED
      BY <1>0, <1>8, <2>3, <3>2 DEF Lrem, RestOK, HistoryOK, history
  <2> QED
    BY <2>3, <2>4, <2>5
<1>9. ASSUME NEW t \in Threads, RefusePermanent(t)
      PROVE  StoreOK' /\ LocalOK' /\ RestOK' /\ Requested'
  BY <1>0, <1>9, StoreUnchanged, AfterInsertKeeps DEF RefusePermanent, RestOK, HistoryOK, history
<1>10. ASSUME NEW t \in Threads, Rpush(t)
       PROVE  StoreOK' /\ LocalOK' /\ RestOK' /\ Requested'
  <2> DEFINE new == [k \in Keys |-> lists[k] \o Pushed(t, k)]
  <2>0. pc[t] = "rpush"
    BY <1>10 DEF Rpush
  <2>1. new \in [Keys -> Seq(Value)]
    <3> SUFFICES ASSUME NEW k \in Keys PROVE lists[k] \o Pushed(t, k) \in Seq(Value)
      OBVIOUS
    <3>1. lists[k] \in Seq(Value) /\ Pushed(t, k) \in Seq(Value)
      BY <1>0, <2>0, PushedType DEF StoreOK
    <3> QED
      BY <3>1
  <2>2. Put(new)
    BY <1>10 DEF Rpush
  <2> HIDE DEF new
  <2>3. StoreOK'
    BY <2>1, <2>2, PutType DEF StoreOK
  <2>4. LocalOK' /\ Requested'
    BY <1>0, <1>10, GotoKeeps, AfterInsertKeeps DEF Rpush
  <2>5. RestOK'
    <3>1. Answered \/ Fails
      BY <1>10 DEF Rpush
    <3>2. failures' \in 0 .. MaxFailures
      BY <1>0, <3>1, CountKeeps
    <3>3. <<input[t].doc, input[t].sign>> \in Docs \X Signs
      BY <2>0 DEF Requested, Request
    <3>4. HistoryOK'
      BY <1>0, <1>10, <3>3 DEF Rpush, RestOK, HistoryOK, history
    <3> QED
      BY <1>0, <1>10, <3>2, <3>4 DEF Rpush, RestOK, HistoryOK, history
  <2> QED
    BY <2>3, <2>4, <2>5
<1>11. ASSUME NEW t \in Threads, RpushFails(t)
       PROVE  StoreOK' /\ LocalOK' /\ RestOK' /\ Requested'
  <2>1. StoreOK' /\ LocalOK' /\ Requested'
    BY <1>0, <1>11, StoreUnchanged, AfterInsertKeeps DEF RpushFails
  <2>2. RestOK'
    BY <1>0, <1>11, CountKeeps DEF RpushFails, RestOK, HistoryOK, history
  <2> QED
    BY <2>1, <2>2
<1>12. ASSUME NEW t \in Threads, ExpireKey(t)
       PROVE  StoreOK' /\ LocalOK' /\ RestOK' /\ Requested'
  <2>1. StoreOK'
    <3>1. now + input[t].expiretime \in Nat
      BY <1>0, <1>12, SimAssumption DEF ExpireKey, Requested, Request, RestOK, HistoryOK, history
    <3> QED
      BY <1>0, <1>12, <3>1 DEF ExpireKey, StoreOK
  <2>2. LocalOK' /\ Requested'
    BY <1>0, <1>12, AfterInsertKeeps DEF ExpireKey
  <2>3. RestOK'
    BY <1>0, <1>12, CountKeeps DEF ExpireKey, RestOK, HistoryOK, history
  <2> QED
    BY <2>1, <2>2, <2>3
<1>13. ASSUME NEW t \in Threads, LtrimValue(t)
       PROVE  StoreOK' /\ LocalOK' /\ RestOK' /\ Requested'
  <2> DEFINE new == [k \in Keys |-> IF redisvalue[t][k] = <<>> THEN lists[k]
                                    ELSE Ltrim(lists[k], TrimStart(redisvalue[t][k]))]
  <2>1. new \in [Keys -> Seq(Value)]
    <3> SUFFICES ASSUME NEW k \in Keys
                 PROVE  /\ Ltrim(lists[k], TrimStart(redisvalue[t][k])) \in Seq(Value)
                        /\ lists[k] \in Seq(Value)
      OBVIOUS
    <3>1. lists[k] \in Seq(Value) /\ redisvalue[t][k] \in Seq(Value)
      BY <1>0 DEF StoreOK, LocalOK
    <3> QED
      BY <3>1, LtrimType, TrimStartType
  <2>2. PutAway(new) \/ UNCHANGED <<redis, history>>
    BY <1>13 DEF LtrimValue
  <2> HIDE DEF new
  <2>3. StoreOK' /\ HistoryOK'
    BY <1>0, <2>1, <2>2, PutAwayKeeps, StoreUnchanged DEF RestOK, HistoryOK, history
  <2>4. LocalOK' /\ Requested'
    BY <1>0, <1>13, ReturnKeeps DEF LtrimValue
  <2>5. RestOK'
    <3>1. Answered \/ Fails
      BY <1>13 DEF LtrimValue
    <3>2. failures' \in 0 .. MaxFailures
      BY <1>0, <3>1, CountKeeps
    <3> QED
      BY <1>0, <1>13, <2>3, <3>2 DEF LtrimValue, RestOK, HistoryOK, history
  <2> QED
    BY <2>3, <2>4, <2>5
<1>14. CASE UNCHANGED vars
  BY <1>0, <1>14, StoreUnchanged, LocalUnchanged DEF vars, RestOK, HistoryOK, history
<1> QED
  BY <1>1, <1>2, <1>3, <1>4, <1>5, <1>6, <1>7, <1>8, <1>9, <1>10, <1>11, <1>12, <1>13, <1>14
  DEF Next, Process, Finished

LEMMA InitTypes == Init => TypeOK /\ Requested
<1> SUFFICES ASSUME Init PROVE TypeOK /\ Requested
  OBVIOUS
<1>1. Nothing \in [Keys -> Seq(Value)]
  BY DEF Nothing
<1>2. StoreOK
  BY <1>1 DEF Init, StoreOK, Nothing
<1>3. LocalOK
  BY <1>1 DEF Init, LocalOK
<1>4. RestOK
  BY SimAssumption DEF Init, RestOK, HistoryOK, history
<1>5. Requested
  BY DEF Init, Requested
<1> QED
  BY <1>2, <1>3, <1>4, <1>5, TypeParts

(* For any number of threads, requests and failures and any part           *)
(* structure: every variable keeps its type; the thread that has not       *)
(* compared yet holds no hits (sim_process and the lists of redis).        *)
THEOREM TypeCorrect == Spec => []TypeOK
<1>1. TypeOK /\ Requested /\ [Next]_vars => TypeOK' /\ Requested'
  BY TypesInductive
<1> QED
  BY <1>1, InitTypes, PTL DEF Spec

-----------------------------------------------------------------------------
(* What is stored is kept.                                                 *)

(* A step that takes a document out of a list where it is not in anybody's *)
(* hands takes it off what is owed; it takes no thread out of the way      *)
(* between redis_del_value and redis_insert_value.                         *)
LEMMA KeptByAway ==
  ASSUME TypeOK, OwedHeld, NEW new \in [Keys -> Seq(Value)],
         \/ Put(new) /\ owed' = owed \ Gone(new)
         \/ UNCHANGED <<redis, history>>,
         \A t \in Threads : pc[t] = "rpush" =>
           pc'[t] = "rpush" /\ input'[t] = input[t] /\ simdis'[t] = simdis[t],
         permanent' = permanent
  PROVE  OwedHeld'
<1> SUFFICES ASSUME NEW x \in owed', NEW k \in RedisKeys(x[2])
             PROVE  x \in Entries(lists'[k]) \/ InFlight(k, x)'
  BY DEF OwedHeld
<1>1. x \in owed
  BY DEF history
<1>2. k \in Keys
  BY <1>1 DEF TypeOK, Keys
<1>3. x \in Entries(lists[k]) \/ InFlight(k, x)
  BY <1>1 DEF OwedHeld
<1>4. CASE InFlight(k, x)
  BY <1>4 DEF InFlight, Delays
<1>5. CASE x \in Entries(lists[k])
  <2>1. CASE Put(new) /\ owed' = owed \ Gone(new)
    <3>1. x \notin Gone(new) /\ lists' = new
      BY <1>1, <2>1 DEF Put
    <3>2. x \in Entries(new[k])
      BY <1>1, <1>2, <1>5, <3>1 DEF Gone
    <3> QED
      BY <3>1, <3>2
  <2>2. CASE UNCHANGED <<redis, history>>
    BY <1>5, <2>2 DEF redis, Entries
  <2> QED
    BY <2>1, <2>2
<1> QED
  BY <1>3, <1>4, <1>5

(* A step of a thread that is not between the two leaves the others there. *)
LEMMA OthersStay ==
  ASSUME LocalOK, NEW t \in Threads, pc[t] # "rpush",
         \/ Return(t)
         \/ \E label \in {"rpush", "ltrim"} : Goto(t, label)
  PROVE  \A u \in Threads : pc[u] = "rpush" =>
           pc'[u] = "rpush" /\ input'[u] = input[u] /\ simdis'[u] = simdis[u]
  BY DEF LocalOK, Return, Goto, local

LEMMA OwedInductive ==
  ASSUME TypeOK, Requested, OwedHeld, [Next]_vars
  PROVE  OwedHeld'
<1>0. StoreOK /\ LocalOK /\ RestOK
  BY TypeParts
<1>types. TypeOK' /\ Requested'
  BY TypesInductive
<1>same. ASSUME UNCHANGED <<permanent, lists, owed>>,
                \A u \in Threads : pc[u] = "rpush" =>
                  pc'[u] = "rpush" /\ input'[u] = input[u] /\ simdis'[u] = simdis[u]
         PROVE  OwedHeld'
  <2>1. ASSUME NEW x, NEW k, InFlight(k, x)
        PROVE  InFlight(k, x)'
    BY <1>same, <2>1 DEF InFlight, Delays
  <2>2. ASSUME NEW x, NEW k, x \in Entries(lists[k])
        PROVE  x \in Entries(lists'[k])
    BY <1>same, <2>2
  <2> QED
    BY <1>same, <2>1, <2>2 DEF OwedHeld
<1>1. CASE Tick
  <2> DEFINE new == [k \in Keys |-> IF ttl[k] # 0 /\ ttl[k] <= now + 1 THEN <<>> ELSE lists[k]]
  <2>1. new \in [Keys -> Seq(Value)]
    BY <1>0 DEF StoreOK
  <2>2. PutAway(new)
    BY <1>1 DEF Tick
  <2> HIDE DEF new
  <2> QED
    BY <1>1, <2>1, <2>2, KeptByAway DEF Tick, local, PutAway
<1>2. ASSUME NEW t \in Threads, NEW r \in Requests, Receive(t, r)
      PROVE  OwedHeld'
  BY <1>0, <1>2, <1>same DEF Receive, redis, history, LocalOK
<1>3. ASSUME NEW t \in Threads, DocDelete(t)
      PROVE  OwedHeld'
  <2> DEFINE v == [doc |-> input[t].doc, sign |-> input[t].sign,
                   timestamp |-> input[t].expiretime]
             new == [k \in Keys |-> IF k \in MyKeys(t)
                                    THEN Pick(lists[k], {i \in DOMAIN lists[k] : lists[k][i] # v})
                                    ELSE lists[k]]
  <2>1. new \in [Keys -> Seq(Value)]
    <3> SUFFICES ASSUME NEW k \in Keys
                 PROVE  Pick(lists[k], {i \in DOMAIN lists[k] : lists[k][i] # v}) \in Seq(Value)
                        /\ lists[k] \in Seq(Value)
      OBVIOUS
    <3>1. lists[k] \in Seq(Value)
      BY <1>0 DEF StoreOK
    <3>2. {i \in DOMAIN lists[k] : lists[k][i] # v} \in SUBSET DOMAIN lists[k]
      OBVIOUS
    <3> QED
      BY <3>1, <3>2, PickParts
  <2>2. PutAway(new) \/ UNCHANGED <<redis, history>>
    BY <1>3 DEF DocDelete
  <2> HIDE DEF new
  <2>3. pc[t] # "rpush" /\ Return(t) /\ permanent' = permanent
    BY <1>3 DEF DocDelete
  <2> QED
    BY <1>0, <2>1, <2>2, <2>3, OthersStay, KeptByAway DEF PutAway
<1>4. ASSUME NEW t \in Threads, LtrimAhead(t)
      PROVE  OwedHeld'
  <2> DEFINE new == [k \in Keys |-> IF k \in MyKeys(t)
                                    THEN Ltrim(lists[k], -MaxRedisList) ELSE lists[k]]
  <2>1. new \in [Keys -> Seq(Value)]
    <3> SUFFICES ASSUME NEW k \in Keys
                 PROVE  Ltrim(lists[k], -MaxRedisList) \in Seq(Value) /\ lists[k] \in Seq(Value)
      OBVIOUS
    <3>1. lists[k] \in Seq(Value) /\ -MaxRedisList \in Int
      BY <1>0, SimAssumption DEF StoreOK
    <3> QED
      BY <3>1, LtrimType
  <2>2. PutAway(new) \/ UNCHANGED <<redis, history>>
    BY <1>4 DEF LtrimAhead
  <2> HIDE DEF new
  <2>3. pc[t] # "rpush" /\ Goto(t, "rpush") /\ permanent' = permanent
    BY <1>4 DEF LtrimAhead
  <2> QED
    BY <1>0, <2>1, <2>2, <2>3, OthersStay, KeptByAway DEF PutAway
<1>5. ASSUME NEW t \in Threads, Lrange(t)
      PROVE  OwedHeld'
  BY <1>0, <1>5, <1>same DEF Lrange, redis, history, LocalOK
<1>6. ASSUME NEW t \in Threads, LrangeFails(t)
      PROVE  OwedHeld'
  <2>1. pc[t] # "rpush" /\ Return(t) /\ UNCHANGED <<permanent, lists, owed>>
    BY <1>6 DEF LrangeFails, redis, history
  <2> QED
    BY <1>0, <2>1, <1>same, OthersStay
<1>7. ASSUME NEW t \in Threads, Compare(t)
      PROVE  OwedHeld'
  BY <1>0, <1>7, <1>same DEF Compare, redis, history, LocalOK
(* What LREM takes out is among the hits of the thread, which goes on to   *)
(* push them again, or is taken off what is owed.                          *)
<1>8. ASSUME NEW t \in Threads, Lrem(t)
      PROVE  OwedHeld'
  <2> DEFINE new == [k \in Keys |-> RemoveOnce(lists[k], simdis[t][k])]
  <2>1. \A k \in Keys : lists[k] \in Seq(Value) /\ simdis[t][k] \in Seq(Value)
    BY <1>0 DEF StoreOK, LocalOK
  <2>2. new \in [Keys -> Seq(Value)]
    BY <2>1, RemovedOnly
  <2>3. pc[t] # "rpush" /\ Goto(t, "rpush") /\ permanent' = permanent
    BY <1>8 DEF Lrem
  <2>4. \A u \in Threads : pc[u] = "rpush" =>
          pc'[u] = "rpush" /\ input'[u] = input[u] /\ simdis'[u] = simdis[u]
    BY <1>0, <2>3, OthersStay
  <2>5. CASE UNCHANGED <<redis, history>>
    BY <2>3, <2>4, <2>5, <1>same DEF redis, history
  <2>6. CASE Put(new) /\ owed' = owed \ Gone(new)
    <3> HIDE DEF new
    <3> QED BY <2>2, <2>3, <2>4, <2>6, KeptByAway
  <2>7. CASE Delays(t) /\ Put(new) /\ owed' = owed
    <3> SUFFICES ASSUME NEW x \in owed, NEW k \in RedisKeys(x[2])
                 PROVE  x \in Entries(lists'[k]) \/ InFlight(k, x)'
      BY <2>7 DEF OwedHeld
    <3>1. k \in Keys
      BY DEF TypeOK, Keys
    <3>2. x \in Entries(lists[k]) \/ InFlight(k, x)
      BY DEF OwedHeld
    <3>3. CASE InFlight(k, x)
      BY <2>3, <2>4, <3>3 DEF InFlight, Delays
    <3>4. CASE x \in Entries(lists[k]) /\ x \notin Entries(lists'[k])
      <4>1. lists'[k] = RemoveOnce(lists[k], simdis[t][k])
        BY <2>7, <3>1 DEF Put
      <4>2. x \in Entries(simdis[t][k])
        BY <2>1, <3>1, <3>4, <4>1, RemovedOnly
      <4>3. /\ pc'[t] = "rpush" /\ input' = input /\ simdis' = simdis
        BY <1>0, <2>3 DEF Goto, local, LocalOK
      <4>4. Delays(t)' /\ x \in Entries(simdis'[t][k])
        BY <2>3, <2>7, <4>2, <4>3 DEF Delays
      <4> QED
        BY <4>3, <4>4 DEF InFlight, Entries
    <3> QED
      BY <3>2, <3>3, <3>4
  <2>8. \/ UNCHANGED <<redis, history>>
        \/ Put(new) /\ owed' = owed \ Gone(new)
        \/ Delays(t) /\ Put(new) /\ owed' = owed
    <3>1. ASSUME Put(new), owed' = owed \ (IF Delays(t) THEN {} ELSE Gone(new))
          PROVE  (Put(new) /\ owed' = owed \ Gone(new)) \/ (Delays(t) /\ Put(new) /\ owed' = owed)
      <4> HIDE DEF new
      <4> QED BY <3>1
    <3> QED BY <1>8, <3>1 DEF Lrem
  <2> QED
    BY <2>5, <2>6, <2>7, <2>8
<1>away. ASSUME NEW t \in Threads, AfterInsert(t) \/ Goto(t, "expire"),
                pc[t] \in {"rpush", "expire"}
         PROVE  \A u \in Threads : u # t /\ pc[u] = "rpush" =>
                  pc'[u] = "rpush" /\ input'[u] = input[u] /\ simdis'[u] = simdis[u]
  BY <1>0, <1>away DEF AfterInsert, Return, Goto, local, LocalOK
<1>9. ASSUME NEW t \in Threads, RefusePermanent(t)
      PROVE  OwedHeld'
  <2>1. ~ Delays(t) /\ AfterInsert(t) /\ pc[t] = "rpush" /\ UNCHANGED <<permanent, lists, owed>>
    BY <1>9 DEF RefusePermanent, Delays, redis, history
  <2>2. \A u \in Threads : u # t /\ pc[u] = "rpush" =>
          pc'[u] = "rpush" /\ input'[u] = input[u] /\ simdis'[u] = simdis[u]
    BY <1>away, <2>1
  <2>3. ASSUME NEW k, NEW x, InFlight(k, x) PROVE InFlight(k, x)'
    BY <2>1, <2>2, <2>3 DEF InFlight, Delays
  <2> QED
    BY <2>1, <2>3 DEF OwedHeld, Entries
(* What was in the hands of the thread is in the lists again, and its own  *)
(* document is in the list of every one of its keys.                       *)
<1>10. ASSUME NEW t \in Threads, Rpush(t)
       PROVE  OwedHeld'
  <2>1. /\ pc[t] = "rpush" /\ permanent' = permanent
        /\ \A k \in Keys : lists'[k] = lists[k] \o Pushed(t, k)
        /\ AfterInsert(t) \/ Goto(t, "expire")
    BY <1>10 DEF Rpush, Put
  <2>2. \A u \in Threads : u # t /\ pc[u] = "rpush" =>
          pc'[u] = "rpush" /\ input'[u] = input[u] /\ simdis'[u] = simdis[u]
    BY <1>away, <2>1
  <2>3. ASSUME NEW k \in Keys
        PROVE  /\ lists[k] \in Seq(Value) /\ Pushed(t, k) \in Seq(Value)
               /\ Entries(lists[k]) \union Entries(Pushed(t, k)) \subseteq Entries(lists'[k])
    <3>1. lists[k] \in Seq(Value) /\ Pushed(t, k) \in Seq(Value)
      BY <1>0, <2>1, PushedType DEF StoreOK
    <3> QED
      BY <2>1, <3>1, EntriesJoined
  <2>4. ASSUME NEW k \in Keys, NEW x, Delays(t), x \in Entries(simdis[t][k])
        PROVE  x \in Entries(Pushed(t, k))
    BY <1>0, <2>1, <2>4, PushedAgain
  <2>5. ASSUME NEW x \in owed, NEW k \in RedisKeys(x[2])
        PROVE  x \in Entries(lists'[k]) \/ InFlight(k, x)'
    <3>1. k \in Keys
      BY DEF TypeOK, Keys
    <3>2. x \in Entries(lists[k]) \/ InFlight(k, x)
      BY DEF OwedHeld
    <3>3. CASE x \in Entries(lists[k])
      BY <2>3, <3>1, <3>3
    <3>4. CASE InFlight(k, x) /\ ~ (Delays(t) /\ x \in Entries(simdis[t][k]))
      <4>1. PICK u \in Threads :
              u # t /\ pc[u] = "rpush" /\ Delays(u) /\ x \in Entries(simdis[u][k])
        BY <3>4 DEF InFlight
      <4> QED
        BY <2>1, <2>2, <4>1 DEF InFlight, Delays, Entries
    <3>5. CASE Delays(t) /\ x \in Entries(simdis[t][k])
      BY <2>3, <2>4, <3>1, <3>5
    <3> QED
      BY <3>2, <3>3, <3>4, <3>5
  <2>6. ASSUME Appends(t), NEW k \in RedisKeys(input[t].sign)
        PROVE  <<input[t].doc, input[t].sign>> \in Entries(lists'[k])
    <3>1. input[t].sign \in Signs
      BY <2>1 DEF Requested, Request
    <3>2. k \in Keys /\ k \in MyKeys(t)
      BY <2>6, <3>1 DEF Keys, MyKeys
    <3>3. <<input[t].doc, input[t].sign>> \in Entries(Pushed(t, k))
      BY <1>0, <2>1, <2>6, <3>2, PushedOwn
    <3> QED
      BY <2>3, <3>2, <3>3
  <2> SUFFICES ASSUME NEW x \in owed', NEW k \in RedisKeys(x[2])
               PROVE  x \in Entries(lists'[k]) \/ InFlight(k, x)'
    BY DEF OwedHeld
  <2>7. x \in owed \/ (Appends(t) /\ x = <<input[t].doc, input[t].sign>>)
    BY <1>10 DEF Rpush
  <2>8. CASE x \in owed
    BY <2>5, <2>8
  <2>9. CASE Appends(t) /\ x = <<input[t].doc, input[t].sign>>
    <3>1. x[2] = input[t].sign
      BY <2>9
    <3>2. k \in RedisKeys(input[t].sign)
      BY <3>1
    <3> QED
      BY <2>6, <2>9, <3>2
  <2> QED
    BY <2>7, <2>8, <2>9
<1>11. ASSUME NEW t \in Threads, RpushFails(t)
       PROVE  OwedHeld'
  <2>1. /\ pc[t] = "rpush" /\ AfterInsert(t) /\ permanent' = permanent /\ lists' = lists
        /\ owed' = owed \ {x \in owed : \E k \in Keys :
                                          x \in Entries(simdis[t][k]) \ Entries(lists[k])}
    BY <1>11 DEF RpushFails, redis
  <2>2. \A u \in Threads : u # t /\ pc[u] = "rpush" =>
          pc'[u] = "rpush" /\ input'[u] = input[u] /\ simdis'[u] = simdis[u]
    BY <1>away, <2>1
  <2> SUFFICES ASSUME NEW x \in owed', NEW k \in RedisKeys(x[2])
               PROVE  x \in Entries(lists'[k]) \/ InFlight(k, x)'
    BY DEF OwedHeld
  <2>3. x \in owed
    BY <2>1
  <2>4. k \in Keys
    BY <2>3 DEF TypeOK, Keys
  <2>5. x \in Entries(lists[k]) \/ x \notin Entries(simdis[t][k])
    BY <2>1, <2>4
  <2>6. x \in Entries(lists[k]) \/ InFlight(k, x)
    BY <2>3 DEF OwedHeld
  <2>7. CASE x \in Entries(lists[k])
    BY <2>1, <2>7
  <2>8. CASE InFlight(k, x) /\ x \notin Entries(simdis[t][k])
    BY <2>1, <2>2, <2>8 DEF InFlight, Delays, Entries
  <2> QED
    BY <2>5, <2>6, <2>7, <2>8
<1>12. ASSUME NEW t \in Threads, ExpireKey(t)
       PROVE  OwedHeld'
  <2>1. /\ pc[t] = "expire" /\ AfterInsert(t)
        /\ UNCHANGED <<permanent, lists, owed>>
    BY <1>12 DEF ExpireKey, history
  <2>2. \A u \in Threads : u # t /\ pc[u] = "rpush" =>
          pc'[u] = "rpush" /\ input'[u] = input[u] /\ simdis'[u] = simdis[u]
    BY <1>away, <2>1
  <2> QED
    BY <2>1, <2>2, <1>same
<1>13. ASSUME NEW t \in Threads, LtrimValue(t)
       PROVE  OwedHeld'
  <2> DEFINE new == [k \in Keys |-> IF redisvalue[t][k] = <<>> THEN lists[k]
                                    ELSE Ltrim(lists[k], TrimStart(redisvalue[t][k]))]
  <2>1. new \in [Keys -> Seq(Value)]
    <3> SUFFICES ASSUME NEW k \in Keys
                 PROVE  /\ Ltrim(lists[k], TrimStart(redisvalue[t][k])) \in Seq(Value)
                        /\ lists[k] \in Seq(Value)
      OBVIOUS
    <3>1. lists[k] \in Seq(Value) /\ redisvalue[t][k] \in Seq(Value)
      BY <1>0 DEF StoreOK, LocalOK
    <3> QED
      BY <3>1, LtrimType, TrimStartType
  <2>2. PutAway(new) \/ UNCHANGED <<redis, history>>
    BY <1>13 DEF LtrimValue
  <2> HIDE DEF new
  <2>3. pc[t] # "rpush" /\ Return(t) /\ permanent' = permanent
    BY <1>13 DEF LtrimValue
  <2> QED
    BY <1>0, <2>1, <2>2, <2>3, OthersStay, KeptByAway DEF PutAway
<1>14. CASE UNCHANGED vars
  BY <1>14, <1>same DEF vars, redis, local, history
<1> QED
  BY <1>1, <1>2, <1>3, <1>4, <1>5, <1>6, <1>7, <1>8, <1>9, <1>10, <1>11, <1>12, <1>13, <1>14
  DEF Next, Process, Finished

(* Only what was under a permanent key is taken out for good: a thread that *)
(* sends LREM otherwise pushes the hits again.                             *)
TakenPermanent == taken # {} => permanent

LEMMA TakenInductive ==
  ASSUME TypeOK, Requested, TakenPermanent, [Next]_vars
  PROVE  TakenPermanent'
<1>1. ASSUME NEW t \in Threads, Lrem(t)
      PROVE  TakenPermanent'
  <2>1. Delays(t) \/ permanent \/ ~ input[t].hitdelay
    BY <1>1 DEF Lrem, Delays, Requested
  <2>2. taken' = taken \/ (input[t].hitdelay /\ ~ Delays(t))
    BY <1>1 DEF Lrem, history
  <2>3. permanent' = permanent
    BY <1>1 DEF Lrem
  <2> QED
    BY <2>1, <2>2, <2>3 DEF TakenPermanent
<1>2. ASSUME NEW t \in Threads, Process(t), ~ Lrem(t)
      PROVE  taken' \subseteq taken /\ permanent' = permanent
  BY <1>2 DEF Process, Receive, DocDelete, LtrimAhead, Lrange, LrangeFails, Compare,
              RefusePermanent, Rpush, RpushFails, ExpireKey, LtrimValue, PutAway, history
<1>3. CASE Tick \/ Finished \/ UNCHANGED vars
  BY <1>3 DEF Tick, Finished, vars, PutAway, history, TakenPermanent
<1> QED
  BY <1>1, <1>2, <1>3 DEF Next, TakenPermanent

(* What holds of the history in every state.                               *)
HistoryInv == OwedHeld /\ TakenPermanent

LEMMA HistoryAlways == Spec => [](TypeOK /\ Requested /\ HistoryInv)
<1>1. Init => TypeOK /\ Requested /\ HistoryInv
  <2>1. Init => TypeOK /\ Requested
    BY InitTypes
  <2>2. Init => HistoryInv
    BY DEF Init, HistoryInv, OwedHeld, TakenPermanent
  <2> QED
    BY <2>1, <2>2
<1>2. TypeOK /\ Requested /\ HistoryInv /\ [Next]_vars => TypeOK' /\ Requested' /\ HistoryInv'
  BY TypesInductive, OwedInductive, TakenInductive DEF HistoryInv
<1> QED
  BY <1>1, <1>2, PTL DEF Spec

(* For any number of threads, requests and failures: what was stored and   *)
(* neither deleted, trimmed, expired nor lost by a failed message is in    *)
(* the list of each of its keys, or in the hands of a thread between       *)
(* redis_del_value and redis_insert_value, or was under a permanent key    *)
(* and found similar by a request whose LREM took it out for good.         *)
THEOREM StoredIsKept == Spec => []Kept
<1>1. HistoryInv => Kept
  BY DEF HistoryInv, OwedHeld, TakenPermanent, Kept
<1> QED
  BY <1>1, HistoryAlways, PTL

(* The step of a thread from the message LRANGE to the comparison is that  *)
(* of redis_get_value.                                                     *)
LEMMA OnlyLrange ==
  ASSUME LocalOK, [Next]_vars, NEW t \in Threads, pc[t] = "lrange", pc'[t] = "compare"
  PROVE  Lrange(t)
<1>1. ASSUME NEW u \in Threads, NEW label, label # "compare",
             pc' = [pc EXCEPT ![u] = label]
      PROVE  FALSE
  BY <1>1 DEF LocalOK
<1>2. ASSUME NEW u \in Threads, Process(u), ~ Lrange(t)
      PROVE  FALSE
  <2>1. CASE \E r \in Requests : Receive(u, r)
    <3>1. PICK r \in Requests : Receive(u, r)
      BY <2>1
    <3>2. u # t
      BY <3>1 DEF Receive
    <3> QED
      BY <3>1, <3>2 DEF Receive, LocalOK
  <2>2. CASE DocDelete(u) \/ LrangeFails(u) \/ LtrimValue(u)
    BY <1>1, <2>2 DEF DocDelete, LrangeFails, LtrimValue, Return
  <2>3. CASE LtrimAhead(u) \/ Lrem(u)
    BY <1>1, <2>3 DEF LtrimAhead, Lrem, Goto
  <2>4. CASE RefusePermanent(u) \/ Rpush(u) \/ RpushFails(u) \/ ExpireKey(u)
    <3>1. AfterInsert(u) \/ Goto(u, "expire")
      BY <2>4 DEF RefusePermanent, Rpush, RpushFails, ExpireKey
    <3> QED
      BY <1>1, <3>1 DEF AfterInsert, Goto, Return
  <2>5. CASE Compare(u)
    <3>1. u # t
      BY <2>5 DEF Compare
    <3> QED
      BY <2>5, <3>1 DEF Compare, LocalOK
  <2>6. CASE Lrange(u)
    <3>1. u # t
      BY <1>2, <2>6
    <3> QED
      BY <2>6, <3>1 DEF Lrange, LocalOK
  <2> QED
    BY <1>2, <2>1, <2>2, <2>3, <2>4, <2>5, <2>6 DEF Process
<1>3. CASE Tick \/ Finished \/ UNCHANGED vars
  BY <1>3 DEF Tick, Finished, vars
<1> QED
  BY <1>2, <1>3 DEF Next

(* For every way of cutting signatures into parts and every interleaving:  *)
(* the LRANGE of a request sees every stored document within hamdis bits   *)
(* of it, but for those another thread is about to push again or an LREM   *)
(* took out for good.                                                      *)
THEOREM NothingSimilarMissed == Spec => SimilarSeen
<1>1. ASSUME TypeOK, Requested, HistoryInv, [Next]_vars,
             NEW t \in Threads, pc[t] = "lrange", pc'[t] = "compare",
             NEW x \in owed, HammingDist(x[2], input[t].sign) <= HamDis
      PROVE  \E k \in MyKeys(t) : x \in Entries(redisvalue'[t][k]) \/ InFlight(k, x)
  <2>1. Lrange(t)
    BY <1>1, TypeParts, OnlyLrange
  <2>2. input[t].sign \in Signs
    BY <1>1 DEF Requested, Request
  <2> QED
    BY <1>1, <2>1, <2>2, KeptIsSeen DEF HistoryInv
<1>2. TypeOK /\ Requested /\ HistoryInv /\ [Next]_vars
        => [\A t \in Threads : pc[t] = "lrange" /\ pc'[t] = "compare" =>
              \A x \in owed : HammingDist(x[2], input[t].sign) <= HamDis =>
                \E k \in MyKeys(t) : x \in Entries(redisvalue'[t][k]) \/ InFlight(k, x)]_vars
  BY <1>1
<1> QED
  BY <1>2, HistoryAlways, PTL DEF Spec, SimilarSeen
=============================================================================

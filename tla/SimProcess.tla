----------------------------- MODULE SimProcess -----------------------------
(***************************************************************************)
(* Near-duplicate detection over a shared redis store                      *)
(* (simhash/bak/sim_process.cpp, simhash/bak/redis.cpp, and                *)
(* get_similar_doc of simhash/hashsign.cpp).                               *)
(*                                                                         *)
(* Every thread of the service takes a document through LRANGE, the        *)
(* comparison, LREM of what it is similar to, RPUSH of that and of itself, *)
(* EXPIRE and LTRIM.  Each is one message to redis, carried out at once;   *)
(* between two of them other threads work on the same lists.  A message    *)
(* can fail, before or after redis has carried it out.                     *)
(*                                                                         *)
(* A signature is the set of its one bits; its six parts are BlockOf.      *)
(* Only FULLTEXT compares anything, so it is the only pattern.             *)
(***************************************************************************)
EXTENDS Integers, Sequences, FiniteSets, FiniteSetsExt, Lists

CONSTANTS
  Threads,      (* the threads of the service                                *)
  BlockOf,      (* bit -> part of the signature it belongs to                *)
  Blocks,       (* how many parts: 6                                         *)
  Docs,         (* docid                                                     *)
  Signs,        (* the signatures that occur; zero ends a request at once    *)
  Requests,     (* the requests that occur                                   *)
  HamDis,       (* input->hamdis, at most DISTANCE - 1                       *)
  HitLifetime,  (* fulltext_expire_time of the product                       *)
  MaxRedisList, (* max_redis_list of the product, 0 for none                 *)
  CheckNum,     (* expire_value_check_num                                    *)
  Permanent,    (* whether the user key may be one of permanentKeys          *)
  MaxRequests,  (* bound: requests taken                                     *)
  MaxTime,      (* bound: the clock                                          *)
  MaxFailures   (* bound: messages that fail                                 *)

Bits == DOMAIN BlockOf

(* sim_input_t: what of it the calls to redis depend on. *)
Request ==
  [doc : Docs, sign : Signs, strategy : {"APPEND", "COMPARE", "APPCOM", "DELETE"},
   hitdelay : BOOLEAN, expiretime : Nat \ {0}]

ASSUME SimAssumption ==
  /\ IsFiniteSet(Bits) /\ Bits \subseteq Int
  /\ Blocks \in Nat /\ BlockOf \in [Bits -> 1 .. Blocks]
  /\ Signs \subseteq (SUBSET Bits) \ {{}}
  /\ \A r \in Requests : r \in Request
  /\ HamDis \in Nat /\ HamDis <= Blocks - 2
  /\ HitLifetime \in Nat \ {0}
  /\ MaxRedisList \in Nat /\ CheckNum \in Nat
  /\ Permanent \subseteq BOOLEAN
  /\ MaxRequests \in Nat /\ MaxTime \in Nat /\ MaxFailures \in Nat

-----------------------------------------------------------------------------
(* Signatures and redis keys.                                              *)

HammingDist(a, b) == Cardinality((a \ b) \union (b \ a))

Part(i) == {b \in Bits : BlockOf[b] = i}

(* tmpd[i], from the bits of the part that are one. *)
PartValue(X, i) ==
  FoldSet(LAMBDA b, sum : sum + 2 ^ Cardinality({c \in Part(i) : c < b}), 0, X)

Key(s, i, j) ==
  PartValue(s \intersect Part(i), i) * 2 ^ Cardinality(Part(j))
    + PartValue(s \intersect Part(j), j)

(* Mutant: neighbouring parts only. *)
NeighbourKeys(s) == {Key(s, i, i + 1) : i \in 1 .. Blocks - 1}

(* make_rediskey: one key for each two parts, duplicates removed. *)
RedisKeys(s) ==
  {Key(s, p[1], p[2]) : p \in {q \in (1 .. Blocks) \X (1 .. Blocks) : q[1] < q[2]}}

Keys == UNION {RedisKeys(s) : s \in Signs}

(* value_t, without the private data. *)
Value == [doc : Docs, sign : Signs, timestamp : Nat]

-----------------------------------------------------------------------------
VARIABLES
  now,        \* the clock
  permanent,  \* redis_key_is_permanent of the one user key
  lists,      \* redis: the list of each key
  ttl,        \* redis: when a key expires, 0 for never
  pc,         \* where a thread is in sim_process
  input,      \* its request
  redisvalue, \* what LRANGE gave it, per key
  simdis,     \* what it found similar, per key, nearest first
  sameDoc,    \* existSameDoc
  owed,       \* history: <<doc, sign>> that redis is still to hold
  taken,      \* history: those that an LREM took out and no RPUSH puts back
  requests,   \* how many requests were taken
  failures    \* how many messages have failed

redis == <<lists, ttl>>
local == <<input, redisvalue, simdis, sameDoc>>
history == <<owed, taken>>
vars == <<now, permanent, redis, pc, local, history, requests, failures>>

Nothing == [k \in Keys |-> <<>>]

NoInput == [strategy |-> "none"]

Expired(v) == v.timestamp <= now /\ v.timestamp # 0

Entries(list) == {<<list[i].doc, list[i].sign>> : i \in 1 .. Len(list)}

MyKeys(t) == RedisKeys(input[t].sign)

Init ==
  /\ now = 0 /\ permanent \in Permanent
  /\ lists = Nothing /\ ttl = [k \in Keys |-> 0]
  /\ pc = [t \in Threads |-> "idle"]
  /\ input = [t \in Threads |-> NoInput]
  /\ redisvalue = [t \in Threads |-> Nothing]
  /\ simdis = [t \in Threads |-> Nothing]
  /\ sameDoc = [t \in Threads |-> FALSE]
  /\ owed = {} /\ taken = {} /\ requests = 0 /\ failures = 0

Goto(t, label) == pc' = [pc EXCEPT ![t] = label] /\ UNCHANGED local

(* Mutant: output is not initialized for the next request. *)
ReturnOnly(t) ==
  /\ pc' = [pc EXCEPT ![t] = "idle"]
  /\ input' = [input EXCEPT ![t] = NoInput]
  /\ redisvalue' = [redisvalue EXCEPT ![t] = Nothing]
  /\ sameDoc' = [sameDoc EXCEPT ![t] = FALSE]
  /\ UNCHANGED simdis

(* The locals of sim_process are gone when it returns (sim_output_init). *)
Return(t) ==
  /\ pc' = [pc EXCEPT ![t] = "idle"]
  /\ input' = [input EXCEPT ![t] = NoInput]
  /\ redisvalue' = [redisvalue EXCEPT ![t] = Nothing]
  /\ simdis' = [simdis EXCEPT ![t] = Nothing]
  /\ sameDoc' = [sameDoc EXCEPT ![t] = FALSE]

-----------------------------------------------------------------------------
(* Redis.                                                                  *)

(* A list that becomes empty is a key that is gone, with its expiry. *)
Put(new) ==
  /\ lists' = new
  /\ ttl' = [k \in Keys |-> IF new[k] = <<>> THEN 0 ELSE ttl[k]]

(* What redis is no longer to hold when the lists become new. *)
Gone(new) == {x \in owed : \E k \in Keys : x \in Entries(lists[k]) \ Entries(new[k])}

PutAway(new) == Put(new) /\ owed' = owed \ Gone(new) /\ UNCHANGED taken

(* LTRIM key start -1. *)
Ltrim(list, start) ==
  IF start >= 0 THEN SubSeq(list, start + 1, Len(list))
  ELSE IF Len(list) <= -start THEN list
  ELSE SubSeq(list, Len(list) + start + 1, Len(list))

(* LREM key 1 value, for each of some values. *)
RemoveOnce(list, values) ==
  Pick(list, {i \in DOMAIN list :
                Cardinality({j \in 1 .. i : list[j] = list[i]})
                  > Cardinality({n \in DOMAIN values : values[n] = list[i]})})

(* The clock; keys whose time has come are gone. *)
Tick ==
  /\ now < MaxTime
  /\ now' = now + 1
  /\ PutAway([k \in Keys |-> IF ttl[k] # 0 /\ ttl[k] <= now + 1 THEN <<>> ELSE lists[k]])
  /\ UNCHANGED <<permanent, pc, local, requests, failures>>

(* The call returns -1. *)
Fails == failures < MaxFailures /\ failures' = failures + 1

Answered == UNCHANGED failures

-----------------------------------------------------------------------------
(* sim_process.                                                            *)

Receive(t, r) ==
  /\ pc[t] = "idle" /\ requests < MaxRequests
  /\ requests' = requests + 1
  /\ input' = [input EXCEPT ![t] = r]
  /\ pc' = [pc EXCEPT ![t] = CASE r.strategy = "DELETE" -> "delete"
                              [] r.strategy = "APPEND" -> "ahead"
                              [] OTHER -> "lrange"]
  /\ UNCHANGED <<now, permanent, redis, redisvalue, simdis, sameDoc, history, failures>>

(* redis_doc_del: LREM key 0, with the expiry the client gives. *)
DocDelete(t) ==
  LET v == [doc |-> input[t].doc, sign |-> input[t].sign, timestamp |-> input[t].expiretime]
      new == [k \in Keys |-> IF k \in MyKeys(t)
                             THEN Pick(lists[k], {i \in DOMAIN lists[k] : lists[k][i] # v})
                             ELSE lists[k]]
  IN
  /\ pc[t] = "delete"
  /\ \/ PutAway(new) /\ (Answered \/ Fails)
     \/ UNCHANGED <<redis, history>> /\ Fails
  /\ Return(t)
  /\ UNCHANGED <<now, permanent, requests>>

(* redis_ltrim_ahead; its result is not looked at, and 0 is refused. *)
LtrimAhead(t) ==
  LET new == [k \in Keys |-> IF k \in MyKeys(t)
                             THEN Ltrim(lists[k], -MaxRedisList) ELSE lists[k]]
  IN
  /\ pc[t] = "ahead"
  /\ \/ MaxRedisList > 0 /\ PutAway(new) /\ Answered
     \/ UNCHANGED <<redis, history>> /\ IF MaxRedisList > 0 THEN Fails ELSE Answered
  /\ Goto(t, "rpush")
  /\ UNCHANGED <<now, permanent, requests>>

(* redis_get_value: a failure ends the request. *)
Lrange(t) ==
  /\ pc[t] = "lrange"
  /\ redisvalue' = [redisvalue EXCEPT ![t] =
                      [k \in Keys |-> IF k \in MyKeys(t) THEN lists[k] ELSE <<>>]]
  /\ pc' = [pc EXCEPT ![t] = "compare"]
  /\ UNCHANGED <<now, permanent, redis, input, simdis, sameDoc, history, requests, failures>>

LrangeFails(t) ==
  /\ pc[t] = "lrange" /\ Fails
  /\ Return(t)
  /\ UNCHANGED <<now, permanent, redis, history, requests>>

(* get_similar_doc: the values within hamdis bits among some, nearest first. *)
Similar(r, values) ==
  LET distance == [i \in DOMAIN values |-> HammingDist(values[i].sign, r.sign)]
  IN  PickBy(values,
             {i \in DOMAIN values : /\ values[i].doc # r.doc
                                    /\ ~Expired(values[i])
                                    /\ distance[i] <= HamDis},
             distance)

Compare(t) ==
  LET r == input[t] IN
  /\ pc[t] = "compare"
  /\ simdis' = [simdis EXCEPT ![t] = [k \in Keys |-> Similar(r, redisvalue[t][k])]]
  /\ sameDoc' = [sameDoc EXCEPT ![t] =
                   \E k \in Keys : \E x \in Entries(redisvalue[t][k]) : x[1] = r.doc]
  /\ pc' = [pc EXCEPT ![t] = "lrem"]
  /\ UNCHANGED <<now, permanent, redis, input, redisvalue, history, requests, failures>>

(* Whether what was found similar is pushed again, with a new expiry. *)
Delays(t) ==
  /\ input[t].strategy \in {"COMPARE", "APPCOM"}
  /\ input[t].hitdelay /\ ~permanent

(* redis_del_value; its result is passed on and not looked at.  What is    *)
(* taken out of the lists of a permanent key is pushed by nobody.          *)
Lrem(t) ==
  LET new == [k \in Keys |-> RemoveOnce(lists[k], simdis[t][k])]
      some == input[t].hitdelay /\ simdis[t] # Nothing
  IN
  /\ pc[t] = "lrem"
  /\ \/ ~some /\ UNCHANGED <<redis, history>> /\ Answered
     \/ some /\ UNCHANGED <<redis, history>> /\ Fails
     \/ /\ some /\ Put(new)
        /\ LET lost == IF Delays(t) THEN {} ELSE Gone(new)
           IN  owed' = owed \ lost /\ taken' = taken \union lost
        /\ Answered \/ Fails
  /\ Goto(t, "rpush")
  /\ UNCHANGED <<now, permanent, requests>>

-----------------------------------------------------------------------------
(* redis_insert_value.                                                     *)

Delayed(v) == [v EXCEPT !.timestamp = now + HitLifetime]

NewValue(t) ==
  [doc |-> input[t].doc, sign |-> input[t].sign,
   timestamp |-> IF permanent THEN 0 ELSE now + input[t].expiretime]

Appends(t) == input[t].strategy \in {"APPEND", "APPCOM"}

Own(t, k) == IF k \in MyKeys(t) /\ Appends(t) THEN <<NewValue(t)>> ELSE <<>>

(* Mutant: the values found similar are not pushed again. *)
OwnPushed(t, k) == Own(t, k)

Pushed(t, k) ==
  (IF Delays(t) THEN [i \in 1 .. Len(simdis[t][k]) |-> Delayed(simdis[t][k][i])] ELSE <<>>)
    \o Own(t, k)

(* redis_ltrim_value does nothing for APPEND. *)
AfterInsert(t) ==
  IF input[t].strategy = "APPEND" THEN Return(t) ELSE Goto(t, "ltrim")

(* A document of a permanent key is there already: nothing is pushed. *)
RefusePermanent(t) ==
  /\ pc[t] = "rpush" /\ permanent /\ sameDoc[t]
  /\ AfterInsert(t)
  /\ UNCHANGED <<now, permanent, redis, history, requests, failures>>

Rpush(t) ==
  LET new == [k \in Keys |-> lists[k] \o Pushed(t, k)] IN
  /\ pc[t] = "rpush" /\ ~(permanent /\ sameDoc[t])
  /\ Put(new)
  /\ LET own == IF Appends(t) THEN {<<input[t].doc, input[t].sign>>} ELSE {}
     IN  owed' = owed \union own /\ taken' = taken \ own
  /\ \/ Answered /\ IF Appends(t) /\ ~permanent THEN Goto(t, "expire") ELSE AfterInsert(t)
     \/ new # lists /\ Fails /\ AfterInsert(t)
  /\ UNCHANGED <<now, permanent, requests>>

(* What was taken out of a list and not pushed again is lost. *)
RpushFails(t) ==
  /\ pc[t] = "rpush" /\ ~(permanent /\ sameDoc[t])
  /\ \E k \in Keys : Pushed(t, k) # <<>>
  /\ Fails
  /\ owed' = owed \ {x \in owed : \E k \in Keys : x \in Entries(simdis[t][k]) \ Entries(lists[k])}
  /\ AfterInsert(t)
  /\ UNCHANGED <<now, permanent, redis, taken, requests>>

(* redis_expire_key: the whole key is to go when this document may. *)
ExpireKey(t) ==
  /\ pc[t] = "expire"
  /\ \/ /\ ttl' = [k \in Keys |-> IF k \in MyKeys(t) /\ lists[k] # <<>>
                                  THEN now + input[t].expiretime ELSE ttl[k]]
        /\ Answered
     \/ UNCHANGED ttl /\ Fails
  /\ AfterInsert(t)
  /\ UNCHANGED <<now, permanent, lists, history, requests>>

-----------------------------------------------------------------------------
(* redis_ltrim_value, computed from what LRANGE gave.                      *)

Truncates(values) == MaxRedisList > 0 /\ Len(values) > MaxRedisList

(* The expired values at the front, or behind what is truncated. *)
ExpiredRun(values) ==
  LET st == IF Truncates(values) THEN Len(values) - MaxRedisList ELSE 0
  IN  IF Len(values) < CheckNum THEN 0
      ELSE CHOOSE n \in 0 .. Len(values) - st :
             /\ \A i \in 1 .. n : Expired(values[st + i])
             /\ n < Len(values) - st => ~Expired(values[st + n + 1])

(* tv.start, 0 for a key that is left alone. *)
TrimStart(values) ==
  LET n == ExpiredRun(values)
  IN  IF Truncates(values)
      THEN IF n < MaxRedisList THEN n - MaxRedisList ELSE Len(values)
      ELSE IF n \in {0, Len(values)} THEN n ELSE n - Len(values)

LtrimValue(t) ==
  LET new == [k \in Keys |-> IF redisvalue[t][k] = <<>> THEN lists[k]
                             ELSE Ltrim(lists[k], TrimStart(redisvalue[t][k]))]
  IN
  /\ pc[t] = "ltrim"
  /\ \/ PutAway(new) /\ Answered
     \/ UNCHANGED <<redis, history>> /\ Fails
  /\ Return(t)
  /\ UNCHANGED <<now, permanent, requests>>

-----------------------------------------------------------------------------
Process(t) ==
  \/ \E r \in Requests : Receive(t, r)
  \/ DocDelete(t) \/ LtrimAhead(t) \/ Lrange(t) \/ LrangeFails(t) \/ Compare(t) \/ Lrem(t)
  \/ RefusePermanent(t) \/ Rpush(t) \/ RpushFails(t) \/ ExpireKey(t) \/ LtrimValue(t)

Finished ==
  /\ requests = MaxRequests /\ now = MaxTime
  /\ \A t \in Threads : pc[t] = "idle"
  /\ UNCHANGED vars

Next == Tick \/ (\E t \in Threads : Process(t)) \/ Finished

Spec == Init /\ [][Next]_vars

-----------------------------------------------------------------------------
(* Properties.                                                             *)

(* The variables have their types; only a thread that compared has hits,   *)
(* and a key has an expiry only while it has a list (sim_process, with the *)
(* lists of redis).                                                        *)
TypeOK ==
  /\ now \in 0 .. MaxTime /\ permanent \in BOOLEAN
  /\ lists \in [Keys -> Seq(Value)]
  /\ ttl \in [Keys -> Nat]
  /\ pc \in [Threads -> {"idle", "delete", "ahead", "lrange", "compare", "lrem",
                         "rpush", "expire", "ltrim"}]
  /\ input \in [Threads -> Request \union {NoInput}]
  /\ redisvalue \in [Threads -> [Keys -> Seq(Value)]]
  /\ simdis \in [Threads -> [Keys -> Seq(Value)]]
  /\ sameDoc \in [Threads -> BOOLEAN]
  /\ owed \subseteq Docs \X Signs /\ taken \subseteq Docs \X Signs
  /\ requests \in 0 .. MaxRequests /\ failures \in 0 .. MaxFailures
  /\ \A t \in Threads : pc[t] \in {"idle", "lrange", "compare"} => simdis[t] = Nothing
  /\ \A k \in Keys : lists[k] = <<>> => ttl[k] = 0

(* Taken out of list k by a thread that is about to push it again.         *)
InFlight(k, x) ==
  \E t \in Threads : pc[t] = "rpush" /\ Delays(t) /\ x \in Entries(simdis[t][k])

(* A document that was pushed and that neither the client, an LTRIM, an    *)
(* expiry nor a failed message took away is in the list of every one of    *)
(* its keys, or in the hands of a thread between redis_del_value and       *)
(* redis_insert_value, however the threads that find it similar overlap.   *)
(* The one exception is a loss of the code: the comments have a hit        *)
(* deleted because it "is insert into the end of list"                     *)
(* (sim_process.cpp:158-160, redis.cpp:490-493), but under a permanent key *)
(* the LREM is done and no RPUSH follows for the hit (redis.cpp:329); only *)
(* such a document may be missing.                                         *)
Kept ==
  \A x \in owed \union taken : \A k \in RedisKeys(x[2]) :
    x \in Entries(lists[k]) \/ InFlight(k, x) \/ (permanent /\ x \in taken)

(* The LRANGE of a request sees every stored document within hamdis bits   *)
(* of its own signature, but for those in another thread's hands or taken  *)
(* out for good: two such signatures share a redis key (make_rediskey,     *)
(* redis_get_value).                                                       *)
SimilarSeen ==
  [][\A t \in Threads : pc[t] = "lrange" /\ pc'[t] = "compare" =>
       \A x \in owed : HammingDist(x[2], input[t].sign) <= HamDis =>
         \E k \in MyKeys(t) : x \in Entries(redisvalue'[t][k]) \/ InFlight(k, x)]_vars

(* redis_ltrim_value takes away only values that are expired, or that are  *)
(* not among the newest max_redis_list ("get rid of expired value",        *)
(* "if number of value is more than threshold,truncate").                  *)
TrimsWhatIsDue ==
  [][\A t \in Threads : pc[t] = "ltrim" /\ pc'[t] = "idle" =>
       \A k \in Keys : \A i \in 1 .. Len(lists[k]) - Len(lists'[k]) :
         \/ Expired(lists[k][i])
         \/ MaxRedisList > 0 /\ i <= Len(lists[k]) - MaxRedisList]_vars
=============================================================================

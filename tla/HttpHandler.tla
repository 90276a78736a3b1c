----------------------------- MODULE HttpHandler -----------------------------
(***************************************************************************)
(* The request handler (http_server/HttpHandler.cpp) and the location      *)
(* lookup it calls (locate_getresult/locate_getresult.cpp).                *)
(*                                                                         *)
(* Every receiver thread of HttpServer runs handle_worker on the one       *)
(* HttpHandler object: generate_response clears the member locateResult,   *)
(* lets GetLocationResult insert the records nearest first, and turns the  *)
(* first of them into the response.  There is no lock.                     *)
(*                                                                         *)
(* An operation on the shared vector is one step; two threads between      *)
(* their clear() and their last access may also corrupt it, which here     *)
(* ends the process.  So what the model lets happen without a fault is the *)
(* mildest the race can do.                                                *)
(***************************************************************************)
EXTENDS Integers, Sequences, SequencesExt

CONSTANTS
  Threads,         (* the receiver threads                                   *)
  Table,           (* locateInfoALL: per record, its distance from the fixed *)
                   (* point of generate_response                             *)
  NaN,             (* the distance of a record whose coordinates are bad     *)
  SearchDistance,  (* the constant distance of generate_response             *)
  ResultMax,       (* the records put in a response: 10                      *)
  MaxRequests      (* bound: requests handled                                *)

Records == 1 .. Len(Table)

ASSUME HandlerAssumption ==
  /\ NaN \notin Int
  /\ Table \in Seq(Nat \union {NaN})
  /\ SearchDistance \in Nat
  /\ ResultMax \in Nat
  /\ MaxRequests \in Nat

VARIABLES
  locateResult,   \* HttpHandler::locateResult, as indices into the table
  pc,             \* where a thread is in generate_response
  next,           \* the iterator over locateInfoALL
  vecDistance,    \* the local vecDistance
  returnLen,      \* the local returnLen
  json,           \* the items of array_result_outputs, then of the response
  overlapped,     \* history: threads that shared locateResult with another
  requests,       \* how many requests were taken
  fault           \* how the process died, "none" while it lives

localVars == <<pc, next, vecDistance, returnLen, json>>
vars == <<locateResult, localVars, overlapped, requests, fault>>

-----------------------------------------------------------------------------
(* Comparisons of long doubles: with NaN every one is false.               *)
Greater(a, b) == a # NaN /\ b # NaN /\ a > b
TooFar(d) == d # NaN /\ d >= SearchDistance

(* From clear() to the last read of locateResult. *)
SharePcs == {"search", "size", "len", "item"}
Pcs == SharePcs \union {"idle", "clear", "reply"}

Sharing(t) == {u \in Threads \ {t} : pc[u] \in SharePcs}

At(t, label) == fault = "none" /\ pc[t] = label

Goto(t, label) == pc' = [pc EXCEPT ![t] = label]

Init ==
  /\ locateResult = <<>>
  /\ pc = [t \in Threads |-> "idle"]
  /\ next = [t \in Threads |-> 1]
  /\ vecDistance = [t \in Threads |-> <<>>]
  /\ returnLen = [t \in Threads |-> 0]
  /\ json = [t \in Threads |-> <<>>]
  /\ overlapped = {}
  /\ requests = 0
  /\ fault = "none"

-----------------------------------------------------------------------------
(* generate_response up to clear(): the coordinates and the distance of the *)
(* request are parsed, and then overwritten with constants.                 *)
Parse(t) ==
  /\ At(t, "idle") /\ requests < MaxRequests
  /\ requests' = requests + 1
  /\ Goto(t, "clear")
  /\ UNCHANGED <<locateResult, next, vecDistance, returnLen, json, overlapped,
                 fault>>

(* Mutant: the iterator starts before the first record. *)
StartBefore(t) ==
  /\ next' = [next EXCEPT ![t] = 0]
  /\ vecDistance' = [vecDistance EXCEPT ![t] = <<>>]
  /\ json' = [json EXCEPT ![t] = <<>>]
  /\ UNCHANGED overlapped
  /\ Goto(t, "search")

(* Mutant: vecDistance outlives the call, as locateResult does. *)
KeepDistances(t) ==
  /\ next' = [next EXCEPT ![t] = 1]
  /\ json' = [json EXCEPT ![t] = <<>>]
  /\ UNCHANGED <<vecDistance, overlapped>>
  /\ Goto(t, "search")

StartSearch(t) ==
  /\ next' = [next EXCEPT ![t] = 1]
  /\ vecDistance' = [vecDistance EXCEPT ![t] = <<>>]
  /\ json' = [json EXCEPT ![t] = <<>>]
  /\ overlapped' = IF Sharing(t) = {} THEN overlapped \ {t}
                   ELSE overlapped \union Sharing(t) \union {t}
  /\ Goto(t, "search")

(* Mutant: the results of the last request stay. *)
NoClear(t) ==
  /\ At(t, "clear")
  /\ StartSearch(t)
  /\ UNCHANGED <<locateResult, returnLen, requests, fault>>

(* locateResult.clear(), and the call of GetLocationResult. *)
Clear(t) ==
  /\ At(t, "clear")
  /\ locateResult' = <<>>
  /\ StartSearch(t)
  /\ UNCHANGED <<returnLen, requests, fault>>

-----------------------------------------------------------------------------
(* GetLocationResult.                                                      *)

(* Mutant: the comparison is the wrong way round. *)
IsPositionOfSmaller(p, v, d) ==
  /\ p <= Len(v) => Greater(d, v[p])
  /\ \A q \in 1 .. p - 1 : ~Greater(d, v[q])

(* Where the scan of vecDistance stops: at the first element above d. *)
IsPosition(p, v, d) ==
  /\ p <= Len(v) => Greater(v[p], d)
  /\ \A q \in 1 .. p - 1 : ~Greater(v[q], d)

SkipRecord(t) ==
  /\ At(t, "search") /\ next[t] \in Records
  /\ TooFar(Table[next[t]])
  /\ next' = [next EXCEPT ![t] = @ + 1]
  /\ UNCHANGED <<locateResult, pc, vecDistance, returnLen, json,
                 overlapped, requests, fault>>

(* The element is appended to both vectors, or inserted in both at the      *)
(* place found in vecDistance.                                              *)
InsertRecord(t) ==
  LET d == Table[next[t]] IN
  /\ At(t, "search") /\ next[t] \in Records
  /\ ~TooFar(d)
  /\ \E p \in 1 .. Len(vecDistance[t]) + 1 :
       /\ IsPosition(p, vecDistance[t], d)
       /\ vecDistance' = [vecDistance EXCEPT ![t] = InsertAt(@, p, d)]
       /\ \/ /\ p = Len(vecDistance[t]) + 1
             /\ locateResult' = Append(locateResult, next[t])
             /\ UNCHANGED fault
          \/ /\ p <= Len(vecDistance[t]) /\ p <= Len(locateResult) + 1
             /\ locateResult' = InsertAt(locateResult, p, next[t])
             /\ UNCHANGED fault
          \/ /\ p <= Len(vecDistance[t]) /\ p > Len(locateResult) + 1
             /\ fault' = "badInsert"
             /\ UNCHANGED locateResult
  /\ next' = [next EXCEPT ![t] = @ + 1]
  /\ UNCHANGED <<pc, returnLen, json, overlapped, requests>>

SearchEnds(t) ==
  /\ At(t, "search") /\ next[t] > Len(Table)
  /\ Goto(t, "size")
  /\ UNCHANGED <<locateResult, next, vecDistance, returnLen, json,
                 overlapped, requests, fault>>

-----------------------------------------------------------------------------
(* generate_json_result reads the size twice.                              *)

CompareSize(t) ==
  /\ At(t, "size")
  /\ returnLen' = [returnLen EXCEPT ![t] = ResultMax]
  /\ Goto(t, IF ResultMax > Len(locateResult) THEN "len" ELSE "item")
  /\ UNCHANGED <<locateResult, next, vecDistance, json, overlapped,
                 requests, fault>>

TakeSize(t) ==
  /\ At(t, "len")
  /\ returnLen' = [returnLen EXCEPT ![t] = Len(locateResult)]
  /\ Goto(t, "item")
  /\ UNCHANGED <<locateResult, next, vecDistance, json, overlapped,
                 requests, fault>>

(* locateResult[i] is not checked against the size. *)
AppendItem(t) ==
  LET i == Len(json[t]) + 1 IN
  /\ At(t, "item") /\ i <= returnLen[t]
  /\ IF i <= Len(locateResult)
     THEN /\ json' = [json EXCEPT ![t] = Append(@, locateResult[i])]
          /\ UNCHANGED fault
     ELSE fault' = "badRead" /\ UNCHANGED json
  /\ UNCHANGED <<locateResult, pc, next, vecDistance, returnLen,
                 overlapped, requests>>

(* fillContent. *)
FillContent(t) ==
  /\ At(t, "item") /\ Len(json[t]) >= returnLen[t]
  /\ Goto(t, "reply")
  /\ UNCHANGED <<locateResult, next, vecDistance, returnLen, json,
                 overlapped, requests, fault>>

(* retrieve_worker sends the response and deletes the worker. *)
RetrieveWorker(t) ==
  /\ At(t, "reply")
  /\ Goto(t, "idle")
  /\ UNCHANGED <<locateResult, next, vecDistance, returnLen, json,
                 overlapped, requests, fault>>

(* Two threads in the vector at once may leave it in any state.            *)
Corrupt(t) ==
  /\ fault = "none" /\ pc[t] \in SharePcs /\ Sharing(t) # {}
  /\ fault' = "corrupt"
  /\ UNCHANGED <<locateResult, localVars, overlapped, requests>>

-----------------------------------------------------------------------------
HandleWorker(t) ==
  \/ Parse(t)
  \/ Clear(t)
  \/ SkipRecord(t) \/ InsertRecord(t) \/ SearchEnds(t)
  \/ CompareSize(t) \/ TakeSize(t) \/ AppendItem(t) \/ FillContent(t)
  \/ RetrieveWorker(t)
  \/ Corrupt(t)

(* The requests of the model are used up, or the process has died.         *)
Finished ==
  /\ fault # "none" \/ (requests = MaxRequests /\ \A t \in Threads : pc[t] = "idle")
  /\ UNCHANGED vars

Next == (\E t \in Threads : HandleWorker(t)) \/ Finished

Spec == Init /\ [][Next]_vars

-----------------------------------------------------------------------------
(* Properties.                                                             *)

(* Every variable has its type. *)
TypeOK ==
  /\ locateResult \in Seq(Records)
  /\ pc \in [Threads -> Pcs]
  /\ next \in [Threads -> 1 .. Len(Table) + 1]
  /\ vecDistance \in [Threads -> Seq(Nat \union {NaN})]
  /\ returnLen \in [Threads -> Nat]
  /\ json \in [Threads -> Seq(Records)]
  /\ overlapped \subseteq Threads
  /\ requests \in Nat
  /\ fault \in {"none", "badInsert", "badRead", "corrupt"}

(* r comes before s: it is nearer, or as near and earlier in the table.     *)
(* NaN is comparable with nothing.                                          *)
Precedes(r, s) ==
  /\ ~Greater(Table[r], Table[s])
  /\ Table[r] = Table[s] => r < s

Candidates == {r \in Records : ~TooFar(Table[r])}

(* The reference: as many candidates as there are, up to the limit, each    *)
(* once, ordered, and none left out that is nearer than one of them.        *)
IsAnswer(s) ==
  /\ \A i \in 1 .. Len(s) : s[i] \in Candidates
  /\ \A i, j \in 1 .. Len(s) : i < j => Precedes(s[i], s[j])
  /\ \A r \in Candidates :
       \/ \E i \in 1 .. Len(s) : s[i] = r
       \/ Len(s) = ResultMax /\ \A i \in 1 .. Len(s) : Precedes(s[i], r)
  /\ Len(s) <= ResultMax

(* A response built while no other thread was in the vector is the right    *)
(* one, whatever earlier requests, overlapping ones included, left there.   *)
AnswerRight ==
  \A t \in Threads : pc[t] = "reply" /\ t \notin overlapped => IsAnswer(json[t])

(* insert() and operator[] stay within locateResult unless threads overlap: *)
(* that vecDistance and locateResult grow alike is all that keeps them in.  *)
FaultNeedsOverlap == fault # "none" => overlapped # {}

(* In any interleaving a thread's own vecDistance is ordered: later         *)
(* insertions go where the scan says.  NaN does not disturb it.             *)
DistancesOrdered ==
  \A t \in Threads : \A i, j \in 1 .. Len(vecDistance[t]) :
    i < j => ~Greater(vecDistance[t][i], vecDistance[t][j])

(* Every response is the right one: "the worker is handed to the handler,   *)
(* which gives the final result".                                           *)
AnswerAlwaysRight ==
  \A t \in Threads : pc[t] = "reply" => IsAnswer(json[t])
=============================================================================

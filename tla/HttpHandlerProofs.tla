------------------------- MODULE HttpHandlerProofs -------------------------
(***************************************************************************)
(* Proofs about HttpHandler, for every table, every number of threads and  *)
(* every interleaving: a thread's distances are ordered, and a response    *)
(* built without company is the right one.                                 *)
(***************************************************************************)
EXTENDS HttpHandler, SequenceTheorems, TLAPS

Distance == Nat \union {NaN}

(* s with e put in at place p is u. *)
Inserted(u, s, p, e) ==
  /\ Len(u) = Len(s) + 1
  /\ \A i \in 1 .. Len(u) :
       u[i] = IF i < p THEN s[i] ELSE IF i = p THEN e ELSE s[i - 1]

Ordered(v) == \A i, j \in 1 .. Len(v) : i < j => ~Greater(v[i], v[j])

(* While thread t is alone in the vector: what is in it.                   *)
Matches(t) ==
  /\ Len(locateResult) = Len(vecDistance[t])
  /\ \A i \in 1 .. Len(locateResult) :
       /\ locateResult[i] \in Candidates
       /\ locateResult[i] < next[t]
       /\ Table[locateResult[i]] = vecDistance[t][i]
  /\ \A r \in Candidates :
       r < next[t] => \E i \in 1 .. Len(locateResult) : locateResult[i] = r
  /\ \A i, j \in 1 .. Len(locateResult) :
       i < j => Precedes(locateResult[i], locateResult[j])

(* How far generate_json_result has come, when t is alone. *)
Copies(t) ==
  /\ pc[t] \in {"size", "len", "item"} => next[t] = Len(Table) + 1
  /\ pc[t] = "len" => ResultMax > Len(locateResult)
  /\ pc[t] = "item" => /\ returnLen[t] <= ResultMax
                       /\ returnLen[t] <= Len(locateResult)
                       /\ returnLen[t] \in {ResultMax, Len(locateResult)}
                       /\ Len(json[t]) <= returnLen[t]
                       /\ \A i \in 1 .. Len(json[t]) : json[t][i] = locateResult[i]
  /\ pc[t] \in {"search", "size", "len"} => json[t] = <<>>

AloneInv ==
  \A t \in Threads :
    pc[t] \in SharePcs /\ t \notin overlapped =>
      Sharing(t) = {} /\ Matches(t) /\ Copies(t)

HandlerInv ==
  /\ TypeOK /\ DistancesOrdered /\ AloneInv /\ AnswerRight /\ FaultNeedsOverlap

-----------------------------------------------------------------------------
(* What InsertAt of the community modules returns, element by element.     *)
LEMMA InsertAtElements ==
  ASSUME NEW S, NEW s \in Seq(S), NEW e \in S, NEW p \in 1 .. Len(s) + 1
  PROVE  /\ InsertAt(s, p, e) \in Seq(S)
         /\ Inserted(InsertAt(s, p, e), s, p, e)
<1> DEFINE a == SubSeq(s, 1, p - 1)
           b == SubSeq(s, p, Len(s))
           ae == a \o <<e>>
<1>1. a \in Seq(S) /\ Len(a) = p - 1 /\ \A i \in 1 .. p - 1 : a[i] = s[i]
  <2>1. \A i \in 1 .. p - 1 : s[i] \in S
    OBVIOUS
  <2> QED
    BY <2>1, SubSeqProperties
<1>2. b \in Seq(S) /\ Len(b) = Len(s) - p + 1
      /\ \A i \in 1 .. Len(s) - p + 1 : b[i] = s[p + i - 1]
  <2>1. \A i \in p .. Len(s) : s[i] \in S
    OBVIOUS
  <2> QED
    BY <2>1, SubSeqProperties
<1>3. <<e>> \in Seq(S) /\ Len(<<e>>) = 1 /\ <<e>>[1] = e
  OBVIOUS
<1> HIDE DEF a, b
<1>4. ae \in Seq(S) /\ Len(ae) = p
      /\ \A i \in 1 .. p : ae[i] = IF i < p THEN s[i] ELSE e
  BY <1>1, <1>3, ConcatProperties
<1> HIDE DEF ae
<1>5. InsertAt(s, p, e) = ae \o b
  BY DEF InsertAt, a, b, ae
<1>6. ae \o b \in Seq(S) /\ Len(ae \o b) = Len(s) + 1
      /\ \A i \in 1 .. Len(s) + 1 :
           (ae \o b)[i] = IF i <= p THEN ae[i] ELSE b[i - p]
  BY <1>2, <1>4, ConcatProperties
<1>7. ASSUME NEW i \in 1 .. Len(s) + 1, i > p
      PROVE  b[i - p] = s[i - 1]
  <2>1. i - p \in 1 .. Len(s) - p + 1
    BY <1>7
  <2> QED
    BY <2>1, <1>2
<1> QED
  BY <1>4, <1>5, <1>6, <1>7 DEF Inserted

LEMMA AppendElements ==
  ASSUME NEW S, NEW s \in Seq(S), NEW e \in S
  PROVE  Append(s, e) \in Seq(S) /\ Inserted(Append(s, e), s, Len(s) + 1, e)
BY AppendProperties DEF Inserted

(* A value put in where the scan stops leaves the distances ordered.       *)
LEMMA InsertOrdered ==
  ASSUME NEW v \in Seq(Distance), NEW d \in Distance, NEW u \in Seq(Distance),
         NEW p \in 1 .. Len(v) + 1,
         Ordered(v), IsPosition(p, v, d), Inserted(u, v, p, d)
  PROVE  Ordered(u)
<1> SUFFICES ASSUME NEW i \in 1 .. Len(u), NEW j \in 1 .. Len(u), i < j
             PROVE  ~Greater(u[i], u[j])
  BY DEF Ordered
<1>0. Len(u) = Len(v) + 1
  BY DEF Inserted
<1>1. CASE j < p
  BY <1>1, <1>0 DEF Inserted, Ordered
<1>2. CASE j = p
  BY <1>2, <1>0 DEF Inserted, IsPosition
<1>3. CASE i < p /\ p < j
  <2>1. u[i] = v[i] /\ u[j] = v[j - 1]
    BY <1>3, <1>0 DEF Inserted
  <2>2. i \in 1 .. Len(v) /\ j - 1 \in 1 .. Len(v) /\ i < j - 1
    BY <1>3, <1>0
  <2> QED
    BY <2>1, <2>2 DEF Ordered
<1>4. CASE i = p
  <2>1. u[i] = d /\ u[j] = v[j - 1] /\ j - 1 \in p .. Len(v) /\ p <= Len(v)
    BY <1>4, <1>0 DEF Inserted
  <2>2. Greater(v[p], d) /\ ~Greater(v[p], v[j - 1])
    BY <2>1 DEF IsPosition, Ordered, Greater, Distance
  <2> QED
    BY <2>1, <2>2, HandlerAssumption DEF Greater, Distance
<1>5. CASE p < i
  BY <1>5, <1>0 DEF Inserted, Ordered
<1> QED
  BY <1>1, <1>2, <1>3, <1>4, <1>5

-----------------------------------------------------------------------------
(* The effect of InsertRecord on the two vectors.                          *)
LEMMA InsertRecordEffect ==
  ASSUME TypeOK, NEW t \in Threads, InsertRecord(t),
         NEW p \in 1 .. Len(vecDistance[t]) + 1,
         vecDistance' = [vecDistance EXCEPT ![t] = InsertAt(@, p, Table[next[t]])],
         \/ p = Len(vecDistance[t]) + 1 /\ locateResult' = Append(locateResult, next[t])
         \/ p <= Len(locateResult) + 1 /\ locateResult' = InsertAt(locateResult, p, next[t])
         \/ UNCHANGED locateResult
  PROVE  /\ vecDistance' \in [Threads -> Seq(Distance)]
         /\ locateResult' \in Seq(Records)
         /\ Inserted(vecDistance'[t], vecDistance[t], p, Table[next[t]])
         /\ \A u \in Threads \ {t} : vecDistance'[u] = vecDistance[u]
<1>1. next[t] \in Records /\ Table[next[t]] \in Distance
  BY HandlerAssumption DEF InsertRecord, Records, Distance
<1>2. vecDistance[t] \in Seq(Distance) /\ vecDistance \in [Threads -> Seq(Distance)]
  BY DEF TypeOK, Distance
<1>3. /\ InsertAt(vecDistance[t], p, Table[next[t]]) \in Seq(Distance)
      /\ Inserted(InsertAt(vecDistance[t], p, Table[next[t]]), vecDistance[t], p,
                  Table[next[t]])
  BY <1>1, <1>2, InsertAtElements
<1>4. locateResult' \in Seq(Records)
  <2>1. locateResult \in Seq(Records)
    BY DEF TypeOK
  <2>2. CASE p <= Len(locateResult) + 1 /\ locateResult' = InsertAt(locateResult, p, next[t])
    <3>1. p \in 1 .. Len(locateResult) + 1
      BY <2>1, <2>2, <1>2
    <3> QED
      BY <1>1, <2>1, <2>2, <3>1, InsertAtElements
  <2> QED
    BY <1>1, <2>1, <2>2, AppendElements
<1> QED
  BY <1>2, <1>3, <1>4

(* An insertion by the only thread in the vector keeps the two in step.    *)
LEMMA MatchesInsert ==
  ASSUME TypeOK, NEW t \in Threads, InsertRecord(t), TypeOK',
         Matches(t), Ordered(vecDistance[t]),
         NEW p \in 1 .. Len(vecDistance[t]) + 1,
         IsPosition(p, vecDistance[t], Table[next[t]]),
         Inserted(vecDistance'[t], vecDistance[t], p, Table[next[t]]),
         Inserted(locateResult', locateResult, p, next[t])
  PROVE  Matches(t)'
<1> DEFINE n == next[t]
           d == Table[next[t]]
           loc == locateResult
           v == vecDistance[t]
<1>1. n \in Records /\ d \in Distance /\ n \in Candidates /\ next'[t] = n + 1
  BY HandlerAssumption DEF InsertRecord, Records, Distance, Candidates, TypeOK
<1>2. loc \in Seq(Records) /\ v \in Seq(Distance) /\ Len(loc) = Len(v)
  BY DEF TypeOK, Matches, Distance
<1>3. Len(locateResult') = Len(loc) + 1 /\ Len((vecDistance')[t]) = Len(v) + 1
  BY DEF Inserted
<1>4. \A i \in 1 .. Len(locateResult') :
        locateResult'[i] = IF i < p THEN loc[i] ELSE IF i = p THEN n ELSE loc[i - 1]
  BY DEF Inserted
<1>5. \A i \in 1 .. Len(locateResult') :
        (vecDistance')[t][i] = IF i < p THEN v[i] ELSE IF i = p THEN d ELSE v[i - 1]
  BY <1>2, <1>3 DEF Inserted
<1>6. \A i \in 1 .. Len(loc) :
        loc[i] \in Candidates /\ loc[i] < n /\ Table[loc[i]] = v[i]
  BY DEF Matches
<1>7. ASSUME NEW i \in 1 .. Len(locateResult')
      PROVE  /\ locateResult'[i] \in Candidates
             /\ locateResult'[i] < n + 1
             /\ Table[locateResult'[i]] = (vecDistance')[t][i]
  <2>1. CASE i < p
    <3>1. i \in 1 .. Len(loc)
      BY <2>1, <1>2, <1>3
    <3>2. locateResult'[i] = loc[i] /\ (vecDistance')[t][i] = v[i]
      BY <2>1, <1>4, <1>5, <1>2, <1>3
    <3>3. loc[i] \in Candidates /\ loc[i] < n /\ Table[loc[i]] = v[i]
      BY <3>1, <1>6
    <3>4. loc[i] \in Nat /\ n \in Nat
      BY <3>3, <1>1 DEF Candidates, Records
    <3> QED
      BY <3>2, <3>3, <3>4
  <2>2. CASE i = p
    BY <2>2, <1>1, <1>4, <1>5 DEF Records
  <2>3. CASE i > p
    <3>1. i - 1 \in 1 .. Len(loc)
      BY <2>3, <1>2, <1>3
    <3>2. locateResult'[i] = loc[i - 1] /\ (vecDistance')[t][i] = v[i - 1]
      BY <2>3, <1>4, <1>5, <1>2, <1>3
    <3>3. /\ loc[i - 1] \in Candidates /\ loc[i - 1] < n
          /\ Table[loc[i - 1]] = v[i - 1]
      BY <3>1, <1>6
    <3>4. loc[i - 1] \in Nat /\ n \in Nat
      BY <3>3, <1>1 DEF Candidates, Records
    <3> QED
      BY <3>2, <3>3, <3>4
  <2> QED
    BY <2>1, <2>2, <2>3, <1>3
<1>8. ASSUME NEW r \in Candidates, r < n + 1
      PROVE  \E i \in 1 .. Len(locateResult') : locateResult'[i] = r
  <2>1. CASE r = n
    BY <2>1, <1>2, <1>3, <1>4
  <2>2. CASE r # n
    <3>1. r < n
      BY <2>2, <1>8, <1>1 DEF Candidates, Records
    <3>2. PICK i \in 1 .. Len(loc) : loc[i] = r
      BY <3>1 DEF Matches
    <3>3. CASE i < p
      BY <3>2, <3>3, <1>2, <1>3, <1>4
    <3>4. CASE i >= p
      <4>1. i + 1 \in 1 .. Len(locateResult') /\ locateResult'[i + 1] = loc[i]
        BY <3>4, <1>2, <1>3, <1>4
      <4> QED
        BY <4>1, <3>2
    <3> QED
      BY <3>3, <3>4
  <2> QED
    BY <2>1, <2>2
<1>9. ASSUME NEW i \in 1 .. Len(locateResult'), NEW j \in 1 .. Len(locateResult'),
             i < j
      PROVE  Precedes(locateResult'[i], locateResult'[j])
  <2>0. \A k, l \in 1 .. Len(loc) : k < l => Precedes(loc[k], loc[l])
    BY DEF Matches
  <2>1. CASE j < p
    <3>1. i \in 1 .. Len(loc) /\ j \in 1 .. Len(loc)
      BY <2>1, <1>2, <1>3, <1>9
    <3>2. locateResult'[i] = loc[i] /\ locateResult'[j] = loc[j]
      BY <2>1, <1>9, <1>4
    <3> QED
      BY <3>1, <3>2, <2>0, <1>9
  <2>2. CASE j = p
    <3>1. i \in 1 .. Len(loc) /\ i \in 1 .. p - 1
      BY <2>2, <1>2, <1>3, <1>9
    <3>2. locateResult'[i] = loc[i] /\ locateResult'[j] = n
      BY <2>2, <1>9, <1>4
    <3>3. ~Greater(v[i], d)
      BY <3>1 DEF IsPosition
    <3> QED
      BY <3>1, <3>2, <3>3, <1>6 DEF Precedes
  <2>3. CASE i < p /\ p < j
    <3>1. i \in 1 .. Len(loc) /\ j - 1 \in 1 .. Len(loc) /\ i < j - 1
      BY <2>3, <1>2, <1>3, <1>9
    <3>2. locateResult'[i] = loc[i] /\ locateResult'[j] = loc[j - 1]
      BY <2>3, <1>9, <1>4
    <3> QED
      BY <3>1, <3>2, <2>0
  <2>4. CASE i = p
    <3>1. j - 1 \in 1 .. Len(loc) /\ j - 1 \in p .. Len(v) /\ p \in 1 .. Len(v)
      BY <2>4, <1>2, <1>3, <1>9
    <3>2. locateResult'[i] = n /\ locateResult'[j] = loc[j - 1]
      BY <2>4, <1>9, <1>4
    <3>3. Greater(v[p], d)
      BY <3>1 DEF IsPosition
    <3>4. p = j - 1 \/ ~Greater(v[p], v[j - 1])
      BY <3>1, <1>2 DEF Ordered
    <3>5. v[p] \in Distance /\ v[j - 1] \in Distance
      BY <3>1, <1>2
    <3>6. ~Greater(d, v[j - 1]) /\ d # v[j - 1]
      BY <3>3, <3>4, <3>5, <1>1, HandlerAssumption DEF Greater, Distance
    <3> QED
      BY <3>1, <3>2, <3>6, <1>6 DEF Precedes
  <2>5. CASE p < i
    <3>1. i - 1 \in 1 .. Len(loc) /\ j - 1 \in 1 .. Len(loc) /\ i - 1 < j - 1
      BY <2>5, <1>2, <1>3, <1>9
    <3>2. locateResult'[i] = loc[i - 1] /\ locateResult'[j] = loc[j - 1]
      BY <2>5, <1>9, <1>4
    <3> QED
      BY <3>1, <3>2, <2>0
  <2> QED
    BY <2>1, <2>2, <2>3, <2>4, <2>5
<1>10. Candidates' = Candidates
  BY DEF Candidates, Records, TooFar
<1> QED
  BY <1>1, <1>3, <1>7, <1>8, <1>9 DEF Matches, Candidates, Records, TooFar, Precedes, Greater

-----------------------------------------------------------------------------
(* The invariant.                                                          *)

LEMMA HandlerInit == Init => HandlerInv
<1> SUFFICES ASSUME Init PROVE HandlerInv
  OBVIOUS
<1> USE HandlerAssumption DEF Init
<1>1. TypeOK
  BY DEF TypeOK, Pcs, Records
<1>2. DistancesOrdered
  BY DEF DistancesOrdered
<1>3. AloneInv /\ AnswerRight
  BY DEF AloneInv, AnswerRight, SharePcs
<1>4. FaultNeedsOverlap
  BY DEF FaultNeedsOverlap
<1> QED
  BY <1>1, <1>2, <1>3, <1>4 DEF HandlerInv

(* A step that touches neither the vector nor another thread's locals, and  *)
(* stays on the same side of the window, leaves the others' part alone.     *)
LEMMA OthersAlone ==
  ASSUME TypeOK, AloneInv, AnswerRight, NEW t \in Threads,
         NEW u \in Threads \ {t},
         \A w \in Threads \ {t} : /\ pc'[w] = pc[w] /\ next'[w] = next[w]
                                 /\ vecDistance'[w] = vecDistance[w]
                                 /\ returnLen'[w] = returnLen[w]
                                 /\ json'[w] = json[w],
         pc[t] \in SharePcs \/ pc'[t] \notin SharePcs,
         UNCHANGED overlapped,
         pc[t] \in SharePcs \/ UNCHANGED locateResult
  PROVE  /\ pc'[u] \in SharePcs /\ u \notin overlapped' =>
              Sharing(u)' = {} /\ Matches(u)' /\ Copies(u)'
         /\ pc'[u] = "reply" /\ u \notin overlapped' => IsAnswer(json'[u])
<1>1. ASSUME pc'[u] \in SharePcs, u \notin overlapped'
      PROVE  Sharing(u)' = {} /\ Matches(u)' /\ Copies(u)'
  <2>1. pc[u] \in SharePcs /\ u \notin overlapped
    BY <1>1
  <2>2. Sharing(u) = {} /\ Matches(u) /\ Copies(u)
    BY <2>1 DEF AloneInv
  <2>3. pc[t] \notin SharePcs
    BY <2>2 DEF Sharing
  <2>4. UNCHANGED locateResult /\ pc'[t] \notin SharePcs
    BY <2>3
  <2>5. Sharing(u)' = {}
    BY <2>2, <2>4 DEF Sharing
  <2>6. Matches(u)'
    BY <2>2, <2>4 DEF Matches, Candidates, Records, TooFar, Precedes, Greater
  <2>7. Copies(u)'
    BY <2>2, <2>4 DEF Copies
  <2> QED
    BY <2>5, <2>6, <2>7
<1>2. ASSUME pc'[u] = "reply", u \notin overlapped'
      PROVE  IsAnswer(json'[u])
  BY <1>2 DEF AnswerRight
<1> QED
  BY <1>1, <1>2

(* What a thread that is alone has copied at the end is the answer.         *)
LEMMA AnswerFromCopies ==
  ASSUME TypeOK, NEW t \in Threads, Matches(t), Copies(t), pc[t] = "item",
         Len(json[t]) >= returnLen[t]
  PROVE  IsAnswer(json[t])
<1> DEFINE s == json[t]
           loc == locateResult
<1>1. /\ Len(s) = returnLen[t] /\ Len(s) <= ResultMax /\ Len(s) <= Len(loc)
      /\ Len(s) \in {ResultMax, Len(loc)}
      /\ \A i \in 1 .. Len(s) : s[i] = loc[i]
      /\ Len(s) \in Nat /\ Len(loc) \in Nat
  BY HandlerAssumption DEF Copies, TypeOK
<1>2. next[t] = Len(Table) + 1
  BY DEF Copies
<1>3. \A r \in Candidates : r < next[t]
  BY <1>2 DEF Candidates, Records
<1>4. ASSUME NEW r \in Candidates
      PROVE  \/ \E i \in 1 .. Len(s) : s[i] = r
             \/ Len(s) = ResultMax /\ \A i \in 1 .. Len(s) : Precedes(s[i], r)
  <2>1. PICK k \in 1 .. Len(loc) : loc[k] = r
    BY <1>3 DEF Matches
  <2>2. CASE k <= Len(s)
    BY <2>1, <2>2, <1>1
  <2>3. CASE k > Len(s)
    <3>1. Len(s) = ResultMax
      BY <2>1, <2>3, <1>1
    <3>2. ASSUME NEW i \in 1 .. Len(s) PROVE Precedes(s[i], r)
      <4>1. i \in 1 .. Len(loc) /\ i < k /\ s[i] = loc[i]
        BY <2>1, <2>3, <1>1
      <4> QED
        BY <4>1, <2>1 DEF Matches
    <3> QED
      BY <3>1, <3>2
  <2> QED
    BY <2>1, <2>2, <2>3, <1>1
<1>5. \A i \in 1 .. Len(s) : s[i] \in Candidates
  BY <1>1 DEF Matches
<1>6. \A i, j \in 1 .. Len(s) : i < j => Precedes(s[i], s[j])
  BY <1>1 DEF Matches
<1> QED
  BY <1>1, <1>4, <1>5, <1>6 DEF IsAnswer

-----------------------------------------------------------------------------
(* One case per action; OthersAlone deals with the other threads.          *)

LEMMA HandlerInductive == HandlerInv /\ [Next]_vars => HandlerInv'
<1> SUFFICES ASSUME HandlerInv, [Next]_vars PROVE HandlerInv'
  OBVIOUS
<1> USE HandlerAssumption
<1>t. TypeOK /\ DistancesOrdered /\ AloneInv /\ AnswerRight /\ FaultNeedsOverlap
  BY DEF HandlerInv
<1>0. CASE UNCHANGED vars
  <2>1. TypeOK' /\ DistancesOrdered' /\ FaultNeedsOverlap'
    BY <1>0, <1>t DEF vars, localVars, TypeOK, DistancesOrdered, FaultNeedsOverlap
  <2>2. AloneInv'
    BY <1>0, <1>t DEF vars, localVars, AloneInv, Sharing, Matches, Copies
  <2>3. AnswerRight'
    BY <1>0, <1>t DEF vars, localVars, AnswerRight
  <2> QED
    BY <2>1, <2>2, <2>3 DEF HandlerInv
<1>1. ASSUME NEW t \in Threads, Parse(t)
      PROVE  HandlerInv'
  <2> USE <1>1 DEF Parse, At, Goto
  <2>1. TypeOK'
    BY <1>t DEF TypeOK, Pcs
  <2>2. DistancesOrdered' /\ FaultNeedsOverlap'
    BY <1>t DEF DistancesOrdered, FaultNeedsOverlap
  <2>3. pc'[t] = "clear" /\ \A w \in Threads \ {t} : pc'[w] = pc[w]
    BY <1>t DEF TypeOK
  <2>4. AloneInv' /\ AnswerRight'
    BY <1>t, <2>3, OthersAlone DEF AloneInv, AnswerRight, SharePcs
  <2> QED
    BY <2>1, <2>2, <2>4 DEF HandlerInv
<1>2. ASSUME NEW t \in Threads, Clear(t) PROVE HandlerInv'
  <2> USE <1>2 DEF Clear, StartSearch, At, Goto
  <2>1. TypeOK'
    <3>1. Sharing(t) \subseteq Threads
      BY DEF Sharing
    <3>2. overlapped' \subseteq Threads
      BY <3>1, <1>t DEF TypeOK
    <3>3. 1 \in 1 .. Len(Table) + 1
      OBVIOUS
    <3> QED
      BY <3>2, <3>3, <1>t DEF TypeOK, Pcs, SharePcs
  <2>2. /\ pc'[t] = "search" /\ json'[t] = <<>> /\ vecDistance'[t] = <<>>
        /\ next'[t] = 1 /\ locateResult' = <<>>
        /\ \A w \in Threads \ {t} : /\ pc'[w] = pc[w] /\ json'[w] = json[w]
                                   /\ vecDistance'[w] = vecDistance[w]
    BY <1>t DEF TypeOK
  <2>3. DistancesOrdered'
    BY <1>t, <2>2 DEF DistancesOrdered
  <2>4. FaultNeedsOverlap'
    BY <1>t DEF FaultNeedsOverlap
  <2>5. AloneInv'
    <3> SUFFICES ASSUME NEW u \in Threads, pc'[u] \in SharePcs, u \notin overlapped'
                 PROVE  Sharing(u)' = {} /\ Matches(u)' /\ Copies(u)'
      BY DEF AloneInv
    <3>1. Sharing(t) = {}
      BY <2>2 DEF Sharing
    <3>2. u = t
      BY <2>2, <3>1 DEF Sharing
    <3>3. Sharing(u)' = {}
      BY <2>2, <3>1, <3>2 DEF Sharing
    <3>4. Matches(u)'
      BY <2>2, <3>2 DEF Matches, Candidates, Records
    <3>5. Copies(u)'
      BY <2>2, <3>2 DEF Copies
    <3> QED
      BY <3>3, <3>4, <3>5
  <2>6. AnswerRight'
    BY <1>t, <2>2 DEF AnswerRight
  <2> QED
    BY <2>1, <2>3, <2>4, <2>5, <2>6 DEF HandlerInv
<1>3. ASSUME NEW t \in Threads, SkipRecord(t) PROVE HandlerInv'
  <2> USE <1>3 DEF SkipRecord, At
  <2>1. next[t] + 1 \in 1 .. Len(Table) + 1 /\ next'[t] = next[t] + 1
        /\ next[t] \in Nat
    BY <1>t DEF TypeOK, Records
  <2>2. TypeOK'
    BY <1>t, <2>1 DEF TypeOK
  <2>3. DistancesOrdered' /\ FaultNeedsOverlap' /\ AnswerRight'
    BY <1>t DEF DistancesOrdered, FaultNeedsOverlap, AnswerRight
  <2>4. next[t] \notin Candidates
    BY DEF Candidates
  <2>5. ASSUME t \notin overlapped
        PROVE  Sharing(t)' = {} /\ Matches(t)' /\ Copies(t)'
    <3>1. Sharing(t) = {} /\ Matches(t) /\ Copies(t)
      BY <1>t, <2>5 DEF AloneInv, SharePcs
    <3>2. \A r \in Candidates : r < next[t] + 1 => r < next[t]
      BY <2>1, <2>4 DEF Candidates, Records
    <3>3. \A r \in Candidates : r < next[t] => r < next[t] + 1
      BY <2>1 DEF Candidates, Records
    <3>4. Matches(t)'
      BY <2>1, <3>1, <3>2, <3>3 DEF Matches, Candidates, Records, TooFar, Precedes, Greater
    <3>5. Sharing(t)' = {} /\ Copies(t)'
      BY <3>1 DEF Sharing, Copies
    <3> QED
      BY <3>4, <3>5
  <2>6. \A u \in Threads \ {t} :
          pc'[u] \in SharePcs /\ u \notin overlapped' =>
            Sharing(u)' = {} /\ Matches(u)' /\ Copies(u)'
    BY <1>t, OthersAlone DEF SharePcs, TypeOK
  <2>7. AloneInv'
    BY <2>5, <2>6 DEF AloneInv
  <2> QED
    BY <2>2, <2>3, <2>7 DEF HandlerInv
<1>4. ASSUME NEW t \in Threads, InsertRecord(t) PROVE HandlerInv'
  <2> DEFINE n == next[t]
             d == Table[next[t]]
  <2>1. PICK p \in 1 .. Len(vecDistance[t]) + 1 :
          /\ IsPosition(p, vecDistance[t], d)
          /\ vecDistance' = [vecDistance EXCEPT ![t] = InsertAt(@, p, d)]
          /\ \/ /\ p = Len(vecDistance[t]) + 1
                /\ locateResult' = Append(locateResult, n)
                /\ UNCHANGED fault
             \/ /\ p <= Len(vecDistance[t]) /\ p <= Len(locateResult) + 1
                /\ locateResult' = InsertAt(locateResult, p, n)
                /\ UNCHANGED fault
             \/ /\ p <= Len(vecDistance[t]) /\ p > Len(locateResult) + 1
                /\ fault' = "badInsert"
                /\ UNCHANGED locateResult
    BY <1>4 DEF InsertRecord
  <2>2. /\ vecDistance' \in [Threads -> Seq(Distance)]
        /\ locateResult' \in Seq(Records)
        /\ Inserted(vecDistance'[t], vecDistance[t], p, d)
        /\ \A u \in Threads \ {t} : vecDistance'[u] = vecDistance[u]
    BY <1>4, <1>t, <2>1, InsertRecordEffect
  <2>3. /\ pc[t] = "search" /\ n \in Records /\ d \in Distance /\ ~TooFar(d)
        /\ next' = [next EXCEPT ![t] = @ + 1]
        /\ UNCHANGED <<pc, returnLen, json, overlapped, requests>>
    BY <1>4 DEF InsertRecord, At, Records, Distance
  <2>4. n + 1 \in 1 .. Len(Table) + 1
    BY <2>3 DEF Records
  <2>5. fault' \in {"none", "badInsert", "badRead", "corrupt"}
    BY <1>t, <2>1 DEF TypeOK
  <2>6. TypeOK'
    BY <1>t, <2>2, <2>3, <2>4, <2>5 DEF TypeOK, Distance
  <2>7. \A u \in Threads : Ordered(vecDistance[u])
    BY <1>t DEF DistancesOrdered, Ordered
  <2>8. Ordered(vecDistance'[t])
    <3>1. vecDistance[t] \in Seq(Distance) /\ vecDistance'[t] \in Seq(Distance)
      BY <1>t, <2>2 DEF TypeOK, Distance
    <3> QED
      BY <2>1, <2>2, <2>3, <2>7, <3>1, InsertOrdered
  <2>9. DistancesOrdered'
    BY <2>2, <2>7, <2>8 DEF DistancesOrdered, Ordered
  <2>10. ASSUME t \notin overlapped
         PROVE  Sharing(t) = {} /\ Matches(t) /\ Copies(t)
    BY <1>t, <2>3, <2>10 DEF AloneInv, SharePcs
  <2>11. ASSUME t \notin overlapped
         PROVE  UNCHANGED fault /\ Inserted(locateResult', locateResult, p, n)
    <3>1. Len(locateResult) = Len(vecDistance[t]) /\ locateResult \in Seq(Records)
          /\ Len(locateResult) \in Nat
      BY <1>t, <2>10, <2>11 DEF Matches, TypeOK
    <3>2. \/ p = Len(locateResult) + 1 /\ locateResult' = Append(locateResult, n)
          \/ locateResult' = InsertAt(locateResult, p, n)
      BY <2>1, <3>1
    <3>3. p \in 1 .. Len(locateResult) + 1
      BY <3>1
    <3>4. Inserted(Append(locateResult, n), locateResult, Len(locateResult) + 1, n)
      BY <2>3, <3>1, AppendElements
    <3>5. Inserted(InsertAt(locateResult, p, n), locateResult, p, n)
      BY <2>3, <3>1, <3>3, InsertAtElements
    <3>6. Inserted(locateResult', locateResult, p, n)
      BY <3>2, <3>4, <3>5 DEF Inserted
    <3>7. UNCHANGED fault
      BY <2>1, <3>1
    <3> QED
      BY <3>6, <3>7
  <2>12. FaultNeedsOverlap'
    <3>1. CASE t \in overlapped
      BY <2>3, <3>1 DEF FaultNeedsOverlap
    <3>2. CASE t \notin overlapped
      BY <1>t, <2>3, <2>11, <3>2 DEF FaultNeedsOverlap
    <3> QED
      BY <3>1, <3>2
  <2>13. ASSUME t \notin overlapped
         PROVE  Sharing(t)' = {} /\ Matches(t)' /\ Copies(t)'
    <3>1. Matches(t)'
      BY <1>4, <1>t, <2>1, <2>2, <2>6, <2>7, <2>10, <2>11, <2>13, MatchesInsert
    <3>2. Sharing(t)' = {} /\ Copies(t)'
      BY <2>3, <2>10, <2>13 DEF Sharing, Copies
    <3> QED
      BY <3>1, <3>2
  <2>14. \A u \in Threads \ {t} :
           pc'[u] \in SharePcs /\ u \notin overlapped' =>
             Sharing(u)' = {} /\ Matches(u)' /\ Copies(u)'
    <3>1. next' \in [Threads -> 1 .. Len(Table) + 1]
          /\ \A w \in Threads \ {t} : next'[w] = next[w]
      BY <1>t, <2>3, <2>6 DEF TypeOK
    <3> QED
      BY <1>t, <2>2, <2>3, <3>1, OthersAlone DEF SharePcs
  <2>15. AloneInv'
    BY <2>3, <2>13, <2>14 DEF AloneInv
  <2>16. AnswerRight'
    BY <1>t, <2>3 DEF AnswerRight
  <2> QED
    BY <2>6, <2>9, <2>12, <2>15, <2>16 DEF HandlerInv
<1>5. ASSUME NEW t \in Threads, SearchEnds(t) PROVE HandlerInv'
  <2> USE <1>5 DEF SearchEnds, At, Goto
  <2>1. TypeOK'
    BY <1>t DEF TypeOK, Pcs, SharePcs
  <2>2. DistancesOrdered'
    BY <1>t DEF DistancesOrdered
  <2>3. /\ \A w \in Threads \ {t} : /\ pc'[w] = pc[w] /\ json'[w] = json[w]
                                    /\ returnLen'[w] = returnLen[w]
        /\ UNCHANGED <<locateResult, next, vecDistance, overlapped>>
    BY <1>t DEF TypeOK
  <2>4. pc[t] \in SharePcs \/ pc'[t] \notin SharePcs
    BY DEF SharePcs
  <2>5. ASSUME t \notin overlapped
        PROVE  Sharing(t)' = {} /\ Matches(t)' /\ Copies(t)'
    <3>1. Sharing(t) = {} /\ Matches(t) /\ Copies(t)
      BY <1>t, <2>5 DEF AloneInv, SharePcs
    <3>a. next[t] \in 1 .. Len(Table) + 1 /\ next[t] > Len(Table) /\ Len(Table) \in Nat
      BY <1>t DEF TypeOK
    <3>b. pc'[t] = "size"
      BY <1>t DEF TypeOK
    <3>2. pc'[t] = "size" /\ next[t] = Len(Table) + 1
      BY <3>a, <3>b
    <3>3. Sharing(t)' = {}
      BY <2>3, <3>1 DEF Sharing
    <3>4. Matches(t)'
      BY <2>3, <3>1 DEF Matches
    <3>5. Copies(t)'
      BY <1>t, <2>3, <3>1, <3>2 DEF Copies, TypeOK
    <3> QED
      BY <3>3, <3>4, <3>5
  <2>6. \A u \in Threads \ {t} :
          /\ pc'[u] \in SharePcs /\ u \notin overlapped' =>
               Sharing(u)' = {} /\ Matches(u)' /\ Copies(u)'
          /\ pc'[u] = "reply" /\ u \notin overlapped' => IsAnswer(json'[u])
    BY <1>t, <2>3, <2>4, OthersAlone
  <2>7. AloneInv'
    BY <2>3, <2>5, <2>6 DEF AloneInv
  <2>8. AnswerRight'
    BY <1>t, <2>3, <2>6 DEF AnswerRight
  <2>9. FaultNeedsOverlap'
    BY <1>t DEF FaultNeedsOverlap
  <2> QED
    BY <2>1, <2>2, <2>7, <2>8, <2>9 DEF HandlerInv
<1>6. ASSUME NEW t \in Threads, CompareSize(t) PROVE HandlerInv'
  <2> USE <1>6 DEF CompareSize, At, Goto
  <2>1. TypeOK'
    BY <1>t DEF TypeOK, Pcs, SharePcs
  <2>2. DistancesOrdered'
    BY <1>t DEF DistancesOrdered
  <2>3. /\ \A w \in Threads \ {t} : /\ pc'[w] = pc[w] /\ json'[w] = json[w]
                                    /\ returnLen'[w] = returnLen[w]
        /\ UNCHANGED <<locateResult, next, vecDistance, overlapped>>
    BY <1>t DEF TypeOK
  <2>4. pc[t] \in SharePcs \/ pc'[t] \notin SharePcs
    BY DEF SharePcs
  <2>5. ASSUME t \notin overlapped
        PROVE  Sharing(t)' = {} /\ Matches(t)' /\ Copies(t)'
    <3>1. Sharing(t) = {} /\ Matches(t) /\ Copies(t)
      BY <1>t, <2>5 DEF AloneInv, SharePcs
    <3>2. /\ pc'[t] \in {"len", "item"} /\ returnLen'[t] = ResultMax
          /\ pc'[t] = "len" <=> ResultMax > Len(locateResult)
          /\ json[t] = <<>> /\ Len(json[t]) = 0 /\ Len(locateResult) \in Nat
      BY <1>t, <3>1 DEF TypeOK, Copies
    <3>3. Sharing(t)' = {}
      BY <2>3, <3>1 DEF Sharing
    <3>4. Matches(t)'
      BY <2>3, <3>1 DEF Matches
    <3>5. Copies(t)'
      BY <1>t, <2>3, <3>1, <3>2 DEF Copies, TypeOK
    <3> QED
      BY <3>3, <3>4, <3>5
  <2>6. \A u \in Threads \ {t} :
          /\ pc'[u] \in SharePcs /\ u \notin overlapped' =>
               Sharing(u)' = {} /\ Matches(u)' /\ Copies(u)'
          /\ pc'[u] = "reply" /\ u \notin overlapped' => IsAnswer(json'[u])
    BY <1>t, <2>3, <2>4, OthersAlone
  <2>7. AloneInv'
    BY <2>3, <2>5, <2>6 DEF AloneInv
  <2>8. AnswerRight'
    BY <1>t, <2>3, <2>6 DEF AnswerRight
  <2>9. FaultNeedsOverlap'
    BY <1>t DEF FaultNeedsOverlap
  <2> QED
    BY <2>1, <2>2, <2>7, <2>8, <2>9 DEF HandlerInv
<1>7. ASSUME NEW t \in Threads, TakeSize(t) PROVE HandlerInv'
  <2> USE <1>7 DEF TakeSize, At, Goto
  <2>1. TypeOK'
    BY <1>t DEF TypeOK, Pcs, SharePcs
  <2>2. DistancesOrdered'
    BY <1>t DEF DistancesOrdered
  <2>3. /\ \A w \in Threads \ {t} : /\ pc'[w] = pc[w] /\ json'[w] = json[w]
                                    /\ returnLen'[w] = returnLen[w]
        /\ UNCHANGED <<locateResult, next, vecDistance, overlapped>>
    BY <1>t DEF TypeOK
  <2>4. pc[t] \in SharePcs \/ pc'[t] \notin SharePcs
    BY DEF SharePcs
  <2>5. ASSUME t \notin overlapped
        PROVE  Sharing(t)' = {} /\ Matches(t)' /\ Copies(t)'
    <3>1. Sharing(t) = {} /\ Matches(t) /\ Copies(t)
      BY <1>t, <2>5 DEF AloneInv, SharePcs
    <3>2. /\ pc'[t] = "item" /\ returnLen'[t] = Len(locateResult)
          /\ json[t] = <<>> /\ Len(json[t]) = 0 /\ Len(locateResult) \in Nat
      BY <1>t, <3>1 DEF TypeOK, Copies
    <3>3. Sharing(t)' = {}
      BY <2>3, <3>1 DEF Sharing
    <3>4. Matches(t)'
      BY <2>3, <3>1 DEF Matches
    <3>5. Copies(t)'
      BY <1>t, <2>3, <3>1, <3>2 DEF Copies, TypeOK
    <3> QED
      BY <3>3, <3>4, <3>5
  <2>6. \A u \in Threads \ {t} :
          /\ pc'[u] \in SharePcs /\ u \notin overlapped' =>
               Sharing(u)' = {} /\ Matches(u)' /\ Copies(u)'
          /\ pc'[u] = "reply" /\ u \notin overlapped' => IsAnswer(json'[u])
    BY <1>t, <2>3, <2>4, OthersAlone
  <2>7. AloneInv'
    BY <2>3, <2>5, <2>6 DEF AloneInv
  <2>8. AnswerRight'
    BY <1>t, <2>3, <2>6 DEF AnswerRight
  <2>9. FaultNeedsOverlap'
    BY <1>t DEF FaultNeedsOverlap
  <2> QED
    BY <2>1, <2>2, <2>7, <2>8, <2>9 DEF HandlerInv
<1>8. ASSUME NEW t \in Threads, AppendItem(t) PROVE HandlerInv'
  <2> USE <1>8 DEF AppendItem, At, Goto
  <2>1. TypeOK'
    <3>1. CASE Len(json[t]) + 1 <= Len(locateResult)
      <4>1. Len(json[t]) + 1 \in 1 .. Len(locateResult)
        BY <1>t, <3>1 DEF TypeOK
      <4>2. locateResult[Len(json[t]) + 1] \in Records
        BY <1>t, <4>1 DEF TypeOK
      <4>3. Append(json[t], locateResult[Len(json[t]) + 1]) \in Seq(Records)
        BY <1>t, <4>2, AppendProperties DEF TypeOK
      <4> QED
        BY <1>t, <3>1, <4>3 DEF TypeOK
    <3>2. CASE ~(Len(json[t]) + 1 <= Len(locateResult))
      BY <1>t, <3>2 DEF TypeOK
    <3> QED
      BY <3>1, <3>2
  <2>2. DistancesOrdered'
    BY <1>t DEF DistancesOrdered
  <2>3. /\ \A w \in Threads \ {t} : /\ pc'[w] = pc[w] /\ json'[w] = json[w]
                                    /\ returnLen'[w] = returnLen[w]
        /\ UNCHANGED <<locateResult, next, vecDistance, overlapped>>
    BY <1>t DEF TypeOK
  <2>4. pc[t] \in SharePcs \/ pc'[t] \notin SharePcs
    BY DEF SharePcs
  <2>5. ASSUME t \notin overlapped
        PROVE  Sharing(t)' = {} /\ Matches(t)' /\ Copies(t)' /\ UNCHANGED fault
    <3>1. Sharing(t) = {} /\ Matches(t) /\ Copies(t)
      BY <1>t, <2>5 DEF AloneInv, SharePcs
    <3>2. Len(json[t]) \in Nat /\ returnLen[t] \in Nat /\ Len(locateResult) \in Nat
      BY <1>t DEF TypeOK
    <3>3. /\ Len(json[t]) + 1 \in 1 .. Len(locateResult)
          /\ Len(json[t]) + 1 <= returnLen[t]
      BY <3>1, <3>2 DEF Copies
    <3>4. /\ json'[t] = Append(json[t], locateResult[Len(json[t]) + 1])
          /\ UNCHANGED fault
      BY <1>t, <3>3 DEF TypeOK
    <3>5. locateResult[Len(json[t]) + 1] \in Records /\ json[t] \in Seq(Records)
      BY <1>t, <3>3 DEF TypeOK
    <3>6. /\ Len(json'[t]) = Len(json[t]) + 1
          /\ \A i \in 1 .. Len(json[t]) : json'[t][i] = json[t][i]
          /\ json'[t][Len(json[t]) + 1] = locateResult[Len(json[t]) + 1]
      BY <3>4, <3>5, AppendProperties
    <3>7. \A i \in 1 .. Len(json'[t]) : json'[t][i] = locateResult[i]
      <4> SUFFICES ASSUME NEW i \in 1 .. Len(json'[t])
                   PROVE  json'[t][i] = locateResult[i]
        OBVIOUS
      <4>1. CASE i = Len(json[t]) + 1
        BY <4>1, <3>6
      <4>2. CASE i # Len(json[t]) + 1
        <5>1. i \in 1 .. Len(json[t])
          BY <4>2, <3>2, <3>6
        <5> QED
          BY <5>1, <3>1, <3>6 DEF Copies
      <4> QED
        BY <4>1, <4>2
    <3>8. Sharing(t)' = {}
      BY <2>3, <3>1 DEF Sharing
    <3>9. Matches(t)'
      BY <2>3, <3>1 DEF Matches
    <3>10. Copies(t)'
      BY <2>3, <3>1, <3>3, <3>6, <3>7 DEF Copies
    <3> QED
      BY <3>4, <3>8, <3>9, <3>10
  <2>6. \A u \in Threads \ {t} :
          /\ pc'[u] \in SharePcs /\ u \notin overlapped' =>
               Sharing(u)' = {} /\ Matches(u)' /\ Copies(u)'
          /\ pc'[u] = "reply" /\ u \notin overlapped' => IsAnswer(json'[u])
    BY <1>t, <2>3, <2>4, OthersAlone
  <2>7. AloneInv'
    BY <2>3, <2>5, <2>6 DEF AloneInv
  <2>8. AnswerRight'
    BY <1>t, <2>3, <2>6 DEF AnswerRight
  <2>9. FaultNeedsOverlap'
    BY <1>t, <2>3, <2>5 DEF FaultNeedsOverlap
  <2> QED
    BY <2>1, <2>2, <2>7, <2>8, <2>9 DEF HandlerInv
<1>9. ASSUME NEW t \in Threads, FillContent(t) PROVE HandlerInv'
  <2> USE <1>9 DEF FillContent, At, Goto
  <2>1. TypeOK'
    BY <1>t DEF TypeOK, Pcs, SharePcs
  <2>2. DistancesOrdered'
    BY <1>t DEF DistancesOrdered
  <2>3. /\ \A w \in Threads \ {t} : /\ pc'[w] = pc[w] /\ json'[w] = json[w]
                                    /\ returnLen'[w] = returnLen[w]
        /\ UNCHANGED <<locateResult, next, vecDistance, overlapped>>
    BY <1>t DEF TypeOK
  <2>4. pc[t] \in SharePcs \/ pc'[t] \notin SharePcs
    BY DEF SharePcs
  <2>5. ASSUME t \notin overlapped
        PROVE  IsAnswer(json'[t])
    <3>1. Sharing(t) = {} /\ Matches(t) /\ Copies(t)
      BY <1>t, <2>5 DEF AloneInv, SharePcs
    <3>2. IsAnswer(json[t])
      BY <1>t, <3>1, AnswerFromCopies
    <3> QED
      BY <3>2
  <2>6. \A u \in Threads \ {t} :
          /\ pc'[u] \in SharePcs /\ u \notin overlapped' =>
               Sharing(u)' = {} /\ Matches(u)' /\ Copies(u)'
          /\ pc'[u] = "reply" /\ u \notin overlapped' => IsAnswer(json'[u])
    BY <1>t, <2>3, <2>4, OthersAlone
  <2>10. pc'[t] \notin SharePcs
    BY <1>t DEF TypeOK, SharePcs
  <2>7. AloneInv'
    BY <2>10, <2>6 DEF AloneInv
  <2>8. AnswerRight'
    BY <2>3, <2>5, <2>6 DEF AnswerRight
  <2>9. FaultNeedsOverlap'
    BY <1>t DEF FaultNeedsOverlap
  <2> QED
    BY <2>1, <2>2, <2>7, <2>8, <2>9 DEF HandlerInv
<1>10. ASSUME NEW t \in Threads, RetrieveWorker(t) PROVE HandlerInv'
  <2> USE <1>10 DEF RetrieveWorker, At, Goto
  <2>1. TypeOK'
    BY <1>t DEF TypeOK, Pcs, SharePcs
  <2>2. DistancesOrdered'
    BY <1>t DEF DistancesOrdered
  <2>3. /\ \A w \in Threads \ {t} : /\ pc'[w] = pc[w] /\ json'[w] = json[w]
                                    /\ returnLen'[w] = returnLen[w]
        /\ UNCHANGED <<locateResult, next, vecDistance, overlapped>>
    BY <1>t DEF TypeOK
  <2>4. pc'[t] = "idle" /\ pc'[t] \notin SharePcs
    BY <1>t DEF TypeOK, SharePcs
  <2>6. \A u \in Threads \ {t} :
          /\ pc'[u] \in SharePcs /\ u \notin overlapped' =>
               Sharing(u)' = {} /\ Matches(u)' /\ Copies(u)'
          /\ pc'[u] = "reply" /\ u \notin overlapped' => IsAnswer(json'[u])
    BY <1>t, <2>3, <2>4, OthersAlone
  <2>7. AloneInv'
    BY <2>4, <2>6 DEF AloneInv
  <2>8. AnswerRight'
    BY <2>4, <2>6 DEF AnswerRight
  <2>9. FaultNeedsOverlap'
    BY <1>t DEF FaultNeedsOverlap
  <2> QED
    BY <2>1, <2>2, <2>7, <2>8, <2>9 DEF HandlerInv
<1>11. ASSUME NEW t \in Threads, Corrupt(t) PROVE HandlerInv'
  <2> USE <1>11 DEF Corrupt, localVars
  <2>1. TypeOK'
    BY <1>t DEF TypeOK
  <2>2. t \in overlapped
    BY <1>t DEF AloneInv
  <2>3. FaultNeedsOverlap'
    BY <2>2 DEF FaultNeedsOverlap
  <2>4. AloneInv'
    BY <1>t DEF AloneInv, Sharing, Matches, Copies
  <2>5. DistancesOrdered' /\ AnswerRight'
    BY <1>t DEF DistancesOrdered, AnswerRight
  <2> QED
    BY <2>1, <2>3, <2>4, <2>5 DEF HandlerInv
<1> QED
  BY <1>0, <1>1, <1>2, <1>3, <1>4, <1>5, <1>6, <1>7, <1>8, <1>9, <1>10, <1>11
  DEF Next, HandleWorker, Finished

-----------------------------------------------------------------------------
(* The inductive invariant of the handler under any interleaving.          *)
THEOREM HandlerInvariant == Spec => []HandlerInv
<1> QED
  BY HandlerInit, HandlerInductive, PTL DEF Spec

(* A response built while no other thread was in the vector is the nearest  *)
(* records, in order and complete up to the limit, for every table (NaN     *)
(* included), search distance and number of threads.                        *)
THEOREM AloneIsRight == Spec => []AnswerRight
<1>1. HandlerInv => AnswerRight
  BY DEF HandlerInv
<1> QED
  BY <1>1, HandlerInvariant, PTL

(* The vectors are never indexed out of range without an overlap.          *)
THEOREM AloneIsSafe == Spec => []FaultNeedsOverlap
<1>1. HandlerInv => FaultNeedsOverlap
  BY DEF HandlerInv
<1> QED
  BY <1>1, HandlerInvariant, PTL

(* Each thread's distances stay ordered, whatever the others do.           *)
THEOREM SearchOrdered == Spec => []DistancesOrdered
<1>1. HandlerInv => DistancesOrdered
  BY DEF HandlerInv
<1> QED
  BY <1>1, HandlerInvariant, PTL

(* Every variable keeps its type: a thread's iterator stays within the     *)
(* table, and what is in the shared vector are records, also when threads  *)
(* overlap.                                                                *)
THEOREM HandlerTypes == Spec => []TypeOK
<1>1. HandlerInv => TypeOK
  BY DEF HandlerInv
<1> QED
  BY <1>1, HandlerInvariant, PTL
=============================================================================

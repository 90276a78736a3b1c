--------------------------- MODULE DialogueProofs ---------------------------
(***************************************************************************)
(* Proofs about Dialogue for every vocabulary and every conversion of its  *)
(* words, every set of logs and of queries, every number of buckets and    *)
(* every assignment of words to them: the files are what the programs that *)
(* build them write, the doc index cut between two units or inside one,    *)
(* the exact index between two, and a process that has loaded them answers *)
(* as its invariants say.                                                  *)
(*                                                                         *)
(* The first part proves the inductive invariant; those that follow take   *)
(* the data on its way: the order of the exact index, the table of the     *)
(* edit distance, the buckets as they are built, sorted, written, read     *)
(* from a file that was cut, and searched, and the postings.  At the end   *)
(* the distance is shown to be the least number of edits.                  *)
(***************************************************************************)
EXTENDS Dialogue, ListProofs

(* Each file is what its program writes for one log, or a part of it.       *)
FilesCut ==
  /\ \/ docLog = <<>> /\ docFile = <<>> /\ docCut = "between"
     \/ /\ docLog \in Logs /\ docFile \in Cuts(DocFile(docLog))
        /\ docCut = IF docFile = DocFile(docLog) THEN "none"
                    ELSE IF IsPrefix(docFile, DocFile(docLog)) THEN "between"
                    ELSE "inside"
  /\ \/ daLog = <<>> /\ daFile = <<>>
     \/ /\ daLog \in Logs
        /\ \E questions \in SortedQuestions(hash_uniq(daLog)), n \in 0 .. 4 :
             daFile = SubSeq(DaFile(daLog, questions), 1, n)

(* The process has what the files gave it when it started.                 *)
Loaded ==
  /\ up \in BOOLEAN
  /\ up => /\ LoadIndex(daFile) /\ da = LoadedDa(daFile)
           /\ \E index0 \in Buckets, size0 \in 0 .. 1 : idx = Load(docFile, index0, size0)

(* What is shown belongs to the last query.                                *)
Answering ==
  \/ Silent
  \/ /\ up /\ query \in Queries
     /\ found = GetIndexResults(idx, query) /\ asked = Shown(query, found)
     /\ \/ Lookup(da, asked) # <<>> /\ reply \in Range(Lookup(da, asked))
        \/ Lookup(da, asked) = <<>> /\ reply = NoReply

IInv == FilesCut /\ Loaded /\ Answering
-----------------------------------------------------------------------------
(* Texts.                                                                  *)

(* A word is a number and has a length.                                    *)
LEMMA WordsType == Words \subseteq Int /\ WordLen \in [Words -> Nat]
  BY WordsAssumption

(* A text is a function on the places of its words.                        *)
LEMMA TextType ==
  ASSUME NEW text \in Text
  PROVE  /\ Len(text) \in Nat /\ DOMAIN text = 1 .. Len(text)
         /\ text \in [1 .. Len(text) -> Words]
         /\ \A k \in 1 .. Len(text) : text[k] \in Words /\ text[k] \in Int
  BY WordsType DEF Text

(* The length of a text is a number of bytes.                              *)
LEMMA LengthType ==
  ASSUME NEW text \in Text
  PROVE  Length(text) \in Nat
<1> DEFINE N == Len(text)
           Fits(f) == f = [n \in 0 .. N |-> IF n = 0 THEN 0 ELSE f[n - 1] + WordLen[text[n]]]
           upto == CHOOSE f : Fits(f)
           step == [p \in (1 .. N) \X Nat |-> p[2] + WordLen[text[p[1]]]]
<1>1. N \in Nat /\ \A n \in 1 .. N : WordLen[text[n]] \in Nat
  BY WordsType DEF Text
<1>2. Length(text) = upto[N]
  BY DEF Length
<1> HIDE DEF N
<1>3. step \in [(1 .. N) \X Nat -> Nat] /\ 0 \in Nat
  BY <1>1
<1>4. PICK f : Recursion(f, N, Nat, 0, step)
  <2> HIDE DEF step
  <2>1. \E f : Recursion(f, N, Nat, 0, step)
    BY <1>1, <1>3, RecursionExists
  <2> QED
    BY <2>1
<1>5. Fits(f)
  <2>1. f \in [0 .. N -> Nat] /\ f[0] = 0 /\ \A n \in 1 .. N : f[n] = step[<<n, f[n - 1]>>]
    BY <1>4 DEF Recursion
  <2>2. \A n \in 1 .. N : f[n] = f[n - 1] + WordLen[text[n]]
    <3>1. \A n \in 1 .. N : f[n - 1] \in Nat /\ <<n, f[n - 1]>> \in (1 .. N) \X Nat
      BY <1>1, <2>1
    <3> QED
      BY <2>1, <3>1
  <2> QED
    BY <1>1, <2>1, <2>2
<1>6. Fits(upto)
  <2> HIDE DEF Fits
  <2> QED BY <1>5
<1> DEFINE S == {n \in Nat : upto[n] \in Nat}
<1>7. \A n \in 0 .. N : upto[n] = IF n = 0 THEN 0 ELSE upto[n - 1] + WordLen[text[n]]
  <2> HIDE DEF upto
  <2> QED BY <1>6
<1> HIDE DEF upto
<1>8. 0 \in S
  BY <1>1, <1>7
<1>9. ASSUME NEW n \in 0 .. N - 1, n \in S
      PROVE  n + 1 \in S
  <2>1. n + 1 \in 0 .. N /\ n + 1 # 0 /\ (n + 1) - 1 = n /\ n + 1 \in 1 .. N
    BY <1>1
  <2> QED
    BY <1>1, <1>7, <1>9, <2>1
<1>10. \A n \in 0 .. N : n \in S
  <2> HIDE DEF S
  <2>1. N \in Int /\ 0 \in Int /\ (0 <= N => 0 \in S) /\ \A n \in 0 .. N - 1 : n \in S => n + 1 \in S
    BY <1>1, <1>8, <1>9
  <2> QED
    BY <2>1, Induction
<1> QED
  BY <1>1, <1>2, <1>10

(* The empty text has no bytes.                                            *)
LEMMA LengthEmpty == Length(<<>>) = 0
<1> DEFINE Fits(f) == f = [n \in 0 .. 0 |-> IF n = 0 THEN 0 ELSE f[n - 1] + WordLen[<<>>[n]]]
           upto == CHOOSE f : Fits(f)
<1>1. Length(<<>>) = upto[0]
  BY DEF Length
<1>2. Fits([n \in 0 .. 0 |-> 0])
  OBVIOUS
<1>3. Fits(upto)
  <2> HIDE DEF Fits
  <2> QED BY <1>2
<1>4. upto[0] = 0
  <2> HIDE DEF upto
  <2> QED BY <1>3
<1> QED
  BY <1>1, <1>4

-----------------------------------------------------------------------------
(* The exact index.                                                        *)

(* What the lines of a log are.                                            *)
LEMMA LogType ==
  ASSUME NEW log \in Logs
  PROVE  /\ Len(log) \in Nat /\ DOMAIN log = 1 .. Len(log)
         /\ log \in Seq([question : Text \ {<<>>}, answer : Answers])
         /\ \A i \in 1 .. Len(log) :
              /\ log[i].question \in Text /\ log[i].question # <<>>
              /\ log[i].answer \in Answers
              /\ log[i] = Line(log[i].question, log[i].answer)
<1>1. log \in Seq([question : Text \ {<<>>}, answer : Answers])
  BY DialogueAssumption
<1>2. Len(log) \in Nat /\ DOMAIN log = 1 .. Len(log)
  BY <1>1
<1>3. \A i \in 1 .. Len(log) : log[i] \in [question : Text \ {<<>>}, answer : Answers]
  BY <1>1, ListParts
<1> QED
  BY <1>1, <1>2, <1>3 DEF Line

(* A question has the answers it was logged with, in some order.           *)
LEMMA AnswersParts ==
  ASSUME NEW log \in Logs, NEW q \in DOMAIN hash_uniq(log)
  PROVE  /\ q \in Text
         /\ hash_uniq(log)[q] \in Seq(Answers)
         /\ \A x \in Range(hash_uniq(log)[q]) : \E i \in 1 .. Len(log) : log[i] = Line(q, x)
         /\ \A i \in 1 .. Len(log) :
              log[i].question = q => log[i].answer \in Range(hash_uniq(log)[q])
<1> DEFINE V == [question : Text \ {<<>>}, answer : Answers]
           I == {i \in DOMAIN log : log[i].question = q}
           mine == Pick(log, I)
<1>1. q \in {log[i].question : i \in 1 .. Len(log)}
  BY DEF hash_uniq
<1>2. q \in Text
  BY <1>1, LogType
<1>3. hash_uniq(log)[q] = [n \in 1 .. Len(mine) |-> mine[n].answer]
  BY <1>1 DEF hash_uniq
<1>4. log \in Seq(V) /\ I \in SUBSET DOMAIN log
  BY LogType
<1>5. /\ mine \in Seq(V)
      /\ \A i \in I : \E n \in 1 .. Len(mine) : mine[n] = log[i]
      /\ \A n \in 1 .. Len(mine) : \E i \in I : mine[n] = log[i]
  <2> HIDE DEF V, I
  <2> QED BY <1>4, PickParts
<1>6. ASSUME NEW n \in 1 .. Len(mine)
      PROVE  mine[n].answer \in Answers /\ \E i \in 1 .. Len(log) : log[i] = Line(q, mine[n].answer)
  <2>1. PICK i \in I : mine[n] = log[i]
    <3> HIDE DEF mine, I
    <3> QED BY <1>5
  <2>2. i \in 1 .. Len(log) /\ log[i].question = q
    BY LogType
  <2> HIDE DEF mine, I
  <2> QED
    BY <2>1, <2>2, LogType
<1>7. Len(mine) \in Nat
  <2> HIDE DEF mine, V
  <2> QED BY <1>5
<1>8. hash_uniq(log)[q] \in Seq(Answers) /\ Range(hash_uniq(log)[q]) = {mine[n].answer : n \in 1 .. Len(mine)}
  <2> HIDE DEF mine
  <2> QED BY <1>3, <1>6, <1>7 DEF Range
<1>9. ASSUME NEW i \in 1 .. Len(log), log[i].question = q
      PROVE  log[i].answer \in Range(hash_uniq(log)[q])
  <2>1. i \in I
    BY <1>9, LogType
  <2>2. PICK n \in 1 .. Len(mine) : mine[n] = log[i]
    <3> HIDE DEF mine, I
    <3> QED BY <1>5, <2>1
  <2> HIDE DEF mine
  <2> QED
    BY <1>8, <2>2
<1>10. \A x \in Range(hash_uniq(log)[q]) : \E i \in 1 .. Len(log) : log[i] = Line(q, x)
  <2> HIDE DEF mine
  <2> QED BY <1>6, <1>8
<1> QED
  BY <1>2, <1>8, <1>9, <1>10

(* A question that is logged has an answer. *)
LEMMA AnsweredOnce ==
  ASSUME NEW log \in Logs, NEW q \in DOMAIN hash_uniq(log)
  PROVE  hash_uniq(log)[q] # <<>>
<1>1. PICK i \in 1 .. Len(log) : log[i].question = q
  BY DEF hash_uniq
<1>2. log[i].answer \in Range(hash_uniq(log)[q])
  BY <1>1, AnswersParts
<1>3. Range(<<>>) = {}
  BY DEF Range
<1> QED
  BY <1>2, <1>3

(* The index has the questions whose keys have words.                      *)
LEMMA QuestionsParts ==
  ASSUME NEW log \in Logs, NEW questions \in SortedQuestions(hash_uniq(log))
  PROVE  /\ Len(questions) \in Nat /\ DOMAIN questions = 1 .. Len(questions)
         /\ \A i \in 1 .. Len(questions) : questions[i] \in DOMAIN hash_uniq(log)
         /\ \A q \in DOMAIN hash_uniq(log) :
              Segment_(change2qj(q)) # <<>> => \E i \in 1 .. Len(questions) : questions[i] = q
<1> DEFINE map == hash_uniq(log)
           S == {q \in DOMAIN map : Segment_(change2qj(q)) # <<>>}
<1>1. DOMAIN map = {log[i].question : i \in 1 .. Len(log)}
  BY DEF hash_uniq
<1>2. IsFiniteSet(DOMAIN map)
  <2>1. IsFiniteSet(1 .. Len(log))
    BY LogType, FS_Interval
  <2> DEFINE f == [i \in 1 .. Len(log) |-> log[i].question]
  <2>2. f \in Surjection(1 .. Len(log), DOMAIN map)
    <3>1. f \in [1 .. Len(log) -> DOMAIN map]
      BY <1>1
    <3>2. \A q \in DOMAIN map : \E i \in 1 .. Len(log) : f[i] = q
      BY <1>1
    <3> HIDE DEF f, map
    <3> QED
      BY <3>1, <3>2 DEF Surjection
  <2> HIDE DEF f, map
  <2> QED
    BY <2>1, <2>2, FS_Surjection
<1>3. Cardinality(S) \in Nat
  <2>1. S \in SUBSET DOMAIN map
    OBVIOUS
  <2> HIDE DEF S, map
  <2> QED
    BY <1>2, <2>1, FS_Subset, FS_CardinalityType
<1>4. questions \in [1 .. Cardinality(S) -> S] /\ Range(questions) = S
  BY DEF SortedQuestions
<1> HIDE DEF S, map
<1>5. Len(questions) = Cardinality(S) /\ DOMAIN questions = 1 .. Len(questions)
  BY <1>3, <1>4
<1>6. \A q \in S : \E i \in 1 .. Len(questions) : questions[i] = q
  BY <1>4, <1>5 DEF Range
<1> QED
  BY <1>3, <1>4, <1>5, <1>6 DEF S, map

(* The last of the places that a set of places has.                        *)
LEMMA LastPlace ==
  ASSUME NEW N \in Nat, NEW I \in SUBSET (1 .. N), I # {}
  PROVE  Max(I) \in I
<1> DEFINE D == {d \in Nat : N - d \in I}
<1>1. D \in SUBSET Nat /\ D # {}
  <2>1. PICK i \in I : TRUE
    OBVIOUS
  <2>2. N - i \in Nat /\ N - (N - i) = i
    OBVIOUS
  <2> QED
    BY <2>1, <2>2
<1>2. PICK d \in D : \A e \in D : d <= e
  <2> HIDE DEF D
  <2> QED BY <1>1, LeastNatural
<1>3. \A j \in I : N - d >= j
  <2> SUFFICES ASSUME NEW j \in I PROVE N - d >= j
    OBVIOUS
  <2>1. N - j \in Nat /\ N - (N - j) = j /\ d \in Nat /\ j \in Nat
    OBVIOUS
  <2>2. N - j \in D
    BY <2>1
  <2> QED
    BY <1>2, <2>1, <2>2
<1> QED
  BY <1>2, <1>3 DEF Max

(* What the exact index finds, from a file cut anywhere behind its text, are *)
(* the answers to a logged question that has the key, if there is one.      *)
LEMMA LookupParts ==
  ASSUME NEW log \in Logs, NEW questions \in SortedQuestions(hash_uniq(log)), NEW n \in 0 .. 4,
         LoadIndex(SubSeq(DaFile(log, questions), 1, n)), NEW q
  PROVE  LET answers == Lookup(LoadedDa(SubSeq(DaFile(log, questions), 1, n)), q)
             map == hash_uniq(log)
         IN  /\ answers # <<>> => \E p \in DOMAIN map : change2qj(p) = q /\ answers = map[p]
             /\ Segment_(q) # <<>> /\ (\E p \in DOMAIN map : change2qj(p) = q) => answers # <<>>
<1> DEFINE map == hash_uniq(log)
           text == [i \in 1 .. Len(questions) |-> map[questions[i]]]
           f == SubSeq(DaFile(log, questions), 1, n)
           loaded == [da |-> dic_map(questions), text |-> text]
           With(key) == {i \in 1 .. Len(questions) : change2qj(questions[i]) = key}
           keys == {change2qj(p) : p \in Range(questions)}
<1>1. DaFile(log, questions) =
        <<DaUnit("header", Len(questions)), DaUnit("da", dic_map(questions)),
          DaUnit("text", text), DaUnit("fileSize", 0)>>
  BY DEF DaFile
<1>2. /\ Len(questions) \in Nat /\ DOMAIN questions = 1 .. Len(questions)
      /\ \A i \in 1 .. Len(questions) : questions[i] \in DOMAIN map
      /\ \A p \in DOMAIN map :
           Segment_(change2qj(p)) # <<>> => \E i \in 1 .. Len(questions) : questions[i] = p
  BY QuestionsParts
<1>3. dic_map(questions) = [key \in keys |-> Max(With(key)) - 1]
  BY DEF dic_map
<1> HIDE DEF text, map
<1>4. LoadedDa(f) = loaded
  <2>1. n >= 3
    BY <1>1 DEF LoadIndex
  <2>2. f[2] = DaUnit("da", dic_map(questions)) /\ f[3] = DaUnit("text", text)
    BY <1>1, <2>1
  <2> HIDE DEF f, loaded
  <2>3. LoadedDa(f) = [da |-> dic_map(questions), text |-> text]
    BY <2>2 DEF LoadedDa, DaUnit
  <2> QED
    BY <2>3 DEF loaded
<1>5. DOMAIN text = 1 .. Len(questions) /\ Len(text) = Len(questions)
  BY <1>2 DEF text
<1>6. ASSUME NEW key \in keys
      PROVE  /\ dic_map(questions)[key] < Len(text)
             /\ \E p \in DOMAIN map :
                  change2qj(p) = key /\ text[dic_map(questions)[key] + 1] = map[p]
  <2> DEFINE I == With(key)
             at == Max(I)
  <2>1. I \in SUBSET (1 .. Len(questions)) /\ I # {}
    BY <1>2 DEF Range
  <2>2. dic_map(questions)[key] = at - 1
    BY <1>3
  <2>3. \A i \in I : i \in 1 .. Len(questions) /\ change2qj(questions[i]) = key
    OBVIOUS
  <2> HIDE DEF I
  <2>4. at \in I
    BY <1>2, <2>1, LastPlace
  <2> HIDE DEF at
  <2>5. dic_map(questions)[key] < Len(text) /\ dic_map(questions)[key] + 1 = at
    BY <1>2, <1>5, <2>2, <2>3, <2>4
  <2>6. text[at] = map[questions[at]]
    BY <2>3, <2>4 DEF text
  <2> QED
    BY <1>2, <2>3, <2>4, <2>5, <2>6
<1>7. DOMAIN dic_map(questions) = keys
  BY <1>3
<1>8. Segment_(q) # <<>> => Segment_(q) = q
  BY DEF Segment_
<1> SUFFICES LET answers == Lookup(loaded, q)
             IN  /\ answers # <<>> => \E p \in DOMAIN map : change2qj(p) = q /\ answers = map[p]
                 /\ Segment_(q) # <<>> /\ (\E p \in DOMAIN map : change2qj(p) = q)
                      => answers # <<>>
  BY <1>4 DEF map
<1>9. CASE Segment_(q) # <<>> /\ q \in keys
  <2>1. Lookup(loaded, q) = text[dic_map(questions)[q] + 1]
    <3>1. Segment_(q) = q
      BY <1>8, <1>9
    <3> HIDE DEF loaded, keys
    <3>2. loaded.da = dic_map(questions) /\ loaded.text = text
      BY DEF loaded
    <3> QED
      BY <1>6, <1>7, <1>9, <3>1, <3>2 DEF Lookup
  <2>2. PICK p \in DOMAIN map : change2qj(p) = q /\ text[dic_map(questions)[q] + 1] = map[p]
    <3> HIDE DEF keys
    <3> QED BY <1>6, <1>9
  <2>3. map[p] # <<>>
    BY AnsweredOnce DEF map
  <2> HIDE DEF loaded
  <2> QED
    BY <2>1, <2>2, <2>3
<1>10. CASE ~(Segment_(q) # <<>> /\ q \in keys)
  <2>1. Lookup(loaded, q) = <<>>
    <3>1. loaded.da = dic_map(questions)
      OBVIOUS
    <3> HIDE DEF loaded, keys
    <3> QED
      BY <1>7, <1>8, <1>10, <3>1 DEF Lookup
  <2>2. ASSUME Segment_(q) # <<>>, NEW p \in DOMAIN map, change2qj(p) = q
        PROVE  FALSE
    <3>1. PICK i \in 1 .. Len(questions) : questions[i] = p
      BY <1>2, <2>2
    <3>2. p \in Range(questions)
      BY <1>2, <3>1 DEF Range
    <3> QED
      BY <1>10, <2>2, <3>2
  <2> HIDE DEF loaded
  <2> QED
    BY <2>1, <2>2
<1> QED
  BY <1>9, <1>10

-----------------------------------------------------------------------------
(* The edit distance.                                                      *)

(* The table that edit fills: the cells exist, and each is what the loops    *)
(* put there.                                                              *)
CellOf(s, t, cell, i, j) ==
  Less(Less(cell[<<i, j - 1>>] + 1, cell[<<i - 1, j>>] + 1),
       cell[<<i - 1, j - 1>>] + IF s[i] = t[j] THEN 0 ELSE 1)

(* A row from the row above it.                                            *)
RowOf(s, t, i, above, row) ==
  /\ row \in [0 .. Len(t) -> Nat]
  /\ row[0] = i
  /\ \A j \in 1 .. Len(t) :
       row[j] = Less(Less(row[j - 1] + 1, above[j] + 1),
                     above[j - 1] + IF s[i] = t[j] THEN 0 ELSE 1)

(* The smaller of two numbers is one of them.                              *)
LEMMA LessType ==
  ASSUME NEW i \in Nat, NEW j \in Nat
  PROVE  Less(i, j) \in Nat /\ Less(i, j) <= i /\ Less(i, j) <= j /\ Less(i, j) \in {i, j}
  BY DEF Less

(* From left to right there is a value for every cell of a row.            *)
LEMMA RowExists ==
  ASSUME NEW V, NEW s \in Seq(V), NEW t \in Seq(V), NEW i \in Nat,
         NEW above \in [0 .. Len(t) -> Nat]
  PROVE  \E row : RowOf(s, t, i, above, row)
<1> DEFINE N == Len(t)
           d(j) == IF s[i] = t[j] THEN 0 ELSE 1
           next(j, x) == Less(Less(x + 1, above[j] + 1), above[j - 1] + d(j))
           step == [p \in (1 .. N) \X Nat |-> next(p[1], p[2])]
<1>1. N \in Nat
  OBVIOUS
<1>2. ASSUME NEW j \in 1 .. N, NEW x \in Nat
      PROVE  next(j, x) \in Nat
  <2>1. above[j] + 1 \in Nat /\ above[j - 1] \in Nat /\ x + 1 \in Nat
    <3>1. j \in 0 .. N /\ j - 1 \in 0 .. N
      BY <1>1
    <3> HIDE DEF N
    <3>2. above \in [0 .. N -> Nat]
      BY DEF N
    <3>3. above[j] \in Nat /\ above[j - 1] \in Nat
      BY ONLY <3>1, <3>2
    <3> QED
      BY <3>3
  <2>2. Less(x + 1, above[j] + 1) \in Nat
    BY <2>1, LessType
  <2>3. d(j) \in Nat
    OBVIOUS
  <2>4. above[j - 1] + d(j) \in Nat
    <3> HIDE DEF d
    <3> QED BY <2>1, <2>3
  <2> HIDE DEF d
  <2> QED
    BY <2>2, <2>4, LessType
<1>3. step \in [(1 .. N) \X Nat -> Nat]
  <2>1. \A p \in (1 .. N) \X Nat : p[1] \in 1 .. N /\ p[2] \in Nat
    OBVIOUS
  <2> HIDE DEF next, N
  <2> QED
    BY <1>2, <2>1
<1>4. \E f : Recursion(f, N, Nat, i, step)
  <2> HIDE DEF step, N
  <2> QED BY <1>1, <1>3, RecursionExists
<1>5. PICK f : Recursion(f, N, Nat, i, step)
  BY <1>4
<1>6. f \in [0 .. N -> Nat] /\ f[0] = i /\ \A j \in 1 .. N : f[j] = step[<<j, f[j - 1]>>]
  <2> HIDE DEF step, N
  <2> QED BY <1>5 DEF Recursion
<1>7. ASSUME NEW j \in 1 .. N
      PROVE  f[j] = next(j, f[j - 1])
  <2>1. j - 1 \in 0 .. N
    BY <1>1
  <2>2. f[j - 1] \in Nat /\ <<j, f[j - 1]>> \in (1 .. N) \X Nat
    <3> HIDE DEF N, step
    <3> QED BY <1>6, <2>1
  <2>3. step[<<j, f[j - 1]>>] = next(j, f[j - 1])
    <3> HIDE DEF next
    <3> QED BY <2>2
  <2> QED
    BY <1>6, <2>3
<1>8. RowOf(s, t, i, above, f)
  BY <1>6, <1>7 DEF RowOf
<1> QED
  BY <1>8

(* So there is one for every cell of the table, and Cells is the table of  *)
(* these values.                                                           *)
LEMMA CellsParts ==
  ASSUME NEW V, NEW s \in Seq(V), NEW t \in Seq(V)
  PROVE  /\ \A i \in 0 .. Len(s), j \in 0 .. Len(t) : Cells(s, t)[<<i, j>>] \in Nat
         /\ \A j \in 0 .. Len(t) : Cells(s, t)[<<0, j>>] = j
         /\ \A i \in 0 .. Len(s) : Cells(s, t)[<<i, 0>>] = i
         /\ \A i \in 1 .. Len(s), j \in 1 .. Len(t) :
              Cells(s, t)[<<i, j>>] = CellOf(s, t, Cells(s, t), i, j)
<1> DEFINE M == Len(s)
           N == Len(t)
           T == [0 .. N -> Nat]
           D == (0 .. M) \X (0 .. N)
           first == [j \in 0 .. N |-> j]
           Below(i, above) == CHOOSE row : RowOf(s, t, i, above, row)
           step == [p \in (1 .. M) \X T |-> Below(p[1], p[2])]
           Value(c, i, j) == IF i = 0 THEN j
                             ELSE IF j = 0 THEN i
                             ELSE CellOf(s, t, c, i, j)
           Fits(c) == c = [p \in D |-> Value(c, p[1], p[2])]
           Right(c) == /\ \A i \in 0 .. M, j \in 0 .. N : c[<<i, j>>] \in Nat
                       /\ c = [p \in D |-> c[p]]
                       /\ \A j \in 0 .. N : c[<<0, j>>] = j
                       /\ \A i \in 0 .. M : c[<<i, 0>>] = i
                       /\ \A i \in 1 .. M, j \in 1 .. N : c[<<i, j>>] = CellOf(s, t, c, i, j)
<1>1. M \in Nat /\ N \in Nat
  OBVIOUS
<1>2. \A i \in 1 .. M, above \in T :
        Below(i, above) \in T /\ RowOf(s, t, i, above, Below(i, above))
  <2> SUFFICES ASSUME NEW i \in 1 .. M, NEW above \in T
               PROVE  Below(i, above) \in T /\ RowOf(s, t, i, above, Below(i, above))
    OBVIOUS
  <2>1. i \in Nat
    BY <1>1
  <2>2. \E row : RowOf(s, t, i, above, row)
    BY <2>1, RowExists
  <2>3. RowOf(s, t, i, above, Below(i, above))
    BY <2>2
  <2> HIDE DEF Below
  <2> QED
    BY <2>3 DEF RowOf
<1>3. step \in [(1 .. M) \X T -> T] /\ first \in T
  <2>1. \A p \in (1 .. M) \X T : p[1] \in 1 .. M /\ p[2] \in T
    OBVIOUS
  <2>2. first \in T
    OBVIOUS
  <2> HIDE DEF Below, T, M
  <2> QED
    BY <1>2, <2>1, <2>2
<1>4. \E f : Recursion(f, M, T, first, step)
  <2> HIDE DEF step, first, T, M
  <2> QED BY <1>1, <1>3, RecursionExists
<1>5. PICK f : Recursion(f, M, T, first, step)
  BY <1>4
<1>6. f \in [0 .. M -> T] /\ f[0] = first /\ \A i \in 1 .. M : f[i] = step[<<i, f[i - 1]>>]
  <2> HIDE DEF step, first, T, M
  <2> QED BY <1>5 DEF Recursion
<1>7. ASSUME NEW i \in 1 .. M
      PROVE  RowOf(s, t, i, f[i - 1], f[i])
  <2>1. i - 1 \in 0 .. M
    BY <1>1
  <2>2. f[i - 1] \in T /\ <<i, f[i - 1]>> \in (1 .. M) \X T
    <3> HIDE DEF T, M
    <3> QED BY <1>6, <2>1
  <2>3. f[i] = Below(i, f[i - 1])
    <3> HIDE DEF Below, T, M
    <3> QED BY <1>6, <2>2
  <2> HIDE DEF Below, T, M
  <2> QED
    BY <1>2, <2>2, <2>3
<1> DEFINE c == [p \in D |-> f[p[1]][p[2]]]
<1>8. \A i \in 0 .. M, j \in 0 .. N : c[<<i, j>>] = f[i][j] /\ f[i][j] \in Nat
  <2> SUFFICES ASSUME NEW i \in 0 .. M, NEW j \in 0 .. N
               PROVE  c[<<i, j>>] = f[i][j] /\ f[i][j] \in Nat
    OBVIOUS
  <2>1. f[i] \in T
    <3> HIDE DEF T, M
    <3> QED BY <1>6
  <2> QED
    BY <2>1
<1>9. Right(c)
  <2>1. \A i \in 0 .. M, j \in 0 .. N : c[<<i, j>>] \in Nat
    <3> HIDE DEF c
    <3> QED BY <1>8
  <2>2. \A j \in 0 .. N : c[<<0, j>>] = j
    <3>1. 0 \in 0 .. M /\ \A j \in 0 .. N : f[0][j] = j
      BY <1>1, <1>6
    <3> HIDE DEF c
    <3> QED
      BY <1>8, <3>1
  <2>3. \A i \in 0 .. M : c[<<i, 0>>] = i
    <3> SUFFICES ASSUME NEW i \in 0 .. M PROVE f[i][0] = i
      <4>1. 0 \in 0 .. N
        BY <1>1
      <4> HIDE DEF c
      <4> QED BY <1>8, <4>1
    <3>1. CASE i = 0
      BY <1>1, <1>6, <3>1
    <3>2. CASE i # 0
      <4>1. i \in 1 .. M
        BY <1>1, <3>2
      <4> QED
        BY <1>7, <4>1 DEF RowOf
    <3> QED
      BY <3>1, <3>2
  <2>4. ASSUME NEW i \in 1 .. M, NEW j \in 1 .. N
        PROVE  c[<<i, j>>] = CellOf(s, t, c, i, j)
    <3>1. /\ i \in 0 .. M /\ i - 1 \in 0 .. M /\ j \in 0 .. N /\ j - 1 \in 0 .. N
      BY <1>1
    <3>2. /\ c[<<i, j>>] = f[i][j] /\ c[<<i - 1, j>>] = f[i - 1][j]
          /\ c[<<i, j - 1>>] = f[i][j - 1] /\ c[<<i - 1, j - 1>>] = f[i - 1][j - 1]
      <4> HIDE DEF c
      <4> QED BY <1>8, <3>1
    <3>3. f[i][j] = Less(Less(f[i][j - 1] + 1, f[i - 1][j] + 1),
                         f[i - 1][j - 1] + IF s[i] = t[j] THEN 0 ELSE 1)
      BY <1>7 DEF RowOf
    <3> HIDE DEF c
    <3> QED
      BY <3>2, <3>3 DEF CellOf
  <2>5. c = [p \in D |-> c[p]]
    OBVIOUS
  <2> HIDE DEF c
  <2> QED
    BY <2>1, <2>2, <2>3, <2>4, <2>5
<1>10. \A x : Right(x) => Fits(x)
  <2> SUFFICES ASSUME NEW x, Right(x) PROVE Fits(x)
    OBVIOUS
  <2>1. ASSUME NEW i \in 0 .. M, NEW j \in 0 .. N
        PROVE  x[<<i, j>>] = Value(x, i, j)
    <3>1. i # 0 => i \in 1 .. M
      BY <1>1
    <3>2. j # 0 => j \in 1 .. N
      BY <1>1
    <3> QED
      BY <3>1, <3>2
  <2>2. \A p \in D : x[p] = Value(x, p[1], p[2])
    <3> HIDE DEF Value
    <3>1. \A p \in D : p[1] \in 0 .. M /\ p[2] \in 0 .. N /\ p = <<p[1], p[2]>>
      OBVIOUS
    <3> HIDE DEF D
    <3> QED BY <2>1, <3>1
  <2> QED
    BY <2>2
<1>11. Fits(Cells(s, t))
  <2>1. Cells(s, t) = CHOOSE x : Fits(x)
    BY DEF Cells, CellOf
  <2>2. \E x : Fits(x)
    <3> HIDE DEF Fits, Right, c
    <3> QED BY <1>9, <1>10
  <2> HIDE DEF Fits
  <2> QED
    BY <2>1, <2>2
<1> DEFINE cells == Cells(s, t)
<1>12. \A i \in 0 .. M, j \in 0 .. N : cells[<<i, j>>] = Value(cells, i, j)
  <2> HIDE DEF cells, Value
  <2>1. \A p \in D : cells[p] = Value(cells, p[1], p[2])
    BY <1>11 DEF cells
  <2> QED
    BY <2>1
<1> HIDE DEF cells
<1>13. /\ \A j \in 0 .. N : cells[<<0, j>>] = j
       /\ \A i \in 0 .. M : cells[<<i, 0>>] = i
       /\ \A i \in 1 .. M, j \in 1 .. N : cells[<<i, j>>] = CellOf(s, t, cells, i, j)
  <2>1. 0 \in 0 .. M /\ 0 \in 0 .. N
    BY <1>1
  <2>2. \A i \in 1 .. M : i \in 0 .. M /\ i # 0
    BY <1>1
  <2>3. \A j \in 1 .. N : j \in 0 .. N /\ j # 0
    BY <1>1
  <2> HIDE DEF M, N
  <2> QED
    BY <1>12, <2>1, <2>2, <2>3
<1> DEFINE S == {i \in 0 .. M : \A j \in 0 .. N : cells[<<i, j>>] \in Nat}
<1>14. 0 \in S
  BY <1>1, <1>13
<1>15. ASSUME NEW i \in 0 .. M - 1, i \in S
       PROVE  i + 1 \in S
  <2> DEFINE Q == {j \in 0 .. N : cells[<<i + 1, j>>] \in Nat}
  <2>1. i + 1 \in 1 .. M /\ i + 1 \in 0 .. M /\ i \in 0 .. M /\ (i + 1) - 1 = i
    BY <1>1
  <2>2. 0 \in Q
    BY <1>1, <1>13, <2>1
  <2>3. ASSUME NEW j \in 0 .. N - 1, j \in Q
        PROVE  j + 1 \in Q
    <3>1. j + 1 \in 1 .. N /\ j + 1 \in 0 .. N /\ (j + 1) - 1 = j
      BY <1>1
    <3>2. cells[<<i + 1, j + 1>>] =
            Less(Less(cells[<<i + 1, j>>] + 1, cells[<<i, j + 1>>] + 1),
                 cells[<<i, j>>] + IF s[i + 1] = t[j + 1] THEN 0 ELSE 1)
      BY <1>13, <2>1, <3>1 DEF CellOf
    <3>3. /\ cells[<<i + 1, j>>] \in Nat /\ cells[<<i, j + 1>>] \in Nat /\ cells[<<i, j>>] \in Nat
      BY <1>1, <1>15, <2>3, <3>1
    <3> HIDE DEF Q
    <3>4. cells[<<i + 1, j + 1>>] \in Nat
      <4> DEFINE a == cells[<<i + 1, j>>]
                 b == cells[<<i, j + 1>>]
                 z == cells[<<i, j>>]
                 d == IF s[i + 1] = t[j + 1] THEN 0 ELSE 1
      <4>1. cells[<<i + 1, j + 1>>] = Less(Less(a + 1, b + 1), z + d)
        BY <3>2
      <4>2. a \in Nat /\ b \in Nat /\ z \in Nat /\ d \in Nat
        BY <3>3
      <4> HIDE DEF a, b, z, d
      <4> QED
        BY ONLY <4>1, <4>2 DEF Less
    <3> QED
      BY <3>1, <3>4 DEF Q
  <2>4. \A j \in 0 .. N : j \in Q
    <3> HIDE DEF Q
    <3>1. /\ N \in Int /\ 0 \in Int /\ (0 <= N => 0 \in Q)
          /\ \A j \in 0 .. N - 1 : j \in Q => j + 1 \in Q
      BY <1>1, <2>2, <2>3
    <3> QED
      BY <3>1, Induction
  <2> QED
    BY <2>1, <2>4
<1>16. \A i \in 0 .. M : i \in S
  <2> HIDE DEF S
  <2>1. /\ M \in Int /\ 0 \in Int /\ (0 <= M => 0 \in S)
        /\ \A i \in 0 .. M - 1 : i \in S => i + 1 \in S
    BY <1>1, <1>14, <1>15
  <2> QED
    BY <2>1, Induction
<1> QED
  BY <1>13, <1>16 DEF cells

(* Nothing is to be edited where both texts are the same, and only there.   *)
LEMMA EditZero ==
  ASSUME NEW s \in Text, NEW t \in Text
  PROVE  edit(s, t) \in Nat /\ (edit(s, t) = 0 <=> s = t)
<1> DEFINE M == Len(s)
           N == Len(t)
           cells == Cells(s, t)
           Same(i, j) == i = j /\ \A k \in 1 .. i : s[k] = t[k]
           S == {i \in 0 .. M : \A j \in 0 .. N : cells[<<i, j>>] = 0 <=> Same(i, j)}
<1>1. M \in Nat /\ N \in Nat
  BY TextType
<1>2. /\ \A i \in 0 .. M, j \in 0 .. N : cells[<<i, j>>] \in Nat
      /\ \A j \in 0 .. N : cells[<<0, j>>] = j
      /\ \A i \in 0 .. M : cells[<<i, 0>>] = i
      /\ \A i \in 1 .. M, j \in 1 .. N : cells[<<i, j>>] = CellOf(s, t, cells, i, j)
  BY CellsParts DEF Text
<1> HIDE DEF cells
<1>3. 0 \in S
  BY <1>1, <1>2
<1>4. ASSUME NEW i \in 0 .. M - 1, i \in S
      PROVE  i + 1 \in S
  <2>1. i + 1 \in 1 .. M /\ i + 1 \in 0 .. M /\ i \in 0 .. M /\ (i + 1) - 1 = i
    BY <1>1
  <2>2. ASSUME NEW j \in 0 .. N
        PROVE  cells[<<i + 1, j>>] = 0 <=> Same(i + 1, j)
    <3>1. CASE j = 0
      BY <1>1, <1>2, <2>1, <3>1
    <3>2. CASE j # 0
      <4>1. j \in 1 .. N /\ j - 1 \in 0 .. N
        BY <1>1, <3>2
      <4>2. cells[<<i + 1, j>>] =
              Less(Less(cells[<<i + 1, j - 1>>] + 1, cells[<<i, j>>] + 1),
                   cells[<<i, j - 1>>] + IF s[i + 1] = t[j] THEN 0 ELSE 1)
        BY <1>2, <2>1, <4>1 DEF CellOf
      <4>3. /\ cells[<<i + 1, j - 1>>] \in Nat /\ cells[<<i, j>>] \in Nat
            /\ cells[<<i, j - 1>>] \in Nat
        BY <1>2, <2>1, <4>1
      <4>4. cells[<<i + 1, j>>] = 0 <=> cells[<<i, j - 1>>] = 0 /\ s[i + 1] = t[j]
        <5> DEFINE d == IF s[i + 1] = t[j] THEN 0 ELSE 1
        <5>2. d \in Nat /\ (d = 0 <=> s[i + 1] = t[j])
          OBVIOUS
        <5> DEFINE a == cells[<<i + 1, j - 1>>]
                   b == cells[<<i, j>>]
                   c == cells[<<i, j - 1>>]
        <5>3. cells[<<i + 1, j>>] = Less(Less(a + 1, b + 1), c + d)
          BY <4>2
        <5>4. a \in Nat /\ b \in Nat /\ c \in Nat
          BY <4>3
        <5> SUFFICES cells[<<i + 1, j>>] = 0 <=> c = 0 /\ d = 0
          BY <5>2
        <5> HIDE DEF a, b, c, d
        <5> QED
          BY ONLY <5>2, <5>3, <5>4 DEF Less
      <4>5. cells[<<i, j - 1>>] = 0 <=> Same(i, j - 1)
        BY <1>4, <4>1
      <4>6. Same(i, j - 1) /\ s[i + 1] = t[j] <=> Same(i + 1, j)
        <5>1. i = j - 1 <=> i + 1 = j
          BY <1>1
        <5>2. ASSUME i + 1 = j
              PROVE  (\A k \in 1 .. i : s[k] = t[k]) /\ s[i + 1] = t[j]
                       <=> \A k \in 1 .. i + 1 : s[k] = t[k]
          <6>1. 1 .. i + 1 = (1 .. i) \union {i + 1}
            BY <1>1
          <6> QED
            BY <5>2, <6>1
        <5> QED
          BY <5>1, <5>2
      <4> HIDE DEF Same
      <4> QED
        BY <4>4, <4>5, <4>6
    <3> QED
      BY <3>1, <3>2
  <2> HIDE DEF Same
  <2> QED
    BY <2>1, <2>2
<1>5. M \in S
  <2>1. \A i \in 0 .. M : i \in S
    <3> HIDE DEF S
    <3>1. /\ M \in Int /\ 0 \in Int /\ (0 <= M => 0 \in S)
          /\ \A i \in 0 .. M - 1 : i \in S => i + 1 \in S
      BY <1>1, <1>3, <1>4
    <3> QED
      BY <3>1, Induction
  <2>2. M \in 0 .. M
    BY <1>1
  <2> HIDE DEF S
  <2> QED
    BY <2>1, <2>2
<1>6. edit(s, t) = cells[<<M, N>>] /\ edit(s, t) \in Nat
  <2>1. M \in 0 .. M /\ N \in 0 .. N
    BY <1>1
  <2>2. edit(s, t) = cells[<<M, N>>]
    BY DEF edit, cells
  <2> QED
    BY <1>2, <2>1, <2>2
<1>7. cells[<<M, N>>] = 0 <=> Same(M, N)
  BY <1>1, <1>5
<1>8. Same(M, N) <=> s = t
  <2>1. s \in [1 .. M -> Words] /\ t \in [1 .. N -> Words]
    BY TextType
  <2>2. Same(M, N) => s = t
    BY <2>1
  <2> QED
    BY <2>2
<1> QED
  BY <1>6, <1>7, <1>8

(* The distance that EditSort sorts by: of texts with words that of edit,   *)
(* of others 0.                                                            *)
LEMMA CalculateType ==
  ASSUME NEW s \in Text, NEW t \in Text
  PROVE  /\ Calculate(s, t) \in Nat
         /\ Segment_(s) # <<>> /\ Segment_(t) # <<>> => Calculate(s, t) = edit(s, t)
<1>1. /\ Segment_(s) # <<>> => Segment_(s) = s
      /\ Segment_(t) # <<>> => Segment_(t) = t
  BY DEF Segment_
<1>2. edit(s, t) \in Nat
  BY EditZero
<1> QED
  BY <1>1, <1>2 DEF Calculate

(* Per distance, the candidates that have it.                              *)
LEMMA EditSortParts ==
  ASSUME NEW q \in Text, NEW docs \in Seq(Text)
  PROVE  /\ DOMAIN EditSort(q, docs) = {Calculate(q, docs[i]) : i \in 1 .. Len(docs)}
         /\ \A d \in DOMAIN EditSort(q, docs) :
              /\ EditSort(q, docs)[d] \in Seq(Text)
              /\ Range(EditSort(q, docs)[d]) =
                   {docs[i] : i \in {j \in 1 .. Len(docs) : Calculate(q, docs[j]) = d}}
<1> DEFINE distance == [i \in DOMAIN docs |-> Calculate(q, docs[i])]
           First(i) == \A j \in 1 .. i - 1 : docs[j] # docs[i]
           I(d) == {i \in DOMAIN docs : distance[i] = d /\ First(i)}
<1>1. Len(docs) \in Nat /\ DOMAIN docs = 1 .. Len(docs) /\ \A i \in 1 .. Len(docs) : docs[i] \in Text
  BY ListParts
<1>2. EditSort(q, docs) = [d \in Range(distance) |-> Pick(docs, I(d))]
  BY DEF EditSort
<1>3. Range(distance) = {Calculate(q, docs[i]) : i \in 1 .. Len(docs)}
  BY <1>1 DEF Range
<1>4. ASSUME NEW d
      PROVE  {docs[i] : i \in I(d)} = {docs[i] : i \in {j \in 1 .. Len(docs) : Calculate(q, docs[j]) = d}}
  <2>1. ASSUME NEW i \in 1 .. Len(docs), Calculate(q, docs[i]) = d
        PROVE  \E k \in I(d) : docs[k] = docs[i]
    <3> DEFINE K == {k \in 1 .. Len(docs) : docs[k] = docs[i]}
    <3>1. K \in SUBSET Nat /\ K # {}
      BY <1>1
    <3>2. PICK k \in K : \A j \in K : k <= j
      <4> HIDE DEF K
      <4> QED BY <3>1, LeastNatural
    <3>3. k \in 1 .. Len(docs) /\ docs[k] = docs[i] /\ distance[k] = d
      BY <1>1, <2>1
    <3>4. ASSUME NEW j \in 1 .. k - 1
          PROVE  docs[j] # docs[k]
      <4>1. j \in 1 .. Len(docs) /\ ~ (k <= j)
        BY <1>1, <3>3
      <4>2. j \notin K
        <5> HIDE DEF K
        <5> QED BY <3>2, <4>1
      <4> QED
        BY <3>3, <4>1, <4>2
    <3>5. k \in I(d)
      <4> HIDE DEF distance
      <4> QED BY <1>1, <3>3, <3>4
    <3> QED
      BY <3>3, <3>5
  <2>2. \A i \in I(d) : i \in 1 .. Len(docs) /\ Calculate(q, docs[i]) = d
    BY <1>1
  <2> HIDE DEF I
  <2> QED
    BY <2>1, <2>2
<1>5. ASSUME NEW d
      PROVE  Pick(docs, I(d)) \in Seq(Text) /\ Range(Pick(docs, I(d))) = {docs[i] : i \in I(d)}
  <2>1. I(d) \in SUBSET DOMAIN docs
    OBVIOUS
  <2> HIDE DEF I
  <2>2. /\ Pick(docs, I(d)) \in Seq(Text)
        /\ \A i \in I(d) : \E n \in 1 .. Len(Pick(docs, I(d))) : Pick(docs, I(d))[n] = docs[i]
        /\ \A n \in 1 .. Len(Pick(docs, I(d))) : \E i \in I(d) : Pick(docs, I(d))[n] = docs[i]
    BY <2>1, PickParts
  <2> DEFINE p == Pick(docs, I(d))
  <2> HIDE DEF p
  <2>3. DOMAIN p = 1 .. Len(p)
    BY <2>2, ListParts DEF p
  <2>4. Range(p) = {p[n] : n \in 1 .. Len(p)}
    BY <2>3 DEF Range
  <2>5. \A n \in 1 .. Len(p) : p[n] \in {docs[i] : i \in I(d)}
    BY <2>2 DEF p
  <2>6. \A i \in I(d) : docs[i] \in {p[n] : n \in 1 .. Len(p)}
    BY <2>2 DEF p
  <2>7. Range(p) = {docs[i] : i \in I(d)}
    BY <2>4, <2>5, <2>6
  <2> QED
    BY <2>2, <2>7 DEF p
<1> HIDE DEF I, distance
<1> QED
  BY <1>2, <1>3, <1>4, <1>5

(* The difference of two lengths.                                          *)
Gap(q, s) ==
  IF Length(s) < Length(q) THEN Length(q) - Length(s) ELSE Length(s) - Length(q)

(* Nearest is one of the texts whose length is nearest to that of the query.*)
LEMMA NearestParts ==
  ASSUME NEW q \in Text, NEW docs \in Seq(Text), docs # <<>>
  PROVE  /\ Nearest(q, docs) \in Range(docs)
         /\ \A s \in Range(docs) : Gap(q, Nearest(q, docs)) <= Gap(q, s)
<1> DEFINE N == Len(docs)
           g == [i \in 1 .. N |-> Gap(q, docs[i])]
           First(i) == \A j \in 1 .. N : Gap(q, docs[i]) <= Gap(q, docs[j])
                                         /\ (j < i => Gap(q, docs[i]) < Gap(q, docs[j]))
           at == CHOOSE i \in 1 .. N : First(i)
<1>1. N \in Nat /\ N > 0 /\ DOMAIN docs = 1 .. N /\ \A i \in 1 .. N : docs[i] \in Text
  BY ListParts
<1>2. ASSUME NEW i \in 1 .. N
      PROVE  Gap(q, docs[i]) \in Nat
  <2>1. Length(q) \in Nat /\ Length(docs[i]) \in Nat
    BY <1>1, LengthType
  <2> QED
    BY <2>1 DEF Gap
<1>3. g \in [1 .. N -> Nat]
  BY <1>2
<1>4. \E i \in 1 .. N : \A j \in 1 .. N : g[i] <= g[j] /\ (j < i => g[i] < g[j])
  <2> HIDE DEF g, N
  <2> QED BY <1>1, <1>3, FirstLeast
<1>5. at \in 1 .. N /\ First(at)
  <2>1. \E i \in 1 .. N : First(i)
    BY <1>4
  <2> HIDE DEF First
  <2> QED
    BY <2>1
<1>6. Nearest(q, docs) = docs[at]
  BY DEF Nearest, Gap
<1> HIDE DEF at
<1> QED
  BY <1>1, <1>5, <1>6 DEF Range

(* What show_results shows: nothing if nothing is found or all is too far;  *)
(* otherwise a text of the least distance and of these the nearest in      *)
(* length.                                                                 *)
LEMMA ShownParts ==
  ASSUME NEW q \in Text, NEW docs \in Seq(Text)
  PROVE  \/ /\ Shown(q, docs) = NoText
            /\ \A i \in 1 .. Len(docs) : Calculate(q, docs[i]) > MaxDistance
         \/ \E d \in 0 .. MaxDistance :
              /\ Shown(q, docs) \in Range(docs) /\ Calculate(q, Shown(q, docs)) = d
              /\ \A i \in 1 .. Len(docs) :
                   /\ d <= Calculate(q, docs[i])
                   /\ Calculate(q, docs[i]) = d => Gap(q, Shown(q, docs)) <= Gap(q, docs[i])
<1> DEFINE sorted == EditSort(q, docs)
           D == {Calculate(q, docs[i]) : i \in 1 .. Len(docs)}
           d == Min(DOMAIN sorted)
<1>1. Len(docs) \in Nat /\ DOMAIN docs = 1 .. Len(docs) /\ \A i \in 1 .. Len(docs) : docs[i] \in Text
  BY ListParts
<1>2. CASE docs = <<>>
  BY <1>2 DEF Shown
<1>3. CASE docs # <<>>
  <2>1. D \in SUBSET Nat /\ D # {} /\ DOMAIN sorted = D
    <3>1. 1 \in 1 .. Len(docs)
      BY <1>1, <1>3
    <3>2. \A i \in 1 .. Len(docs) : Calculate(q, docs[i]) \in Nat
      BY <1>1, CalculateType
    <3>3. DOMAIN sorted = D
      BY EditSortParts
    <3> QED
      BY <3>1, <3>2, <3>3
  <2>2. d \in D /\ \A e \in D : d <= e
    <3> HIDE DEF D, sorted
    <3>1. \E e \in D : \A f \in D : e <= f
      BY <2>1, LeastNatural
    <3> QED
      BY <2>1, <3>1 DEF Min
  <2>3. Shown(q, docs) = IF d > MaxDistance THEN NoText ELSE Nearest(q, sorted[d])
    BY <1>3 DEF Shown
  <2>4. d \in Nat /\ \A i \in 1 .. Len(docs) : d <= Calculate(q, docs[i]) /\ Calculate(q, docs[i]) \in Nat
    <3> HIDE DEF d
    <3> QED BY <2>1, <2>2
  <2>5. MaxDistance \in Nat
    BY DialogueAssumption
  <2>6. CASE d > MaxDistance
    <3> HIDE DEF d
    <3> QED BY <2>3, <2>4, <2>5, <2>6
  <2>7. CASE ~(d > MaxDistance)
    <3>1. /\ sorted[d] \in Seq(Text)
          /\ Range(sorted[d]) = {docs[i] : i \in {j \in 1 .. Len(docs) : Calculate(q, docs[j]) = d}}
      <4>1. d \in DOMAIN sorted
        BY <2>1, <2>2
      <4> HIDE DEF d
      <4> QED
        BY <4>1, EditSortParts
    <3> HIDE DEF sorted, d
    <3>2. \E i \in 1 .. Len(docs) : Calculate(q, docs[i]) = d
      BY <2>2
    <3>3. sorted[d] # <<>>
      BY <3>1, <3>2 DEF Range
    <3>4. /\ Nearest(q, sorted[d]) \in Range(sorted[d])
          /\ \A s \in Range(sorted[d]) : Gap(q, Nearest(q, sorted[d])) <= Gap(q, s)
      BY <3>1, <3>3, NearestParts
    <3>5. Shown(q, docs) = Nearest(q, sorted[d])
      BY <2>3, <2>7
    <3>6. Shown(q, docs) \in Range(docs) /\ Calculate(q, Shown(q, docs)) = d
      BY <1>1, <3>1, <3>4, <3>5 DEF Range
    <3>7. \A i \in 1 .. Len(docs) :
            Calculate(q, docs[i]) = d => Gap(q, Shown(q, docs)) <= Gap(q, docs[i])
      BY <3>1, <3>4, <3>5
    <3>8. d \in 0 .. MaxDistance
      BY <2>4, <2>5, <2>7
    <3> QED
      BY <2>4, <3>6, <3>7, <3>8
  <2> QED
    BY <2>6, <2>7
<1> QED
  BY <1>2, <1>3

-----------------------------------------------------------------------------
(* The table: its sort.                                                    *)

Node == [offset : Nat, begin : Nat, end : Nat]

(* The words of a bucket come one after the other in their order.          *)
InOrder(words, v) ==
  /\ v \in Seq(Node)
  /\ \A n \in 1 .. Len(v) : words[v[n].offset] \in Int
  /\ \A m, n \in 1 .. Len(v) : m < n => words[v[m].offset] < words[v[n].offset]

(* A pass over such a bucket ends before the key.                          *)
LEMMA PassInOrder ==
  ASSUME NEW words, NEW v, InOrder(words, v), NEW left \in 1 .. Len(v), NEW right \in 1 .. Len(v),
         left + 1 < right
  PROVE  /\ Pass(words, left, [v |-> v, left |-> left + 1, right |-> right])
              = [v |-> v, left |-> left + 1, right |-> left]
         /\ Pass(words, left, [v |-> v, left |-> left + 1, right |-> left])
              = [v |-> v, left |-> left + 1, right |-> left]
<1> DEFINE s == [v |-> v, left |-> left + 1, right |-> right]
           W(i) == words[v[i].offset]
           IsL(i) == /\ i = right \/ W(i) >= W(left)
                     /\ \A k \in left + 1 .. i - 1 : W(k) < W(left)
           l == CHOOSE i \in left + 1 .. right : IsL(i)
           IsR(a, i) == /\ i = a - 1 \/ i = left \/ W(i) < W(left)
                        /\ \A k \in i + 1 .. right : W(k) >= W(left)
           r == CHOOSE i \in l - 1 .. right : IsR(l, i)
<1>1. /\ Len(v) \in Nat
      /\ \A n \in 1 .. Len(v) : W(n) \in Int
      /\ \A m, n \in 1 .. Len(v) : m < n => W(m) < W(n)
  BY DEF InOrder
<1> HIDE DEF W
<1>2. l = left + 1
  <2>1. left + 1 \in left + 1 .. right /\ left + 1 \in 1 .. Len(v) /\ W(left + 1) >= W(left)
    <3>1. left + 1 \in left + 1 .. right /\ left + 1 \in 1 .. Len(v) /\ left < left + 1
      BY <1>1
    <3>2. W(left) < W(left + 1) /\ W(left) \in Int /\ W(left + 1) \in Int
      BY <1>1, <3>1
    <3> QED
      BY <3>1, <3>2
  <2>2. IsL(left + 1)
    BY <2>1
  <2>3. ASSUME NEW i \in left + 1 .. right, IsL(i)
        PROVE  i = left + 1
    <3>1. W(left) \in Int /\ W(left + 1) \in Int
      BY <1>1, <2>1
    <3>2. ~(W(left + 1) < W(left))
      BY <2>1, <3>1
    <3>3. left + 1 \notin left + 1 .. i - 1
      BY <2>3, <3>2
    <3> QED
      BY <3>3
  <2> HIDE DEF IsL
  <2> QED
    BY <2>1, <2>2, <2>3
<1>3. r = left
  <2>1. ASSUME NEW k \in left + 1 .. right
        PROVE  W(k) >= W(left) /\ ~(W(k) < W(left))
    <3>1. k \in 1 .. Len(v) /\ left < k
      BY <1>1
    <3>2. W(left) < W(k) /\ W(left) \in Int /\ W(k) \in Int
      BY <1>1, <3>1
    <3> QED
      BY <3>2
  <2>2. left \in (left + 1) - 1 .. right /\ IsR(left + 1, left)
    BY <2>1
  <2>3. ASSUME NEW i \in (left + 1) - 1 .. right, IsR(left + 1, i)
        PROVE  i = left
    BY <2>1, <2>3
  <2> HIDE DEF IsR, l
  <2> QED
    BY <1>2, <2>2, <2>3
<1>4. Pass(words, left, s) = IF left + 1 >= right THEN s
                             ELSE IF l < r THEN [v |-> Wap(v, l, r), left |-> l + 1, right |-> r - 1]
                             ELSE [v |-> s.v, left |-> l, right |-> r]
  BY DEF Pass, W
<1>5. Pass(words, left, s) = [v |-> v, left |-> left + 1, right |-> left]
  <2> HIDE DEF l, r
  <2>1. ~(left + 1 >= right) /\ ~(l < r)
    BY <1>2, <1>3
  <2> QED
    BY <1>2, <1>3, <1>4, <2>1
<1>6. Pass(words, left, [v |-> v, left |-> left + 1, right |-> left])
        = [v |-> v, left |-> left + 1, right |-> left]
  <2>1. left + 1 >= left
    OBVIOUS
  <2> QED
    BY <2>1 DEF Pass
<1> QED
  BY <1>5, <1>6

(* So the two indexes of a partition meet after this one pass.             *)
LEMMA MeetInOrder ==
  ASSUME NEW words, NEW v, InOrder(words, v), NEW left \in 1 .. Len(v), NEW right \in 1 .. Len(v),
         left + 1 < right
  PROVE  Meet(words, v, left, left + 1, right) = [v |-> v, left |-> left + 1, right |-> left]
<1> DEFINE N == Len(v)
           s0 == [v |-> v, left |-> left + 1, right |-> right]
           s1 == [v |-> v, left |-> left + 1, right |-> left]
           Fits(f) == f = [n \in 0 .. N |-> IF n = 0 THEN s0 ELSE Pass(words, left, f[n - 1])]
           pass == CHOOSE f : Fits(f)
           g == [n \in 0 .. N |-> IF n = 0 THEN s0 ELSE s1]
<1>1. N \in Nat /\ N > 0
  BY DEF InOrder
<1>2. Pass(words, left, s0) = s1 /\ Pass(words, left, s1) = s1
  BY PassInOrder
<1>3. Meet(words, v, left, left + 1, right) = pass[N]
  BY DEF Meet
<1> HIDE DEF s0, s1
<1>4. Fits(g)
  <2> SUFFICES ASSUME NEW n \in 0 .. N, n # 0 PROVE s1 = Pass(words, left, g[n - 1])
    OBVIOUS
  <2>1. n - 1 \in 0 .. N
    BY <1>1
  <2> QED
    BY <1>2, <2>1
<1>5. Fits(pass)
  <2> HIDE DEF Fits, g
  <2> QED BY <1>4
<1>6. \A n \in 0 .. N : pass[n] = IF n = 0 THEN s0 ELSE Pass(words, left, pass[n - 1])
  <2> HIDE DEF pass
  <2> QED BY <1>5
<1> HIDE DEF pass
<1> DEFINE S == {n \in Nat : pass[n] = s1}
<1>7. 1 \in S
  BY <1>1, <1>2, <1>6
<1>8. ASSUME NEW n \in 1 .. N - 1, n \in S
      PROVE  n + 1 \in S
  <2>1. n + 1 \in 0 .. N /\ n + 1 # 0 /\ (n + 1) - 1 = n
    BY <1>1
  <2> QED
    BY <1>2, <1>6, <1>8, <2>1
<1>9. \A n \in 1 .. N : n \in S
  <2> HIDE DEF S
  <2>1. N \in Int /\ 1 \in Int /\ (1 <= N => 1 \in S) /\ \A n \in 1 .. N - 1 : n \in S => n + 1 \in S
    BY <1>1, <1>7, <1>8
  <2> QED
    BY <2>1, Induction
<1> QED
  BY <1>1, <1>3, <1>9 DEF s1

(* Partition leaves such a bucket as it is.                                *)
LEMMA PartitionInOrder ==
  ASSUME NEW words, NEW v, InOrder(words, v), NEW left \in 1 .. Len(v), NEW right \in 1 .. Len(v),
         left < right
  PROVE  Partition(words, v, left, right)
           = [v |-> v, key |-> IF right = left + 1 THEN right ELSE left]
<1> DEFINE W(i) == words[v[i].offset]
<1>1. W(left) < W(right) /\ W(left) \in Int /\ W(right) \in Int
  BY DEF InOrder
<1>2. CASE right = left + 1
  <2>1. ~(W(left) > W(right))
    BY <1>1
  <2> QED
    BY <1>2, <2>1 DEF Partition
<1>3. CASE right # left + 1
  <2>1. left + 1 < right
    BY <1>3
  <2>2. Meet(words, v, left, left + 1, right) = [v |-> v, left |-> left + 1, right |-> left]
    BY <2>1, MeetInOrder
  <2> QED
    BY <1>3, <2>2 DEF Partition
<1> QED
  BY <1>2, <1>3

(* The sort changes nothing in a bucket whose words are in order.          *)
LEMMA QSortInOrder ==
  ASSUME NEW words, NEW v, InOrder(words, v)
  PROVE  QSort(words, v) = v
<1> DEFINE N == 2 * Len(v) + 1
           T == {[v |-> v, calls |-> c] : c \in Seq((1 .. Len(v) + 1) \X (0 .. Len(v)))}
           start == [v |-> v, calls |-> <<<<1, Len(v)>>>>]
           Fits(f) == f = [n \in 0 .. N |-> IF n = 0 THEN start ELSE Call(words, f[n - 1])]
           call == CHOOSE f : Fits(f)
           step == [p \in (1 .. N) \X T |-> Call(words, p[2])]
<1>1. Len(v) \in Nat /\ N \in Nat
  BY DEF InOrder
<1>2. QSort(words, v) = call[N].v
  BY DEF QSort
<1>3. start \in T
  <2>1. <<<<1, Len(v)>>>> \in Seq((1 .. Len(v) + 1) \X (0 .. Len(v)))
    BY <1>1
  <2> QED
    BY <2>1
<1>4. ASSUME NEW s \in T
      PROVE  Call(words, s) \in T
  <2> DEFINE C == (1 .. Len(v) + 1) \X (0 .. Len(v))
             left == Head(s.calls)[1]
             right == Head(s.calls)[2]
             p == Partition(words, s.v, left, right)
  <2>1. s = [v |-> v, calls |-> s.calls] /\ s.v = v /\ s.calls \in Seq(C)
    OBVIOUS
  <2>2. Call(words, s) =
          IF s.calls = <<>> THEN s
          ELSE IF left >= right THEN [s EXCEPT !.calls = Tail(@)]
          ELSE [v |-> p.v, calls |-> <<<<left, p.key - 1>>, <<p.key + 1, right>>>> \o Tail(s.calls)]
    BY DEF Call
  <2>3. CASE s.calls = <<>>
    BY <2>2, <2>3
  <2>4. CASE s.calls # <<>>
    <3>1. Tail(s.calls) \in Seq(C) /\ Head(s.calls) \in C
      <4> HIDE DEF C
      <4> QED BY <2>1, <2>4
    <3>2. left \in 1 .. Len(v) + 1 /\ right \in 0 .. Len(v)
      <4> HIDE DEF left, right
      <4> QED BY <3>1 DEF left, right
    <3>3. CASE left >= right
      <4>1. Call(words, s) = [v |-> v, calls |-> Tail(s.calls)]
        <5> HIDE DEF left, right, p
        <5> QED BY <2>1, <2>2, <2>4, <3>3
      <4> QED
        BY <3>1, <4>1
    <3>4. CASE ~(left >= right)
      <4>1. left \in 1 .. Len(v) /\ right \in 1 .. Len(v) /\ left < right
        <5> HIDE DEF left, right
        <5> QED BY <1>1, <3>2, <3>4
      <4>2. p.v = v /\ p.key \in {left, right}
        <5>1. Partition(words, v, left, right)
                = [v |-> v, key |-> IF right = left + 1 THEN right ELSE left]
          <6> HIDE DEF left, right
          <6> QED BY <4>1, PartitionInOrder
        <5> HIDE DEF left, right
        <5> QED
          BY <2>1, <5>1
      <4> HIDE DEF left, right, p
      <4>3. <<<<left, p.key - 1>>, <<p.key + 1, right>>>> \in Seq(C)
        BY <1>1, <4>1, <4>2
      <4>4. Call(words, s) =
              [v |-> v, calls |-> <<<<left, p.key - 1>>, <<p.key + 1, right>>>> \o Tail(s.calls)]
        BY <2>2, <2>4, <3>4, <4>2
      <4>5. <<<<left, p.key - 1>>, <<p.key + 1, right>>>> \o Tail(s.calls) \in Seq(C)
        <5> HIDE DEF C
        <5> QED BY <3>1, <4>3
      <4> QED
        BY <4>4, <4>5
    <3> QED
      BY <3>3, <3>4
  <2> QED
    BY <2>3, <2>4
<1>5. step \in [(1 .. N) \X T -> T]
  <2> HIDE DEF T, N
  <2> QED BY <1>4
<1>6. \E f : Recursion(f, N, T, start, step)
  <2> HIDE DEF step, T, N, start
  <2> QED BY <1>1, <1>3, <1>5, RecursionExists
<1>7. PICK f : Recursion(f, N, T, start, step)
  BY <1>6
<1>8. f \in [0 .. N -> T] /\ f[0] = start /\ \A n \in 1 .. N : f[n] = step[<<n, f[n - 1]>>]
  <2> HIDE DEF step, T, N, start
  <2> QED BY <1>7 DEF Recursion
<1>9. Fits(f)
  <2> HIDE DEF T, start
  <2>1. \A n \in 1 .. N : n - 1 \in 0 .. N
    BY <1>1
  <2>2. \A n \in 1 .. N : f[n] = Call(words, f[n - 1])
    <3> HIDE DEF N
    <3>1. \A n \in 1 .. N : f[n - 1] \in T /\ <<n, f[n - 1]>> \in (1 .. N) \X T
      BY <1>8, <2>1
    <3> QED
      BY <1>8, <3>1
  <2>3. \A n \in 0 .. N : n # 0 => n \in 1 .. N
    BY <1>1
  <2> HIDE DEF N, step
  <2> QED
    BY <1>8, <2>2, <2>3
<1>10. Fits(call)
  <2> HIDE DEF Fits
  <2> QED BY <1>9
<1>11. \A n \in 0 .. N : call[n] = IF n = 0 THEN start ELSE Call(words, call[n - 1])
  <2> HIDE DEF call
  <2> QED BY <1>10
<1> DEFINE S == {n \in Nat : call[n] \in T}
<1>12. \A n \in 0 .. N : n \in S
  <2> HIDE DEF call, T, start
  <2>1. 0 \in S
    BY <1>1, <1>3, <1>11
  <2>2. ASSUME NEW n \in 0 .. N - 1, n \in S
        PROVE  n + 1 \in S
    <3>1. n + 1 \in 0 .. N /\ n + 1 # 0 /\ (n + 1) - 1 = n
      BY <1>1
    <3> HIDE DEF N
    <3> QED
      BY <1>4, <1>11, <2>2, <3>1
  <2>3. /\ N \in Int /\ 0 \in Int /\ (0 <= N => 0 \in S)
        /\ \A n \in 0 .. N - 1 : n \in S => n + 1 \in S
    <3> HIDE DEF S
    <3> QED BY <1>1, <2>1, <2>2
  <2> HIDE DEF S, N
  <2> QED
    BY <2>3, Induction
<1>13. call[N] \in T
  <2>1. N \in 0 .. N
    BY <1>1
  <2> HIDE DEF N, T, call
  <2> QED
    BY <1>12, <2>1
<1> HIDE DEF N, call
<1> QED
  BY <1>2, <1>13

-----------------------------------------------------------------------------
(* The table: what it holds.                                               *)

(* A node of bucket i has one of the words K and the range of its list.     *)
NodeOf(words, inv, map, K, i, node) ==
  /\ node \in Node
  /\ node.offset \in 1 .. Len(words)
  /\ words[node.offset] \in K /\ Hash[words[node.offset]] = i
  /\ node.begin <= node.end /\ node.end <= Len(inv)
  /\ SubSeq(inv, node.begin + 1, node.end) = map[words[node.offset]]

(* The table has the words K and no others, each in its bucket, in order.   *)
Indexed(t, inv, map, K) ==
  /\ t \in [words : Seq(Words), data : [Buckets -> Seq(Node)]]
  /\ inv \in Seq(Nat)
  /\ \A i \in Buckets : \A n \in 1 .. Len(t.data[i]) :
       NodeOf(t.words, inv, map, K, i, t.data[i][n])
  /\ \A i \in Buckets : \A m, n \in 1 .. Len(t.data[i]) :
       m < n => t.words[t.data[i][m].offset] < t.words[t.data[i][n].offset]
  /\ \A w \in K : \E n \in 1 .. Len(t.data[Hash[w]]) :
       t.words[t.data[Hash[w]][n].offset] = w

(* A word behind all others is added.                                      *)
LEMMA AddKeyIndexed ==
  ASSUME NEW acc, NEW map, NEW K \in SUBSET Words, NEW w \in Words,
         \A x \in K : x < w, map[w] \in Seq(Nat),
         Indexed(acc.table, acc.inv, map, K)
  PROVE  Indexed(AddKey(acc, w, map[w]).table, AddKey(acc, w, map[w]).inv, map, K \union {w})
<1> DEFINE t == acc.table
           inv == acc.inv
           list == map[w]
           h == Hash[w]
           node == [offset |-> Len(t.words) + 1, begin |-> Len(inv), end |-> Len(inv) + Len(list)]
           words2 == Append(t.words, w)
           data2 == [t.data EXCEPT ![h] = Append(t.data[h], node)]
           inv2 == inv \o list
           K2 == K \union {w}
           M == Len(t.words)
<1>1. /\ t.words \in Seq(Words) /\ t.data \in [Buckets -> Seq(Node)] /\ inv \in Seq(Nat)
      /\ list \in Seq(Nat) /\ h \in Buckets /\ M \in Nat
      /\ Len(inv) \in Nat /\ Len(list) \in Nat
  BY DocIndexAssumption, ListParts DEF Indexed
<1>2. AddKey(acc, w, map[w]).table = [words |-> words2, data |-> data2]
      /\ AddKey(acc, w, map[w]).inv = inv2
  BY DEF AddKey, AddItem
<1>3. node \in Node /\ node.offset = M + 1 /\ node.begin = Len(inv) /\ node.end = Len(inv) + Len(list)
  <2>1. Len(t.words) + 1 \in Nat /\ Len(inv) \in Nat /\ Len(inv) + Len(list) \in Nat
    <3> HIDE DEF t, inv, list
    <3> QED BY <1>1
  <2> HIDE DEF t, inv, list
  <2> QED
    BY <2>1 DEF Node
<1>4. /\ words2 \in Seq(Words) /\ Len(words2) = M + 1 /\ words2[M + 1] = w
      /\ \A k \in 1 .. M : words2[k] = t.words[k]
  BY <1>1
<1>5. /\ inv2 \in Seq(Nat) /\ Len(inv2) = Len(inv) + Len(list)
      /\ SubSeq(inv2, Len(inv) + 1, Len(inv) + Len(list)) = list
      /\ \A i, j \in Nat : i <= j /\ j <= Len(inv) => SubSeq(inv2, i + 1, j) = SubSeq(inv, i + 1, j)
  <2> HIDE DEF inv, list
  <2> QED BY <1>1, SubSeqJoined, JoinParts
<1>6. ASSUME NEW i \in Buckets
      PROVE  /\ data2[i] \in Seq(Node) /\ t.data[i] \in Seq(Node) /\ Len(t.data[i]) \in Nat
             /\ Len(data2[i]) = IF i = h THEN Len(t.data[i]) + 1 ELSE Len(t.data[i])
             /\ \A n \in 1 .. Len(t.data[i]) : data2[i][n] = t.data[i][n]
             /\ i = h => data2[i][Len(t.data[i]) + 1] = node
  <2>1. t.data[i] \in Seq(Node) /\ data2[i] = IF i = h THEN Append(t.data[i], node) ELSE t.data[i]
    <3> HIDE DEF node
    <3> QED BY <1>1
  <2> HIDE DEF node, data2, t, h
  <2> QED
    BY <1>3, <2>1
<1>7. \A i \in Buckets : \A n \in 1 .. Len(t.data[i]) :
        /\ data2[i][n] = t.data[i][n]
        /\ NodeOf(t.words, inv, map, K, i, t.data[i][n])
        /\ words2[data2[i][n].offset] = t.words[t.data[i][n].offset]
        /\ t.words[t.data[i][n].offset] \in K
  <2> SUFFICES ASSUME NEW i \in Buckets, NEW n \in 1 .. Len(t.data[i])
               PROVE  /\ data2[i][n] = t.data[i][n]
                      /\ NodeOf(t.words, inv, map, K, i, t.data[i][n])
                      /\ words2[data2[i][n].offset] = t.words[t.data[i][n].offset]
                      /\ t.words[t.data[i][n].offset] \in K
    OBVIOUS
  <2>1. NodeOf(t.words, inv, map, K, i, t.data[i][n])
    BY DEF Indexed
  <2> DEFINE x == t.data[i][n]
  <2>2. data2[i][n] = x
    <3> HIDE DEF t, data2, h, node
    <3> QED BY <1>6
  <2>3. x.offset \in 1 .. M /\ t.words[x.offset] \in K
    <3> HIDE DEF inv, x
    <3> QED BY <2>1 DEF NodeOf, x
  <2>4. words2[x.offset] = t.words[x.offset]
    <3> HIDE DEF t, x, words2, M
    <3> QED BY <1>4, <2>3
  <2> HIDE DEF t, data2, inv, words2
  <2> QED
    BY <2>1, <2>2, <2>3, <2>4
<1>8. \A x \in K2 : x \in Int /\ (x # w => x \in K /\ x < w)
  BY WordsType
<1>9. ASSUME NEW i \in Buckets, NEW n \in 1 .. Len(data2[i])
      PROVE  n \in 1 .. Len(t.data[i]) \/ (i = h /\ n = Len(t.data[i]) + 1)
  <2> HIDE DEF data2, t, h
  <2> QED BY <1>6
<1>10. ASSUME NEW i \in Buckets, NEW n \in 1 .. Len(data2[i])
       PROVE  NodeOf(words2, inv2, map, K2, i, data2[i][n])
  <2>1. CASE n \in 1 .. Len(t.data[i])
    <3> DEFINE x == t.data[i][n]
    <3>1. NodeOf(t.words, inv, map, K, i, x) /\ words2[x.offset] = t.words[x.offset] /\ data2[i][n] = x
      <4> HIDE DEF t, inv, words2, data2
      <4> QED BY <1>7, <2>1
    <3>2. x.offset \in 1 .. M + 1
      <4> HIDE DEF x, words2, inv
      <4> QED BY <1>1, <3>1 DEF NodeOf
    <3>3. /\ x.end <= Len(inv2) /\ x.begin \in Nat /\ x.end \in Nat
          /\ SubSeq(inv2, x.begin + 1, x.end) = SubSeq(inv, x.begin + 1, x.end)
      <4> HIDE DEF x, words2, inv2, inv, list, t
      <4>1. x.begin \in Nat /\ x.end \in Nat /\ x.begin <= x.end /\ x.end <= Len(inv)
        BY <3>1 DEF NodeOf, Node
      <4>2. x.end <= Len(inv2)
        BY <1>1, <1>5, <4>1
      <4>3. SubSeq(inv2, x.begin + 1, x.end) = SubSeq(inv, x.begin + 1, x.end)
        BY <1>5, <4>1
      <4> QED
        BY <4>1, <4>2, <4>3
    <3> HIDE DEF x, words2, inv2, inv, data2, K2, M
    <3> QED
      BY <1>4, <3>1, <3>2, <3>3 DEF NodeOf, K2
  <2>2. CASE i = h /\ n = Len(t.data[i]) + 1
    <3>1. data2[i][n] = node
      <4> HIDE DEF data2, t, h, node
      <4> QED BY <1>6, <2>2
    <3>2. NodeOf(words2, inv2, map, K2, i, node)
      <4>1. node.begin <= node.end /\ node.end <= Len(inv2)
        <5> HIDE DEF node, inv2, inv, list
        <5> QED BY <1>1, <1>3, <1>5
      <4>2. words2[node.offset] = w /\ node.offset \in 1 .. Len(words2)
        <5> HIDE DEF node, words2, t
        <5> QED BY <1>1, <1>3, <1>4
      <4>3. SubSeq(inv2, node.begin + 1, node.end) = map[w]
        <5> HIDE DEF node, inv2, inv
        <5> QED BY <1>3, <1>5
      <4>4. w \in K2 /\ Hash[w] = i
        BY <2>2
      <4> HIDE DEF node, words2, inv2, K2
      <4> QED
        BY <1>3, <4>1, <4>2, <4>3, <4>4 DEF NodeOf
    <3> QED
      BY <3>1, <3>2
  <2> QED
    BY <1>9, <2>1, <2>2
<1>11. ASSUME NEW i \in Buckets, NEW m \in 1 .. Len(data2[i]), NEW n \in 1 .. Len(data2[i]), m < n
       PROVE  words2[data2[i][m].offset] < words2[data2[i][n].offset]
  <2>0. Len(t.data[i]) \in Nat
    <3> HIDE DEF data2, t
    <3> QED BY <1>6
  <2>1. m \in 1 .. Len(t.data[i])
    <3>1. ~(m = Len(t.data[i]) + 1)
      <4>1. n \in Nat /\ n <= Len(t.data[i]) + 1
        <5> HIDE DEF data2, t, h
        <5> QED BY <1>9, <2>0
      <4> HIDE DEF data2, t
      <4> QED
        BY <1>11, <2>0, <4>1
    <3> HIDE DEF data2, t
    <3> QED
      BY <1>9, <3>1
  <2>2. words2[data2[i][m].offset] = t.words[t.data[i][m].offset] /\ t.words[t.data[i][m].offset] \in K
    <3> HIDE DEF data2, t, words2, inv
    <3> QED BY <1>7, <2>1
  <2>3. CASE n \in 1 .. Len(t.data[i])
    <3>1. words2[data2[i][n].offset] = t.words[t.data[i][n].offset]
      <4> HIDE DEF data2, t, words2, inv
      <4> QED BY <1>7, <2>3
    <3>2. t.words[t.data[i][m].offset] < t.words[t.data[i][n].offset]
      BY <1>11, <2>1, <2>3 DEF Indexed
    <3> QED
      BY <2>2, <3>1, <3>2
  <2>4. CASE i = h /\ n = Len(t.data[i]) + 1
    <3>1. words2[data2[i][n].offset] = w
      <4>1. data2[i][n] = node
        <5> HIDE DEF data2, t, h, node
        <5> QED BY <1>6, <2>4
      <4> HIDE DEF data2, node, words2
      <4> QED
        BY <1>3, <1>4, <4>1
    <3> HIDE DEF data2, words2, t
    <3> QED
      BY <2>2, <3>1
  <2> HIDE DEF data2, words2, t, h
  <2> QED
    BY <1>9, <2>3, <2>4
<1>12. ASSUME NEW x \in K2
       PROVE  \E n \in 1 .. Len(data2[Hash[x]]) : words2[data2[Hash[x]][n].offset] = x
  <2>1. CASE x = w
    <3>1. h \in Buckets /\ Len(data2[h]) = Len(t.data[h]) + 1 /\ data2[h][Len(t.data[h]) + 1] = node
          /\ Len(t.data[h]) \in Nat
      <4>1. h \in Buckets
        BY <1>1
      <4> HIDE DEF data2, t, h, node
      <4> QED BY <1>6, <4>1
    <3>2. words2[node.offset] = w
      <4> HIDE DEF node, words2
      <4> QED BY <1>3, <1>4
    <3>3. Len(t.data[h]) + 1 \in 1 .. Len(data2[h])
      <4> HIDE DEF data2, t, h
      <4> QED BY <3>1
    <3>4. \E n \in 1 .. Len(data2[h]) : words2[data2[h][n].offset] = w
      <4> HIDE DEF data2, t, h, node, words2
      <4> QED BY <3>1, <3>2, <3>3
    <3> QED
      BY <2>1, <3>4
  <2>2. CASE x # w
    <3>1. x \in K /\ x \in Words
      BY <2>2
    <3>2. Hash[x] \in Buckets
      BY <3>1, DocIndexAssumption
    <3>3. PICK n \in 1 .. Len(t.data[Hash[x]]) : t.words[t.data[Hash[x]][n].offset] = x
      BY <3>1 DEF Indexed
    <3>4. n \in 1 .. Len(data2[Hash[x]]) /\ words2[data2[Hash[x]][n].offset] = x
      <4> HIDE DEF data2, t, words2, inv, h
      <4>1. Len(t.data[Hash[x]]) \in Nat /\ Len(data2[Hash[x]]) >= Len(t.data[Hash[x]])
            /\ Len(data2[Hash[x]]) \in Nat
        BY <1>6, <3>2
      <4>2. words2[data2[Hash[x]][n].offset] = x
        BY <1>7, <3>2, <3>3
      <4> QED
        BY <4>1, <4>2
    <3> QED
      BY <3>4
  <2> QED
    BY <2>1, <2>2
<1>13. data2 \in [Buckets -> Seq(Node)]
  <2>1. \A i \in Buckets : data2[i] \in Seq(Node)
    <3> HIDE DEF data2, t
    <3> QED BY <1>6
  <2>2. data2 = [i \in Buckets |-> data2[i]]
    BY <1>1
  <2> HIDE DEF data2
  <2> QED
    BY <2>1, <2>2
<1> DEFINE t2 == [words |-> words2, data |-> data2]
<1>14. t2 \in [words : Seq(Words), data : [Buckets -> Seq(Node)]] /\ t2.words = words2 /\ t2.data = data2
  <2> HIDE DEF words2, data2
  <2> QED BY <1>4, <1>13
<1> HIDE DEF t2, words2, data2, inv2, K2
<1>15. Indexed(t2, inv2, map, K2)
  BY <1>5, <1>10, <1>11, <1>12, <1>14 DEF Indexed
<1> QED
  BY <1>2, <1>15 DEF t2, K2

-----------------------------------------------------------------------------
(* The inductive invariant.                                                *)

(* Nothing was built, nothing runs, nothing was said.                      *)
LEMMA InitIInv == Init => IInv
  BY DEF Init, IInv, FilesCut, Loaded, Answering, Silent

(* Every step keeps IInv: a build only happens while no process runs, a     *)
(* start loads what the files have, an answer is to the last query.        *)
LEMMA NextIInv == IInv /\ [Next]_vars => IInv'
<1> SUFFICES ASSUME FilesCut, Loaded, Answering, [Next]_vars
             PROVE  FilesCut' /\ Loaded' /\ Answering'
  BY DEF IInv
<1>1. ~up => Silent
  BY DEF Answering
<1>2. ASSUME NEW log \in Logs, NEW file \in Cuts(DocFile(log)), BuildDoc(log, file)
      PROVE  FilesCut' /\ Loaded' /\ Answering'
  <2>1. FilesCut'
    BY <1>2 DEF FilesCut, BuildDoc
  <2>2. Loaded' /\ Answering'
    BY <1>1, <1>2 DEF Loaded, Answering, Silent, BuildDoc, talkVars
  <2> QED
    BY <2>1, <2>2
<1>3. ASSUME NEW log \in Logs, NEW questions \in SortedQuestions(hash_uniq(log)), NEW n \in 0 .. 4,
             BuildDa(log, questions, n)
      PROVE  FilesCut' /\ Loaded' /\ Answering'
  <2>1. FilesCut'
    BY <1>3 DEF FilesCut, BuildDa
  <2>2. Loaded' /\ Answering'
    BY <1>1, <1>3 DEF Loaded, Answering, Silent, BuildDa, talkVars
  <2> QED
    BY <2>1, <2>2
<1>4. ASSUME NEW index0 \in Buckets, NEW size0 \in 0 .. 1, Start(index0, size0)
      PROVE  FilesCut' /\ Loaded' /\ Answering'
  <2>1. FilesCut'
    BY <1>4 DEF FilesCut, Start, fileVars
  <2>2. Loaded'
    BY <1>4 DEF Loaded, Start, fileVars
  <2>3. Answering'
    BY <1>1, <1>4 DEF Answering, Silent, Start, talkVars
  <2> QED
    BY <2>1, <2>2, <2>3
<1>5. ASSUME NEW q \in Queries, IndexOutcome(q)
      PROVE  FilesCut' /\ Loaded' /\ Answering'
  <2>1. FilesCut' /\ Loaded'
    BY <1>5 DEF FilesCut, Loaded, IndexOutcome, fileVars
  <2>2. Answering'
    BY <1>5 DEF Answering, IndexOutcome
  <2> QED
    BY <2>1, <2>2
<1>6. CASE Exit
  BY <1>6 DEF FilesCut, Loaded, Answering, Silent, Exit, fileVars
<1>7. CASE UNCHANGED vars
  BY <1>7 DEF FilesCut, Loaded, Answering, Silent, vars, fileVars, talkVars
<1> QED
  BY <1>2, <1>3, <1>4, <1>5, <1>6, <1>7 DEF Next

(* In every state the files are parts of what their programs write, the     *)
(* process has what it found in them when it started, and what it shows is   *)
(* its answer to the last query.                                           *)
THEOREM Invariant == Spec => []IInv
  BY InitIInv, NextIInv, PTL DEF Spec

(* The process answers from an exact index that was cut, if at all, behind  *)
(* its text.                                                               *)
LEMMA AnswersFrom ==
  ASSUME IInv, up
  PROVE  /\ daLog \in Logs
         /\ \E questions \in SortedQuestions(hash_uniq(daLog)), n \in 0 .. 4 :
              LET f == SubSeq(DaFile(daLog, questions), 1, n)
              IN  LoadIndex(f) /\ da = LoadedDa(f)
<1>1. LoadIndex(daFile) /\ da = LoadedDa(daFile)
  BY DEF IInv, Loaded
<1>2. daFile # <<>>
  BY <1>1 DEF LoadIndex
<1> QED
  BY <1>1, <1>2 DEF IInv, FilesCut

(* What the process finds for a key are the answers to a logged question     *)
(* that has it.                                                            *)
LEMMA KeyAnswers ==
  ASSUME IInv, up, NEW q, Segment_(q) # <<>>
  PROVE  LET mine == {i \in 1 .. Len(daLog) : change2qj(daLog[i].question) = q}
         IN  /\ mine = {} => Lookup(da, q) = <<>>
             /\ mine # {} => Lookup(da, q) # <<>>
             /\ \A x \in Range(Lookup(da, q)) : \E i \in mine : daLog[i].answer = x
<1> DEFINE map == hash_uniq(daLog)
           mine == {i \in 1 .. Len(daLog) : change2qj(daLog[i].question) = q}
<1>1. daLog \in Logs
  BY AnswersFrom
<1>2. PICK questions \in SortedQuestions(map), n \in 0 .. 4 :
        /\ LoadIndex(SubSeq(DaFile(daLog, questions), 1, n))
        /\ da = LoadedDa(SubSeq(DaFile(daLog, questions), 1, n))
  BY AnswersFrom
<1>3. /\ Lookup(da, q) # <<>> => \E p \in DOMAIN map : change2qj(p) = q /\ Lookup(da, q) = map[p]
      /\ (\E p \in DOMAIN map : change2qj(p) = q) => Lookup(da, q) # <<>>
  BY <1>1, <1>2, LookupParts
<1>4. DOMAIN map = {daLog[i].question : i \in 1 .. Len(daLog)}
  BY DEF hash_uniq
<1>5. Range(<<>>) = {}
  BY DEF Range
<1>6. ASSUME NEW x \in Range(Lookup(da, q))
      PROVE  \E i \in mine : daLog[i].answer = x
  <2>1. PICK p \in DOMAIN map : change2qj(p) = q /\ Lookup(da, q) = map[p]
    BY <1>3, <1>5
  <2>2. PICK i \in 1 .. Len(daLog) : daLog[i] = Line(p, x)
    BY <1>1, <2>1, AnswersParts
  <2>3. daLog[i].question = p /\ daLog[i].answer = x
    BY <2>2 DEF Line
  <2> QED
    BY <2>1, <2>3
<1>7. mine # {} <=> \E p \in DOMAIN map : change2qj(p) = q
  BY <1>4
<1> QED
  <2> HIDE DEF map, mine
  <2>1. mine = {} => Lookup(da, q) = <<>>
    BY <1>3, <1>7
  <2>2. mine # {} => Lookup(da, q) # <<>>
    BY <1>3, <1>7
  <2> QED
    BY <1>6, <2>1, <2>2 DEF mine

-----------------------------------------------------------------------------
(* The table that CommonIndex builds.                                      *)

(* What the list of postings and the table are while words are added.      *)
Acc == [inv : Seq(Nat), table : [words : Seq(Words), data : [Buckets -> Seq(Node)]]]

(* A word is added to any table.                                           *)
LEMMA AddKeyType ==
  ASSUME NEW acc \in Acc, NEW w \in Words, NEW list \in Seq(Nat)
  PROVE  AddKey(acc, w, list) \in Acc
<1> DEFINE t == acc.table
           h == Hash[w]
           node == [offset |-> Len(t.words) + 1, begin |-> Len(acc.inv),
                    end |-> Len(acc.inv) + Len(list)]
           data2 == [t.data EXCEPT ![h] = Append(t.data[h], node)]
<1>1. /\ t.words \in Seq(Words) /\ t.data \in [Buckets -> Seq(Node)] /\ acc.inv \in Seq(Nat)
      /\ h \in Buckets
  BY DocIndexAssumption DEF Acc
<1>2. node \in Node
  BY <1>1 DEF Node
<1>3. data2 \in [Buckets -> Seq(Node)]
  <2> HIDE DEF node
  <2>1. Append(t.data[h], node) \in Seq(Node)
    BY <1>1, <1>2
  <2> HIDE DEF t, h
  <2> QED
    BY <1>1, <2>1
<1>4. acc.inv \o list \in Seq(Nat) /\ Append(t.words, w) \in Seq(Words)
  BY <1>1
<1>5. AddKey(acc, w, list) = [inv |-> acc.inv \o list,
                              table |-> [words |-> Append(t.words, w), data |-> data2]]
  BY DEF AddKey, AddItem
<1> HIDE DEF data2, t
<1> QED
  BY <1>3, <1>4, <1>5 DEF Acc

(* All words of the map are added, in their order.                         *)
LEMMA AddedIndexed ==
  ASSUME NEW map, DOMAIN map \in SUBSET Words, IsFiniteSet(DOMAIN map),
         \A w \in DOMAIN map : map[w] \in Seq(Nat)
  PROVE  /\ Added(map) \in Acc
         /\ Indexed(Added(map).table, Added(map).inv, map, DOMAIN map)
<1> DEFINE K == DOMAIN map
           keys == Keys(map)
           N == Len(keys)
           start == [inv |-> <<>>, table |-> NoTable]
           Fits(f) == f = [n \in 0 .. N |-> IF n = 0 THEN start
                                            ELSE AddKey(f[n - 1], keys[n], map[keys[n]])]
           upto == CHOOSE f : Fits(f)
           step == [p \in (1 .. N) \X Acc |-> AddKey(p[2], keys[p[1]], map[keys[p[1]]])]
<1>1. /\ N \in Nat /\ \A n \in 1 .. N : keys[n] \in K
      /\ \A w \in K : \E n \in 1 .. N : keys[n] = w
      /\ \A m, n \in 1 .. N : m < n => keys[m] < keys[n]
  <2>1. K \in SUBSET Int
    BY WordsType
  <2>2. /\ Cardinality(K) \in Nat
        /\ Ascending(K) \in [1 .. Cardinality(K) -> K]
        /\ \A x \in K : \E n \in 1 .. Cardinality(K) : Ascending(K)[n] = x
        /\ \A m, n \in 1 .. Cardinality(K) : m < n => Ascending(K)[m] < Ascending(K)[n]
    <3> HIDE DEF K
    <3> QED BY <2>1, AscendingParts DEF K
  <2>3. keys = Ascending(K) /\ Len(Ascending(K)) = Cardinality(K)
    BY <2>2 DEF Keys
  <2> HIDE DEF K, keys
  <2> QED
    BY <2>2, <2>3
<1>2. Added(map) = upto[N]
  BY DEF Added
<1> HIDE DEF keys, N
<1>3. \A n \in 1 .. N : keys[n] \in Words /\ map[keys[n]] \in Seq(Nat)
  BY <1>1
<1>4. NoData \in [Buckets -> Seq(Node)] /\ start \in Acc
  <2>1. NoData \in [Buckets -> Seq(Node)]
    BY DEF NoData
  <2> QED
    BY <2>1 DEF Acc, NoTable
<1>5. step \in [(1 .. N) \X Acc -> Acc]
  BY <1>3, AddKeyType
<1>6. PICK f : Recursion(f, N, Acc, start, step)
  <2> HIDE DEF step, start
  <2>1. \E f : Recursion(f, N, Acc, start, step)
    BY <1>1, <1>4, <1>5, RecursionExists
  <2> QED
    BY <2>1
<1>7. Fits(f)
  <2>1. f \in [0 .. N -> Acc] /\ f[0] = start /\ \A n \in 1 .. N : f[n] = step[<<n, f[n - 1]>>]
    <3> HIDE DEF step, start
    <3> QED BY <1>6 DEF Recursion
  <2>2. \A n \in 1 .. N : f[n] = AddKey(f[n - 1], keys[n], map[keys[n]])
    <3>1. \A n \in 1 .. N : f[n - 1] \in Acc /\ <<n, f[n - 1]>> \in (1 .. N) \X Acc
      BY <1>1, <2>1
    <3> HIDE DEF start
    <3> QED
      BY <2>1, <3>1
  <2> HIDE DEF start, step
  <2> QED
    BY <1>1, <2>1, <2>2
<1>8. Fits(upto)
  <2> HIDE DEF Fits
  <2> QED BY <1>7
<1>9. \A n \in 0 .. N : upto[n] = IF n = 0 THEN start
                                  ELSE AddKey(upto[n - 1], keys[n], map[keys[n]])
  <2> HIDE DEF upto
  <2> QED BY <1>8
<1> HIDE DEF upto
<1> DEFINE First(n) == {keys[k] : k \in 1 .. n}
           S == {n \in 0 .. N : /\ upto[n] \in Acc
                                /\ Indexed(upto[n].table, upto[n].inv, map, First(n))}
<1>10. 0 \in S
  <2>1. upto[0] = start /\ 0 \in 0 .. N
    BY <1>1, <1>9
  <2>2. Indexed(NoTable, <<>>, map, {})
    <3>1. NoTable.data = NoData /\ NoTable \in [words : Seq(Words), data : [Buckets -> Seq(Node)]]
      BY <1>4 DEF NoTable
    <3>2. \A i \in Buckets : Len(NoTable.data[i]) = 0
      BY <3>1 DEF NoData
    <3> QED
      BY <3>1, <3>2 DEF Indexed
  <2>3. First(0) = {}
    BY <1>1
  <2>4. upto[0].table = NoTable /\ upto[0].inv = <<>> /\ upto[0] \in Acc
    BY <1>4, <2>1
  <2> HIDE DEF First, start
  <2> QED
    BY <2>1, <2>2, <2>3, <2>4
<1>11. ASSUME NEW n \in 0 .. N - 1, n \in S
       PROVE  n + 1 \in S
  <2> DEFINE w == keys[n + 1]
             acc == upto[n]
  <2>1. n + 1 \in 0 .. N /\ n + 1 # 0 /\ (n + 1) - 1 = n /\ n + 1 \in 1 .. N /\ n \in 0 .. N
    BY <1>1
  <2>2. upto[n + 1] = AddKey(acc, w, map[w])
    BY <1>9, <2>1
  <2>3. First(n + 1) = First(n) \union {w}
    <3>1. \A k \in 1 .. n + 1 : k \in 1 .. n \/ k = n + 1
      BY <2>1
    <3>2. n + 1 \in 1 .. n + 1 /\ \A k \in 1 .. n : k \in 1 .. n + 1
      BY <2>1
    <3> QED
      BY <3>1, <3>2
  <2>4. First(n) \in SUBSET Words /\ \A x \in First(n) : x < w
    <3>1. \A k \in 1 .. n : k \in 1 .. N /\ k < n + 1
      BY <1>1, <2>1
    <3>2. \A k \in 1 .. n : keys[k] \in Words /\ keys[k] < keys[n + 1]
      <4> HIDE DEF K
      <4> QED BY <1>1, <1>3, <2>1, <3>1
    <3> QED
      BY <3>2
  <2>5. w \in Words /\ map[w] \in Seq(Nat)
    BY <1>3, <2>1
  <2>6. acc \in Acc /\ Indexed(acc.table, acc.inv, map, First(n))
    BY <1>11
  <2> HIDE DEF First, w, acc
  <2>7. Indexed(AddKey(acc, w, map[w]).table, AddKey(acc, w, map[w]).inv, map, First(n) \union {w})
    BY <2>4, <2>5, <2>6, AddKeyIndexed
  <2>8. AddKey(acc, w, map[w]) \in Acc
    BY <2>5, <2>6, AddKeyType
  <2> QED
    BY <2>1, <2>2, <2>3, <2>7, <2>8
<1>12. \A n \in 0 .. N : n \in S
  <2> HIDE DEF S
  <2>1. N \in Int /\ 0 \in Int /\ (0 <= N => 0 \in S) /\ \A n \in 0 .. N - 1 : n \in S => n + 1 \in S
    BY <1>1, <1>10, <1>11
  <2> QED
    BY <2>1, Induction
<1>13. First(N) = K
  BY <1>1
<1>14. N \in S
  <2> HIDE DEF S
  <2> QED BY <1>1, <1>12
<1> HIDE DEF First
<1> QED
  BY <1>2, <1>13, <1>14

(* The words of a bucket come in their order: the sort of the buckets        *)
(* changes nothing.                                                        *)
LEMMA ChangeIndexed ==
  ASSUME NEW map, DOMAIN map \in SUBSET Words, IsFiniteSet(DOMAIN map),
         \A w \in DOMAIN map : map[w] \in Seq(Nat)
  PROVE  /\ ChangeToHVIndex(map) = Added(map)
         /\ Indexed(ChangeToHVIndex(map).table, ChangeToHVIndex(map).inv, map, DOMAIN map)
<1> DEFINE all == Added(map)
           t == all.table
<1>1. all \in Acc /\ Indexed(t, all.inv, map, DOMAIN map)
  BY AddedIndexed
<1>2. ASSUME NEW i \in Buckets
      PROVE  QSort(t.words, t.data[i]) = t.data[i]
  <2>1. t.data[i] \in Seq(Node)
    BY <1>1 DEF Indexed
  <2>2. \A n \in 1 .. Len(t.data[i]) : t.words[t.data[i][n].offset] \in Words
    <3> SUFFICES ASSUME NEW n \in 1 .. Len(t.data[i])
                 PROVE  t.words[t.data[i][n].offset] \in DOMAIN map
      OBVIOUS
    <3>1. NodeOf(t.words, all.inv, map, DOMAIN map, i, t.data[i][n])
      BY <1>1 DEF Indexed
    <3> HIDE DEF all, t
    <3> QED
      BY <3>1 DEF NodeOf
  <2>3. \A m, n \in 1 .. Len(t.data[i]) :
          m < n => t.words[t.data[i][m].offset] < t.words[t.data[i][n].offset]
    BY <1>1 DEF Indexed
  <2>4. \A x \in Words : x \in Int
    BY WordsType
  <2>5. InOrder(t.words, t.data[i])
    <3> HIDE DEF all, t
    <3> QED BY <2>1, <2>2, <2>3, <2>4 DEF InOrder
  <2> QED
    BY <2>5, QSortInOrder
<1>3. Sort(t) = t
  <2>1. t \in [words : Seq(Words), data : [Buckets -> Seq(Node)]]
    BY <1>1 DEF Indexed
  <2> HIDE DEF all, t
  <2>2. t.data = [i \in Buckets |-> t.data[i]]
    BY <2>1
  <2>3. [i \in Buckets |-> QSort(t.words, t.data[i])] = [i \in Buckets |-> t.data[i]]
    BY <1>2
  <2>4. Sort(t) = [t EXCEPT !.data = [i \in Buckets |-> QSort(t.words, t.data[i])]]
    BY DEF Sort
  <2> QED
    BY <2>1, <2>2, <2>3, <2>4
<1>4. ChangeToHVIndex(map) = all
  <2>1. ChangeToHVIndex(map) = [all EXCEPT !.table = Sort(all.table)]
    BY DEF ChangeToHVIndex
  <2> HIDE DEF all
  <2> QED
    BY <1>1, <1>3, <2>1 DEF Acc
<1> HIDE DEF all, t
<1> QED
  BY <1>1, <1>4 DEF all, t

-----------------------------------------------------------------------------
(* The table in the file.                                                  *)

(* How many words are before a bucket.                                     *)
LEMMA BeforeParts ==
  ASSUME NEW t, t.data \in [Buckets -> Seq(Node)]
  PROVE  /\ Before(t) \in [0 .. HashBasic -> Nat] /\ Before(t)[0] = 0
         /\ \A i \in 1 .. HashBasic : Before(t)[i] = Before(t)[i - 1] + Len(t.data[i - 1])
<1> DEFINE N == HashBasic
           Fits(f) == f = [i \in 0 .. N |-> IF i = 0 THEN 0 ELSE f[i - 1] + Len(t.data[i - 1])]
           before == CHOOSE f : Fits(f)
           step == [p \in (1 .. N) \X Nat |-> p[2] + Len(t.data[p[1] - 1])]
<1>1. N \in Nat /\ \A i \in 1 .. N : i - 1 \in Buckets /\ Len(t.data[i - 1]) \in Nat
  <2>1. N \in Nat /\ \A i \in 1 .. N : i - 1 \in Buckets
    BY HashBasicAssumption DEF Buckets
  <2> HIDE DEF N
  <2> QED
    BY <2>1
<1>2. Before(t) = before
  BY DEF Before
<1> HIDE DEF N
<1>3. step \in [(1 .. N) \X Nat -> Nat] /\ 0 \in Nat
  BY <1>1
<1>4. PICK f : Recursion(f, N, Nat, 0, step)
  <2> HIDE DEF step
  <2>1. \E f : Recursion(f, N, Nat, 0, step)
    BY <1>1, <1>3, RecursionExists
  <2> QED
    BY <2>1
<1>5. f \in [0 .. N -> Nat] /\ f[0] = 0 /\ \A i \in 1 .. N : f[i] = f[i - 1] + Len(t.data[i - 1])
  <2>1. f \in [0 .. N -> Nat] /\ f[0] = 0 /\ \A i \in 1 .. N : f[i] = step[<<i, f[i - 1]>>]
    BY <1>4 DEF Recursion
  <2>2. \A i \in 1 .. N : f[i - 1] \in Nat /\ <<i, f[i - 1]>> \in (1 .. N) \X Nat
    BY <1>1, <2>1
  <2> QED
    BY <2>1, <2>2
<1>6. Fits(f)
  BY <1>1, <1>5
<1>7. Fits(before)
  <2> HIDE DEF Fits
  <2> QED BY <1>6
<1>8. \A i \in 0 .. N : before[i] = IF i = 0 THEN 0 ELSE before[i - 1] + Len(t.data[i - 1])
  <2> HIDE DEF before
  <2> QED BY <1>7
<1>9. before = [i \in 0 .. N |-> before[i]]
  <2> HIDE DEF before
  <2> QED BY <1>7
<1> HIDE DEF before
<1> DEFINE S == {i \in Nat : before[i] \in Nat}
<1>10. 0 \in S
  BY <1>1, <1>8
<1>11. ASSUME NEW i \in 0 .. N - 1, i \in S
       PROVE  i + 1 \in S
  <2>1. i + 1 \in 0 .. N /\ i + 1 # 0 /\ (i + 1) - 1 = i /\ i + 1 \in 1 .. N
    BY <1>1
  <2> QED
    <3>1. before[i + 1] = before[i] + Len(t.data[i])
      BY <1>8, <2>1
    <3>2. before[i] \in Nat /\ Len(t.data[i]) \in Nat
      BY <1>1, <1>11
    <3> HIDE DEF N
    <3> QED
      BY <2>1, <3>1, <3>2
<1>12. \A i \in 0 .. N : i \in S
  <2> HIDE DEF S
  <2>1. N \in Int /\ 0 \in Int /\ (0 <= N => 0 \in S) /\ \A i \in 0 .. N - 1 : i \in S => i + 1 \in S
    BY <1>1, <1>10, <1>11
  <2> QED
    BY <2>1, Induction
<1>13. before \in [0 .. N -> Nat]
  BY <1>9, <1>12
<1>14. before[0] = 0 /\ \A i \in 1 .. N : before[i] = before[i - 1] + Len(t.data[i - 1])
  BY <1>1, <1>8
<1> QED
  BY <1>2, <1>13, <1>14 DEF N

(* The table m has the nodes of t, and the word of a node at its new place.  *)
MovedTo(m, t, before) ==
  /\ m.words \in Seq(Words)
  /\ \A i \in Buckets :
       /\ m.data[i] \in Seq(Node) /\ Len(m.data[i]) = Len(t.data[i])
       /\ \A n \in 1 .. Len(t.data[i]) :
            /\ m.data[i][n] = [t.data[i][n] EXCEPT !.offset = before[i] + n]
            /\ before[i] + n \in 1 .. Len(m.words)
            /\ m.words[before[i] + n] = t.words[t.data[i][n].offset]

(* The words of the buckets, joined, are where the nodes say.              *)
LEMMA MovedParts ==
  ASSUME NEW t, NEW inv, NEW map, NEW K \in SUBSET Words, Indexed(t, inv, map, K)
  PROVE  MovedTo(Moved(t), t, Before(t))
<1> DEFINE WordsOf(v) == [n \in 1 .. Len(v) |-> t.words[v[n].offset]]
           ss == [k \in 1 .. HashBasic |-> WordsOf(t.data[k - 1])]
           before == Before(t)
           Size(i) == Len(t.data[i])
<1>1. /\ t.data \in [Buckets -> Seq(Node)] /\ HashBasic \in Nat
      /\ \A k \in 1 .. HashBasic : k - 1 \in Buckets
      /\ \A i \in Buckets : i + 1 \in 1 .. HashBasic /\ (i + 1) - 1 = i
      /\ \A i \in Buckets : Size(i) \in Nat
  <2>1. t.data \in [Buckets -> Seq(Node)]
    BY DEF Indexed
  <2>2. \A i \in Buckets : Size(i) \in Nat
    BY <2>1
  <2> HIDE DEF Size
  <2> QED
    BY <2>1, <2>2, HashBasicAssumption DEF Buckets
<1>2. \A i \in Buckets : \A n \in 1 .. Size(i) : t.words[t.data[i][n].offset] \in Words
  <2> SUFFICES ASSUME NEW i \in Buckets, NEW n \in 1 .. Size(i)
               PROVE  t.words[t.data[i][n].offset] \in K
    OBVIOUS
  <2>1. NodeOf(t.words, inv, map, K, i, t.data[i][n])
    BY DEF Indexed
  <2> QED
    BY <2>1 DEF NodeOf
<1>3. ss \in Seq(Seq(Words)) /\ Len(ss) = HashBasic
      /\ \A i \in Buckets : ss[i + 1] = WordsOf(t.data[i]) /\ Len(ss[i + 1]) = Size(i)
  <2>1. \A i \in Buckets : WordsOf(t.data[i]) \in Seq(Words) /\ Len(WordsOf(t.data[i])) = Size(i)
    BY <1>1, <1>2
  <2> HIDE DEF WordsOf, Size
  <2>2. \A k \in 1 .. HashBasic : WordsOf(t.data[k - 1]) \in Seq(Words)
    BY <1>1, <2>1
  <2>3. ss \in Seq(Seq(Words)) /\ Len(ss) = HashBasic
    BY <1>1, <2>2
  <2>4. \A i \in Buckets : ss[i + 1] = WordsOf(t.data[i])
    BY <1>1
  <2> HIDE DEF ss
  <2> QED
    BY <2>1, <2>3, <2>4
<1>4. /\ before \in [0 .. HashBasic -> Nat] /\ before[0] = 0
      /\ \A i \in 1 .. HashBasic : before[i] = before[i - 1] + Size(i - 1)
  BY <1>1, BeforeParts
<1> HIDE DEF before, ss, Size
<1>5. Moved(t).words = FlattenSeq(ss)
      /\ Moved(t).data = [i \in Buckets |-> [n \in 1 .. Size(i) |->
                            [t.data[i][n] EXCEPT !.offset = before[i] + n]]]
  BY DEF Moved, ss, before, Size
<1>6. \A i \in 1 .. Len(ss) : before[i] = before[i - 1] + Len(ss[i])
  <2> SUFFICES ASSUME NEW i \in 1 .. HashBasic PROVE before[i] = before[i - 1] + Len(ss[i])
    BY <1>3
  <2>1. i - 1 \in Buckets /\ (i - 1) + 1 = i
    BY <1>1
  <2> QED
    BY <1>3, <1>4, <2>1
<1>7. /\ FlattenSeq(ss) \in Seq(Words) /\ Len(FlattenSeq(ss)) = before[Len(ss)]
      /\ \A n \in 1 .. Len(ss) : \A k \in 1 .. Len(ss[n]) :
           /\ before[n - 1] + k \in 1 .. before[Len(ss)]
           /\ FlattenSeq(ss)[before[n - 1] + k] = ss[n][k]
  <2>1. before \in [0 .. Len(ss) -> Nat]
    BY <1>3, <1>4
  <2>2. ss \in Seq(Seq(Words)) /\ before[0] = 0
    BY <1>3, <1>4
  <2>3. Laid(Words, ss, before, FlattenSeq(ss))
    BY ONLY <1>6, <2>1, <2>2, FlattenAt
  <2> QED
    BY <2>3 DEF Laid
<1> DEFINE all == FlattenSeq(ss)
<1> HIDE DEF all
<1>8. ASSUME NEW i \in Buckets
      PROVE  /\ Moved(t).data[i] = [n \in 1 .. Size(i) |->
                                      [t.data[i][n] EXCEPT !.offset = before[i] + n]]
             /\ \A n \in 1 .. Size(i) : [t.data[i][n] EXCEPT !.offset = before[i] + n] \in Node
  <2>1. Moved(t).data[i] = [n \in 1 .. Size(i) |-> [t.data[i][n] EXCEPT !.offset = before[i] + n]]
    BY <1>5
  <2>2. before[i] \in Nat
    BY <1>4, HashBasicAssumption DEF Buckets
  <2>3. ASSUME NEW n \in 1 .. Size(i)
        PROVE  [t.data[i][n] EXCEPT !.offset = before[i] + n] \in Node
    <3>1. t.data[i][n] \in Node
      BY <1>1 DEF Size
    <3>2. before[i] + n \in Nat
      BY <1>1, <2>2
    <3> DEFINE x == t.data[i][n]
               o == before[i] + n
    <3> HIDE DEF x, o
    <3>3. [x EXCEPT !.offset = o] \in Node
      BY <3>1, <3>2 DEF Node, x, o
    <3> QED
      BY <3>3 DEF x, o
  <2> QED
    BY <2>1, <2>3
<1>9. ASSUME NEW i \in Buckets
      PROVE  Moved(t).data[i] \in Seq(Node) /\ Len(Moved(t).data[i]) = Size(i)
  <2> DEFINE x(n) == [t.data[i][n] EXCEPT !.offset = before[i] + n]
  <2>1. Moved(t).data[i] = [n \in 1 .. Size(i) |-> x(n)] /\ \A n \in 1 .. Size(i) : x(n) \in Node
    BY <1>8
  <2> HIDE DEF x
  <2>2. [n \in 1 .. Size(i) |-> x(n)] \in Seq(Node) /\ Len([n \in 1 .. Size(i) |-> x(n)]) = Size(i)
    BY <1>1, <2>1
  <2> QED
    BY <2>1, <2>2
<1>10. ASSUME NEW i \in Buckets, NEW n \in 1 .. Size(i)
       PROVE  /\ Moved(t).data[i][n] = [t.data[i][n] EXCEPT !.offset = before[i] + n]
              /\ before[i] + n \in 1 .. Len(Moved(t).words)
              /\ Moved(t).words[before[i] + n] = t.words[t.data[i][n].offset]
  <2>1. Moved(t).data[i][n] = [t.data[i][n] EXCEPT !.offset = before[i] + n]
    BY <1>8
  <2>2. i + 1 \in 1 .. Len(ss) /\ (i + 1) - 1 = i /\ n \in 1 .. Len(ss[i + 1])
    BY <1>1, <1>3
  <2>3. ss[i + 1][n] = t.words[t.data[i][n].offset]
    BY <1>3 DEF Size
  <2>4. before[i] + n \in 1 .. Len(FlattenSeq(ss)) /\ FlattenSeq(ss)[before[i] + n] = ss[i + 1][n]
    BY <1>7, <2>2
  <2> QED
    BY <1>5, <2>1, <2>3, <2>4
<1> QED
  BY <1>5, <1>7, <1>9, <1>10 DEF before, Size, MovedTo

(* The table that is written is the one that was built, moved.              *)
LEMMA MovedIndexed ==
  ASSUME NEW t, NEW inv, NEW map, NEW K \in SUBSET Words, Indexed(t, inv, map, K)
  PROVE  Indexed(Moved(t), inv, map, K)
<1> DEFINE m == Moved(t)
           before == Before(t)
<1>1. /\ m.words \in Seq(Words)
      /\ \A i \in Buckets :
           /\ m.data[i] \in Seq(Node) /\ Len(m.data[i]) = Len(t.data[i])
           /\ \A n \in 1 .. Len(t.data[i]) :
                /\ m.data[i][n] = [t.data[i][n] EXCEPT !.offset = before[i] + n]
                /\ before[i] + n \in 1 .. Len(m.words)
                /\ m.words[before[i] + n] = t.words[t.data[i][n].offset]
  <2>1. Indexed(t, inv, map, K) /\ K \in SUBSET Words
    OBVIOUS
  <2>2. MovedTo(m, t, before)
    BY ONLY <2>1, MovedParts
  <2> HIDE DEF m, before
  <2> QED
    BY <2>2 DEF MovedTo
<1>2. m = [words |-> m.words, data |-> m.data] /\ m.data = [i \in Buckets |-> m.data[i]]
  BY DEF Moved
<1> HIDE DEF m, before
<1>3. m \in [words : Seq(Words), data : [Buckets -> Seq(Node)]]
  <2>1. m.data \in [Buckets -> Seq(Node)]
    BY <1>1, <1>2
  <2> QED
    BY <1>1, <1>2, <2>1
<1>4. ASSUME NEW i \in Buckets, NEW n \in 1 .. Len(m.data[i])
      PROVE  /\ NodeOf(m.words, inv, map, K, i, m.data[i][n])
             /\ m.words[m.data[i][n].offset] = t.words[t.data[i][n].offset]
             /\ n \in 1 .. Len(t.data[i])
  <2> DEFINE x == t.data[i][n]
             y == m.data[i][n]
  <2>1. n \in 1 .. Len(t.data[i])
    BY <1>1
  <2>2. NodeOf(t.words, inv, map, K, i, x)
    BY <2>1 DEF Indexed
  <2>3. /\ y = [x EXCEPT !.offset = before[i] + n]
        /\ before[i] + n \in 1 .. Len(m.words)
        /\ m.words[before[i] + n] = t.words[x.offset]
    BY <1>1, <2>1
  <2>4. y \in Node
    BY <1>1
  <2> HIDE DEF x, y
  <2>5. y.offset = before[i] + n /\ y.begin = x.begin /\ y.end = x.end
    BY <2>2, <2>3 DEF NodeOf, Node
  <2> QED
    BY <2>1, <2>2, <2>3, <2>4, <2>5 DEF NodeOf, x, y
<1>5. \A i \in Buckets : \A j, n \in 1 .. Len(m.data[i]) :
        j < n => m.words[m.data[i][j].offset] < m.words[m.data[i][n].offset]
  BY <1>4 DEF Indexed
<1>6. ASSUME NEW w \in K
      PROVE  \E n \in 1 .. Len(m.data[Hash[w]]) : m.words[m.data[Hash[w]][n].offset] = w
  <2>1. Hash[w] \in Buckets
    BY DocIndexAssumption
  <2>2. PICK n \in 1 .. Len(t.data[Hash[w]]) : t.words[t.data[Hash[w]][n].offset] = w
    BY DEF Indexed
  <2>3. n \in 1 .. Len(m.data[Hash[w]])
    BY <1>1, <2>1
  <2> QED
    BY <1>4, <2>1, <2>2, <2>3
<1>7. inv \in Seq(Nat)
  BY DEF Indexed
<1> QED
  BY <1>3, <1>4, <1>5, <1>6, <1>7 DEF Indexed, m

(* What the units of a file are.                                           *)
Data == Nat \union Node \union Seq(Nat) \union Seq(Words) \union Seq(Text)
Kinds == {"chars", "docs", "invs", "words", "hashSize", "index", "size", "node"}
Units == {Unit(is, data) : is \in Kinds, data \in Data}

(* A unit's data is what was written.                                      *)
LEMMA UnitType ==
  /\ \A is \in Kinds, data \in Data : Unit(is, data) \in Units
  /\ \A is, data : Unit(is, data).data = data
  BY DEF Units, Unit

(* A bucket in the file.                                                   *)
LEMMA BucketUnitsParts ==
  ASSUME NEW i \in Buckets, NEW v \in Seq(Node)
  PROVE  /\ BucketUnits(i, v) \in Seq(Units) /\ Len(BucketUnits(i, v)) = 2 + Len(v)
         /\ BucketUnits(i, v)[1] = Unit("index", i) /\ BucketUnits(i, v)[2] = Unit("size", Len(v))
         /\ \A n \in 1 .. Len(v) : BucketUnits(i, v)[2 + n] = Unit("node", v[n])
<1> DEFINE a == <<Unit("index", i), Unit("size", Len(v))>>
           b == [n \in 1 .. Len(v) |-> Unit("node", v[n])]
<1>1. Len(v) \in Nat /\ (\A n \in 1 .. Len(v) : v[n] \in Node) /\ i \in Nat
  BY HashBasicAssumption DEF Buckets
<1>2. a \in Seq(Units) /\ Len(a) = 2 /\ a[1] = Unit("index", i) /\ a[2] = Unit("size", Len(v))
  <2>1. Unit("index", i) \in Units /\ Unit("size", Len(v)) \in Units
    BY <1>1, UnitType DEF Kinds, Data
  <2> QED
    BY <2>1
<1>3. b \in Seq(Units) /\ Len(b) = Len(v) /\ \A n \in 1 .. Len(v) : b[n] = Unit("node", v[n])
  <2>1. \A n \in 1 .. Len(v) : Unit("node", v[n]) \in Units
    BY <1>1, UnitType DEF Kinds, Data
  <2> QED
    BY <1>1, <2>1
<1>4. BucketUnits(i, v) = a \o b
  BY DEF BucketUnits
<1> HIDE DEF a, b
<1>5. /\ a \o b \in Seq(Units) /\ Len(a \o b) = Len(a) + Len(b)
      /\ \A k \in 1 .. Len(a) : (a \o b)[k] = a[k]
      /\ \A k \in 1 .. Len(b) : (a \o b)[Len(a) + k] = b[k]
  <2>1. a \in Seq(Units) /\ b \in Seq(Units)
    BY <1>2, <1>3
  <2> QED
    BY ONLY <2>1, JoinParts
<1> DEFINE c == a \o b
<1>6. c[1] = a[1] /\ c[2] = a[2] /\ \A k \in 1 .. Len(v) : c[2 + k] = b[k]
  BY <1>2, <1>3, <1>5
<1> QED
  <2>1. c \in Seq(Units) /\ Len(c) = 2 + Len(v)
    BY <1>2, <1>3, <1>5
  <2>2. c[1] = Unit("index", i) /\ c[2] = Unit("size", Len(v))
        /\ \A n \in 1 .. Len(v) : c[2 + n] = Unit("node", v[n])
    <3> HIDE DEF c
    <3> QED BY <1>2, <1>3, <1>6
  <2> QED
    BY <1>4, <2>1, <2>2

(* From unit at on, f has the buckets of a table, bucket i at pos[i].        *)
Written(f, at, t, pos) ==
  /\ pos \in [0 .. HashBasic -> Nat] /\ pos[0] = at
  /\ Len(f) = pos[HashBasic] - 1
  /\ \A i \in Buckets :
       /\ pos[i + 1] = pos[i] + 2 + Len(t.data[i])
       /\ f[pos[i]] = Unit("index", i) /\ f[pos[i] + 1] = Unit("size", Len(t.data[i]))
       /\ \A n \in 1 .. Len(t.data[i]) : f[pos[i] + 1 + n] = Unit("node", t.data[i][n])

(* Behind any other units, WriteFile writes the words and the buckets.      *)
LEMMA WrittenParts ==
  ASSUME NEW t, NEW inv, NEW map, NEW K \in SUBSET Words, Indexed(t, inv, map, K),
         NEW head \in Seq(Units)
  PROVE  /\ (head \o WriteFile(t)) \in Seq(Units)
         /\ \A k \in 1 .. Len(head) : (head \o WriteFile(t))[k] = head[k]
         /\ Len(head \o WriteFile(t)) \in Nat
         /\ Len(head \o WriteFile(t)) >= Len(head) + 2
         /\ (head \o WriteFile(t))[Len(head) + 1].data = Moved(t).words
         /\ \E pos : Written(head \o WriteFile(t), Len(head) + 3, Moved(t), pos)
<1> DEFINE m == Moved(t)
           N == HashBasic
           ss == [k \in 1 .. N |-> BucketUnits(k - 1, m.data[k - 1])]
           two == <<Unit("words", m.words), Unit("hashSize", N)>>
           H == Len(head)
<1>1. m.words \in Seq(Words) /\ \A i \in Buckets : m.data[i] \in Seq(Node)
  <2>1. Indexed(m, inv, map, K)
    BY MovedIndexed
  <2> HIDE DEF m
  <2> QED
    BY <2>1 DEF Indexed
<1>2. /\ N \in Nat /\ \A k \in 1 .. N : k - 1 \in Buckets
      /\ \A i \in Buckets : i + 1 \in 1 .. N /\ (i + 1) - 1 = i /\ i \in 0 .. N /\ i \in Nat
  BY HashBasicAssumption DEF Buckets
<1>3. WriteFile(t) = two \o FlattenSeq(ss)
  BY DEF WriteFile
<1>4. two \in Seq(Units) /\ Len(two) = 2 /\ two[1] = Unit("words", m.words)
  <2>1. Unit("words", m.words) \in Units /\ Unit("hashSize", N) \in Units
    BY <1>1, <1>2, UnitType DEF Kinds, Data
  <2> HIDE DEF m, N
  <2> QED
    BY <2>1
<1> HIDE DEF m, N
<1>5. ss \in Seq(Seq(Units)) /\ Len(ss) = N
      /\ \A i \in Buckets : ss[i + 1] = BucketUnits(i, m.data[i])
  <2>1. \A k \in 1 .. N : BucketUnits(k - 1, m.data[k - 1]) \in Seq(Units)
    BY <1>1, <1>2, BucketUnitsParts
  <2>2. \A i \in Buckets : ss[i + 1] = BucketUnits(i, m.data[i])
    BY <1>2
  <2> QED
    BY <1>2, <2>1, <2>2
<1> HIDE DEF ss, two
<1>6. \A i \in Buckets :
        /\ ss[i + 1] \in Seq(Units) /\ Len(ss[i + 1]) = 2 + Len(m.data[i])
        /\ ss[i + 1][1] = Unit("index", i) /\ ss[i + 1][2] = Unit("size", Len(m.data[i]))
        /\ \A n \in 1 .. Len(m.data[i]) : ss[i + 1][2 + n] = Unit("node", m.data[i][n])
  <2> SUFFICES ASSUME NEW i \in Buckets
               PROVE  LET b == ss[i + 1]
                      IN  /\ b \in Seq(Units) /\ Len(b) = 2 + Len(m.data[i])
                          /\ b[1] = Unit("index", i) /\ b[2] = Unit("size", Len(m.data[i]))
                          /\ \A n \in 1 .. Len(m.data[i]) : b[2 + n] = Unit("node", m.data[i][n])
    OBVIOUS
  <2> DEFINE v == m.data[i]
  <2>1. v \in Seq(Node)
    BY <1>1
  <2>2. ss[i + 1] = BucketUnits(i, v)
    BY <1>5
  <2> HIDE DEF v
  <2>3. LET b == BucketUnits(i, v)
        IN  /\ b \in Seq(Units) /\ Len(b) = 2 + Len(v)
            /\ b[1] = Unit("index", i) /\ b[2] = Unit("size", Len(v))
            /\ \A n \in 1 .. Len(v) : b[2 + n] = Unit("node", v[n])
    BY <2>1, BucketUnitsParts
  <2> QED
    BY <2>2, <2>3 DEF v
<1> DEFINE step == [p \in (1 .. N) \X Nat |-> p[2] + Len(ss[p[1]])]
<1>7. \A k \in 1 .. N : Len(ss[k]) \in Nat
  <2>1. \A k \in 1 .. N : ss[k] \in Seq(Units)
    BY <1>5
  <2> QED
    BY <2>1
<1>8. PICK before : Recursion(before, N, Nat, 0, step)
  <2>1. step \in [(1 .. N) \X Nat -> Nat] /\ 0 \in Nat
    BY <1>7
  <2> HIDE DEF step
  <2>2. \E before : Recursion(before, N, Nat, 0, step)
    BY <1>2, <2>1, RecursionExists
  <2> QED
    BY <2>2
<1>9. before \in [0 .. N -> Nat] /\ before[0] = 0
      /\ \A k \in 1 .. N : before[k] = before[k - 1] + Len(ss[k])
  <2>1. before \in [0 .. N -> Nat] /\ before[0] = 0 /\ \A k \in 1 .. N : before[k] = step[<<k, before[k - 1]>>]
    BY <1>8 DEF Recursion
  <2>2. \A k \in 1 .. N : before[k - 1] \in Nat /\ <<k, before[k - 1]>> \in (1 .. N) \X Nat
    BY <1>2, <2>1
  <2> QED
    BY <2>1, <2>2
<1> HIDE DEF step
<1> DEFINE all == FlattenSeq(ss)
<1>10. /\ all \in Seq(Units) /\ Len(all) = before[N]
       /\ \A n \in 1 .. N : \A k \in 1 .. Len(ss[n]) :
            before[n - 1] + k \in 1 .. before[N] /\ all[before[n - 1] + k] = ss[n][k]
  <2>1. ss \in Seq(Seq(Units)) /\ before \in [0 .. Len(ss) -> Nat] /\ before[0] = 0
    BY <1>5, <1>9
  <2>2. \A n \in 1 .. Len(ss) : before[n] = before[n - 1] + Len(ss[n])
    BY <1>5, <1>9
  <2>3. Laid(Units, ss, before, all)
    BY ONLY <2>1, <2>2, FlattenAt
  <2>4. Len(ss) = N
    BY <1>5
  <2> HIDE DEF all, ss, N
  <2> QED
    BY <2>3, <2>4 DEF Laid
<1> HIDE DEF all
<1> DEFINE w == two \o all
           f == head \o w
<1>11. /\ w \in Seq(Units) /\ Len(w) = 2 + before[N] /\ w[1] = two[1]
       /\ \A k \in 1 .. before[N] : w[2 + k] = all[k]
  <2>1. /\ w \in Seq(Units) /\ Len(w) = Len(two) + Len(all)
        /\ \A k \in 1 .. Len(two) : w[k] = two[k]
        /\ \A k \in 1 .. Len(all) : w[Len(two) + k] = all[k]
    <3>1. two \in Seq(Units) /\ all \in Seq(Units)
      BY <1>4, <1>10
    <3> QED
      BY ONLY <3>1, JoinParts
  <2> HIDE DEF w
  <2> QED
    BY <1>4, <1>10, <2>1
<1> HIDE DEF w
<1>12. H \in Nat /\ before[N] \in Nat
  BY <1>2, <1>9
<1>13. /\ f \in Seq(Units) /\ Len(f) = H + 2 + before[N]
       /\ \A k \in 1 .. H : f[k] = head[k]
       /\ f[H + 1] = two[1]
       /\ \A k \in 1 .. before[N] : f[H + 2 + k] = all[k]
  <2>1. /\ f \in Seq(Units) /\ Len(f) = H + Len(w)
        /\ \A k \in 1 .. H : f[k] = head[k]
        /\ \A k \in 1 .. Len(w) : f[H + k] = w[k]
    <3>1. head \in Seq(Units) /\ w \in Seq(Units)
      BY <1>11
    <3> QED
      BY ONLY <3>1, JoinParts
  <2> HIDE DEF f, H
  <2>2. f[H + 1] = w[1]
    BY <1>11, <1>12, <2>1
  <2>3. \A k \in 1 .. before[N] : f[H + 2 + k] = w[2 + k]
    <3> SUFFICES ASSUME NEW k \in 1 .. before[N] PROVE f[H + 2 + k] = w[2 + k]
      OBVIOUS
    <3>1. 2 + k \in 1 .. Len(w) /\ H + (2 + k) = H + 2 + k
      BY <1>11, <1>12
    <3>2. f[H + (2 + k)] = w[2 + k]
      BY <2>1, <3>1
    <3> QED
      BY <3>1, <3>2
  <2> QED
    <3>1. Len(f) = H + 2 + before[N]
      <4>1. Len(w) = 2 + before[N] /\ Len(f) = H + Len(w)
        BY <1>11, <2>1
      <4>2. H + (2 + before[N]) = H + 2 + before[N]
        BY ONLY <1>12
      <4> QED
        BY ONLY <4>1, <4>2
    <3>2. f[H + 1] = two[1]
      BY <1>11, <2>2
    <3>3. \A k \in 1 .. before[N] : f[H + 2 + k] = all[k]
      BY <1>11, <2>3
    <3> QED
      BY <2>1, <3>1, <3>2, <3>3
<1> HIDE DEF f, H
<1> DEFINE pos == [i \in 0 .. N |-> H + 3 + before[i]]
<1>14. /\ pos \in [0 .. N -> Nat] /\ pos[0] = H + 3 /\ Len(f) = pos[N] - 1
       /\ \A i \in 0 .. N : pos[i] = H + 3 + before[i] /\ before[i] \in Nat
  BY <1>2, <1>9, <1>12, <1>13
<1> HIDE DEF pos
<1>15. ASSUME NEW i \in Buckets
       PROVE  /\ pos[i + 1] = pos[i] + 2 + Len(m.data[i])
              /\ f[pos[i]] = Unit("index", i) /\ f[pos[i] + 1] = Unit("size", Len(m.data[i]))
              /\ \A n \in 1 .. Len(m.data[i]) : f[pos[i] + 1 + n] = Unit("node", m.data[i][n])
  <2> DEFINE b == before[i]
             s == ss[i + 1]
             D == m.data[i]
  <2>1. i + 1 \in 1 .. N /\ (i + 1) - 1 = i /\ i \in 0 .. N /\ i + 1 \in 0 .. N
    BY <1>2
  <2>2. /\ Len(s) = 2 + Len(D) /\ s[1] = Unit("index", i) /\ s[2] = Unit("size", Len(D))
        /\ \A n \in 1 .. Len(D) : s[2 + n] = Unit("node", D[n])
    BY <1>6
  <2>3. Len(D) \in Nat
    BY <1>1
  <2>4. \A k \in 1 .. Len(s) : b + k \in 1 .. before[N] /\ all[b + k] = s[k]
    BY <1>10, <2>1
  <2>5. before[i + 1] = b + Len(s) /\ pos[i] = H + 3 + b /\ b \in Nat
        /\ pos[i + 1] = H + 3 + before[i + 1]
    BY <1>9, <1>14, <2>1
  <2> HIDE DEF b, s, D
  <2>6. \A k \in 1 .. Len(s) : f[H + 2 + (b + k)] = s[k]
    BY <1>13, <2>4
  <2>7. pos[i + 1] = pos[i] + 2 + Len(D)
    BY <1>12, <2>2, <2>3, <2>5
  <2>8. 1 \in 1 .. Len(s) /\ 2 \in 1 .. Len(s) /\ H + 2 + (b + 1) = pos[i] /\ H + 2 + (b + 2) = pos[i] + 1
    BY <1>12, <2>2, <2>3, <2>5
  <2>9. f[pos[i]] = s[1] /\ f[pos[i] + 1] = s[2]
    BY <2>6, <2>8
  <2>10. ASSUME NEW n \in 1 .. Len(D)
         PROVE  f[pos[i] + 1 + n] = Unit("node", D[n])
    <3>1. 2 + n \in 1 .. Len(s) /\ H + 2 + (b + (2 + n)) = pos[i] + 1 + n
      BY <1>12, <2>2, <2>3, <2>5
    <3>2. f[pos[i] + 1 + n] = s[2 + n]
      BY <2>6, <3>1
    <3> QED
      BY <2>2, <3>2
  <2> QED
    BY <2>2, <2>7, <2>9, <2>10 DEF D
<1>16. Written(f, H + 3, m, pos)
  BY <1>14, <1>15 DEF Written, N
<1>17. f = head \o WriteFile(t)
  BY <1>3 DEF f, w, all
<1>18. two[1].data = m.words
  BY <1>4 DEF Unit
<1> QED
  BY <1>12, <1>13, <1>14, <1>16, <1>17, <1>18 DEF H, m

-----------------------------------------------------------------------------
(* The table that is read from a file that was cut.                        *)

(* f has the first n units of F, the last of them maybe only in part.       *)
CutAt(F, n, f, inside) ==
  /\ n \in 0 .. Len(F) /\ Len(f) = n
  /\ \A k \in 1 .. n : f[k] = F[k] \/ (inside /\ k = n /\ f[k] \in Torn(F[k]))

(* A prefix has the same values at its places, and is one by them.          *)
LEMMA PrefixParts ==
  ASSUME NEW V, NEW s \in Seq(V), NEW t \in Seq(V)
  PROVE  IsPrefix(s, t) <=> /\ Len(s) <= Len(t)
                            /\ \A k \in 1 .. Len(s) : s[k] = t[k]
<1> DEFINE n == Len(s)
           a == SubSeq(s, 1, n)
           b == SubSeq(t, 1, n)
<1>1. n \in Nat /\ Len(t) \in Nat
  OBVIOUS
<1>2. IsPrefix(s, t) <=> n <= Len(t) /\ a = b
  BY DEF IsPrefix
<1>3. ASSUME n <= Len(t)
      PROVE  a = b <=> \A k \in 1 .. n : s[k] = t[k]
  <2>1. a \in Seq(V) /\ b \in Seq(V) /\ Len(a) = n /\ Len(b) = n
    BY <1>1, <1>3
  <2>2. \A k \in 1 .. n : a[k] = s[k] /\ b[k] = t[k]
    BY <1>1, <1>3
  <2> HIDE DEF a, b, n
  <2>3. (\A k \in 1 .. n : a[k] = b[k]) => a = b
    BY <2>1
  <2> QED
    BY <2>2, <2>3
<1> QED
  BY <1>2, <1>3 DEF n

(* What the builder leaves is such a file; nothing is torn when it is a      *)
(* part of the whole file that ends between two units.                     *)
LEMMA CutParts ==
  ASSUME NEW F \in Seq(Units), NEW f \in Cuts(F)
  PROVE  /\ \E n : CutAt(F, n, f, TRUE)
         /\ IsPrefix(f, F) => \E n : CutAt(F, n, f, FALSE)
         /\ f = F => CutAt(F, Len(F), f, FALSE)
<1>1. Len(F) \in Nat /\ \A k \in 1 .. Len(F) : F[k] \in Units
  BY ListParts
<1>2. ASSUME NEW n \in 0 .. Len(F)
      PROVE  /\ SubSeq(F, 1, n) \in Seq(Units) /\ Len(SubSeq(F, 1, n)) = n
             /\ \A k \in 1 .. n : SubSeq(F, 1, n)[k] = F[k]
  <2>1. n \in Nat /\ n <= Len(F) /\ 0 \in Nat /\ 0 <= n /\ 0 + 1 = 1 /\ n - 0 = n
    BY <1>1
  <2>2. /\ Len(SubSeq(F, 0 + 1, n)) = n - 0
        /\ \A k \in 1 .. n - 0 : SubSeq(F, 0 + 1, n)[k] = F[0 + k]
    BY <2>1, SubSeqParts
  <2>3. \A k \in 1 .. n : 0 + k = k
    BY <2>1
  <2>4. SubSeq(F, 1, n) \in Seq(Units)
    BY <1>1, <2>1
  <2> QED
    BY <2>1, <2>2, <2>3, <2>4
<1>3. CASE \E n \in 0 .. Len(F) : f = SubSeq(F, 1, n)
  <2>1. PICK n \in 0 .. Len(F) : f = SubSeq(F, 1, n)
    BY <1>3
  <2>2. CutAt(F, n, f, TRUE) /\ CutAt(F, n, f, FALSE)
    BY <1>2, <2>1 DEF CutAt
  <2>3. f = F => n = Len(F)
    BY <2>2 DEF CutAt
  <2> QED
    BY <2>2, <2>3
<1>4. ASSUME NEW n \in 1 .. Len(F), NEW unit \in Torn(F[n]), f = Append(SubSeq(F, 1, n - 1), unit)
      PROVE  \E m : CutAt(F, m, f, TRUE)
  <2>1. n \in Nat /\ n - 1 \in 0 .. Len(F) /\ (n - 1) + 1 = n
    BY <1>1
  <2> DEFINE g == SubSeq(F, 1, n - 1)
  <2>2. g \in Seq(Units) /\ Len(g) = n - 1 /\ \A k \in 1 .. n - 1 : g[k] = F[k]
    BY <1>2, <2>1
  <2>3. f = Append(g, unit)
    BY <1>4
  <2> HIDE DEF g
  <2>4. Len(f) = n /\ f[n] = unit /\ \A k \in 1 .. n - 1 : f[k] = g[k]
    BY <2>1, <2>2, <2>3
  <2>5. ASSUME NEW k \in 1 .. n
        PROVE  f[k] = F[k] \/ (k = n /\ f[k] \in Torn(F[k]))
    <3>1. k = n \/ k \in 1 .. n - 1
      BY <2>1
    <3> QED
      BY <2>2, <2>4, <3>1
  <2>6. CutAt(F, n, f, TRUE)
    BY <2>1, <2>4, <2>5 DEF CutAt
  <2> QED
    BY <2>6
<1>5. \/ \E n \in 0 .. Len(F) : f = SubSeq(F, 1, n)
      \/ \E n \in 1 .. Len(F) : \E unit \in Torn(F[n]) : f = Append(SubSeq(F, 1, n - 1), unit)
  BY DEF Cuts
<1>6. ASSUME IsPrefix(f, F)
      PROVE  \E n : CutAt(F, n, f, FALSE)
  <2>1. PICK V : f \in Seq(V) /\ F \in Seq(V)
    <3>1. CASE \E n \in 0 .. Len(F) : f = SubSeq(F, 1, n)
      BY <1>2, <3>1
    <3>2. ASSUME NEW n \in 1 .. Len(F), NEW unit \in Torn(F[n]),
                 f = Append(SubSeq(F, 1, n - 1), unit)
          PROVE  \E V : f \in Seq(V) /\ F \in Seq(V)
      <4> DEFINE g == SubSeq(F, 1, n - 1)
                 V == Units \union {unit}
      <4>1. n - 1 \in 0 .. Len(F)
        BY <1>1
      <4>2. g \in Seq(Units)
        BY <1>2, <4>1
      <4> HIDE DEF g
      <4>3. \A x \in Seq(Units) : x \in Seq(V)
        OBVIOUS
      <4>4. g \in Seq(V) /\ F \in Seq(V) /\ unit \in V
        BY <4>2, <4>3
      <4> HIDE DEF V
      <4>5. Append(g, unit) \in Seq(V)
        BY <4>4
      <4> QED
        BY <3>2, <4>4, <4>5 DEF g
    <3> QED
      BY <1>5, <3>1, <3>2
  <2>2. Len(f) \in Nat /\ Len(f) <= Len(F) /\ \A k \in 1 .. Len(f) : f[k] = F[k]
    BY <1>6, <2>1, PrefixParts, ListParts
  <2>3. CutAt(F, Len(f), f, FALSE)
    BY <1>1, <2>2 DEF CutAt
  <2> QED
    BY <2>3
<1>7. f = F => CutAt(F, Len(F), f, FALSE)
  BY <1>1 DEF CutAt
<1> QED
  BY <1>3, <1>4, <1>5, <1>6, <1>7

-----------------------------------------------------------------------------
(* A node that a cut left of node x: its postings are the first of those of  *)
(* x, or none.                                                             *)
Shorter(x, y) == y \in Node /\ (y.end = 0 \/ (y.begin = x.begin /\ y.end <= x.end))

(* The low bytes of a number are a number that is not larger.              *)
LEMMA LowBytes ==
  ASSUME NEW e \in Nat, NEW p \in Places
  PROVE  e % p \in Nat /\ e % p <= e
<1>1. p \in Nat \ {0}
  BY PlacesAssumption
<1>2. p \in Int /\ p > 0 /\ e \in Int /\ e >= 0
  BY <1>1
<1> QED
  BY ONLY <1>2, Z3

(* What is read of a unit that was cut.                                    *)
LEMMA TornParts ==
  /\ \A x \in Node : \A y \in Torn(Unit("node", x)) : Shorter(x, y.data)
  /\ \A is \in {"index", "size"} : \A i \in Nat : \A y \in Torn(Unit(is, i)) :
       \A old \in Nat : Got(y, old) \in Nat
  /\ \A is \in {"chars", "docs", "invs", "words", "hashSize"} : \A data :
       Torn(Unit(is, data)) = {}
<1>1. \A is, data : Unit(is, data).is = is /\ Unit(is, data).data = data
  BY DEF Unit
<1>2. ASSUME NEW x \in Node, NEW y \in Torn(Unit("node", x))
      PROVE  Shorter(x, y.data)
  <2>1. x.offset \in Nat /\ x.begin \in Nat /\ x.end \in Nat
        /\ x = [offset |-> x.offset, begin |-> x.begin, end |-> x.end]
    BY DEF Node
  <2>2. \/ \E p \in Places : y = Unit("node", [offset |-> 1, begin |-> x.begin % p, end |-> 0])
        \/ \E p \in Places : y = Unit("node", [offset |-> 1, begin |-> x.begin, end |-> x.end % p])
        \/ \E o \in 1 .. x.offset : y = Unit("node", [x EXCEPT !.offset = o])
    <3>1. y \in {Unit("node", [offset |-> 1, begin |-> x.begin % p, end |-> 0]) : p \in Places}
                 \union {Unit("node", [offset |-> 1, begin |-> x.begin, end |-> x.end % p]) :
                           p \in Places}
                 \union {Unit("node", [x EXCEPT !.offset = o]) : o \in 1 .. x.offset}
      BY <1>1, <1>2 DEF Torn
    <3> QED
      BY <3>1
  <2>3. ASSUME NEW p \in Places, y = Unit("node", [offset |-> 1, begin |-> x.begin % p, end |-> 0])
        PROVE  Shorter(x, y.data)
    <3> DEFINE b == x.begin % p
    <3>1. b \in Nat
      BY <2>1, LowBytes
    <3>2. y.data = [offset |-> 1, begin |-> b, end |-> 0]
      BY <1>1, <2>3
    <3> HIDE DEF b
    <3> QED
      BY <3>1, <3>2 DEF Shorter, Node
  <2>4. ASSUME NEW p \in Places,
               y = Unit("node", [offset |-> 1, begin |-> x.begin, end |-> x.end % p])
        PROVE  Shorter(x, y.data)
    <3> DEFINE e == x.end % p
    <3>1. e \in Nat /\ e <= x.end
      BY <2>1, LowBytes
    <3>2. y.data = [offset |-> 1, begin |-> x.begin, end |-> e]
      BY <1>1, <2>4
    <3> HIDE DEF e
    <3> QED
      BY <2>1, <3>1, <3>2 DEF Shorter, Node
  <2>5. ASSUME NEW o \in 1 .. x.offset, y = Unit("node", [x EXCEPT !.offset = o])
        PROVE  Shorter(x, y.data)
    <3>1. o \in Nat
      BY <2>1
    <3>2. y.data = [x EXCEPT !.offset = o]
      BY <1>1, <2>5
    <3>3. y.data = [offset |-> o, begin |-> x.begin, end |-> x.end]
      BY <2>1, <3>2
    <3> QED
      BY <2>1, <3>1, <3>3 DEF Shorter, Node
  <2> QED
    BY <2>2, <2>3, <2>4, <2>5
<1>3. ASSUME NEW is \in {"index", "size"}, NEW i \in Nat, NEW y \in Torn(Unit(is, i)),
             NEW old \in Nat
      PROVE  Got(y, old) \in Nat
  <2>1. Torn(Unit(is, i)) = {[is |-> "part", data |-> i % p, place |-> p] : p \in Places}
    BY <1>1 DEF Torn
  <2>2. PICK p \in Places : y = [is |-> "part", data |-> i % p, place |-> p]
    BY <1>3, <2>1
  <2> DEFINE a == old % p
             b == i % p
  <2>3. a \in Nat /\ a <= old /\ b \in Nat
    BY LowBytes
  <2>4. Got(y, old) = (old - a) + b
    BY <2>2 DEF Got
  <2> HIDE DEF a, b
  <2> QED
    BY <2>3, <2>4
<1>4. ASSUME NEW is \in {"chars", "docs", "invs", "words", "hashSize"}, NEW data
      PROVE  Torn(Unit(is, data)) = {}
  BY <1>1 DEF Torn
<1> QED
  BY <1>2, <1>3, <1>4

(* The nodes that may be read: those that were written, and those that were *)
(* never read; from a file that was cut inside a node, what is left of one.  *)
ReadNodes(t, inside) ==
  {y \in Node :
     \/ y = ZeroNode
     \/ \E b \in Buckets : \E k \in 1 .. Len(t.data[b]) :
          y = t.data[b][k] \/ (inside /\ Shorter(t.data[b][k], y))}

(* The loop of ReadInFile is at a bucket of the file, or behind its end, and *)
(* has read nodes of S.                                                    *)
Reading(S, pos, n, s) ==
  /\ s = [data |-> s.data, index |-> s.index, size |-> s.size, at |-> s.at]
  /\ s.index \in Nat /\ s.size \in Nat /\ s.at \in Nat
  /\ s.at > n \/ \E i \in Buckets : s.at = pos[i]
  /\ s.data \in [Buckets -> Seq(S)]

(* A round of the loop leads to such a place; a bucket that is not cut is    *)
(* read as it was written.                                                 *)
ReadsOne(t, inside, pos, n, s, r) ==
  /\ Reading(ReadNodes(t, inside), pos, n, r)
  /\ \A i \in Buckets :
       ~inside /\ s.at = pos[i] /\ pos[i + 1] <= n + 1 =>
         r.at = pos[i + 1] /\ r.data = [s.data EXCEPT ![i] = t.data[i]]

(* A round of the loop.                                                    *)
LEMMA ReadBucketParts ==
  ASSUME NEW F \in Seq(Units), NEW at \in Nat, at > 0, NEW t, t.data \in [Buckets -> Seq(Node)],
         NEW pos, Written(F, at, t, pos), \A i \in 0 .. HashBasic : pos[i] >= at,
         NEW n, NEW f, NEW inside, CutAt(F, n, f, inside),
         NEW s, Reading(ReadNodes(t, inside), pos, n, s)
  PROVE  ReadsOne(t, inside, pos, n, s, ReadBucket(f, s))
<1> DEFINE r == ReadBucket(f, s)
           S == ReadNodes(t, inside)
           index == IF s.at <= Len(f) THEN Got(f[s.at], s.index) ELSE s.index
           size == IF s.at + 1 <= Len(f) THEN Got(f[s.at + 1], s.size) ELSE s.size
           nodes == [k \in 1 .. size |->
                       IF s.at + 1 + k <= Len(f) THEN f[s.at + 1 + k].data ELSE ZeroNode]
<1>1. /\ n \in Nat /\ Len(F) \in Nat /\ n <= Len(F) /\ Len(f) = n
      /\ \A k \in 1 .. n : f[k] = F[k] \/ (inside /\ k = n /\ f[k] \in Torn(F[k]))
      /\ \A k \in 1 .. n - 1 : f[k] = F[k]
  <2>1. Len(F) \in Nat
    BY ListParts
  <2>2. n \in Nat /\ n <= Len(F) /\ \A k \in 1 .. n - 1 : k \in 1 .. n /\ k # n
    BY <2>1 DEF CutAt
  <2> QED
    BY <2>1, <2>2 DEF CutAt
<1>2. r = [data |-> [s.data EXCEPT ![index] = nodes], index |-> index, size |-> size,
           at |-> s.at + 2 + size]
  BY DEF ReadBucket
<1> HIDE DEF r
<1>3. s.index \in Nat /\ s.size \in Nat /\ s.at \in Nat /\ s.data \in [Buckets -> Seq(S)]
  BY DEF Reading
<1>4. ZeroNode \in S
  <2>1. ZeroNode \in Node
    BY DEF ZeroNode, Node
  <2> QED
    BY <2>1 DEF ReadNodes
<1>5. ASSUME index \in Nat, size \in Nat, \A k \in 1 .. size : nodes[k] \in S,
             s.at + 2 + size > n \/ \E i \in Buckets : s.at + 2 + size = pos[i]
      PROVE  Reading(S, pos, n, r)
  <2> HIDE DEF index, size, S
  <2>1. nodes \in Seq(S)
    <3>1. nodes = [k \in 1 .. size |-> nodes[k]]
      OBVIOUS
    <3> HIDE DEF nodes
    <3> QED BY <1>5, <3>1
  <2> HIDE DEF nodes
  <2> DEFINE d == [s.data EXCEPT ![index] = nodes]
  <2>2. d \in [Buckets -> Seq(S)]
    BY <1>3, <2>1
  <2>3. r = [data |-> d, index |-> index, size |-> size, at |-> s.at + 2 + size]
    BY <1>2
  <2> HIDE DEF d
  <2>4. s.at + 2 + size \in Nat
    BY <1>3, <1>5
  <2> QED
    BY <1>5, <2>2, <2>3, <2>4 DEF Reading
<1>6. ASSUME index \in Nat, size \in Nat, s.at + 1 >= n
      PROVE  Reading(S, pos, n, r)
  <2> HIDE DEF size
  <2>1. \A k \in 1 .. size : ~(s.at + 1 + k <= Len(f))
    BY <1>1, <1>3, <1>6
  <2>2. \A k \in 1 .. size : nodes[k] = ZeroNode
    BY <2>1
  <2>3. s.at + 2 + size > n
    BY <1>1, <1>3, <1>6
  <2> HIDE DEF S, index, nodes
  <2> QED
    BY <1>4, <1>5, <1>6, <2>2, <2>3
<1>7. CASE s.at > n
  <2>1. index = s.index /\ size = s.size
    BY <1>1, <1>3, <1>7
  <2>2. Reading(S, pos, n, r)
    <3>1. s.at + 1 >= n
      BY <1>1, <1>3, <1>7
    <3> HIDE DEF S, index, size
    <3> QED BY <1>3, <1>6, <2>1, <3>1
  <2>3. ASSUME NEW i \in Buckets, s.at = pos[i], pos[i + 1] <= n + 1
        PROVE  FALSE
    <3>1. pos[i + 1] = pos[i] + 2 + Len(t.data[i]) /\ Len(t.data[i]) \in Nat
      BY DEF Written
    <3> QED
      BY <1>1, <1>3, <1>7, <2>3, <3>1
  <2> QED
    BY <2>2, <2>3 DEF r, S, ReadsOne
<1>8. CASE ~(s.at > n)
  <2>1. PICK i \in Buckets : s.at = pos[i]
    BY <1>8 DEF Reading
  <2> DEFINE D == t.data[i]
             p == pos[i]
  <2>2. /\ p \in Nat /\ p > 0 /\ p <= n /\ D \in Seq(Node) /\ Len(D) \in Nat
        /\ i + 1 \in 0 .. HashBasic /\ (i + 1 \in Buckets \/ i + 1 = HashBasic) /\ i \in Nat
    <3>1. i \in 0 .. HashBasic /\ i + 1 \in 0 .. HashBasic /\ i \in Nat
          /\ (i + 1 \in Buckets \/ i + 1 = HashBasic)
      BY HashBasicAssumption DEF Buckets
    <3>2. D \in Seq(Node)
      OBVIOUS
    <3>3. p \in Nat /\ p > 0
      <4>1. pos \in [0 .. HashBasic -> Nat]
        BY DEF Written
      <4>2. pos[i] \in Nat /\ pos[i] >= at
        BY <3>1, <4>1
      <4> QED
        BY <4>2
    <3> HIDE DEF D, p
    <3>4. p <= n
      BY <1>1, <1>3, <1>8, <2>1 DEF p
    <3> QED
      BY <3>1, <3>2, <3>3, <3>4
  <2>3. /\ pos[i + 1] = p + 2 + Len(D)
        /\ F[p] = Unit("index", i) /\ F[p + 1] = Unit("size", Len(D))
        /\ \A k \in 1 .. Len(D) : F[p + 1 + k] = Unit("node", D[k])
        /\ Len(F) = pos[HashBasic] - 1
    BY DEF Written
  <2>4. \A is \in {"index", "size"} : \A j \in Nat : Got(Unit(is, j), s.size) = j /\ Got(Unit(is, j), s.index) = j
    BY DEF Got, Unit
  <2> HIDE DEF D, p
  <2>5. s.at = p /\ p \in 1 .. n
    BY <1>1, <2>1, <2>2 DEF p
  <2>6. CASE p = n
    <3>1. size = s.size
      BY <1>1, <2>2, <2>5, <2>6
    <3>2. index \in Nat
      <4>1. index = Got(f[p], s.index)
        BY <1>1, <2>5
      <4> HIDE DEF index
      <4>2. CASE f[p] = F[p]
        <5>1. index = i
          BY <2>2, <2>3, <2>4, <4>1, <4>2
        <5> QED
          BY <2>2, <5>1
      <4>3. CASE f[p] \in Torn(F[p])
        BY <1>3, <2>2, <2>3, <4>1, <4>3, TornParts
      <4> QED
        BY <1>1, <2>5, <4>2, <4>3
    <3>3. Reading(S, pos, n, r)
      <4>1. s.at + 1 >= n
        BY <1>1, <2>2, <2>5, <2>6
      <4> HIDE DEF S, index, size
      <4> QED BY <1>3, <1>6, <3>1, <3>2, <4>1
    <3>4. ASSUME NEW j \in Buckets, s.at = pos[j], pos[j + 1] <= n + 1
          PROVE  FALSE
      <4>1. pos[j + 1] = pos[j] + 2 + Len(t.data[j]) /\ Len(t.data[j]) \in Nat
        BY DEF Written
      <4> DEFINE L == Len(t.data[j])
      <4>2. L \in Nat /\ p + 2 + L <= n + 1
        BY <2>5, <3>4, <4>1
      <4> HIDE DEF L
      <4> QED
        BY ONLY <1>1, <2>6, <4>2
    <3> QED
      BY <3>3, <3>4 DEF r, S, ReadsOne
  <2>7. CASE p < n
    <3>1. p \in 1 .. n - 1 /\ p + 1 \in 1 .. n /\ s.at + 1 = p + 1
      BY <1>1, <2>2, <2>5, <2>7
    <3>2. index = i
      <4>1. index = Got(f[p], s.index) /\ f[p] = F[p]
        BY <1>1, <2>5, <3>1
      <4> HIDE DEF index
      <4> QED
        BY <2>2, <2>3, <2>4, <4>1
    <3>3. size = Got(f[p + 1], s.size)
      BY <1>1, <2>5, <3>1
    <3>4. CASE f[p + 1] # F[p + 1]
      <4>1. inside /\ p + 1 = n /\ f[p + 1] \in Torn(F[p + 1])
        BY <1>1, <3>1, <3>4
      <4>2. size \in Nat
        <5> HIDE DEF size
        <5> QED BY <1>3, <2>2, <2>3, <3>3, <4>1, TornParts
      <4>3. Reading(S, pos, n, r)
        <5>1. s.at + 1 >= n /\ index \in Nat
          BY <1>1, <2>2, <3>1, <3>2, <4>1
        <5> HIDE DEF S, index, size
        <5> QED BY <1>6, <4>2, <5>1
      <4> QED
        BY <4>1, <4>3 DEF r, S, ReadsOne
    <3>5. CASE f[p + 1] = F[p + 1]
      <4>1. size = Len(D)
        <5> HIDE DEF size
        <5> QED BY <2>2, <2>3, <2>4, <3>3, <3>5
      <4> HIDE DEF size
      <4>2. \A k \in 1 .. size : nodes[k] = IF p + 1 + k <= n THEN f[p + 1 + k].data ELSE ZeroNode
        BY <1>1, <2>5
      <4> HIDE DEF nodes
      <4>3. ASSUME NEW k \in 1 .. size
            PROVE  /\ nodes[k] \in S
                   /\ ~inside /\ p + 1 + k <= n => nodes[k] = D[k]
        <5>1. CASE ~(p + 1 + k <= n)
          BY <1>4, <4>2, <5>1
        <5>2. CASE p + 1 + k <= n
          <6> DEFINE u == f[p + 1 + k]
          <6>1. p + 1 + k \in 1 .. n /\ k \in 1 .. Len(D)
            BY <1>1, <2>2, <4>1, <5>2
          <6>2. u = Unit("node", D[k]) \/ (inside /\ u \in Torn(Unit("node", D[k])))
            BY <1>1, <2>3, <6>1
          <6>3. nodes[k] = u.data
            BY <4>2, <5>2
          <6>4. D[k] \in Node
            BY <2>2, <6>1, ListParts
          <6>5. Unit("node", D[k]).data = D[k]
            BY DEF Unit
          <6> HIDE DEF u
          <6>6. CASE u = Unit("node", D[k])
            <7>1. nodes[k] = D[k]
              BY <6>3, <6>5, <6>6
            <7>2. D[k] \in S
              BY <6>1, <6>4 DEF ReadNodes, D
            <7> QED
              BY <7>1, <7>2
          <6>7. CASE inside /\ u \in Torn(Unit("node", D[k]))
            <7>1. Shorter(D[k], nodes[k])
              BY <6>3, <6>4, <6>7, TornParts
            <7>2. nodes[k] \in S
              BY <6>1, <6>7, <7>1 DEF ReadNodes, D, Shorter
            <7> QED
              BY <6>7, <7>2
          <6> QED
            BY <6>2, <6>6, <6>7
        <5> QED
          BY <5>1, <5>2
      <4>4. s.at + 2 + size = pos[i + 1]
        BY <2>3, <2>5, <4>1
      <4>5. pos[i + 1] > n \/ i + 1 \in Buckets
        <5>1. CASE i + 1 = HashBasic
          <6>1. Len(F) = pos[i + 1] - 1 /\ pos[i + 1] \in Nat
            BY <2>2, <2>3, <5>1
          <6> QED
            BY <1>1, <6>1
        <5> QED
          BY <2>2, <5>1
      <4>6. Reading(S, pos, n, r)
        <5>1. index \in Nat /\ size \in Nat
          BY <2>2, <3>2, <4>1
        <5>2. \A k \in 1 .. size : nodes[k] \in S
          BY <4>3
        <5>3. s.at + 2 + size > n \/ \E j \in Buckets : s.at + 2 + size = pos[j]
          BY <4>4, <4>5
        <5> HIDE DEF S, index
        <5> QED
          BY <1>5, <5>1, <5>2, <5>3
      <4>7. ASSUME ~inside, NEW j \in Buckets, s.at = pos[j], pos[j + 1] <= n + 1
            PROVE  r.at = pos[j + 1] /\ r.data = [s.data EXCEPT ![j] = t.data[j]]
        <5>1. j = i
          <6>1. F[pos[j]] = Unit("index", j)
            BY DEF Written
          <6>2. Unit("index", j).data = j /\ Unit("index", i).data = i
            BY DEF Unit
          <6> QED
            BY <2>3, <2>5, <4>7, <6>1, <6>2
        <5>2. nodes = D
          <6>1. \A k \in 1 .. Len(D) : p + 1 + k <= n
            BY <1>1, <2>2, <2>3, <4>7, <5>1
          <6>2. \A k \in 1 .. Len(D) : nodes[k] = D[k]
            BY <4>1, <4>3, <4>7, <6>1
          <6>3. nodes = [k \in 1 .. Len(D) |-> nodes[k]]
            BY <4>1 DEF nodes
          <6>4. D = [k \in 1 .. Len(D) |-> D[k]]
            BY <2>2
          <6> QED
            BY <6>2, <6>3, <6>4
        <5>3. r.at = s.at + 2 + size /\ r.data = [s.data EXCEPT ![index] = nodes]
          BY <1>2
        <5> QED
          BY <3>2, <4>4, <5>1, <5>2, <5>3 DEF D
      <4> QED
        BY <4>6, <4>7 DEF r, S, ReadsOne
    <3> QED
      BY <3>4, <3>5
  <2> QED
    BY <1>1, <2>2, <2>6, <2>7
<1> QED
  BY <1>7, <1>8

(* A later bucket is further behind.                                       *)
LEMMA WrittenGrows ==
  ASSUME NEW F, NEW at \in Nat, NEW t, t.data \in [Buckets -> Seq(Node)],
         NEW pos, Written(F, at, t, pos), NEW i \in 0 .. HashBasic
  PROVE  \A j \in i .. HashBasic : pos[j] >= pos[i]
<1> DEFINE S == {j \in Nat : pos[j] >= pos[i]}
<1>1. HashBasic \in Nat /\ pos \in [0 .. HashBasic -> Nat] /\ i \in Nat /\ pos[i] \in Nat
  BY HashBasicAssumption DEF Written
<1>2. i \in S
  BY <1>1
<1>3. ASSUME NEW j \in i .. HashBasic - 1, j \in S
      PROVE  j + 1 \in S
  <2>1. j \in Buckets /\ j \in 0 .. HashBasic /\ j \in Nat
    BY <1>1 DEF Buckets
  <2>2. pos[j + 1] = pos[j] + 2 + Len(t.data[j])
    BY <2>1 DEF Written
  <2>3. t.data[j] \in Seq(Node)
    BY <2>1
  <2>4. Len(t.data[j]) \in Nat /\ pos[j] \in Nat
    BY <1>1, <2>1, <2>3
  <2> DEFINE L == Len(t.data[j])
  <2> HIDE DEF L
  <2>5. pos[j + 1] >= pos[j]
    BY <2>2, <2>4 DEF L
  <2> QED
    BY <1>1, <1>3, <2>1, <2>2, <2>4, <2>5
<1>4. \A j \in i .. HashBasic : j \in S
  <2> HIDE DEF S
  <2>1. i <= HashBasic => i \in S
    BY <1>2
  <2>2. \A j \in i .. HashBasic - 1 : j \in S => j + 1 \in S
    BY <1>3
  <2>3. HashBasic \in Int /\ i \in Int
    BY <1>1
  <2> QED
    BY ONLY <2>1, <2>2, <2>3, Induction
<1> QED
  BY <1>4

(* Whatever the two variables held and wherever the file was cut, every node *)
(* read is of ReadNodes; from a whole file every bucket is read.            *)
LEMMA ReadParts ==
  ASSUME NEW F \in Seq(Units), NEW at \in Nat, at > 0, NEW t, t.data \in [Buckets -> Seq(Node)],
         NEW pos, Written(F, at, t, pos),
         NEW n, NEW f, NEW inside, CutAt(F, n, f, inside),
         NEW index0 \in Buckets, NEW size0 \in Nat
  PROVE  /\ ReadBuckets(f, at, index0, size0) \in [Buckets -> Seq(ReadNodes(t, inside))]
         /\ ~inside /\ n = Len(F) => ReadBuckets(f, at, index0, size0) = t.data
<1> DEFINE N == HashBasic
           S0 == ReadNodes(t, inside)
           T == {s \in [data : [Buckets -> Seq(S0)], index : Nat, size : Nat, at : Nat] :
                   Reading(S0, pos, n, s)}
           start == [data |-> NoData, index |-> index0, size |-> size0, at |-> at]
           Fits(g) == g = [i \in 0 .. N |-> IF i = 0 THEN start ELSE ReadBucket(f, g[i - 1])]
           read == CHOOSE g : Fits(g)
           step == [p \in (1 .. N) \X T |-> ReadBucket(f, p[2])]
<1>1. N \in Nat /\ 0 \in Buckets /\ pos[0] = at
  BY HashBasicAssumption DEF Buckets, Written
<1>2. \A i \in 0 .. N : pos[i] >= at
  <2>1. 0 \in 0 .. N
    BY <1>1
  <2>2. \A j \in 0 .. N : pos[j] >= pos[0]
    BY <2>1, WrittenGrows
  <2> QED
    BY <1>1, <2>2
<1>3. ReadBuckets(f, at, index0, size0) = read[N].data
  BY DEF ReadBuckets
<1> HIDE DEF S0
<1>4. ASSUME NEW s, Reading(S0, pos, n, s)
      PROVE  s \in T
  BY <1>4 DEF Reading
<1>5. ASSUME NEW s, Reading(S0, pos, n, s)
      PROVE  /\ Reading(S0, pos, n, ReadBucket(f, s))
             /\ \A i \in Buckets :
                  ~inside /\ s.at = pos[i] /\ pos[i + 1] <= n + 1 =>
                    /\ ReadBucket(f, s).at = pos[i + 1]
                    /\ ReadBucket(f, s).data = [s.data EXCEPT ![i] = t.data[i]]
  <2>1. /\ F \in Seq(Units) /\ at \in Nat /\ at > 0 /\ t.data \in [Buckets -> Seq(Node)]
        /\ Written(F, at, t, pos) /\ CutAt(F, n, f, inside)
        /\ Reading(ReadNodes(t, inside), pos, n, s)
        /\ \A i \in 0 .. HashBasic : pos[i] >= at
    BY <1>2, <1>5 DEF S0
  <2>2. ReadsOne(t, inside, pos, n, s, ReadBucket(f, s))
    BY ONLY <2>1, ReadBucketParts
  <2> QED
    BY <2>2 DEF S0, ReadsOne
<1>6. start \in T
  <2>1. NoData \in [Buckets -> Seq(S0)]
    BY DEF NoData
  <2>2. \A i \in Buckets : i \in Nat
    BY HashBasicAssumption DEF Buckets
  <2>3. Reading(S0, pos, n, start)
    BY <1>1, <2>1, <2>2 DEF Reading
  <2> HIDE DEF start, T
  <2> QED
    BY <1>4, <2>3
<1>7. step \in [(1 .. N) \X T -> T]
  <2>1. \A s \in T : Reading(S0, pos, n, s)
    OBVIOUS
  <2> HIDE DEF T, N
  <2>2. \A s \in T : ReadBucket(f, s) \in T
    BY <1>4, <1>5, <2>1
  <2> QED
    BY <2>2
<1>8. PICK g : Recursion(g, N, T, start, step)
  <2> HIDE DEF step, start, T, N
  <2>1. \E g : Recursion(g, N, T, start, step)
    BY <1>1, <1>6, <1>7, RecursionExists
  <2> QED
    BY <2>1
<1>9. /\ g \in [0 .. N -> T] /\ g[0] = start
      /\ \A i \in 1 .. N : g[i] = ReadBucket(f, g[i - 1])
  <2> HIDE DEF T, N, start
  <2>1. g \in [0 .. N -> T] /\ g[0] = start /\ \A i \in 1 .. N : g[i] = step[<<i, g[i - 1]>>]
    <3> HIDE DEF step
    <3> QED BY <1>8 DEF Recursion
  <2>2. \A i \in 1 .. N : g[i - 1] \in T /\ <<i, g[i - 1]>> \in (1 .. N) \X T
    BY <1>1, <2>1
  <2> QED
    BY <2>1, <2>2
<1>10. Fits(g)
  <2> HIDE DEF T, start
  <2>1. \A i \in 0 .. N : i = 0 \/ i \in 1 .. N
    BY <1>1
  <2> HIDE DEF N
  <2> QED
    BY <1>9, <2>1
<1>11. Fits(read)
  <2> HIDE DEF Fits
  <2> QED BY <1>10
<1>12. \A i \in 0 .. N : read[i] = IF i = 0 THEN start ELSE ReadBucket(f, read[i - 1])
  <2> HIDE DEF read
  <2> QED BY <1>11
<1> HIDE DEF read
<1> DEFINE Known(i) == ~inside /\ n = Len(F) => /\ read[i].at = pos[i]
                                                /\ \A b \in Buckets : b < i => read[i].data[b] = t.data[b]
           S == {i \in 0 .. N : Reading(S0, pos, n, read[i]) /\ Known(i)}
<1>13. 0 \in S
  <2>1. read[0] = start /\ 0 \in 0 .. N
    BY <1>1, <1>12
  <2>2. start.at = at /\ \A b \in Buckets : ~(b < 0)
    BY HashBasicAssumption DEF Buckets
  <2>3. Reading(S0, pos, n, start)
    BY <1>6
  <2> HIDE DEF start
  <2> QED
    BY <1>1, <2>1, <2>2, <2>3
<1>14. ASSUME NEW i \in 0 .. N - 1, i \in S
       PROVE  i + 1 \in S
  <2>1. /\ i + 1 \in 0 .. N /\ i + 1 # 0 /\ (i + 1) - 1 = i /\ i \in Buckets
        /\ \A b \in Buckets : b < i + 1 => b < i \/ b = i
    BY <1>1 DEF Buckets
  <2> DEFINE s == read[i]
  <2>2. read[i + 1] = ReadBucket(f, s)
    BY <1>12, <2>1
  <2>3. Reading(S0, pos, n, s) /\ Known(i)
    BY <1>14
  <2>4. Reading(S0, pos, n, read[i + 1])
    <3> HIDE DEF s
    <3> QED BY <1>5, <2>2, <2>3
  <2>5. ASSUME ~inside, n = Len(F)
        PROVE  /\ read[i + 1].at = pos[i + 1]
               /\ \A b \in Buckets : b < i + 1 => read[i + 1].data[b] = t.data[b]
    <3>1. pos[i + 1] <= n + 1
      <4>1. \A j \in i + 1 .. HashBasic : pos[j] >= pos[i + 1]
        BY <2>1, WrittenGrows
      <4>2. N \in i + 1 .. N
        BY <1>1, <2>1
      <4>3. pos[N] >= pos[i + 1] /\ Len(F) = pos[N] - 1 /\ pos[N] \in Nat /\ pos[i + 1] \in Nat
        BY <1>1, <2>1, <4>1, <4>2 DEF Written
      <4> QED
        BY <2>5, <4>3
    <3>2. s.at = pos[i] /\ \A b \in Buckets : b < i => s.data[b] = t.data[b]
      BY <2>3, <2>5
    <3> HIDE DEF s
    <3>3. read[i + 1].at = pos[i + 1] /\ read[i + 1].data = [s.data EXCEPT ![i] = t.data[i]]
      <4>1. \A j \in Buckets :
              ~inside /\ s.at = pos[j] /\ pos[j + 1] <= n + 1 =>
                /\ ReadBucket(f, s).at = pos[j + 1]
                /\ ReadBucket(f, s).data = [s.data EXCEPT ![j] = t.data[j]]
        BY <1>5, <2>3
      <4> QED
        BY <2>1, <2>2, <2>5, <3>1, <3>2, <4>1
    <3>4. s.data \in [Buckets -> Seq(S0)]
      BY <2>3 DEF Reading
    <3> QED
      BY <2>1, <3>2, <3>3, <3>4
  <2>6. Known(i + 1)
    BY <2>5
  <2> HIDE DEF Known
  <2> QED
    BY <2>1, <2>4, <2>6
<1>15. \A i \in 0 .. N : i \in S
  <2> HIDE DEF S, N
  <2>1. 0 <= N => 0 \in S
    BY <1>13
  <2>2. \A i \in 0 .. N - 1 : i \in S => i + 1 \in S
    BY <1>14
  <2>3. N \in Int /\ 0 \in Int
    BY <1>1
  <2> QED
    BY ONLY <2>1, <2>2, <2>3, Induction
<1>16. Reading(S0, pos, n, read[N]) /\ Known(N)
  <2>1. N \in 0 .. N
    BY <1>1
  <2> HIDE DEF N, Known
  <2> QED
    BY <1>15, <2>1
<1>17. read[N].data \in [Buckets -> Seq(S0)]
  BY <1>16 DEF Reading
<1>18. ASSUME ~inside, n = Len(F) PROVE read[N].data = t.data
  <2>1. \A b \in Buckets : b < N
    BY <1>1 DEF Buckets
  <2>2. \A b \in Buckets : read[N].data[b] = t.data[b]
    BY <1>16, <1>18, <2>1
  <2>3. read[N].data \in [Buckets -> Seq(S0)]
    BY <1>17
  <2> HIDE DEF N
  <2> QED
    BY <2>2, <2>3
<1> QED
  BY <1>3, <1>17, <1>18 DEF S0

-----------------------------------------------------------------------------
(* The binary search.                                                      *)

(* The range of the search and what it found, if anything.                 *)
SearchRange(v) == [left : 1 .. Len(v) + 1, right : 0 .. Len(v), at : 0 .. Len(v)]

(* One round: the range is halved, and word w, if it is in the range, is    *)
(* found or stays in it.                                                   *)
LEMMA ProbeParts ==
  ASSUME NEW words, NEW v \in Seq(Node), NEW w \in Int, NEW s \in SearchRange(v),
         s.at # 0 => words[v[s.at].offset] = w
  PROVE  /\ Probe(words, v, w, s) \in SearchRange(v)
         /\ Probe(words, v, w, s).at # 0 => words[v[Probe(words, v, w, s).at].offset] = w
         /\ \A p \in 1 .. Len(v) :
              InOrder(words, v) /\ words[v[p].offset] = w /\ p \in s.left .. s.right =>
                \/ Probe(words, v, w, s).at # 0
                \/ /\ p \in Probe(words, v, w, s).left .. Probe(words, v, w, s).right
                   /\ Probe(words, v, w, s).right - Probe(words, v, w, s).left
                        < s.right - s.left
<1> DEFINE r == Probe(words, v, w, s)
           mid == (s.left + s.right) \div 2
           mark == words[v[mid].offset]
           N == Len(v)
<1>1. N \in Nat /\ s.left \in 1 .. N + 1 /\ s.right \in 0 .. N /\ s.at \in 0 .. N
      /\ s = [left |-> s.left, right |-> s.right, at |-> s.at]
  BY DEF SearchRange
<1>2. r = IF s.right < s.left \/ s.at # 0 THEN s
          ELSE IF w = mark THEN [s EXCEPT !.at = mid]
          ELSE IF w > mark THEN [s EXCEPT !.left = mid + 1]
          ELSE [s EXCEPT !.right = mid - 1]
  BY DEF Probe
<1> HIDE DEF r, N
<1> SUFFICES /\ r \in SearchRange(v)
             /\ r.at # 0 => words[v[r.at].offset] = w
             /\ \A p \in 1 .. N :
                  InOrder(words, v) /\ words[v[p].offset] = w /\ p \in s.left .. s.right =>
                    \/ r.at # 0
                    \/ p \in r.left .. r.right /\ r.right - r.left < s.right - s.left
  BY DEF r, N
<1>3. CASE s.right < s.left \/ s.at # 0
  <2>1. r = s
    BY <1>2, <1>3
  <2>2. ASSUME NEW p \in 1 .. N, p \in s.left .. s.right
        PROVE  s.at # 0
    BY <1>1, <1>3, <2>2
  <2> QED
    BY <2>1, <2>2
<1>4. CASE ~(s.right < s.left) /\ s.at = 0
  <2>1. mid \in Nat /\ mid \in 1 .. N /\ s.left <= mid /\ mid <= s.right
    BY <1>1, <1>4
  <2>2. \A p \in 1 .. N : InOrder(words, v) =>
          /\ words[v[p].offset] \in Int /\ mark \in Int
          /\ p < mid => words[v[p].offset] < mark
          /\ mid < p => mark < words[v[p].offset]
          /\ mid = p => mark = words[v[p].offset]
    BY <2>1 DEF InOrder, N
  <2> HIDE DEF mid, mark
  <2>3. CASE w = mark
    <3>1. r = [left |-> s.left, right |-> s.right, at |-> mid]
      BY <1>1, <1>2, <1>4, <2>3
    <3>2. r \in SearchRange(v) /\ r.at = mid /\ mid # 0
      BY <1>1, <2>1, <3>1 DEF SearchRange, N
    <3>3. words[v[mid].offset] = w
      BY <2>3 DEF mark
    <3> QED
      BY <3>2, <3>3
  <2>4. CASE w # mark /\ w > mark
    <3>1. r = [left |-> mid + 1, right |-> s.right, at |-> s.at]
      BY <1>1, <1>2, <1>4, <2>4
    <3>2. r \in SearchRange(v) /\ r.at = 0 /\ r.left = mid + 1 /\ r.right = s.right
      BY <1>1, <1>4, <2>1, <3>1 DEF SearchRange, N
    <3>3. ASSUME NEW p \in 1 .. N, InOrder(words, v), words[v[p].offset] = w,
                 p \in s.left .. s.right
          PROVE  p \in r.left .. r.right /\ r.right - r.left < s.right - s.left
      <4>1. p > mid
        <5>1. p < mid => w < mark
          BY <2>2, <3>3
        <5>2. p # mid /\ mark \in Int
          BY <2>2, <2>4, <3>3
        <5> QED
          BY <1>1, <2>1, <2>4, <5>1, <5>2
      <4> QED
        BY <1>1, <2>1, <3>2, <3>3, <4>1
    <3> QED
      BY <3>2, <3>3
  <2>5. CASE w # mark /\ ~(w > mark)
    <3>1. r = [left |-> s.left, right |-> mid - 1, at |-> s.at]
      BY <1>1, <1>2, <1>4, <2>5
    <3>2. r \in SearchRange(v) /\ r.at = 0 /\ r.left = s.left /\ r.right = mid - 1
      BY <1>1, <1>4, <2>1, <3>1 DEF SearchRange, N
    <3>3. ASSUME NEW p \in 1 .. N, InOrder(words, v), words[v[p].offset] = w,
                 p \in s.left .. s.right
          PROVE  p \in r.left .. r.right /\ r.right - r.left < s.right - s.left
      <4>1. p < mid
        <5>1. mid < p => mark < w
          BY <2>2, <3>3
        <5>2. p # mid /\ mark \in Int
          BY <2>2, <2>5, <3>3
        <5> QED
          BY <1>1, <2>1, <2>5, <5>1, <5>2
      <4> QED
        BY <1>1, <2>1, <3>2, <3>3, <4>1
    <3> QED
      BY <3>2, <3>3
  <2> QED
    BY <2>3, <2>4, <2>5
<1> QED
  BY <1>3, <1>4

(* What is found is the word that was looked for; in a bucket in order a     *)
(* word that is there is found.                                            *)
LEMMA BisectParts ==
  ASSUME NEW words, NEW v \in Seq(Node), NEW w \in Int
  PROVE  /\ Bisect(words, v, w) \in 0 .. Len(v)
         /\ Bisect(words, v, w) # 0 => words[v[Bisect(words, v, w)].offset] = w
         /\ \A p \in 1 .. Len(v) :
              InOrder(words, v) /\ words[v[p].offset] = w => Bisect(words, v, w) # 0
<1> DEFINE N == Len(v)
           T == {s \in SearchRange(v) : s.at # 0 => words[v[s.at].offset] = w}
           start == [left |-> 1, right |-> N, at |-> 0]
           Fits(f) == f = [n \in 0 .. N |-> IF n = 0 THEN start ELSE Probe(words, v, w, f[n - 1])]
           probe == CHOOSE f : Fits(f)
           step == [p \in (1 .. N) \X T |-> Probe(words, v, w, p[2])]
<1>1. N \in Nat /\ Bisect(words, v, w) = probe[N].at
  BY DEF Bisect
<1>2. start \in T /\ start.left = 1 /\ start.right = N /\ start.at = 0
  BY DEF SearchRange
<1>3. \A s \in T : s \in SearchRange(v) /\ (s.at # 0 => words[v[s.at].offset] = w)
  OBVIOUS
<1>4. \A s \in SearchRange(v) : (s.at # 0 => words[v[s.at].offset] = w) => s \in T
  OBVIOUS
<1> HIDE DEF N, T, start
<1>5. \A s \in T :
        /\ Probe(words, v, w, s) \in T
        /\ \A p \in 1 .. N :
             InOrder(words, v) /\ words[v[p].offset] = w /\ p \in s.left .. s.right =>
               \/ Probe(words, v, w, s).at # 0
               \/ /\ p \in Probe(words, v, w, s).left .. Probe(words, v, w, s).right
                  /\ Probe(words, v, w, s).right - Probe(words, v, w, s).left
                       < s.right - s.left
  BY <1>3, <1>4, ProbeParts DEF N
<1>6. step \in [(1 .. N) \X T -> T]
  BY <1>5
<1>7. PICK f : Recursion(f, N, T, start, step)
  <2> HIDE DEF step
  <2>1. \E f : Recursion(f, N, T, start, step)
    BY <1>1, <1>2, <1>6, RecursionExists
  <2> QED
    BY <2>1
<1>8. /\ f \in [0 .. N -> T] /\ f[0] = start
      /\ \A n \in 1 .. N : f[n] = Probe(words, v, w, f[n - 1])
  <2>1. f \in [0 .. N -> T] /\ f[0] = start /\ \A n \in 1 .. N : f[n] = step[<<n, f[n - 1]>>]
    <3> HIDE DEF step
    <3> QED BY <1>7 DEF Recursion
  <2>2. \A n \in 1 .. N : f[n - 1] \in T /\ <<n, f[n - 1]>> \in (1 .. N) \X T
    BY <1>1, <2>1
  <2> QED
    BY <2>1, <2>2
<1>9. Fits(f)
  BY <1>1, <1>8
<1>10. Fits(probe)
  <2> HIDE DEF Fits
  <2> QED BY <1>9
<1>11. \A n \in 0 .. N : probe[n] = IF n = 0 THEN start ELSE Probe(words, v, w, probe[n - 1])
  <2> HIDE DEF probe
  <2> QED BY <1>10
<1> HIDE DEF probe
<1> DEFINE HeldAt(n) == \A p \in 1 .. N :
                        InOrder(words, v) /\ words[v[p].offset] = w =>
                          \/ probe[n].at # 0
                          \/ /\ p \in probe[n].left .. probe[n].right
                             /\ probe[n].right - probe[n].left < N - n
           S == {n \in 0 .. N : probe[n] \in T /\ HeldAt(n)}
<1>12. 0 \in S
  <2>1. probe[0] = start /\ 0 \in 0 .. N
    BY <1>1, <1>11
  <2> QED
    BY <1>1, <1>2, <2>1
<1>13. ASSUME NEW n \in 0 .. N - 1, n \in S
       PROVE  n + 1 \in S
  <2> DEFINE s == probe[n]
             r == Probe(words, v, w, s)
  <2>1. n + 1 \in 0 .. N /\ n + 1 # 0 /\ (n + 1) - 1 = n /\ n \in Nat
    BY <1>1
  <2>2. probe[n + 1] = r
    BY <1>11, <2>1
  <2>3. s \in T /\ HeldAt(n)
    BY <1>13
  <2>4. /\ r \in T
        /\ \A p \in 1 .. N :
             InOrder(words, v) /\ words[v[p].offset] = w /\ p \in s.left .. s.right =>
               r.at # 0 \/ (p \in r.left .. r.right /\ r.right - r.left < s.right - s.left)
    BY <1>5, <2>3
  <2>5. s.left \in Int /\ s.right \in Int /\ r.left \in Int /\ r.right \in Int
    BY <1>3, <2>3, <2>4 DEF SearchRange
  <2>6. s.at # 0 => r.at # 0
    BY DEF Probe
  <2> HIDE DEF r
  <2>7. HeldAt(n + 1)
    <3> SUFFICES ASSUME NEW p \in 1 .. N, InOrder(words, v), words[v[p].offset] = w, r.at = 0
                 PROVE  p \in r.left .. r.right /\ r.right - r.left < N - (n + 1)
      BY <2>2
    <3>1. p \in s.left .. s.right /\ s.right - s.left < N - n
      BY <2>3, <2>6
    <3>2. p \in r.left .. r.right /\ r.right - r.left < s.right - s.left
      BY <2>4, <3>1
    <3> HIDE DEF s
    <3> QED
      BY <1>1, <2>1, <2>5, <3>1, <3>2
  <2> HIDE DEF HeldAt
  <2> QED
    BY <2>1, <2>2, <2>4, <2>7
<1>14. \A n \in 0 .. N : n \in S
  <2> HIDE DEF S
  <2>1. 0 <= N => 0 \in S
    BY <1>12
  <2>2. \A n \in 0 .. N - 1 : n \in S => n + 1 \in S
    BY <1>13
  <2>3. N \in Int /\ 0 \in Int
    BY <1>1
  <2> QED
    BY ONLY <2>1, <2>2, <2>3, Induction
<1>15. probe[N] \in T /\ HeldAt(N)
  <2>1. N \in 0 .. N
    BY <1>1
  <2> HIDE DEF HeldAt
  <2> QED
    BY <1>14, <2>1
<1>16. probe[N].at \in 0 .. N /\ (probe[N].at # 0 => words[v[probe[N].at].offset] = w)
  BY <1>3, <1>15 DEF SearchRange, N
<1>17. ASSUME NEW p \in 1 .. N, InOrder(words, v), words[v[p].offset] = w
       PROVE  probe[N].at # 0
  <2> SUFFICES ASSUME probe[N].at = 0 PROVE FALSE
    OBVIOUS
  <2>1. p \in probe[N].left .. probe[N].right /\ probe[N].right - probe[N].left < N - N
    BY <1>15, <1>17
  <2>2. probe[N].left \in Int /\ probe[N].right \in Int
    BY <1>3, <1>15 DEF SearchRange
  <2> QED
    BY <1>1, <2>1, <2>2
<1> QED
  BY <1>1, <1>16, <1>17 DEF N

-----------------------------------------------------------------------------
(* The lists of postings.                                                  *)

(* What becomes a doc: the questions with words, in the order of the log.   *)
LEMMA DocsParts ==
  ASSUME NEW log \in Logs
  PROVE  LET questions == [i \in 1 .. Len(log) |-> log[i].question]
         IN  /\ Docs(log) \in Seq(Text)
             /\ Docs(log) = Pick(questions, {i \in DOMAIN questions : Length(questions[i]) >= 2})
             /\ \A n \in 1 .. Len(Docs(log)) : Segment_(Docs(log)[n]) # <<>>
             /\ \A i \in 1 .. Len(log) :
                  Length(log[i].question) >= 2 =>
                    \E n \in 1 .. Len(Docs(log)) : Docs(log)[n] = log[i].question
<1> DEFINE questions == [i \in 1 .. Len(log) |-> log[i].question]
           I == {i \in DOMAIN questions : Length(questions[i]) >= 2}
<1>1. /\ questions \in Seq(Text) /\ DOMAIN questions = 1 .. Len(log)
      /\ \A i \in 1 .. Len(log) : questions[i] = log[i].question /\ questions[i] # <<>>
  <2>1. Len(log) \in Nat /\ \A i \in 1 .. Len(log) : log[i].question \in Text /\ log[i].question # <<>>
    BY LogType
  <2> QED
    BY <2>1
<1> HIDE DEF questions
<1>2. \A i \in DOMAIN questions : Segment_(questions[i]) # <<>> <=> Length(questions[i]) >= 2
  <2> SUFFICES ASSUME NEW i \in DOMAIN questions
               PROVE  Segment_(questions[i]) # <<>> <=> Length(questions[i]) >= 2
    OBVIOUS
  <2>1. Length(questions[i]) \in Nat /\ questions[i] # <<>>
    <3>1. questions[i] \in Text
      BY <1>1, ListParts
    <3> QED
      BY <1>1, <3>1, LengthType
  <2> QED
    BY <2>1 DEF Segment_
<1>3. {i \in DOMAIN questions : Segment_(questions[i]) # <<>>} = I
  BY <1>2
<1>4. Docs(log) = Pick(questions, I)
  BY <1>3 DEF Docs, questions
<1>5. I \in SUBSET DOMAIN questions
  OBVIOUS
<1>6. \A i \in I : i \in 1 .. Len(log) /\ questions[i] = log[i].question
  BY <1>1
<1>7. \A i \in 1 .. Len(log) : Length(log[i].question) >= 2 => i \in I
  BY <1>1
<1>8. \A i \in I : Segment_(questions[i]) # <<>>
  BY <1>3
<1> HIDE DEF I
<1>9. /\ Pick(questions, I) \in Seq(Text)
      /\ \A i \in I : \E n \in 1 .. Len(Pick(questions, I)) : Pick(questions, I)[n] = questions[i]
      /\ \A n \in 1 .. Len(Pick(questions, I)) : \E i \in I : Pick(questions, I)[n] = questions[i]
  BY <1>1, <1>5, PickParts
<1>10. \A n \in 1 .. Len(Pick(questions, I)) : Segment_(Pick(questions, I)[n]) # <<>>
  BY <1>8, <1>9
<1>11. \A i \in 1 .. Len(log) :
         Length(log[i].question) >= 2 =>
           \E n \in 1 .. Len(Pick(questions, I)) : Pick(questions, I)[n] = log[i].question
  BY <1>6, <1>7, <1>9
<1>12. /\ Docs(log) \in Seq(Text)
       /\ \A n \in 1 .. Len(Docs(log)) : Segment_(Docs(log)[n]) # <<>>
       /\ \A i \in 1 .. Len(log) :
            Length(log[i].question) >= 2 =>
              \E n \in 1 .. Len(Docs(log)) : Docs(log)[n] = log[i].question
  BY <1>4, <1>9, <1>10, <1>11
<1> QED
  BY <1>4, <1>12 DEF questions, I

(* Each time a doc has a word.                                             *)
LEMMA TimesType ==
  ASSUME NEW text \in Text, NEW w
  PROVE  Times(text, w) \in Nat /\ (w \notin Range(text) => Times(text, w) = 0)
<1> DEFINE I == {n \in DOMAIN text : text[n] = w}
<1>1. Times(text, w) = Cardinality(I)
  BY DEF Times
<1>2. I \in SUBSET DOMAIN text /\ text \in Seq(Words)
  BY DEF Text
<1>3. w \notin Range(text) => I = {}
  BY DEF Range
<1> HIDE DEF I
<1>4. Cardinality(I) \in Nat
  BY <1>2, PositionsFinite
<1> QED
  BY <1>1, <1>3, <1>4, FS_EmptySet

(* The postings of a word in docs, in the order of the docs.                *)
Postings(docs, w) ==
  FlattenSeq([i \in 1 .. Len(docs) |-> [n \in 1 .. Times(docs[i], w) |-> i]])
Mentions(docs, w) ==
  FlattenSeq([i \in 1 .. Len(docs) |-> [n \in 1 .. Times(docs[i], w) |-> docs[i]]])

(* A posting is the number of a doc that has the word.                     *)
LEMMA PostingsParts ==
  ASSUME NEW docs \in Seq(Text), NEW w
  PROVE  /\ Postings(docs, w) \in Seq(1 .. Len(docs)) /\ Mentions(docs, w) \in Seq(Text)
         /\ Len(Mentions(docs, w)) = Len(Postings(docs, w))
         /\ \A k \in 1 .. Len(Postings(docs, w)) :
              Mentions(docs, w)[k] = docs[Postings(docs, w)[k]]
         /\ (\A i \in 1 .. Len(docs) : w \notin Range(docs[i])) => Postings(docs, w) = <<>>
<1> DEFINE N == Len(docs)
           ss == [i \in 1 .. N |-> [n \in 1 .. Times(docs[i], w) |-> i]]
           tt == [i \in 1 .. N |-> [n \in 1 .. Times(docs[i], w) |-> docs[i]]]
<1>1. /\ N \in Nat /\ docs \in [1 .. N -> Text]
      /\ \A i \in 1 .. N : docs[i] \in Text /\ Times(docs[i], w) \in Nat
  BY ListParts, TimesType
<1> HIDE DEF N
<1>2. \A i \in 1 .. N : ss[i] \in Seq(1 .. N) /\ tt[i] \in Seq(Text)
                        /\ Len(ss[i]) = Times(docs[i], w) /\ Len(tt[i]) = Times(docs[i], w)
                        /\ \A k \in 1 .. Len(ss[i]) : tt[i][k] = docs[ss[i][k]]
  BY <1>1
<1>3. ss \in Seq(Seq(1 .. N)) /\ tt \in Seq(Seq(Text)) /\ Len(ss) = N /\ Len(tt) = N
  BY <1>1
<1>4. Postings(docs, w) = FlattenSeq(ss) /\ Mentions(docs, w) = FlattenSeq(tt)
  BY DEF Postings, Mentions, N
<1> HIDE DEF ss, tt
<1>5. /\ FlattenSeq(ss) \in Seq(1 .. N) /\ FlattenSeq(tt) \in Seq(Text)
      /\ Len(FlattenSeq(tt)) = Len(FlattenSeq(ss))
      /\ \A k \in 1 .. Len(FlattenSeq(ss)) : FlattenSeq(tt)[k] = docs[FlattenSeq(ss)[k]]
  <2> DEFINE V == 1 .. N
  <2>1. /\ docs \in [V -> Text] /\ ss \in Seq(Seq(V)) /\ tt \in Seq(Seq(Text))
        /\ Len(tt) = Len(ss)
    BY <1>1, <1>3
  <2> HIDE DEF V
  <2>2. \A n \in 1 .. Len(ss) : ImageOf(docs, ss[n], tt[n])
    BY <1>2, <1>3 DEF ImageOf
  <2>3. /\ FlattenSeq(ss) \in Seq(V) /\ FlattenSeq(tt) \in Seq(Text)
        /\ ImageOf(docs, FlattenSeq(ss), FlattenSeq(tt))
    BY ONLY <2>1, <2>2, FlattenMap
  <2> QED
    BY <2>3 DEF V, ImageOf
<1>6. ASSUME \A i \in 1 .. N : w \notin Range(docs[i])
      PROVE  FlattenSeq(ss) = <<>>
  <2>1. \A n \in 1 .. Len(ss) : Len(ss[n]) = 0
    BY <1>1, <1>2, <1>3, <1>6, TimesType
  <2>2. ss \in Seq(Seq(1 .. N))
    BY <1>3
  <2> QED
    BY ONLY <2>1, <2>2, FlattenNothing
<1> QED
  BY <1>4, <1>5, <1>6 DEF N

(* A set of the words of finitely many texts is finite.                    *)
LEMMA WordsFinite ==
  ASSUME NEW docs \in Seq(Text)
  PROVE  /\ UNION {Range(docs[i]) : i \in 1 .. Len(docs)} \in SUBSET Words
         /\ IsFiniteSet(UNION {Range(docs[i]) : i \in 1 .. Len(docs)})
<1> DEFINE U == {Range(docs[i]) : i \in 1 .. Len(docs)}
           g == [i \in 1 .. Len(docs) |-> Range(docs[i])]
<1>1. Len(docs) \in Nat /\ \A i \in 1 .. Len(docs) : docs[i] \in Text
  BY ListParts
<1>2. IsFiniteSet(U)
  <2>1. IsFiniteSet(1 .. Len(docs))
    BY <1>1, FS_Interval
  <2>2. g \in Surjection(1 .. Len(docs), U)
    <3>1. g \in [1 .. Len(docs) -> U] /\ \A x \in U : \E i \in 1 .. Len(docs) : g[i] = x
      OBVIOUS
    <3> HIDE DEF g, U
    <3> QED
      BY <3>1 DEF Surjection
  <2> HIDE DEF g, U
  <2> QED
    BY <2>1, <2>2, FS_Surjection
<1>3. ASSUME NEW text \in Text
      PROVE  IsFiniteSet(Range(text)) /\ Range(text) \in SUBSET Words
  <2>1. Len(text) \in Nat /\ DOMAIN text = 1 .. Len(text) /\ text \in [1 .. Len(text) -> Words]
    BY TextType
  <2>2. IsFiniteSet(1 .. Len(text))
    BY <2>1, FS_Interval
  <2>3. text \in Surjection(1 .. Len(text), Range(text))
    BY <2>1 DEF Surjection, Range
  <2>4. Range(text) \in SUBSET Words
    BY <2>1 DEF Range
  <2> QED
    BY <2>2, <2>3, <2>4, FS_Surjection
<1>4. \A x \in U : IsFiniteSet(x) /\ x \in SUBSET Words
  BY <1>1, <1>3
<1> HIDE DEF U
<1>5. IsFiniteSet(UNION U)
  BY <1>2, <1>4, FS_UNION
<1> QED
  BY <1>4, <1>5 DEF U

(* The map has the postings of the words that are in docs.                 *)
LEMMA IndexMapParts ==
  ASSUME NEW docs \in Seq(Text)
  PROVE  /\ DOMAIN IndexMap(docs) \in SUBSET Words /\ IsFiniteSet(DOMAIN IndexMap(docs))
         /\ \A w \in DOMAIN IndexMap(docs) :
              IndexMap(docs)[w] = Postings(docs, w) /\ IndexMap(docs)[w] \in Seq(Nat)
         /\ \A w : w \notin DOMAIN IndexMap(docs) => Postings(docs, w) = <<>>
<1> DEFINE U == UNION {Range(docs[i]) : i \in 1 .. Len(docs)}
<1>1. IndexMap(docs) = [w \in U |-> Postings(docs, w)]
  BY DEF IndexMap, Postings
<1>2. \A w : w \notin U => \A i \in 1 .. Len(docs) : w \notin Range(docs[i])
  OBVIOUS
<1>3. U \in SUBSET Words /\ IsFiniteSet(U)
  BY WordsFinite
<1> HIDE DEF U
<1>4. \A w : Postings(docs, w) \in Seq(Nat)
  <2> SUFFICES ASSUME NEW w PROVE Postings(docs, w) \in Seq(Nat)
    OBVIOUS
  <2>1. Postings(docs, w) \in Seq(1 .. Len(docs)) /\ Len(docs) \in Nat
    BY PostingsParts, ListParts
  <2> DEFINE p == Postings(docs, w)
  <2> HIDE DEF p
  <2>2. p \in Seq(1 .. Len(docs))
    BY <2>1 DEF p
  <2>3. p \in Seq(Nat)
    BY <2>1, <2>2
  <2> QED
    BY <2>3 DEF p
<1>5. \A w : w \notin U => Postings(docs, w) = <<>>
  BY <1>2, PostingsParts
<1> QED
  BY <1>1, <1>3, <1>4, <1>5

(* Having has the docs of the postings.                                    *)
LEMMA HavingParts ==
  ASSUME NEW log \in Logs, NEW w
  PROVE  Having(log, w) = Mentions(Docs(log), w)
  BY DocsParts DEF Having, Mentions

-----------------------------------------------------------------------------
(* The doc index of a process.                                             *)

(* The range of what a cut left of a node has the first of its postings.    *)
LEMMA ShorterParts ==
  ASSUME NEW V, NEW inv \in Seq(V), NEW x \in Node, NEW y, Shorter(x, y),
         x.begin <= x.end, x.end <= Len(inv)
  PROVE  \E n \in 0 .. Len(SubSeq(inv, x.begin + 1, x.end)) :
           SubSeq(inv, y.begin + 1, y.end) = SubSeq(SubSeq(inv, x.begin + 1, x.end), 1, n)
<1> DEFINE b == x.begin
           e == x.end
           c == y.begin
           d == y.end
           all == SubSeq(inv, b + 1, e)
           some == SubSeq(inv, c + 1, d)
<1>1. b \in Nat /\ e \in Nat /\ c \in Nat /\ d \in Nat /\ (d = 0 \/ (c = b /\ d <= e))
      /\ Len(inv) \in Nat /\ b <= e /\ e <= Len(inv)
  BY ListParts DEF Shorter, Node
<1> HIDE DEF b, e, c, d
<1>2. all \in Seq(V) /\ Len(all) = e - b /\ \A k \in 1 .. e - b : all[k] = inv[b + k]
  BY <1>1, SubSeqParts
<1>3. CASE d <= c
  <2>1. some = <<>>
    BY <1>1, <1>3
  <2>2. SubSeq(all, 1, 0) = <<>>
    <3> HIDE DEF all
    <3> QED BY <1>2
  <2>3. 0 \in 0 .. Len(all)
    BY <1>1, <1>2
  <2> HIDE DEF all, some
  <2>4. \E n \in 0 .. Len(all) : some = SubSeq(all, 1, n)
    BY <2>1, <2>2, <2>3
  <2> QED
    BY <2>4 DEF all, some, b, e, c, d
<1>4. CASE ~(d <= c)
  <2> DEFINE n == d - b
  <2>1. c = b /\ b <= d /\ d <= e /\ n \in 0 .. e - b /\ d <= Len(inv)
    BY <1>1, <1>4
  <2>2. some \in Seq(V) /\ Len(some) = n /\ \A k \in 1 .. n : some[k] = inv[b + k]
    BY <1>1, <2>1, SubSeqParts
  <2> DEFINE part == SubSeq(all, 1, n)
  <2>3. part \in Seq(V) /\ Len(part) = n /\ \A k \in 1 .. n : part[k] = all[k]
    <3>1. n \in Nat /\ n <= Len(all) /\ 0 \in Nat /\ 0 <= n /\ 0 + 1 = 1 /\ n - 0 = n
          /\ \A k \in 1 .. n : 0 + k = k
      BY <1>1, <1>2, <2>1
    <3> HIDE DEF all, n
    <3>2. /\ SubSeq(all, 0 + 1, n) \in Seq(V) /\ Len(SubSeq(all, 0 + 1, n)) = n - 0
          /\ \A k \in 1 .. n - 0 : SubSeq(all, 0 + 1, n)[k] = all[0 + k]
      BY <1>2, <3>1, SubSeqParts
    <3> QED
      BY <3>1, <3>2
  <2>4. \A k \in 1 .. n : k \in 1 .. e - b
    BY <1>1, <2>1
  <2> HIDE DEF all, some, part
  <2>5. some = part
    <3>1. \A k \in 1 .. Len(some) : some[k] = part[k]
      BY <1>2, <2>2, <2>3, <2>4
    <3> HIDE DEF n
    <3> QED
      BY <2>2, <2>3, <3>1, ListsEqual
  <2>6. n \in 0 .. Len(all)
    BY <1>2, <2>1
  <2> HIDE DEF n
  <2>7. \E k \in 0 .. Len(all) : some = SubSeq(all, 1, k)
    BY <2>5, <2>6 DEF part
  <2> QED
    BY <2>7 DEF all, some, b, e, c, d
<1> QED
  BY <1>3, <1>4

(* What a word has in a table that was read.                               *)
HasInv(ix, map, w, inside) ==
  \/ GetInv(ix, w) = <<>>
  \/ w \in DOMAIN map /\ GetInv(ix, w) = map[w]
  \/ /\ inside
     /\ \E x \in DOMAIN map : \E n \in 0 .. Len(map[x]) :
          GetInv(ix, w) = SubSeq(map[x], 1, n)

(* In a table that was read, a word has its postings or none, and all that   *)
(* were written if every bucket was read; from a file that was cut inside a  *)
(* node it may have the first postings of any word.                         *)
LEMMA GetInvParts ==
  ASSUME NEW t, NEW inv, NEW map, Indexed(t, inv, map, DOMAIN map), NEW inside,
         NEW data \in [Buckets -> Seq(ReadNodes(t, inside))],
         NEW ix, ix.table = [words |-> t.words, data |-> data], ix.invs = inv,
         NEW w \in Words
  PROVE  /\ HasInv(ix, map, w, inside)
         /\ data = t.data /\ w \in DOMAIN map => GetInv(ix, w) = map[w]
<1> DEFINE h == Hash[w]
           v == data[h]
           at == Bisect(t.words, v, w)
           key == IF at = 0 THEN NoNode ELSE v[at]
           K == DOMAIN map
<1>1. h \in Buckets /\ w \in Int /\ inv \in Seq(Nat)
  BY DocIndexAssumption, WordsType DEF Indexed
<1>2. GetInv(ix, w) = SubSeq(inv, key.begin + 1, key.end)
  <2>1. Find(ix.table, w) = key
    BY DEF Find
  <2> HIDE DEF key
  <2> QED
    BY <2>1 DEF GetInv
<1>3. v \in Seq(Node) /\ Len(v) \in Nat /\ \A k \in 1 .. Len(v) : v[k] \in ReadNodes(t, inside)
  <2> DEFINE S == ReadNodes(t, inside)
  <2>1. \A y \in S : y \in Node
    BY DEF ReadNodes
  <2> HIDE DEF S
  <2>2. v \in Seq(S)
    BY <1>1 DEF S
  <2> HIDE DEF v
  <2>3. Len(v) \in Nat /\ \A k \in 1 .. Len(v) : v[k] \in S
    BY <2>2
  <2>4. v \in Seq(Node)
    BY <2>1, <2>2
  <2> QED
    BY <2>3, <2>4 DEF S
<1>4. \A i \in Buckets : \A k \in 1 .. Len(t.data[i]) :
        NodeOf(t.words, inv, map, K, i, t.data[i][k])
  BY DEF Indexed
<1> HIDE DEF v, h
<1>5. at \in 0 .. Len(v) /\ (at # 0 => t.words[v[at].offset] = w)
  BY <1>1, <1>3, BisectParts
<1>6. \A p \in 1 .. Len(v) : InOrder(t.words, v) /\ t.words[v[p].offset] = w => at # 0
  BY <1>1, <1>3, BisectParts
<1> HIDE DEF at, K
<1>7. SubSeq(inv, 0 + 1, 0) = <<>>
  BY <1>1
<1>8. CASE at = 0
  <2>1. key = NoNode
    BY <1>8
  <2> HIDE DEF key
  <2>2. GetInv(ix, w) = <<>>
    BY <1>2, <1>7, <2>1 DEF NoNode
  <2>3. ASSUME data = t.data, w \in K
        PROVE  FALSE
    <3>1. v = t.data[h]
      BY <2>3 DEF v
    <3>2. PICK n \in 1 .. Len(v) : t.words[v[n].offset] = w
      <4>1. \E n \in 1 .. Len(t.data[Hash[w]]) : t.words[t.data[Hash[w]][n].offset] = w
        BY <2>3 DEF Indexed, K
      <4> QED
        BY <3>1, <4>1 DEF h
    <3>3. InOrder(t.words, v)
      <4>1. \A m, k \in 1 .. Len(v) : m < k => t.words[v[m].offset] < t.words[v[k].offset]
        BY <1>1, <3>1 DEF Indexed
      <4>2. t.words \in Seq(Words) /\ \A k \in 1 .. Len(v) : v[k].offset \in 1 .. Len(t.words)
        BY <1>1, <1>4, <3>1 DEF NodeOf, Indexed
      <4>3. \A k \in 1 .. Len(v) : t.words[v[k].offset] \in Int
        BY <4>2, WordsType, ListParts
      <4> QED
        BY <1>3, <4>1, <4>3 DEF InOrder
    <3> QED
      BY <1>6, <1>8, <3>2, <3>3
  <2> QED
    BY <2>2, <2>3 DEF K, HasInv
<1>9. CASE at # 0
  <2>1. key = v[at] /\ at \in 1 .. Len(v)
    BY <1>3, <1>5, <1>9
  <2> HIDE DEF key
  <2>2. key \in ReadNodes(t, inside) /\ t.words[key.offset] = w
    BY <1>3, <1>5, <1>9, <2>1
  <2>3. ASSUME NEW i \in Buckets, NEW k \in 1 .. Len(t.data[i]), key = t.data[i][k]
        PROVE  w \in K /\ GetInv(ix, w) = map[w]
    <3>1. NodeOf(t.words, inv, map, K, i, key)
      BY <1>4, <2>3
    <3> QED
      BY <1>2, <2>2, <3>1 DEF NodeOf
  <2>4. ASSUME key = ZeroNode
        PROVE  GetInv(ix, w) = <<>>
    BY <1>2, <1>7, <2>4 DEF ZeroNode
  <2>5. ASSUME NEW i \in Buckets, NEW k \in 1 .. Len(t.data[i]), Shorter(t.data[i][k], key)
        PROVE  \E x \in K : \E n \in 0 .. Len(map[x]) : GetInv(ix, w) = SubSeq(map[x], 1, n)
    <3> DEFINE y == t.data[i][k]
               x == t.words[y.offset]
    <3>1. NodeOf(t.words, inv, map, K, i, y)
      BY <1>4
    <3>2. Shorter(y, key)
      BY <2>5
    <3> HIDE DEF y
    <3>3. /\ y \in Node /\ y.begin <= y.end /\ y.end <= Len(inv)
          /\ x \in K /\ SubSeq(inv, y.begin + 1, y.end) = map[x]
      BY <3>1 DEF NodeOf
    <3>4. \E n \in 0 .. Len(SubSeq(inv, y.begin + 1, y.end)) :
            SubSeq(inv, key.begin + 1, key.end) = SubSeq(SubSeq(inv, y.begin + 1, y.end), 1, n)
      <4>1. inv \in Seq(Nat) /\ y \in Node /\ y.begin <= y.end /\ y.end <= Len(inv)
        BY <1>1, <3>3
      <4> QED
        BY ONLY <3>2, <4>1, ShorterParts
    <3> HIDE DEF x
    <3> QED
      BY <1>2, <3>3, <3>4
  <2>6. ASSUME data = t.data
        PROVE  w \in K /\ GetInv(ix, w) = map[w]
    <3>1. key = t.data[h][at] /\ at \in 1 .. Len(t.data[h])
      BY <2>1, <2>6 DEF v
    <3> QED
      BY <1>1, <2>3, <3>1
  <2>7. \/ key = ZeroNode
        \/ \E i \in Buckets : \E k \in 1 .. Len(t.data[i]) :
             key = t.data[i][k] \/ (inside /\ Shorter(t.data[i][k], key))
    BY <2>2 DEF ReadNodes
  <2> QED
    BY <2>3, <2>4, <2>5, <2>6, <2>7 DEF K, HasInv
<1> QED
  BY <1>8, <1>9

(* A word has the postings of the docs, and the docs can be got.            *)
Finds(ix, docs, w) ==
  /\ GetInv(ix, w) = Postings(docs, w)
  /\ GetInv(ix, w) # <<>> => \A d \in 1 .. Len(docs) : GetDocText(ix, d) = docs[d]

(* It has the first postings of some word.                                 *)
FindsPart(ix, docs, w) ==
  /\ \E x \in Words : \E n \in 0 .. Len(Postings(docs, x)) :
       GetInv(ix, w) = SubSeq(Postings(docs, x), 1, n)
  /\ GetInv(ix, w) # <<>> => \A d \in 1 .. Len(docs) : GetDocText(ix, d) = docs[d]

(* What a word may have, as the file was cut.                              *)
Gives(ix, docs, w, cut) ==
  \/ Finds(ix, docs, w)
  \/ cut # "none" /\ GetInv(ix, w) = <<>>
  \/ cut = "inside" /\ FindsPart(ix, docs, w)

(* The doc file has the docs, the postings and the table of the words.      *)
LEMMA DocFileParts ==
  ASSUME NEW log \in Logs
  PROVE  LET all == ChangeToHVIndex(IndexMap(Docs(log)))
             F == DocFile(log)
         IN  /\ F \in Seq(Units) /\ Len(F) \in Nat /\ Len(F) >= 5
             /\ F[1].data = Docs(log) /\ F[2].data = [i \in 1 .. Len(Docs(log)) |-> i]
             /\ F[3].data = all.inv /\ F[4].data = Moved(all.table).words
             /\ \E pos : Written(F, 6, Moved(all.table), pos)
<1> DEFINE docs == Docs(log)
           map == IndexMap(docs)
           all == ChangeToHVIndex(map)
           t == all.table
           numbers == [i \in 1 .. Len(docs) |-> i]
           head == <<Unit("chars", docs), Unit("docs", numbers), Unit("invs", all.inv)>>
           F == DocFile(log)
<1>1. docs \in Seq(Text) /\ Len(docs) \in Nat
  BY DocsParts, ListParts
<1>2. F = head \o WriteFile(t)
  BY DEF DocFile
<1> HIDE DEF docs
<1>3. /\ DOMAIN map \in SUBSET Words /\ IsFiniteSet(DOMAIN map)
      /\ \A w \in DOMAIN map : map[w] \in Seq(Nat)
  BY <1>1, IndexMapParts
<1> HIDE DEF map
<1>4. Indexed(t, all.inv, map, DOMAIN map)
  BY <1>3, ChangeIndexed
<1>5. all.inv \in Seq(Nat)
  BY <1>4 DEF Indexed
<1>6. numbers \in Seq(Nat)
  BY <1>1
<1> HIDE DEF all, t, numbers
<1>7. Unit("chars", docs) \in Units /\ Unit("docs", numbers) \in Units /\ Unit("invs", all.inv) \in Units
  BY <1>1, <1>5, <1>6, UnitType DEF Kinds, Data
<1>8. head \in Seq(Units) /\ Len(head) = 3
      /\ head[1] = Unit("chars", docs) /\ head[2] = Unit("docs", numbers) /\ head[3] = Unit("invs", all.inv)
  BY <1>7
<1> HIDE DEF head, F
<1> DEFINE K == DOMAIN map
           G == head \o WriteFile(t)
<1>9. /\ G \in Seq(Units)
      /\ \A k \in 1 .. Len(head) : G[k] = head[k]
      /\ Len(G) \in Nat /\ Len(G) >= Len(head) + 2
      /\ G[Len(head) + 1].data = Moved(t).words
      /\ \E pos : Written(G, Len(head) + 3, Moved(t), pos)
  <2>1. K \in SUBSET Words /\ Indexed(t, all.inv, map, K) /\ head \in Seq(Units)
    BY <1>3, <1>4, <1>8
  <2> HIDE DEF K
  <2> QED
    BY ONLY <2>1, WrittenParts
<1> HIDE DEF G
<1>10. /\ G[1] = head[1] /\ G[2] = head[2] /\ G[3] = head[3] /\ G[4].data = Moved(t).words
       /\ Len(G) >= 5 /\ \E pos : Written(G, 6, Moved(t), pos)
  BY <1>8, <1>9
<1>11. G[1].data = docs /\ G[2].data = numbers /\ G[3].data = all.inv
  BY <1>8, <1>10 DEF Unit
<1>12. F = G
  BY <1>2 DEF G
<1> QED
  BY <1>9, <1>10, <1>11, <1>12 DEF F, docs, numbers, all, t, map

(* An empty index has no postings.                                         *)
LEMMA NoIndexParts ==
  ASSUME NEW w \in Words
  PROVE  GetInv(NoIndex, w) = <<>>
<1>1. Hash[w] \in Buckets /\ w \in Int
  BY DocIndexAssumption, WordsType
<1>2. NoIndex.table.data[Hash[w]] = <<>> /\ NoIndex.table.words = <<>> /\ NoIndex.invs = <<>>
  BY <1>1 DEF NoIndex, NoTable, NoData
<1>3. Bisect(<<>>, <<>>, w) \in 0 .. Len(<<>>)
  <2>1. <<>> \in Seq(Node)
    OBVIOUS
  <2> QED
    BY <1>1, <2>1, BisectParts
<1>4. Bisect(<<>>, <<>>, w) = 0
  BY <1>3
<1>5. Find(NoIndex.table, w) = NoNode
  BY <1>2, <1>4 DEF Find
<1>6. GetInv(NoIndex, w) = SubSeq(<<>>, NoNode.begin + 1, NoNode.end)
  BY <1>2, <1>5 DEF GetInv
<1> QED
  BY <1>6 DEF NoNode

(* From whatever part of a doc file a process loaded, a word has the         *)
(* postings it has in the log, or none; it has them if the file is whole.   *)
LEMMA LoadCut ==
  ASSUME NEW log \in Logs, NEW n, NEW f, NEW inside, CutAt(DocFile(log), n, f, inside),
         NEW index0 \in Buckets, NEW size0 \in Nat, NEW w \in Words
  PROVE  LET ix == Load(f, index0, size0)
         IN  \/ Finds(ix, Docs(log), w)
             \/ GetInv(ix, w) = <<>> /\ (inside \/ n # Len(DocFile(log)))
             \/ inside /\ FindsPart(ix, Docs(log), w)
<1> DEFINE docs == Docs(log)
           map == IndexMap(docs)
           all == ChangeToHVIndex(map)
           m == Moved(all.table)
           F == DocFile(log)
           ix == Load(f, index0, size0)
           numbers == [i \in 1 .. Len(docs) |-> i]
<1> SUFFICES \/ Finds(ix, docs, w)
             \/ GetInv(ix, w) = <<>> /\ (inside \/ n # Len(F))
             \/ inside /\ FindsPart(ix, docs, w)
  OBVIOUS
<1>1. /\ F \in Seq(Units) /\ Len(F) \in Nat /\ Len(F) >= 5
      /\ F[1].data = docs /\ F[2].data = numbers
      /\ F[3].data = all.inv /\ F[4].data = m.words
      /\ \E pos : Written(F, 6, m, pos)
  BY DocFileParts
<1>2. docs \in Seq(Text)
  BY DocsParts
<1> HIDE DEF docs
<1>3. /\ DOMAIN map \in SUBSET Words /\ IsFiniteSet(DOMAIN map)
      /\ \A x \in DOMAIN map : map[x] = Postings(docs, x) /\ map[x] \in Seq(Nat)
      /\ \A x : x \notin DOMAIN map => Postings(docs, x) = <<>>
  BY <1>2, IndexMapParts
<1> HIDE DEF map
<1>4. Indexed(m, all.inv, map, DOMAIN map)
  <2>1. Indexed(all.table, all.inv, map, DOMAIN map)
    BY <1>3, ChangeIndexed
  <2> HIDE DEF all
  <2> QED
    BY <1>3, <2>1, MovedIndexed
<1>5. CutAt(F, n, f, inside)
  OBVIOUS
<1> HIDE DEF F, all, m, numbers
<1>6. n \in Nat /\ n <= Len(F) /\ Len(f) = n /\ \A k \in 1 .. n - 1 : f[k] = F[k]
  <2>1. n \in Nat /\ n <= Len(F) /\ \A k \in 1 .. n - 1 : k \in 1 .. n /\ k # n
    BY <1>1, <1>5 DEF CutAt
  <2> QED
    BY <1>5, <2>1 DEF CutAt
<1>7. CASE ~Loads(f)
  <2>1. ix = NoIndex
    BY <1>7 DEF Load
  <2>2. n # Len(F)
    BY <1>1, <1>6, <1>7 DEF Loads, Readable
  <2>3. GetInv(NoIndex, w) = <<>>
    BY NoIndexParts
  <2> QED
    BY <2>1, <2>2, <2>3
<1>8. CASE Loads(f)
  <2>1. n >= 5
    BY <1>6, <1>8 DEF Loads, Readable
  <2> DEFINE data == ReadBuckets(f, 6, index0, size0)
  <2>2. ix = [chars |-> docs, docs |-> numbers, invs |-> all.inv,
               table |-> [words |-> m.words, data |-> data]]
    <3>1. f[1].data = docs /\ f[2].data = numbers /\ f[3].data = all.inv /\ f[4].data = m.words
      BY <1>1, <1>6, <2>1
    <3>2. ix = [chars |-> f[1].data, docs |-> f[2].data, invs |-> f[3].data,
                 table |-> ReadInFile(f, 4, index0, size0)]
      BY <1>8 DEF Load
    <3>3. ReadInFile(f, 4, index0, size0) = [words |-> f[4].data, data |-> data]
      BY DEF ReadInFile
    <3> HIDE DEF ix, data
    <3> QED
      BY <3>1, <3>2, <3>3
  <2>3. /\ data \in [Buckets -> Seq(ReadNodes(m, inside))]
        /\ ~inside /\ n = Len(F) => data = m.data
    <3>1. PICK pos : Written(F, 6, m, pos)
      BY <1>1
    <3>2. m.data \in [Buckets -> Seq(Node)] /\ F \in Seq(Units)
      BY <1>1, <1>4 DEF Indexed
    <3> QED
      BY <1>5, <3>1, <3>2, ReadParts
  <2> HIDE DEF ix, data
  <2>4. ix.table = [words |-> m.words, data |-> data] /\ ix.invs = all.inv
    BY <2>2
  <2>5. /\ HasInv(ix, map, w, inside)
        /\ data = m.data /\ w \in DOMAIN map => GetInv(ix, w) = map[w]
    <3>1. data \in [Buckets -> Seq(ReadNodes(m, inside))] /\ w \in Words
      BY <2>3
    <3> QED
      BY ONLY <1>4, <2>4, <3>1, GetInvParts
  <2>6. \A d \in 1 .. Len(docs) : GetDocText(ix, d) = docs[d]
    <3>1. \A d \in 1 .. Len(docs) : numbers[d] = d
      BY DEF numbers
    <3> QED
      BY <2>2, <3>1 DEF GetDocText
  <2>7. CASE GetInv(ix, w) = <<>>
    <3>1. ~inside /\ n = Len(F) => Postings(docs, w) = <<>>
      BY <1>3, <2>3, <2>5, <2>7
    <3> QED
      BY <2>7, <3>1 DEF Finds
  <2>8. CASE w \in DOMAIN map /\ GetInv(ix, w) = map[w]
    BY <1>3, <2>6, <2>8 DEF Finds
  <2>9. CASE inside /\ \E x \in DOMAIN map : \E k \in 0 .. Len(map[x]) :
                          GetInv(ix, w) = SubSeq(map[x], 1, k)
    <3>1. PICK x \in DOMAIN map :
            \E k \in 0 .. Len(map[x]) : GetInv(ix, w) = SubSeq(map[x], 1, k)
      BY <2>9
    <3>2. x \in Words /\ map[x] = Postings(docs, x)
      BY <1>3
    <3> QED
      BY <2>6, <2>9, <3>1, <3>2 DEF FindsPart
  <2> QED
    BY <2>5, <2>7, <2>8, <2>9 DEF HasInv
<1> QED
  BY <1>7, <1>8

(* The same by the place of the cut.                                       *)
LEMMA LoadParts ==
  ASSUME NEW log \in Logs, NEW f \in Cuts(DocFile(log)),
         NEW index0 \in Buckets, NEW size0 \in Nat, NEW w \in Words
  PROVE  Gives(Load(f, index0, size0), Docs(log), w,
               IF f = DocFile(log) THEN "none"
               ELSE IF IsPrefix(f, DocFile(log)) THEN "between" ELSE "inside")
<1> DEFINE F == DocFile(log)
           ix == Load(f, index0, size0)
           cut == IF f = F THEN "none" ELSE IF IsPrefix(f, F) THEN "between" ELSE "inside"
<1>1. F \in Seq(Units)
  BY DocFileParts
<1>2. /\ \E n : CutAt(F, n, f, TRUE)
      /\ IsPrefix(f, F) => \E n : CutAt(F, n, f, FALSE)
      /\ f = F => CutAt(F, Len(F), f, FALSE)
  BY <1>1, CutParts
<1>3. CASE f = F
  <2>1. CutAt(DocFile(log), Len(DocFile(log)), f, FALSE)
    BY <1>2, <1>3
  <2>2. Finds(ix, Docs(log), w)
    BY <2>1, LoadCut
  <2> QED
    BY <2>2 DEF Gives
<1>4. CASE f # F /\ IsPrefix(f, F)
  <2>1. PICK n : CutAt(DocFile(log), n, f, FALSE)
    BY <1>2, <1>4
  <2>2. Finds(ix, Docs(log), w) \/ GetInv(ix, w) = <<>>
    BY <2>1, LoadCut
  <2>3. cut = "between"
    BY <1>4
  <2> HIDE DEF ix, cut
  <2>4. Gives(ix, Docs(log), w, cut)
    BY <2>2, <2>3 DEF Gives
  <2> QED
    BY <2>4 DEF ix, cut
<1>5. CASE f # F /\ ~IsPrefix(f, F)
  <2>1. PICK n : CutAt(DocFile(log), n, f, TRUE)
    BY <1>2
  <2>2. Finds(ix, Docs(log), w) \/ GetInv(ix, w) = <<>> \/ FindsPart(ix, Docs(log), w)
    BY <2>1, LoadCut
  <2>3. cut = "inside"
    BY <1>5
  <2> HIDE DEF ix, cut
  <2>4. Gives(ix, Docs(log), w, cut)
    BY <2>2, <2>3 DEF Gives
  <2> QED
    BY <2>4 DEF ix, cut
<1> QED
  BY <1>3, <1>4, <1>5

(* The first n of a list.                                                  *)
LEMMA FirstOf ==
  ASSUME NEW V, NEW s \in Seq(V), NEW n \in 0 .. Len(s)
  PROVE  /\ SubSeq(s, 1, n) \in Seq(V) /\ Len(SubSeq(s, 1, n)) = n
         /\ \A k \in 1 .. n : SubSeq(s, 1, n)[k] = s[k]
         /\ IsPrefix(SubSeq(s, 1, n), s)
<1> DEFINE a == SubSeq(s, 1, n)
<1>1. n \in Nat /\ n <= Len(s) /\ Len(s) \in Nat
  BY ListParts
<1>2. a \in Seq(V) /\ Len(a) = n /\ \A k \in 1 .. n : a[k] = s[k]
  <2>1. 0 \in Nat /\ 0 <= n /\ 0 + 1 = 1 /\ n - 0 = n /\ \A k \in 1 .. n : 0 + k = k
    BY <1>1
  <2>2. /\ SubSeq(s, 0 + 1, n) \in Seq(V) /\ Len(SubSeq(s, 0 + 1, n)) = n - 0
        /\ \A k \in 1 .. n - 0 : SubSeq(s, 0 + 1, n)[k] = s[0 + k]
    BY <1>1, <2>1, SubSeqParts
  <2> QED
    BY <2>1, <2>2
<1> HIDE DEF a
<1>3. IsPrefix(a, s)
  BY <1>1, <1>2, PrefixParts
<1> QED
  BY <1>2, <1>3 DEF a

(* Every doc that has the word is mentioned, and nothing else is.           *)
LEMMA MentionsHas ==
  ASSUME NEW docs \in Seq(Text), NEW w
  PROVE  /\ \A i \in 1 .. Len(docs) : w \in Range(docs[i]) => docs[i] \in Range(Mentions(docs, w))
         /\ \A s \in Range(Mentions(docs, w)) : \E i \in 1 .. Len(docs) : s = docs[i]
<1> DEFINE N == Len(docs)
           tt == [i \in 1 .. N |-> [n \in 1 .. Times(docs[i], w) |-> docs[i]]]
           mentions == Mentions(docs, w)
           p == Postings(docs, w)
<1>1. /\ N \in Nat
      /\ \A i \in 1 .. N : docs[i] \in Text /\ Times(docs[i], w) \in Nat
  BY ListParts, TimesType
<1>2. p \in Seq(1 .. N) /\ mentions \in Seq(Text) /\ Len(mentions) = Len(p)
      /\ \A k \in 1 .. Len(p) : mentions[k] = docs[p[k]]
  BY PostingsParts
<1>3. mentions = FlattenSeq(tt)
  BY DEF Mentions
<1> HIDE DEF N, mentions, p
<1>4. tt \in Seq(Seq(Text)) /\ Len(tt) = N
  BY <1>1
<1>5. \A i \in 1 .. N : tt[i] = [n \in 1 .. Times(docs[i], w) |-> docs[i]]
  OBVIOUS
<1> HIDE DEF tt
<1>6. Len(mentions) \in Nat /\ DOMAIN mentions = 1 .. Len(mentions)
  BY <1>2
<1>7. ASSUME NEW i \in 1 .. N, w \in Range(docs[i])
      PROVE  docs[i] \in Range(mentions)
  <2> DEFINE I == {n \in DOMAIN docs[i] : docs[i][n] = w}
  <2>1. docs[i] \in Seq(Words)
    BY <1>1 DEF Text
  <2>2. I # {} /\ I \in SUBSET DOMAIN docs[i] /\ Times(docs[i], w) = Cardinality(I)
    BY <1>7 DEF Range, Times
  <2> HIDE DEF I
  <2>3. IsFiniteSet(I)
    BY <2>1, <2>2, PositionsFinite
  <2>4. Times(docs[i], w) # 0
    BY <2>2, <2>3, FS_EmptySet
  <2>5. 1 \in 1 .. Len(tt[i]) /\ tt[i][1] = docs[i]
    <3> DEFINE m == Times(docs[i], w)
    <3>1. tt[i] = [n \in 1 .. m |-> docs[i]] /\ m \in Nat /\ m # 0
      BY <1>1, <1>5, <2>4
    <3> HIDE DEF m
    <3>2. Len(tt[i]) = m /\ 1 \in 1 .. m
      BY <3>1
    <3> QED
      BY <3>1, <3>2
  <2>6. \E j \in 1 .. Len(FlattenSeq(tt)) : FlattenSeq(tt)[j] = tt[i][1]
    <3>1. tt \in Seq(Seq(Text)) /\ i \in 1 .. Len(tt)
      BY <1>4
    <3> QED
      BY ONLY <2>5, <3>1, FlattenHas
  <2> QED
    BY <1>3, <1>6, <2>5, <2>6 DEF Range
<1>8. ASSUME NEW s \in Range(mentions)
      PROVE  \E i \in 1 .. N : s = docs[i]
  <2>1. PICK k \in 1 .. Len(p) : s = mentions[k]
    BY <1>2, <1>6 DEF Range
  <2> DEFINE V == 1 .. N
  <2>2. p \in Seq(V)
    BY <1>2
  <2> HIDE DEF V
  <2>3. p[k] \in V
    BY <2>2
  <2> QED
    BY <1>2, <2>1, <2>3 DEF V
<1> QED
  BY <1>7, <1>8 DEF N, mentions

(* Results are the docs of the rarest word of a text; after a load of a file *)
(* that was cut they may be nothing, or the first docs of some word.        *)
OfRarest(results, docs, cut, q) ==
  \/ \E m \in 1 .. Len(q) :
       /\ results = Mentions(docs, q[m])
       /\ \A j \in 1 .. Len(q) : Len(Mentions(docs, q[m])) <= Len(Mentions(docs, q[j]))
  \/ results = <<>> /\ cut # "none"
  \/ /\ cut = "inside"
     /\ \E x \in Words : \E n \in 0 .. Len(Mentions(docs, x)) :
          results = SubSeq(Mentions(docs, x), 1, n)

(* Those are what the search finds.                                        *)
LEMMA UnionParts ==
  ASSUME NEW ix, NEW docs \in Seq(Text), NEW cut,
         \A w \in Words : Gives(ix, docs, w, cut),
         NEW q \in Text, q # <<>>
  PROVE  OfRarest(GetUnionResults(ix, q), docs, cut, q)
<1> DEFINE N == Len(q)
           lists == [i \in 1 .. N |-> GetInv(ix, q[i])]
           g == [i \in 1 .. N |-> Len(lists[i])]
           First(i) == \A j \in 1 .. N : Len(lists[i]) <= Len(lists[j])
                                         /\ (j < i => Len(lists[i]) < Len(lists[j]))
           m == CHOOSE i \in 1 .. N : First(i)
           results == GetUnionResults(ix, q)
<1>1. N \in Nat /\ N > 0 /\ \A i \in 1 .. N : q[i] \in Words
  <2>1. q \in Seq(Words)
    BY DEF Text
  <2> QED
    BY <2>1
<1>2. \A w : /\ Postings(docs, w) \in Seq(1 .. Len(docs)) /\ Mentions(docs, w) \in Seq(Text)
             /\ Len(Mentions(docs, w)) = Len(Postings(docs, w))
             /\ \A k \in 1 .. Len(Postings(docs, w)) :
                  Mentions(docs, w)[k] = docs[Postings(docs, w)[k]]
  BY PostingsParts
<1> HIDE DEF N
<1>3. \A i \in 1 .. N : lists[i] = GetInv(ix, q[i]) /\ lists[i] \in Seq(1 .. Len(docs))
  <2> SUFFICES ASSUME NEW i \in 1 .. N
               PROVE  GetInv(ix, q[i]) \in Seq(1 .. Len(docs))
    OBVIOUS
  <2>1. CASE Finds(ix, docs, q[i])
    BY <1>2, <2>1 DEF Finds
  <2>2. CASE GetInv(ix, q[i]) = <<>>
    BY <2>2
  <2>3. CASE FindsPart(ix, docs, q[i])
    <3>1. PICK x \in Words :
            \E n \in 0 .. Len(Postings(docs, x)) : GetInv(ix, q[i]) = SubSeq(Postings(docs, x), 1, n)
      BY <2>3 DEF FindsPart
    <3> DEFINE p == Postings(docs, x)
               D == 1 .. Len(docs)
    <3>2. p \in Seq(D) /\ \E n \in 0 .. Len(p) : GetInv(ix, q[i]) = SubSeq(p, 1, n)
      BY <1>2, <3>1
    <3> HIDE DEF p, D
    <3>3. GetInv(ix, q[i]) \in Seq(D)
      BY <3>2, FirstOf
    <3> QED
      BY <3>3 DEF D
  <2> QED
    BY <1>1, <2>1, <2>2, <2>3 DEF Gives
<1>4. Len(lists) = N /\ \A i \in 1 .. N : Len(lists[i]) \in Nat
  <2>1. \A i \in 1 .. N : Len(lists[i]) \in Nat
    <3> HIDE DEF lists
    <3> QED
      BY <1>3, ListParts
  <2> QED
    BY <1>1, <2>1
<1>5. \E i \in 1 .. N : First(i)
  <2>1. g \in [1 .. N -> Nat] /\ \A i \in 1 .. N : g[i] = Len(lists[i])
    BY <1>4
  <2> HIDE DEF g, lists
  <2>2. \E i \in 1 .. N : \A j \in 1 .. N : g[i] <= g[j] /\ (j < i => g[i] < g[j])
    BY <1>1, <2>1, FirstLeast
  <2> QED
    BY <2>1, <2>2
<1>6. MinIndex(lists) = m
  <2> HIDE DEF lists
  <2> QED
    BY <1>4 DEF MinIndex
<1>7. m \in 1 .. N /\ First(m)
  <2> HIDE DEF First
  <2> QED
    BY <1>5
<1> HIDE DEF m
<1> DEFINE shortest == lists[m]
<1>8. UnionInvResult(lists) = shortest
  <2>1. UnionInvResult(lists) = Pick(lists[m], {i \in DOMAIN lists[m] : TRUE})
    <3> HIDE DEF lists
    <3> QED
      BY <1>6 DEF UnionInvResult, SearchDoc
  <2>2. lists[m] \in Seq(1 .. Len(docs))
    BY <1>3, <1>7
  <2> HIDE DEF lists
  <2>3. {i \in DOMAIN lists[m] : TRUE} = DOMAIN lists[m]
    OBVIOUS
  <2>4. Pick(lists[m], DOMAIN lists[m]) = lists[m]
    BY ONLY <2>2, PickAll
  <2> QED
    BY <2>1, <2>3, <2>4
<1>9. results = [i \in 1 .. Len(shortest) |-> GetDocText(ix, shortest[i])]
  <2>1. results = [i \in 1 .. Len(UnionInvResult(lists)) |-> GetDocText(ix, UnionInvResult(lists)[i])]
    BY <1>1 DEF GetUnionResults, N
  <2> HIDE DEF results, lists
  <2> QED
    BY <1>8, <2>1
<1>10. shortest = GetInv(ix, q[m]) /\ \A j \in 1 .. N : Len(shortest) <= Len(GetInv(ix, q[j]))
  <2> HIDE DEF lists
  <2> QED
    BY <1>3, <1>7
<1>11. shortest \in Seq(1 .. Len(docs)) /\ Len(shortest) \in Nat
  <2> HIDE DEF lists
  <2> QED
    BY <1>3, <1>4, <1>7
<1> HIDE DEF shortest, results, lists, First
<1>12. CASE \A j \in 1 .. N : Finds(ix, docs, q[j])
  <2> DEFINE p == Postings(docs, q[m])
             mentions == Mentions(docs, q[m])
  <2>1. shortest = p /\ \A j \in 1 .. N : Len(p) <= Len(Postings(docs, q[j]))
    BY <1>7, <1>10, <1>12 DEF Finds
  <2>2. Len(p) > 0 => \A d \in 1 .. Len(docs) : GetDocText(ix, d) = docs[d]
    BY <1>7, <1>11, <1>12, <2>1 DEF Finds
  <2>3. mentions \in Seq(Text) /\ Len(mentions) = Len(p)
        /\ \A k \in 1 .. Len(p) : mentions[k] = docs[p[k]]
    BY <1>2
  <2>4. \A j \in 1 .. N : Len(mentions) <= Len(Mentions(docs, q[j]))
    BY <1>2, <2>1
  <2> HIDE DEF p, mentions
  <2>5. \A k \in 1 .. Len(p) : Len(p) > 0 /\ p[k] \in 1 .. Len(docs)
    BY <1>11, <2>1
  <2>6. results = [i \in 1 .. Len(p) |-> GetDocText(ix, p[i])]
    BY <1>9, <2>1
  <2>7. \A k \in 1 .. Len(p) : GetDocText(ix, p[k]) = mentions[k]
    BY <2>2, <2>3, <2>5
  <2>8. mentions = [i \in 1 .. Len(p) |-> mentions[i]]
    BY <2>3
  <2>9. results = mentions
    BY <2>6, <2>7, <2>8
  <2> QED
    BY <1>7, <2>4, <2>9 DEF results, mentions, N, OfRarest
<1>13. CASE shortest = <<>> /\ cut # "none"
  <2>1. results = <<>>
    BY <1>9, <1>13
  <2> QED
    BY <1>13, <2>1 DEF results, OfRarest
<1>14. ASSUME cut = "inside", NEW x \in Words, NEW n \in 0 .. Len(Postings(docs, x)),
              shortest = SubSeq(Postings(docs, x), 1, n),
              shortest # <<>> => \A d \in 1 .. Len(docs) : GetDocText(ix, d) = docs[d]
       PROVE  OfRarest(results, docs, cut, q)
  <2> DEFINE p == Postings(docs, x)
             mentions == Mentions(docs, x)
             D == 1 .. Len(docs)
             part == SubSeq(mentions, 1, n)
  <2>1. /\ p \in Seq(D) /\ mentions \in Seq(Text) /\ Len(mentions) = Len(p)
        /\ \A k \in 1 .. Len(p) : mentions[k] = docs[p[k]]
    BY <1>2
  <2>2. n \in 0 .. Len(p) /\ shortest = SubSeq(p, 1, n)
    BY <1>14
  <2> HIDE DEF p, mentions, D
  <2>3. Len(shortest) = n /\ \A k \in 1 .. n : shortest[k] = p[k] /\ k \in 1 .. Len(p)
    <3>1. n \in Nat /\ n <= Len(p) /\ Len(p) \in Nat
      BY <2>1, <2>2, ListParts
    <3>2. Len(shortest) = n /\ \A k \in 1 .. n : shortest[k] = p[k]
      BY <2>1, <2>2, FirstOf
    <3> QED
      BY <3>1, <3>2
  <2>4. part \in Seq(Text) /\ Len(part) = n /\ \A k \in 1 .. n : part[k] = mentions[k]
    BY <2>1, <2>2, FirstOf
  <2> HIDE DEF part
  <2>5. ASSUME NEW k \in 1 .. n
        PROVE  GetDocText(ix, shortest[k]) = part[k]
    <3>1. shortest # <<>> /\ p[k] \in D
      <4>1. n \in Nat /\ 1 <= k /\ k <= n
        BY <2>2, <2>1, ListParts
      <4>2. shortest # <<>>
        BY <2>3, <4>1
      <4> QED
        BY <2>1, <2>3, <4>2, ListParts
    <3>2. GetDocText(ix, p[k]) = docs[p[k]]
      BY <1>14, <3>1 DEF D
    <3> QED
      BY <2>1, <2>3, <2>4, <3>2
  <2>6. results = part
    <3>1. results = [k \in 1 .. n |-> GetDocText(ix, shortest[k])]
      BY <1>9, <2>3
    <3>2. part = [k \in 1 .. n |-> part[k]]
      BY <2>4
    <3> QED
      BY <2>5, <3>1, <3>2
  <2>7. n \in 0 .. Len(mentions)
    BY <2>1, <2>2
  <2>8. \E k \in 0 .. Len(mentions) : results = SubSeq(mentions, 1, k)
    BY <2>6, <2>7 DEF part
  <2> QED
    BY <1>14, <2>8 DEF mentions, OfRarest
<1>15. CASE \E j \in 1 .. N : ~Finds(ix, docs, q[j])
  <2>1. PICK j \in 1 .. N : ~Finds(ix, docs, q[j])
    BY <1>15
  <2>2. Gives(ix, docs, q[j], cut) /\ Gives(ix, docs, q[m], cut)
    BY <1>1, <1>7
  <2>3. CASE GetInv(ix, q[j]) = <<>> /\ cut # "none"
    <3>1. Len(shortest) = 0
      BY <1>10, <1>11, <2>3
    <3>2. shortest = <<>>
      BY <1>11, <3>1
    <3> QED
      BY <1>13, <2>3, <3>2 DEF results
  <2>4. CASE cut = "inside"
    <3>1. CASE Finds(ix, docs, q[m])
      <4> DEFINE p == Postings(docs, q[m])
                 D == 1 .. Len(docs)
      <4>1. p \in Seq(D) /\ q[m] \in Words
        BY <1>1, <1>2, <1>7
      <4>2. shortest = p /\ (shortest # <<>> => \A d \in 1 .. Len(docs) : GetDocText(ix, d) = docs[d])
        BY <1>10, <3>1 DEF Finds
      <4> HIDE DEF p, D
      <4>3. SubSeq(p, 1, Len(p)) = p /\ Len(p) \in 0 .. Len(p)
        BY <4>1
      <4>4. shortest = SubSeq(p, 1, Len(p))
        BY <4>2, <4>3
      <4> QED
        BY <1>14, <2>4, <4>1, <4>2, <4>3, <4>4 DEF results, p
    <3>2. CASE GetInv(ix, q[m]) = <<>>
      BY <1>10, <1>13, <2>4, <3>2 DEF results
    <3>3. CASE FindsPart(ix, docs, q[m])
      <4>1. PICK x \in Words :
              \E n \in 0 .. Len(Postings(docs, x)) : GetInv(ix, q[m]) = SubSeq(Postings(docs, x), 1, n)
        BY <3>3 DEF FindsPart
      <4>2. shortest # <<>> => \A d \in 1 .. Len(docs) : GetDocText(ix, d) = docs[d]
        BY <1>10, <3>3 DEF FindsPart
      <4> QED
        BY <1>10, <1>14, <2>4, <4>1, <4>2 DEF results
    <3> QED
      BY <2>2, <3>1, <3>2, <3>3 DEF Gives
  <2> QED
    BY <2>1, <2>2, <2>3, <2>4 DEF Gives
<1> QED
  BY <1>12, <1>15 DEF results

(* A text is converted word by word.                                       *)
LEMMA ConvertedType ==
  ASSUME NEW text \in Text
  PROVE  /\ Converted(FullWidth, text) \in Text
         /\ Len(Converted(FullWidth, text)) = Len(text)
<1>1. /\ Len(text) \in Nat /\ text \in [1 .. Len(text) -> Words]
      /\ FullWidth \in [Words -> Words]
  BY TextType, WordsAssumption
<1> DEFINE N == Len(text)
           c == [n \in 1 .. N |-> FullWidth[text[n]]]
<1>2. Converted(FullWidth, text) = c
  BY DEF Converted
<1> HIDE DEF N
<1>3. \A n \in 1 .. N : FullWidth[text[n]] \in Words
  BY <1>1 DEF N
<1>4. c \in Seq(Words) /\ Len(c) = N
  BY <1>1, <1>3 DEF N
<1> QED
  BY <1>2, <1>4 DEF N, Text

(* The lengths of a query, and of its full-width text, decide whether it is  *)
(* searched for at all.                                                    *)
Asks(q) == Length(q) \in 2 .. MaxQuery /\ Length(Converted(FullWidth, q)) >= 2
LEMMA SearchParts ==
  ASSUME NEW ix, NEW q \in Text
  PROVE  /\ Asks(q) => /\ Converted(FullWidth, q) # <<>>
                       /\ GetIndexResults(ix, q) = GetUnionResults(ix, Converted(FullWidth, q))
         /\ ~Asks(q) => GetIndexResults(ix, q) = <<>>
<1> DEFINE words == Converted(FullWidth, q)
<1>1. Length(q) \in Nat /\ MaxQuery \in Nat /\ words \in Text
  BY ConvertedType, LengthType, DocIndexAssumption
<1>2. Length(words) \in Nat
  BY <1>1, LengthType
<1> HIDE DEF words
<1>3. Segment_(q) = <<>> <=> Length(q) < 2
  <2>1. q = <<>> => Length(q) < 2
    BY LengthEmpty
  <2> QED
    BY <2>1 DEF Segment_
<1>4. Normalize_(q) = IF Length(words) < 2 THEN <<>> ELSE words
  BY DEF Normalize_, Segment_, words
<1>5. GetUnionResults(ix, <<>>) = <<>>
  BY DEF GetUnionResults
<1>6. Length(words) >= 2 => words # <<>>
  BY LengthEmpty
<1>7. Asks(q) <=> Length(q) \in 2 .. MaxQuery /\ Length(words) >= 2
  BY DEF Asks, words
<1>8. GetIndexResults(ix, q) =
        IF Length(q) < 2 \/ Length(q) > MaxQuery THEN <<>>
        ELSE GetUnionResults(ix, Normalize_(q))
  BY <1>3 DEF GetIndexResults
<1> QED
  <2>1. CASE Asks(q)
    BY <1>1, <1>2, <1>4, <1>6, <1>7, <1>8, <2>1 DEF words
  <2>2. CASE ~Asks(q)
    BY <1>1, <1>2, <1>4, <1>5, <1>7, <1>8, <2>2
  <2> QED
    BY <2>1, <2>2

-----------------------------------------------------------------------------
(* What is found for a query.                                              *)

(* What is found are docs of a log.                                        *)
FromDocs ==
  /\ docLog \in Logs /\ Length(query) \in 2 .. MaxQuery
  /\ \A s \in Range(found) : \E d \in 1 .. Len(Docs(docLog)) : s = Docs(docLog)[d]

(* What the results of a search are.                                       *)
AreDocs(results, docs) ==
  /\ results \in Seq(Text)
  /\ \A s \in Range(results) : \E d \in 1 .. Len(docs) : s = docs[d]
LEMMA RarestParts ==
  ASSUME NEW results, NEW docs \in Seq(Text), NEW cut, NEW q, OfRarest(results, docs, cut, q)
  PROVE  AreDocs(results, docs)
<1>1. \A w : /\ Mentions(docs, w) \in Seq(Text)
             /\ \A s \in Range(Mentions(docs, w)) : \E d \in 1 .. Len(docs) : s = docs[d]
  BY PostingsParts, MentionsHas
<1>2. ASSUME NEW x, NEW n \in 0 .. Len(Mentions(docs, x)), results = SubSeq(Mentions(docs, x), 1, n)
      PROVE  AreDocs(results, docs)
  <2> DEFINE all == Mentions(docs, x)
  <2>1. /\ all \in Seq(Text) /\ n \in 0 .. Len(all) /\ results = SubSeq(all, 1, n)
        /\ \A s \in Range(all) : \E d \in 1 .. Len(docs) : s = docs[d]
    BY <1>1, <1>2
  <2> HIDE DEF all
  <2>2. results \in Seq(Text) /\ Len(results) = n /\ \A k \in 1 .. n : results[k] = all[k]
    BY <2>1, FirstOf
  <2>3. \A s \in Range(results) : s \in Range(all)
    <3>1. DOMAIN results = 1 .. n /\ DOMAIN all = 1 .. Len(all) /\ Len(all) \in Nat
      BY <2>1, <2>2, ListParts
    <3>2. \A k \in 1 .. n : k \in 1 .. Len(all)
      BY <2>1, <3>1
    <3> QED
      BY <2>2, <3>1, <3>2 DEF Range
  <2> QED
    BY <2>1, <2>2, <2>3 DEF AreDocs
<1>3. CASE \E m \in 1 .. Len(q) : results = Mentions(docs, q[m])
  BY <1>1, <1>3 DEF AreDocs
<1>4. CASE results = <<>>
  BY <1>4 DEF Range, AreDocs
<1> QED
  BY <1>2, <1>3, <1>4 DEF OfRarest

(* What FoundWhole says of the docs, and what found is.                    *)
LEMMA FoundParts ==
  ASSUME IInv, query # NoText
  PROVE  /\ FoundWhole /\ found \in Seq(Text) /\ (found # <<>> => FromDocs)
         /\ query \in Queries /\ query \in Text /\ up
         /\ asked = Shown(query, found)
         /\ \/ Lookup(da, asked) # <<>> /\ reply \in Range(Lookup(da, asked))
            \/ Lookup(da, asked) = <<>> /\ reply = NoReply
<1> DEFINE words == Converted(FullWidth, query)
<1>1. /\ up /\ query \in Queries
      /\ found = GetIndexResults(idx, query) /\ asked = Shown(query, found)
      /\ \/ Lookup(da, asked) # <<>> /\ reply \in Range(Lookup(da, asked))
         \/ Lookup(da, asked) = <<>> /\ reply = NoReply
  BY DEF IInv, Answering, Silent
<1>2. query \in Text /\ words \in Text
  BY <1>1, ConvertedType, DialogueAssumption
<1>3. FoundWhole <=>
        \/ /\ Asks(query)
           /\ \E i \in 1 .. Len(words) :
                /\ found = Having(docLog, words[i])
                /\ \A j \in 1 .. Len(words) :
                     Len(found) <= Len(Having(docLog, words[j]))
        \/ found = <<>> /\ (~Asks(query) \/ docCut # "none")
        \/ /\ Asks(query) /\ docCut = "inside"
           /\ \E w \in Words : IsPrefix(found, Having(docLog, w))
  BY DEF FoundWhole, Asks
<1> HIDE DEF words
<1>4. CASE ~Asks(query)
  <2>1. found = <<>>
    BY <1>1, <1>2, <1>4, SearchParts
  <2> QED
    BY <1>1, <1>2, <1>3, <1>4, <2>1
<1>5. CASE Asks(query)
  <2>1. found = GetUnionResults(idx, words) /\ words # <<>>
    BY <1>1, <1>2, <1>5, SearchParts DEF words
  <2>2. PICK index0 \in Buckets, size0 \in 0 .. 1 : idx = Load(docFile, index0, size0)
    BY <1>1 DEF IInv, Loaded
  <2>3. CASE docLog = <<>> /\ docFile = <<>> /\ docCut = "between"
    <3>1. idx = NoIndex
      BY <2>2, <2>3 DEF Load, Loads
    <3>2. \A w \in Words : Gives(idx, <<>>, w, docCut)
      BY <2>3, <3>1, NoIndexParts DEF Gives
    <3>3. <<>> \in Seq(Text) /\ Len(<<>>) = 0
      OBVIOUS
    <3>4. OfRarest(found, <<>>, docCut, words)
      <4>1. OfRarest(GetUnionResults(idx, words), <<>>, docCut, words)
        BY ONLY <1>2, <2>1, <3>2, <3>3, UnionParts
      <4> QED
        BY <2>1, <4>1
    <3>5. found \in Seq(Text) /\ \A s \in Range(found) : FALSE
      <4> DEFINE docs == <<>>
      <4>1. docs \in Seq(Text) /\ Len(docs) = 0 /\ OfRarest(found, docs, docCut, words)
        BY <3>3, <3>4
      <4> HIDE DEF docs
      <4>2. AreDocs(found, docs)
        BY ONLY <4>1, RarestParts
      <4>3. \A d \in 1 .. Len(docs) : FALSE
        BY <4>1
      <4> QED
        BY <4>2, <4>3 DEF AreDocs
    <3>6. found = <<>>
      <4>1. Len(found) \in Nat /\ DOMAIN found = 1 .. Len(found)
        BY <3>5, ListParts
      <4>2. \A k \in 1 .. Len(found) : FALSE
        BY <3>5, <4>1 DEF Range
      <4>3. Len(found) = 0
        BY <4>1, <4>2
      <4> QED
        BY <3>5, <4>3
    <3> QED
      BY <1>1, <1>2, <1>3, <2>3, <3>5, <3>6
  <2>4. ASSUME docLog \in Logs, docFile \in Cuts(DocFile(docLog)),
               docCut = IF docFile = DocFile(docLog) THEN "none"
                        ELSE IF IsPrefix(docFile, DocFile(docLog)) THEN "between"
                        ELSE "inside"
        PROVE  FoundWhole /\ found \in Seq(Text) /\ (found # <<>> => FromDocs)
    <3> DEFINE docs == Docs(docLog)
    <3>1. docs \in Seq(Text)
      BY <2>4, DocsParts
    <3>2. size0 \in Nat
      OBVIOUS
    <3>3. \A w \in Words : Gives(idx, docs, w, docCut)
      BY <2>2, <2>4, <3>2, LoadParts
    <3>4. \A w : Having(docLog, w) = Mentions(docs, w) /\ Mentions(docs, w) \in Seq(Text)
      BY <2>4, <3>1, HavingParts, PostingsParts
    <3> HIDE DEF docs
    <3>5. OfRarest(found, docs, docCut, words)
      <4>1. OfRarest(GetUnionResults(idx, words), docs, docCut, words)
        BY ONLY <1>2, <2>1, <3>1, <3>3, UnionParts
      <4> QED
        BY <2>1, <4>1
    <3>6. found \in Seq(Text) /\ \A s \in Range(found) : \E d \in 1 .. Len(docs) : s = docs[d]
      <4>1. AreDocs(found, docs)
        BY ONLY <3>1, <3>5, RarestParts
      <4> QED
        BY <4>1 DEF AreDocs
    <3>7. FoundWhole
      <4>1. CASE \E m \in 1 .. Len(words) :
                   /\ found = Mentions(docs, words[m])
                   /\ \A j \in 1 .. Len(words) :
                        Len(Mentions(docs, words[m])) <= Len(Mentions(docs, words[j]))
        BY <1>3, <1>5, <3>4, <4>1
      <4>2. CASE found = <<>> /\ docCut # "none"
        BY <1>3, <4>2
      <4>3. ASSUME docCut = "inside", NEW x \in Words, NEW n \in 0 .. Len(Mentions(docs, x)),
                   found = SubSeq(Mentions(docs, x), 1, n)
            PROVE  FoundWhole
        <5>1. IsPrefix(SubSeq(Mentions(docs, x), 1, n), Mentions(docs, x))
          BY <3>4, FirstOf
        <5>2. IsPrefix(found, Having(docLog, x))
          BY <3>4, <4>3, <5>1
        <5> QED
          BY <1>3, <1>5, <4>3, <5>2
      <4> QED
        BY <3>5, <4>1, <4>2, <4>3 DEF OfRarest
    <3>8. found # <<>> => FromDocs
      BY <1>5, <2>4, <3>6 DEF FromDocs, Asks, docs
    <3> QED
      BY <3>6, <3>7, <3>8
  <2>5. FoundWhole /\ found \in Seq(Text) /\ (found # <<>> => FromDocs)
    BY <2>3, <2>4, <1>1 DEF IInv, FilesCut
  <2> QED
    BY <1>1, <1>2, <2>5
<1> QED
  BY <1>4, <1>5

-----------------------------------------------------------------------------
(* The invariants about what is found.                                     *)

(* The question shown has words, so what is found for it as a key are the   *)
(* answers to the questions that have that key.                            *)
LEMMA AnswerLoggedInv == IInv => AnswerLogged
<1> SUFFICES ASSUME IInv, asked # NoText PROVE AnswerLogged
  BY DEF AnswerLogged
<1>1. query # NoText
  <2>1. NoText \notin Queries
    BY DialogueAssumption DEF NoText
  <2> QED
    BY <2>1 DEF IInv, Answering, Silent
<1>2. /\ found \in Seq(Text) /\ (found # <<>> => FromDocs) /\ query \in Text /\ up
      /\ asked = Shown(query, found)
      /\ \/ Lookup(da, asked) # <<>> /\ reply \in Range(Lookup(da, asked))
         \/ Lookup(da, asked) = <<>> /\ reply = NoReply
  BY <1>1, FoundParts
<1>3. asked \in Range(found)
  <2>1. \/ Shown(query, found) = NoText
        \/ Shown(query, found) \in Range(found)
    BY <1>2, ShownParts
  <2> QED
    BY <1>2, <2>1
<1>4. docLog \in Logs /\ \E d \in 1 .. Len(Docs(docLog)) : asked = Docs(docLog)[d]
  <2>1. found # <<>>
    BY <1>3 DEF Range
  <2> QED
    BY <1>2, <1>3, <2>1 DEF FromDocs
<1>5. Segment_(asked) # <<>>
  BY <1>4, DocsParts
<1> DEFINE mine == {i \in 1 .. Len(daLog) : change2qj(daLog[i].question) = asked}
<1>6. /\ mine = {} => Lookup(da, asked) = <<>>
      /\ mine # {} => Lookup(da, asked) # <<>>
      /\ \A x \in Range(Lookup(da, asked)) : \E i \in mine : daLog[i].answer = x
  BY <1>2, <1>5, KeyAnswers
<1>7. AnswerLogged <=> IF mine = {} THEN reply = NoReply
                       ELSE \E i \in mine : daLog[i].answer = reply
  BY DEF AnswerLogged
<1> HIDE DEF mine
<1> QED
  BY <1>2, <1>6, <1>7

(* Of the questions that have the key of the question shown one has the     *)
(* answer, if there are such questions, and nothing else is replied, from    *)
(* whichever logs the files are and wherever they were cut                  *)
(* (Index_da.cpp, Da_Search.cpp, dialogue.cpp).                             *)
THEOREM AnswerWasLogged == Spec => []AnswerLogged
  BY Invariant, AnswerLoggedInv, PTL

(* Texts, docs and replies are of these sets in every state of IInv.       *)
LEMMA TypeInv == IInv => TypeOK
<1> SUFFICES ASSUME IInv PROVE TypeOK
  OBVIOUS
<1>1. /\ docLog \in Logs \union {<<>>} /\ daLog \in Logs \union {<<>>}
      /\ docCut \in {"none", "between", "inside"} /\ up \in BOOLEAN
  BY DEF IInv, FilesCut, Loaded
<1>2. CASE query = NoText
  <2>1. Silent
    <3>1. NoText \notin Queries
      BY DialogueAssumption DEF NoText
    <3> QED
      BY <1>2, <3>1 DEF IInv, Answering
  <2> QED
    BY <1>1, <2>1 DEF TypeOK, Silent
<1>3. CASE query # NoText
  <2>1. /\ found \in Seq(Text) /\ query \in Queries /\ query \in Text /\ up
        /\ asked = Shown(query, found)
        /\ \/ Lookup(da, asked) # <<>> /\ reply \in Range(Lookup(da, asked))
           \/ Lookup(da, asked) = <<>> /\ reply = NoReply
    BY <1>3, FoundParts
  <2>2. \A i \in 1 .. Len(found) : found[i] \in Text
    BY <2>1, ListParts
  <2>3. asked \in Range(found) \union {NoText}
    <3>1. \/ Shown(query, found) = NoText
          \/ Shown(query, found) \in Range(found)
      BY <2>1, ShownParts
    <3> QED
      BY <2>1, <3>1
  <2>4. asked = NoText => reply = NoReply
    <3>1. Segment_(<<>>) = <<>>
      BY LengthEmpty DEF Segment_
    <3>2. Lookup(da, <<>>) = <<>>
      BY <3>1 DEF Lookup
    <3> QED
      BY <2>1, <3>2 DEF NoText
  <2>5. reply \in Answers \union {NoReply}
    <3>1. CASE reply # NoReply
      <4>1. \E i \in 1 .. Len(daLog) : daLog[i].answer = reply
        <5>1. asked # NoText
          BY <2>4, <3>1
        <5> QED
          BY <3>1, <5>1, AnswerLoggedInv DEF AnswerLogged
      <4>2. daLog \in Logs
        BY <2>1, AnswersFrom
      <4>3. \A i \in 1 .. Len(daLog) : daLog[i].answer \in Answers
        BY <4>2, LogType
      <4> QED
        BY <4>1, <4>3
    <3> QED
      BY <3>1
  <2> QED
    BY <1>1, <2>1, <2>2, <2>3, <2>4, <2>5 DEF TypeOK
<1> QED
  BY <1>2, <1>3

(* In every state every variable has its type, the question shown is one of *)
(* those found, and nothing is replied when none is shown.                  *)
THEOREM TypeCorrect == Spec => []TypeOK
  BY Invariant, TypeInv, PTL

(* Before a query it says nothing; for one it is in FoundParts.            *)
LEMMA FoundWholeInv == IInv => FoundWhole
<1>1. CASE query = NoText
  BY <1>1 DEF FoundWhole
<1>2. CASE query # NoText
  BY <1>2, FoundParts
<1> QED
  BY <1>1, <1>2

(* A query finds the logged questions, as they were typed, that have the    *)
(* rarest word of its full-width text, once for each time they have it;     *)
(* from a file that was cut between two units it finds them or nothing, and *)
(* from one that was cut inside a number maybe the first ones of another     *)
(* word (HashVector_Enhanced.h, common_index.h, doc_index.cpp).             *)
THEOREM FoundIsWhole == Spec => []FoundWhole
  BY Invariant, FoundWholeInv, PTL

(* A full-width question has every word of its own: the search finds it, at *)
(* the distance 0, at which no other question is; a simplified one is its    *)
(* own key.                                                                *)
LEMMA KnownAnsweredInv == IInv => KnownAnswered
<1> SUFFICES ASSUME IInv, docCut = "none", docLog = daLog, Length(query) \in 2 .. MaxQuery,
                    Converted(FullWidth, query) = query, change2qj(query) = query,
                    NEW i \in 1 .. Len(docLog), docLog[i].question = query
             PROVE  /\ asked = query
                    /\ \E j \in 1 .. Len(docLog) :
                         change2qj(docLog[j].question) = query /\ docLog[j].answer = reply
  BY DEF KnownAnswered
<1> DEFINE docs == Docs(docLog)
<1>1. query # NoText
  <2>1. 0 \notin 2 .. MaxQuery
    OBVIOUS
  <2> QED
    BY <2>1, LengthEmpty DEF NoText
<1>2. /\ FoundWhole /\ found \in Seq(Text) /\ query \in Text /\ up
      /\ asked = Shown(query, found)
      /\ \/ Lookup(da, asked) # <<>> /\ reply \in Range(Lookup(da, asked))
         \/ Lookup(da, asked) = <<>> /\ reply = NoReply
  BY <1>1, FoundParts
<1>4. docLog \in Logs
  BY <1>2, AnswersFrom
<1>5. Length(query) >= 2 /\ Length(query) \in Nat
  BY <1>2, LengthType
<1>6. /\ docs \in Seq(Text)
      /\ \A d \in 1 .. Len(docs) : Segment_(docs[d]) # <<>>
      /\ \E d \in 1 .. Len(docs) : docs[d] = query
  BY <1>4, <1>5, DocsParts
<1>7. PICK m \in 1 .. Len(query) : found = Mentions(docs, query[m])
  <2>1. PICK m \in 1 .. Len(query) : found = Having(docLog, query[m])
    BY <1>1, <1>2 DEF FoundWhole
  <2>2. Having(docLog, query[m]) = Mentions(docs, query[m])
    BY <1>4, HavingParts
  <2> QED
    BY <2>1, <2>2
<1> HIDE DEF docs
<1>8. query \in Range(found)
  <2>1. query[m] \in Range(query)
    BY <1>2, TextType DEF Range
  <2> QED
    BY <1>6, <1>7, <2>1, MentionsHas
<1>9. \A s \in Range(found) : s \in Text /\ Segment_(s) # <<>>
  <2>1. \A s \in Range(found) : \E d \in 1 .. Len(docs) : s = docs[d]
    BY <1>6, <1>7, MentionsHas
  <2>2. \A d \in 1 .. Len(docs) : docs[d] \in Text
    BY <1>6, ListParts
  <2> QED
    BY <1>6, <2>1, <2>2
<1>10. PICK k \in 1 .. Len(found) : found[k] = query
  BY <1>2, <1>8, ListParts DEF Range
<1>11. Calculate(query, query) = 0
  BY <1>2, <1>8, <1>9, CalculateType, EditZero
<1>12. asked \in Range(found) /\ Calculate(query, asked) = 0
  <2>1. \/ Calculate(query, query) > MaxDistance
        \/ \E d \in 0 .. MaxDistance :
             /\ Shown(query, found) \in Range(found) /\ Calculate(query, Shown(query, found)) = d
             /\ d <= Calculate(query, query)
    BY <1>2, <1>10, ShownParts
  <2>2. MaxDistance \in Nat
    BY DialogueAssumption
  <2>3. PICK d \in 0 .. MaxDistance :
          asked \in Range(found) /\ Calculate(query, asked) = d /\ d <= 0
    BY <1>2, <1>11, <2>1, <2>2
  <2> QED
    BY <2>2, <2>3
<1>13. asked = query
  BY <1>2, <1>8, <1>9, <1>12, CalculateType, EditZero
<1> DEFINE mine == {j \in 1 .. Len(daLog) : change2qj(daLog[j].question) = query}
<1>14. mine # {}
  <2>1. i \in mine
    OBVIOUS
  <2> QED
    BY <2>1
<1>15. /\ mine # {} => Lookup(da, query) # <<>>
       /\ \A x \in Range(Lookup(da, query)) : \E j \in mine : daLog[j].answer = x
  <2>1. Segment_(query) # <<>>
    BY <1>8, <1>9
  <2> QED
    BY <1>2, <2>1, KeyAnswers
<1> HIDE DEF mine
<1>16. \E j \in mine : daLog[j].answer = reply
  BY <1>2, <1>13, <1>14, <1>15
<1> QED
  BY <1>13, <1>16 DEF mine

(* A logged question in full-width, simplified characters, asked again, is  *)
(* shown and gets an answer of a question with its key, when the doc index   *)
(* is whole and both are of one log (normalize.cpp, doc_index.cpp,          *)
(* EditDist.cpp, Index_da.cpp, Da_Search.cpp, dialogue.cpp).                *)
THEOREM KnownIsAnswered == Spec => []KnownAnswered
  BY Invariant, KnownAnsweredInv, PTL

-----------------------------------------------------------------------------
(* The distance is the least number of edits.                              *)

Differ(x, y) == IF x = y THEN 0 ELSE 1

(* A table that edit fills: at its borders a cell has its distance from the *)
(* corner, every other is the least of the three ways to it.               *)
Table(c, s, t) ==
  /\ \A i \in 0 .. Len(s), j \in 0 .. Len(t) : c[<<i, j>>] \in Nat
  /\ \A j \in 0 .. Len(t) : c[<<0, j>>] = j
  /\ \A i \in 0 .. Len(s) : c[<<i, 0>>] = i
  /\ \A i \in 1 .. Len(s), j \in 1 .. Len(t) :
       /\ c[<<i, j>>] <= c[<<i, j - 1>>] + 1
       /\ c[<<i, j>>] <= c[<<i - 1, j>>] + 1
       /\ c[<<i, j>>] <= c[<<i - 1, j - 1>>] + Differ(s[i], t[j])
       /\ \/ c[<<i, j>>] = c[<<i, j - 1>>] + 1
          \/ c[<<i, j>>] = c[<<i - 1, j>>] + 1
          \/ c[<<i, j>>] = c[<<i - 1, j - 1>>] + Differ(s[i], t[j])

(* edit fills such a table.                                                *)
LEMMA CellsTable ==
  ASSUME NEW s \in Text, NEW t \in Text
  PROVE  Table(Cells(s, t), s, t)
<1> DEFINE cells == Cells(s, t)
<1>1. /\ \A i \in 0 .. Len(s), j \in 0 .. Len(t) : cells[<<i, j>>] \in Nat
      /\ \A j \in 0 .. Len(t) : cells[<<0, j>>] = j
      /\ \A i \in 0 .. Len(s) : cells[<<i, 0>>] = i
      /\ \A i \in 1 .. Len(s), j \in 1 .. Len(t) : cells[<<i, j>>] = CellOf(s, t, cells, i, j)
  BY CellsParts DEF Text
<1> HIDE DEF cells
<1>2. ASSUME NEW i \in 1 .. Len(s), NEW j \in 1 .. Len(t)
      PROVE  /\ cells[<<i, j>>] <= cells[<<i, j - 1>>] + 1
             /\ cells[<<i, j>>] <= cells[<<i - 1, j>>] + 1
             /\ cells[<<i, j>>] <= cells[<<i - 1, j - 1>>] + Differ(s[i], t[j])
             /\ \/ cells[<<i, j>>] = cells[<<i, j - 1>>] + 1
                \/ cells[<<i, j>>] = cells[<<i - 1, j>>] + 1
                \/ cells[<<i, j>>] = cells[<<i - 1, j - 1>>] + Differ(s[i], t[j])
  <2>1. /\ i \in 0 .. Len(s) /\ i - 1 \in 0 .. Len(s)
        /\ j \in 0 .. Len(t) /\ j - 1 \in 0 .. Len(t)
    BY TextType
  <2> DEFINE x == cells[<<i, j - 1>>]
             y == cells[<<i - 1, j>>]
             z == cells[<<i - 1, j - 1>>]
             d == Differ(s[i], t[j])
             v == cells[<<i, j>>]
  <2>2. x \in Nat /\ y \in Nat /\ z \in Nat
    BY <1>1, <2>1
  <2>3. d \in Nat
    BY DEF Differ
  <2>4. v = Less(Less(x + 1, y + 1), z + d)
    BY <1>1 DEF CellOf, Differ
  <2> SUFFICES /\ v <= x + 1 /\ v <= y + 1 /\ v <= z + d
               /\ v = x + 1 \/ v = y + 1 \/ v = z + d
    OBVIOUS
  <2> HIDE DEF x, y, z, d, v
  <2> QED
    BY <2>2, <2>3, <2>4 DEF Less
<1> QED
  BY <1>1, <1>2 DEF Table, cells

(* Two texts that begin alike, two tables with the same first columns.      *)
AlikeUpto(u, t, a) == a <= Len(u) /\ a <= Len(t) /\ \A k \in 1 .. a : u[k] = t[k]
SameUpto(c, e, M, a) == \A i \in 0 .. M, j \in 0 .. a : e[<<i, j>>] = c[<<i, j>>]

(* The columns before the first difference of two texts are the same.       *)
LEMMA PrefixCells ==
  ASSUME NEW s \in Text, NEW u \in Text, NEW t \in Text, NEW c, NEW e,
         Table(c, s, u), Table(e, s, t),
         NEW a \in Nat, AlikeUpto(u, t, a)
  PROVE  SameUpto(c, e, Len(s), a)
<1> DEFINE M == Len(s)
           S == {j \in 0 .. a : \A i \in 0 .. M : e[<<i, j>>] = c[<<i, j>>]}
<1>1. /\ M \in Nat /\ Len(u) \in Nat /\ Len(t) \in Nat
      /\ a <= Len(u) /\ a <= Len(t) /\ \A k \in 1 .. a : u[k] = t[k]
  BY TextType DEF AlikeUpto
<1>2. 0 \in S
  BY <1>1 DEF Table
<1>3. ASSUME NEW j \in 0 .. a - 1, j \in S
      PROVE  j + 1 \in S
  <2> DEFINE q == j + 1
             I == {i \in 0 .. M : e[<<i, q>>] = c[<<i, q>>]}
  <2>1. /\ q \in 1 .. a /\ q \in 0 .. a /\ q - 1 = j /\ q \in 0 .. Len(u) /\ q \in 0 .. Len(t)
        /\ q \in 1 .. Len(u) /\ q \in 1 .. Len(t) /\ j \in 0 .. Len(u) /\ j \in 0 .. Len(t)
    BY <1>1
  <2> HIDE DEF q
  <2>2. 0 \in I
    BY <1>1, <2>1 DEF Table
  <2>3. ASSUME NEW i \in 0 .. M - 1, i \in I
        PROVE  i + 1 \in I
    <3> DEFINE p == i + 1
    <3>1. p \in 1 .. M /\ p - 1 = i /\ p \in 0 .. M /\ i \in 0 .. M
      BY <1>1
    <3> HIDE DEF p
    <3> DEFINE d == Differ(s[p], t[q])
    <3>2. Differ(s[p], u[q]) = d
      BY <1>1, <2>1
    <3>3. d \in Nat
      BY DEF Differ
    <3> HIDE DEF d
    <3>4. /\ c[<<p, q>>] \in Nat /\ c[<<p, j>>] \in Nat /\ c[<<i, q>>] \in Nat /\ c[<<i, j>>] \in Nat
          /\ e[<<p, q>>] \in Nat
      BY <2>1, <3>1 DEF Table
    <3>5. e[<<p, j>>] = c[<<p, j>>] /\ e[<<i, j>>] = c[<<i, j>>] /\ e[<<i, q>>] = c[<<i, q>>]
      BY <1>3, <2>3, <3>1
    <3>6. /\ c[<<p, q>>] <= c[<<p, j>>] + 1
          /\ c[<<p, q>>] <= c[<<i, q>>] + 1
          /\ c[<<p, q>>] <= c[<<i, j>>] + d
          /\ \/ c[<<p, q>>] = c[<<p, j>>] + 1
             \/ c[<<p, q>>] = c[<<i, q>>] + 1
             \/ c[<<p, q>>] = c[<<i, j>>] + d
      BY <2>1, <3>1, <3>2 DEF Table
    <3>7. /\ e[<<p, q>>] <= e[<<p, j>>] + 1
          /\ e[<<p, q>>] <= e[<<i, q>>] + 1
          /\ e[<<p, q>>] <= e[<<i, j>>] + d
          /\ \/ e[<<p, q>>] = e[<<p, j>>] + 1
             \/ e[<<p, q>>] = e[<<i, q>>] + 1
             \/ e[<<p, q>>] = e[<<i, j>>] + d
      BY <2>1, <3>1, <3>2 DEF Table, d
    <3>8. e[<<p, q>>] = c[<<p, q>>]
      <4> DEFINE x == c[<<p, q>>]
                 y == e[<<p, q>>]
                 w == c[<<p, j>>]
                 b == c[<<i, q>>]
                 z == c[<<i, j>>]
      <4>1. x \in Nat /\ y \in Nat /\ w \in Nat /\ b \in Nat /\ z \in Nat
        BY <3>4
      <4>2. /\ x <= w + 1 /\ x <= b + 1 /\ x <= z + d
            /\ x = w + 1 \/ x = b + 1 \/ x = z + d
        BY <3>6
      <4>3. /\ y <= w + 1 /\ y <= b + 1 /\ y <= z + d
            /\ y = w + 1 \/ y = b + 1 \/ y = z + d
        BY <3>5, <3>7
      <4> HIDE DEF x, y, w, b, z
      <4>4. y = x
        BY ONLY <3>3, <4>1, <4>2, <4>3
      <4> QED
        BY <4>4 DEF x, y
    <3> QED
      BY <3>1, <3>8 DEF p
  <2>4. \A i \in 0 .. M : i \in I
    <3> HIDE DEF I
    <3>1. /\ M \in Int /\ 0 \in Int /\ (0 <= M => 0 \in I)
          /\ \A i \in 0 .. M - 1 : i \in I => i + 1 \in I
      BY <1>1, <2>2, <2>3
    <3> QED
      BY ONLY <3>1, Induction
  <2>5. \A i \in 0 .. M : e[<<i, q>>] = c[<<i, q>>]
    BY <2>4
  <2> QED
    BY <2>1, <2>5 DEF q
<1>4. \A j \in 0 .. a : j \in S
  <2> HIDE DEF S
  <2>1. /\ a \in Int /\ 0 \in Int /\ (0 <= a => 0 \in S)
        /\ \A j \in 0 .. a - 1 : j \in S => j + 1 \in S
    BY <1>2, <1>3
  <2> QED
    BY ONLY <2>1, Induction
<1> QED
  BY <1>4 DEF SameUpto

(* Behind a difference the columns of two texts that go on alike differ by  *)
(* no more than at it: b is the place in t of place a in u.                *)
LEMMA ShiftedCells ==
  ASSUME NEW s \in Text, NEW u \in Text, NEW t \in Text, NEW c, NEW e,
         Table(c, s, u), Table(e, s, t),
         NEW a \in 0 .. Len(u), NEW b \in 0 .. Len(t), b <= a + 1,
         Len(t) - b = Len(u) - a,
         \A k \in 1 .. Len(u) - a : t[b + k] = u[a + k],
         \A i \in 0 .. Len(s) : e[<<i, b>>] <= c[<<i, a>>] + 1
  PROVE  e[<<Len(s), Len(t)>>] <= c[<<Len(s), Len(u)>>] + 1
<1> DEFINE M == Len(s)
           N == Len(u) - a
           S == {k \in 0 .. N : \A i \in 0 .. M : e[<<i, b + k>>] <= c[<<i, a + k>>] + 1}
<1>1. M \in Nat /\ Len(u) \in Nat /\ Len(t) \in Nat /\ N \in Nat /\ a \in Nat /\ b \in Nat
      /\ b + 0 = b /\ a + 0 = a
  BY TextType
<1>2. 0 \in S
  BY <1>1
<1>3. ASSUME NEW k \in 0 .. N - 1, k \in S
      PROVE  k + 1 \in S
  <2> DEFINE q == a + k
             r == b + k
             Q == a + (k + 1)
             R == b + (k + 1)
             I == {i \in 0 .. M : e[<<i, R>>] <= c[<<i, Q>>] + 1}
  <2>1. /\ k + 1 \in 0 .. N /\ q \in 0 .. Len(u) /\ r \in 0 .. Len(t)
        /\ Q \in 0 .. Len(u) /\ R \in 0 .. Len(t) /\ Q \in 1 .. Len(u) /\ R \in 1 .. Len(t)
        /\ Q - 1 = q /\ R - 1 = r /\ R <= Q + 1
    BY <1>1
  <2>2. t[R] = u[Q]
    <3>1. k + 1 \in 1 .. Len(u) - a
      BY <1>1
    <3> QED
      BY <3>1
  <2>3. \A i \in 0 .. M : e[<<i, r>>] <= c[<<i, q>>] + 1
    BY <1>3
  <2> HIDE DEF q, r, Q, R
  <2>4. 0 \in I
    <3>1. e[<<0, R>>] = R /\ c[<<0, Q>>] = Q
      BY <2>1 DEF Table
    <3>2. 0 \in 0 .. M
      BY <1>1
    <3>3. e[<<0, R>>] <= c[<<0, Q>>] + 1
      BY <2>1, <3>1
    <3> QED
      BY <3>2, <3>3
  <2>5. ASSUME NEW i \in 0 .. M - 1, i \in I
        PROVE  i + 1 \in I
    <3> DEFINE p == i + 1
    <3>1. p \in 1 .. M /\ p - 1 = i /\ p \in 0 .. M /\ i \in 0 .. M
      BY <1>1
    <3> HIDE DEF p
    <3> DEFINE d == Differ(s[p], u[Q])
    <3>2. d \in Nat
      BY DEF Differ
    <3>3. Differ(s[p], t[R]) = d
      BY <2>2
    <3> HIDE DEF d
    <3>4. /\ c[<<p, Q>>] \in Nat /\ c[<<p, q>>] \in Nat /\ c[<<i, Q>>] \in Nat /\ c[<<i, q>>] \in Nat
          /\ e[<<p, R>>] \in Nat /\ e[<<p, r>>] \in Nat /\ e[<<i, R>>] \in Nat /\ e[<<i, r>>] \in Nat
      BY <2>1, <3>1 DEF Table
    <3>5. /\ e[<<p, r>>] <= c[<<p, q>>] + 1 /\ e[<<i, r>>] <= c[<<i, q>>] + 1
          /\ e[<<i, R>>] <= c[<<i, Q>>] + 1
      BY <2>3, <2>5, <3>1
    <3>6. \/ c[<<p, Q>>] = c[<<p, q>>] + 1
          \/ c[<<p, Q>>] = c[<<i, Q>>] + 1
          \/ c[<<p, Q>>] = c[<<i, q>>] + d
      BY <2>1, <3>1 DEF Table, d
    <3>7. /\ e[<<p, R>>] <= e[<<p, r>>] + 1
          /\ e[<<p, R>>] <= e[<<i, R>>] + 1
          /\ e[<<p, R>>] <= e[<<i, r>>] + d
      BY <2>1, <3>1, <3>3 DEF Table
    <3>8. e[<<p, R>>] <= c[<<p, Q>>] + 1
      <4> DEFINE c1 == c[<<p, q>>]
                 c2 == c[<<i, Q>>]
                 c3 == c[<<i, q>>]
                 c4 == c[<<p, Q>>]
                 e1 == e[<<p, r>>]
                 e2 == e[<<i, R>>]
                 e3 == e[<<i, r>>]
                 e4 == e[<<p, R>>]
      <4>1. /\ c1 \in Nat /\ c2 \in Nat /\ c3 \in Nat /\ c4 \in Nat
            /\ e1 \in Nat /\ e2 \in Nat /\ e3 \in Nat /\ e4 \in Nat
            /\ e1 <= c1 + 1 /\ e2 <= c2 + 1 /\ e3 <= c3 + 1
            /\ c4 = c1 + 1 \/ c4 = c2 + 1 \/ c4 = c3 + d
            /\ e4 <= e1 + 1 /\ e4 <= e2 + 1 /\ e4 <= e3 + d
        BY <3>4, <3>5, <3>6, <3>7
      <4> HIDE DEF c1, c2, c3, c4, e1, e2, e3, e4
      <4>2. e4 <= c4 + 1
        BY ONLY <3>2, <4>1
      <4> QED
        BY <4>2 DEF c4, e4
    <3> QED
      BY <3>1, <3>8 DEF p
  <2>6. \A i \in 0 .. M : i \in I
    <3> HIDE DEF I
    <3>1. /\ M \in Int /\ 0 \in Int /\ (0 <= M => 0 \in I)
          /\ \A i \in 0 .. M - 1 : i \in I => i + 1 \in I
      BY <1>1, <2>4, <2>5
    <3> QED
      BY ONLY <3>1, Induction
  <2>7. \A i \in 0 .. M : e[<<i, R>>] <= c[<<i, Q>>] + 1
    BY <2>6
  <2> QED
    BY <2>1, <2>7 DEF Q, R
<1>4. \A k \in 0 .. N : k \in S
  <2> HIDE DEF S, N
  <2>1. /\ N \in Int /\ 0 \in Int /\ (0 <= N => 0 \in S)
        /\ \A k \in 0 .. N - 1 : k \in S => k + 1 \in S
    BY <1>1, <1>2, <1>3
  <2> QED
    BY ONLY <2>1, Induction
<1>5. N \in 0 .. N /\ M \in 0 .. M /\ b + N = Len(t) /\ a + N = Len(u)
  BY <1>1
<1>6. e[<<M, b + N>>] <= c[<<M, a + N>>] + 1
  <2> HIDE DEF N
  <2> QED
    BY <1>4, <1>5
<1> QED
  BY <1>5, <1>6

(* A text t that is u without the word at p, and one with another there.    *)
Removed(u, t, p) ==
  /\ p \in 1 .. Len(u) /\ Len(t) = Len(u) - 1
  /\ \A k \in 1 .. p - 1 : t[k] = u[k]
  /\ \A k \in p .. Len(t) : t[k] = u[k + 1]
Replaced(u, t, p) ==
  /\ p \in 1 .. Len(u) /\ Len(t) = Len(u)
  /\ \A k \in 1 .. Len(u) : k # p => t[k] = u[k]

(* RemoveAt and InsertAt do that.                                          *)
LEMMA RemoveAtParts ==
  ASSUME NEW u \in Text, NEW p \in 1 .. Len(u)
  PROVE  RemoveAt(u, p) \in Text /\ Removed(u, RemoveAt(u, p), p)
<1> DEFINE N == Len(u)
           a == SubSeq(u, 1, p - 1)
           b == SubSeq(u, p + 1, N)
           t == a \o b
<1>1. N \in Nat /\ u \in Seq(Words)
  BY TextType DEF Text
<1>2. /\ a \in Seq(Words) /\ Len(a) = p - 1 /\ \A k \in 1 .. p - 1 : a[k] = u[k]
      /\ b \in Seq(Words) /\ Len(b) = N - p /\ \A k \in 1 .. N - p : b[k] = u[p + k]
  <2>1. p - 1 \in Nat /\ 0 \in Nat /\ 0 <= p - 1 /\ p - 1 <= N /\ p \in Nat /\ p <= N
    BY <1>1
  <2>2. /\ SubSeq(u, 0 + 1, p - 1) \in Seq(Words) /\ Len(SubSeq(u, 0 + 1, p - 1)) = (p - 1) - 0
        /\ \A k \in 1 .. (p - 1) - 0 : SubSeq(u, 0 + 1, p - 1)[k] = u[0 + k]
    BY <1>1, <2>1, SubSeqParts
  <2>3. /\ b \in Seq(Words) /\ Len(b) = N - p
        /\ \A k \in 1 .. N - p : b[k] = u[p + k]
    BY <1>1, <2>1, SubSeqParts
  <2> QED
    BY <2>1, <2>2, <2>3
<1> HIDE DEF a, b
<1>3. /\ t \in Seq(Words) /\ Len(t) = Len(a) + Len(b)
      /\ \A k \in 1 .. Len(a) : t[k] = a[k]
      /\ \A k \in 1 .. Len(b) : t[Len(a) + k] = b[k]
  <2>1. a \in Seq(Words) /\ b \in Seq(Words)
    BY <1>2
  <2> QED
    BY ONLY <2>1, JoinParts
<1>4. RemoveAt(u, p) = t
  BY DEF RemoveAt, a, b
<1> HIDE DEF t
<1>5. Len(t) = N - 1
  <2>1. Len(t) = (p - 1) + (N - p)
    BY <1>2, <1>3
  <2> HIDE DEF N
  <2> QED
    BY <1>1, <2>1
<1>6. \A k \in 1 .. p - 1 : t[k] = u[k]
  BY <1>2, <1>3
<1>7. ASSUME NEW k \in p .. Len(t)
      PROVE  t[k] = u[k + 1]
  <2>1. k + 1 - p \in 1 .. N - p /\ (p - 1) + (k + 1 - p) = k /\ p + (k + 1 - p) = k + 1
    BY <1>1, <1>5
  <2>2. t[(p - 1) + (k + 1 - p)] = b[k + 1 - p] /\ b[k + 1 - p] = u[p + (k + 1 - p)]
    BY <1>2, <1>3, <2>1
  <2> QED
    BY <2>1, <2>2
<1> QED
  BY <1>3, <1>4, <1>5, <1>6, <1>7 DEF Removed, Text

(* A text with a word more is a text, and this word can be removed again.  *)
LEMMA InsertAtParts ==
  ASSUME NEW u \in Text, NEW p \in 1 .. Len(u) + 1, NEW w \in Words
  PROVE  /\ InsertAt(u, p, w) \in Text /\ Removed(InsertAt(u, p, w), u, p)
         /\ InsertAt(u, p, w)[p] = w
<1> DEFINE N == Len(u)
           a == SubSeq(u, 1, p - 1)
           one == <<w>>
           b == SubSeq(u, p, N)
           h == a \o one
           t == h \o b
<1>1. N \in Nat /\ u \in Seq(Words)
  BY TextType DEF Text
<1>2. /\ a \in Seq(Words) /\ Len(a) = p - 1 /\ \A k \in 1 .. p - 1 : a[k] = u[k]
      /\ b \in Seq(Words) /\ Len(b) = N - (p - 1) /\ \A k \in 1 .. N - (p - 1) : b[k] = u[p - 1 + k]
  <2>1. p - 1 \in Nat /\ 0 \in Nat /\ 0 <= p - 1 /\ p - 1 <= N /\ p = (p - 1) + 1
    BY <1>1
  <2>2. /\ SubSeq(u, 0 + 1, p - 1) \in Seq(Words) /\ Len(SubSeq(u, 0 + 1, p - 1)) = (p - 1) - 0
        /\ \A k \in 1 .. (p - 1) - 0 : SubSeq(u, 0 + 1, p - 1)[k] = u[0 + k]
    BY <1>1, <2>1, SubSeqParts
  <2>3. /\ SubSeq(u, (p - 1) + 1, N) \in Seq(Words) /\ Len(SubSeq(u, (p - 1) + 1, N)) = N - (p - 1)
        /\ \A k \in 1 .. N - (p - 1) : SubSeq(u, (p - 1) + 1, N)[k] = u[(p - 1) + k]
    BY <1>1, <2>1, SubSeqParts
  <2> QED
    BY <2>1, <2>2, <2>3
<1>3. one \in Seq(Words) /\ Len(one) = 1 /\ one[1] = w
  OBVIOUS
<1> HIDE DEF a, b, one
<1>4. /\ h \in Seq(Words) /\ Len(h) = Len(a) + Len(one)
      /\ \A k \in 1 .. Len(a) : h[k] = a[k]
      /\ \A k \in 1 .. Len(one) : h[Len(a) + k] = one[k]
  <2>1. a \in Seq(Words) /\ one \in Seq(Words)
    BY <1>2, <1>3
  <2> QED
    BY ONLY <2>1, JoinParts
<1> HIDE DEF h
<1>5. Len(h) = p /\ h[p] = w /\ \A k \in 1 .. p - 1 : h[k] = u[k]
  <2>1. Len(h) = (p - 1) + 1
    BY <1>2, <1>3, <1>4
  <2>2. h[(p - 1) + 1] = w
    BY <1>2, <1>3, <1>4
  <2> QED
    BY <1>1, <1>2, <1>4, <2>1, <2>2
<1>6. /\ t \in Seq(Words) /\ Len(t) = Len(h) + Len(b)
      /\ \A k \in 1 .. Len(h) : t[k] = h[k]
      /\ \A k \in 1 .. Len(b) : t[Len(h) + k] = b[k]
  <2>1. h \in Seq(Words) /\ b \in Seq(Words)
    BY <1>2, <1>4
  <2> QED
    BY ONLY <2>1, JoinParts
<1>7. InsertAt(u, p, w) = t
  BY DEF InsertAt, a, b, h, one
<1> HIDE DEF t
<1>8. Len(t) = N + 1
  <2>1. Len(t) = p + (N - (p - 1))
    BY <1>2, <1>5, <1>6
  <2> HIDE DEF N
  <2> QED
    BY <1>1, <2>1
<1>9. t[p] = w /\ \A k \in 1 .. p - 1 : u[k] = t[k]
  <2>1. p \in 1 .. Len(h) /\ \A k \in 1 .. p - 1 : k \in 1 .. Len(h)
    BY <1>1, <1>5
  <2> QED
    BY <1>5, <1>6, <2>1
<1>10. ASSUME NEW k \in p .. Len(u)
       PROVE  u[k] = t[k + 1]
  <2>1. k + 1 - p \in 1 .. N - (p - 1) /\ p + (k + 1 - p) = k + 1 /\ p - 1 + (k + 1 - p) = k
    BY <1>1
  <2>2. t[p + (k + 1 - p)] = b[k + 1 - p] /\ b[k + 1 - p] = u[p - 1 + (k + 1 - p)]
    BY <1>2, <1>5, <1>6, <2>1
  <2> QED
    BY <2>1, <2>2
<1>11. p \in 1 .. Len(t) /\ Len(u) = Len(t) - 1
  BY <1>1, <1>8
<1> QED
  BY <1>6, <1>7, <1>9, <1>10, <1>11 DEF Removed, Text

(* Two texts with the same words are the same.                             *)
LEMMA TextsEqual ==
  ASSUME NEW s \in Text, NEW t \in Text, Len(s) = Len(t), \A k \in 1 .. Len(s) : s[k] = t[k]
  PROVE  s = t
  BY ListsEqual DEF Text

(* One edit is one of the three.                                           *)
LEMMA OneEditParts ==
  ASSUME NEW u \in Text
  PROVE  OneEdit(u) = {t \in Text : \E p \in Nat : Removed(u, t, p) \/ Replaced(u, t, p) \/ Removed(t, u, p)}
<1>1. Len(u) \in Nat /\ u \in Seq(Words)
  BY TextType DEF Text
<1>2. ASSUME NEW t \in OneEdit(u)
      PROVE  t \in Text /\ \E p \in Nat : Removed(u, t, p) \/ Replaced(u, t, p) \/ Removed(t, u, p)
  <2>1. CASE \E p \in 1 .. Len(u) : t = RemoveAt(u, p)
    BY <2>1, <1>1, RemoveAtParts
  <2>2. CASE \E p \in 1 .. Len(u), w \in Words : t = ReplaceAt(u, p, w)
    <3>1. PICK p \in 1 .. Len(u), w \in Words : t = ReplaceAt(u, p, w)
      BY <2>2
    <3>2. t = [u EXCEPT ![p] = w]
      BY <3>1 DEF ReplaceAt
    <3>3. t \in Seq(Words) /\ Len(t) = Len(u) /\ \A k \in 1 .. Len(u) : k # p => t[k] = u[k]
      BY <1>1, <3>2
    <3> QED
      BY <1>1, <3>3 DEF Replaced, Text
  <2>3. CASE \E p \in 1 .. Len(u) + 1, w \in Words : t = InsertAt(u, p, w)
    BY <2>3, <1>1, InsertAtParts
  <2> QED
    BY <2>1, <2>2, <2>3 DEF OneEdit
<1>3. ASSUME NEW t \in Text, NEW p \in Nat, Removed(u, t, p)
      PROVE  t \in OneEdit(u)
  <2> DEFINE r == RemoveAt(u, p)
  <2>1. p \in 1 .. Len(u)
    BY <1>3 DEF Removed
  <2>2. r \in Text /\ Removed(u, r, p)
    BY <2>1, RemoveAtParts
  <2> HIDE DEF r
  <2>3. Len(t) = Len(r) /\ \A k \in 1 .. Len(t) : t[k] = r[k]
    BY <1>1, <1>3, <2>2 DEF Removed
  <2>4. t = r
    BY <2>2, <2>3, TextsEqual
  <2> QED
    BY <2>1, <2>4 DEF OneEdit, r
<1>4. ASSUME NEW t \in Text, NEW p \in Nat, Replaced(u, t, p)
      PROVE  t \in OneEdit(u)
  <2> DEFINE r == [u EXCEPT ![p] = t[p]]
  <2>1. p \in 1 .. Len(u) /\ Len(t) = Len(u) /\ \A k \in 1 .. Len(u) : k # p => t[k] = u[k]
    BY <1>4 DEF Replaced
  <2>2. t[p] \in Words
    BY <2>1, TextType
  <2>3. r \in Seq(Words) /\ Len(r) = Len(u) /\ \A k \in 1 .. Len(u) : r[k] = t[k]
    BY <1>1, <2>1, <2>2
  <2>4. ReplaceAt(u, p, t[p]) = r
    BY DEF ReplaceAt
  <2> HIDE DEF r
  <2>5. t = r
    BY <2>1, <2>3, TextsEqual DEF Text
  <2> QED
    BY <2>1, <2>2, <2>4, <2>5 DEF OneEdit
<1>5. ASSUME NEW t \in Text, NEW p \in Nat, Removed(t, u, p)
      PROVE  t \in OneEdit(u)
  <2> DEFINE r == InsertAt(u, p, t[p])
  <2>1. p \in 1 .. Len(t) /\ Len(u) = Len(t) - 1 /\ Len(t) \in Nat
    BY <1>5, TextType DEF Removed
  <2>2. p \in 1 .. Len(u) + 1 /\ t[p] \in Words
    BY <1>1, <2>1, TextType
  <2>3. r \in Text /\ Removed(r, u, p) /\ r[p] = t[p]
    BY <2>2, InsertAtParts
  <2> HIDE DEF r
  <2>4. Len(t) = Len(r)
    <3>1. Len(r) \in Nat /\ Len(u) = Len(r) - 1
      BY <2>3, TextType DEF Removed
    <3> QED
      BY <2>1, <3>1
  <2>5. ASSUME NEW k \in 1 .. Len(t)
        PROVE  t[k] = r[k]
    <3>1. CASE k \in 1 .. p - 1
      BY <1>5, <2>3, <3>1 DEF Removed
    <3>2. CASE k = p
      BY <2>3, <3>2
    <3>3. CASE k \in p + 1 .. Len(t)
      <4>1. k - 1 \in p .. Len(u) /\ (k - 1) + 1 = k
        BY <2>1, <3>3
      <4>2. u[k - 1] = t[(k - 1) + 1] /\ u[k - 1] = r[(k - 1) + 1]
        BY <1>5, <2>3, <4>1 DEF Removed
      <4> QED
        BY <4>1, <4>2
    <3> QED
      BY <2>1, <3>1, <3>2, <3>3
  <2>6. t = r
    BY <2>3, <2>4, <2>5, TextsEqual
  <2> QED
    BY <2>2, <2>6 DEF OneEdit, r
<1> QED
  BY <1>2, <1>3, <1>4, <1>5

(* A word more changes the distance by no more than one.                    *)
LEMMA NextColumn ==
  ASSUME NEW s \in Text, NEW u \in Text, NEW c, Table(c, s, u), NEW p \in 1 .. Len(u)
  PROVE  \A i \in 0 .. Len(s) : c[<<i, p - 1>>] <= c[<<i, p>>] + 1
<1> DEFINE M == Len(s)
           q == p - 1
           I == {i \in 0 .. M : c[<<i, q>>] <= c[<<i, p>>] + 1}
<1>1. M \in Nat /\ q \in 0 .. Len(u) /\ p \in 0 .. Len(u) /\ q \in Nat /\ p \in Nat /\ q <= p + 1
  BY TextType
<1>2. \A i \in 1 .. M : /\ c[<<i, p>>] \in {c[<<i, q>>] + 1, c[<<i - 1, p>>] + 1,
                                            c[<<i - 1, q>>] + Differ(s[i], u[p])}
                        /\ q # 0 => c[<<i, q>>] <= c[<<i - 1, q>>] + 1
  <2> SUFFICES ASSUME NEW i \in 1 .. M
               PROVE  /\ c[<<i, p>>] \in {c[<<i, q>>] + 1, c[<<i - 1, p>>] + 1,
                                          c[<<i - 1, q>>] + Differ(s[i], u[p])}
                      /\ q # 0 => c[<<i, q>>] <= c[<<i - 1, q>>] + 1
    OBVIOUS
  <2>1. q # 0 => q \in 1 .. Len(u)
    BY <1>1
  <2> QED
    BY <2>1 DEF Table
<1>3. \A i \in 0 .. M : c[<<i, p>>] \in Nat /\ c[<<i, q>>] \in Nat
  BY <1>1 DEF Table
<1>4. c[<<0, p>>] = p /\ c[<<0, q>>] = q /\ (q = 0 => \A i \in 0 .. M : c[<<i, q>>] = i)
  BY <1>1 DEF Table
<1> HIDE DEF q
<1>5. 0 \in I
  <2>1. 0 \in 0 .. M
    BY <1>1
  <2> QED
    BY <1>1, <1>4, <2>1
<1>6. ASSUME NEW i \in 0 .. M - 1, i \in I
      PROVE  i + 1 \in I
  <2> DEFINE j == i + 1
             a == c[<<j, p>>]
             b == c[<<j, q>>]
             x == c[<<i, p>>]
             y == c[<<i, q>>]
             d == Differ(s[j], u[p])
  <2>1. j \in 1 .. M /\ j - 1 = i /\ j \in 0 .. M /\ i \in 0 .. M
    BY <1>1
  <2> HIDE DEF j
  <2>2. a \in Nat /\ b \in Nat /\ x \in Nat /\ y \in Nat
    BY <1>3, <2>1
  <2>3. d \in Nat
    BY DEF Differ
  <2>4. a \in {b + 1, x + 1, y + d}
    BY <1>2, <2>1
  <2>5. b <= y + 1
    <3>1. CASE q = 0
      <4>1. b = j /\ y = i
        BY <1>4, <2>1, <3>1
      <4>2. b <= y + 1
        BY <2>1, <4>1 DEF j
      <4> QED
        BY <4>2
    <3>2. CASE q # 0
      BY <1>2, <2>1, <3>2
    <3> QED
      BY <3>1, <3>2
  <2>6. y <= x + 1
    BY <1>6
  <2> SUFFICES b <= a + 1
    BY <2>1 DEF j
  <2> HIDE DEF a, b, x, y, d
  <2> QED
    BY ONLY <2>2, <2>3, <2>4, <2>5, <2>6
<1>7. \A i \in 0 .. M : i \in I
  <2> HIDE DEF I
  <2>1. /\ M \in Int /\ 0 \in Int /\ (0 <= M => 0 \in I)
        /\ \A i \in 0 .. M - 1 : i \in I => i + 1 \in I
    BY <1>1, <1>5, <1>6
  <2> QED
    BY ONLY <2>1, Induction
<1> QED
  BY <1>7 DEF q

(* One edit of a text changes its distance by no more than one.             *)
LEMMA EditStep ==
  ASSUME NEW s \in Text, NEW u \in Text, NEW t \in OneEdit(u)
  PROVE  t \in Text /\ edit(s, t) <= edit(s, u) + 1
<1> DEFINE M == Len(s)
           c == Cells(s, u)
           e == Cells(s, t)
<1>1. PICK p \in Nat : t \in Text /\ (Removed(u, t, p) \/ Replaced(u, t, p) \/ Removed(t, u, p))
  BY OneEditParts
<1>2. Table(c, s, u) /\ Table(e, s, t)
  BY <1>1, CellsTable
<1>3. M \in Nat /\ Len(u) \in Nat /\ Len(t) \in Nat
  BY <1>1, TextType
<1>4. edit(s, t) = e[<<Len(s), Len(t)>>] /\ edit(s, u) = c[<<Len(s), Len(u)>>]
  BY DEF edit
<1> HIDE DEF c, e
<1> SUFFICES e[<<Len(s), Len(t)>>] <= c[<<Len(s), Len(u)>>] + 1
  BY <1>1, <1>4
<1>5. CASE Removed(u, t, p)
  <2>1. /\ p \in 1 .. Len(u) /\ Len(t) = Len(u) - 1
        /\ \A k \in 1 .. p - 1 : u[k] = t[k]
        /\ \A k \in p .. Len(t) : t[k] = u[k + 1]
    BY <1>5 DEF Removed
  <2> DEFINE a == p
             b == p - 1
  <2>2. /\ b \in Nat /\ b <= Len(u) /\ b <= Len(t) /\ \A k \in 1 .. b : u[k] = t[k]
        /\ b \in 0 .. b /\ a \in 0 .. Len(u) /\ b \in 0 .. Len(t) /\ b <= a + 1
        /\ Len(t) - b = Len(u) - a
    BY <1>3, <2>1
  <2>3. \A i \in 0 .. M : e[<<i, b>>] <= c[<<i, a>>] + 1
    <3>1. \A i \in 0 .. M, j \in 0 .. b : e[<<i, j>>] = c[<<i, j>>]
      <4> HIDE DEF b
      <4>1. b \in Nat /\ AlikeUpto(u, t, b)
        BY <2>2 DEF AlikeUpto
      <4>2. SameUpto(c, e, Len(s), b)
        BY <1>1, <1>2, <4>1, PrefixCells
      <4> QED
        BY <4>2 DEF SameUpto
    <3>2. \A i \in 0 .. M : c[<<i, p - 1>>] <= c[<<i, p>>] + 1
      BY <1>2, <2>1, NextColumn
    <3>3. \A i \in 0 .. M : e[<<i, b>>] = c[<<i, b>>]
      <4> HIDE DEF b
      <4> QED
        BY <2>2, <3>1
    <3> QED
      BY <3>2, <3>3
  <2>4. ASSUME NEW k \in 1 .. Len(u) - a
        PROVE  t[b + k] = u[a + k]
    <3>1. b + k \in p .. Len(t) /\ (b + k) + 1 = a + k
      BY <1>3, <2>1
    <3>2. t[b + k] = u[(b + k) + 1]
      BY <2>1, <3>1
    <3> QED
      BY <3>1, <3>2
  <2> HIDE DEF a, b
  <2> QED
    BY <1>1, <1>2, <2>2, <2>3, <2>4, ShiftedCells
<1>6. CASE Removed(t, u, p)
  <2>1. /\ p \in 1 .. Len(t) /\ Len(u) = Len(t) - 1
        /\ \A k \in 1 .. p - 1 : u[k] = t[k]
        /\ \A k \in p .. Len(u) : u[k] = t[k + 1]
    BY <1>6 DEF Removed
  <2> DEFINE a == p - 1
             b == p
  <2>2. /\ a \in Nat /\ a <= Len(u) /\ a <= Len(t) /\ \A k \in 1 .. a : u[k] = t[k]
        /\ a \in 0 .. a /\ a \in 0 .. Len(u) /\ b \in 0 .. Len(t) /\ b <= a + 1
        /\ Len(t) - b = Len(u) - a /\ b - 1 = a
    BY <1>3, <2>1
  <2>3. ASSUME NEW i \in 0 .. M
        PROVE  e[<<i, b>>] <= c[<<i, a>>] + 1
    <3>1. \A h \in 0 .. M, j \in 0 .. a : e[<<h, j>>] = c[<<h, j>>]
      <4> HIDE DEF a
      <4>1. a \in Nat /\ AlikeUpto(u, t, a)
        BY <2>2 DEF AlikeUpto
      <4>2. SameUpto(c, e, Len(s), a)
        BY <1>1, <1>2, <4>1, PrefixCells
      <4> QED
        BY <4>2 DEF SameUpto
    <3>2. e[<<i, a>>] = c[<<i, a>>]
      <4> HIDE DEF a
      <4> QED
        BY <2>2, <3>1
    <3>3. CASE i = 0
      <4>1. e[<<0, b>>] = b /\ c[<<0, a>>] = a
        BY <1>2, <2>2 DEF Table
      <4> HIDE DEF a, b
      <4> QED
        BY <2>2, <3>3, <4>1
    <3>4. CASE i # 0
      <4>1. i \in 1 .. M /\ b \in 1 .. Len(t)
        BY <1>3, <2>1, <3>4
      <4>2. e[<<i, b>>] <= e[<<i, b - 1>>] + 1
        BY <1>2, <4>1 DEF Table
      <4> HIDE DEF a, b
      <4> QED
        BY <2>2, <3>2, <4>2
    <3> QED
      BY <3>3, <3>4
  <2>4. ASSUME NEW k \in 1 .. Len(u) - a
        PROVE  t[b + k] = u[a + k]
    <3>1. a + k \in p .. Len(u) /\ (a + k) + 1 = b + k
      BY <1>3, <2>1
    <3>2. u[a + k] = t[(a + k) + 1]
      BY <2>1, <3>1
    <3> QED
      BY <3>1, <3>2
  <2> HIDE DEF a, b
  <2> QED
    BY <1>1, <1>2, <2>2, <2>3, <2>4, ShiftedCells
<1>7. CASE Replaced(u, t, p)
  <2>1. p \in 1 .. Len(u) /\ Len(t) = Len(u) /\ \A k \in 1 .. Len(u) : k # p => t[k] = u[k]
    BY <1>7 DEF Replaced
  <2> DEFINE a == p - 1
  <2>2. /\ a \in Nat /\ a <= Len(u) /\ a <= Len(t) /\ \A k \in 1 .. a : u[k] = t[k]
        /\ a \in 0 .. a /\ a \in 0 .. Len(u) /\ a \in 0 .. Len(t)
        /\ p \in 0 .. Len(u) /\ p \in 0 .. Len(t) /\ p <= p + 1 /\ p \in 1 .. Len(t)
        /\ Len(t) - p = Len(u) - p
    BY <1>3, <2>1
  <2>3. \A i \in 0 .. M : e[<<i, a>>] = c[<<i, a>>] /\ c[<<i, a>>] \in Nat
    <3>1. \A i \in 0 .. M, j \in 0 .. a : e[<<i, j>>] = c[<<i, j>>]
      <4> HIDE DEF a
      <4>1. a \in Nat /\ AlikeUpto(u, t, a)
        BY <2>2 DEF AlikeUpto
      <4>2. SameUpto(c, e, Len(s), a)
        BY <1>1, <1>2, <4>1, PrefixCells
      <4> QED
        BY <4>2 DEF SameUpto
    <3> HIDE DEF a
    <3> QED
      BY <1>2, <2>2, <3>1 DEF Table
  <2> DEFINE I == {i \in 0 .. M : e[<<i, p>>] <= c[<<i, p>>] + 1}
  <2>4. 0 \in I
    <3>1. e[<<0, p>>] = p /\ c[<<0, p>>] = p /\ 0 \in 0 .. M /\ p <= p + 1
      BY <1>2, <1>3, <2>2 DEF Table
    <3> QED
      BY <3>1
  <2>5. ASSUME NEW i \in 0 .. M - 1, i \in I
        PROVE  i + 1 \in I
    <3> DEFINE j == i + 1
               c1 == c[<<j, p>>]
               c2 == c[<<j, a>>]
               c3 == c[<<i, p>>]
               c4 == c[<<i, a>>]
               e1 == e[<<j, p>>]
               e3 == e[<<i, p>>]
               d == Differ(s[j], u[p])
               f == Differ(s[j], t[p])
    <3>1. j \in 1 .. M /\ j - 1 = i /\ j \in 0 .. M /\ i \in 0 .. M /\ p - 1 = a
      BY <1>3
    <3> HIDE DEF j, a
    <3>2. /\ c1 \in Nat /\ c2 \in Nat /\ c3 \in Nat /\ c4 \in Nat /\ e1 \in Nat /\ e3 \in Nat
          /\ e[<<j, a>>] = c2 /\ e[<<i, a>>] = c4
      BY <1>2, <2>2, <2>3, <3>1 DEF Table
    <3>3. d \in 0 .. 1 /\ f \in 0 .. 1
      BY DEF Differ
    <3>4. c1 = c2 + 1 \/ c1 = c3 + 1 \/ c1 = c4 + d
      BY <1>2, <2>1, <3>1 DEF Table
    <3>5. e1 <= c2 + 1 /\ e1 <= e3 + 1 /\ e1 <= c4 + f
      <4>1. e1 <= e[<<j, a>>] + 1 /\ e1 <= e3 + 1 /\ e1 <= e[<<i, a>>] + f
        BY <1>2, <2>2, <3>1 DEF Table
      <4> QED
        BY <3>2, <4>1
    <3>6. e3 <= c3 + 1
      BY <2>5
    <3> SUFFICES e1 <= c1 + 1
      BY <3>1 DEF j
    <3> HIDE DEF c1, c2, c3, c4, e1, e3, d, f
    <3> QED
      BY ONLY <3>2, <3>3, <3>4, <3>5, <3>6
  <2>6. \A i \in 0 .. M : i \in I
    <3> HIDE DEF I
    <3>1. /\ M \in Int /\ 0 \in Int /\ (0 <= M => 0 \in I)
          /\ \A i \in 0 .. M - 1 : i \in I => i + 1 \in I
      BY <1>3, <2>4, <2>5
    <3> QED
      BY ONLY <3>1, Induction
  <2>7. \A i \in 0 .. M : e[<<i, p>>] <= c[<<i, p>>] + 1
    BY <2>6
  <2>8. ASSUME NEW k \in 1 .. Len(u) - p
        PROVE  t[p + k] = u[p + k]
    <3>1. p + k \in 1 .. Len(u) /\ p + k # p
      BY <1>3, <2>1
    <3> QED
      BY <2>1, <3>1
  <2> QED
    BY <1>1, <1>2, <2>2, <2>7, <2>8, ShiftedCells
<1> QED
  BY <1>1, <1>5, <1>6, <1>7

(* The texts that one more edit makes, and these texts themselves.          *)
Nearer(texts) == texts \union UNION {OneEdit(s) : s \in texts}

(* Within makes one edit after the other.                                  *)
LEMMA WithinParts ==
  ASSUME NEW T \in SUBSET Text, NEW K \in Nat
  PROVE  \E f \in [0 .. K -> SUBSET Text] :
           /\ f[0] = T
           /\ \A n \in 1 .. K : f[n] = Nearer(f[n - 1])
           /\ \A k \in 0 .. K : Within(k, T) = f[k]
<1> DEFINE V == SUBSET Text
           step == [p \in (1 .. K) \X V |-> Nearer(p[2])]
<1>1. \A x \in V : Nearer(x) \in V
  BY OneEditParts DEF Nearer
<1> HIDE DEF V
<1>2. PICK f : Recursion(f, K, V, T, step)
  <2>1. step \in [(1 .. K) \X V -> V] /\ T \in V
    BY <1>1 DEF V
  <2> HIDE DEF step
  <2>2. \E f : Recursion(f, K, V, T, step)
    BY ONLY <2>1, RecursionExists
  <2> QED
    BY <2>2
<1>3. f \in [0 .. K -> V] /\ f[0] = T /\ \A n \in 1 .. K : f[n] = Nearer(f[n - 1])
  <2>1. f \in [0 .. K -> V] /\ f[0] = T /\ \A n \in 1 .. K : f[n] = step[<<n, f[n - 1]>>]
    BY <1>2 DEF Recursion
  <2>2. \A n \in 1 .. K : f[n - 1] \in V /\ <<n, f[n - 1]>> \in (1 .. K) \X V
    BY <2>1
  <2> QED
    BY <2>1, <2>2
<1> HIDE DEF step
<1>4. ASSUME NEW k \in 0 .. K
      PROVE  Within(k, T) = f[k]
  <2> DEFINE Fits(g) == g = [n \in 0 .. k |->
                               IF n = 0 THEN T
                               ELSE g[n - 1] \union UNION {OneEdit(s) : s \in g[n - 1]}]
             within == CHOOSE g : Fits(g)
  <2>1. Within(k, T) = within[k]
    BY DEF Within
  <2>2. \E g : Fits(g)
    <3> DEFINE g == [n \in 0 .. k |-> f[n]]
    <3>1. \A n \in 1 .. k : g[n] = Nearer(g[n - 1])
      BY <1>3
    <3>2. g[0] = T /\ DOMAIN g = 0 .. k /\ g = [n \in 0 .. k |-> g[n]]
      BY <1>3
    <3> HIDE DEF g
    <3>3. \A n \in 0 .. k : g[n] = IF n = 0 THEN T
                                   ELSE g[n - 1] \union UNION {OneEdit(s) : s \in g[n - 1]}
      <4> SUFFICES ASSUME NEW n \in 0 .. k
                   PROVE  g[n] = IF n = 0 THEN T
                                 ELSE g[n - 1] \union UNION {OneEdit(s) : s \in g[n - 1]}
        OBVIOUS
      <4>1. n # 0 => n \in 1 .. k
        OBVIOUS
      <4>2. n # 0 => g[n] = g[n - 1] \union UNION {OneEdit(s) : s \in g[n - 1]}
        BY <3>1, <4>1 DEF Nearer
      <4> QED
        BY <3>2, <4>2
    <3>4. Fits(g)
      BY <3>2, <3>3
    <3> HIDE DEF Fits
    <3> QED
      BY <3>4
  <2>3. Fits(within)
    <3> HIDE DEF Fits
    <3> QED
      BY <2>2
  <2> HIDE DEF within
  <2>4. within[0] = T /\ \A n \in 1 .. k : within[n] = Nearer(within[n - 1])
    BY <2>3 DEF Nearer
  <2> DEFINE S == {n \in 0 .. k : within[n] = f[n]}
  <2>5. 0 \in S
    BY <1>3, <2>4
  <2>6. ASSUME NEW n \in 0 .. k - 1, n \in S
        PROVE  n + 1 \in S
    <3>1. n + 1 \in 1 .. k /\ n + 1 \in 1 .. K /\ (n + 1) - 1 = n /\ n + 1 \in 0 .. k
      OBVIOUS
    <3>2. within[n + 1] = Nearer(within[n]) /\ f[n + 1] = Nearer(f[n])
      BY <1>3, <2>4, <3>1
    <3> QED
      BY <2>6, <3>1, <3>2
  <2>7. \A n \in 0 .. k : n \in S
    <3> HIDE DEF S
    <3>1. /\ k \in Int /\ 0 \in Int /\ (0 <= k => 0 \in S)
          /\ \A n \in 0 .. k - 1 : n \in S => n + 1 \in S
      BY <2>5, <2>6
    <3> QED
      BY ONLY <3>1, Induction
  <2> QED
    BY <2>1, <2>7
<1> QED
  BY <1>3, <1>4 DEF V

(* What can be reached with one edit more.                                 *)
LEMMA WithinNext ==
  ASSUME NEW T \in SUBSET Text, NEW n \in Nat
  PROVE  /\ Within(0, T) = T
         /\ Within(n + 1, T) = Nearer(Within(n, T)) /\ Within(n, T) \in SUBSET Text
<1> DEFINE K == n + 1
<1>1. K \in Nat /\ 0 \in 0 .. K /\ n \in 0 .. K /\ K \in 0 .. K /\ K \in 1 .. K /\ K - 1 = n
  OBVIOUS
<1> HIDE DEF K
<1>2. PICK f \in [0 .. K -> SUBSET Text] :
        /\ f[0] = T
        /\ \A m \in 1 .. K : f[m] = Nearer(f[m - 1])
        /\ \A k \in 0 .. K : Within(k, T) = f[k]
  BY <1>1, WithinParts
<1>3. f[K] = Nearer(f[K - 1])
  BY <1>1, <1>2
<1>4. Within(0, T) = f[0] /\ Within(n, T) = f[n] /\ Within(K, T) = f[K]
  BY <1>1, <1>2
<1> QED
  BY <1>1, <1>2, <1>3, <1>4 DEF K

(* As many edits as were made, or fewer, is the distance.                   *)
LEMMA NearIsClose ==
  ASSUME NEW s \in Text, NEW k \in Nat, NEW t \in Within(k, {s})
  PROVE  t \in Text /\ edit(s, t) <= k
<1> DEFINE S == {n \in 0 .. k : \A x \in Within(n, {s}) : x \in Text /\ edit(s, x) <= n}
<1>1. {s} \in SUBSET Text
  OBVIOUS
<1>2. 0 \in S
  BY <1>1, WithinNext, EditZero
<1>3. ASSUME NEW n \in 0 .. k - 1, n \in S
      PROVE  n + 1 \in S
  <2>1. Within(n + 1, {s}) = Nearer(Within(n, {s})) /\ n \in Nat /\ n + 1 \in 0 .. k
    BY <1>1, WithinNext
  <2>2. ASSUME NEW x \in Within(n + 1, {s})
        PROVE  x \in Text /\ edit(s, x) <= n + 1
    <3>1. CASE x \in Within(n, {s})
      <4>1. x \in Text /\ edit(s, x) <= n
        BY <1>3, <3>1
      <4>2. edit(s, x) \in Nat
        BY <4>1, EditZero
      <4> QED
        BY <2>1, <4>1, <4>2
    <3>2. CASE x \notin Within(n, {s})
      <4>1. PICK u \in Within(n, {s}) : x \in OneEdit(u)
        BY <2>1, <2>2, <3>2 DEF Nearer
      <4>2. u \in Text /\ edit(s, u) <= n
        BY <1>3
      <4>3. x \in Text /\ edit(s, x) <= edit(s, u) + 1
        BY <4>1, <4>2, EditStep
      <4>4. edit(s, u) \in Nat /\ edit(s, x) \in Nat
        BY <4>2, <4>3, EditZero
      <4> QED
        BY <2>1, <4>2, <4>3, <4>4
    <3> QED
      BY <3>1, <3>2
  <2> QED
    BY <2>1, <2>2
<1>4. \A n \in 0 .. k : n \in S
  <2> HIDE DEF S
  <2>1. /\ k \in Int /\ 0 \in Int /\ (0 <= k => 0 \in S)
        /\ \A n \in 0 .. k - 1 : n \in S => n + 1 \in S
    BY <1>2, <1>3
  <2> QED
    BY ONLY <2>1, Induction
<1>5. k \in S
  <2>1. k \in 0 .. k
    OBVIOUS
  <2> HIDE DEF S
  <2> QED
    BY <1>4, <2>1
<1> QED
  BY <1>5

(* The first j words of t, then what s has behind the i words that they      *)
(* replaced.                                                               *)
Mixed(s, t, i, j) ==
  [k \in 1 .. j + Len(s) - i |-> IF k <= j THEN t[k] ELSE s[k - j + i]]

(* Such a mixture is a text of the words of both.                          *)
LEMMA MixedParts ==
  ASSUME NEW s \in Text, NEW t \in Text, NEW i \in 0 .. Len(s), NEW j \in 0 .. Len(t)
  PROVE  /\ Mixed(s, t, i, j) \in Text /\ Len(Mixed(s, t, i, j)) = j + Len(s) - i
         /\ \A k \in 1 .. j : Mixed(s, t, i, j)[k] = t[k]
         /\ \A k \in j + 1 .. j + Len(s) - i : Mixed(s, t, i, j)[k] = s[k - j + i]
<1> DEFINE L == j + Len(s) - i
           m == Mixed(s, t, i, j)
<1>1. /\ Len(s) \in Nat /\ Len(t) \in Nat /\ L \in Nat /\ L >= j /\ j \in Nat /\ i \in Nat
      /\ \A k \in 1 .. j : k \in 1 .. L
      /\ \A k \in j + 1 .. L : k \in 1 .. L /\ ~(k <= j)
      /\ \A k \in 1 .. L : k \notin 1 .. j => ~(k <= j) /\ k - j + i \in 1 .. Len(s)
  BY TextType
<1>2. \A k \in 1 .. j : t[k] \in Words
  BY <1>1, TextType
<1>3. \A k \in 1 .. L : k \notin 1 .. j => s[k - j + i] \in Words
  BY <1>1, TextType
<1>4. m = [k \in 1 .. L |-> IF k <= j THEN t[k] ELSE s[k - j + i]]
  BY DEF Mixed
<1> HIDE DEF L, m
<1>5. \A k \in 1 .. L : m[k] \in Words
  <2> SUFFICES ASSUME NEW k \in 1 .. L
               PROVE  (IF k <= j THEN t[k] ELSE s[k - j + i]) \in Words
    BY <1>4
  <2>1. CASE k <= j
    <3>1. k \in 1 .. j
      BY <1>1, <2>1
    <3> QED
      BY <1>2, <2>1, <3>1
  <2>2. CASE ~(k <= j)
    <3>1. k \notin 1 .. j
      BY <1>1, <2>2
    <3> QED
      BY <1>3, <2>2, <3>1
  <2> QED
    BY <2>1, <2>2
<1>6. m \in Seq(Words) /\ Len(m) = L
  BY <1>1, <1>4, <1>5
<1>7. \A k \in 1 .. j : m[k] = t[k]
  BY <1>1, <1>4
<1>8. \A k \in j + 1 .. L : m[k] = s[k - j + i]
  BY <1>1, <1>4
<1> QED
  BY <1>6, <1>7, <1>8 DEF Text, m, L

(* The ways from a cell to its neighbours are edits of these texts.         *)
LEMMA MixedSteps ==
  ASSUME NEW s \in Text, NEW t \in Text, NEW i \in 0 .. Len(s), NEW j \in 0 .. Len(t)
  PROVE  /\ j # 0 => Mixed(s, t, i, j) \in OneEdit(Mixed(s, t, i, j - 1))
         /\ i # 0 => Mixed(s, t, i, j) \in OneEdit(Mixed(s, t, i - 1, j))
         /\ i # 0 /\ j # 0 =>
              /\ Mixed(s, t, i, j) \in OneEdit(Mixed(s, t, i - 1, j - 1))
              /\ s[i] = t[j] => Mixed(s, t, i, j) = Mixed(s, t, i - 1, j - 1)
<1> DEFINE M == Len(s)
           x == Mixed(s, t, i, j)
<1>1. M \in Nat /\ Len(t) \in Nat /\ i \in Nat /\ j \in Nat /\ i <= M
  BY TextType
<1>2. /\ x \in Text /\ Len(x) = j + M - i
      /\ \A k \in 1 .. j : x[k] = t[k]
      /\ \A k \in j + 1 .. j + M - i : x[k] = s[k - j + i]
  BY MixedParts
<1> HIDE DEF x
<1>3. ASSUME j # 0
      PROVE  x \in OneEdit(Mixed(s, t, i, j - 1))
  <2> DEFINE y == Mixed(s, t, i, j - 1)
             q == j - 1
  <2>1. q \in 0 .. Len(t) /\ j \in 1 .. Len(x) /\ q \in Nat
    BY <1>1, <1>2, <1>3
  <2> HIDE DEF q
  <2>2. /\ y \in Text /\ Len(y) = q + M - i
        /\ \A k \in 1 .. q : y[k] = t[k]
        /\ \A k \in q + 1 .. q + M - i : y[k] = s[k - q + i]
    BY <2>1, MixedParts DEF q
  <2> HIDE DEF y
  <2>3. Len(y) = Len(x) - 1
    BY <1>1, <1>2, <2>2 DEF q
  <2>4. \A k \in 1 .. j - 1 : y[k] = x[k]
    <3> SUFFICES ASSUME NEW k \in 1 .. j - 1 PROVE y[k] = x[k]
      OBVIOUS
    <3>1. k \in 1 .. q /\ k \in 1 .. j
      BY <1>1 DEF q
    <3> QED
      BY <1>2, <2>2, <3>1
  <2>5. ASSUME NEW k \in j .. Len(y)
        PROVE  y[k] = x[k + 1]
    <3>1. k \in q + 1 .. q + M - i /\ k + 1 \in j + 1 .. j + M - i /\ k - q + i = (k + 1) - j + i
      BY <1>1, <2>2 DEF q
    <3>2. y[k] = s[k - q + i] /\ x[k + 1] = s[(k + 1) - j + i]
      BY <1>2, <2>2, <3>1
    <3> QED
      BY <3>1, <3>2
  <2>6. Removed(x, y, j)
    BY <2>1, <2>3, <2>4, <2>5 DEF Removed
  <2> QED
    BY <1>1, <1>2, <2>2, <2>6, OneEditParts DEF y
<1>4. ASSUME i # 0
      PROVE  x \in OneEdit(Mixed(s, t, i - 1, j))
  <2> DEFINE y == Mixed(s, t, i - 1, j)
             p == i - 1
  <2>1. p \in 0 .. M /\ p \in Nat
    BY <1>1, <1>4
  <2> HIDE DEF p
  <2>2. /\ y \in Text /\ Len(y) = j + M - p
        /\ \A k \in 1 .. j : y[k] = t[k]
        /\ \A k \in j + 1 .. j + M - p : y[k] = s[k - j + p]
    BY <2>1, MixedParts DEF p
  <2> HIDE DEF y
  <2>3. Len(x) = Len(y) - 1 /\ j + 1 \in 1 .. Len(y) /\ j + 1 \in Nat
    BY <1>1, <1>2, <2>2 DEF p
  <2>4. \A k \in 1 .. (j + 1) - 1 : x[k] = y[k]
    <3> SUFFICES ASSUME NEW k \in 1 .. (j + 1) - 1 PROVE x[k] = y[k]
      OBVIOUS
    <3>1. k \in 1 .. j
      BY <1>1
    <3> QED
      BY <1>2, <2>2, <3>1
  <2>5. ASSUME NEW k \in j + 1 .. Len(x)
        PROVE  x[k] = y[k + 1]
    <3>1. k \in j + 1 .. j + M - i /\ k + 1 \in j + 1 .. j + M - p /\ (k + 1) - j + p = k - j + i
      BY <1>1, <1>2 DEF p
    <3>2. x[k] = s[k - j + i] /\ y[k + 1] = s[(k + 1) - j + p]
      BY <1>2, <2>2, <3>1
    <3> QED
      BY <3>1, <3>2
  <2>6. Removed(y, x, j + 1)
    BY <2>3, <2>4, <2>5 DEF Removed
  <2> QED
    BY <1>2, <2>2, <2>3, <2>6, OneEditParts DEF y
<1>5. ASSUME i # 0, j # 0
      PROVE  /\ x \in OneEdit(Mixed(s, t, i - 1, j - 1))
             /\ s[i] = t[j] => x = Mixed(s, t, i - 1, j - 1)
  <2> DEFINE y == Mixed(s, t, i - 1, j - 1)
             p == i - 1
             q == j - 1
  <2>1. p \in 0 .. M /\ p \in Nat /\ q \in 0 .. Len(t) /\ q \in Nat /\ p + 1 = i /\ q + 1 = j
    BY <1>1, <1>5
  <2> HIDE DEF p, q
  <2>2. /\ y \in Text /\ Len(y) = q + M - p
        /\ \A k \in 1 .. q : y[k] = t[k]
        /\ \A k \in q + 1 .. q + M - p : y[k] = s[k - q + p]
    BY <2>1, MixedParts DEF p, q
  <2> HIDE DEF y
  <2>3. Len(x) = Len(y) /\ j \in 1 .. Len(y)
    <3>1. j + M - i = q + M - p /\ j \in 1 .. j + M - i
      <4> HIDE DEF M
      <4> QED
        BY <1>1, <1>5, <2>1
    <3> HIDE DEF M
    <3> QED
      BY <1>2, <2>2, <3>1
  <2>4. ASSUME NEW k \in 1 .. Len(y), k # j
        PROVE  x[k] = y[k]
    <3>1. CASE k <= q
      <4>1. k \in 1 .. q /\ k \in 1 .. j
        BY <1>1, <2>1, <3>1
      <4> QED
        BY <1>2, <2>2, <4>1
    <3>2. CASE ~(k <= q)
      <4>1. k \in q + 1 .. q + M - p /\ k \in j + 1 .. j + M - i /\ k - q + p = k - j + i
        BY <1>1, <2>1, <2>2, <2>4, <3>2
      <4>2. y[k] = s[k - q + p] /\ x[k] = s[k - j + i]
        BY <1>2, <2>2, <4>1
      <4> QED
        BY <4>1, <4>2
    <3> QED
      BY <3>1, <3>2
  <2>5. Replaced(y, x, j)
    BY <2>3, <2>4 DEF Replaced
  <2>6. ASSUME s[i] = t[j]
        PROVE  x = y
    <3>1. j \in 1 .. j /\ j \in q + 1 .. q + M - p /\ j - q + p = i
      BY <1>1, <2>1, <2>2, <2>3
    <3>2. x[j] = t[j] /\ y[j] = s[j - q + p]
      BY <1>2, <2>2, <3>1
    <3>3. \A k \in 1 .. Len(x) : x[k] = y[k]
      BY <2>3, <2>4, <2>6, <3>1, <3>2
    <3> QED
      BY <1>2, <2>2, <2>3, <3>3, TextsEqual
  <2> QED
    BY <1>1, <1>2, <2>2, <2>5, <2>6, OneEditParts DEF y
<1> QED
  BY <1>3, <1>4, <1>5 DEF x

(* A text at a distance can be reached with as many edits.                  *)
LEMMA CloseIsNear ==
  ASSUME NEW s \in Text, NEW t \in Text, NEW k \in Nat, edit(s, t) <= k
  PROVE  t \in Within(k, {s})
<1> DEFINE M == Len(s)
           N == Len(t)
           c == Cells(s, t)
           W(n) == Within(n, {s})
           X(i, j) == Mixed(s, t, i, j)
           S == {i \in 0 .. M : \A j \in 0 .. N : X(i, j) \in W(c[<<i, j>>])}
<1>1. M \in Nat /\ N \in Nat /\ 0 \in 0 .. M /\ 0 \in 0 .. N /\ M \in 0 .. M /\ N \in 0 .. N
  BY TextType
<1>2. Table(c, s, t) /\ edit(s, t) = c[<<M, N>>] /\ edit(s, t) \in Nat
  BY CellsTable, EditZero DEF edit
<1> HIDE DEF c
<1>3. /\ s \in W(0)
      /\ \A n \in Nat : \A x \in W(n) : x \in W(n + 1) /\ \A y \in OneEdit(x) : y \in W(n + 1)
  <2>1. {s} \in SUBSET Text
    OBVIOUS
  <2>2. \A n \in Nat : Within(0, {s}) = {s} /\ Within(n + 1, {s}) = Nearer(Within(n, {s}))
    BY <2>1, WithinNext
  <2>3. s \in W(0)
    BY <2>2
  <2>4. ASSUME NEW n \in Nat, NEW x \in W(n)
        PROVE  x \in W(n + 1) /\ \A y \in OneEdit(x) : y \in W(n + 1)
    <3>1. W(n + 1) = Nearer(W(n))
      BY <2>2
    <3> HIDE DEF W
    <3> QED
      BY <2>4, <3>1 DEF Nearer
  <2> HIDE DEF W
  <2> QED
    BY <2>3, <2>4
<1>4. /\ X(0, 0) = s /\ X(M, N) = t
  <2>1. X(0, 0) = s
    <3>1. /\ X(0, 0) \in Text /\ Len(X(0, 0)) = 0 + M - 0
          /\ \A h \in 0 + 1 .. 0 + M - 0 : X(0, 0)[h] = s[h - 0 + 0]
      BY <1>1, MixedParts
    <3> HIDE DEF X
    <3>2. Len(X(0, 0)) = M /\ \A h \in 1 .. M : X(0, 0)[h] = s[h]
      BY <1>1, <3>1
    <3> QED
      BY <3>1, <3>2, TextsEqual
  <2>2. X(M, N) = t
    <3>1. /\ X(M, N) \in Text /\ Len(X(M, N)) = N + M - M
          /\ \A h \in 1 .. N : X(M, N)[h] = t[h]
      BY <1>1, MixedParts
    <3> HIDE DEF X
    <3>2. Len(X(M, N)) = N
      <4> HIDE DEF M, N
      <4> QED
        BY <1>1, <3>1
    <3> QED
      BY <3>1, <3>2, TextsEqual
  <2> QED
    BY <2>1, <2>2
<1>5. \A i \in 0 .. M, j \in 0 .. N : c[<<i, j>>] \in Nat
  BY <1>2 DEF Table
<1>6. \A i \in 0 .. M, j \in 0 .. N :
        /\ j # 0 => X(i, j) \in OneEdit(X(i, j - 1))
        /\ i # 0 => X(i, j) \in OneEdit(X(i - 1, j))
        /\ i # 0 /\ j # 0 =>
             /\ X(i, j) \in OneEdit(X(i - 1, j - 1))
             /\ s[i] = t[j] => X(i, j) = X(i - 1, j - 1)
  BY MixedSteps
<1> HIDE DEF W, X
<1>7. 0 \in S
  <2> DEFINE J == {j \in 0 .. N : X(0, j) \in W(j)}
  <2>1. 0 \in J
    BY <1>1, <1>3, <1>4
  <2>2. ASSUME NEW j \in 0 .. N - 1, j \in J
        PROVE  j + 1 \in J
    <3> DEFINE q == j + 1
    <3>1. q \in 0 .. N /\ q # 0 /\ q - 1 = j /\ j \in Nat
      BY <1>1
    <3> HIDE DEF q
    <3>2. X(0, q) \in OneEdit(X(0, j))
      BY <1>1, <1>6, <3>1
    <3>3. X(0, q) \in W(j + 1)
      BY <1>3, <2>2, <3>1, <3>2
    <3> QED
      BY <3>1, <3>3 DEF q
  <2>3. \A j \in 0 .. N : j \in J
    <3> HIDE DEF J
    <3>1. /\ N \in Int /\ 0 \in Int /\ (0 <= N => 0 \in J)
          /\ \A j \in 0 .. N - 1 : j \in J => j + 1 \in J
      BY <1>1, <2>1, <2>2
    <3> QED
      BY ONLY <3>1, Induction
  <2>4. \A j \in 0 .. N : c[<<0, j>>] = j
    BY <1>2 DEF Table
  <2> QED
    BY <1>1, <2>3, <2>4
<1>8. ASSUME NEW i \in 0 .. M - 1, i \in S
      PROVE  i + 1 \in S
  <2> DEFINE p == i + 1
             J == {j \in 0 .. N : X(p, j) \in W(c[<<p, j>>])}
  <2>1. p \in 0 .. M /\ p \in 1 .. M /\ p # 0 /\ p - 1 = i /\ i \in 0 .. M
    BY <1>1
  <2>2. \A j \in 0 .. N : X(i, j) \in W(c[<<i, j>>])
    BY <1>8
  <2> HIDE DEF p
  <2>3. 0 \in J
    <3>1. c[<<p, 0>>] = c[<<i, 0>>] + 1
      <4>1. c[<<p, 0>>] = p /\ c[<<i, 0>>] = i
        BY <1>2, <2>1 DEF Table
      <4> QED
        BY <4>1 DEF p
    <3>2. X(p, 0) \in OneEdit(X(i, 0))
      BY <1>1, <1>6, <2>1
    <3>3. c[<<i, 0>>] \in Nat /\ X(i, 0) \in W(c[<<i, 0>>])
      BY <1>1, <1>5, <2>1, <2>2
    <3>4. X(p, 0) \in W(c[<<i, 0>>] + 1)
      BY <1>3, <3>2, <3>3
    <3> QED
      BY <1>1, <3>1, <3>4
  <2>4. ASSUME NEW j \in 0 .. N - 1, j \in J
        PROVE  j + 1 \in J
    <3> DEFINE q == j + 1
               d == Differ(s[p], t[q])
    <3>1. q \in 0 .. N /\ q \in 1 .. N /\ q # 0 /\ q - 1 = j /\ j \in 0 .. N
      BY <1>1
    <3> HIDE DEF q
    <3>2. \/ c[<<p, q>>] = c[<<p, j>>] + 1
          \/ c[<<p, q>>] = c[<<i, q>>] + 1
          \/ c[<<p, q>>] = c[<<i, j>>] + d
      BY <1>2, <2>1, <3>1 DEF Table
    <3>3. /\ X(p, q) \in OneEdit(X(p, j)) /\ X(p, q) \in OneEdit(X(i, q))
          /\ X(p, q) \in OneEdit(X(i, j))
          /\ s[p] = t[q] => X(p, q) = X(i, j)
      BY <1>6, <2>1, <3>1
    <3>4. X(p, j) \in W(c[<<p, j>>]) /\ X(i, q) \in W(c[<<i, q>>]) /\ X(i, j) \in W(c[<<i, j>>])
      BY <2>2, <2>4, <3>1
    <3>5. c[<<p, j>>] \in Nat /\ c[<<i, q>>] \in Nat /\ c[<<i, j>>] \in Nat
      BY <1>5, <2>1, <3>1
    <3>6. /\ X(p, q) \in W(c[<<p, j>>] + 1) /\ X(p, q) \in W(c[<<i, q>>] + 1)
          /\ X(p, q) \in W(c[<<i, j>>] + 1)
      BY <1>3, <3>3, <3>4, <3>5
    <3>7. X(p, q) \in W(c[<<i, j>>] + d)
      <4>1. CASE s[p] = t[q]
        <5>1. c[<<i, j>>] + d = c[<<i, j>>]
          BY <3>5, <4>1 DEF Differ
        <5> QED
          BY <3>3, <3>4, <4>1, <5>1
      <4>2. CASE s[p] # t[q]
        <5>1. d = 1
          BY <4>2 DEF Differ
        <5> QED
          BY <3>6, <5>1
      <4> QED
        BY <4>1, <4>2
    <3>8. X(p, q) \in W(c[<<p, q>>])
      <4> HIDE DEF d
      <4> QED
        BY <3>2, <3>6, <3>7
    <3> QED
      BY <3>1, <3>8 DEF q
  <2>5. \A j \in 0 .. N : j \in J
    <3> HIDE DEF J
    <3>1. /\ N \in Int /\ 0 \in Int /\ (0 <= N => 0 \in J)
          /\ \A j \in 0 .. N - 1 : j \in J => j + 1 \in J
      BY <1>1, <2>3, <2>4
    <3> QED
      BY ONLY <3>1, Induction
  <2>6. \A j \in 0 .. N : X(p, j) \in W(c[<<p, j>>])
    BY <2>5
  <2> QED
    BY <2>1, <2>6 DEF p
<1>9. \A i \in 0 .. M : i \in S
  <2> HIDE DEF S
  <2>1. /\ M \in Int /\ 0 \in Int /\ (0 <= M => 0 \in S)
        /\ \A i \in 0 .. M - 1 : i \in S => i + 1 \in S
    BY <1>1, <1>7, <1>8
  <2> QED
    BY ONLY <2>1, Induction
<1>10. t \in W(edit(s, t))
  BY <1>1, <1>2, <1>4, <1>9
<1> DEFINE D == edit(s, t)
           R == {n \in D .. k : t \in W(n)}
<1>11. D \in Nat /\ D <= k
  BY <1>2
<1> HIDE DEF D
<1>12. D \in R
  BY <1>10, <1>11 DEF D
<1>13. ASSUME NEW n \in D .. k - 1, n \in R
       PROVE  n + 1 \in R
  <2>1. n \in Nat /\ n + 1 \in D .. k
    BY <1>11
  <2> QED
    BY <1>3, <1>13, <2>1
<1>14. \A n \in D .. k : n \in R
  <2> HIDE DEF R
  <2>1. /\ k \in Int /\ D \in Int /\ (D <= k => D \in R)
        /\ \A n \in D .. k - 1 : n \in R => n + 1 \in R
    BY <1>11, <1>12, <1>13
  <2> QED
    BY ONLY <2>1, Induction
<1>15. k \in D .. k
  BY <1>11
<1> QED
  BY <1>14, <1>15 DEF W

(* Every text found has words, and so has the query: their distance is that *)
(* of edit.                                                                *)
LEMMA FoundDistance ==
  ASSUME IInv, found # <<>>
  PROVE  /\ query \in Queries /\ query \in Text /\ found \in Seq(Text)
         /\ asked = Shown(query, found)
         /\ \A s \in Range(found) :
              s \in Text /\ Calculate(query, s) = edit(query, s) /\ edit(query, s) \in Nat
<1>1. query # NoText
  <2>1. NoText \notin Queries
    BY DialogueAssumption DEF NoText
  <2> QED
    BY <2>1 DEF IInv, Answering, Silent
<1>2. /\ found \in Seq(Text) /\ FromDocs /\ query \in Queries /\ query \in Text
      /\ asked = Shown(query, found)
  BY <1>1, FoundParts
<1>4. docLog \in Logs /\ Length(query) \in 2 .. MaxQuery
  BY <1>2 DEF FromDocs
<1> DEFINE docs == Docs(docLog)
<1>5. docs \in Seq(Text) /\ \A d \in 1 .. Len(docs) : Segment_(docs[d]) # <<>>
  BY <1>4, DocsParts
<1> HIDE DEF docs
<1>6. \A s \in Range(found) : \E d \in 1 .. Len(docs) : s = docs[d]
  BY <1>2 DEF FromDocs, docs
<1>7. \A d \in 1 .. Len(docs) : docs[d] \in Text
  BY <1>5, ListParts
<1>8. Segment_(query) # <<>>
  <2>1. ~(Length(query) < 2) /\ query # <<>>
    BY <1>1, <1>4 DEF NoText
  <2> QED
    BY <2>1 DEF Segment_
<1>9. \A s \in Range(found) : s \in Text /\ Segment_(s) # <<>>
  BY <1>5, <1>6, <1>7
<1> QED
  BY <1>2, <1>8, <1>9, CalculateType, EditZero

(* The cells of edit count edits, and Shown takes the least of them.        *)
LEMMA NearestShownInv == IInv => NearestShown
<1> DEFINE k == MaxDistance
           Better(d) == /\ asked \in Range(found) \cap Near[query][d]
                        /\ \A s \in Range(found) \cap Near[query][d] :
                             /\ d > 0 => s \notin Near[query][d - 1]
                             /\ Gap(query, asked) <= Gap(query, s)
<1> SUFFICES ASSUME IInv, found # <<>>
             PROVE  \/ asked = NoText /\ Range(found) \cap Near[query][k] = {}
                    \/ \E d \in 0 .. k : Better(d)
  BY DEF NearestShown, Gap
<1>1. /\ query \in Queries /\ query \in Text /\ found \in Seq(Text)
      /\ asked = Shown(query, found)
      /\ \A s \in Range(found) :
           s \in Text /\ Calculate(query, s) = edit(query, s) /\ edit(query, s) \in Nat
  BY FoundDistance
<1>2. k \in Nat /\ \A d \in 0 .. k : Near[query][d] = Within(d, {query})
  BY <1>1, DialogueAssumption DEF Near
<1> HIDE DEF k
<1>3. ASSUME NEW d \in 0 .. k, NEW s \in Range(found)
      PROVE  s \in Near[query][d] <=> edit(query, s) <= d
  <2>1. d \in Nat /\ Near[query][d] = Within(d, {query}) /\ s \in Text /\ edit(query, s) \in Nat
    <3>1. d \in Nat
      BY <1>2
    <3>2. Near[query][d] = Within(d, {query})
      BY <1>2
    <3> QED
      BY <1>1, <3>1, <3>2
  <2>2. s \in Within(d, {query}) => edit(query, s) <= d
    BY <1>1, <2>1, NearIsClose
  <2>3. edit(query, s) <= d => s \in Within(d, {query})
    BY <1>1, <2>1, CloseIsNear
  <2> QED
    BY <2>1, <2>2, <2>3
<1>4. \A s \in Range(found) : \E i \in 1 .. Len(found) : found[i] = s
  BY <1>1, ListParts DEF Range
<1>5. \/ /\ asked = NoText
         /\ \A i \in 1 .. Len(found) : Calculate(query, found[i]) > k
      \/ \E d \in 0 .. k :
           /\ asked \in Range(found) /\ Calculate(query, asked) = d
           /\ \A i \in 1 .. Len(found) :
                /\ d <= Calculate(query, found[i])
                /\ Calculate(query, found[i]) = d => Gap(query, asked) <= Gap(query, found[i])
  BY <1>1, ShownParts DEF k
<1>6. CASE asked = NoText /\ \A i \in 1 .. Len(found) : Calculate(query, found[i]) > k
  <2>1. \A s \in Range(found) : ~(edit(query, s) <= k)
    BY <1>1, <1>2, <1>4, <1>6
  <2>2. k \in 0 .. k
    BY <1>2
  <2> QED
    BY <1>3, <1>6, <2>1, <2>2
<1>7. ASSUME NEW d \in 0 .. k, asked \in Range(found), Calculate(query, asked) = d,
             \A i \in 1 .. Len(found) :
               /\ d <= Calculate(query, found[i])
               /\ Calculate(query, found[i]) = d => Gap(query, asked) <= Gap(query, found[i])
      PROVE  Better(d)
  <2>1. d \in Nat /\ (d > 0 => d - 1 \in 0 .. k)
    BY <1>2
  <2>2. asked \in Near[query][d]
    BY <1>1, <1>3, <1>7, <2>1
  <2>3. \A s \in Range(found) :
          d <= edit(query, s) /\ (edit(query, s) = d => Gap(query, asked) <= Gap(query, s))
    BY <1>1, <1>4, <1>7
  <2>4. ASSUME NEW s \in Range(found), s \in Near[query][d]
        PROVE  (d > 0 => s \notin Near[query][d - 1]) /\ Gap(query, asked) <= Gap(query, s)
    <3>1. edit(query, s) = d
      BY <1>1, <1>3, <2>1, <2>3, <2>4
    <3>2. d > 0 => ~(edit(query, s) <= d - 1)
      BY <2>1, <3>1
    <3> QED
      BY <1>3, <2>1, <2>3, <3>1, <3>2
  <2> QED
    BY <1>7, <2>2, <2>4
<1> QED
  BY <1>5, <1>6, <1>7 DEF k

(* The question shown is as few edits of words from the query as any that   *)
(* was found, not more than MaxDistance, and of those the nearest in length; *)
(* without one all are too far (EditDist.cpp, dialogue.cpp).               *)
THEOREM NearestIsShown == Spec => []NearestShown
  BY Invariant, NearestShownInv, PTL

=============================================================================

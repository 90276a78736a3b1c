------------------------------ MODULE Dialogue ------------------------------
(***************************************************************************)
(* The dialogue engine: programs that build its two index files from the   *)
(* dialogue log, and the process that loads them once and answers queries  *)
(* (dialogue/dialogue.cpp, dialogue/test.cpp).                             *)
(*                                                                         *)
(* A builder may be killed or run out of disk: it leaves a part of its     *)
(* file, and the next start loads what is there.  The two files are built  *)
(* by separate programs, maybe from different states of the log.  The      *)
(* process reads the files only when it starts, so a build while it runs   *)
(* is a build after it ended; a load and a build do not overlap.           *)
(***************************************************************************)
EXTENDS DocIndex, EditDist, DaIndex

CONSTANTS
  Logs,         \* states of the dialogue log: sequences of lines
  Queries,      \* what a user types
  MaxDistance   \* the 5 of show_results

Answers == UNION {{log[i].answer : i \in 1 .. Len(log)} : log \in Logs}
NoReply == "no reply"
NoText == <<>>

ASSUME DialogueAssumption ==
  /\ \A log \in Logs :
       /\ log \in Seq([question : Text \ {<<>>}, answer : Answers])
       /\ Docs(log) # <<>>
  /\ Queries \subseteq Text \ {<<>>}
  /\ MaxDistance \in Nat

VARIABLES
  (* the files, the log each was built from, and where the first is cut    *)
  docFile, docLog, docCut,
  daFile, daLog,
  (* the process *)
  up,      \* it runs
  idx,     \* m_doc_index
  da,      \* DaSearch and Search_Buf
  query,   \* the last query
  found,   \* doc_result.data for it
  asked,   \* the question whose answer is shown, in show_results
  reply    \* the answer

fileVars == <<docFile, docLog, docCut, daFile, daLog>>
talkVars == <<query, found, asked, reply>>
vars == <<fileVars, up, idx, da, talkVars>>

NoDa == [da |-> <<>>, text |-> <<>>]
Silent == query = NoText /\ found = <<>> /\ asked = NoText /\ reply = NoReply

Init ==
  /\ docFile = <<>> /\ docLog = <<>> /\ docCut = "between"
  /\ daFile = <<>> /\ daLog = <<>>
  /\ up = FALSE /\ idx = NoIndex /\ da = NoDa /\ Silent

-----------------------------------------------------------------------------
(* doc_index_make_index: the file is truncated and written; the errors of   *)
(* WriteFile are not looked at, and the program ends as if all went well.   *)
BuildDoc(log, file) ==
  /\ ~up
  /\ docFile' = file /\ docLog' = log
  /\ docCut' = IF file = DocFile(log) THEN "none"
               ELSE IF IsPrefix(file, DocFile(log)) THEN "between"
               ELSE "inside"
  /\ UNCHANGED <<daFile, daLog, up, idx, da, talkVars>>

(* FormatDlgCor and index_da_make_index.                                   *)
BuildDa(log, questions, n) ==
  /\ ~up /\ n <= Len(DaFile(log, questions))
  /\ daFile' = SubSeq(DaFile(log, questions), 1, n) /\ daLog' = log
  /\ UNCHANGED <<docFile, docLog, docCut, up, idx, da, talkVars>>

(* DIALOGUE::Init: what the load of the doc index returns is not looked at, *)
(* a refused exact index ends the process.  da_index is a pointer that      *)
(* nobody has set: this is a start that survives it.  index0 and size0 are  *)
(* the uninitialised variables of ReadInFile; outside the table they end    *)
(* the process, too.                                                       *)
Start(index0, size0) ==
  /\ ~up /\ LoadIndex(daFile)
  /\ up' = TRUE /\ idx' = Load(docFile, index0, size0) /\ da' = LoadedDa(daFile)
  /\ UNCHANGED <<fileVars, talkVars>>

(* show_results: of the questions at the smallest distance the first whose  *)
(* length is nearest to that of the query, if the distance is not too large. *)
Nearest(q, candidates) ==
  LET Gap(i) == LET a == Length(candidates[i])
                    b == Length(q)
                IN  IF a < b THEN b - a ELSE a - b
      i == CHOOSE i \in 1 .. Len(candidates) :
             \A j \in 1 .. Len(candidates) :
               Gap(i) <= Gap(j) /\ (j < i => Gap(i) < Gap(j))
  IN  candidates[i]
Shown(q, docs) ==
  LET sorted == EditSort(q, docs)
      d == Min(DOMAIN sorted)
  IN  IF docs = <<>> \/ d > MaxDistance THEN NoText ELSE Nearest(q, sorted[d])

(* Mutant: the reply of the query before is kept when there is none.       *)
IndexOutcomeStale(q) ==
  /\ up
  /\ query' = q /\ found' = GetIndexResults(idx, q)
  /\ asked' = Shown(q, found')
  /\ LET answers == Lookup(da, asked')
     IN  \/ answers # <<>> /\ reply' \in Range(answers)
         \/ answers = <<>> /\ UNCHANGED reply
  /\ UNCHANGED <<fileVars, up, idx, da>>

(* IndexOutcome: rand chooses among the answers to the question shown.     *)
IndexOutcome(q) ==
  /\ up
  /\ query' = q /\ found' = GetIndexResults(idx, q)
  /\ asked' = Shown(q, found')
  /\ LET answers == Lookup(da, asked')
     IN  \/ answers # <<>> /\ reply' \in Range(answers)
         \/ answers = <<>> /\ reply' = NoReply
  /\ UNCHANGED <<fileVars, up, idx, da>>

(* The process ends: "exit", or a signal.                                  *)
Exit ==
  /\ up /\ up' = FALSE /\ idx' = NoIndex /\ da' = NoDa
  /\ query' = NoText /\ found' = <<>> /\ asked' = NoText /\ reply' = NoReply
  /\ UNCHANGED fileVars

Next ==
  \/ \E log \in Logs : \E file \in Cuts(DocFile(log)) : BuildDoc(log, file)
  \/ \E log \in Logs : \E questions \in SortedQuestions(hash_uniq(log)), n \in 0 .. 4 :
       BuildDa(log, questions, n)
  \/ \E index0 \in Buckets, size0 \in 0 .. 1 : Start(index0, size0)
  \/ \E q \in Queries : IndexOutcome(q)
  \/ Exit

Spec == Init /\ [][Next]_vars

-----------------------------------------------------------------------------
(* Every variable has its type, and nothing is said about a question that   *)
(* is not shown.                                                           *)
TypeOK ==
  /\ docLog \in Logs \union {<<>>} /\ daLog \in Logs \union {<<>>}
  /\ docCut \in {"none", "between", "inside"} /\ up \in BOOLEAN
  /\ query \in Queries \union {NoText}
  /\ \A i \in 1 .. Len(found) : found[i] \in Text
  /\ asked \in Range(found) \union {NoText}
  /\ reply \in Answers \union {NoReply}
  /\ asked = NoText => reply = NoReply

(* The questions with word w, one for each time they have it.              *)
Having(log, w) ==
  LET questions == [i \in 1 .. Len(log) |-> log[i].question]
      docs == Pick(questions, {i \in DOMAIN questions : Length(questions[i]) >= 2})
  IN  FlattenSeq([i \in 1 .. Len(docs) |-> [n \in 1 .. Times(docs[i], w) |-> docs[i]]])

(* What is found are the logged questions that have the rarest word of the  *)
(* full-width query, no matter how the words share buckets and how the      *)
(* table was sorted, moved and read again; with a word nobody asked about   *)
(* it is nothing.  The comments call it the intersection (doc_index.cpp:519, *)
(* 560) of lists that all words must have (644-645), but the returns that   *)
(* would make it that are commented out (648).  The questions are as they   *)
(* were typed and the query is not, so a question with half-width           *)
(* characters is not found by them, not even by itself.                    *)
(* From a file that was cut between two units the same questions are found, *)
(* or nothing, though nothing told the load of the cut                      *)
(* (HashVector_Enhanced.h:284-296).  From one that was cut inside a number  *)
(* it may be the questions of another word, or the first of them, but it is *)
(* never anything that is not a list of the index from its beginning.      *)
FoundWhole ==
  LET words == Converted(FullWidth, query)
      Asks == Length(query) \in 2 .. MaxQuery /\ Length(words) >= 2
  IN  query # NoText =>
        \/ /\ Asks
           /\ \E i \in 1 .. Len(words) :
                /\ found = Having(docLog, words[i])
                /\ \A j \in 1 .. Len(words) :
                     Len(found) <= Len(Having(docLog, words[j]))
        \/ found = <<>> /\ (~Asks \/ docCut # "none")
        \/ /\ Asks /\ docCut = "inside"
           /\ \E w \in Words : IsPrefix(found, Having(docLog, w))

(* The texts within k edits of a query, by the definition of an edit.      *)
Near == [q \in Queries |-> [k \in 0 .. MaxDistance |-> Within(k, {q})]]

(* The question shown is one of those found, as few edits from the query as *)
(* any of them and not more than MaxDistance; none with as many is nearer   *)
(* in length.  Nothing is shown only if all are too far.                   *)
NearestShown ==
  LET Gap(s) == IF Length(s) < Length(query) THEN Length(query) - Length(s)
                ELSE Length(s) - Length(query)
  IN  found # <<>> =>
        \/ asked = NoText /\ Range(found) \cap Near[query][MaxDistance] = {}
        \/ \E k \in 0 .. MaxDistance :
             /\ asked \in Range(found) \cap Near[query][k]
             /\ \A s \in Range(found) \cap Near[query][k] :
                  /\ k > 0 => s \notin Near[query][k - 1]
                  /\ Gap(asked) <= Gap(s)

(* An answer that is given was logged for a question with the key that was *)
(* looked up, whichever states of the log the two files are from and        *)
(* wherever they were cut, and if there is such a question, one is given.   *)
(* The key is the converted question, the question shown is not converted   *)
(* (Index_da.cpp:1056-1062, Da_Search.cpp:153-171): one that is not its own *)
(* key gets the answers of the questions that are converted to it, or none, *)
(* and of several questions with one key only one keeps its answers (1218). *)
AnswerLogged ==
  asked # NoText =>
    LET mine == {i \in 1 .. Len(daLog) : change2qj(daLog[i].question) = asked}
    IN  IF mine = {} THEN reply = NoReply
        ELSE \E i \in mine : daLog[i].answer = reply

(* A logged question in full-width, simplified characters is shown for      *)
(* itself and answered, when the doc index is whole and both are of the     *)
(* same log.  The answer is one of its own, unless another question with    *)
(* the same key was logged, too.                                           *)
KnownAnswered ==
  LET Logged(q) == {i \in 1 .. Len(docLog) : docLog[i].question = q}
      Alike(q) == {i \in 1 .. Len(docLog) : change2qj(docLog[i].question) = q}
  IN  /\ docCut = "none" /\ docLog = daLog
      /\ Length(query) \in 2 .. MaxQuery
      /\ Converted(FullWidth, query) = query /\ change2qj(query) = query
      /\ Logged(query) # {}
      => /\ asked = query
         /\ \E i \in Alike(query) : docLog[i].answer = reply
=============================================================================

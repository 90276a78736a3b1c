------------------------------ MODULE DaIndex ------------------------------
(***************************************************************************)
(* The exact index from a question to its answers: FormatDlgCor.cpp joins  *)
(* the answers of a question, Index_da.cpp writes the index ("uniq") and   *)
(* Da_Search.cpp looks a question up.  The double array itself is a        *)
(* library: a function from keys to offsets.  An offset counts the groups  *)
(* of answers in the text buffer, from 0, and not bytes.                   *)
(***************************************************************************)
EXTENDS Segment, Functions, FiniteSetsExt

DaUnit(is, data) == [is |-> is, data |-> data]

(* PreProcess_dlg_cor: the answers of every question, joined by "##-##".    *)
(* A question without words stays as it is.                                *)
hash_uniq(log) ==
  [q \in {log[i].question : i \in 1 .. Len(log)} |->
     LET mine == Pick(log, {i \in DOMAIN log : log[i].question = q})
     IN  [i \in 1 .. Len(mine) |-> mine[i].answer]]

(* change2qj: the key is stored full-width and simplified; Lookup takes the *)
(* question as it was typed.                                               *)
change2qj(question) == Converted(Simplified, question)

(* OutputIndexFile, "uniq": the questions in the order of their keys, those *)
(* without words dropped, their answers one after the other.  Questions     *)
(* with one key are in any order.                                          *)
Precedes(s, t) ==
  \E i \in 1 .. Len(t) :
    /\ \A k \in 1 .. i - 1 : k <= Len(s) /\ s[k] = t[k]
    /\ Len(s) = i - 1 \/ (Len(s) >= i /\ s[i] < t[i])
SortedQuestions(map) ==
  LET questions == {q \in DOMAIN map : Segment_(change2qj(q)) # <<>>}
  IN  {s \in [1 .. Cardinality(questions) -> questions] :
         /\ Range(s) = questions
         /\ \A i, j \in DOMAIN s :
              i < j => ~ Precedes(change2qj(s[j]), change2qj(s[i]))}

(* Mutant: the offset is taken behind the answers.                         *)
dic_mapBehind(questions) ==
  LET With(key) == {i \in 1 .. Len(questions) : change2qj(questions[i]) = key}
  IN  [key \in {change2qj(q) : q \in Range(questions)} |-> Max(With(key))]

(* The offset of the answers of every key: a question overwrites what an    *)
(* earlier one with its key has put there.                                 *)
dic_map(questions) ==
  LET With(key) == {i \in 1 .. Len(questions) : change2qj(questions[i]) = key}
  IN  [key \in {change2qj(q) : q \in Range(questions)} |-> Max(With(key)) - 1]

DaFile(log, questions) ==
  <<DaUnit("header", Len(questions)), DaUnit("da", dic_map(questions)),
    DaUnit("text", [i \in 1 .. Len(questions) |-> hash_uniq(log)[questions[i]]]),
    DaUnit("fileSize", 0)>>

(* LoadIndex refuses a file that lacks a part, but for the size at its end. *)
LoadIndex(f) == Len(f) >= 3
LoadedDa(f) == [da |-> f[2].data, text |-> f[3].data]

(* Mutant: the answers at the end of the text are taken for outside.       *)
LookupNotLast(da, question) ==
  LET q == Segment_(question)
  IN  IF q # <<>> /\ q \in DOMAIN da.da /\ da.da[q] + 1 < Len(da.text)
      THEN da.text[da.da[q] + 1] ELSE <<>>

(* GetIndexResults with DA_Search: the answers to a question.              *)
Lookup(da, question) ==
  LET q == Segment_(question)
  IN  IF q # <<>> /\ q \in DOMAIN da.da /\ da.da[q] < Len(da.text)
      THEN da.text[da.da[q] + 1] ELSE <<>>
=============================================================================

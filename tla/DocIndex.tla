------------------------------ MODULE DocIndex ------------------------------
(***************************************************************************)
(* The inverted index of the logged questions: CDlgIndex                   *)
(* (index/inv_index/doc_index.cpp) over CommonIndex                        *)
(* (include/common_index.h) over the table of HashVector.                  *)
(*                                                                         *)
(* A doc is a question; doc_id counts docs from 1.  An entry of a posting  *)
(* list is the doc_id: the length and the field of an occurrence are not   *)
(* looked at.  The end of a range of postings stays exclusive, its begin   *)
(* counts from 0.                                                          *)
(***************************************************************************)
EXTENDS Segment, HashVector

CONSTANT MaxQuery   \* the 100 bytes of GetDlgResult

ASSUME DocIndexAssumption == Hash \in [Words -> Buckets] /\ MaxQuery \in Nat

(* The lines of a log that become docs.                                    *)
Docs(log) ==
  LET questions == [i \in 1 .. Len(log) |-> log[i].question]
  IN  Pick(questions, {i \in DOMAIN questions : Segment_(questions[i]) # <<>>})

(* How often a text has a word. *)
Times(text, w) == Cardinality({n \in DOMAIN text : text[n] = w})

(* m_index_map after Add of every doc: a word that a doc has twice has the  *)
(* doc twice in its list.                                                  *)
IndexMap(docs) ==
  [w \in UNION {Range(docs[i]) : i \in 1 .. Len(docs)} |->
     FlattenSeq([i \in 1 .. Len(docs) |-> [n \in 1 .. Times(docs[i], w) |-> i]])]

(* ChangeToHVIndex: the map in the order of its words, the lists one after  *)
(* the other in m_inv_vect, then the sort of the buckets.                  *)
(* Mutant KeysUnordered: the map gives its words in another order.         *)
KeysUnordered(map) ==
  SortBy(DOMAIN map, {p \in (DOMAIN map) \X (DOMAIN map) : p[1] > p[2]})
Keys(map) == Ascending(DOMAIN map)
AddKey(acc, w, inv) ==
  [inv |-> acc.inv \o inv,
   table |-> AddItem(acc.table, w, Len(acc.inv), Len(acc.inv) + Len(inv))]
Added(map) ==
  LET keys == Keys(map)
      upto[n \in 0 .. Len(keys)] ==
        IF n = 0 THEN [inv |-> <<>>, table |-> NoTable]
        ELSE AddKey(upto[n - 1], keys[n], map[keys[n]])
  IN  upto[Len(keys)]
ChangeToHVIndex(map) == [Added(map) EXCEPT !.table = Sort(@)]

(* MakeIndex with CommonIndex::Save: the whole file.                       *)
DocFile(log) ==
  LET docs == Docs(log)
      all == ChangeToHVIndex(IndexMap(docs))
  IN  <<Unit("chars", docs), Unit("docs", [i \in 1 .. Len(docs) |-> i]),
        Unit("invs", all.inv)>>
      \o WriteFile(all.table)

(* CommonIndex::Load.  What is read before an error stays, but the table    *)
(* is empty then, and nothing is found.                                    *)
NoIndex == [chars |-> <<>>, docs |-> <<>>, invs |-> <<>>, table |-> NoTable]
Loads(f) == Len(f) >= 4 /\ Readable(f, 4)
Load(f, index0, size0) ==
  IF ~Loads(f) THEN NoIndex
  ELSE [chars |-> f[1].data, docs |-> f[2].data, invs |-> f[3].data,
        table |-> ReadInFile(f, 4, index0, size0)]

-----------------------------------------------------------------------------
GetInv(idx, w) ==
  LET key == Find(idx.table, w) IN SubSeq(idx.invs, key.begin + 1, key.end)
GetDocText(idx, doc) == idx.chars[idx.docs[doc]]

(* GetInvResults: the first of the shortest lists; a word without a list    *)
(* counts as an empty one.                                                 *)
MinIndex(invResults) ==
  CHOOSE i \in 1 .. Len(invResults) :
    \A j \in 1 .. Len(invResults) :
      /\ Len(invResults[i]) <= Len(invResults[j])
      /\ j < i => Len(invResults[i]) < Len(invResults[j])

(* SearchDoc looks a doc up in the other lists and succeeds whether or not  *)
(* they have it: its early return is commented out.                        *)
SearchDoc(doc, invResults, minIndex) == TRUE

UnionInvResult(invResults) ==
  LET m == MinIndex(invResults)
      shortest == invResults[m]
  IN  Pick(shortest, {i \in DOMAIN shortest : SearchDoc(shortest[i], invResults, m)})

(* GetUnionResults: the texts of the docs found, doubles included.         *)
GetUnionResults(idx, text) ==
  LET invResults == [i \in 1 .. Len(text) |-> GetInv(idx, text[i])]
      found == UnionInvResult(invResults)
  IN  IF text = <<>> THEN <<>>
      ELSE [i \in 1 .. Len(found) |-> GetDocText(idx, found[i])]

(* Normalize_: the query becomes full-width; MakeIndex leaves the questions *)
(* as they were typed.                                                     *)
Normalize_(query) == Segment_(Converted(FullWidth, query))

(* GetIndexResults with GetDlgResult: a query without words, and one that   *)
(* is too short or too long, finds nothing.                                *)
GetIndexResults(idx, query) ==
  IF Segment_(query) = <<>> \/ Length(query) > MaxQuery THEN <<>>
  ELSE GetUnionResults(idx, Normalize_(query))
=============================================================================

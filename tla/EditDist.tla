------------------------------ MODULE EditDist ------------------------------
(***************************************************************************)
(* The distance of a query from the questions found, and their order by it *)
(* (include/common/EditDist.cpp).                                          *)
(***************************************************************************)
EXTENDS Segment, SequencesExt

Less(i, j) == IF i > j THEN j ELSE i

(* Mutant: a word is inserted or removed, and never replaced.              *)
CellsNoReplace(s, t) ==
  LET cell[p \in (0 .. Len(s)) \X (0 .. Len(t))] ==
        LET i == p[1]
            j == p[2]
        IN  IF i = 0 THEN j
            ELSE IF j = 0 THEN i
            ELSE IF s[i] = t[j] THEN cell[<<i - 1, j - 1>>]
            ELSE Less(cell[<<i, j - 1>>] + 1, cell[<<i - 1, j>>] + 1)
  IN  cell

(* edit: the cell (i, j) of the table of the two vectors of words.         *)
Cells(s, t) ==
  LET cell[p \in (0 .. Len(s)) \X (0 .. Len(t))] ==
        LET i == p[1]
            j == p[2]
            tmp == Less(cell[<<i, j - 1>>] + 1, cell[<<i - 1, j>>] + 1)
            d == IF s[i] = t[j] THEN 0 ELSE 1
        IN  IF i = 0 THEN j
            ELSE IF j = 0 THEN i
            ELSE Less(tmp, cell[<<i - 1, j - 1>>] + d)
  IN  cell
edit(s, t) == Cells(s, t)[<<Len(s), Len(t)>>]

Calculate(s, t) ==
  IF Segment_(s) = <<>> \/ Segment_(t) = <<>> THEN 0
  ELSE edit(Segment_(s), Segment_(t))

(* EditSort: per distance the candidates that have it, each once, in the    *)
(* order in which they were found.                                         *)
EditSort(query, candidates) ==
  LET distance == [i \in DOMAIN candidates |-> Calculate(query, candidates[i])]
  IN  [d \in Range(distance) |->
         Pick(candidates, {i \in DOMAIN candidates :
                             /\ distance[i] = d
                             /\ \A j \in 1 .. i - 1 : candidates[j] # candidates[i]})]

-----------------------------------------------------------------------------
(* The reference: the texts that k insertions, deletions and replacements   *)
(* of words make of texts.                                                 *)
OneEdit(s) ==
  {RemoveAt(s, i) : i \in 1 .. Len(s)}
    \union {ReplaceAt(s, i, w) : i \in 1 .. Len(s), w \in Words}
    \union {InsertAt(s, i, w) : i \in 1 .. Len(s) + 1, w \in Words}

Within(k, texts) ==
  LET within[n \in 0 .. k] ==
        IF n = 0 THEN texts
        ELSE LET nearer == within[n - 1]
             IN  nearer \union UNION {OneEdit(s) : s \in nearer}
  IN  within[k]
=============================================================================

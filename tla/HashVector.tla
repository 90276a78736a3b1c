----------------------------- MODULE HashVector -----------------------------
(***************************************************************************)
(* CHashVector_Enhanced (include/HashVector_Enhanced.h): the table from    *)
(* words to nodes of the inverted index, in memory and in a file.          *)
(*                                                                         *)
(* A word is a number, and strcmp orders words as numbers.  An offset into *)
(* the buffer of words counts words, from 1, and not bytes.  A file is a   *)
(* sequence of units, what one fwrite or one node of it wrote: a builder   *)
(* that is killed or whose disk is full leaves a prefix, and the cut may    *)
(* be inside a unit.                                                       *)
(***************************************************************************)
EXTENDS Integers, Sequences, SequencesExt

CONSTANTS
  HashBasic,   \* HASH_BASIC: the number of buckets
  Hash,        \* GetHashValue: the bucket of a word
  Places       \* 256 ^ k for k bytes of a number

ASSUME HashBasicAssumption == HashBasic \in Nat \ {0}
ASSUME PlacesAssumption == Places \subseteq Nat \ {0}

Buckets == 0 .. HashBasic - 1

NoNode == [offset |-> 0, begin |-> 0, end |-> 0]
ZeroNode == [offset |-> 1, begin |-> 0, end |-> 0]   \* NODETYPE()

NoData == [i \in Buckets |-> <<>>]
NoTable == [words |-> <<>>, data |-> NoData]

Unit(is, data) == [is |-> is, data |-> data]

(* AddItem: the word goes behind the others and is the mark of the node.   *)
AddItem(t, w, begin, end) ==
  [words |-> Append(t.words, w),
   data |-> [t.data EXCEPT ![Hash[w]] =
     Append(@, [offset |-> Len(t.words) + 1, begin |-> begin, end |-> end])]]

-----------------------------------------------------------------------------
(* Wap assigns nodes, and the assignment of a key node leaves word_offset   *)
(* as it is (doc_index.h:50-55): the ranges change places, the words stay.  *)
Wap(v, i, j) ==
  [v EXCEPT ![i] = [v[j] EXCEPT !.offset = v[i].offset],
            ![j] = [v[i] EXCEPT !.offset = v[j].offset]]

(* The two inner loops of Partition and their swap; s has the vector and    *)
(* both places.                                                            *)
Pass(words, key, s) ==
  LET W(i) == words[s.v[i].offset]
      l == CHOOSE i \in s.left .. s.right :
             /\ i = s.right \/ W(i) >= W(key)
             /\ \A k \in s.left .. i - 1 : W(k) < W(key)
      r == CHOOSE i \in l - 1 .. s.right :
             /\ i = l - 1 \/ i = key \/ W(i) < W(key)
             /\ \A k \in i + 1 .. s.right : W(k) >= W(key)
  IN  IF s.left >= s.right THEN s
      ELSE IF l < r THEN [v |-> Wap(s.v, l, r), left |-> l + 1, right |-> r - 1]
      ELSE [v |-> s.v, left |-> l, right |-> r]

(* The outer loop, until left meets right: no pass leaves both in place.    *)
Meet(words, v, key, left, right) ==
  LET pass[n \in 0 .. Len(v)] ==
        IF n = 0 THEN [v |-> v, left |-> left, right |-> right]
        ELSE Pass(words, key, pass[n - 1])
  IN  pass[Len(v)]

(* Partition: the vector and the place of the key.                         *)
Partition(words, v, left, right) ==
  LET W(i) == words[v[i].offset]
      m == Meet(words, v, left, left + 1, right)
      r == IF m.right = m.left /\ W(m.right) >= W(left) THEN m.right - 1
           ELSE m.right
  IN  IF right = left + 1
      THEN [v |-> IF W(left) > W(right) THEN Wap(v, left, right) ELSE v,
            key |-> right]
      ELSE [v |-> IF r = left THEN m.v ELSE Wap(m.v, left, r), key |-> r]

(* A call of QSort; calls has the ranges of the calls to come, in order.    *)
Call(words, s) ==
  LET left == Head(s.calls)[1]
      right == Head(s.calls)[2]
      p == Partition(words, s.v, left, right)
  IN  IF s.calls = <<>> THEN s
      ELSE IF left >= right THEN [s EXCEPT !.calls = Tail(@)]
      ELSE [v |-> p.v,
            calls |-> <<<<left, p.key - 1>>, <<p.key + 1, right>>>> \o Tail(s.calls)]

(* Every call that partitions leaves its key out of the calls that follow:  *)
(* there are at most Len(v) of them, and two calls from each.              *)
QSort(words, v) ==
  LET call[n \in 0 .. 2 * Len(v) + 1] ==
        IF n = 0 THEN [v |-> v, calls |-> <<<<1, Len(v)>>>>]
        ELSE Call(words, call[n - 1])
  IN  call[2 * Len(v) + 1].v

Sort(t) == [t EXCEPT !.data = [i \in Buckets |-> QSort(t.words, t.data[i])]]

(* Find: one round of the binary search; at is the place of the word, 0 as  *)
(* long as it is not found.                                                *)
Probe(words, v, w, s) ==
  LET mid == (s.left + s.right) \div 2
      mark == words[v[mid].offset]
  IN  IF s.right < s.left \/ s.at # 0 THEN s
      ELSE IF w = mark THEN [s EXCEPT !.at = mid]
      ELSE IF w > mark THEN [s EXCEPT !.left = mid + 1]
      ELSE [s EXCEPT !.right = mid - 1]

Bisect(words, v, w) ==
  LET probe[n \in 0 .. Len(v)] ==
        IF n = 0 THEN [left |-> 1, right |-> Len(v), at |-> 0]
        ELSE Probe(words, v, w, probe[n - 1])
  IN  probe[Len(v)].at

Find(t, w) ==
  LET v == t.data[Hash[w]]
      at == Bisect(t.words, v, w)
  IN  IF at = 0 THEN NoNode ELSE v[at]

-----------------------------------------------------------------------------
(* How many words the buckets before each have.                            *)
Before(t) ==
  LET before[i \in 0 .. HashBasic] ==
        IF i = 0 THEN 0 ELSE before[i - 1] + Len(t.data[i - 1])
  IN  before

(* The words are written bucket by bucket, and every node gets the new      *)
(* offset of its word.                                                     *)
Moved(t) ==
  LET WordsOf(v) == [n \in 1 .. Len(v) |-> t.words[v[n].offset]]
  IN  [words |-> FlattenSeq([k \in 1 .. HashBasic |-> WordsOf(t.data[k - 1])]),
       data |-> [i \in Buckets |->
                   [n \in 1 .. Len(t.data[i]) |->
                      [t.data[i][n] EXCEPT !.offset = Before(t)[i] + n]]]]

(* WriteFile.                                                              *)
BucketUnits(i, v) ==
  <<Unit("index", i), Unit("size", Len(v))>> \o [n \in 1 .. Len(v) |-> Unit("node", v[n])]
WriteFile(t) ==
  LET moved == Moved(t)
  IN  <<Unit("words", moved.words), Unit("hashSize", HashBasic)>>
        \o FlattenSeq([k \in 1 .. HashBasic |-> BucketUnits(k - 1, moved.data[k - 1])])

(* What fread makes of a unit that the end of the file cuts: the bytes that *)
(* are there, and they are the low ones of a number.  Of a node begin comes *)
(* first and word_offset last; a cut word_offset points to an earlier word, *)
(* and one that points inside a word is not told apart.  The other units    *)
(* are read with a check, and half of one is as good as none.              *)
Torn(unit) ==
  IF unit.is = "node" THEN
    LET node == unit.data
    IN  {Unit("node", [offset |-> 1, begin |-> node.begin % p, end |-> 0]) : p \in Places}
          \union {Unit("node", [offset |-> 1, begin |-> node.begin, end |-> node.end % p]) :
                    p \in Places}
          \union {Unit("node", [node EXCEPT !.offset = o]) : o \in 1 .. node.offset}
  ELSE IF unit.is \in {"index", "size"} THEN
    {[is |-> "part", data |-> unit.data % p, place |-> p] : p \in Places}
  ELSE {}

(* A file as the builder may leave it: whole, or cut between two units, or  *)
(* inside one.                                                             *)
Cuts(f) ==
  {SubSeq(f, 1, n) : n \in 0 .. Len(f)}
    \union UNION {{Append(SubSeq(f, 1, n - 1), unit) : unit \in Torn(f[n])} :
                  n \in 1 .. Len(f)}

(* fread into a variable: the high bytes of old stay if they are not there. *)
Got(unit, old) ==
  IF unit.is = "part" THEN (old - (old % unit.place)) + unit.data ELSE unit.data

(* A round of the loop over the buckets in ReadInFile.  No fread in it is   *)
(* checked: behind the end of the file index and vectSize keep what they    *)
(* were, and nodes stay as NODETYPE() made them.  s has the data, both      *)
(* variables and the place in the file.                                    *)
ReadBucket(f, s) ==
  LET Has(k) == k <= Len(f)
      index == IF Has(s.at) THEN Got(f[s.at], s.index) ELSE s.index
      size == IF Has(s.at + 1) THEN Got(f[s.at + 1], s.size) ELSE s.size
      nodes == [n \in 1 .. size |->
                  IF Has(s.at + 1 + n) THEN f[s.at + 1 + n].data ELSE ZeroNode]
  IN  [data |-> [s.data EXCEPT ![index] = nodes],
       index |-> index, size |-> size, at |-> s.at + 2 + size]

ReadBuckets(f, at, index0, size0) ==
  LET read[i \in 0 .. HashBasic] ==
        IF i = 0 THEN [data |-> NoData, index |-> index0, size |-> size0, at |-> at]
        ELSE ReadBucket(f, read[i - 1])
  IN  read[HashBasic].data

(* ReadInFile of a file whose words are unit at: the words and the number   *)
(* of buckets are checked.  index0 and size0 are what the two variables     *)
(* hold before anything was read into them.                                *)
Readable(f, at) == Len(f) > at
ReadInFile(f, at, index0, size0) ==
  [words |-> f[at].data, data |-> ReadBuckets(f, at + 2, index0, size0)]
=============================================================================

------------------------------ MODULE Segment ------------------------------
(***************************************************************************)
(* Texts and their words (segment/Segment.cpp).  A text is the sequence of *)
(* the words that the segmentation library finds in it: the library is     *)
(* taken to find the same words again in their concatenation.  A word is a *)
(* number; what the code tells apart of it is its length in bytes, and what *)
(* EncodingConvertor, which is not in the repository, makes of it: the      *)
(* converted text is taken to consist of the converted words.              *)
(***************************************************************************)
EXTENDS Integers, Sequences, FiniteSets, Lists

CONSTANTS
  Words,      \* the words, as strcmp orders them
  WordLen,    \* the bytes of a word
  FullWidth,  \* dbc2gchar: half-width characters become full-width ones
  Simplified  \* t2sgchar: traditional ones become simplified ones, too

ASSUME WordsAssumption ==
  /\ Words \subseteq Int /\ WordLen \in [Words -> Nat]
  /\ FullWidth \in [Words -> Words] /\ Simplified \in [Words -> Words]

Text == Seq(Words)

Length(text) ==
  LET upto[n \in 0 .. Len(text)] ==
        IF n = 0 THEN 0 ELSE upto[n - 1] + WordLen[text[n]]
  IN  upto[Len(text)]

(* Segment_: nothing is found in a text of less than two bytes.            *)
Segment_(text) == IF Length(text) < 2 THEN <<>> ELSE text

Converted(conversion, text) == [n \in 1 .. Len(text) |-> conversion[text[n]]]

(* A line of the dialogue log, "question##_##answer".                      *)
Line(question, answer) == [question |-> question, answer |-> answer]
=============================================================================

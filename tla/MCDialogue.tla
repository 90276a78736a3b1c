---------------------------- MODULE MCDialogue ----------------------------
(* Instances of Dialogue for TLC. *)
EXTENDS Dialogue

(* Word 3 is a single byte and half-width: alone it is no text that is      *)
(* segmented, full-width it is word 1.  Word 5 is the traditional word 4.   *)
MCWords == 1 .. 5
MCWordLen == <<2, 4, 1, 2, 2>>
MCFullWidth == <<1, 2, 1, 4, 5>>
MCSimplified == <<1, 2, 1, 4, 4>>

(* Four words share the last bucket: only there a node that is cut stays,   *)
(* the others are read once more as a bucket of empty ones.                *)
MCHash == <<1, 1, 1, 1, 0>>

(* Numbers in base 2 instead of 256, in 3 bytes.                           *)
MCPlaces == {1, 2, 4}

(* A question asked twice, a word twice in a question, a line that becomes  *)
(* no doc but a key, questions that are not their key, with one key, or     *)
(* with the key of one that is, questions of several logs with other        *)
(* answers.                                                                *)
MCLogs ==
  {<<Line(<<1, 2>>, "a"), Line(<<2, 1>>, "b"), Line(<<2>>, "a"), Line(<<1, 2>>, "c")>>,
   <<Line(<<1, 1, 4>>, "b"), Line(<<3>>, "a"), Line(<<2, 4, 1>>, "c"), Line(<<1, 1, 5>>, "a")>>,
   <<Line(<<4, 3, 2, 4>>, "a"), Line(<<5, 2>>, "b"), Line(<<3, 2>>, "c"), Line(<<4, 2>>, "b")>>}

MCQueries == UNION {[1 .. n -> MCWords] : n \in 1 .. 2} \union
             {<<1, 1, 4>>, <<1, 1, 5>>, <<2, 4, 1>>, <<4, 3, 2, 4>>, <<2, 1, 4>>,
              <<2, 2, 2, 1>>}
=============================================================================

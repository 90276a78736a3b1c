---------------------------- MODULE MCSimProcess ----------------------------
(* The instances of SimProcess that TLC checks: three parts of one bit.    *)
EXTENDS SimProcess

OneBitParts == [b \in 0 .. 2 |-> b + 1]

TwoSigns == {{0, 2}, {0, 1, 2}}

Ask(doc, sign, strategy, expiretime) ==
  [doc |-> doc, sign |-> sign, strategy |-> strategy, hitdelay |-> TRUE,
   expiretime |-> expiretime]

(* Two near-duplicates; one is also appended unseen, compared and deleted. *)
MixedRequests ==
  {Ask(1, {0, 2}, "APPCOM", 2), Ask(2, {0, 1, 2}, "APPCOM", 1), Ask(2, {0, 1, 2}, "APPEND", 2),
   Ask(3, {0, 2}, "COMPARE", 1), Ask(1, {0, 2}, "DELETE", 2)}

(* Documents that expire one after another, and are not delayed. *)
AgingRequests ==
  {[Ask(d, {0, 2}, "APPCOM", d) EXCEPT !.hitdelay = FALSE] : d \in 1 .. 3}
=============================================================================

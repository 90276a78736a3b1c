---------------------------- MODULE ServiceLife ----------------------------
(***************************************************************************)
(* What a multi-threaded service promises over its life, whatever it       *)
(* serves: nobody serves before it opens, a start that fails serves        *)
(* nobody, and it ends only after every one of its threads has come and    *)
(* gone.  TaskBase implements it.                                          *)
(***************************************************************************)
CONSTANT Threads

VARIABLES
  phase,     \* starting, open, closing, ended, failed
  serving,   \* the threads that serve
  left       \* the threads that have served and gone

vars == <<phase, serving, left>>

Init == phase = "starting" /\ serving = {} /\ left = {}

Fail ==
  /\ phase = "starting" /\ serving = {}
  /\ phase' = "failed"
  /\ UNCHANGED <<serving, left>>

Open ==
  /\ phase = "starting"
  /\ phase' = "open"
  /\ UNCHANGED <<serving, left>>

(* A thread may be late: it comes although the service is closing.         *)
Enter(t) ==
  /\ phase \in {"open", "closing"} /\ t \notin serving \union left
  /\ serving' = serving \union {t}
  /\ UNCHANGED <<phase, left>>

Leave(t) ==
  /\ phase = "closing" /\ t \in serving
  /\ serving' = serving \ {t}
  /\ left' = left \union {t}
  /\ UNCHANGED phase

Close ==
  /\ phase = "open"
  /\ phase' = "closing"
  /\ UNCHANGED <<serving, left>>

End ==
  /\ phase = "closing" /\ left = Threads
  /\ phase' = "ended"
  /\ UNCHANGED <<serving, left>>

Next ==
  \/ Fail \/ Open \/ Close \/ End
  \/ \E t \in Threads : Enter(t) \/ Leave(t)

Spec == Init /\ [][Next]_vars
=============================================================================

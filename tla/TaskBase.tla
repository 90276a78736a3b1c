------------------------------ MODULE TaskBase ------------------------------
(***************************************************************************)
(* The life of the server process: main (http_server/main.cpp) and the     *)
(* thread pool it drives (http_server/task_base.cpp).                      *)
(*                                                                         *)
(* main creates the threads, which wait at a barrier until main, having    *)
(* registered the request handler, arrives there too; it then sleeps in    *)
(* pause() until a signal, and stops, joins and deletes the server.        *)
(*                                                                         *)
(* svc is what HttpServer models in detail.  Here a thread stays in it     *)
(* until stop() has set _stop_task and then leaves, which is what          *)
(* HttpServer's StopTerminates checks.                                     *)
(***************************************************************************)
EXTENDS Integers, FiniteSets

CONSTANTS
  ThreadNum,   (* Configuration::receiver_num                                *)
  Main         (* the main thread, at the barrier                            *)

Threads == 1 .. ThreadNum

ASSUME TaskAssumption == ThreadNum \in Nat /\ Main \notin Threads

VARIABLES
  main,         \* where main is
  next,         \* the loop variable i of open and of join
  array,        \* m_thread: null, live (allocated), freed (dangling)
  arrived,      \* who has arrived at m_barrier
  pc,           \* where a thread is: none, created, barrier, svc, ended
  handlerSet,   \* m_handler is set
  stopTask      \* _stop_task

vars == <<main, next, array, arrived, pc, handlerSet, stopTask>>

-----------------------------------------------------------------------------
StartPcs == {"boot", "init", "create", "register", "activate", "barrier"}
StopPcs  == {"stop", "kill", "wait", "free", "delete"}
EndPcs   == {"exited", "failed", "killed"}

Alive == main \notin EndPcs

Init ==
  /\ main = "boot"
  /\ next = 1
  /\ array = "null"
  /\ arrived = {}
  /\ pc = [t \in Threads |-> "none"]
  /\ handlerSet = FALSE
  /\ stopTask = FALSE

(* pthread_barrier_init(&m_barrier, NULL, thread_num + 1).                 *)
BarrierForThreads == ThreadNum     \* mutant: main is not counted
BarrierCount == ThreadNum + 1

Passed == Cardinality(arrived) = BarrierCount

-----------------------------------------------------------------------------
(* main, up to pause().                                                    *)

InstallHandlers ==
  /\ main = "boot"
  /\ main' = "init"
  /\ UNCHANGED <<next, array, arrived, pc, handlerSet, stopTask>>

(* The configuration, the handler, epoll, pipe or listening socket cannot   *)
(* be had, or the first half of task_base::open fails: exit(-1).            *)
InitFails ==
  /\ main = "init"
  /\ main' = "failed"
  /\ UNCHANGED <<next, array, arrived, pc, handlerSet, stopTask>>

AllocateThreads ==
  /\ main = "init" /\ ThreadNum # 0
  /\ array' = "live"
  /\ next' = 1
  /\ main' = "create"
  /\ UNCHANGED <<arrived, pc, handlerSet, stopTask>>

(* Mutant: i <= thread_num in the loop of open. *)
CreateOneMore ==
  /\ main = "create" /\ next <= ThreadNum + 1
  /\ pc' = [t \in Threads |-> IF t = next THEN "created" ELSE pc[t]]
  /\ next' = next + 1
  /\ UNCHANGED <<main, array, arrived, handlerSet, stopTask>>

CreateThread ==
  /\ main = "create" /\ next <= ThreadNum
  /\ pc' = [pc EXCEPT ![next] = "created"]
  /\ next' = next + 1
  /\ UNCHANGED <<main, array, arrived, handlerSet, stopTask>>

(* Mutant: the number of threads created is not compared with thread_num.  *)
CreateFailsUnnoticed ==
  /\ main = "create" /\ next <= ThreadNum
  /\ main' = "register"
  /\ UNCHANGED <<next, array, arrived, pc, handlerSet, stopTask>>

(* pthread_create fails: open returns -1 and main calls exit(-1), without   *)
(* destroying the server, whose threads are waiting at the barrier.         *)
CreateFails ==
  /\ main = "create" /\ next <= ThreadNum
  /\ main' = "failed"
  /\ UNCHANGED <<next, array, arrived, pc, handlerSet, stopTask>>

OpenReturns ==
  /\ main = "create" /\ next = ThreadNum + 1
  /\ main' = "register"
  /\ UNCHANGED <<next, array, arrived, pc, handlerSet, stopTask>>

RegisterHandler ==
  /\ main = "register"
  /\ handlerSet' = TRUE
  /\ main' = "activate"
  /\ UNCHANGED <<next, array, arrived, pc, stopTask>>

Activate ==
  /\ main = "activate"
  /\ arrived' = arrived \union {Main}
  /\ main' = "barrier"
  /\ UNCHANGED <<next, array, pc, handlerSet, stopTask>>

EnterPause ==
  /\ main = "barrier" /\ Passed
  /\ main' = "pause"
  /\ UNCHANGED <<next, array, arrived, pc, handlerSet, stopTask>>

(* SIGTERM or SIGINT to the process; Linux delivers it to the main thread.  *)
(* Before signal() it kills; in pause() it wakes main; at any other moment  *)
(* its empty handler runs, and the signal is gone.                          *)
TermSignal ==
  /\ Alive
  /\ main' = IF main = "boot" THEN "killed"
             ELSE IF main = "pause" THEN "stop" ELSE main
  /\ UNCHANGED <<next, array, arrived, pc, handlerSet, stopTask>>

-----------------------------------------------------------------------------
(* main, after pause(): stop, join and the destructors.                    *)

(* Mutant: the flag is not set. *)
StopSilently ==
  /\ main = "stop"
  /\ next' = 1
  /\ main' = "kill"
  /\ UNCHANGED <<array, arrived, pc, handlerSet, stopTask>>

Stop ==
  /\ main = "stop"
  /\ stopTask' = TRUE
  /\ next' = 1
  /\ main' = "kill"
  /\ UNCHANGED <<array, arrived, pc, handlerSet>>

(* Mutant: the loop of join stops one thread early. *)
KillAllButLast ==
  /\ main = "kill"
  /\ main' = IF next < ThreadNum THEN "wait" ELSE "free"
  /\ UNCHANGED <<next, array, arrived, pc, handlerSet, stopTask>>

(* pthread_kill: the handler of the thread does nothing.                   *)
KillThread ==
  /\ main = "kill"
  /\ main' = IF next <= ThreadNum THEN "wait" ELSE "free"
  /\ UNCHANGED <<next, array, arrived, pc, handlerSet, stopTask>>

JoinThread ==
  /\ main = "wait" /\ pc[next] = "ended"
  /\ next' = next + 1
  /\ main' = "kill"
  /\ UNCHANGED <<array, arrived, pc, handlerSet, stopTask>>

(* Mutant: no m_thread = NULL after free. *)
FreeOnly ==
  /\ main = "free"
  /\ array' = "freed"
  /\ main' = "delete"
  /\ UNCHANGED <<next, arrived, pc, handlerSet, stopTask>>

FreeThreads ==
  /\ main = "free"
  /\ array' = "null"
  /\ main' = "delete"
  /\ UNCHANGED <<next, arrived, pc, handlerSet, stopTask>>

(* ~task_base calls join() once more, which does nothing without m_thread.  *)
Delete ==
  /\ main = "delete"
  /\ IF array = "null"
     THEN main' = "exited" /\ UNCHANGED next
     ELSE main' = "kill" /\ next' = 1
  /\ UNCHANGED <<array, arrived, pc, handlerSet, stopTask>>

-----------------------------------------------------------------------------
(* run_svc.                                                                *)

Arrive(t) ==
  /\ Alive /\ pc[t] = "created"
  /\ arrived' = arrived \union {t}
  /\ pc' = [pc EXCEPT ![t] = "barrier"]
  /\ UNCHANGED <<main, next, array, handlerSet, stopTask>>

EnterSvc(t) ==
  /\ Alive /\ pc[t] = "barrier" /\ Passed
  /\ pc' = [pc EXCEPT ![t] = "svc"]
  /\ UNCHANGED <<main, next, array, arrived, handlerSet, stopTask>>

LeaveSvc(t) ==
  /\ Alive /\ pc[t] = "svc" /\ stopTask
  /\ pc' = [pc EXCEPT ![t] = "ended"]
  /\ UNCHANGED <<main, next, array, arrived, handlerSet, stopTask>>

-----------------------------------------------------------------------------
MainStep ==
  \/ InstallHandlers \/ InitFails \/ AllocateThreads
  \/ CreateThread \/ CreateFails \/ OpenReturns
  \/ RegisterHandler \/ Activate \/ EnterPause
  \/ Stop \/ KillThread \/ JoinThread \/ FreeThreads \/ Delete

RunSvc(t) == Arrive(t) \/ EnterSvc(t) \/ LeaveSvc(t)

Ended == ~Alive /\ UNCHANGED vars

Next ==
  \/ MainStep \/ TermSignal
  \/ \E t \in Threads : RunSvc(t)
  \/ Ended

(* The scheduler runs main and every thread; signals need not come.        *)
Fairness == WF_vars(MainStep) /\ \A t \in Threads : WF_vars(RunSvc(t))

Spec == Init /\ [][Next]_vars

FairSpec == Spec /\ Fairness

-----------------------------------------------------------------------------
(* Properties.                                                             *)

(* Every variable has its type. *)
TypeOK ==
  /\ main \in StartPcs \union {"pause"} \union StopPcs \union EndPcs
  /\ next \in 1 .. ThreadNum + 1
  /\ array \in {"null", "live", "freed"}
  /\ arrived \subseteq Threads \union {Main}
  /\ pc \in [Threads -> {"none", "created", "barrier", "svc", "ended"}]
  /\ handlerSet \in BOOLEAN /\ stopTask \in BOOLEAN

(* No thread is in svc before register_handler has run: open() starts the   *)
(* threads earlier, and only the barrier keeps recv_request from calling    *)
(* handle_worker through an unset m_handler.                                *)
HandlerBeforeSvc ==
  \A t \in Threads : pc[t] \in {"svc", "ended"} => handlerSet

(* While a thread lives, m_thread is there to join it by, and join(), which *)
(* stop() and then the destructor call, never uses a freed m_thread.        *)
ThreadsOwned ==
  /\ (\E t \in Threads : pc[t] \in {"created", "barrier", "svc"}) => array = "live"
  /\ main \in {"kill", "wait"} => array = "live"

(* The abstract life this process implements. *)
Phase ==
  IF main \in {"failed", "killed"} THEN "failed"
  ELSE IF main = "exited" THEN "ended"
  ELSE IF stopTask THEN "closing"
  ELSE IF Main \in arrived THEN "open" ELSE "starting"

Life == INSTANCE ServiceLife WITH
          phase <- Phase,
          serving <- {t \in Threads : pc[t] = "svc"},
          left <- {t \in Threads : pc[t] = "ended"}

(* The process keeps the promise of ServiceLife: nobody serves before main  *)
(* activates, a failed start serves nobody, and the server is deleted only  *)
(* when every thread has returned from svc.                                 *)
KeepsPromise == Life!Spec

(* A start comes to an end: main reaches pause() or the process exits; it   *)
(* never waits at the barrier for a thread that was not created.            *)
StartSettles == main = "boot" ~> main \in {"pause"} \union EndPcs

(* A signal that wakes main from pause() ends the process, although threads *)
(* may still be on their way from the barrier into svc.                     *)
SignalStops == main = "stop" ~> main = "exited"
=============================================================================

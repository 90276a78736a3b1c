--------------------------- MODULE TaskBaseProofs ---------------------------
(***************************************************************************)
(* Proofs about TaskBase, for every number of threads: what the barrier    *)
(* orders, what join may touch, and that the process implements            *)
(* ServiceLife.                                                            *)
(***************************************************************************)
EXTENDS TaskBase, FiniteSetTheorems, TLAPS

ServicePcs == {"barrier", "pause"} \union StopPcs \union {"exited"}

(* Who is at the barrier, and that main gets there after register_handler. *)
BarrierInv ==
  /\ \A t \in Threads : t \in arrived <=> pc[t] \in {"barrier", "svc", "ended"}
  /\ Main \in arrived <=> main \in ServicePcs
  /\ main \in {"activate"} \union ServicePcs => handlerSet
  /\ \A t \in Threads : pc[t] \in {"svc", "ended"} => Main \in arrived

(* How far open() has come. *)
OpenInv ==
  /\ main \in {"boot", "init"} => \A t \in Threads : pc[t] = "none"
  /\ main = "create" => \A t \in Threads : t >= next => pc[t] = "none"

(* m_thread is live from its allocation to the end of join's loop.         *)
ArrayInv ==
  /\ main \in {"create", "register", "activate", "barrier", "pause", "stop",
               "kill", "wait", "free"} => array = "live"
  /\ main \in {"delete", "exited"} => array = "null"
  /\ array # "live" => \A t \in Threads : pc[t] \in {"none", "ended"}

(* How far join has come.                                                  *)
JoinInv ==
  /\ stopTask <=> main \in (StopPcs \ {"stop"}) \union {"exited"}
  /\ main \in {"kill", "wait"} =>
       \A t \in Threads : t < next => pc[t] = "ended"
  /\ main = "wait" => next <= ThreadNum
  /\ main \in {"free", "delete", "exited"} =>
       \A t \in Threads : pc[t] = "ended"

TaskInv == TypeOK /\ BarrierInv /\ OpenInv /\ ArrayInv /\ JoinInv

-----------------------------------------------------------------------------
(* A full barrier: pthread_barrier_init counted the threads and main, so    *)
(* when all are there main is among them.                                   *)
LEMMA FullBarrier ==
  ASSUME arrived \subseteq Threads \union {Main}, Passed
  PROVE  Main \in arrived
<1>1. IsFiniteSet(Threads) /\ Cardinality(Threads) = ThreadNum
  BY TaskAssumption, FS_Interval DEF Threads
<1>2. SUFFICES ASSUME Main \notin arrived PROVE FALSE
  OBVIOUS
<1>3. arrived \subseteq Threads
  BY <1>2
<1>4. Cardinality(arrived) <= ThreadNum
  BY <1>1, <1>3, FS_Subset
<1>5. Cardinality(arrived) = ThreadNum + 1
  BY DEF Passed, BarrierCount
<1> QED
  BY <1>4, <1>5, TaskAssumption

LEMMA InitHolds == Init => TaskInv
<1> SUFFICES ASSUME Init PROVE TaskInv
  OBVIOUS
<1> USE DEF Init, StartPcs, StopPcs, EndPcs, ServicePcs
<1>1. \A t \in Threads : pc[t] = "none"
  OBVIOUS
<1>2. TypeOK
  <2>1. next \in 1 .. ThreadNum + 1
    BY TaskAssumption
  <2>2. pc \in [Threads -> {"none", "created", "barrier", "svc", "ended"}]
    OBVIOUS
  <2> QED
    BY <2>1, <2>2 DEF TypeOK
<1>3. BarrierInv
  BY <1>1 DEF BarrierInv
<1>4. OpenInv /\ ArrayInv /\ JoinInv
  BY <1>1 DEF OpenInv, ArrayInv, JoinInv
<1> QED
  BY <1>2, <1>3, <1>4 DEF TaskInv

LEMMA Inductive == TaskInv /\ [Next]_vars => TaskInv'
<1> SUFFICES ASSUME TaskInv, [Next]_vars PROVE TaskInv'
  OBVIOUS
<1> USE TaskAssumption
<1> USE DEF TaskInv, TypeOK, BarrierInv, OpenInv, ArrayInv, JoinInv,
            StartPcs, StopPcs, EndPcs, ServicePcs, Alive
<1>1. CASE InstallHandlers  BY <1>1 DEF InstallHandlers
<1>2. CASE InitFails        BY <1>2 DEF InitFails
<1>3. CASE AllocateThreads  BY <1>3 DEF AllocateThreads
<1>4. CASE CreateThread
  <2> USE DEF CreateThread
  <2>1. next \in Threads /\ next + 1 \in 1 .. ThreadNum + 1
    BY <1>4 DEF Threads
  <2>2. pc'[next] = "created" /\ \A t \in Threads \ {next} : pc'[t] = pc[t]
    BY <1>4, <2>1
  <2>3. next \notin arrived
    BY <1>4, <2>1
  <2>4. TypeOK'
    BY <1>4, <2>1
  <2>5. BarrierInv'
    BY <1>4, <2>2, <2>3
  <2>6. OpenInv'
    BY <1>4, <2>1, <2>2 DEF Threads
  <2> QED
    BY <1>4, <2>2, <2>4, <2>5, <2>6
<1>5. CASE CreateFails      BY <1>5 DEF CreateFails
<1>6. CASE OpenReturns      BY <1>6 DEF OpenReturns
<1>7. CASE RegisterHandler  BY <1>7 DEF RegisterHandler
<1>8. CASE Activate         BY <1>8 DEF Activate
<1>9. CASE EnterPause       BY <1>9 DEF EnterPause
<1>10. CASE TermSignal      BY <1>10 DEF TermSignal
<1>11. CASE Stop            BY <1>11 DEF Stop, Threads
<1>12. CASE KillThread
  <2>1. CASE next <= ThreadNum
    BY <1>12, <2>1 DEF KillThread
  <2>2. CASE ~(next <= ThreadNum)
    <3>1. \A t \in Threads : t < next
      BY <2>2 DEF Threads
    <3> QED
      BY <1>12, <2>2, <3>1 DEF KillThread
  <2> QED
    BY <2>1, <2>2
<1>13. CASE JoinThread      BY <1>13 DEF JoinThread, Threads
<1>14. CASE FreeThreads     BY <1>14 DEF FreeThreads
<1>15. CASE Delete          BY <1>15 DEF Delete
<1>16. ASSUME NEW t \in Threads, Arrive(t) PROVE TaskInv'
  BY <1>16 DEF Arrive
<1>17. ASSUME NEW t \in Threads, EnterSvc(t) PROVE TaskInv'
  <2>1. Main \in arrived
    BY <1>17, FullBarrier DEF EnterSvc
  <2> QED
    BY <1>17, <2>1 DEF EnterSvc
<1>18. ASSUME NEW t \in Threads, LeaveSvc(t) PROVE TaskInv'
  BY <1>18 DEF LeaveSvc
<1>19. CASE Ended \/ UNCHANGED vars
  BY <1>19 DEF Ended, vars
<1> QED
  BY <1>1, <1>2, <1>3, <1>4, <1>5, <1>6, <1>7, <1>8, <1>9, <1>10, <1>11, <1>12,
     <1>13, <1>14, <1>15, <1>16, <1>17, <1>18, <1>19
  DEF Next, MainStep, RunSvc

(* The inductive invariant of the process, from boot to exit.              *)
THEOREM TaskInvariant == Spec => []TaskInv
<1> QED
  BY InitHolds, Inductive, PTL DEF Spec

(* Every variable keeps its type; next stays within the thread array.      *)
THEOREM TaskTypes == Spec => []TypeOK
<1>1. TaskInv => TypeOK
  BY DEF TaskInv
<1> QED
  BY <1>1, TaskInvariant, PTL

(* svc is entered only after register_handler, for any number of threads.  *)
THEOREM HandlerFirst == Spec => []HandlerBeforeSvc
<1>1. TaskInv => HandlerBeforeSvc
  BY DEF TaskInv, BarrierInv, HandlerBeforeSvc
<1> QED
  BY <1>1, TaskInvariant, PTL

(* m_thread outlives the threads it names, and join never uses it freed.   *)
THEOREM ThreadsAreOwned == Spec => []ThreadsOwned
<1>1. TaskInv => ThreadsOwned
  BY DEF TaskInv, ArrayInv, ThreadsOwned
<1> QED
  BY <1>1, TaskInvariant, PTL

-----------------------------------------------------------------------------
(* Implementation of ServiceLife.                                          *)

LEMMA LifeInit == Init => Life!Init
BY TaskAssumption DEF Init, Life!Init, Phase

LEMMA LifeStep == TaskInv /\ TaskInv' /\ [Next]_vars => [Life!Next]_(Life!vars)
<1> SUFFICES ASSUME TaskInv, TaskInv', [Next]_vars
             PROVE  Life!Next \/ UNCHANGED Life!vars
  BY DEF Life!vars
<1> USE TaskAssumption
<1> USE DEF TaskInv, TypeOK, BarrierInv, OpenInv, ArrayInv, JoinInv,
            StartPcs, StopPcs, EndPcs, ServicePcs, Alive, Phase
<1>a. ASSUME UNCHANGED pc, Phase' = Phase
      PROVE  UNCHANGED Life!vars
  BY <1>a DEF Life!vars
<1>b. ASSUME UNCHANGED <<pc, stopTask>>, Main \notin arrived, main' = "failed" \/ main' = "killed",
             Alive
      PROVE  Life!Fail
  <2>1. {t \in Threads : pc[t] = "svc"} = {}
    BY <1>b
  <2>2. Phase = "starting" /\ Phase' = "failed"
    BY <1>b
  <2> QED
    BY <1>b, <2>1, <2>2 DEF Life!Fail
<1>1. CASE InstallHandlers  BY <1>1, <1>a DEF InstallHandlers
<1>2. CASE InitFails        BY <1>2, <1>b DEF InitFails, Life!Next
<1>3. CASE AllocateThreads  BY <1>3, <1>a DEF AllocateThreads
<1>4. CASE CreateThread
  <2>1. Phase' = Phase
    BY <1>4 DEF CreateThread
  <2>2. {t \in Threads : pc'[t] = "svc"} = {t \in Threads : pc[t] = "svc"}
    BY <1>4 DEF CreateThread
  <2>3. {t \in Threads : pc'[t] = "ended"} = {t \in Threads : pc[t] = "ended"}
    BY <1>4 DEF CreateThread
  <2> QED
    BY <2>1, <2>2, <2>3 DEF Life!vars
<1>5. CASE CreateFails      BY <1>5, <1>b DEF CreateFails, Life!Next
<1>6. CASE OpenReturns      BY <1>6, <1>a DEF OpenReturns
<1>7. CASE RegisterHandler  BY <1>7, <1>a DEF RegisterHandler
<1>8. CASE Activate
  <2>1. Life!Open
    BY <1>8 DEF Activate, Life!Open
  <2> QED
    BY <2>1 DEF Life!Next
<1>9. CASE EnterPause       BY <1>9, <1>a DEF EnterPause
<1>10. CASE TermSignal
  <2>1. CASE main = "boot"
    BY <1>10, <2>1, <1>b DEF TermSignal, Life!Next
  <2>2. CASE main # "boot"
    BY <1>10, <2>2, <1>a DEF TermSignal
  <2> QED
    BY <2>1, <2>2
<1>11. CASE Stop
  <2>1. Life!Close
    BY <1>11 DEF Stop, Life!Close
  <2> QED
    BY <2>1 DEF Life!Next
<1>12. CASE KillThread      BY <1>12, <1>a DEF KillThread
<1>13. CASE JoinThread      BY <1>13, <1>a DEF JoinThread
<1>14. CASE FreeThreads     BY <1>14, <1>a DEF FreeThreads
<1>15. CASE Delete
  <2>1. {t \in Threads : pc[t] = "ended"} = Threads
    BY <1>15 DEF Delete
  <2>2. Life!End
    BY <1>15, <2>1 DEF Delete, Life!End
  <2> QED
    BY <2>2 DEF Life!Next
<1>16. ASSUME NEW t \in Threads, Arrive(t) PROVE UNCHANGED Life!vars
  <2>1. Phase' = Phase
    BY <1>16 DEF Arrive
  <2>2. {u \in Threads : pc'[u] = "svc"} = {u \in Threads : pc[u] = "svc"}
    BY <1>16 DEF Arrive
  <2>3. {u \in Threads : pc'[u] = "ended"} = {u \in Threads : pc[u] = "ended"}
    BY <1>16 DEF Arrive
  <2> QED
    BY <2>1, <2>2, <2>3 DEF Life!vars
<1>17. ASSUME NEW t \in Threads, EnterSvc(t) PROVE Life!Enter(t)
  <2>1. Main \in arrived
    BY <1>17, FullBarrier DEF EnterSvc
  <2>2. Phase \in {"open", "closing"} /\ Phase' = Phase
    BY <1>17, <2>1 DEF EnterSvc
  <2>3. {u \in Threads : pc'[u] = "svc"} = {u \in Threads : pc[u] = "svc"} \union {t}
    BY <1>17 DEF EnterSvc
  <2>4. {u \in Threads : pc'[u] = "ended"} = {u \in Threads : pc[u] = "ended"}
    BY <1>17 DEF EnterSvc
  <2>5. pc[t] = "barrier"
    BY <1>17 DEF EnterSvc
  <2> QED
    BY <2>2, <2>3, <2>4, <2>5 DEF Life!Enter
<1>18. ASSUME NEW t \in Threads, LeaveSvc(t) PROVE Life!Leave(t)
  <2>1. Phase = "closing" /\ Phase' = Phase
    BY <1>18 DEF LeaveSvc
  <2>2. {u \in Threads : pc'[u] = "svc"} = {u \in Threads : pc[u] = "svc"} \ {t}
    BY <1>18 DEF LeaveSvc
  <2>3. {u \in Threads : pc'[u] = "ended"} = {u \in Threads : pc[u] = "ended"} \union {t}
    BY <1>18 DEF LeaveSvc
  <2>4. pc[t] = "svc"
    BY <1>18 DEF LeaveSvc
  <2> QED
    BY <2>1, <2>2, <2>3, <2>4 DEF Life!Leave
<1>19. CASE Ended \/ UNCHANGED vars
  BY <1>19, <1>a DEF Ended, vars
<1> QED
  BY <1>1, <1>2, <1>3, <1>4, <1>5, <1>6, <1>7, <1>8, <1>9, <1>10, <1>11, <1>12,
     <1>13, <1>14, <1>15, <1>16, <1>17, <1>18, <1>19
  DEF Next, MainStep, RunSvc, Life!Next

(* Every step of the process is a step of ServiceLife or leaves it alone:   *)
(* the service keeps its promise for every number of threads.               *)
THEOREM PromiseKept == Spec => KeepsPromise
<1> QED
  BY LifeInit, LifeStep, TaskInvariant, PTL DEF Spec, Life!Spec, KeepsPromise
=============================================================================

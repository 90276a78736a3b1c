-------------------------- MODULE HttpServerProofs --------------------------
(***************************************************************************)
(* Proofs about HttpServer, for every number of threads, descriptors,      *)
(* connections and clients, and for every traffic.                         *)
(***************************************************************************)
EXTENDS HttpServer, TLAPS, FiniteSetTheorems, SequenceTheorems

(* A thread that has accepted a descriptor or been handed one knows it: its *)
(* local fd is a connection's, not the dead value.                          *)
WorkPcs == BusyPcs \union {"count", "insert", "register"}

FdKnown == \A t \in Threads : pc[t] \in WorkPcs => fd[t] \in Fds

TypeInv == TypeOK /\ FdKnown

-----------------------------------------------------------------------------
(* Typing of what a read takes from a connection.                          *)
LEMMA TakeRequestType ==
  ASSUME TypeOK, NEW f \in Fds, NEW r \in Traffic, TakeRequest(f, r)
  PROVE  inbox' \in [Fds -> Seq(Traffic)] /\ readBuf' \in [Fds -> Seq(Traffic)]
<1>1. CASE /\ readBuf[f] # <<>>
           /\ readBuf' = [readBuf EXCEPT ![f] = Tail(@)]
           /\ UNCHANGED inbox
  <2>1. readBuf[f] \in Seq(Traffic)
    BY DEF TypeOK
  <2>2. Tail(readBuf[f]) \in Seq(Traffic)
    BY <1>1, <2>1, HeadTailProperties
  <2> QED
    BY <1>1, <2>2 DEF TypeOK
<1>2. ASSUME inbox[f] # <<>>, NEW k \in 1 .. Len(inbox[f]),
             readBuf' = [readBuf EXCEPT ![f] = SubSeq(inbox[f], 2, k)],
             inbox' = [inbox EXCEPT ![f] = SubSeq(@, k + 1, Len(@))]
      PROVE  inbox' \in [Fds -> Seq(Traffic)] /\ readBuf' \in [Fds -> Seq(Traffic)]
  <2>1. inbox[f] \in Seq(Traffic) /\ Len(inbox[f]) \in Nat
    BY DEF TypeOK
  <2>2. \A i \in 1 .. Len(inbox[f]) : inbox[f][i] \in Traffic
    BY <2>1
  <2>3. SubSeq(inbox[f], 2, k) \in Seq(Traffic)
    <3>1. \A i \in 2 .. k : inbox[f][i] \in Traffic
      BY <2>1, <2>2
    <3> QED
      BY <2>1, <3>1, SubSeqProperties
  <2>4. SubSeq(inbox[f], k + 1, Len(inbox[f])) \in Seq(Traffic)
    <3>1. \A i \in k + 1 .. Len(inbox[f]) : inbox[f][i] \in Traffic
      BY <2>1, <2>2
    <3>2. k + 1 \in Int /\ Len(inbox[f]) \in Int
      BY <2>1
    <3> QED
      BY <3>1, <3>2, SubSeqProperties
  <2> QED
    BY <1>2, <2>3, <2>4 DEF TypeOK
<1> QED
  BY <1>1, <1>2 DEF TakeRequest

(* Every step of the event loop keeps the types. *)
LEMMA LoopStepType ==
  ASSUME ServerAssumption, TypeInv, NEW t \in Threads, LoopStep(t)
  PROVE  TypeInv'
<1> USE DEF TypeInv, FdKnown, TypeOK, WorkPcs, BusyPcs, HoldPcs, ErasePcs,
            EpollPcs, Pcs, kernelVars, connVars, threadVars, mainVars, At,
            Running, Goto, NextTurn
<1>1. CASE SvcTop(t)
  BY <1>1 DEF SvcTop
<1>2. CASE LockEpoll(t)
  <2>1. /\ epollOwner' \in Threads \union {NoThread}
        /\ UNCHANGED <<kernelVars, connVars, mainVars, fd, keep, dangling, batch,
                       stopTask, fault>>
    BY <1>2 DEF LockEpoll
  <2>2. PICK l \in {"done", "wait", "pop"} : pc' = [pc EXCEPT ![t] = l]
    BY <1>2, Zenon DEF LockEpoll
  <2>3. pc' \in [Threads -> Pcs]
    BY <2>2
  <2>4. FdKnown'
    BY <2>1, <2>2
  <2> QED
    BY <2>1, <2>3, <2>4
<1>3. CASE EpollWait(t)
  BY <1>3 DEF EpollWait
<1>4. CASE PopListen(t)
  BY <1>4 DEF PopListen
<1>5. CASE PopPipe(t)
  BY <1>5 DEF PopPipe
<1>6. ASSUME NEW f \in Fds, PopConnection(t, f)
      PROVE  TypeInv'
  BY <1>6 DEF PopConnection, DelInput
<1>7. CASE AcceptOne(t)
  BY <1>7 DEF AcceptOne, FreeFds
<1>8. CASE AcceptEnd(t)
  BY <1>8 DEF AcceptEnd
<1>9. CASE RefuseConnection(t)
  BY <1>9 DEF RefuseConnection, CloseFd, DelInput
<1>10. CASE CountConnection(t)
  BY <1>10 DEF CountConnection
<1>11. CASE InsertHandle(t)
  <2>1. fd[t] \in Fds
    BY <1>11 DEF InsertHandle
  <2>2. CASE fd[t] \in fdSet
    BY <1>11, <2>2 DEF InsertHandle
  <2>3. CASE fd[t] \notin fdSet
    <3>1. readBuf' \in [Fds -> Seq(Traffic)] /\ ref' \in [Fds -> Int]
      <4>1. /\ ref' = [ref EXCEPT ![fd[t]] = 0]
            /\ readBuf' = [readBuf EXCEPT ![fd[t]] = <<>>]
        BY <1>11, <2>3 DEF InsertHandle
      <4> HIDE DEF TypeInv, FdKnown
      <4>2. <<>> \in Seq(Traffic)
        OBVIOUS
      <4>3. ref \in [Fds -> Int] /\ readBuf \in [Fds -> Seq(Traffic)]
        BY DEF TypeInv
      <4> QED
        BY <2>1, <4>1, <4>2, <4>3
    <3>2. fdSet' = fdSet \union {fd[t]} /\ Goto(t, "register")
      BY <1>11, <2>3 DEF InsertHandle
    <3> QED
      BY <1>11, <2>1, <3>1, <3>2 DEF InsertHandle
  <2> QED
    BY <2>2, <2>3
<1>12. CASE RegisterConnection(t)
  BY <1>12 DEF RegisterConnection, AddInput
<1> QED
  BY <1>1, <1>2, <1>3, <1>4, <1>5, <1>6, <1>7, <1>8, <1>9, <1>10, <1>11,
     <1>12 DEF LoopStep

(* The thread leaves release_handle for the top of the loop or, with its    *)
(* descriptor, for add_input_fd.                                            *)
LEMMA AfterReleaseType ==
  ASSUME TypeInv, NEW t \in Threads, pc[t] \in BusyPcs, AfterRelease(t)
  PROVE  /\ pc' \in [Threads -> Pcs]
         /\ fd' \in [Threads -> Fds \union {NoFd}]
         /\ FdKnown'
<1> USE DEF TypeInv, TypeOK, FdKnown, WorkPcs, BusyPcs, HoldPcs, ErasePcs,
            EpollPcs, Pcs, AfterRelease, Goto
<1>1. CASE pc[t] \in {"finish", "eraseFinish"}
  BY <1>1
<1>2. CASE pc[t] \notin {"finish", "eraseFinish"}
  <2>1. pc' = [pc EXCEPT ![t] = "top"] /\ fd' = [fd EXCEPT ![t] = NoFd]
    BY <1>2
  <2> QED
    BY <2>1
<1> QED
  BY <1>1, <1>2

(* Every step of a request keeps the types. *)
LEMMA RequestStepType ==
  ASSUME ServerAssumption, TypeInv, NEW t \in Threads, RequestStep(t)
  PROVE  TypeInv'
<1> USE DEF TypeInv, FdKnown, TypeOK, WorkPcs, BusyPcs, HoldPcs, ErasePcs,
            EpollPcs, Pcs, kernelVars, connVars, threadVars, mainVars, At,
            Running, Goto, NextTurn, Closing, Die
<1>1. CASE GetHandle(t)
  BY <1>1 DEF GetHandle
<1>2. CASE AssertHandle(t)
  BY <1>2 DEF AssertHandle
<1>3. ASSUME NEW r \in Traffic, ReadRequest(t, r)
      PROVE  TypeInv'
  <2>1. fd[t] \in Fds
    BY <1>3 DEF ReadRequest
  <2>2. inbox' \in [Fds -> Seq(Traffic)] /\ readBuf' \in [Fds -> Seq(Traffic)]
    BY <1>3, <2>1, TakeRequestType DEF ReadRequest
  <2>3. /\ Goto(t, "send") \/ Goto(t, "drop")
        /\ \E b \in BOOLEAN : keep' = [keep EXCEPT ![t] = b]
    BY <1>3 DEF ReadRequest, ServerAssumption, Request
  <2> QED
    BY <1>3, <2>1, <2>2, <2>3 DEF ReadRequest
<1>4. ASSUME NEW r \in Traffic, ReadEmptyRequest(t, r)
      PROVE  TypeInv'
  BY <1>4 DEF ReadEmptyRequest
<1>5. CASE ReadFails(t)
  BY <1>5 DEF ReadFails
<1>6. ASSUME NEW u \in Threads, RaceOnReadBuf(t, u)
      PROVE  TypeInv'
  BY <1>6 DEF RaceOnReadBuf
<1>7. CASE UseFreedHandle(t)
  BY <1>7 DEF UseFreedHandle
<1>8. CASE SendResult(t)
  <2>1. PICK l \in {"spin", "finish"} : Goto(t, l)
    BY <1>8 DEF SendResult
  <2> QED
    BY <1>8, <2>1 DEF SendResult
<1>9. CASE SpinEnds(t)
  BY <1>9 DEF SpinEnds
<1>10. CASE ReleaseKeep(t)
  <2>1. pc[t] \in BusyPcs /\ AfterRelease(t)
    BY <1>10 DEF ReleaseKeep
  <2>2. /\ pc' \in [Threads -> Pcs] /\ fd' \in [Threads -> Fds \union {NoFd}]
        /\ FdKnown'
    BY <2>1, AfterReleaseType
  <2>3. ref' \in [Fds -> Int] /\ keep' \in [Threads -> BOOLEAN]
    BY <1>10 DEF ReleaseKeep
  <2> QED
    BY <1>10, <2>2, <2>3 DEF ReleaseKeep
<1>11. CASE ReleaseLast(t)
  BY <1>11 DEF ReleaseLast, CloseFd, DelInput
<1>12. CASE ReleaseShared(t)
  <2>1. pc[t] \in BusyPcs /\ AfterRelease(t)
    BY <1>12 DEF ReleaseShared
  <2>2. /\ pc' \in [Threads -> Pcs] /\ fd' \in [Threads -> Fds \union {NoFd}]
        /\ FdKnown'
    BY <2>1, AfterReleaseType
  <2> QED
    BY <1>12, <2>2 DEF ReleaseShared
<1>13. CASE EraseHandle(t)
  <2>1. pc[t] \in BusyPcs /\ AfterRelease(t)
    BY <1>13 DEF EraseHandle
  <2>2. /\ pc' \in [Threads -> Pcs] /\ fd' \in [Threads -> Fds \union {NoFd}]
        /\ FdKnown'
    BY <2>1, AfterReleaseType
  <2> QED
    BY <1>13, <2>2 DEF EraseHandle
<1>14. CASE ReAdd(t)
  BY <1>14 DEF ReAdd, AddInput
<1> QED
  BY <1>1, <1>2, <1>3, <1>4, <1>5, <1>6, <1>7, <1>8, <1>9, <1>10, <1>11,
     <1>12, <1>13, <1>14 DEF RequestStep

(* What main, the clients and a signal do keeps the types. *)
LEMMA OtherStepType ==
  ASSUME ServerAssumption, TypeInv,
         ClientStep \/ MainStep \/ \E t \in Threads : Signal(t)
  PROVE  TypeInv'
<1> USE DEF TypeInv, FdKnown, TypeOK, WorkPcs, BusyPcs, HoldPcs, ErasePcs,
            EpollPcs, Pcs, kernelVars, connVars, threadVars, mainVars, At,
            Running, Goto
<1>1. CASE Connect
  BY <1>1 DEF Connect, ServerAssumption
<1>2. ASSUME NEW f \in Fds, NEW r \in Traffic, ClientSend(f, r)
      PROVE  TypeInv'
  <2>1. inbox' \in [Fds -> Seq(Traffic)]
    BY <1>2 DEF ClientSend
  <2> QED
    BY <1>2, <2>1 DEF ClientSend, Edge
<1>3. ASSUME NEW f \in Fds, NEW how \in {"closed", "reset"}, ClientLeave(f, how)
      PROVE  TypeInv'
  BY <1>3 DEF ClientLeave, Edge
<1>4. CASE Stop
  BY <1>4 DEF Stop
<1>5. CASE WakeThreads
  BY <1>5 DEF WakeThreads
<1>6. ASSUME NEW t \in Threads, KillThread(t)
      PROVE  TypeInv'
  BY <1>6 DEF KillThread
<1>7. ASSUME NEW t \in Threads, JoinThread(t)
      PROVE  TypeInv'
  BY <1>7 DEF JoinThread
<1>8. CASE Destroy
  BY <1>8 DEF Destroy
<1>9. ASSUME NEW t \in Threads, Signal(t)
      PROVE  TypeInv'
  <2>1. CASE pc[t] = "wait"
    <3>1. pc' = [pc EXCEPT ![t] = "top"] /\ epollOwner' = NoThread
      BY <1>9, <2>1 DEF Signal
    <3>2. pc' \in [Threads -> Pcs] /\ FdKnown'
      BY <1>9, <3>1 DEF Signal
    <3> QED
      BY <1>9, <3>1, <3>2 DEF Signal
  <2>2. CASE pc[t] # "wait"
    BY <1>9, <2>2 DEF Signal
  <2> QED
    BY <2>1, <2>2
<1> QED
  BY <1>1, <1>2, <1>3, <1>4, <1>5, <1>6, <1>7, <1>8, <1>9
  DEF ClientStep, MainStep

LEMMA TypeInit == ServerAssumption /\ Init => TypeInv
<1> SUFFICES ASSUME ServerAssumption, Init PROVE TypeInv
  OBVIOUS
<1>1. inbox \in [Fds -> Seq(Traffic)] /\ readBuf \in [Fds -> Seq(Traffic)]
  BY DEF Init
<1>2. /\ peer \in [Fds -> {"up", "closed", "reset"}]
      /\ ref \in [Fds -> Int]
      /\ fd \in [Threads -> Fds \union {NoFd}]
      /\ keep \in [Threads -> BOOLEAN]
  BY DEF Init
<1>3. pc \in [Threads -> Pcs] /\ FdKnown
  BY DEF Init, FdKnown, WorkPcs, BusyPcs, HoldPcs, ErasePcs, EpollPcs, Pcs
<1> QED
  <2>1. attempts \in 0 .. MaxAttempts
    BY DEF Init, ServerAssumption
  <2>2. /\ epollOwner \in Threads \union {NoThread}
        /\ mapOwner \in Threads \union {NoThread}
        /\ joining \in Threads \union {NoThread}
    BY DEF Init
  <2>3. stopTask = FALSE /\ backlog = 0 /\ nowConnections = 0
    BY Zenon DEF Init
  <2>4. /\ open \subseteq Fds /\ epollSet \subseteq Fds /\ fdSet \subseteq Fds
        /\ dangling \subseteq Threads /\ joined \subseteq Threads
        /\ killed \subseteq Threads
        /\ ready \subseteq Fds \union {ListenFd, PipeFd}
        /\ batch \subseteq Fds \union {ListenFd, PipeFd}
    BY DEF Init
  <2>5. /\ main \in {"pause", "wake", "join", "exited"}
        /\ fault \in {"none", "assert", "nullWrite", "dataRace", "handleFreed",
                      "workerFreed"}
    BY DEF Init
  <2> QED
    <3>1. stopTask \in BOOLEAN
      BY <2>3, Zenon
    <3>2. backlog \in Nat /\ nowConnections \in Int
      BY <2>3
    <3> QED
      BY <1>1, <1>2, <1>3, <2>1, <2>2, <2>4, <2>5, <3>1, <3>2
      DEF TypeInv, TypeOK

LEMMA TypeStep == ServerAssumption /\ TypeInv /\ [Next]_vars => TypeInv'
<1> SUFFICES ASSUME ServerAssumption, TypeInv, [Next]_vars
             PROVE  TypeInv'
  OBVIOUS
<1>1. CASE UNCHANGED vars
  BY <1>1 DEF vars, kernelVars, connVars, threadVars, mainVars, TypeInv,
              FdKnown, TypeOK
<1>2. CASE Ended
  BY <1>1, <1>2 DEF Ended
<1> QED
  BY <1>1, <1>2, LoopStepType, RequestStepType, OtherStepType DEF Next

(* Every variable keeps its type, and a thread at work on a connection      *)
(* knows a real descriptor: recv_request is never entered with the pipe or  *)
(* the listening socket.                                                    *)
THEOREM TypeCorrect == Spec => []TypeOK
<1>1. Spec => []TypeInv
  BY ServerAssumption, TypeInit, TypeStep, PTL DEF Spec
<1> QED
  BY <1>1, PTL DEF TypeInv

-----------------------------------------------------------------------------
(* The critical sections.                                                  *)

LEMMA MutexLoopStep ==
  ASSUME ServerAssumption, TypeInv, MutexInv, NEW t \in Threads, LoopStep(t)
  PROVE  MutexInv'
<1>1. pc \in [Threads -> Pcs] /\ NoThread \notin Threads
  BY DEF TypeInv, TypeOK, ServerAssumption
<1> USE <1>1 DEF MutexInv, BusyPcs, HoldPcs, ErasePcs, EpollPcs, connVars, At,
                 Goto, NextTurn
<1>2. CASE SvcTop(t)
  BY <1>2 DEF SvcTop
<1>3. CASE LockEpoll(t)
  BY <1>3 DEF LockEpoll
<1>4. CASE EpollWait(t)
  BY <1>4 DEF EpollWait
<1>5. CASE PopListen(t)
  BY <1>5 DEF PopListen
<1>6. CASE PopPipe(t)
  BY <1>6 DEF PopPipe
<1>7. ASSUME NEW f \in Fds, PopConnection(t, f)
      PROVE  MutexInv'
  BY <1>7 DEF PopConnection
<1>8. CASE AcceptOne(t)
  BY <1>8 DEF AcceptOne
<1>9. CASE AcceptEnd(t)
  BY <1>9 DEF AcceptEnd
<1>10. CASE RefuseConnection(t)
  BY <1>10 DEF RefuseConnection
<1>11. CASE CountConnection(t)
  BY <1>11 DEF CountConnection
<1>12. CASE InsertHandle(t)
  BY <1>12 DEF InsertHandle
<1>13. CASE RegisterConnection(t)
  BY <1>13 DEF RegisterConnection
<1> QED
  BY <1>2, <1>3, <1>4, <1>5, <1>6, <1>7, <1>8, <1>9, <1>10, <1>11, <1>12,
     <1>13 DEF LoopStep

LEMMA MutexRequestStep ==
  ASSUME ServerAssumption, TypeInv, MutexInv, NEW t \in Threads, RequestStep(t)
  PROVE  MutexInv'
<1>1. pc \in [Threads -> Pcs] /\ NoThread \notin Threads
  BY DEF TypeInv, TypeOK, ServerAssumption
<1> USE <1>1 DEF MutexInv, BusyPcs, HoldPcs, ErasePcs, EpollPcs, connVars,
                 threadVars, At, Goto, NextTurn, Die, AfterRelease, Closing
<1>2. CASE GetHandle(t)
  BY <1>2 DEF GetHandle
<1>3. CASE AssertHandle(t)
  BY <1>3 DEF AssertHandle
<1>4. ASSUME NEW r \in Traffic, ReadRequest(t, r)
      PROVE  MutexInv'
  BY <1>4 DEF ReadRequest
<1>5. ASSUME NEW r \in Traffic, ReadEmptyRequest(t, r)
      PROVE  MutexInv'
  BY <1>5 DEF ReadEmptyRequest
<1>6. CASE ReadFails(t)
  BY <1>6 DEF ReadFails
<1>7. ASSUME NEW u \in Threads, RaceOnReadBuf(t, u)
      PROVE  MutexInv'
  BY <1>7 DEF RaceOnReadBuf
<1>8. CASE UseFreedHandle(t)
  BY <1>8 DEF UseFreedHandle
<1>9. CASE SendResult(t)
  BY <1>9 DEF SendResult
<1>10. CASE SpinEnds(t)
  BY <1>10 DEF SpinEnds
<1>11. CASE ReleaseKeep(t)
  BY <1>11 DEF ReleaseKeep
<1>12. CASE ReleaseLast(t)
  BY <1>12 DEF ReleaseLast
<1>13. CASE ReleaseShared(t)
  BY <1>13 DEF ReleaseShared
<1>14. CASE EraseHandle(t)
  BY <1>14 DEF EraseHandle
<1>15. CASE ReAdd(t)
  BY <1>15 DEF ReAdd
<1> QED
  BY <1>2, <1>3, <1>4, <1>5, <1>6, <1>7, <1>8, <1>9, <1>10, <1>11, <1>12,
     <1>13, <1>14, <1>15 DEF RequestStep

(* Clients and main leave the threads and the mutexes alone. *)
LEMMA OutsideStep ==
  ASSUME ClientStep \/ MainStep
  PROVE  UNCHANGED <<threadVars, mapOwner, ref, readBuf, nowConnections, epollOwner>>
<1> USE DEF connVars, threadVars
<1>1. CASE ClientStep
  BY <1>1 DEF ClientStep, Connect, ClientSend, ClientLeave
<1>2. CASE MainStep
  BY <1>2 DEF MainStep, Stop, WakeThreads, KillThread, JoinThread, Destroy
<1> QED
  BY <1>1, <1>2

LEMMA MutexStep ==
  ASSUME ServerAssumption, TypeInv, MutexInv, [Next]_vars
  PROVE  MutexInv'
<1>1. ASSUME NEW t \in Threads, Signal(t)
      PROVE  MutexInv'
  <2>1. pc \in [Threads -> Pcs] /\ NoThread \notin Threads
    BY DEF TypeInv, TypeOK, ServerAssumption
  <2>2. CASE pc[t] = "wait"
    BY <1>1, <2>1, <2>2 DEF Signal, MutexInv, Goto, EpollPcs, ErasePcs, connVars
  <2>3. CASE pc[t] # "wait"
    BY <1>1, <2>3 DEF Signal, MutexInv, connVars
  <2> QED
    BY <2>2, <2>3
<1>2. CASE ClientStep \/ MainStep
  BY <1>2, OutsideStep DEF MutexInv, threadVars
<1>3. CASE Ended \/ UNCHANGED vars
  BY <1>3 DEF Ended, vars, connVars, threadVars, MutexInv
<1> QED
  BY <1>1, <1>2, <1>3, MutexLoopStep, MutexRequestStep DEF Next

-----------------------------------------------------------------------------
(* The descriptor table and m_fd_set.  Between close() and erase() a        *)
(* descriptor is still in m_fd_set although the kernel may hand it out      *)
(* again: that is the window the invariant has to describe.                 *)

Erasing(f)  == \E t \in Threads : pc[t] \in ErasePcs /\ fd[t] = f
Entering(f) == \E t \in Threads : pc[t] \in {"count", "insert"} /\ fd[t] = f

(* The open descriptors, one at a time: OpenAccounted. *)
OpenExact ==
  \A f \in Fds : f \in open <=> (f \in fdSet /\ ~Erasing(f)) \/ Entering(f)

(* A thread with a live handle, or one that erases it, has it in m_fd_set. *)
HoldersMapped ==
  \A t \in Threads :
    pc[t] \in ErasePcs \/ (pc[t] \in HoldPcs /\ t \notin dangling) => fd[t] \in fdSet

(* The descriptor being accepted is in m_fd_set only while it is erased. *)
EnteringFresh ==
  \A t \in Threads :
    pc[t] \in {"count", "insert"} /\ fd[t] \in fdSet => Erasing(fd[t])

JoinedDone == \A t \in joined : pc[t] = "done"

MapInv == OpenExact /\ HoldersMapped /\ EnteringFresh /\ JoinedDone

LEMMA MapLoopStep ==
  ASSUME ServerAssumption, TypeInv, MutexInv, MapInv, NEW t \in Threads,
         LoopStep(t)
  PROVE  MapInv'
<1>1. /\ pc \in [Threads -> Pcs] /\ fd \in [Threads -> Fds \union {NoFd}]
      /\ NoThread \notin Threads /\ joined \subseteq Threads
      /\ open \subseteq Fds /\ fdSet \subseteq Fds /\ FdKnown
  BY DEF TypeInv, TypeOK, ServerAssumption
<1> USE <1>1 DEF MutexInv, BusyPcs, HoldPcs, ErasePcs, EpollPcs, connVars,
                 kernelVars, mainVars, At, Goto, NextTurn, MapInv, OpenExact,
                 HoldersMapped, EnteringFresh, JoinedDone, Erasing, Entering
<1>2. CASE SvcTop(t)
  BY <1>2 DEF SvcTop
<1>3. CASE LockEpoll(t)
  BY <1>3 DEF LockEpoll
<1>4. CASE EpollWait(t)
  BY <1>4 DEF EpollWait
<1>5. CASE PopListen(t)
  BY <1>5 DEF PopListen
<1>6. CASE PopPipe(t)
  BY <1>6 DEF PopPipe
<1>7. ASSUME NEW f \in Fds, PopConnection(t, f)
      PROVE  MapInv'
  BY <1>7 DEF PopConnection
<1>8. CASE AcceptOne(t)
  BY <1>8 DEF AcceptOne, FreeFds
<1>9. CASE AcceptEnd(t)
  BY <1>9 DEF AcceptEnd
<1>10. CASE RefuseConnection(t)
  BY <1>10 DEF RefuseConnection, CloseFd
<1>11. CASE CountConnection(t)
  BY <1>11 DEF CountConnection
<1>12. CASE InsertHandle(t)
  BY <1>12 DEF InsertHandle
<1>13. CASE RegisterConnection(t)
  BY <1>13 DEF RegisterConnection
<1> QED
  BY <1>2, <1>3, <1>4, <1>5, <1>6, <1>7, <1>8, <1>9, <1>10, <1>11, <1>12,
     <1>13 DEF LoopStep

LEMMA MapRequestStep ==
  ASSUME ServerAssumption, TypeInv, MutexInv, MapInv, NEW t \in Threads,
         RequestStep(t)
  PROVE  MapInv'
<1>1. /\ pc \in [Threads -> Pcs] /\ fd \in [Threads -> Fds \union {NoFd}]
      /\ NoThread \notin Threads /\ joined \subseteq Threads
      /\ open \subseteq Fds /\ fdSet \subseteq Fds
  BY DEF TypeInv, TypeOK, ServerAssumption
<1> USE <1>1 DEF MutexInv, BusyPcs, HoldPcs, ErasePcs, EpollPcs, connVars,
                 kernelVars, threadVars, mainVars, At, Goto, NextTurn, Die,
                 AfterRelease, Closing, MapInv, OpenExact, HoldersMapped,
                 EnteringFresh, JoinedDone, Erasing, Entering
<1>2. CASE GetHandle(t)
  BY <1>2 DEF GetHandle
<1>3. CASE AssertHandle(t)
  BY <1>3 DEF AssertHandle
<1>4. ASSUME NEW r \in Traffic, ReadRequest(t, r)
      PROVE  MapInv'
  BY <1>4 DEF ReadRequest
<1>5. ASSUME NEW r \in Traffic, ReadEmptyRequest(t, r)
      PROVE  MapInv'
  BY <1>5 DEF ReadEmptyRequest
<1>6. CASE ReadFails(t)
  BY <1>6 DEF ReadFails
<1>7. ASSUME NEW u \in Threads, RaceOnReadBuf(t, u)
      PROVE  MapInv'
  BY <1>7 DEF RaceOnReadBuf
<1>8. CASE UseFreedHandle(t)
  BY <1>8 DEF UseFreedHandle
<1>9. CASE SendResult(t)
  BY <1>9 DEF SendResult
<1>10. CASE SpinEnds(t)
  BY <1>10 DEF SpinEnds
<1>11. CASE ReleaseKeep(t)
  BY <1>11 DEF ReleaseKeep
<1>12. CASE ReleaseLast(t)
  BY <1>12 DEF ReleaseLast, CloseFd
<1>13. CASE ReleaseShared(t)
  BY <1>13 DEF ReleaseShared
<1>14. CASE EraseHandle(t)
  BY <1>14 DEF EraseHandle, Holds
<1>15. CASE ReAdd(t)
  BY <1>15 DEF ReAdd
<1> QED
  BY <1>2, <1>3, <1>4, <1>5, <1>6, <1>7, <1>8, <1>9, <1>10, <1>11, <1>12,
     <1>13, <1>14, <1>15 DEF RequestStep

LEMMA MapStep ==
  ASSUME ServerAssumption, TypeInv, MutexInv, MapInv, [Next]_vars
  PROVE  MapInv'
<1>1. /\ pc \in [Threads -> Pcs] /\ joined \subseteq Threads
      /\ open \subseteq Fds
  BY DEF TypeInv, TypeOK
<1> USE DEF MapInv, OpenExact, HoldersMapped, EnteringFresh, JoinedDone,
            Erasing, Entering
<1>2. ASSUME NEW t \in Threads, Signal(t)
      PROVE  MapInv'
  <2>1. /\ pc'[t] = pc[t] \/ (pc[t] = "wait" /\ pc'[t] = "top")
        /\ \A u \in Threads \ {t} : pc'[u] = pc[u]
    BY <1>1, <1>2 DEF Signal, Goto
  <2> QED
    BY <1>1, <1>2, <2>1 DEF Signal, kernelVars, connVars, ErasePcs, HoldPcs
<1>3. CASE ClientStep
  BY <1>3 DEF ClientStep, Connect, ClientSend, ClientLeave, connVars,
              threadVars, mainVars
<1>4. CASE Stop \/ WakeThreads \/ \E t \in Threads : KillThread(t)
  BY <1>4 DEF Stop, WakeThreads, KillThread, kernelVars, connVars, threadVars
<1>5. ASSUME NEW t \in Threads, JoinThread(t)
      PROVE  MapInv'
  BY <1>5 DEF JoinThread, kernelVars, connVars, threadVars
<1>6. CASE Destroy
  <2>1. \A t \in Threads : pc[t] = "done"
    BY <1>6 DEF Destroy
  <2> QED
    BY <1>6, <2>1 DEF Destroy, threadVars, ErasePcs, HoldPcs
<1>7. CASE Ended \/ UNCHANGED vars
  BY <1>7 DEF Ended, vars, kernelVars, connVars, threadVars, mainVars
<1> QED
  BY <1>2, <1>3, <1>4, <1>5, <1>6, <1>7, MapLoopStep, MapRequestStep
  DEF Next, MainStep

-----------------------------------------------------------------------------
(* _now_connections.                                                       *)

Inserting == {t \in Threads : pc[t] = "insert"}

(* A step that changes neither the map nor the counter, nor who is about to *)
(* insert, keeps the count.                                                 *)
LEMMA CountFrame ==
  ASSUME ConnectionsCounted, UNCHANGED <<fdSet, nowConnections>>,
         Inserting' = Inserting, main' # "exited" => main # "exited"
  PROVE  ConnectionsCounted'
BY DEF ConnectionsCounted, Inserting

(* At most one thread inserts: it holds _epoll_mutex. *)
LEMMA OneInserts ==
  ASSUME ServerAssumption, TypeInv, MutexInv, NEW t \in Threads,
         pc[t] \in EpollPcs
  PROVE  Inserting = IF pc[t] = "insert" THEN {t} ELSE {}
BY DEF MutexInv, EpollPcs, Inserting, TypeInv, TypeOK, ServerAssumption

LEMMA CountConnectionCounts ==
  ASSUME ServerAssumption, TypeInv, MutexInv, ConnectionsCounted,
         NEW t \in Threads, CountConnection(t)
  PROVE  ConnectionsCounted'
<1>1. Inserting = {} /\ Inserting' = {t}
  <2>1. Inserting = {}
    BY OneInserts DEF CountConnection, At, EpollPcs
  <2>2. pc' = [pc EXCEPT ![t] = "insert"] /\ pc \in [Threads -> Pcs]
    BY DEF CountConnection, Goto, TypeInv, TypeOK
  <2> QED
    BY <2>1, <2>2 DEF Inserting
<1>2. Cardinality(Inserting) = 0 /\ Cardinality(Inserting') = 1
  BY <1>1, FS_EmptySet, FS_Singleton
<1>3. nowConnections = Cardinality(fdSet) + 0 /\ main # "exited"
  BY <1>2 DEF ConnectionsCounted, Inserting, CountConnection, At, Running
<1>4. /\ nowConnections' = Cardinality(fdSet') + 1
      /\ nowConnections' <= MaxConn
  <2>1. Cardinality(fdSet) \in Nat /\ nowConnections \in Int
    BY FS_CardinalityType, FS_Subset DEF TypeInv, TypeOK, ServerAssumption
  <2> QED
    BY <1>3, <2>1 DEF CountConnection, TooMany, ServerAssumption
<1> QED
  BY <1>2, <1>4 DEF ConnectionsCounted, Inserting

LEMMA InsertHandleCounts ==
  ASSUME ServerAssumption, TypeInv, MutexInv, MapInv, ConnectionsCounted,
         NEW t \in Threads, InsertHandle(t)
  PROVE  ConnectionsCounted'
<1>1. Inserting = {t} /\ Inserting' = {}
  <2>1. Inserting = {t}
    BY OneInserts DEF InsertHandle, At, EpollPcs
  <2>2. pc' = [pc EXCEPT ![t] = "register"] /\ pc \in [Threads -> Pcs]
    BY DEF InsertHandle, Goto, TypeInv, TypeOK
  <2> QED
    BY <2>1, <2>2 DEF Inserting
<1>2. Cardinality(Inserting) = 1 /\ Cardinality(Inserting') = 0
  BY <1>1, FS_EmptySet, FS_Singleton
<1>3. fd[t] \notin fdSet
  BY DEF InsertHandle, At, MapInv, EnteringFresh, Erasing, MutexInv,
         ServerAssumption
<1>4. IsFiniteSet(fdSet)
  BY FS_Subset DEF TypeInv, TypeOK, ServerAssumption
<1>5. Cardinality(fdSet) \in Nat /\ Cardinality(fdSet') = Cardinality(fdSet) + 1
  BY <1>3, <1>4, FS_AddElement, FS_CardinalityType DEF InsertHandle
<1> QED
  BY <1>2, <1>5
  DEF ConnectionsCounted, Inserting, InsertHandle, At, Running

LEMMA EraseHandleCounts ==
  ASSUME ServerAssumption, TypeInv, MutexInv, MapInv, ConnectionsCounted,
         NEW t \in Threads, EraseHandle(t)
  PROVE  ConnectionsCounted'
<1>1. Inserting' = Inserting
  BY DEF EraseHandle, AfterRelease, Goto, Inserting, ErasePcs, TypeInv, TypeOK
<1>2. fd[t] \in fdSet
  BY DEF EraseHandle, MapInv, HoldersMapped
<1>3. IsFiniteSet(fdSet) /\ IsFiniteSet(Inserting)
  BY FS_Subset DEF TypeInv, TypeOK, ServerAssumption, Inserting
<1>4. /\ Cardinality(fdSet) \in Nat /\ Cardinality(Inserting) \in Nat
      /\ Cardinality(fdSet') = Cardinality(fdSet) - 1
  BY <1>2, <1>3, FS_RemoveElement, FS_CardinalityType DEF EraseHandle
<1>5. nowConnections \in Int /\ MaxConn \in Nat
  BY DEF TypeInv, TypeOK, ServerAssumption
<1>6. /\ nowConnections = Cardinality(fdSet) + Cardinality(Inserting)
      /\ nowConnections <= MaxConn
  BY DEF ConnectionsCounted, Inserting, EraseHandle, Running
<1>7. nowConnections' = nowConnections - 1
  BY DEF EraseHandle
<1>8. /\ nowConnections' = Cardinality(fdSet') + Cardinality(Inserting')
      /\ nowConnections' <= MaxConn
  BY <1>1, <1>4, <1>5, <1>6, <1>7
<1> QED
  BY <1>8 DEF ConnectionsCounted, Inserting

LEMMA CountLoopStep ==
  ASSUME ServerAssumption, TypeInv, MutexInv, MapInv, ConnectionsCounted,
         NEW t \in Threads, LoopStep(t)
  PROVE  ConnectionsCounted'
<1>1. pc \in [Threads -> Pcs]
  BY DEF TypeInv, TypeOK
<1> USE <1>1, CountFrame DEF Inserting, connVars, mainVars, At, Goto, NextTurn
<1>2. CASE SvcTop(t)
  BY <1>2 DEF SvcTop
<1>3. CASE LockEpoll(t)
  BY <1>3 DEF LockEpoll
<1>4. CASE EpollWait(t)
  BY <1>4 DEF EpollWait
<1>5. CASE PopListen(t)
  BY <1>5 DEF PopListen
<1>6. CASE PopPipe(t)
  BY <1>6 DEF PopPipe
<1>7. ASSUME NEW f \in Fds, PopConnection(t, f)
      PROVE  ConnectionsCounted'
  BY <1>7 DEF PopConnection
<1>8. CASE AcceptOne(t)
  BY <1>8 DEF AcceptOne
<1>9. CASE AcceptEnd(t)
  BY <1>9 DEF AcceptEnd
<1>10. CASE RefuseConnection(t)
  BY <1>10 DEF RefuseConnection
<1>11. CASE RegisterConnection(t)
  BY <1>11 DEF RegisterConnection
<1> QED
  BY <1>2, <1>3, <1>4, <1>5, <1>6, <1>7, <1>8, <1>9, <1>10, <1>11,
     CountConnectionCounts, InsertHandleCounts DEF LoopStep

LEMMA CountRequestStep ==
  ASSUME ServerAssumption, TypeInv, MutexInv, MapInv, ConnectionsCounted,
         NEW t \in Threads, RequestStep(t)
  PROVE  ConnectionsCounted'
<1>1. pc \in [Threads -> Pcs]
  BY DEF TypeInv, TypeOK
<1> USE <1>1, CountFrame DEF Inserting, connVars, threadVars, mainVars, At,
                 Goto, NextTurn, AfterRelease, Closing, Die
<1>2. CASE GetHandle(t)
  BY <1>2 DEF GetHandle
<1>3. CASE AssertHandle(t)
  BY <1>3 DEF AssertHandle
<1>4. ASSUME NEW r \in Traffic, ReadRequest(t, r)
      PROVE  ConnectionsCounted'
  BY <1>4 DEF ReadRequest
<1>5. ASSUME NEW r \in Traffic, ReadEmptyRequest(t, r)
      PROVE  ConnectionsCounted'
  BY <1>5 DEF ReadEmptyRequest
<1>6. CASE ReadFails(t)
  BY <1>6 DEF ReadFails
<1>7. ASSUME NEW u \in Threads, RaceOnReadBuf(t, u)
      PROVE  ConnectionsCounted'
  BY <1>7 DEF RaceOnReadBuf
<1>8. CASE UseFreedHandle(t)
  BY <1>8 DEF UseFreedHandle
<1>9. CASE SendResult(t)
  BY <1>9 DEF SendResult
<1>10. CASE SpinEnds(t)
  BY <1>10 DEF SpinEnds
<1>11. CASE ReleaseKeep(t)
  BY <1>11 DEF ReleaseKeep
<1>12. CASE ReleaseLast(t)
  BY <1>12 DEF ReleaseLast
<1>13. CASE ReleaseShared(t)
  BY <1>13 DEF ReleaseShared
<1>14. CASE ReAdd(t)
  BY <1>14 DEF ReAdd
<1> QED
  BY <1>2, <1>3, <1>4, <1>5, <1>6, <1>7, <1>8, <1>9, <1>10, <1>11, <1>12,
     <1>13, <1>14, EraseHandleCounts DEF RequestStep

LEMMA CountStep ==
  ASSUME ServerAssumption, TypeInv, MutexInv, MapInv, ConnectionsCounted,
         [Next]_vars
  PROVE  ConnectionsCounted'
<1>1. ASSUME NEW t \in Threads, Signal(t)
      PROVE  ConnectionsCounted'
  <2>1. Inserting' = Inserting
    BY <1>1 DEF Signal, Inserting, Goto, TypeInv, TypeOK
  <2> QED
    BY <1>1, <2>1, CountFrame DEF Signal, connVars
<1>2. CASE ClientStep
  BY <1>2, CountFrame DEF ClientStep, Connect, ClientSend, ClientLeave,
                          connVars, threadVars, mainVars, Inserting
<1>3. CASE Stop \/ WakeThreads \/ \E t \in Threads : KillThread(t) \/ JoinThread(t)
  BY <1>3, CountFrame DEF Stop, WakeThreads, KillThread, JoinThread, connVars,
                          threadVars, Inserting, Running
<1>4. CASE Destroy
  BY <1>4 DEF Destroy, ConnectionsCounted
<1>5. CASE Ended \/ UNCHANGED vars
  BY <1>5, CountFrame DEF Ended, vars, connVars, threadVars, mainVars,
                          Inserting
<1> QED
  BY <1>1, <1>2, <1>3, <1>4, <1>5, CountLoopStep, CountRequestStep
  DEF Next, MainStep

-----------------------------------------------------------------------------
(* Edges.  epoll_wait is called only when the batch is used up, so it never *)
(* overwrites an edge that nobody has looked at.                            *)
WaitsEmpty == \A t \in Threads : pc[t] = "wait" => batch = {}

EdgeInv == NoLostEdge /\ WaitsEmpty

LEMMA EdgeLoopStep ==
  ASSUME ServerAssumption, TypeInv, MutexInv, EdgeInv, NEW t \in Threads,
         LoopStep(t)
  PROVE  EdgeInv'
<1>1. pc \in [Threads -> Pcs] /\ NoThread \notin Threads
  BY DEF TypeInv, TypeOK, ServerAssumption
<1> USE <1>1 DEF EdgeInv, NoLostEdge, WaitsEmpty, Readable, MutexInv, EpollPcs,
                 kernelVars, connVars, mainVars, At, Goto, NextTurn
<1>2. CASE SvcTop(t)
  BY <1>2 DEF SvcTop
<1>3. CASE LockEpoll(t)
  BY <1>3 DEF LockEpoll
<1>4. CASE EpollWait(t)
  BY <1>4 DEF EpollWait
<1>5. CASE PopListen(t)
  BY <1>5 DEF PopListen, ServerAssumption, TypeInv, TypeOK
<1>6. CASE PopPipe(t)
  BY <1>6 DEF PopPipe, ServerAssumption, TypeInv, TypeOK
<1>7. ASSUME NEW f \in Fds, PopConnection(t, f)
      PROVE  EdgeInv'
  BY <1>7 DEF PopConnection, DelInput
<1>8. CASE AcceptOne(t)
  BY <1>8 DEF AcceptOne
<1>9. CASE AcceptEnd(t)
  BY <1>9 DEF AcceptEnd
<1>10. CASE RefuseConnection(t)
  BY <1>10 DEF RefuseConnection, CloseFd, DelInput, TypeInv, TypeOK
<1>11. CASE CountConnection(t)
  BY <1>11 DEF CountConnection
<1>12. CASE InsertHandle(t)
  BY <1>12 DEF InsertHandle
<1>13. CASE RegisterConnection(t)
  BY <1>13 DEF RegisterConnection, AddInput
<1> QED
  BY <1>2, <1>3, <1>4, <1>5, <1>6, <1>7, <1>8, <1>9, <1>10, <1>11, <1>12,
     <1>13 DEF LoopStep

LEMMA EdgeRequestStep ==
  ASSUME ServerAssumption, TypeInv, EdgeInv, NEW t \in Threads, RequestStep(t)
  PROVE  EdgeInv'
<1>1. pc \in [Threads -> Pcs] /\ epollSet \subseteq Fds
  BY DEF TypeInv, TypeOK
<1> USE <1>1 DEF EdgeInv, NoLostEdge, WaitsEmpty, Readable, kernelVars, connVars,
                 threadVars, mainVars, At, Goto, NextTurn, AfterRelease,
                 Closing, Die
<1>2. CASE GetHandle(t)
  BY <1>2 DEF GetHandle
<1>3. CASE AssertHandle(t)
  BY <1>3 DEF AssertHandle
<1>4. ASSUME NEW r \in Traffic, ReadRequest(t, r)
      PROVE  EdgeInv'
  <2>1. inbox \in [Fds -> Seq(Traffic)]
    BY DEF TypeInv, TypeOK
  <2>2. \A f \in Fds : inbox'[f] # <<>> => inbox[f] # <<>>
    BY <1>4, <2>1 DEF ReadRequest, TakeRequest
  <2> QED
    BY <1>4, <2>2 DEF ReadRequest
<1>5. ASSUME NEW r \in Traffic, ReadEmptyRequest(t, r)
      PROVE  EdgeInv'
  BY <1>5 DEF ReadEmptyRequest
<1>6. CASE ReadFails(t)
  BY <1>6 DEF ReadFails
<1>7. ASSUME NEW u \in Threads, RaceOnReadBuf(t, u)
      PROVE  EdgeInv'
  BY <1>7 DEF RaceOnReadBuf
<1>8. CASE UseFreedHandle(t)
  BY <1>8 DEF UseFreedHandle
<1>9. CASE SendResult(t)
  BY <1>9 DEF SendResult
<1>10. CASE SpinEnds(t)
  BY <1>10 DEF SpinEnds
<1>11. CASE ReleaseKeep(t)
  BY <1>11 DEF ReleaseKeep
<1>12. CASE ReleaseLast(t)
  BY <1>12 DEF ReleaseLast, CloseFd, DelInput, TypeInv, TypeOK
<1>13. CASE ReleaseShared(t)
  BY <1>13 DEF ReleaseShared
<1>14. CASE EraseHandle(t)
  BY <1>14 DEF EraseHandle
<1>15. CASE ReAdd(t)
  BY <1>15 DEF ReAdd, AddInput
<1> QED
  BY <1>2, <1>3, <1>4, <1>5, <1>6, <1>7, <1>8, <1>9, <1>10, <1>11, <1>12,
     <1>13, <1>14, <1>15 DEF RequestStep

LEMMA EdgeStep ==
  ASSUME ServerAssumption, TypeInv, MutexInv, EdgeInv, [Next]_vars
  PROVE  EdgeInv'
<1>1. pc \in [Threads -> Pcs] /\ epollSet \subseteq Fds
  BY DEF TypeInv, TypeOK
<1> USE <1>1 DEF EdgeInv, NoLostEdge, WaitsEmpty, Readable
<1>2. ASSUME NEW t \in Threads, Signal(t)
      PROVE  EdgeInv'
  BY <1>2 DEF Signal, kernelVars, Goto
<1>3. CASE Connect
  BY <1>3 DEF Connect, threadVars
<1>4. ASSUME NEW f \in Fds, NEW r \in Traffic, ClientSend(f, r)
      PROVE  EdgeInv'
  BY <1>4 DEF ClientSend, Edge, threadVars, TypeInv, TypeOK
<1>5. ASSUME NEW f \in Fds, NEW how \in {"closed", "reset"}, ClientLeave(f, how)
      PROVE  EdgeInv'
  BY <1>5 DEF ClientLeave, Edge, threadVars, TypeInv, TypeOK
<1>6. CASE MainStep
  BY <1>6 DEF MainStep, Stop, WakeThreads, KillThread, JoinThread, Destroy,
              kernelVars, threadVars
<1>7. CASE Ended \/ UNCHANGED vars
  BY <1>7 DEF Ended, vars, kernelVars, threadVars
<1> QED
  BY <1>2, <1>3, <1>4, <1>5, <1>6, <1>7, EdgeLoopStep, EdgeRequestStep
  DEF Next, ClientStep

-----------------------------------------------------------------------------
(* The inductive invariant of the server under any traffic. *)
ServerInv == TypeInv /\ MutexInv /\ MapInv /\ ConnectionsCounted /\ EdgeInv

LEMMA ServerInit == ServerAssumption /\ Init => ServerInv
<1> SUFFICES ASSUME ServerAssumption, Init PROVE ServerInv
  OBVIOUS
<1>1. MutexInv
  BY DEF Init, MutexInv, EpollPcs, ErasePcs, ServerAssumption
<1>2. MapInv
  BY DEF Init, MapInv, OpenExact, HoldersMapped, EnteringFresh, JoinedDone,
         Erasing, Entering, ErasePcs, HoldPcs
<1>3. ConnectionsCounted
  <2>1. {t \in Threads : pc[t] = "insert"} = {} /\ fdSet = {}
    BY DEF Init
  <2>2. nowConnections = 0
    BY DEF Init
  <2> QED
    BY <2>1, <2>2, FS_EmptySet DEF ConnectionsCounted, ServerAssumption
<1>4. EdgeInv
  BY DEF Init, EdgeInv, NoLostEdge, WaitsEmpty
<1> QED
  BY <1>1, <1>2, <1>3, <1>4, TypeInit DEF ServerInv

LEMMA ServerStep == ServerAssumption /\ ServerInv /\ [Next]_vars => ServerInv'
BY TypeStep, MutexStep, MapStep, CountStep, EdgeStep DEF ServerInv

THEOREM ServerInvariant == Spec => []ServerInv
BY ServerAssumption, ServerInit, ServerStep, PTL DEF Spec

(* The two mutexes are held by the threads that are in their critical       *)
(* sections, and by nobody else.                                            *)
THEOREM MutualExclusion == Spec => []MutexInv
BY ServerInvariant, PTL DEF ServerInv

(* A reused descriptor never meets the stale entry of its predecessor in    *)
(* m_fd_set, however many threads accept, close and erase.                  *)
THEOREM InsertNeverFails == Spec => []InsertSucceeds
<1>1. ServerAssumption /\ ServerInv => InsertSucceeds
  BY DEF ServerInv, MapInv, EnteringFresh, Erasing, MutexInv, InsertSucceeds,
         ServerAssumption
<1> QED
  BY <1>1, ServerAssumption, ServerInvariant, PTL

(* No descriptor is leaked and none is closed twice. *)
THEOREM NoDescriptorLeak == Spec => []OpenAccounted
<1>1. ASSUME ServerInv
      PROVE  OpenAccounted
  <2>1. /\ open \subseteq Fds /\ fdSet \subseteq Fds
        /\ \A t \in Threads : pc[t] \in {"count", "insert"} => fd[t] \in Fds
    BY <1>1 DEF ServerInv, TypeInv, TypeOK, FdKnown, WorkPcs
  <2>2. OpenExact
    BY <1>1 DEF ServerInv, MapInv
  <2> QED
    BY <2>1, <2>2 DEF OpenExact, Erasing, Entering, OpenAccounted
<1> QED
  BY <1>1, ServerInvariant, PTL

(* _now_connections is the number of connections and never exceeds          *)
(* MAX_FD_NUM.                                                              *)
THEOREM CounterExact == Spec => []ConnectionsCounted
BY ServerInvariant, PTL DEF ServerInv

(* Edge-triggered registration, shared batch and re-registration together   *)
(* never drop an edge: what a registered connection has to say is always    *)
(* waiting in epoll or in the batch.                                        *)
THEOREM EdgesKept == Spec => []NoLostEdge
BY ServerInvariant, PTL DEF ServerInv, EdgeInv

-----------------------------------------------------------------------------
(***************************************************************************)
(* What HttpServer guarantees when every client that sends a well-formed   *)
(* request asks for the connection to be kept.  The hypothesis matters:    *)
(* recv_request registers a descriptor again after the response even if    *)
(* release_handle has closed it, so a request without keep-alive breaks    *)
(* these properties (HttpServer_assert.cfg shows how).                     *)
(***************************************************************************)
KeepAliveOnly == \A r \in Traffic : r.wellFormed => r.keepAlive

(* A connection has at most one thread at work on it. *)
Exclusive ==
  \A t, u \in Threads :
    pc[t] \in BusyPcs /\ pc[u] \in BusyPcs /\ fd[t] = fd[u] => t = u

(* Until it closes the descriptor, the connection it serves is alive. *)
BusyLive ==
  \A t \in Threads : pc[t] \in BusyPcs \ ErasePcs => fd[t] \in fdSet \intersect open

Idle(f) == \A t \in Threads : pc[t] \in BusyPcs => fd[t] # f

Registered ==
  /\ \A f \in Fds :
       f \in epollSet \union batch => f \in fdSet \intersect open /\ Idle(f)
  /\ ready \intersect Fds \subseteq epollSet

(* A new connection is about to be registered for the first time. *)
Registering ==
  \A t \in Threads :
    pc[t] = "register" =>
      /\ fd[t] \in fdSet \intersect open
      /\ fd[t] \notin epollSet \union batch
      /\ Idle(fd[t])

RefExact ==
  \A f \in fdSet : /\ (\E t \in Threads : Holds(t, f)) => ref[f] = 1
                   /\ (\A t \in Threads : ~Holds(t, f)) => ref[f] = 0

(* A request that is answered keeps its connection. *)
Kept ==
  \A t \in Threads : /\ pc[t] \in {"send", "spin", "finish"} => keep[t]
                     /\ pc[t] # "eraseFinish"

ConnInv == Exclusive /\ BusyLive /\ Registered /\ Registering /\ NoOrphan

UseInv == RefExact /\ Kept /\ dangling = {} /\ HandleSafe

KeepInv == ConnInv /\ UseInv

-----------------------------------------------------------------------------
(* Consequences for the actions that close or hand out a descriptor.       *)

(* A descriptor that is being accepted is nobody's connection any more,     *)
(* except that a thread may still be erasing its predecessor.               *)
LEMMA EnteringUnknown ==
  ASSUME TypeInv, MapInv, ConnInv, NEW t \in Threads,
         pc[t] \in {"count", "insert"}
  PROVE  /\ fd[t] \in open
         /\ fd[t] \notin epollSet \union batch
         /\ \A u \in Threads : pc[u] \in BusyPcs /\ fd[u] = fd[t] => pc[u] \in ErasePcs
<1>1. fd[t] \in Fds
  BY DEF TypeInv, FdKnown, WorkPcs
<1>2. fd[t] \in open
  BY <1>1 DEF MapInv, OpenExact, Entering
<1>3. fd[t] \in fdSet => \E u \in Threads : pc[u] \in ErasePcs /\ fd[u] = fd[t]
  BY DEF MapInv, EnteringFresh, Erasing
<1>4. ErasePcs \subseteq BusyPcs
  BY DEF BusyPcs
<1>5. fd[t] \notin epollSet \union batch
  BY <1>1, <1>3, <1>4 DEF ConnInv, Registered, Idle
<1>6. ASSUME NEW u \in Threads, pc[u] \in BusyPcs, fd[u] = fd[t]
      PROVE  pc[u] \in ErasePcs
  BY <1>3, <1>4, <1>6 DEF ConnInv, Exclusive, BusyLive
<1> QED
  BY <1>2, <1>5, <1>6

(* With one holder, release() on the last reference always returns zero. *)
LEMMA DropIsLast ==
  ASSUME TypeInv, MapInv, UseInv, NEW t \in Threads, Closing(t)
  PROVE  pc[t] = "drop" /\ fd[t] \in fdSet /\ ref[fd[t]] = 1
<1>1. pc[t] = "drop"
  BY DEF Closing, At, UseInv, Kept
<1>2. fd[t] \in fdSet
  BY <1>1 DEF MapInv, HoldersMapped, UseInv, HoldPcs
<1> QED
  BY <1>1, <1>2 DEF UseInv, RefExact, Holds, HoldPcs

-----------------------------------------------------------------------------
LEMMA ConnLoopStep ==
  ASSUME ServerAssumption, ServerInv, ConnInv, NEW t \in Threads, LoopStep(t)
  PROVE  ConnInv'
<1>1. /\ pc \in [Threads -> Pcs] /\ fd \in [Threads -> Fds \union {NoFd}]
      /\ NoThread \notin Threads /\ fdSet \subseteq Fds /\ open \subseteq Fds
      /\ epollSet \subseteq Fds /\ ListenFd \notin Fds /\ PipeFd \notin Fds
  BY DEF ServerInv, TypeInv, TypeOK, ServerAssumption
<1>2. MutexInv /\ MapInv /\ TypeInv
  BY DEF ServerInv
<1> USE <1>1 DEF ConnInv, Exclusive, BusyLive, Registered, Registering, Idle,
                 NoOrphan, Busy, BusyPcs, HoldPcs, ErasePcs, kernelVars,
                 connVars, mainVars, At, Goto, NextTurn
<1>3. CASE SvcTop(t)
  BY <1>3 DEF SvcTop
<1>4. CASE LockEpoll(t)
  BY <1>4 DEF LockEpoll
<1>5. CASE EpollWait(t)
  BY <1>5 DEF EpollWait
<1>6. CASE PopListen(t)
  BY <1>6 DEF PopListen
<1>7. CASE PopPipe(t)
  BY <1>7 DEF PopPipe
<1>8. ASSUME NEW f \in Fds, PopConnection(t, f)
      PROVE  ConnInv'
  <2>1. \A u \in Threads : pc[u] # "register"
    BY <1>2, <1>8 DEF PopConnection, MutexInv, EpollPcs
  <2> QED
    BY <1>8, <2>1 DEF PopConnection, DelInput
<1>9. CASE AcceptOne(t)
  BY <1>9 DEF AcceptOne
<1>10. CASE AcceptEnd(t)
  BY <1>10 DEF AcceptEnd
<1>11. CASE RefuseConnection(t)
  <2>1. /\ fd[t] \in Fds /\ fd[t] \notin epollSet \union batch
        /\ \A u \in Threads : pc[u] \in BusyPcs /\ fd[u] = fd[t] => pc[u] \in ErasePcs
        /\ \A u \in Threads : pc[u] # "register"
    BY <1>2, <1>11, EnteringUnknown DEF RefuseConnection, MutexInv, EpollPcs
  <2> QED
    BY <1>11, <2>1 DEF RefuseConnection, CloseFd, DelInput
<1>12. CASE CountConnection(t)
  BY <1>12 DEF CountConnection
<1>13. CASE InsertHandle(t)
  <2>1. /\ fd[t] \in open /\ fd[t] \notin epollSet \union batch
        /\ \A u \in Threads : pc[u] \in BusyPcs => fd[u] # fd[t]
    BY <1>2, <1>13, EnteringUnknown DEF InsertHandle, MutexInv
  <2>2. fdSet' = fdSet \union {fd[t]}
    BY <1>13 DEF InsertHandle
  <2> QED
    BY <1>13, <2>1, <2>2 DEF InsertHandle
<1>14. CASE RegisterConnection(t)
  <2>1. fd[t] \in fdSet \intersect open /\ fd[t] \notin epollSet /\ Idle(fd[t])
    BY <1>14 DEF RegisterConnection
  <2>2. /\ epollSet' = epollSet \union {fd[t]}
        /\ ready' \subseteq ready \union {fd[t]}
    BY <1>14, <2>1 DEF RegisterConnection, AddInput
  <2>3. \A u \in Threads : pc[u] = "register" => u = t
    BY <1>2, <1>14 DEF RegisterConnection, MutexInv, EpollPcs
  <2> QED
    BY <1>14, <2>1, <2>2, <2>3 DEF RegisterConnection
<1> QED
  BY <1>3, <1>4, <1>5, <1>6, <1>7, <1>8, <1>9, <1>10, <1>11, <1>12, <1>13,
     <1>14 DEF LoopStep

LEMMA ConnRequestStep ==
  ASSUME ServerAssumption, ServerInv, KeepInv, NEW t \in Threads, RequestStep(t)
  PROVE  ConnInv'
<1>1. /\ pc \in [Threads -> Pcs] /\ fd \in [Threads -> Fds \union {NoFd}]
      /\ NoThread \notin Threads /\ fdSet \subseteq Fds /\ open \subseteq Fds
      /\ epollSet \subseteq Fds /\ ListenFd \notin Fds /\ PipeFd \notin Fds
  BY DEF ServerInv, TypeInv, TypeOK, ServerAssumption
<1>2. MutexInv /\ MapInv /\ TypeInv
  BY DEF ServerInv
<1>3. ConnInv /\ UseInv
  BY DEF KeepInv
<1>4. pc[t] # "eraseFinish"
  BY <1>3 DEF UseInv, Kept
<1> USE <1>1, <1>3 DEF ConnInv, Exclusive, BusyLive, Registered, Registering,
                 Idle, NoOrphan, Busy, BusyPcs, HoldPcs, ErasePcs, kernelVars,
                 connVars, threadVars, mainVars, At, Goto, NextTurn, Die
<1>5. CASE GetHandle(t)
  BY <1>5 DEF GetHandle
<1>6. CASE AssertHandle(t)
  BY <1>6 DEF AssertHandle
<1>7. ASSUME NEW r \in Traffic, ReadRequest(t, r)
      PROVE  ConnInv'
  BY <1>7 DEF ReadRequest
<1>8. ASSUME NEW r \in Traffic, ReadEmptyRequest(t, r)
      PROVE  ConnInv'
  BY <1>8 DEF ReadEmptyRequest
<1>9. CASE ReadFails(t)
  BY <1>9 DEF ReadFails
<1>10. ASSUME NEW u \in Threads, RaceOnReadBuf(t, u)
       PROVE  ConnInv'
  BY <1>10 DEF RaceOnReadBuf
<1>11. CASE UseFreedHandle(t)
  BY <1>11 DEF UseFreedHandle
<1>12. CASE SendResult(t)
  BY <1>12 DEF SendResult
<1>13. CASE SpinEnds(t)
  BY <1>13 DEF SpinEnds
<1>14. CASE ReleaseKeep(t)
  BY <1>14 DEF ReleaseKeep, AfterRelease
<1>15. CASE ReleaseLast(t)
  <2>1. pc[t] = "drop"
    BY <1>2, <1>15, DropIsLast DEF ReleaseLast
  <2> QED
    BY <1>15, <2>1 DEF ReleaseLast, CloseFd, DelInput
<1>16. CASE ReleaseShared(t)
  <2>1. FALSE
    BY <1>2, <1>16, DropIsLast DEF ReleaseShared
  <2> QED
    BY <2>1
<1>17. CASE EraseHandle(t)
  <2>1. pc[t] = "eraseDrop"
    BY <1>4, <1>17 DEF EraseHandle
  <2>2. Goto(t, "top") /\ fd' = [fd EXCEPT ![t] = NoFd]
    BY <1>17, <2>1 DEF EraseHandle, AfterRelease
  <2> QED
    BY <1>17, <2>1, <2>2 DEF EraseHandle
<1>18. CASE ReAdd(t)
  <2>1. fd[t] \in fdSet \intersect open /\ fd[t] \notin epollSet
    BY <1>18 DEF ReAdd
  <2>2. /\ epollSet' = epollSet \union {fd[t]}
        /\ ready' \subseteq ready \union {fd[t]}
    BY <1>18, <2>1 DEF ReAdd, AddInput
  <2> QED
    BY <1>18, <2>1, <2>2 DEF ReAdd
<1> QED
  BY <1>5, <1>6, <1>7, <1>8, <1>9, <1>10, <1>11, <1>12, <1>13, <1>14, <1>15,
     <1>16, <1>17, <1>18 DEF RequestStep

LEMMA UseLoopStep ==
  ASSUME ServerAssumption, ServerInv, KeepInv, NEW t \in Threads, LoopStep(t)
  PROVE  UseInv'
<1>1. /\ pc \in [Threads -> Pcs] /\ fd \in [Threads -> Fds \union {NoFd}]
      /\ keep \in [Threads -> BOOLEAN] /\ ref \in [Fds -> Int]
      /\ fdSet \subseteq Fds
  BY DEF ServerInv, TypeInv, TypeOK
<1>2. MutexInv /\ MapInv /\ TypeInv /\ ConnInv /\ UseInv
  BY DEF ServerInv, KeepInv
<1> USE <1>1, <1>2 DEF UseInv, RefExact, Kept, HandleSafe, Holds, HoldPcs,
                       connVars, mainVars, At, Goto, NextTurn
<1>3. CASE SvcTop(t)
  BY <1>3 DEF SvcTop
<1>4. CASE LockEpoll(t)
  BY <1>4 DEF LockEpoll
<1>5. CASE EpollWait(t)
  BY <1>5 DEF EpollWait
<1>6. CASE PopListen(t)
  BY <1>6 DEF PopListen
<1>7. CASE PopPipe(t)
  BY <1>7 DEF PopPipe
<1>8. ASSUME NEW f \in Fds, PopConnection(t, f)
      PROVE  UseInv'
  BY <1>8 DEF PopConnection
<1>9. CASE AcceptOne(t)
  BY <1>9 DEF AcceptOne
<1>10. CASE AcceptEnd(t)
  BY <1>10 DEF AcceptEnd
<1>11. CASE RefuseConnection(t)
  BY <1>11 DEF RefuseConnection
<1>12. CASE CountConnection(t)
  BY <1>12 DEF CountConnection
<1>13. CASE InsertHandle(t)
  <2>1. \A u \in Threads : pc[u] \in BusyPcs => fd[u] # fd[t]
    BY <1>13, EnteringUnknown DEF InsertHandle, MutexInv
  <2>2. \A u \in Threads : ~Holds(u, fd[t])
    BY <2>1 DEF BusyPcs
  <2>3. \A u \in Threads, f \in Fds : Holds(u, f)' <=> Holds(u, f)
    BY <1>13 DEF InsertHandle
  <2>4. \/ UNCHANGED <<fdSet, ref>>
        \/ /\ fdSet' = fdSet \union {fd[t]}
           /\ ref' = [ref EXCEPT ![fd[t]] = 0]
           /\ fd[t] \notin fdSet
    BY <1>13 DEF InsertHandle
  <2>5. fd[t] \in Fds
    BY <1>13 DEF InsertHandle, TypeInv, FdKnown, WorkPcs
  <2>6. RefExact'
    BY <2>2, <2>3, <2>4, <2>5
  <2> QED
    BY <1>13, <2>6 DEF InsertHandle
<1>14. CASE RegisterConnection(t)
  BY <1>14 DEF RegisterConnection
<1> QED
  BY <1>3, <1>4, <1>5, <1>6, <1>7, <1>8, <1>9, <1>10, <1>11, <1>12, <1>13,
     <1>14 DEF LoopStep

LEMMA UseRequestStep ==
  ASSUME ServerAssumption, KeepAliveOnly, ServerInv, KeepInv,
         NEW t \in Threads, RequestStep(t)
  PROVE  UseInv'
<1>1. /\ pc \in [Threads -> Pcs] /\ fd \in [Threads -> Fds \union {NoFd}]
      /\ keep \in [Threads -> BOOLEAN] /\ ref \in [Fds -> Int]
      /\ fdSet \subseteq Fds
  BY DEF ServerInv, TypeInv, TypeOK
<1>2. MutexInv /\ MapInv /\ TypeInv /\ ConnInv /\ UseInv
  BY DEF ServerInv, KeepInv
(* Nobody else works on the connection of t. *)
<1>3. /\ pc[t] \in BusyPcs => \A u \in Threads \ {t} : ~Holds(u, fd[t])
      /\ pc[t] \in BusyPcs \ ErasePcs => fd[t] \in fdSet
  BY <1>2 DEF ConnInv, Exclusive, BusyLive, Holds, BusyPcs
<1> USE <1>1, <1>2 DEF UseInv, RefExact, Kept, HandleSafe, Holds, HoldPcs,
                       ErasePcs, BusyPcs, connVars, threadVars, mainVars, At,
                       Goto, NextTurn, Die
<1>4. CASE GetHandle(t)
  BY <1>3, <1>4 DEF GetHandle
<1>5. CASE AssertHandle(t)
  BY <1>3, <1>5 DEF AssertHandle
<1>6. ASSUME NEW r \in Traffic, ReadRequest(t, r)
      PROVE  UseInv'
  <2>1. r.wellFormed => r.keepAlive
    BY DEF KeepAliveOnly
  <2>2. r.wellFormed \in BOOLEAN /\ r.keepAlive \in BOOLEAN
    BY DEF ServerAssumption, Request
  <2>3. \/ Goto(t, "drop")
        \/ Goto(t, "send") /\ keep' = [keep EXCEPT ![t] = TRUE]
    BY <1>6, <2>1, <2>2 DEF ReadRequest
  <2>4. Kept'
    BY <1>6, <2>3 DEF ReadRequest
  <2>5. RefExact'
    BY <1>6, <2>3 DEF ReadRequest
  <2> QED
    BY <1>6, <2>4, <2>5 DEF ReadRequest
<1>7. ASSUME NEW r \in Traffic, ReadEmptyRequest(t, r)
      PROVE  UseInv'
  BY <1>7 DEF ReadEmptyRequest
<1>8. CASE ReadFails(t)
  BY <1>8 DEF ReadFails
<1>9. ASSUME NEW u \in Threads, RaceOnReadBuf(t, u)
      PROVE  UseInv'
  BY <1>3, <1>9 DEF RaceOnReadBuf
<1>10. CASE UseFreedHandle(t)
  BY <1>10 DEF UseFreedHandle
<1>11. CASE SendResult(t)
  BY <1>11 DEF SendResult
<1>12. CASE SpinEnds(t)
  BY <1>12 DEF SpinEnds
<1>13. CASE ReleaseKeep(t)
  <2>1. Goto(t, "readd") /\ ref' = [ref EXCEPT ![fd[t]] = @ - 1] /\ UNCHANGED fd
    BY <1>13 DEF ReleaseKeep, AfterRelease
  <2>2. RefExact'
    BY <1>3, <1>13, <2>1 DEF ReleaseKeep
  <2> QED
    BY <1>13, <2>1, <2>2 DEF ReleaseKeep
<1>14. CASE ReleaseLast(t)
  <2>1. pc[t] = "drop"
    BY <1>14, DropIsLast DEF ReleaseLast
  <2>2. RefExact'
    BY <1>3, <1>14, <2>1 DEF ReleaseLast
  <2> QED
    BY <1>14, <2>1, <2>2 DEF ReleaseLast
<1>15. CASE ReleaseShared(t)
  <2>1. FALSE
    BY <1>15, DropIsLast DEF ReleaseShared
  <2> QED
    BY <2>1
<1>16. CASE EraseHandle(t)
  <2>1. Goto(t, "top") /\ fd' = [fd EXCEPT ![t] = NoFd]
    BY <1>16 DEF EraseHandle, AfterRelease
  <2>2. dangling' = {}
    BY <1>3, <1>16 DEF EraseHandle
  <2>3. RefExact'
    BY <1>16, <2>1 DEF EraseHandle
  <2> QED
    BY <1>16, <2>1, <2>2, <2>3 DEF EraseHandle
<1>17. CASE ReAdd(t)
  BY <1>17 DEF ReAdd
<1> QED
  BY <1>4, <1>5, <1>6, <1>7, <1>8, <1>9, <1>10, <1>11, <1>12, <1>13, <1>14,
     <1>15, <1>16, <1>17 DEF RequestStep

LEMMA KeepStep ==
  ASSUME ServerAssumption, KeepAliveOnly, ServerInv, KeepInv, [Next]_vars
  PROVE  KeepInv'
<1>1. pc \in [Threads -> Pcs]
  BY DEF ServerInv, TypeInv, TypeOK
<1> USE <1>1 DEF KeepInv, ConnInv, UseInv, Exclusive, BusyLive, Registered,
                 Registering, Idle, NoOrphan, RefExact, Kept, HandleSafe, Holds,
                 Busy, BusyPcs, HoldPcs, ErasePcs
<1>2. ASSUME NEW t \in Threads, Signal(t)
      PROVE  KeepInv'
  <2>1. /\ pc'[t] = pc[t] \/ (pc[t] = "wait" /\ pc'[t] = "top")
        /\ \A u \in Threads \ {t} : pc'[u] = pc[u]
    BY <1>2 DEF Signal, Goto
  <2> QED
    BY <1>2, <2>1 DEF Signal, kernelVars, connVars
<1>3. ASSUME ClientStep
      PROVE  KeepInv'
  <2>1. /\ ready' \subseteq ready \union {ListenFd} \union epollSet
        /\ UNCHANGED <<open, epollSet, batch, fdSet, ref, threadVars, fault>>
    BY <1>3 DEF ClientStep, Connect, ClientSend, ClientLeave, Edge, connVars
  <2> QED
    BY <2>1 DEF threadVars, ServerAssumption
<1>4. CASE MainStep
  <2>1. CASE Destroy
    <3>1. \A t \in Threads : pc[t] = "done"
      BY <2>1 DEF Destroy, ServerInv, MapInv, JoinedDone
    <3> QED
      BY <2>1, <3>1 DEF Destroy, threadVars
  <2>2. CASE ~Destroy
    <3>1. /\ ready' \subseteq ready \union {PipeFd}
          /\ UNCHANGED <<open, epollSet, batch, fdSet, ref, threadVars, fault>>
      BY <1>4, <2>2 DEF MainStep, Stop, WakeThreads, KillThread, JoinThread,
                        kernelVars, connVars
    <3> QED
      BY <3>1 DEF threadVars, ServerAssumption
  <2> QED
    BY <2>1, <2>2
<1>5. CASE Ended \/ UNCHANGED vars
  BY <1>5 DEF Ended, vars, kernelVars, connVars, threadVars
<1>6. ASSUME NEW t \in Threads, LoopStep(t) \/ RequestStep(t)
      PROVE  KeepInv'
  <2> HIDE DEF KeepInv, ConnInv, UseInv
  <2>1. ConnInv /\ UseInv
    BY DEF KeepInv
  <2>2. ConnInv' /\ UseInv'
    BY <1>6, <2>1, ConnLoopStep, UseLoopStep, ConnRequestStep, UseRequestStep
  <2> QED
    BY <2>2 DEF KeepInv
<1> QED
  BY <1>2, <1>3, <1>4, <1>5, <1>6 DEF Next

LEMMA KeepInit == Init => KeepInv
BY DEF Init, KeepInv, ConnInv, UseInv, Exclusive, BusyLive, Registered,
       Registering, Idle, NoOrphan, RefExact, Kept, HandleSafe, BusyPcs,
       HoldPcs, ErasePcs

THEOREM KeepInvariant == KeepAliveOnly => (Spec => []KeepInv)
<1> SUFFICES ASSUME KeepAliveOnly
             PROVE  Spec => []KeepInv
  OBVIOUS
<1>1. ServerInv /\ KeepInv /\ [Next]_vars => KeepInv'
  BY KeepStep, ServerAssumption
<1> QED
  BY <1>1, KeepInit, ServerInvariant, PTL DEF Spec

(* One thread at a time serves a connection, and _ref counts its users.     *)
THEOREM OneThreadPerConnection == KeepAliveOnly => (Spec => []ExclusiveHandle)
<1>1. ServerInv /\ KeepInv => ExclusiveHandle
  <2> SUFFICES ASSUME ServerInv, KeepInv
               PROVE  ExclusiveHandle
    OBVIOUS
  <2>1. \A f \in Fds, t, u \in Threads : Busy(t, f) /\ Busy(u, f) => t = u
    BY DEF KeepInv, ConnInv, Exclusive, Busy
  <2>2. ASSUME NEW f \in fdSet
        PROVE  ref[f] = Cardinality({t \in Threads : Holds(t, f)})
    <3>1. CASE \A t \in Threads : ~Holds(t, f)
      <4>1. {t \in Threads : Holds(t, f)} = {}
        BY <3>1
      <4> QED
        BY <3>1, <4>1, FS_EmptySet DEF KeepInv, UseInv, RefExact
    <3>2. ASSUME NEW t \in Threads, Holds(t, f)
          PROVE  ref[f] = Cardinality({u \in Threads : Holds(u, f)})
      <4>1. {u \in Threads : Holds(u, f)} = {t}
        BY <3>2 DEF KeepInv, ConnInv, Exclusive, Holds, BusyPcs
      <4>2. ref[f] = 1
        BY <3>2 DEF KeepInv, UseInv, RefExact
      <4> QED
        BY <4>1, <4>2, FS_Singleton
    <3> QED
      BY <3>1, <3>2
  <2> QED
    BY <2>1, <2>2 DEF ExclusiveHandle
<1> QED
  BY <1>1, KeepInvariant, ServerInvariant, PTL

(* A connection in epoll or in the shared batch is open, has its handle and *)
(* is in nobody's hands.                                                    *)
THEOREM RegisteredConnectionsIdle == KeepAliveOnly => (Spec => []RegisteredIsIdle)
<1>1. ServerInv /\ KeepInv => RegisteredIsIdle
  BY DEF ServerInv, TypeInv, TypeOK, KeepInv, ConnInv, Registered, Idle,
         RegisteredIsIdle, Busy
<1> QED
  BY <1>1, KeepInvariant, ServerInvariant, PTL

(* No connection is forgotten. *)
THEOREM NoConnectionOrphaned == KeepAliveOnly => (Spec => []NoOrphan)
<1>1. KeepInv => NoOrphan
  BY DEF KeepInv, ConnInv
<1> QED
  BY <1>1, KeepInvariant, PTL

(* assert(hdle) never fails, no handle is used by two threads or after it   *)
(* was deleted.                                                             *)
THEOREM HandlesSafe == KeepAliveOnly => (Spec => []HandleSafe)
<1>1. KeepInv => HandleSafe
  BY DEF KeepInv, UseInv
<1> QED
  BY <1>1, KeepInvariant, PTL
=============================================================================

----------------------------- MODULE HttpServer -----------------------------
(***************************************************************************)
(* The epoll HTTP server of src/src/http_server/http_server.cpp.           *)
(*                                                                         *)
(* Every receiver thread runs Http_Server::svc.  The threads share one     *)
(* epoll instance: under _epoll_mutex a thread fetches a batch of ready    *)
(* descriptors (when the previous batch is used up), takes one of them,    *)
(* unregisters it and leaves the mutex to serve one request on it.  The    *)
(* descriptors are registered edge-triggered and are registered again      *)
(* after the response.  Connections live in m_fd_set, a map from           *)
(* descriptor to a reference-counted SocketHandle guarded by _map_mutex.   *)
(*                                                                         *)
(* The kernel (descriptor table, epoll, sockets) and the clients are       *)
(* modelled from how the code uses them.  A SocketHandle is identified by  *)
(* its descriptor: m_fd_set holds at most one handle per descriptor, and a *)
(* handle never changes its descriptor.  A critical section that touches   *)
(* one variable only (_connections_mutex) is one step.                     *)
(***************************************************************************)
EXTENDS Integers, Sequences, FiniteSets

CONSTANTS
  Threads,        (* the receiver threads that run svc                       *)
  NoThread,       (* "nobody": the owner of a free mutex                     *)
  Fds,            (* the descriptors accept may return (RLIMIT_NOFILE)       *)
  HighFds,        (* those of them at or above 1024, which svc refuses       *)
  ListenFd,       (* _socket_server_listen                                   *)
  PipeFd,         (* _pipe_read                                              *)
  NoFd,           (* the value of the local fd when it is dead               *)
  MaxConn,        (* MAX_FD_NUM                                              *)
  MaxEvents,      (* MAX_EPOLL_EVENT_NUM                                     *)
  Traffic,        (* the kinds of request the clients send                   *)
  MaxPending,     (* bound: requests of one client the server has not read   *)
  MaxAttempts,    (* bound: connections the clients open                     *)
  MaxDebt,        (* bound: a client stops once _ref is this far below zero  *)
  PeerResets,     (* whether clients may reset a connection                  *)
  FreedReadTraps  (* whether reading the freed worker may end the process    *)

(* A request, as far as the server's control flow tells requests apart.     *)
Request == [wellFormed : BOOLEAN,   \* header and content arrive and parse
            keepAlive  : BOOLEAN,   \* "Connection: keep-alive"
            hasContent : BOOLEAN]   \* Content-Length > 0

ASSUME ServerAssumption ==
  /\ NoThread \notin Threads
  /\ IsFiniteSet(Threads) /\ IsFiniteSet(Fds)
  /\ HighFds \subseteq Fds
  /\ {ListenFd, PipeFd, NoFd} \intersect Fds = {}
  /\ ListenFd # PipeFd
  /\ MaxConn \in Nat
  /\ MaxEvents \in Nat \ {0}
  /\ Traffic \subseteq Request
  /\ MaxPending \in Nat
  /\ MaxAttempts \in Nat
  /\ MaxDebt \in Nat
  /\ PeerResets \in BOOLEAN
  /\ FreedReadTraps \in BOOLEAN

VARIABLES
  (* the kernel and the clients *)
  open,            \* the connection descriptors that are open
  epollSet,        \* the connection descriptors registered with epoll
  ready,           \* the descriptors with an edge epoll_wait has not returned
  inbox,           \* per descriptor, the requests in the socket's buffer
  peer,            \* per descriptor, what the client did: up, closed, reset
  backlog,         \* connections waiting to be accepted
  attempts,        \* connections the clients opened so far
  (* what the threads share *)
  batch,           \* _epoll_ready_event[0 .. _epoll_ready_event_num - 1]
  epollOwner,      \* who holds _epoll_mutex
  mapOwner,        \* who holds _map_mutex
  fdSet,           \* the keys of m_fd_set
  ref,             \* per descriptor, SocketHandle::_ref
  readBuf,         \* per descriptor, the whole requests in _read_buf
  nowConnections,  \* _now_connections
  stopTask,        \* _stop_task
  (* the threads *)
  pc,              \* where a thread is in svc
  fd,              \* the descriptor it works on
  keep,            \* worker->keep_alive
  dangling,        \* the threads whose SocketHandle was deleted under them
  (* the main thread and the process *)
  main,            \* where main is: pause, wake, join, exited
  joining,         \* the thread main waits for in pthread_join
  joined,          \* the threads main has joined
  killed,          \* the threads with a pending SIGTERM
  fault            \* how the process died, "none" while it lives

kernelVars == <<open, epollSet, ready, inbox, peer, backlog, attempts>>
connVars   == <<mapOwner, fdSet, ref, readBuf, nowConnections>>
threadVars == <<pc, fd, keep, dangling>>
mainVars   == <<main, joining, joined, killed>>
vars == <<kernelVars, connVars, threadVars, mainVars,
          batch, epollOwner, stopTask, fault>>

-----------------------------------------------------------------------------
EpollPcs == {"wait", "pop", "accept", "count", "insert", "register"}
ErasePcs == {"eraseDrop", "eraseFinish"}
HoldPcs  == {"read", "send", "spin", "drop", "finish"}
BusyPcs  == HoldPcs \union ErasePcs \union {"get", "readd"}
Pcs      == EpollPcs \union BusyPcs \union {"top", "lock", "done"}

(* The process is alive.  A fault ends it, whatever the other threads do. *)
Running == fault = "none" /\ main # "exited"

At(t, label) == Running /\ pc[t] = label

Holds(t, f) == pc[t] \in HoldPcs /\ fd[t] = f
Busy(t, f)  == pc[t] \in BusyPcs /\ fd[t] = f

(* Constructor and open(): the listening socket and the pipe are registered *)
(* with epoll, the threads are about to enter svc, main is in pause().      *)
Init ==
  /\ open = {} /\ epollSet = {} /\ ready = {}
  /\ inbox = [f \in Fds |-> <<>>]
  /\ peer = [f \in Fds |-> "up"]
  /\ backlog = 0 /\ attempts = 0
  /\ batch = {}
  /\ epollOwner = NoThread /\ mapOwner = NoThread
  /\ fdSet = {}
  /\ ref = [f \in Fds |-> 0]
  /\ readBuf = [f \in Fds |-> <<>>]
  /\ nowConnections = 0
  /\ stopTask = FALSE
  /\ pc = [t \in Threads |-> "top"]
  /\ fd = [t \in Threads |-> NoFd]
  /\ keep = [t \in Threads |-> FALSE]
  /\ dangling = {}
  /\ main = "pause" /\ joining = NoThread /\ joined = {} /\ killed = {}
  /\ fault = "none"

-----------------------------------------------------------------------------
(* The kernel.                                                             *)

Readable(f) == inbox[f] # <<>> \/ peer[f] # "up"

(* An edge on a registered descriptor. *)
Edge(f) == ready' = IF f \in epollSet THEN ready \union {f} ELSE ready

(* add_input_fd: EPOLL_CTL_ADD, whose result the code ignores.  It fails on *)
(* a closed descriptor and on one that is registered already; a readable    *)
(* descriptor is ready at once.                                             *)
AddInput(f) ==
  IF f \in open \ epollSet
  THEN /\ epollSet' = epollSet \union {f}
       /\ ready' = IF Readable(f) THEN ready \union {f} ELSE ready
  ELSE UNCHANGED <<epollSet, ready>>

(* del_input_fd: EPOLL_CTL_DEL. *)
DelInput(f) ==
  /\ epollSet' = epollSet \ {f}
  /\ ready' = ready \ {f}

(* ::close of a connection: the socket goes with what it had buffered. *)
CloseFd(f) ==
  /\ open' = open \ {f}
  /\ DelInput(f)
  /\ inbox' = [inbox EXCEPT ![f] = <<>>]
  /\ peer' = [peer EXCEPT ![f] = "up"]

(* accept returns the lowest free descriptor: one that svc refuses only     *)
(* when no other is free.                                                   *)
FreeFds ==
  LET low == Fds \ (HighFds \union open)
  IN  IF low # {} THEN low ELSE Fds \ open

Connect ==
  /\ Running /\ attempts < MaxAttempts
  /\ attempts' = attempts + 1
  /\ backlog' = backlog + 1
  /\ ready' = ready \union {ListenFd}
  /\ UNCHANGED <<open, epollSet, inbox, peer, connVars, threadVars, mainVars,
                 batch, epollOwner, stopTask, fault>>

ClientSend(f, r) ==
  /\ Running /\ f \in open /\ peer[f] = "up"
  /\ Len(inbox[f]) < MaxPending /\ ref[f] > -MaxDebt
  /\ inbox' = [inbox EXCEPT ![f] = Append(@, r)]
  /\ Edge(f)
  /\ UNCHANGED <<open, epollSet, peer, backlog, attempts, connVars,
                 threadVars, mainVars, batch, epollOwner, stopTask, fault>>

ClientLeave(f, how) ==
  /\ Running /\ f \in open /\ peer[f] = "up"
  /\ how = "reset" => PeerResets
  /\ peer' = [peer EXCEPT ![f] = how]
  /\ Edge(f)
  /\ UNCHANGED <<open, epollSet, inbox, backlog, attempts, connVars,
                 threadVars, mainVars, batch, epollOwner, stopTask, fault>>

-----------------------------------------------------------------------------
(* svc: the event loop.                                                    *)

Goto(t, label) == pc' = [pc EXCEPT ![t] = label]

(* The end of one turn of the loop: the locals are dead. *)
NextTurn(t) ==
  /\ Goto(t, "top")
  /\ fd' = [fd EXCEPT ![t] = NoFd]
  /\ keep' = [keep EXCEPT ![t] = FALSE]

(* while (!_stop_task) *)
SvcTop(t) ==
  /\ At(t, "top")
  /\ Goto(t, IF stopTask THEN "done" ELSE "lock")
  /\ UNCHANGED <<kernelVars, connVars, mainVars, fd, keep, dangling, batch,
                 epollOwner, stopTask, fault>>

(* pthread_mutex_lock(&_epoll_mutex) and the second look at _stop_task. *)
LockEpoll(t) ==
  /\ At(t, "lock") /\ epollOwner = NoThread
  /\ IF stopTask
     THEN Goto(t, "done") /\ UNCHANGED epollOwner
     ELSE /\ Goto(t, IF batch = {} THEN "wait" ELSE "pop")
          /\ epollOwner' = t
  /\ UNCHANGED <<kernelVars, connVars, mainVars, fd, keep, dangling, batch,
                 stopTask, fault>>

(* epoll_wait, called with the mutex held.  The batch is used from its last *)
(* element to its first; the kernel fills it in any order, so it is a set.  *)
EpollWait(t) ==
  /\ At(t, "wait") /\ ready # {}
  /\ batch' \in SUBSET ready
  /\ LET n == Cardinality(ready)
     IN  Cardinality(batch') = IF n < MaxEvents THEN n ELSE MaxEvents
  /\ ready' = ready \ batch'
  /\ Goto(t, "pop")
  /\ UNCHANGED <<open, epollSet, inbox, peer, backlog, attempts, connVars,
                 mainVars, fd, keep, dangling, epollOwner, stopTask, fault>>

(* SIGTERM from join(): its handler does nothing, but epoll_wait returns    *)
(* EINTR and svc starts over.                                               *)
Signal(t) ==
  /\ Running /\ t \in killed
  /\ killed' = killed \ {t}
  /\ IF pc[t] = "wait"
     THEN Goto(t, "top") /\ epollOwner' = NoThread
     ELSE UNCHANGED <<pc, epollOwner>>
  /\ UNCHANGED <<kernelVars, connVars, fd, keep, dangling, main, joining,
                 joined, batch, stopTask, fault>>

PopListen(t) ==
  /\ At(t, "pop") /\ ListenFd \in batch
  /\ batch' = batch \ {ListenFd}
  /\ Goto(t, "accept")
  /\ UNCHANGED <<kernelVars, connVars, mainVars, fd, keep, dangling,
                 epollOwner, stopTask, fault>>

(* Mutant: no unlock before the continue. *)
PopPipeLocked(t) ==
  /\ At(t, "pop") /\ PipeFd \in batch
  /\ batch' = batch \ {PipeFd}
  /\ Goto(t, "top")
  /\ UNCHANGED <<kernelVars, connVars, mainVars, fd, keep, dangling,
                 epollOwner, stopTask, fault>>

(* Mutant: the pipe is not told from a connection. *)
PopPipeAsConnection(t) ==
  /\ At(t, "pop") /\ PipeFd \in batch
  /\ batch' = batch \ {PipeFd}
  /\ epollOwner' = NoThread
  /\ Goto(t, "get")
  /\ fd' = [fd EXCEPT ![t] = PipeFd]
  /\ UNCHANGED <<kernelVars, connVars, mainVars, keep, dangling, stopTask,
                 fault>>

(* The byte in the pipe is never read: one edge is all stop() needs. *)
PopPipe(t) ==
  /\ At(t, "pop") /\ PipeFd \in batch
  /\ batch' = batch \ {PipeFd}
  /\ epollOwner' = NoThread
  /\ Goto(t, "top")
  /\ UNCHANGED <<kernelVars, connVars, mainVars, fd, keep, dangling, stopTask,
                 fault>>

(* Mutant: no del_input_fd. *)
PopRegistered(t, f) ==
  /\ At(t, "pop") /\ f \in batch
  /\ batch' = batch \ {f}
  /\ epollOwner' = NoThread
  /\ Goto(t, "get")
  /\ fd' = [fd EXCEPT ![t] = f]
  /\ UNCHANGED <<kernelVars, connVars, mainVars, keep, dangling, stopTask,
                 fault>>

(* del_input_fd before the mutex is left, so that no other thread is handed *)
(* the same connection.                                                     *)
PopConnection(t, f) ==
  /\ At(t, "pop") /\ f \in batch
  /\ batch' = batch \ {f}
  /\ DelInput(f)
  /\ epollOwner' = NoThread
  /\ Goto(t, "get")
  /\ fd' = [fd EXCEPT ![t] = f]
  /\ UNCHANGED <<open, inbox, peer, backlog, attempts, connVars, mainVars,
                 keep, dangling, stopTask, fault>>

-----------------------------------------------------------------------------
(* svc: the accept loop, run with _epoll_mutex held until accept fails.    *)

AcceptOne(t) ==
  /\ At(t, "accept") /\ backlog > 0
  /\ \E f \in FreeFds :
       /\ open' = open \union {f}
       /\ fd' = [fd EXCEPT ![t] = f]
  /\ backlog' = backlog - 1
  /\ Goto(t, "count")
  /\ UNCHANGED <<epollSet, ready, inbox, peer, attempts, connVars, mainVars,
                 keep, dangling, batch, epollOwner, stopTask, fault>>

(* EAGAIN, or EMFILE with connections left in the backlog. *)
AcceptEnd(t) ==
  /\ At(t, "accept")
  /\ backlog = 0 \/ FreeFds = {}
  /\ epollOwner' = NoThread
  /\ NextTurn(t)
  /\ UNCHANGED <<kernelVars, connVars, mainVars, dangling, batch, stopTask,
                 fault>>

(* The limits, checked under _connections_mutex.                           *)
TooMany(f) == nowConnections >= MaxConn \/ f \in HighFds

(* Mutant: the refused descriptor stays open. *)
RefuseUnclosed(t) ==
  /\ At(t, "count") /\ TooMany(fd[t])
  /\ Goto(t, "accept")
  /\ UNCHANGED <<kernelVars, connVars, mainVars, fd, keep, dangling,
                 batch, epollOwner, stopTask, fault>>

(* Mutant: a refused connection is uncounted although it was never counted. *)
RefuseUncounted(t) ==
  /\ At(t, "count") /\ TooMany(fd[t])
  /\ CloseFd(fd[t])
  /\ nowConnections' = nowConnections - 1
  /\ Goto(t, "accept")
  /\ UNCHANGED <<backlog, attempts, mapOwner, fdSet, ref, readBuf, mainVars,
                 fd, keep, dangling, batch, epollOwner, stopTask, fault>>

RefuseConnection(t) ==
  /\ At(t, "count") /\ TooMany(fd[t])
  /\ CloseFd(fd[t])
  /\ Goto(t, "accept")
  /\ UNCHANGED <<backlog, attempts, connVars, mainVars, fd, keep, dangling,
                 batch, epollOwner, stopTask, fault>>

CountConnection(t) ==
  /\ At(t, "count") /\ ~TooMany(fd[t])
  /\ nowConnections' = nowConnections + 1
  /\ Goto(t, "insert")
  /\ UNCHANGED <<kernelVars, mapOwner, fdSet, ref, readBuf, mainVars, fd, keep,
                 dangling, batch, epollOwner, stopTask, fault>>

(* create_handle and insert_handle: std::map::insert keeps the entry that   *)
(* is there, and the new handle is then lost.                               *)
InsertHandle(t) ==
  LET f == fd[t] IN
  /\ At(t, "insert") /\ mapOwner = NoThread
  /\ IF f \in fdSet
     THEN UNCHANGED <<fdSet, ref, readBuf>>
     ELSE /\ fdSet' = fdSet \union {f}
          /\ ref' = [ref EXCEPT ![f] = 0]
          /\ readBuf' = [readBuf EXCEPT ![f] = <<>>]
  /\ Goto(t, "register")
  /\ UNCHANGED <<kernelVars, mapOwner, nowConnections, mainVars, fd, keep,
                 dangling, batch, epollOwner, stopTask, fault>>

(* Mutant: accept is called once per edge of the listening socket. *)
RegisterAndLeave(t) ==
  /\ At(t, "register")
  /\ AddInput(fd[t])
  /\ epollOwner' = NoThread
  /\ NextTurn(t)
  /\ UNCHANGED <<open, inbox, peer, backlog, attempts, connVars, mainVars,
                 dangling, batch, stopTask, fault>>

RegisterConnection(t) ==
  /\ At(t, "register")
  /\ AddInput(fd[t])
  /\ Goto(t, "accept")
  /\ UNCHANGED <<open, inbox, peer, backlog, attempts, connVars, mainVars, fd,
                 keep, dangling, batch, epollOwner, stopTask, fault>>

-----------------------------------------------------------------------------
(* recv_request: one request on one connection.                            *)

(* The process ends: the other threads go with it. *)
Die(how) ==
  /\ fault' = how
  /\ UNCHANGED <<kernelVars, connVars, threadVars, mainVars, batch,
                 epollOwner, stopTask>>

(* get_handle finds the handle under _map_mutex and takes a reference. *)
GetHandle(t) ==
  /\ At(t, "get") /\ mapOwner = NoThread
  /\ fd[t] \in fdSet
  /\ ref' = [ref EXCEPT ![fd[t]] = @ + 1]
  /\ Goto(t, "read")
  /\ UNCHANGED <<kernelVars, mapOwner, fdSet, readBuf, nowConnections,
                 mainVars, fd, keep, dangling, batch, epollOwner, stopTask,
                 fault>>

(* get_handle returned NULL: assert(hdle). *)
AssertHandle(t) ==
  /\ At(t, "get") /\ mapOwner = NoThread
  /\ fd[t] \notin fdSet
  /\ Die("assert")

(* read_http_header_timeout and readn_timeout.  What an earlier read left   *)
(* in _read_buf comes first; otherwise a read takes one request or more     *)
(* from the socket.  Nothing there (a timeout, the end of the stream, an    *)
(* error) makes the request fail.                                           *)
TakeRequest(f, r) ==
  \/ /\ readBuf[f] # <<>>
     /\ r = Head(readBuf[f])
     /\ readBuf' = [readBuf EXCEPT ![f] = Tail(@)]
     /\ UNCHANGED inbox
  \/ /\ readBuf[f] = <<>> /\ inbox[f] # <<>>
     /\ r = Head(inbox[f])
     /\ \E k \in 1 .. Len(inbox[f]) :
          /\ readBuf' = [readBuf EXCEPT ![f] = SubSeq(inbox[f], 2, k)]
          /\ inbox' = [inbox EXCEPT ![f] = SubSeq(@, k + 1, Len(@))]

(* GetInfo accepts the request and it has content. *)
ReadRequest(t, r) ==
  /\ At(t, "read") /\ t \notin dangling
  /\ TakeRequest(fd[t], r)
  /\ r.wellFormed => r.hasContent
  /\ Goto(t, IF r.wellFormed THEN "send" ELSE "drop")
  /\ keep' = [keep EXCEPT ![t] = r.wellFormed /\ r.keepAlive]
  /\ UNCHANGED <<open, epollSet, ready, peer, backlog, attempts, mapOwner,
                 fdSet, ref, nowConnections, mainVars, fd, dangling, batch,
                 epollOwner, stopTask, fault>>

ReadFails(t) ==
  /\ At(t, "read") /\ t \notin dangling
  /\ readBuf[fd[t]] = <<>> /\ inbox[fd[t]] = <<>>
  /\ Goto(t, "drop")
  /\ UNCHANGED <<kernelVars, connVars, mainVars, fd, keep, dangling, batch,
                 epollOwner, stopTask, fault>>

(* Without content genContentBuf allocates nothing, and the terminating     *)
(* '\0' is written through a null pointer.                                  *)
ReadEmptyRequest(t, r) ==
  /\ At(t, "read") /\ t \notin dangling
  /\ readBuf[fd[t]] \o inbox[fd[t]] # <<>>
  /\ r = Head(readBuf[fd[t]] \o inbox[fd[t]])
  /\ r.wellFormed /\ ~r.hasContent
  /\ Die("nullWrite")

(* Two threads in the unlocked _read_buf of one handle. *)
RaceOnReadBuf(t, u) ==
  /\ t # u /\ At(t, "read") /\ At(u, "read") /\ fd[t] = fd[u]
  /\ Die("dataRace")

(* A thread goes on with a handle that another thread deleted. *)
UseFreedHandle(t) ==
  /\ Running /\ t \in dangling /\ pc[t] \in HoldPcs \ {"spin"}
  /\ Die("handleFreed")

(* handle_worker builds the response, retrieve_worker sends it. *)
SendResult(t) ==
  /\ At(t, "send") /\ t \notin dangling
  /\ Goto(t, IF peer[fd[t]] = "reset" THEN "spin" ELSE "finish")
  /\ UNCHANGED <<kernelVars, connVars, mainVars, fd, keep, dangling, batch,
                 epollOwner, stopTask, fault>>

(* write() fails for good on a reset connection; writen_timeout subtracts   *)
(* the -1 from what is left and tries again.  It may do so for ever: what   *)
(* is left grows until the int overflows, which may end the loop.           *)
SpinEnds(t) ==
  /\ At(t, "spin")
  /\ Goto(t, "finish")
  /\ UNCHANGED <<kernelVars, connVars, mainVars, fd, keep, dangling, batch,
                 epollOwner, stopTask, fault>>

-----------------------------------------------------------------------------
(* release_handle, and the end of recv_request.                            *)

Closing(t) == At(t, "drop") \/ (At(t, "finish") /\ ~keep[t])

(* Mutant: a failed request registers its descriptor again, too. *)
AlwaysReAdd(t) == Goto(t, "readd") /\ UNCHANGED fd

(* A request that was answered registers its descriptor again, one that     *)
(* failed does not.                                                         *)
AfterRelease(t) ==
  IF pc[t] \in {"finish", "eraseFinish"}
  THEN Goto(t, "readd") /\ UNCHANGED fd
  ELSE Goto(t, "top") /\ fd' = [fd EXCEPT ![t] = NoFd]

ReleaseKeep(t) ==
  /\ At(t, "finish") /\ keep[t] /\ mapOwner = NoThread /\ t \notin dangling
  /\ ref' = [ref EXCEPT ![fd[t]] = @ - 1]
  /\ AfterRelease(t)
  /\ keep' = [keep EXCEPT ![t] = FALSE]
  /\ UNCHANGED <<kernelVars, mapOwner, fdSet, readBuf, nowConnections,
                 mainVars, dangling, batch, epollOwner, stopTask, fault>>

(* Mutant: _map_mutex is left between close and erase. *)
ReleaseLastUnlocked(t) ==
  /\ Closing(t) /\ mapOwner = NoThread /\ t \notin dangling
  /\ ref[fd[t]] - 1 = 0
  /\ ref' = [ref EXCEPT ![fd[t]] = @ - 1]
  /\ CloseFd(fd[t])
  /\ Goto(t, IF pc[t] = "drop" THEN "eraseDrop" ELSE "eraseFinish")
  /\ UNCHANGED <<backlog, attempts, mapOwner, fdSet, readBuf, nowConnections,
                 mainVars, fd, keep, dangling, batch, epollOwner, stopTask,
                 fault>>

(* The last reference: the descriptor is closed here and the entry of       *)
(* m_fd_set erased in EraseHandle, both under _map_mutex.                   *)
ReleaseLast(t) ==
  /\ Closing(t) /\ mapOwner = NoThread /\ t \notin dangling
  /\ ref[fd[t]] - 1 = 0
  /\ ref' = [ref EXCEPT ![fd[t]] = @ - 1]
  /\ CloseFd(fd[t])
  /\ mapOwner' = t
  /\ Goto(t, IF pc[t] = "drop" THEN "eraseDrop" ELSE "eraseFinish")
  /\ UNCHANGED <<backlog, attempts, fdSet, readBuf, nowConnections, mainVars,
                 fd, keep, dangling, batch, epollOwner, stopTask, fault>>

(* Not the last one: the log line calls release() a second time.           *)
ReleaseShared(t) ==
  /\ Closing(t) /\ mapOwner = NoThread /\ t \notin dangling
  /\ ref[fd[t]] - 1 # 0
  /\ ref' = [ref EXCEPT ![fd[t]] = @ - 2]
  /\ AfterRelease(t)
  /\ UNCHANGED <<kernelVars, mapOwner, fdSet, readBuf, nowConnections,
                 mainVars, keep, dangling, batch, epollOwner, stopTask, fault>>

EraseHandle(t) ==
  /\ Running /\ pc[t] \in ErasePcs
  /\ fdSet' = fdSet \ {fd[t]}
  /\ nowConnections' = nowConnections - 1
  /\ mapOwner' = NoThread
  /\ dangling' = dangling \union {u \in Threads \ {t} : Holds(u, fd[t])}
  /\ AfterRelease(t)
  /\ UNCHANGED <<kernelVars, ref, readBuf, mainVars, keep, batch, epollOwner,
                 stopTask, fault>>

(* Mutant: no add_input_fd after the response. *)
NoReAdd(t) ==
  /\ At(t, "readd")
  /\ NextTurn(t)
  /\ UNCHANGED <<kernelVars, connVars, mainVars, dangling, batch, epollOwner,
                 stopTask, fault>>

(* add_input_fd after handle_worker, whatever release_handle did with the   *)
(* descriptor.  The log line after it reads worker->content_buf, although   *)
(* retrieve_worker has deleted the worker.                                  *)
ReAdd(t) ==
  /\ At(t, "readd")
  /\ AddInput(fd[t])
  /\ NextTurn(t)
  /\ fault' \in {"none"} \union (IF FreedReadTraps THEN {"workerFreed"} ELSE {})
  /\ UNCHANGED <<open, inbox, peer, backlog, attempts, connVars, mainVars,
                 dangling, batch, epollOwner, stopTask>>

-----------------------------------------------------------------------------
(* main: pause() returns, stop(), join(), and the destructor.              *)

Stop ==
  /\ Running /\ main = "pause"
  /\ stopTask' = TRUE
  /\ main' = "wake"
  /\ UNCHANGED <<kernelVars, connVars, threadVars, joining, joined, killed,
                 batch, epollOwner, fault>>

(* Mutant: the byte is not written to the pipe. *)
WakeNobody ==
  /\ Running /\ main = "wake"
  /\ main' = "join"
  /\ UNCHANGED <<kernelVars, connVars, threadVars, joining, joined, killed,
                 batch, epollOwner, stopTask, fault>>

WakeThreads ==
  /\ Running /\ main = "wake"
  /\ ready' = ready \union {PipeFd}
  /\ main' = "join"
  /\ UNCHANGED <<open, epollSet, inbox, peer, backlog, attempts, connVars,
                 threadVars, joining, joined, killed, batch, epollOwner,
                 stopTask, fault>>

KillThread(t) ==
  /\ Running /\ main = "join" /\ joining = NoThread /\ t \notin joined
  /\ killed' = killed \union {t}
  /\ joining' = t
  /\ UNCHANGED <<kernelVars, connVars, threadVars, main, joined, batch,
                 epollOwner, stopTask, fault>>

JoinThread(t) ==
  /\ Running /\ joining = t /\ pc[t] = "done"
  /\ joined' = joined \union {t}
  /\ joining' = NoThread
  /\ killed' = killed \ {t}
  /\ UNCHANGED <<kernelVars, connVars, threadVars, main, batch, epollOwner,
                 stopTask, fault>>

(* ~Http_Server closes the descriptor of every handle left in m_fd_set, and *)
(* the object goes, with the batch and the map.                             *)
Destroy ==
  /\ Running /\ main = "join" /\ joined = Threads
  /\ main' = "exited"
  /\ open' = open \ fdSet
  /\ epollSet' = {}
  /\ ready' = {}
  /\ fdSet' = {} /\ batch' = {}
  /\ UNCHANGED <<inbox, peer, backlog, attempts, mapOwner, ref, readBuf,
                 nowConnections, threadVars, joining, joined, killed,
                 epollOwner, stopTask, fault>>

-----------------------------------------------------------------------------
ClientStep ==
  \/ Connect
  \/ \E f \in Fds, r \in Traffic : ClientSend(f, r)
  \/ \E f \in Fds, how \in {"closed", "reset"} : ClientLeave(f, how)

(* What a thread does under, or to get, _epoll_mutex. *)
LoopStep(t) ==
  \/ SvcTop(t) \/ LockEpoll(t) \/ EpollWait(t)
  \/ PopListen(t) \/ PopPipe(t) \/ \E f \in Fds : PopConnection(t, f)
  \/ AcceptOne(t) \/ AcceptEnd(t)
  \/ RefuseConnection(t) \/ CountConnection(t)
  \/ InsertHandle(t) \/ RegisterConnection(t)

(* What it does with the connection it was handed. *)
RequestStep(t) ==
  \/ GetHandle(t) \/ AssertHandle(t)
  \/ \E r \in Traffic : ReadRequest(t, r) \/ ReadEmptyRequest(t, r)
  \/ ReadFails(t)
  \/ \E u \in Threads : RaceOnReadBuf(t, u)
  \/ UseFreedHandle(t)
  \/ SendResult(t) \/ SpinEnds(t)
  \/ ReleaseKeep(t) \/ ReleaseLast(t) \/ ReleaseShared(t) \/ EraseHandle(t)
  \/ ReAdd(t)

MainStep ==
  \/ Stop \/ WakeThreads
  \/ \E t \in Threads : KillThread(t) \/ JoinThread(t)
  \/ Destroy

(* The process has ended, by itself or by main's return. *)
Ended == ~Running /\ UNCHANGED vars

Next ==
  \/ ClientStep
  \/ \E t \in Threads : LoopStep(t) \/ RequestStep(t) \/ Signal(t)
  \/ MainStep
  \/ Ended

(* Every thread keeps running, but nothing makes a spin end.  The clients   *)
(* need not do anything, and nobody has to stop the server.                 *)
Fairness ==
  /\ \A t \in Threads :
       WF_vars(pc[t] # "spin" /\ (LoopStep(t) \/ RequestStep(t) \/ Signal(t)))
  /\ WF_vars(MainStep /\ ~Stop)

Spec == Init /\ [][Next]_vars

FairSpec == Spec /\ Fairness

-----------------------------------------------------------------------------
(* Properties.                                                             *)

(* Every variable has its type. *)
TypeOK ==
  /\ open \subseteq Fds /\ epollSet \subseteq Fds
  /\ ready \subseteq Fds \union {ListenFd, PipeFd}
  /\ inbox \in [Fds -> Seq(Traffic)]
  /\ peer \in [Fds -> {"up", "closed", "reset"}]
  /\ backlog \in Nat /\ attempts \in 0 .. MaxAttempts
  /\ batch \subseteq Fds \union {ListenFd, PipeFd}
  /\ epollOwner \in Threads \union {NoThread}
  /\ mapOwner \in Threads \union {NoThread}
  /\ fdSet \subseteq Fds
  /\ ref \in [Fds -> Int]
  /\ readBuf \in [Fds -> Seq(Traffic)]
  /\ nowConnections \in Int
  /\ stopTask \in BOOLEAN
  /\ pc \in [Threads -> Pcs]
  /\ fd \in [Threads -> Fds \union {NoFd}]
  /\ keep \in [Threads -> BOOLEAN]
  /\ dangling \subseteq Threads
  /\ main \in {"pause", "wake", "join", "exited"}
  /\ joining \in Threads \union {NoThread}
  /\ joined \subseteq Threads /\ killed \subseteq Threads
  /\ fault \in {"none", "assert", "nullWrite", "dataRace", "handleFreed",
                "workerFreed"}

(* The two critical sections of the code exclude each other's threads: the  *)
(* owner of _epoll_mutex is the thread between lock and unlock in svc, the  *)
(* owner of _map_mutex the one between close and erase in release_handle.   *)
MutexInv ==
  \A t \in Threads : /\ epollOwner = t <=> pc[t] \in EpollPcs
                     /\ mapOwner = t <=> pc[t] \in ErasePcs

(* _now_connections counts the entries of m_fd_set and the connection that  *)
(* is about to become one, whatever the clients do and however often a      *)
(* handle is released, and it stays within MAX_FD_NUM.                      *)
ConnectionsCounted ==
  main # "exited" =>
    /\ nowConnections = Cardinality(fdSet)
                        + Cardinality({t \in Threads : pc[t] = "insert"})
    /\ nowConnections <= MaxConn

(* A descriptor accept hands out again while its previous owner is between  *)
(* close() and erase() never meets the old entry of m_fd_set: insert_handle *)
(* does not fail, so no connection is served with a stale handle.           *)
InsertSucceeds ==
  \A t \in Threads :
    pc[t] = "insert" /\ mapOwner = NoThread => fd[t] \notin fdSet

(* No descriptor is leaked and none is closed behind the map's back: the    *)
(* open descriptors are those of m_fd_set, less the one being erased, and   *)
(* the one being accepted.                                                  *)
OpenAccounted ==
  LET erasing == {fd[t] : t \in {u \in Threads : pc[u] \in ErasePcs}}
      entering == {fd[t] : t \in {u \in Threads : pc[u] \in {"count", "insert"}}}
  IN  open = (fdSet \ erasing) \union entering

(* An edge is never lost: a registered descriptor with something to read    *)
(* (or whose client left) is waiting in epoll or in the batch.              *)
NoLostEdge ==
  \A f \in epollSet : Readable(f) => f \in ready \union batch

(* A connection is served by one thread at a time, and its reference count  *)
(* is the number of threads that use its handle.                            *)
ExclusiveHandle ==
  /\ \A f \in Fds, t, u \in Threads : Busy(t, f) /\ Busy(u, f) => t = u
  /\ \A f \in fdSet : ref[f] = Cardinality({t \in Threads : Holds(t, f)})

(* A descriptor epoll knows, or has put in the batch, is an open connection *)
(* with its entry in m_fd_set and no thread at work on it.                  *)
RegisteredIsIdle ==
  \A f \in epollSet \union (batch \intersect Fds) :
    f \in open \intersect fdSet /\ ~\E t \in Threads : Busy(t, f)

(* No connection is forgotten: each is registered with epoll or in the      *)
(* hands of a thread that will register or close it.                        *)
NoOrphan ==
  \A f \in fdSet :
    f \in epollSet \/ \E t \in Threads : Busy(t, f) \/ (pc[t] = "register" /\ fd[t] = f)

(* The handle get_handle looks up is there -- assert(hdle) -- and is never  *)
(* shared with another thread or deleted while in use.                      *)
HandleSafe == fault \notin {"assert", "dataRace", "handleFreed"}

(* assert(hdle) in recv_request never fails. *)
AssertHolds == fault # "assert"

(* After stop() every thread leaves svc, join() returns, and the process    *)
(* exits with every connection closed.                                      *)
StopTerminates ==
  stopTask ~> ((main = "exited" /\ open = {}) \/ fault # "none")

(* A connection with a request in its socket is handed to a thread (again   *)
(* after every request served on it) or refused, unless the server stops:   *)
(* no wakeup is lost between the edge-triggered epoll, the shared batch and *)
(* the registration that follows the response.                              *)
RequestServed ==
  \A f \in Fds :
    inbox[f] # <<>> ~>
      ((\E t \in Threads : Busy(t, f)) \/ f \notin open \/ stopTask)

(* Every connection a client opens is accepted or refused. *)
BacklogDrained == backlog > 0 ~> (backlog = 0 \/ stopTask)
=============================================================================

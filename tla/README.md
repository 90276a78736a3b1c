# TLA+ models of dlg_service

dlg_service is a C++ dialogue and search service: an epoll HTTP server in front
of a request handler, a dialogue engine over an inverted index and a
double-array index, and a set of supporting programs (index builders, an HTTP
client, a MySQL wrapper, near-duplicate detection). This directory holds TLA+
modules that model its code, the TLC configurations that check them, and proofs
that the TLA+ proof system (TLAPS) checks. Paths below are relative to the
repository's code root, `src/`.

## 1. Inventory

| component | state | operations | interacts with | what makes it correct |
|---|---|---|---|---|
| HTTP server (`http_server/http_server.cpp`, `socket_handle.hpp`, `worker.hpp`) | epoll set, shared event batch, map fd -> SocketHandle, connection counter, stop flag; per handle a reference count and a read buffer | `svc`, `recv_request`, `get/insert/release_handle`, `retrieve_worker`, `stop` | receiver threads share it through three mutexes; calls HttpHandler; kernel sockets | one thread per connection, no lost edge, no leaked or doubly closed descriptor, exact counter, clean stop |
| Thread pool (`http_server/task_base.cpp`) | thread array, barrier | `open`, `activate`, `join` | base class of the server | threads start together, all are joined |
| Blocking queue (`wait_list.hpp`, `linked_list.hpp`) | list, `_num`, `_alive`, condition | `put`, three `get`s, `flush` | any producers and consumers | FIFO, no lost wakeup, flush releases everybody |
| Handler (`HttpHandler.cpp`, `locate_getresult`) | shared result vector, location table | `handle_worker`, `generate_response`, `GetLocationResult` | called by every receiver thread, calls back `retrieve_worker` | each response belongs to its request; results ordered by distance |
| Response (`http_server/HttpResponse.cpp`) | field table, content | `setField`, `fillContent`, `dump_to_buff` | handler fills, server dumps | never writes past the buffer, length equals what was written |
| Configuration (`configuration.cpp`, `config_map.hpp`) | section tree | `open`, lookups | main | defaults and overrides |
| HTTP client (`http_client`) | socket, timeouts | `connect_server`, `send`, `recv` | the server | framing independent of how the stream is cut |
| Dialogue engine (`dialogue/dialogue.cpp`) | result lists | `Init`, `IndexOutcome`, `show_results` | both searches, edit distance | ranking and cut-off |
| Document search (`doc_search`, `index/inv_index/doc_index.cpp`, `index/data_make/dlg_log_index.cpp`) | posting lists | `MakeIndex`, `GetUnionResults`, `SearchDoc`, `BinarySearch` | common index | union or intersection as intended, each document once |
| Common index (`include/common_index.h`, `HashVector_Enhanced.h`) | term hash, postings; build and sorted form | `Add`, `ChangeToHVIndex`, `Save`, `Load`, `GetInv`, `Find` | document search | lookup returns what was added, before and after a save |
| Double-array index (`index/index_da/Index_da.cpp`, `da_search`) | offset tables, double array | `MakeIndex`, `OutputIndexFile`, `LoadIndex`, `uniq`, `merge` | vendored darts | every key finds its own group |
| Edit distance (`include/common/EditDist.cpp`) | matrix | `edit`, `Calculate`, `EditSort` | dialogue engine | minimal edit cost, sorted result |
| Database (`common_base/database.cpp`) | connection, table lock, result set | `execute`, `lock`, `reconnect`, `fetch` | MySQL | lock and results do not outlive a session |
| Signatures and configuration (`simhash/hashsign.cpp`, `sim_conf.cpp`) | two configuration buffers and an index | `simhash_sign`, `get_similar_doc`, `conf_ontime_reload` | configuration files | readers never see a buffer being filled |
| Near-duplicates (`simhash/bak/sim_process.cpp`, `redis.cpp`) | lists of values in redis, one per pair of signature parts; locals of each request | `sim_process` with LRANGE, LREM, RPUSH, EXPIRE, LTRIM | any number of threads on one redis | no similar document is missed, none stored is lost |
| Query matching (`QueryMatch`), segmentation (`segment`), string and encoding utilities, command-line drivers, vendored libraries | | | | see section 7 |

The hard behaviours of the server are interleavings: the receiver threads share
one epoll instance, one batch of events and the handle map; a descriptor number
is reused by the kernel as soon as it is closed; events are edge-triggered, so
one that is dropped is gone; and `stop()` has to reach threads that are blocked
in the kernel, waiting for a mutex or in the middle of a request. PROJECT.json
lists these hazards line by line with the properties that cover them.

## 2. Plan

1. **HttpServer** (done): event loop, connections, requests, shutdown.
2. **TaskBase** (done): barrier start, failed thread creation, a signal that
   comes before `pause()`; it implements the abstract **ServiceLife**.
3. **HttpHandler** (done): threads in one shared `locateResult`, the ordered
   insertion of `GetLocationResult`.
4. **HttpClient** (done): the stream, cut at any place, with timeouts.
5. **SimProcess** (done): near-duplicate detection by several threads over redis.
6. **SimConf** (done): the configuration that is reloaded while request threads
   look products up in it.
7. **Segment**, **HashVector**, **DocIndex**, **EditDist**, **DaIndex** and
   **Dialogue** (done): the algorithms of the indexes and of the ranking, and the
   process that loads what builders left behind and answers from it.

Nothing is left of the plan that would be worth its checks: the queue
(`wait_list.hpp`), the database wrapper, the response buffer, the configuration
and query matching are dead, external, stateless or without a stated meaning, as
section 7 says one by one. SimProcess takes the values of the configuration as constants: that
a reload may fall between the three lookups of one request (`bak/redis.cpp:290`, `669`,
`752`) is left to SimConf, which says what successive lookups may see.

## 3. Modules

| module | content |
|---|---|
| `HttpServer` | the server as a state machine, its properties and the mutants of its actions |
| `MCHttpServer` | traffic and symmetry for TLC |
| `HttpServerProofs` | type correctness, the invariants that hold under any traffic, and those that hold when clients keep their connections |
| `TaskBase`, `ServiceLife` | the process from `main` to exit, and the promise it keeps |
| `TaskBaseProofs` | type correctness, thread ownership and the refinement |
| `HttpHandler`, `MCHttpHandler` | `generate_response` and `GetLocationResult` in many threads; tables and symmetry for TLC |
| `HttpHandlerProofs` | the response of a thread that was alone is right, for every table |
| `HttpClient`, `MCHttpClient` | the client's `send` and `recv` over a byte stream; responses for TLC |
| `HttpClientProofs` | the client returns exactly the response, for every size and every cut |
| `Lists`, `ListProofs` | sorting and selecting in lists; induction, recursion, sorted sets, joined lists, for the proofs below |
| `SimProcess`, `MCSimProcess` | `sim_process` in many threads over redis; requests for TLC |
| `SimProcessProofs` | similar signatures share a redis key, what is stored is kept, every request is shown it |
| `SimConf`, `MCSimConf` | the two configuration maps, the reload thread and the readers; files for TLC |
| `SimConfProofs` | no reader is in a map being filled, none goes back, what is served is whole |
| `Segment` | texts and their words |
| `HashVector` | the table from words to postings: build, sort, write, read, find |
| `DocIndex` | the inverted index over it: build, load, search |
| `EditDist` | the distance of two texts, the order by it, and its definition by single edits |
| `DaIndex` | the exact index from a question to its answers |
| `Dialogue`, `MCDialogue` | builders, files and the answering process, which compose the four; logs and queries for TLC |
| `DialogueProofs` | a query finds what was logged, the nearest of it is shown and answered, from any files and any cut |

The state machines of the server meet at two seams. `TaskBase` keeps of `svc` only that a
thread stays in it until `_stop_task` is set and then returns, which
`StopTerminates` checks in `HttpServer`. `HttpServer` keeps of the handler only
the one step in which `retrieve_worker` is called back (`SendResult`); that the
handler may corrupt `locateResult` before it is the subject of `HttpHandler`, and
every property of `HttpServer` supposes it has not.

### HttpServer

State and code:

| variables | code |
|---|---|
| `open`, `epollSet`, `ready`, `inbox`, `peer`, `backlog` | the kernel: open connections, epoll registrations, edges not yet returned, socket buffers, what the client did, connections to accept |
| `batch` | `_epoll_ready_event[0 .. _epoll_ready_event_num - 1]`; a set, because `svc` consumes it from the back and the kernel fills it in any order |
| `epollOwner`, `mapOwner` | `_epoll_mutex`, `_map_mutex`. `_connections_mutex` guards one variable in one step |
| `fdSet`, `ref`, `readBuf` | `m_fd_set`, `SocketHandle::_ref`, `_read_buf` (whole requests read ahead) |
| `nowConnections`, `stopTask` | `_now_connections`, `_stop_task` |
| `pc`, `fd`, `keep` | where a thread is between two shared accesses, its local `fd`, `worker->keep_alive` |
| `dangling` | threads whose SocketHandle another thread has deleted |
| `main`, `joining`, `joined`, `killed` | the main thread in `pause`, `stop`, `join`; signals sent by `join` |
| `fault` | how the process died: failed `assert(hdle)`, write through a null pointer, race on a read buffer, use of a deleted handle or worker |

Actions follow the code between two points where another thread can be seen:
`SvcTop`, `LockEpoll`, `EpollWait`, `Pop*` and the accept loop (`AcceptOne`,
`RefuseConnection`, `CountConnection`, `InsertHandle`, `RegisterConnection`,
`AcceptEnd`) are `svc`; `GetHandle`, `AssertHandle`, `Read*`, `SendResult`,
`Release*`, `EraseHandle`, `ReAdd` are `recv_request` with the handler's call
back to `retrieve_worker`; `Stop` to `Destroy` are `main`, `stop`, `join` and the
destructor; `Connect`, `ClientSend`, `ClientLeave` are the environment.

Abstractions, and why they are sound for these properties:

* A request is a record of the three facts the control flow depends on: whether
  it arrives and parses, whether it asks for keep-alive, whether it has content.
  A request that arrives in part, or late, is one that is not well formed: the
  code treats both by `release_handle(hdle, true)`.
* A SocketHandle is identified by its descriptor. `m_fd_set` holds one handle
  per descriptor and a handle never changes its own; a deleted handle that is
  still used is tracked by `dangling`.
* `release_handle` on the last reference is two steps, `ReleaseLast` (the
  descriptor is closed) and `EraseHandle`, since `accept` in another thread can
  return the closed number in between. The other branches are one step.
* `writen_timeout` on a reset connection subtracts -1 from what is left and
  loops until the int overflows; what follows is undefined, so `SpinEnds` may
  happen or not.
* The listening socket and the pipe are always open and registered; their
  numbers are outside `Fds`. `accept` returns a descriptor at or above 1024 only
  when no lower one is free.
* Undefined behaviour that ends the process is a fault, after which nothing
  moves; reading the deleted worker in the last log line of `recv_request` may or
  may not be fatal (`FreedReadTraps`).

### TaskBase

`main`, `next` and `array` are where `main.cpp` is, the loop variable of `open`
and `join`, and `m_thread`; `arrived` is the barrier, `pc` where each thread of
`run_svc` is; `handlerSet` and `stopTask` are the server's members that the start
and the stop publish. `InstallHandlers` to `EnterPause` are `main` up to `pause()`
with `task_base::open` and `activate` in it, `Stop` to `Delete` the rest, with
`join` one step per call it makes. `InitFails` and `CreateFails` are the calls of
`exit(-1)`; the second leaves threads at the barrier.

A signal (`TermSignal`) sent to the process is taken by the main thread, as Linux
does when that thread does not block it. It kills before `signal()` has run, ends
`pause()`, and at any other moment runs the empty handler and is lost: a signal
that comes during the start does not stop the server. `pthread_kill` makes a
thread's blocking call return; here that is not a state of its own. `join` is
called by `stop()` and by the destructor; `m_thread = NULL` is what keeps the
second from joining again.

`ServiceLife` is the abstract specification: a phase, the threads that serve and
those that have left. `TaskBase` implements it with `phase` read off `main`,
`stopTask` and main's arrival at the barrier, `serving` the threads in `svc` and
`left` those that have returned.

### HttpHandler

| variables | code |
|---|---|
| `locateResult` | `HttpHandler::locateResult`, one for all threads, as indices of table records |
| `pc`, `next`, `vecDistance`, `returnLen`, `json` | where a thread is in `generate_response`, the iterator and local vector of `GetLocationResult`, the locals of `generate_json_result` and the items it has appended |
| `overlapped`, `requests`, `fault` | history: who shared the vector, how many requests; how the process died |

A step is one operation on `locateResult` with the local work around it: `Clear`,
`InsertRecord` (search of `vecDistance`, then `push_back` or both `insert`s), the
two reads of `size()` (`CompareSize`, `TakeSize`), each `locateResult[i]`. Two
threads between their `clear()` and their last read may at any moment corrupt the
vector (`Corrupt`), which ends the process; the other outcomes of the race are the
interleavings of whole operations. An insertion or a read outside the vector is a
fault too. `overlapped` collects the threads that met another one since their last
`clear()`: the properties separate what the race can do from what holds without
it.

`Table` gives each record's distance from the fixed coordinates `generate_response`
uses. Those come from floating-point formulas; only their order matters, and that
a record with bad coordinates gives NaN, which compares false with everything: it
passes the distance filter and never stops the scan. `SearchDistance` and
`ResultMax` stand for the constants 10000000000 and 10. In the code no distance on
earth reaches the first; the record beyond it in the runs exercises the filter
`GetLocationResult` has. Loading the table, the text of JSON and the formula
itself are not modelled.

### HttpClient

| variables | code |
|---|---|
| `peer`, `got`, `shape`, `pending`, `inbox` | external: the server's end, what it has received, the responses it has begun, bytes on the way, the client's socket |
| `chunk`, `header`, `body`, `bodyLen` | `read_buf` and then `part_body`, `header`, what is written to `body_buf`, `body_len` |
| `left`, `ret` | `left` of `writen_timeout`, the result of `recv` |
| `pc`, `requests`, `errorSeen` | where `main` is, its round, whether the socket's pending error has been fetched |
| `clean`, `smooth` | history: no call has failed; nor has this `recv` read in vain |

A byte is the number of its response and its place in it, so what the client takes
from the stream can be compared with what the server put there. The server answers
requests in order, as late and in as many parts as it likes, closes or resets. A
response is a head, an empty line and a body, of one of three kinds: with
`Content-Length`, chunked, neither. `ReadBufSize` stands for `READ_BUF_SIZE` (64) and
`SepLen` for the four bytes of the empty line. `ReadFails` is `read_data` returning 0
or -1, which its callers treat alike: a timeout may happen whenever nothing has
arrived. The request text (`HttpRequest::dump_to_buff`) is not modelled.

The model has what the code does with awkward responses, and `SmoothOutcome` says
precisely how much of it depends on the response alone: an empty line cut by the
64-byte pieces is not seen, and the response is read to its end and refused; a body
that ends exactly with the piece its header ends in is refused although it is
complete; a chunked response sets `body_buf` to null and uses it, which ends the
process; a reset connection ends it by SIGPIPE; a refused connection counts as
connected. After a `recv` that failed, `main` goes on with the next request on the
same connection, and the late response is taken for the next one: `AnswerExact` is
promised only while no call has failed.

### SimProcess

| variables | code |
|---|---|
| `lists`, `ttl`, `now` | external: the lists of redis, when keys expire, the clock |
| `permanent` | `redis_key_is_permanent` of the one user key |
| `pc`, `input`, `redisvalue`, `simdis`, `sameDoc` | where a thread is in `sim_process`, and its locals `input`, `redisvalue`, `output->simdis`, `existSameDoc` |
| `owed`, `taken` | history: documents that were pushed and that nobody took away on purpose; those that an LREM took out and no RPUSH puts back |
| `requests`, `failures` | the bounds |

Each message to redis is a step: `Lrange`, `Lrem`, `Rpush`, `ExpireKey`,
`LtrimValue`, and `LtrimAhead` and `DocDelete` for the strategies that send them.
Redis carries a message for all keys out at once; between two messages other
threads send theirs. A message may fail before or after redis acts on it.
A signature is the set of its one bits and `RedisKeys` follows `make_rediskey`: a key
is the two numbers of a pair of parts, and says nothing of which pair it is. Values
carry document, signature and expiry. Only FULLTEXT, the one pattern that compares
anything, is modelled, for one product and one user key; signatures are inputs.

`owed` loses a document when its LREM is followed by an RPUSH that fails, when the
client deletes it, and when its key expires or an LTRIM takes it. A document that is
found similar and for which no RPUSH is to follow goes from `owed` to `taken`:
`redis_del_value` removes it, and `redis_insert_value` puts back nothing under a
permanent key. `Kept` is about both sets. It demands of either that a document is in
all its lists or in the hands of a thread between LREM and RPUSH, and has one
exception, which it names: a document of `taken` under a permanent key may be missing.
That is a loss of the code and not a promise of it (section 6); under a key that is not
permanent the proof shows that `taken` stays empty, so nothing hides behind the
exception. What an LTRIM may take is left to `TrimsWhatIsDue`, and `SimilarSeen` speaks of
`owed` only: a request that falls between the LREM and the RPUSH of another misses
what that one has in hand.

### SimConf

| variables | code |
|---|---|
| `file`, `mtime`, `fresh`, `edits` | the product configuration file, its time stamp, whether it was changed in the present second; the bound |
| `pc`, `timer` | where the thread is in `conf_ontime_reload`, `file_ismodify` and `load_product_conf`; what is left of its `sleep` |
| `confMtime`, `conf`, `entry`, `permanent` | `conf_mtime`, the parsed file, the loop variable `i`, `ctmp.permanentKeys` |
| `maps`, `gIndex`, `ubmgrIndex` | `g_proconf`, `g_index`, `ubmgr_index` |
| `version`, `loads` | history: which load each map is of |
| `idx`, `age`, `seen` | per request thread the map it is in (it has read `g_index`), for how long, and the version of the last one |

`ClearSpare`, one `SetProduct` per entry, `Switch` and the sleeps are steps of
their own, because readers take no lock. A load fails where the code lets it:
a file that cannot be parsed, no products, a pattern above `SENTENCE`, a product
that `set` refuses; and ends early with success where the result of `set` for a
present key (`HashExist`) is 0, since the last result is what
`load_product_conf` returns. `ctmp` is one object for all products, so
`permanentKeys` of one product are also those of all after it: `Image` says what
a file becomes.

Time is counted in seconds by `Tick`; a sleep lasts at least as long as it is told
and may end late; a lookup lasts at most `LookupTime`. That bound is the one thing
the code relies on and nothing enforces: the sleep of 5 after a switch and the
sleep between polls together have to outlast it (`ConfAssumption`). No program in
the repository starts the thread; `sim_conf.h:34` calls `conf_reload_time` minutes
where the thread sleeps seconds, and the lines that would read it are commented
out, so that the sum may be as small as the 5 alone.

### Dialogue and its indexes

| variables | code |
|---|---|
| `docFile`, `daFile` | the two index files, as sequences of units |
| `docLog`, `docCut`, `daLog` | history: the log each was built from, and whether the first is whole, cut between two units or cut inside one |
| `up`, `idx`, `da` | the process; `m_doc_index`; `DaSearch` and its buffer |
| `query`, `found`, `asked`, `reply` | the last query, `doc_result.data`, the question `show_results` chose, the answer it printed |

`BuildDoc` and `BuildDa` are `doc_index_make_index` and `FormatDlgCor` followed by
`index_da_make_index` with "uniq": the file becomes any prefix of what the whole
build writes, for a build may be killed or the disk may be full; the document index may
end inside a unit, too (`Cuts`). `Start` is
`DIALOGUE::Init` with both loads, `IndexOutcome` one query from segmentation to
answer, `Exit` the end.

* A text is the sequence of its words, since the segmentation library is not in the
  repository; what is kept of a word is its length in bytes, because the code
  compares lengths (two bytes at least, a query's limit of 100, the nearest length), and
  what the conversions make of it.
* The conversions are two functions on words, `FullWidth` (`dbc2gchar`) and `Simplified`
  (`t2sgchar`); the library that computes them, `EncodingConvertor`, is not in the
  repository either, and the constants may be any functions. They stand where the code has them, on one side
  each: `Normalize_` converts the query of the document search (`doc_index.cpp:346`,
  `normalize.cpp:104`) and `MakeIndex` indexes the questions as they were typed;
  `change2qj` converts the keys of the exact index (`Index_da.cpp:1057`) and the lookup takes
  the question shown as it is (`Da_Search.cpp:153-171`). Questions with one key
  overwrite each other (`dic_map`); which of them is last is up to `std::sort`, whose
  `comp` finds them equal, so `SortedQuestions` is the set of all orders it may leave.
* An offset counts words, docs or groups of answers instead of bytes. A file is a
  sequence of units: a `fwrite` or a node. `ReadInFile` checks the reads of the words and
  the number of buckets and none after that: behind the end of a cut file `index`
  and `size` keep what they were (before the first bucket: anything, `index0`
  and `size0`), and nodes are as `NODETYPE()` makes them.
* A cut inside a unit leaves the low bytes of the number it hits (`Torn`): of a node
  `begin`, `end` and `word_offset` come in this order, and what is not there is as
  `NODETYPE()` has it; of `index` and `vectSize` the high bytes stay what they were
  (`Got`). `Places` are the powers of 256, or of any other base. In the code's layout a
  node that was cut is seen only in the last bucket: after a cut in an earlier one the
  rounds that follow read nothing more, find `index` unchanged and fill that bucket with
  empty nodes.
* `Wap` is what `operator=` of a key node does, which leaves `word_offset` alone: the
  sort moves ranges of postings and not words. `Partition` and `QSort` follow
  the code's loops. With the words in the order of the map nothing has to move, which
  `FoundWhole` needs and the proof spells out (`QSortInOrder`).
* `SearchDoc` succeeds always: its early return is commented out.
* The double array is the vendored darts, taken as a function from keys to offsets.
* `rand` among several answers is any of them.
* `da_index` is used before it is set: `Start` is a start that survives it.
* Loads and builds do not overlap, and a build while the process runs is one after its
  end: it reads its files only once. Malformed log lines, synonyms, black list
  and stop words have no part: the process loads none.

## 4. Runs

| run | instance | shows |
|---|---|---|
| keepalive | 2 threads, 2 descriptors, 3 connections, keep-alive and malformed requests, resets | `TypeOK`, `ExclusiveHandle`, `RegisteredIsIdle`, `NoOrphan`, `NoLostEdge`, `HandleSafe` |
| mixed | 3 threads, 1 descriptor and 1 that svc refuses, 3 connections, a limit of 2, requests without keep-alive, with and without content | `MutexInv`, `ConnectionsCounted`, `InsertSucceeds`, `OpenAccounted` |
| live | 2 threads, a limit of one connection, a second descriptor that svc refuses, pipelined keep-alive requests, `FairSpec` | `StopTerminates`, `RequestServed`, `BacklogDrained` |
| assert | 2 threads, 1 descriptor, requests without keep-alive | `AssertHolds` is violated (section 6) |
| life | 4 threads, as in `http.cfg`; any failure, any signal; `FairSpec` | `TypeOK`, `HandlerBeforeSvc`, `ThreadsOwned`, the refinement `KeepsPromise`, `StartSettles`, `SignalStops` |
| handler | 2 threads, 3 requests, 6 records: a tie, a NaN, one too far, with more candidates than `ResultMax` | `TypeOK`, `AnswerRight`, `DistancesOrdered`, `FaultNeedsOverlap` |
| answer | 2 threads, 3 requests, 2 records | `AnswerAlwaysRight` is violated (section 6) |
| stream | pieces of 3 bytes, an empty line of 2, a buffer of 5, 2 requests, 6 shapes of response; `FairSpec` | `TypeOK`, `AnswerExact`, `SmoothOutcome`, `CallsReturn` |
| sim | 2 threads, 3 requests of 5 kinds, near-duplicates in 3 parts of one bit, 1 failure, 2 ticks, lists truncated at 2 values | `TypeOK`, `Kept`, `SimilarSeen` |
| trim | 1 thread, 3 documents with different lifetimes, no failure | `TrimsWhatIsDue` is violated (section 6) |
| conf | 1 reader, 2 products, 2 keys, 5 files, sleeps of 1 and 2, lookups up to 2, 2 edits; `FairSpec` | `TypeOK`, `ReadersDisjoint`, `ServedWhole`, `LookupsForward`, `EditServed` |
| dialogue | 3 logs over 5 words in 2 buckets, one of them half-width and one traditional, every prefix of both files and every cut inside a unit of the first, 36 queries, `MaxDistance` 2 | `TypeOK`, `FoundWhole`, `NearestShown`, `AnswerLogged`, `KnownAnswered` |

Bounds. `MaxAttempts` (3) connections over fewer descriptors means every run
reuses descriptors; two threads suffice for a pop, close or registration
to race with an accept, and the third in `mixed` lets two threads serve while
one accepts. `MaxPending` (1, or 2 in `live`) bounds unread requests of one
client; a client may send again as soon as one is read. `MaxEvents` = 2 is less
than the number of possible events (listening socket, pipe, connections), so
batches are both partial and shared. `MaxDebt` (1) stops a client once its
handle's reference count is that far below zero: the double release of
`release_handle` would otherwise make the count, and the state space, unbounded.
`mixed` reaches negative counts. Its limit of two connections lets `accept`
return the descriptor a thread has closed and not yet erased; with a limit of one
the counter would refuse it. Deadlock is checked in
all runs but `conf`, where `exit(1)` ends the process for good; elsewhere a process that
has ended stutters in `Ended`, and nothing else may stop.

Fairness. Each receiver thread and the main thread are scheduled (weak fairness
of each thread's steps, with a spin in `writen_timeout` exempt, and of main
except for `Stop`); mutex waiters need no strong fairness for the properties
checked, because a thread that leaves `_epoll_mutex` either serves or comes back.
Clients are never fair. Resets are off in `live`: a reset can trap a thread in
the spin, and then `stop()` does not return. `FreedReadTraps` is off as well, so
that the liveness properties are about the whole life of the process.

In `TaskBase` main's own steps and each thread's are weakly fair, since all are
runnable until they block in the barrier, `pause()` or `pthread_join`; signals and
failures are not. `TaskBase` needs no bound. In `HttpHandler`, `MaxRequests` is one
more than the threads, so a request can follow an overlapping one in the same
thread; the handler has no loop that could fail to end, and no liveness is stated.

In `HttpClient` only `send` and `recv` are fair: whatever they wait for, `poll` comes
back. The server owes nothing. The shapes of `SomeShapes` put the empty line at the
end of a piece, across two, and before bytes of the body, with nothing, one piece or
two left to read; two requests are enough for a response to be late for the next.
In `SimProcess`, three requests allow two that overlap after one that stored
something, with lists longer than `MaxRedisList`; two ticks let values and keys expire
between any two messages; one failure can follow every message. No liveness is
stated: a request is a straight line.

In `SimConf` one reader is enough: readers write nothing that another thread reads,
and the proofs are for any number. The files are valid ones of one and two
products, one without products, one with a bad pattern after a good product and one that
names a product twice; torn and missing files come on top. Two edits let a load fail
after one that worked and let two changes share a second. Fair are the reload thread, the clock and
the end of lookups; the operator is not. In `Dialogue` four of five words share a
bucket, so that the sort and the binary search have something to do; questions are
repeated, share words, have a word twice, are too short to be indexed, are not their own
key, or have the key of another; the
queries are all of one and two words and six longer ones, among them one of
`MaxQuery` bytes and one beyond. Numbers of a file are three digits in base 2, so that a cut
inside one leaves values different from all others. The shared bucket is the last, the only one
in which a node that was cut is seen. Nothing is promised to happen: every step is a call.

## 5. Proofs

`HttpServerProofs` proves, from `ServerAssumption` only (finite sets of threads
and descriptors, distinct special descriptors), for every number of threads,
descriptors and connections and every traffic:

* `TypeCorrect`: `Spec => []TypeOK`. `TypeOK` alone is not inductive: a step with
  the dead descriptor would leave the types, so `TypeInv` adds `FdKnown`.
* `ServerInvariant`: `Spec => []ServerInv`, the conjunction of `TypeInv`,
  `MutexInv`, `MapInv`, `ConnectionsCounted` and `EdgeInv`. `MapInv` carries the
  argument. It describes the window between `close()` and `erase()`: `OpenExact`
  (a descriptor is open iff it is in `m_fd_set` and not being erased, or is being
  accepted), `HoldersMapped` (a live handle is mapped) and `EnteringFresh` (an
  accepted number that is still mapped is being erased). With `MutexInv` (one
  eraser, one accepter) the corollaries `InsertNeverFails`, `NoDescriptorLeak`
  and `CounterExact` follow; `EdgeInv` adds to `NoLostEdge` that `epoll_wait` is
  called on an empty batch only, giving `EdgesKept`. These hold in spite of the
  defect of section 6.

The second part of `HttpServerProofs` assumes `KeepAliveOnly`, every well-formed request
asks for keep-alive, and proves `KeepInv` inductive relative to `ServerInv`.
`ConnInv` says a connection is in exactly one place (registered or batched, being
registered for the first time, or with one thread); `UseInv` says `_ref` is one
while a thread has the handle and zero otherwise, that answered requests keep
their connection, and that no fault of the handle map has happened. Corollaries:
`OneThreadPerConnection`, `RegisteredConnectionsIdle`, `NoConnectionOrphaned`,
`HandlesSafe`. The hypothesis is needed: without it they are false.

`TaskBaseProofs` proves, for every number of threads, `TaskInvariant`: `Spec =>
[]TaskInv`, where `TaskInv` adds to `TypeOK` what the barrier knows (`BarrierInv`:
who has arrived, and that nobody is past it before everybody has, by
the lemma `FullBarrier` on cardinalities), how far `open` has come (`OpenInv`) and
what `m_thread` is at each point of main (`ArrayInv`, `JoinInv`: the threads below
`next` have ended). From it follow `HandlerFirst`, `ThreadsAreOwned` and
`PromiseKept`, `Spec => Life!Spec`.

`HttpHandlerProofs` proves, for every table, every number of threads and every
interleaving, `HandlerInvariant`: `Spec => []HandlerInv`. Its core is `AloneInv`:
while a thread has not met another, `locateResult` is exactly the candidates
among the records before `next`, in order, and `vecDistance` their distances
(`Matches`); later the items of the response are a prefix of it (`Copies`). `MatchesInsert`
is the step that inserts, from the lemma `InsertAtElements` on `InsertAt`;
`OthersAlone` shows that a step of another thread cannot disturb it;
`AnswerFromCopies` derives the reference definition `IsAnswer`. The results named
in PROJECT.json are `AloneIsRight` (`AnswerRight`), `AloneIsSafe`
(`FaultNeedsOverlap`), `HandlerTypes` (`TypeOK`) and `SearchOrdered`
(`DistancesOrdered`, which holds even when threads overlap). NaN needs care: with it "not greater" is not transitive, and
the order proved is on pairs, not on neighbours.

`SimProcessProofs` proves the argument `make_rediskey` rests on, for every way of
cutting signatures into parts: differing bits touch no more parts than there are
bits (`TouchedParts`), so with at most `Blocks - 2` of them two parts agree
(`TwoPartsAgree`), and the key of that pair is common (`SimilarShareKey`). With the
six parts of the code and `DISTANCE` = 5 this covers every `hamdis` up to 4, which is
the assumption on `HamDis`; a request with 5 would also index `simdis[5]`, one beyond
the array. For any number of threads, any requests and any failures it proves of the
specification:

* `TypeCorrect`: `TypeOK` is inductive together with `Requested`: a thread that is not
  idle has a request, and only APPEND trims ahead.
* `StoredIsKept` (`Kept`), inductive relative to the two: every step is shown to take a
  document out of a list only together with its entry in `owed`, or into the hands of
  the thread that is about to push it back (`KeptByAway`), and no step takes it out of
  another thread's hands (`OthersStay`). Only `Lrem` puts a document into `taken`, and only
  for a thread that will not push it back; under a key that is not permanent there is no such
  thread (`TakenInductive`), so the exception of `Kept` is about permanent keys alone. What LREM, LTRIM and the choice of similar values do to a list is
  stated as lemmas on their own (`RemovedOnly`, `SimilarType`, `PushedAgain`, `PushedOwn`).
* `NothingSimilarMissed` (`SimilarSeen`), the action property: only `Lrange` fills
  `redisvalue` (`OnlyLrange`), and a state in which `Kept` holds shows a thread every stored document
  that shares a key with it (`KeptIsSeen`), which similar ones do.

`HttpClientProofs` proves for every size of the read buffer, of the body buffer and of the
request, and for every set of responses:

* `TypeCorrect`: `Spec => []TypeOK`. To it belong that the body stays in the caller's
  buffer and that no read passes the read buffer; `BufferInv` says how full they are
  at each point, `ErrorInv` that an error is returned once.
* `StreamInvariant`. What the client has taken, its socket and what is on the way are
  one stream, and every step of the client only moves a boundary in it. While no call
  has failed (`Live`) that stream is a prefix of the bytes of the response to the last
  request (`Due`), and the client knows where in it it is (`PlaceInv`).
* `AnswersExact` follows: at the end of `recv` the lengths are those of the response,
  and a prefix of the same length is the whole.
* `OutcomeOfResponse`: as long as no read has waited in vain the header is read in full
  pieces (`SmoothInv`), so that what comes with the empty line is a matter of arithmetic
  (`PartBody`) and not of how the stream was cut.

`SimConfProofs` proves for every number of readers, every set of files and all sleeps that
satisfy `ConfAssumption` (a lookup is shorter than both sleeps together):

* `TypeCorrect`: no map ever holds a product with a pattern the code refuses.
* `NoReaderInFilledMap` (`ReadersDisjoint`), by `AgeInv`: a reader that is still in the
  map that is not served has been there at least as long as the thread has slept
  since the switch (`Elapsed`). The state before the first switch needs no sleep, since nobody was
  ever sent to the spare map.
* `LookupsNeverBack` (`LookupsForward`), by `VersionInv`: with nobody in a map that
  changes, the map a reader is in keeps its version, which is at most the one served.
* `WholeFileServed` (`ServedWhole`), by `FilledInv`: the map being filled is the
  image of the entries read so far, whatever the file holds, and is switched to only
  at the end of the file or at a product named twice.

`DialogueProofs` proves every invariant of `Dialogue`, from the assumptions on the
constants only: any ordered words with any lengths and any two conversions, any number of
buckets and any hash, any set of logs of non-empty texts of which at least one has words, any queries, any
`MaxDistance` and `MaxQuery`.

* `Invariant`: `Spec => []IInv`, the conjunction of `FilesCut` (each file is what
  its program writes for some log, or what a cut leaves of it), `Loaded` (a process has what `Load` makes of the
  document file, with some values of the two uninitialised variables, and the exact
  index of the other file) and `Answering` (what is found, shown and replied is the answer to the last
  query). The five invariants do not hold by a step each: they are
  statements about data that a state of `IInv` has, and the rest of the module proves
  them from it.
* `AnswerWasLogged` (`AnswerLogged`): in every order the sort may leave, the questions of the
  exact index are those logged, each once; the offset of a key is that of the last
  question with it (`LastPlace`), so what is found under a key was logged for a question
  that is converted to it (`KeyAnswers`); a file cut behind its text still has all three
  parts that are used.
* `FoundIsWhole` (`FoundWhole`) follows a posting from the log to the answer. `IndexMap`
  has the postings of each word; the buckets that `Added` builds have their words in
  order (`Indexed`); therefore `Partition`, `QSort` and with them `Sort`
  change nothing; `WriteFile` moves the words and writes bucket by bucket
  (`MovedParts`, `WrittenParts`). `ReadInFile` from a file that was cut between two units
  gives, whatever the variables held, only nodes that were written at their place or were never read,
  and from a whole file all of them. A cut inside a unit changes one node or one number: a
  node keeps a `begin` or loses part of its `end` or `word_offset` (`TornParts`), so
  its range is one of the index from its beginning or nothing, but maybe that of another word
  (`ReadBucketParts`, `ReadParts`). The binary search finds a word in a bucket
  that is in order, and in any other bucket finds a node with the word it was asked for or nothing
  (`BisectParts`). So each word of the full-width query has its postings or, from a cut file, none
  or the first of another list (`LoadParts`), and the search finds the docs of the
  shortest (`UnionParts`, `RarestParts`).
* `KnownIsAnswered` (`KnownAnswered`): a logged question that is full-width has each word it is
  searched by, so it is found; its distance to itself is 0 and that of any other text is not
  (`EditZero`); it is shown, and if it is simplified, too, it is its own key, so the exact index
  has answers for it: its own, or those of a question with the same key. Without the two
  conditions the statement is false, and the code gives no reply (section 6).
* `NearestIsShown` (`NearestShown`): the last cell of `edit` is the least number of
  insertions, deletions and replacements that lead from one text to another. One edit changes it by
  at most one (`EditStep`: columns before the edit are the same, those behind it
  differ by at most one), so as many edits as were made, or fewer, are the distance (`NearIsClose`). The other
  way, each cell stands for a text, the first words of one followed by the rest of the other
  (`Mixed`), and each of the three ways to a cell is an edit of it
  (`MixedSteps`), so a text at a distance is reached with that many (`CloseIsNear`).

The modules it is about declare no RECURSIVE operator: a loop of the code is a
recursive function over the number of its rounds. That such a function exists is
`RecursionExists` in `ListProofs`, and what it computes is proved by induction over an
interval (`Induction`), a lemma about sets, since the provers cannot instantiate one
about operators. The other lemmas of `ListProofs` are about sorted sets (`SortBy` lists
each member once, in order), `Pick`, and where the elements of joined lists end up
(`FlattenAt`, `FlattenMap`).

With this every invariant and every safety action property that a passing run
checks is also a theorem. Only model-checked: the liveness properties `StopTerminates`,
`RequestServed`, `BacklogDrained`, `StartSettles`, `SignalStops`, `CallsReturn` and
`EditServed` (TLAPS proves neither liveness under fairness nor ENABLED), and the
violations. Under `KeepAliveOnly`, and not for any traffic, stand the four invariants
of `HttpServer` named above.

## 6. Findings

**A late registration.** `recv_request` calls `add_input_fd(fd)` after `handle_worker`, although
`release_handle`, called inside it, has closed the descriptor when the request
did not ask for keep-alive (`http_server/http_server.cpp:342-343`). Usually
EPOLL_CTL_ADD then fails on the closed number. If another thread has accepted a
connection with that number, popped and unregistered it, the late call registers
it again while it is being served. A second thread can now get the same handle,
the handle can be deleted under one of them, and an event for a connection whose
entry is gone makes `assert(hdle)` (line 309) fail: the run `assert` shows a
shortest trace to the assertion. The proofs show that this is the only way for
it to fail in the model: with keep-alive clients it holds.

**A shared result.** `generate_response` keeps its results in the member
`locateResult` (`http_server/HttpHandler.cpp:204`) of the one handler object all
receiver threads call, without a lock. The run `answer` shows the mildest outcome:
no operation on the vector is torn, and still a client gets records twice, or
none, because another thread cleared or filled the vector in between. `AnswerRight`
shows that the next response of a thread that is alone is right again.

**A trim that comes too late.** `redis_ltrim_value` computes where LTRIM is to start
from what LRANGE returned (`simhash/bak/redis.cpp:756-805`), but by then the request
has pushed its own value, other threads may have pushed or trimmed, and redis may
have expired the key. Counted from the end of a longer list, a start of -n keeps too
little; a start of "all of them" in a shorter list takes the new values. Values that
are not expired are lost, against the comment at line 723: the run `trim`. The model
also shows, without a run of its own, that the result of `redis_del_value` is handed
to `redis_insert_value` and ignored, so a failed LREM leaves a value twice, against
the comment at lines 253-257; that EXPIRE gives the whole key the lifetime of the
newest document.

**Hits of a permanent key.** The comments have a hit deleted by LREM because it "is insert
into the end of list" (`simhash/bak/sim_process.cpp:158-160`,
`simhash/bak/redis.cpp:490-493`). For a permanent key `redis_insert_value` skips all
values found similar (`redis.cpp:329`), and `redis_del_value` has removed them already:
a request that finds a stored document similar deletes it for good, without any failure.
`Kept` holds with this as its one named exception; without it (`permanent /\ x \in
taken` dropped) the run `sim` reports the loss at once.

**Seen on the way, without a run.** The distance and the coordinates of a request are
parsed and then overwritten with constants (`http_server/HttpHandler.cpp:201-203`), so the
response does not depend on the request. A change of the product configuration in the
same second as the stamp last stored is never loaded, and a load that fails is not
tried again (`simhash/sim_conf.cpp:131-137`). `permanentKeys` of a product pass on to all
after it in the file (`sim_conf.cpp:64-103`). What the comments of the document search
call an intersection (`index/inv_index/doc_index.cpp:519`, `560`, `644-645`) is the list of
the rarest word: the returns that would make it one are commented out (`648`, `711`), and
`FoundWhole` states what is found, not what the comments say. `da_index` is used
without being set (`dialogue/dialogue.cpp:72`).

**Conversions on one side.** The query of the document search is made full-width
(`normalize.cpp:104`) and the indexed questions are not (`doc_index.cpp:191`); the keys of the
exact index are made full-width and simplified (`Index_da.cpp:1057`) and the question looked up is
not (`Da_Search.cpp:153-171`). So a logged question with half-width characters is not found by
them, not even by itself; one that is found and is not its own key gets no answer, or
that of another question; and of several questions with one key the last overwrites the answers of the others
(`Index_da.cpp:1218`). `FoundWhole`, `AnswerLogged` and `KnownAnswered` are stated with the
conversions in them and say for which questions the code keeps its promise. No document
of the repository says what should happen to the others, so there is no run for it.

**Index files that were cut.** The results of `WriteFile`
(`include/common_index.h:326`) and of the load of the document index
(`dialogue/dialogue.cpp:62`) are ignored, and no read of a bucket is checked
(`include/HashVector_Enhanced.h:284-296`): a file that was cut is served. `FoundWhole` shows
what that means: cut between two units, each query finds what it should or nothing; cut inside a number,
it may be given the first questions of another word's list.

## 7. Not modelled

Most lines of the repository are not its own or are there more than once: darts (six
headers), pcre, tinyxml, jsoncpp, gary_common and what `hint-3.0.1` brings
along, and second copies of the locate, index and string code. They are external, or stand for nothing
that the modelled copy does not. Of the project's own code:

* `wait_list.hpp` and `linked_list.hpp`: no program includes them.
* `http_server/HttpResponse.cpp`: one sequential dump, whose result the server ignores;
  it may write one byte past a buffer it fills exactly, which a test of one call shows. `http_client/HttpResponse.cpp` is unused.
* `configuration.cpp`, `config_map.hpp`, `load_simhash_conf`: read before any
  thread runs; the values are constants of the modules.
* `common_base/database.cpp`: only its own test program uses it, and what its table lock and
  session do is up to MySQL.
* `QueryMatch`: a score of weights and thresholds over external segmenters, without a
  statement of what it should be.
* `index_da` with "none" and "extend", and the loaders of synonyms, black list and stop
  words: the dialogue process uses none of them. `dlg_log_index` is an older
  `doc_index`.
* The computation of a signature (`simhash_sign`), string, encoding and normalisation
  utilities: functions of their input, without state.
* Within the server: the text of headers and responses, socket options, partial
  requests as such, an unbounded stream of connections (which starves the other
  events because the accept loop keeps `_epoll_mutex`), reads of uninitialised
  poll results.
* Within the indexes: the weight order (`is_need_sort` is false in every caller); a
  `word_offset` that was cut and points into the middle of a word is taken to
  point to a word; a converted text is taken to consist of its converted words, that is, the
  segmentation of the converted text to have the same boundaries; a cut inside a unit of the
  exact index, whose loader checks every read it uses.
* `simhash/bak`: the patterns that compare nothing, message packing, thread buffers.

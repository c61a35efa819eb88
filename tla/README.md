# A TLA+ verification of andren

andren is a C++20 library for event-driven programs on Linux: queues, pools,
timers and wrappers in `include/base` and `source/base`; a task distributor,
pollers, streams and services on top of them in `include/extention` and
`source/extention`; and programs that use them in `example`. This directory holds
TLA+ modules that model it, TLC configurations that check them on small
instances, and TLAPS proofs that hold for every value of the constants.
`PROJECT.json` lists components, runs, mutants, the map from definitions to
source lines, hazards, findings and theorems; this file explains them.

## 1. Inventory

### How the parts fit together

Everything asynchronous in the library is a task. `TaskDistributor` owns worker
threads with one task queue each; the queues are double-buffered MPSC queues
(`MutexQue`). By convention worker 0 is the IO thread. `RePoller` keeps itself
alive by a chain of tasks on the IO thread: each task polls epoll once and adds
the next. `SockStream`, `Acceptor`, `DataGram` and `SSLStream` register
callbacks with a `RePoller` and post their operations to the IO thread;
`Http2ndSession` sits on an `SSLStream`; `AFile` posts file operations to the
same thread. A second stack (`EventLoop`, `EventsService`, `Executor`,
`Schedule`, `IOService`, `io_file`) drives io_uring from a distributor. Beside
these stand containers (`CircularQueue`, heaps, timers), compression, an older
`ThreadPool`, and shared-memory tools.

### Components

| Component | State | Operations | What is hard | What makes it correct |
|---|---|---|---|---|
| MutexQue, MutexQueAlloc | `m_front`, `m_tail`, a mutex | `pushBack`, `appendFromDeque`, `takeOne`, `takeMulti` | the consumer tests and reads `m_front` without the lock | every value once, each producer's order; a FIFO queue |
| MutexQueCircle | the same over two `CircularQueue` | `pushBack`, `takeOne` | buffers of different capacity, wrapped, change sides; they hold `int` whatever `T` is | it is a MutexQue of ints |
| CircularQueue | `m_vec`, `m_head`, `m_current` | push, pop, clear, swap, copy, move | wrap against growth, rotation, moved-from objects | it is a queue |
| TaskDistributor | per-worker queues, `m_exit`, threads, condition variables | `addTask`, `addTask_ASAP`, `start`, `shutdown`, the worker loop | notifies without the lock and a wait without a predicate; shutdown and restart; tasks that add tasks | no task lost, doubled, reordered; shutdown returns with nothing running |
| FreeLockShareMem{Writer,Reader} | `current_uid`, `already_uid` and a slot in shared memory | open, write, read, close | exclusion by two 8-bit numbers that wrap; reopening | exclusion, order, whole messages, delivery |
| RePoller | `m_callbacks`, `m_customEvents`, `m_shutdown`, an epoll instance | `append`, `modify`, `cancle`, `notifyEvents`, `start`, `stop`, one poll | callbacks change the maps a poll iterates over; start and stop race with the end of a poll | events reach their callback; the chain does not die |
| RePoller's object store | `m_objects` | `saveObject`, `findObject` | requests from any thread; called back before stored | one owner per object, finds see the latest save, answers |
| Socket | a descriptor number | close, `closeAndNoClear`, destructor | a closed number is kept and closed again | a number is closed by its owner |
| SockStream, Acceptor, DataGram, SSLStream | a `Socket`, callbacks | listen, read, send, connect, accept, close | descriptor reuse between close and cancel; data before an end of file; handshakes and tickets; SIGPIPE | callbacks act on their own descriptor, data in order, no connection stays half open |
| Http2ndSession, frames | a table of streams, an nghttp2 session | the nghttp2 callbacks, close | interleaved streams, frames for streams that are gone, lifetime against the poller, a handshake that blocks the IO thread | whole requests, callbacks in order, session reclaimed |
| aSSLContextCreator (ALPN) | a list of protocols and handlers | add protocols, select, `startCreate` | length bytes that wrap, lists without a match | what was offered and supported is agreed on |
| EventLoop, EventsService, Executor, Schedule | per-thread maps of services | add, delete, modify, find service; the loop step | configuration tasks race with the steps of the loop; keys of two types | a service is found where it was added; the loop can be destroyed |
| IOService, io_file | requests by uid, an io_uring, descriptors | submit, reap, open, close, read, write | a full ring, failing submits, descriptors handed over | each request answered once, one holder per descriptor |
| AFile | a file | open, close, read, write as IO tasks | errors inside a read loop on the IO thread | calls answered in order |
| ThreadPool, ThreadPoolPortable | per-thread queue, exit flag | `exec`, worker loop, notify, destructor | `exec` from tasks against the destructor; a destructor that notifies nobody | each task once and in its turn; the threads end |
| Heaps, TimerManager | arrays | push, extract, check, run | sift bounds; sums that overflow; tasks armed while a round runs | least first; rounds take what is due, once |
| ZLibStream, Archive | buffers around zlib and libarchive | compress, decompress, finish | loops that stop when input or room runs out; reads and writes that fail unnoticed | what went in comes out, where nothing failed |
| npsmem mutex, co_task, Thread, Epoll, SharedMem, File, Pipe, Signal, end points, database clients, utilities, stubs | none of their own, or a handle | system or library calls | — | — |

The hazards of each, at their lines, are in `PROJECT.json`.

## 2. What is modelled

| Module | Models |
|---|---|
| `Fifo` | abstract: a queue of values with producers, inserters in front and one consumer |
| `MutexQue` | `MutexQue` and `MutexQueAlloc`: one action per locked section or unlocked test |
| `CircularBuffer`, `CircularQueue` | the functions of one `CircularQueue` object; several objects |
| `PlainQueue` | abstract: queue objects that are pushed, popped, cleared, swapped, copied, moved |
| `MutexQueCircle` | `MutexQueCircle` over two `CircularBuffer`s of `int` |
| `Queues` | programs that use one of the three queues |
| `TaskDistributor` | the distributor: clients, workers, owner |
| `FreeLock` | the shared-memory channel, both processes |
| `RePoller`, `ObjectStore` | the poller; its object store |
| `Net` | processes, sockets and descriptors, the poller and the object map as the streams use them |
| `SockStream`, `Acceptor`, `DataGram`, `SSLStream` | the four stream classes |
| `PoolServer` | the servers on a thread pool of `example_socket.cpp` and `example_ssl.cpp` |
| `Programs`, `NetSystem` | the callbacks and main functions of the stream examples; servers against clients |
| `Alpn`, `Http2Session`, `Http2System` | negotiation of the protocol; the HTTP/2 session; the server of `example_http2.cpp` |
| `EventLoop`, `IOService`, `AFile`, `FileSystem` | the event loop; io_uring and its files; `AFile`; programs that use them |
| `ThreadPool` | both pools of `threadpool.hh` |
| `BinaryHeap`, `FourWayHeap`, `MinHeap`, `TimerManager` | heaps and the timer |
| `ZStream`, `Archive` | the loops around zlib and libarchive |
| `BaseClasses` | the single-threaded classes of `base/`, one per behaviour |
| `*Proofs` | lemmas and theorems |
| `MC*` | instances for TLC |

Composition. `MutexQueCircle` is built from `CircularBuffer` and shown to
implement `MutexQue`, but for the conversion of what is pushed to `int`.
`MutexQue` implements `Fifo`; so the queue of a distributor may
be taken as a FIFO sequence, which `TaskDistributor`, `EventLoop` and `Net` do.
`TaskDistributor`'s `OwnerInv` gives in return what `MutexQue` assumes, one
consumer per queue. `RePoller`, `ObjectStore` and the streams use the distributor
as what its theorems say it is: one IO thread that runs accepted tasks one at a
time, in order, until it is shut down. The streams use the poller as what
`RePoller` shows: a poll calls back for the ready descriptors that are still
registered, and events sent by hand are seen by the next poll. `NetSystem` puts
one server and its clients together through the kernel's sockets; `Http2System`
stacks session, SSL stream, acceptor, poller and object map.

Names ending in `_Something` after the name of a definition
(`EndTick_IgnoresStop`) are wrong variants of it. No specification uses them; each
shows that the property it is paired with in `PROJECT.json` would notice that bug.

### State and actions against the code

*MutexQue.* `m_front` and `m_tail` are sequences; `pc` says where the consumer
is in `takeOne`/`takeMulti`: `CallTake` is the call with the unlocked test,
`Swap` the locked swap, `ReturnNone`, `takeOne`, `takeMulti` the ways out. The
consumer may throw the rest of a batch back with `appendFromDeque` (`putBack`).
`sent` and `handled` are history.

*MutexQueCircle.* Its buffers are `CircularQueue<int>` whatever `T` is
(`mutex_que.hpp:290-291`). A value is a producer and a number, and `Stored` is the
conversion: the number modulo `IntRange`, for a `T` that is an integer type. The
one use of the class in the repository is `MutexQueCircle<int>`
(`example_mutexque.cpp:274`), for which nothing changes; for a wider `T` it is a
MutexQue of the converted values, and `ImplementsMutexQue` says just that.

*CircularQueue.* The vector is a function from `0 .. size-1`; `add` follows the
branches of the code: wrap, grow in place, grow with rotation. Moved-from
objects have an empty vector; a push to one is undefined behaviour in the code
and excluded, everything else is allowed.

*TaskDistributor.* `thr[i]` is the position of worker `i` in `startNextLoop`
and `work`, `batch[i]` the deque it took, `stack[i]` the tasks that run on it
(`addTask_ASAP` nests). `pend[c]` separates the push of a caller from its
notify; a notify finds a waiting worker or is lost. `owner` steps through
`start` and `shutdown`, which may be called again at any time.

*FreeLock.* `wpc` and `rpc` are the positions of writer and reader between the
loads, stores and the two halves of the copy. `-1` means both "nothing yet" and
"closed", as in the code. The stores are taken to be seen in program order, as
on x86.

*RePoller.* A bit mask is a set of events, a `std::map<int,int>` a function from
a set of descriptors. `ticks` are the polls in the IO queue; `pc` is the
position of the IO thread in a poll; `current` and `at` are `currentEventsMap`
and the position of the loop. Both loops of `work()` visit in ascending order
the descriptors in both maps; they differ in what `cancle` of the running
descriptor does: it erases the node the second loop stands on (`dangling`).
That is undefined: the loop goes on, ends or crashes. `start` is two steps, the
flag and the first task. epoll and the kernel are external: an interest list,
the ready events, at most `MaxEvents` descriptors per wait, EINTR and failure.
The properties of the passing run are stated for behaviours up to the undefined
step.

*ObjectStore.* A request is queued by `Accept`, and run by one action per branch
of the lambdas; a save of a free id is two steps, because the callback runs
before the object is stored and may make requests.

*Net and the streams.* A process is a record: its main thread, the queue of the
IO thread, the numbers kept in its `Socket`s, the open descriptors, the epoll
instance, `m_callbacks`, `m_customEvents` and `m_objects`. What a call does is an
operator from that record to the next, so a callback that makes several calls is
one step of the IO thread, as it is in the code. An action of a stream that calls
the user back is given the state of the process after the callback; `NetSystem`
supplies it from `Programs`. A stream's references are what keeps it: a task, an
object map entry, a callback that captured it; the last one gone, the `Socket`
closes the number it still has, whoever owns it by then. Descriptor numbers are
reused, so a stale number names another socket. A write to a peer that is gone
succeeds, fails or ends the process (SIGPIPE). The IO thread blocks in a handshake
(`blocked`) and in the loop of `SSLStream::real_close`, which does not end while
the peer is there. `PoolServer` reads the records that a client wrote before it
left, and its answer then is lost or is a SIGPIPE.

*Http2Session.* nghttp2 is external and turns the input into *units*, the pieces
for which it makes callbacks: a block of headers begins, has another field, ends; a
chunk, a frame of data; frames without a stream. A session is a record with the
table `streams` and the sequence of callbacks made. Headers are a map from names,
so `push_data` and a header called "body" share an entry, as in the code.
*Http2System.* A client that has connected is silent (`wait`) until it says `Hello`,
which it need not: `SSL_accept` (`http2.cpp:82`) blocks the IO thread until then, or
until the client leaves. *Alpn* works on byte sequences with length bytes modulo `ByteRange`.

*EventLoop.* A queue, a batch and a map of services per thread; `cursor` is the
service whose events a step of the loop processes. `addService` schedules the key as
`uint64_t` (`% 2^Width`), the other calls as `int64_t`. *IOService.* A request is
in `requests`, then has a context and an entry in `sq`, is in `ring` after the
submit and in `cq` when done; `phase` is the position in `processEvents`. `held` and
the requests say who has a descriptor; a destructor closes what its `io_file` has.
*AFile.* Calls of `main()` queue tasks; the IO thread runs, spins in a read that
fails, or the process aborts in an assertion (with `NDEBUG` it goes on).

*ThreadPool.* `exec` is three steps: the unlocked test of `isExit`, the emplace
under the worker's mutex, the notify. A worker holds its mutex while `locked`;
it moves its tasks out, runs them one by one, waits with a timeout.

*Heaps, TimerManager.* The heaps are operators on sequences of pairs with the
code's index arithmetic, from 0; `MinHeap` pushes and extracts. The timer's clock
is external and only goes forward; `msec + now` is modulo `TimeRange`.

*ZStream, Archive.* One step is one turn of a loop. A compressed stream is a
sequence of codes, each for a run of equal symbols, and a trailer; `deflate` and
`inflate` stop at the end of the input or of the room. An archive is a sequence of
entries, and its own file is taken to be written and read as libarchive was told.
`compress` skips a file only when `stat` fails. One that cannot be opened for
reading and writing, or read to its end, has an entry already: it is filled with zeros
and 0 is returned (`unread`). `decompress` does not notice a short write
(`unwritten`), and never returns when `archive_read_data` fails (`spins`). `old` is
what the target had.

## 3. Runs

| Run | Question | Bounds |
|---|---|---|
| `queues` | nothing lost, repeated, reordered; refinement of `Fifo`; `MutexQueCircle` refines `MutexQue`; `CircularQueue` refines `PlainQueue` | 2 producers, one of which inserts batches in front, 3 values each, with an `int` of 3 values, so that the third is converted: enough for a value on each side of the swap, a partial take and a batch thrown back behind another's push; circular buffers of 2 slots, which must wrap and grow; 2 queue objects of 2 slots (16 in the code, but the branches depend only on positions) and up to 3 elements, up to exchanging the objects |
| `taskdistributor` | order, exactly once, shutdown; liveness | 2 workers, 1 client, 3 tasks, 2 starts: workers also add tasks to each other and to themselves |
| `freelock` | exclusion, order, delivery | the code's own limit 127 and 260 messages, two wraps |
| `freelock_reopen` | finding, below | 2 opens |
| `repoller` | events of kernel and user kept and delivered, chain alive, stop | descriptors 3, -2 and the refused -1; one event of each kind; 2 starts |
| `repoller_iterator` | finding, below | as `repoller`, 1 start |
| `objectstore` | one place per object, finds explained, answers | 2 ids, 4 requests: save, forced save, take, find on one id |
| `netsystem` | ownership of descriptors and callbacks, order of data, frames forwarded once, no half-open connections, service | 2 clients, 3 descriptor numbers (a listener and two streams: none is free, so numbers are reused), 2 messages per client, at most 3 tokens of echo; all nine programs |
| `http2` | negotiation, callbacks, session table and lifetime | 2 clients with 3 records together, either of which may stay silent after it has connected, or 1 client with 6 records on streams 1 and 3 (two interleaved requests) of which 1 belongs to no request; 9 lists of protocols, some with names at which the length byte (4 values) wraps |
| `filesystem` | configuration in order, each request once, one holder per descriptor, answers, destruction | 3 threads, keys -1, 1, 2 of width 4, a submission queue of 1 (the second request finds it full), 1 failing submit, 2 files, 2 descriptors, 3 configuration calls or requests; `AFile` with a file and a directory, 3 calls |
| `threadpool` | each task once, exit, liveness | 2 workers, 3 tasks: one that gives a task to the other worker while the pool is destroyed, and one more |
| `base_classes` | heaps; timer; compression and archive | 6 pushes of 3 keys (two levels of the four-way heap, three of the binary one); 3 timer tasks with intervals 0, 1, 2, 5 where 6 wraps; sources of 3 symbols with buffers of 1 and 2; 2 files of up to 2 bytes with a buffer of 1, and every read or write of them may fail or be short |

Some properties are conjunctions that the module states part by part; for example
`StreamsOwned` is the type invariant, `OwnDescriptor` and `CallbackOwner`.

Deadlock is not checked where the system may stop: when all values, messages or
calls of the bound are used up, when the distributor is shut down, when a program
has ended or an end of the channel closed for good.

What the properties leave out, because the code does not give it: a task that a
task of *another* worker gives to a thread pool while it is destroyed may be left
behind (`LostOnlyByOthers`); keys below 0 are not found again (`ConfigInOrder`);
requests without an entry are dropped (`EachRequestOnce` counts them as lost, and
`OneHolder` their contexts, which nobody reaches any more, as the holders of the
descriptors they leak);
a file closed explicitly has its number closed again (`OneHolder`,
`StealsOnlyAfterClose`); intervals whose sum overflows are due at once
(`NeverEarly`); a file that could not be read comes back with zeros, and one that
was written short is not looked at (`DataRestored`); no session is served while a
silent client keeps the IO thread in `SSL_accept` (`SessionServed`); data that was on its way
over a connection that is lost may be lost with it (`DataInOrder`); the servers of `example_ssl.cpp` never see an end of file
(`HalfOpenEnds`).

### Fairness

* TaskDistributor: weak fairness of each worker, of a caller that still has to notify
  and of the owner inside `start`/`shutdown`. Threads are scheduled by the OS,
  tasks return, and the wait ends by itself after 100 microseconds (`wait_for`),
  which is what `AcceptedRuns` rests on when a notify is lost.
* FreeLock: weak fairness of both ends: the examples poll, and a copy that was
  begun ends. No fairness for starting a write or for closing.
* RePoller: weak fairness of the steps of the IO thread (its tasks and callbacks
  return) and of a `start()` under way; strong fairness of an epoll_wait that
  is not interrupted, since signals do not hit every wait for ever. None for
  users, kernel events or a failing wait.
* ObjectStore: weak fairness of the IO thread, which `Shutdown` ends.
* NetSystem, Http2System: weak fairness of each IO thread, of each main thread
  and of the process that takes frames from the shared memory, which polls. None for
  users, signals, SIGPIPE, or a client's decision to send, to leave or to say hello.
  `SessionServed` therefore has a condition, `[]<>~Stalled`: the IO thread is not left
  for ever in the handshake of a silent client. TLC finds the stall without it.
* FileSystem: weak fairness of the loop's threads, of the kernel's side of the
  ring, of the join in the destructor, and of `AFile`'s IO thread and return.
* ThreadPool: weak fairness of the workers, whose waits are timed, and of a notify;
  strong fairness of getting a worker's mutex, which is free during every wait but
  not continuously.

### Findings

A `violation` run: TLC finds a behaviour of the code that a comment or document
of the repository excludes.

* `freelock_reopen`: -1 means "nothing yet" and "closed". A writer that closes
  while the reader copies its first message, and opens again, finds the slot
  writable and writes while it is read.
* `repoller_iterator`: a callback that cancels its own descriptor, as
  `SockStream` and `DataGram` do, erases the node under the iterator of
  `work()` when that poll iterates over `m_callbacks`. `SockStream` does so at an end
  of file, `DataGram` when it reads an empty datagram.

Divergences met while modelling that have no run of their own; the models behave
as the code does:

* `RePoller`: `stop()` and `start()` within one poll leave two chains of polls
  (`repoller.hh:51`); a second `notifyEvents` before the next poll discards the
  events of the first (`repoller.hh:78`); a request to the object store that was
  accepted is not carried out when the distributor shuts down
  (`repoller.hh:103-104`).
* `http2.hh:165`: `onReqRecvDone` is also called for a PING with ACK, on stream 0.
  `http2.hh:183`: `onNewHead` is never called. The move constructor of
  `Http2ndFrame` loses the frame, so saved frames are blank. `asendResponse` and
  `asendRequeste` return true and do nothing, and the server submits no SETTINGS.
* `ssl.hh:27` and `54` call ALPN optional, but `startCreate` returns -7 for a creator
  on which no end was chosen; `ssl.hh:57-63` describe an intersection, but an unknown
  first name ends the search with -3.
* Moving or swapping a `TimerManger` loses `m_msecFunc`.

## 4. Proofs

All theorems are checked by TLAPS for every value of the constants, under the
`ASSUME`s of the modules, which TLC evaluates on the runs' instances: bounds are
natural numbers, model values are distinct from data (`None` is no file, a client
no worker's number, a nullopt no element), descriptors are positive numbers, a key
of the event loop fits in `Width` bits as an `int64_t` fits in 64, and a program of
`NetSystem` is one of the nine modelled.

* `QueueProofs`, *MutexQue*. `TypeCorrect`; `ConsumerCorrect`: `m_front` is empty
  at the swap and while a batch is held, which is what the unlocked accesses need.
  With it, `DeliveryCorrect` (exactly once, in order) follows by showing that
  the concatenation of all places a value can be in changes only by a push or an
  insertion, and `Refinement` maps `m_front \o m_tail` to the abstract queue.
* `QueueProofs`, *circular buffers*. The invariant says that the indexes of a
  usable object lie in its vector and that there is always a free slot, without
  which full and empty look alike. `AddCorrect` and `PopCorrect` give what the
  functions do to the contents in each branch. `BufferRefinement`
  (`CircularQueue` implements `PlainQueue`) follows, and `CircleRefinement`
  (`MutexQueCircle` implements a `MutexQue` into which converted values are pushed, for
  every `IntRange`), whose invariant adds only that a
  consumer on its way to `front()` has found `m_front` not empty. `CircleHoldsInts`
  adds that it implements `MutexQue` itself when all the values are ints.
* `QueueProofs`, *TaskDistributor*. `DistributorTypeCorrect`; `OwnerCorrect` (which threads exist at each step of
  start and shutdown) carries `RunsInLoopCorrect` and `ShutdownCorrect`;
  `TasksCorrect` (`QueueOrder` and `AcceptedOnce`) rests on the sequence
  `begun \o batch \o que` of each worker, which only ever grows at its end.
* `ThreadProofs`, *FreeLock*. For one opening per end. The inductive invariant ties the
  two numbers to the message counts modulo the wrap (`Numbers`) and to the
  positions of both ends (`Outside`, `Slot`); exclusion alone is not
  inductive, since the tests read only the numbers.
* `ThreadProofs`, *RePoller*. `ChainCorrect` is inductive with the types. `NewestCorrect`
  needs that no events are held between polls and that a descriptor with unread
  hand-sent events still has its callback; then the loop passes no such
  descriptor (`NewestInv`).
* `ThreadProofs`, *the object store*. `StoreCorrect`: that an object has one place is inductive
  only together with the order of the queue (`InTurn`: it holds the requests without an
  answer), the save whose callback runs before it is stored (`SaveUnderWay`), the
  map's keys (`Mapped`) and the takers (`Handed`: no two were handed the same
  object). `FindsCorrect` follows the state of one id through the answers: the last
  request that changed it says what the map has (`Latest`).
* `ThreadProofs`, *ThreadPool*. `PoolCorrect` (each task once and in its turn, lost only to
  other workers): `PoolIInv` adds to `TasksPlaced` what a worker has when it does not
  run tasks (`AtRest`), who may be inside `exec` (`Calling`) and which threads the
  destructor has joined (`Ending`).
* `FileSystemProofs`. `ConfigCorrect`: the tasks for a key are all on that key's
  thread (`AtHome`) and each finds what the one before it left (`Follows`), so
  services appear and go in the order of the calls although threads run by
  themselves. `RequestsCorrect`: the places a request can be in, from the queue of
  `IOService` to answered or lost, divide the uids given out (`RingIInv`), and
  every step moves some uids from one place to the next. `FilesCorrect`: a file is
  in one request or with `main()` (`OneToken`), and unless one was closed explicitly
  the open descriptors are exactly those whose number a file, a request or
  its result has (`Owned`); for `AFile`, each call finds the file as the calls before
  it leave it.
* `NetSystemProofs`. `OwnershipCorrect` (`StreamsOwned`): for any clients and any
  numbers of descriptors, an open descriptor is the one of exactly one live `Socket`,
  the number a live stream keeps never names another's descriptor, and what epoll
  reports goes to the callback of the stream that has the descriptor open, under
  every interleaving of the nine programs. It is not inductive: a `Socket` keeps its
  number after `closeAndNoClear`, and a later accept may reuse it. `NetIInv` adds that
  tasks in the queue hold streams whose numbers are still theirs (`SoundTask`), that a
  server which goes on accepting closes only by `~Socket` (`MayClose`), that a process connects once (`Joining`), and that the stream of a
  connection is made when it leaves the backlog (`Queued`). The calls of `Net` and
  the stream classes are operators on the record of a process; for each a lemma says
  that it `Goes` from sound to sound and which streams it may have dropped. `Goes`
  composes, so the callbacks of `Programs`, which are sequences of such calls, and
  then the actions follow.

* `NetDataProofs`, `NetFlowProofs`, `NetOrderProofs` (one argument in three modules,
  beside `NetIInv`). `DataStaysInOrder` (`DataInOrder`): what a callback gets are the
  bytes the peer wrote, in order and once, and servers answer what they read, through every reuse
  of a descriptor. `FlowIInv` says where the bytes of a connection can be: `Bytes` and
  `Flows` that what was read, what is in flight and what is left to write is, stream by
  stream, what was sent; `Carries` that queued writes name the stream they were made
  for; `Settled` and `EchoKept` what a client and a server may assume of each other when one
  of them has connected, read or ended; `Ended` that an end is final. `PoolKept` and
  `PoolLinked` (a pool client's number is its own link) carry the answers of the pool servers
  across their detached processes, and `UdpIInv` (`Replied`) the datagrams, where
  the order is the queue's. Concatenations are related by their recursive function
  (`JoinsExist`, proved by a least counterexample), never computed. `FramesForwardedOnce`
  (`ForwardedOnce`): every uid given out is in exactly one of the places of a frame -
  taken, waiting in a task, in the slot (`FramesKept`), through retries of a full slot.

The type invariants of these modules, `OwnerInv`, `RunsInLoop`, `ProducerOrder` and
`OneInFlight` are proved and not in a run.

Only model-checked:

* All liveness properties: fairness and ENABLED are outside the prover.
* `Http2System`'s `Negotiated`, `RequestsIntact` and `SessionsSound`: they compare
  what folds and filters of unbounded lists give (the lists of `Alpn`, the units and the
  callbacks of a session).
* `BaseClasses`: what the heaps, the timer and the compression loops compute is
  defined by recursion over their data, which is outside the prover.

## 5. What is not modelled

Wrappers of system and library calls (see the components with that note):
their behaviour is that of the call. The process-shared mutex of `npsmem.hpp` is a
pthread mutex in a mapping; `co_task.hpp` wraps a coroutine handle and is used
nowhere; `http1.1`, `http3`, `io_tcp`, `io_datagram`, `database_service` and
`user_event_service` are empty or only declared; the database clients wrap
libpq and the MySQL C API. Memory orders weaker than program order in `FreeLock`;
lifetimes through `shared_ptr`/`weak_ptr`, except where an action tests them;
data races on `RePoller::m_wev`; allocation failure; the move assignments that call
the destructor of the object they go on using (`Http2ndSession`, `EventLoop`, `IOService`,
`Executor`); `Thread::~Thread`, which joins a thread that was detached
(`thread.cpp:39`); the move constructors of the `FreeLockShareMem` ends. Of modelled components:
moving a running `EventLoop` (its tasks keep the old address), the random
variants of `Schedule`, a message of the detached server that needs several frames, the fields
of HTTP/2 frames that no callback tells apart.

## 6. Plan

The components with behaviour of their own are modelled, and every safety property
of the runs that the prover can reach is proved but one: the part of
`Http2System`'s `SessionsSound` that is about lifetime, that the session, its stream
and the poller's entry go together. `Net`'s lemmas apply to it.

The rest stays with TLC for the reasons given in section 4.

# A verification development for LTN

LTN (version 1.4.4) moves files between a client and a server. Its own code is
the actor framework `src/3rd/micro_core` and the services `src/service`; the
rest of `src/3rd` is vendored (boost, libuv, leveldb, protobuf, snappy, openssl,
Lua). Paths in this file are relative to the repository's root, as in `src/3rd/...`.
The repository has no tests and hardly any documents, so what the code promises is
read from the code, its comments and its assertions.

The managers that drive a transfer (`trans_cli_*` and `trans_svr_*` of
`src/service/server.cpp:10-21`) are not in the repository. What is there is the
framework they are written in and the parts they are built from; that is what
is modelled.

## 1. Inventory

| Component | State | Operations | Meets |
|---|---|---|---|
| Priority queue, `module/multi_priority_queue.hpp` | one `std::queue` per priority | push, front, pop, size, empty | owned by a module |
| Module, `module/module.hpp` | `m_send_queue`, `m_worker_queue`, `m_exited`, the thread | send, start, stop, run | the bus calls `send()` from any thread; handlers publish on the bus |
| Timers, `timer/*.hpp`, `timer_processor` of `module.hpp` | `m_timer_tick`; per module the list `m_timers` | on_expired, add_timer, remove_timer, process | the generator's thread publishes ticks on the bus; each module sweeps its list on its own thread |
| Lock, `thread/lock.hpp` | `m_r_count`, `m_w_count`, `m_w_status` | r_lock, r_unlock, w_lock, w_unlock | held by the bus |
| Bus, `bus/message_bus.hpp` | `m_msg_invokers`, topics to subscribers | subscribe, unsubscribe, publish | calls subscribers in the publisher's thread |
| TCP channel and connector, `io/tcp_*.hpp`, `service/common/io_module` | `m_state`, `m_queue`, buffers; `m_connectors`, `m_reconnectors` | connect, read, write, close and completions | asio threads against the io manager's thread |
| UDP channel, `io/udp_channel.hpp`, `thread/uv_thread_pool.hpp` | message queues, send buffers | write, batch_write, on_async, on_write, on_read | libuv's thread against the senders |
| Stream buffer, `io/io_streambuf.hpp` | read and write pointers | write, read, move, reset | owned by a channel |
| File reader, `transfer_common/file_module/file_reader*` | block cache, `m_max_block_num_loaded`, missing list | open, get, load on a timer, close | loader thread against transfer threads |
| File writer, `transfer_common/file_module/file_writer*` | blocks seen, blocks to write, the file | begin, block, flush on a timer, end | messages from the network |
| Resend, `transfer_common/resend/*` | sets of lost blocks per session | add, get, remove, clear | transfer managers |
| Rates, `rate_control`, `path_rtt`, `network_detect` | filter states | calc, get | transfer managers |
| Codec, `transfer_common/codec/trans_codec.cpp` | none | encode, decode, set priority | UDP channel to bus |
| Start-up, `service/server.cpp`, `common/macro.h`, `script/lua/*` | modules by name | init, exit | creates everything |

How they interact. Components share no state but the bus and the block caches:
a component publishes a message, the bus calls `module::send()` of every
subscriber in the publisher's thread under a read lock, and each module handles
its messages one by one on its own thread. The codec gives network messages
their priority; a tick has the middle one.

What is hard, and the properties that make each component right:

- *module*: two queues exchanged under a mutex while handlers send, a stop that
  may fall anywhere. Nothing accepted is lost or handled twice, the order owed
  to senders is kept, stop ends and is final.
- *timers*: the sweep runs behind the generator, ticks can be lost, callbacks
  change the list under the sweep. No early or double call, no drift, no lost timer.
- *lock*: notifications are consumed by threads that are then overtaken.
  Exclusion, no lost wake-up, preference for writers, and no starvation.
- *channels*: `close()` against completions, connection notices against
  reconnection ticks, coalesced wake-ups. One transfer in progress, messages in
  order, an active channel is read from, a channel that fails is noticed once and reconnected.
- *file reader and writer, resend*: duplicated, reordered, late and lost blocks
  and notices, a loader that publishes its progress before its blocks. The file
  received is the file sent; every block asked for is in the end available.
- *start-up*: a module that fails to start. Nothing runs without what it needs.

`PROJECT.json` lists the hazards line by line with the properties that cover them.

## 2. The modules

| Module | Models | Kind |
|---|---|---|
| `MultiPriorityQueue` | `multi_priority_queue.hpp` | operators |
| `Mailbox` | what a module promises | abstract specification |
| `MicroModule` | `class module` of `module.hpp` | one action per critical section or step of `run()` |
| `RWMutex` | `lock.hpp` | one action per critical section |
| `TimerService` | `timer_generator`, `timer_processor`, `timer` | one action per step of `process()` |
| `MessageBus` | `message_bus.hpp`; extends `RWMutex`, whose variables are its `m_mutex` | composition |
| `FileReader` | `file_reader`, its part of `file_reader_manager` | one action per point another thread can see |
| `FileWriter` | `file_writer`, its part of `file_writer_manager` | one action per handler |
| `ByteQueue` | what a stream buffer promises | abstract specification |
| `StreamBuf` | `io_streambuf.hpp` | one action per method |
| `TcpChannel` | `tcp_channel`, `tcp_connector`, the socket, asio's thread | one action per point the other thread can see |
| `IoManager` | `io_manager.cpp` driving a `TcpChannel` | composition, handlers of the module |
| `UdpChannel` | the sending side of `udp_channel.hpp`, libuv, the codec's queueing | one action per critical section or callback |
| `ResendControl` | `resend_control.cpp` | one action per method |
| `...Proofs` | | theorems of the module named before it; those of the priority queue and of `Mailbox` are in `MicroModuleProofs`, those of `RWMutex` in `MessageBusProofs`, those of `TcpChannel` in `IoManagerProofs` |

### MicroModule

Variables have the code's names; `worker` is the program counter of `run()`, `msg`
its local, `stopper` that of `stop()`. What senders do is one critical section, so
`send()` is `SendAccept` or `SendRefuse`; `run()` is cut at its test of `m_exited`
(`CheckExit`), the end of the wait (`WaitTimeout` or `SwapQueues`, both under the
mutex), and each pass of the inner loop (`Invoke`, `PopHandled`, `BatchDone`), because senders
and `stop()` run between these. While the worker is in `"invoke"` a handler is
running, and a `Send` may be its own.

A message is its rank, its priority and the number of swaps before it was accepted
(`gen`). The rank and `gen` are history: they tell messages apart and say what
order they are owed in. `sends`, `accepted`, `swaps`, `swapsAtStop` and `handled` are history too.

`Mailbox` says what this amounts to, without queues or threads: messages belong to the
generation that was open when they came; a generation is sealed only when the
earlier ones are used up; inside one the more urgent go first, then the older.
`MicroModule` implements it with `gen <- swaps`, the send queue as the open generation and
both queues as what is pending (`Promise`). So a priority does *not* overtake across batches: an
urgent message sent while a batch of 100 is running waits for the whole batch.

### RWMutex

A thread that waits is in `rWait` or `wWait`; a notification or a spurious wake-up
moves it to `rAwake` or `wAwake`, from which it must get the inner mutex and test its predicate
again, and others may come first. `notify_one` with no waiting writer is lost, as
the standard has it. Upgrading a lock or locking twice is not modelled: no code does it.

### MessageBus

The module extends `RWMutex`, whose variables and actions are those of the member `m_mutex`; its own specification is
`BusSpec`. A publisher enters with `ReadEnter`, walks the entries of its topic one `Call` at a time and leaves with `ReadExit`; `subscribe()` and
`unsubscribe()` change `m_msg_invokers` in the step that ends their write lock, nobody being able to look before.
`Wait` has the lock's waits, notifications and spurious wake-ups. The order in which a topic's entries are called is
that of a hash table and left open. A subscriber that publishes itself would lock twice; every subscriber in
the repository is `module::send()`, which does not.

### TimerService

`m_timers` is the list as the set of its ids, which is faithful because ids
grow and insertion is at the end. `ticks` is the module's queue with every
message but the ticks left out; when the worker comes to a tick is left open, so a
module may lag behind by any number of ticks, and `on_expired` may have its tick dropped.
`AddTimer` and `RemoveTimer` are possible between sweeps (handlers) and inside callbacks.
A callback that removes the timer it is called for is excluded by a guard: it would
leave the sweep on a freed node (undefined behaviour), and no module does it.

### FileReader

One file; `reader` says which `file_reader` object is in the manager's map, since a transfer may end
and begin again while a fetcher still holds the object it found. The module thread is the
loader: `TakeMissing`, `RandomLoad`, `BeginSequence`, `LoadOne`, `Publish`, `SetReady` cut its tick where the cache,
`m_max_block_num_loaded` or `m_ready` changes; the first has the cache's lock, the others none. A fetcher
is in `get_file_blocks()`, of any range of blocks (`BeginFetch`, `Get`, `notify_missing`); what it finds in an
object that has been ended is left open. `unchecked` are the blocks without a checksum:
`sequence_load()` computes one only where `m_crc_calc_idx` is. Bytes and sizes are left out, and a file
that does not change is assumed.

### FileWriter

The manager is a module, so each notice is one step: `Begin`, `Add` (or `BlockWithoutChecksum`, an assertion), `Flush` on
the timer, `End`. The transfer manager that sends the notices is not in the repository: they come in any
order, repeated, late, with a damaged block, with or without a hash at the end. The disk may fail in the midst of a
flush (`m_ofs = "bad"`): nothing in the code looks at the stream, so the blocks after it are dropped and
only the hash can tell. `aborted` is a failed assertion; no configuration of `ltn.vcxproj` defines `NDEBUG`.

Nor does anything compare a block's number, which comes from the network, with the number of blocks of the file. `Number` has one
of each kind that `write_blocks()` (line 71) tells apart: those of the file's blocks; 0, whose offset is negative, so that the seek fails and the
stream is bad; one past the end, whose block makes the file longer (`file[PastEnd]`); and one whose product with 1200 wraps round
in 64 bits to the offset of a block of the file, over which it is written. `file` therefore holds, at each place, the block last
written there. `CreateAndOpen` has what can become of the file when neither `create_null_file()` nor `open()` is looked at:
truncated and open, truncated with no stream (the second open failed), as it was with no stream, and, for the file of size 0, created
and never opened.

### StreamBuf and ByteQueue

Pointers are offsets; `Valid` is what lies between them. `ByteQueue` is a queue: put at the end, take from the front, clear.
Seen while modelling, and kept as it is: a drained buffer whose pointers are at its end refuses a write,
because `move_buf()` is the caller's duty once the buffer has its full length; and the test at line 64 asks for one byte
more than is needed (`Enough`), which costs a doubling and nothing else.

### TcpChannel and IoManager

Two threads. Asio's takes the completions in their order (`done`) and runs `on_connect`, `on_read`, `on_write`; the module's
handles notices (`notices`), reconnection ticks and messages to send, and calls `connect()`, `write()` and `close()`. Each
handler is cut where it has tested `m_state` and before it starts the next operation, and `close()` where it sets
the state, closes the socket, clears the queue and resets the buffers, because it takes no lock. Messages are alike and
`MsgParts` parts long; the socket takes any number of them at a time, none included. The network can fail to connect, break a
connection and let a read time out (error 121, after which `on_read()` reads again), and the codec can
throw, `MaxFaults` times in all. What becomes of an exception depends on where it is thrown: `on_read()`, `on_write()` and
`write()` catch it and report `BROKEN`. `read()` has three callers (`Reading`): at the end of `on_read()` it is inside the try block; in
`on_connect()` a `boost::exception` is swallowed without a notice (`silenced`: the channel stays active with no read) and any other leaves
the thread; after a time-out it is outside of the try block, and whatever it throws leaves the thread.

`crashed` ends the model, as it ends the program: an exception leaves the asio thread (`init_addr_info()` throws for a socket that
is no longer connected, or `read()` as above), or `on_write()` calls `front()` of a queue `close()` has just cleared.
No property forbids it, because the code does it; `ChannelCrashesWithoutConnection` says where.
`overtaken` does not end the model. It is recorded when a new connection is made while asio's thread still has completions of the old
one to handle, or while `close()` runs. From there on the code does start two reads into one buffer, may write while the old
connection's write is still served, and may leave a message in the queue of an active channel with nobody to send it
(`write()` has found the channel inactive at line 248). The model has all of that. What still holds is that the channel is read from; each property
that says more names `overtaken` as its exception. What two reads do to the bytes of the one buffer is not modelled.
`tcp_connector.hpp:154` adds an `int` to a literal, which points past its end; the model lets it go on.

A `BROKEN` that is reported twice closes the connection made between the two, and its `SUCCESS`, handled last, takes the channel
out of `m_reconnectors`: a channel forgotten like this is inactive for ever. That is why `IoManager` may stop.

### UdpChannel

Writers encode under the lock (`Write`), then wake the loop (`Notify`); wake-ups not yet seen are one. The loop's thread gives
libuv all the buffers there are, on a wake-up (`on_async`) or when a send completes (`on_write_callback`), and frees a
buffer when its send has completed. `uv_udp_send()` may refuse: the buffer is then never freed
(`leaked`). The send request of line 322 is never freed at all; it is no state of the channel.

### ResendControl

The sets of lost blocks by key. `get_resend_blocks()` hands out one block more than it is asked for (it compares before it
counts, line 33); `remove()` has its test the wrong way round. Nothing in the repository calls the class.

## 3. The runs

| Run | Bounds | Shows |
|---|---|---|
| `micro_module` | queue limit 2, 4 sends | all interleavings of senders, worker and stop |
| `rw_mutex` | 3 threads, 4 writes | exclusion, wake-ups, preference, no starvation |
| `timer_service` | 2 timers, periods of 0, 1 and 2 ticks (the first refused), 0, 1 or 3 calls, 4 ticks | sweeps, callbacks, lag and loss |
| `file_reader` | 4 blocks, 1 or 2 a tick, 1 fetcher, 2 readers | loading against fetching, and what was missed |
| `file_writer` | 2 blocks, 5 numbers, 2 transfers | notices in any order, numbers that are not of the file, a disk that fails |
| `stream_buf` | 2 byte values, length 2 to 8, pieces of up to 3 | pointers in order, a queue of bytes |
| `message_bus` | 3 threads, 2 topics, 2 subscriptions, 3 changes | publishers against subscribers |
| `io_manager` | queue limit 2, messages of 2 parts, 2 faults, 2 waiting | an active channel is read from; one writer, whole messages, through faults and reconnections |
| `udp_channel` | 2 writers, 4 buffers | coalesced wake-ups, completions in any order |
| `io_manager_reconnect` | queue limit 1, messages of 1 part, 1 fault | *violated*: a failed connection is not always made again |
| `resend_control` | 2 keys, 2 blocks | *violated*: removed blocks are still handed out |

Why the bounds are enough to meet the interesting cases: with a limit of 2 and 4 sends the send queue
is full and refuses, refills while a batch is running, and three batches follow
each other. With three threads one can hold the lock while a second is notified and a
third comes in first. Two timers are what it takes for one to add or remove the other, and
four ticks for a timer of period one to fall three behind.
Four blocks at one or two a tick are loaded in two to four ticks, so that a block is missed before, while and
after it is read; two fetchers (checked with three blocks, not kept for its time) show nothing more, as they
share only the missing list. Three threads let the bus be published on by two while a third subscribes or unsubscribes, and
two subscriptions let one be called while the other is left. With two faults the cloud connection is lost and lost
again; with messages of two parts a write is partial; with a queue of two a message waits behind the one being sent, and a third
is refused. `MaxWaiting` bounds only how far the module runs ahead of asio's thread: `Send` and the reconnection tick wait
while two notices and completions are on their way, enough for a notice and a completion, or two notices, to cross; the safety properties are
proved without it. Two blocks are what
it takes for a disk to fail between them and for one to be written over the other. Four buffers let both writers add to what
a completion is about to send. The theorems of section 4 carry the safety
properties to all bounds.

Properties beyond the type invariants:

- `HandledInOrder`, `EveryMessageAccountedFor`, `ImplementsMailbox`: what senders get.
- `StopTakesAtMostOneMoreBatch`, `NothingHandledAfterStop`, `StopReturns`: what the caller of stop gets.
  The first is tight: one more batch does happen.
- `AcceptedIsHandled`: a started module that is not stopped handles what it accepted. Messages left
  when it is stopped are never handled; the property says so by its `m_exited`.
- `MutualExclusion`, `NoLostWakeup`, `WritersPreferred`, `NobodyStarves`.
- `NeverTooOften`, `NoDrift`, `CallsAreCounted`, `SweepIsExact`, `OncePerTick`, `DueIsCalled`.
- `LoadedIsCached`: why the manager may stop calling a loader whose missing list is not empty.
  `EveryBlockHasChecksum`: the assertions at `file_reader.cpp:168` and 264. `MissedIsLoaded`: what
  transfers rely on.
- `AcceptedOnceAndKept`, `FileIsSound`, `AcceptedReachesDisk`: whatever number a block has it is accepted once, and then waits or is on the
  disk at its place, unless another was written there; no damaged block reaches the disk; and a
  hash that was validated means a whole file, with no block overwritten and nothing behind the last, until a begin notice that is
  repeated truncates it. Without a hash nothing tells: a block past the end then does stay in the file.
- `ImplementsByteQueue`: bytes come out once, in order, through growth and moves.
- `EverySubscriberOnce`: the table does not change under an iterator.
- `ActiveIsRead`: however connections, errors, ticks and notices cross, an active channel is read from (a read is under way, completed or about
  to start), or its `BROKEN` has been published and not handled. This holds of overtaken connections too. The two exceptions are the code's and are
  named in the property: an exception `on_connect()` swallowed (`silenced`), and a crash. That there is no second read holds
  until a connection overtakes another, and not after.
- `QueueHasOneWriter`, `PeerGetsWholeMessages`, `QueueMoves`: an active channel's queue is served by one thread, through partial writes,
  or its `BROKEN` is on the way. All three are about connections that have not overtaken another.
- `GivenOnceInOrder`, `EveryBufferIsReleased`: buffers of the UDP channel.

Three facts about the code that the proofs use are not run of their own: `WorkerQueueEmptyOutsideBatch` and `PopsWhatItHandled` (the
assertion at `module.hpp:217` and the unstated one at line 226) and `ReadyHasBlocks`; they are proved.

The two violations are findings of `PROJECT.json`:

- `FailedIsReconnected`, "//reconnect" (`io_manager.cpp:310`). The first connection fails; a tick connects; before the module has
  handled its `SUCCESS` the next tick calls `connect()` on the connected socket. Its error sets the channel
  `INACTIVE` and reports `FAILED`. Nothing closes the socket, so every later `connect()` fails too, for ever, although the
  server is there.
- `RemovedIsGone`, "resend control NOT find file path" (`resend_control.cpp:154`): `remove()` of a key that is known leaves its
  blocks; of one that is not, it dereferences `end()`.

Fairness. `MicroModule` assumes that the operating system runs the worker and that handlers
return (`WF(Worker)`), and that `join()` returns when the thread has ended; nobody is obliged
to send or to stop. `RWMutex` assumes that a thread inside the lock's code or
holding it goes on; that is justified because what is called under the read lock is
`module::send()`, which waits for no one but its short mutex, and subscribers are
added at start-up only, which is why `MaxWrites` bounds them: with writers for ever
readers do starve. `TimerService` assumes that the module handles its messages and
that callbacks return. `FileReader` assumes that ticks come and are handled, which is what the other two
show of them. `FileWriter` assumes the timer only. `IoManager` assumes that both
threads run and that a broken socket's operations fail; and, strongly, that the reconnection timer fires again and
again, that a server that can be reached is, and that a connected socket takes some part of what it is given: the
network may put each of these off, not for ever. `UdpChannel` assumes that its threads run and that libuv calls
back for every request it accepts, strongly because other callbacks come in between. `MessageBus` states no
fairness: that nobody starves is `RWMutex`'s. Weak fairness is enough elsewhere: no action is disabled again and
again by others before it runs, or the property allows for it.

Deadlock is checked in `rw_mutex`, `message_bus`, `udp_channel` and `stream_buf`. It is not in the others, whose systems do come to
rest: a stopped module, a generator at the last tick of the bound, the last reader or writer ended, a connection
that is forgotten or a program that has crashed.

## 4. The proofs

All theorems hold for every value of the constants that satisfies the named
assumptions (`CapacityAssumption`, `ThreadAssumption` and so on); the assumptions are
what the code's types and literals give.

- *Queue* (the first part of `MicroModuleProofs`): what `Push` and `Pop` do to the elements and the size, and
  that `Top` is the first queue that is not empty. The other proofs rest on these lemmas.
- *Mailbox* (in `MicroModuleProofs`, of the instance `Promise`): whatever behaves as `Mailbox` says keeps order and
  conservation, from the invariant that everything handled comes before everything pending, ranks are unique and
  the pending generations are at most the open one (`MailboxInv`).
- *Module*: the inductive invariant is `TypeOK` with three parts. `SendQueueInv`: what is in the send queue has the
  current number of swaps, its priority's place, and ranks that grow within a queue. `WorkerQueueInv`: the
  worker queue holds the generation before, is empty outside a batch and has `msg` at its front
  while a handler runs. `StopInv`: where the worker can be for each number of swaps since
  stop. None of the checked invariants is inductive by itself: that the swap hands over an
  empty queue needs to know that `BatchDone` is the only way out of a batch, and that `PopHandled` handles what
  `Mailbox` owes needs the ordering of both queues. `Implementation` is the refinement, one
  lemma per action that is not a stutter; `ModuleHandledInOrder` and `ModuleConservation` then
  follow from the theorems about `Mailbox`.
- *Lock* (the first part of `MessageBusProofs`): the invariant says what the three fields count (`FieldsTell`), that readers wait only for writers
  (`ReadersWaitForWriters`), that the lock excludes and that no wake-up is lost.
- *Bus*: the composition. Every step of the bus is a step of the lock or leaves it alone (`BusUsesLock`), so the theorems about
  `RWMutex` hold in it (`BusIsExclusive`, `BusKeepsLockPromises`); with the exclusion, whoever changes the table meets no publisher
  (`WriterInv`), and `EverySubscriberOnce` is inductive.
- *Timers*: `TicksInv` (ticks queued and swept for are not ahead of the generator), `TimersInv` (the time-out and
  the calls left of a timer, given how often it was called; different while its callback runs), `SweepInv` (the
  timers before the iterator are dealt with, those behind it are as they were when the sweep began, and those
  added on the way are not due). Exhausted timers stay in the list until the sweep ends, so the invariant
  tells running, pending and exhausted ones apart.
- *File reader*: the checked invariants are inductive together with where the checksums are (`ChecksumInv`)
  and what the loader still has to read (`LoaderInv`): it never goes past the end, because `SequenceBound` gives every
  tick at least one block and no more than are left.
- *File writer*: `FileIsSound` holds because what waits to be written was validated first, and `AcceptedOnceAndKept` needs that
  a block on the disk is in `m_data_bufs` (which is what `add()` looks at).
- *Stream buffer*: type correctness is the order of the pointers; the refinement to `ByteQueue` follows method by
  method from what each does to `Valid`, growth and moves being stutters of the queue.

- *UDP channel*: `GivenOnceInOrder` is inductive with the types, once it is said of places: what has been given are the buffers up
  to some number, what waits are those from there to `accepted` (`Numbered`, `Places`), so a batch that is given continues
  what was given and meets none of it. `UdpWakesTheLoop` is the state half of `EveryBufferIsReleased`: where buffers wait,
  somebody is about to wake the loop, or has.
- *TCP channel and io manager*: `QueueHasOneWriter` and `ActiveIsRead` speak of an active channel only, and are not inductive: what may
  happen once a channel is active again depends on what its last connection left behind. The invariant has three parts,
  `TypeOK`, `ReadFrom` and `Own`. The first two hold for ever and are kept by every step whatever overtook what (the lemmas of the section "Loosely"): `ReadFrom`
  is the first half of `ActiveIsRead`.
  `Own` is about a connection that has not overtaken another. `Core`, its invariant
  while nothing has crashed, follows the socket. `SocketTells`: with the socket
  closed or connecting nothing is under way, the queue is empty (but between two steps of `close()`) and the channel
  inactive. `OneOfEach`: while the socket is open there is at most one reader and one writer, and none for an empty queue,
  whatever `m_state` is. `NewConnection`: a connection `on_connect()` is still to be told of has nothing but failures of
  attempts around it. `PartsTell`: the parts the peer has and those in the send buffer make up one message
  (`Ready`, `SentOf`). `Served`: an active channel has its writer if there is something to
  write, or `BROKEN` is on its way. There is one lemma per action, each with a step per part. A step that crashes is the last
  one, so after it only the checked invariants are claimed; `OvertakenForGood` is why `Own` may be given up for ever.
  `ChannelPeerGetsWholeMessages` is the action property: only
  `on_write()` takes a single message out (`OnlyWholeMessagesLeave`), and `PartsTell` says that its parts have been sent.
  `ChannelCrashesWithoutConnection` tells where the crashes of a connection that has not overtaken another can happen: over a connection that is
  gone, or by an exception that `read()` throws where nobody catches it.

What the theorems say of an `overtaken` connection is type correctness and that it is read from; what else the properties claim excepts it,
because the code does not keep it.

Only model-checked: the liveness properties (`AcceptedIsHandled`, `StopReturns`, `NobodyStarves`, `DueIsCalled`,
`MissedIsLoaded`, `AcceptedReachesDisk`, `QueueMoves`, `EveryBufferIsReleased`), because the prover does not do fairness. Every
safety property of a passing run is proved. Not proved, since they do not hold, are the properties of the two runs that
expect a violation, `FailedIsReconnected` and `RemovedIsGone`; `ResendControl` keeps no other promise worth a proof.

## 5. What is left out

- The data race on `m_exited` (a plain `bool`): accesses are sequentially consistent in the model.
- `stop()` called by a handler of the same module, and two threads calling `stop()`: no code does.
- Constructors and destructors, sessions, names of topics, log output.
- The channels: the bytes of messages, reception on UDP, `tcp_acceptor` (used by nothing), the exit of loops and pools, where
  `uv_thread_pool::exit()` frees a loop that may still be running.
- What a list, a map or a buffer does when two threads, or two reads, are inside it at once: `PROJECT.json` names these races among the hazards.
- `resend_scheduler`, `path_rtt`, `rate_control`, `network_detect`: sequential floating-point filters.
- Start-up: a sequence of calls of managers that are mostly not in the repository. The Lua scripts test an
  `init_ret` they do not set (`init_trans_cli.lua:20`); what a manager that is missing means for the others cannot
  be read from this code.
- The whole transfer, from reader over a network that loses to writer: the managers that connect these parts are not in the
  repository, and a model of them would be invented.
- Vendored code, which is nearly all of `src/3rd`: asio, libuv and the standard library are modelled from
  how the code uses them, where it does.
- Components with status `not_modelled` in `PROJECT.json`, with the reason given there.

## 6. Plan

What was planned is written and its safety proved, but for the parts named above. What could follow: an abstract specification of a
channel (a queue that loses all or nothing of a message) that `IoManager` and `UdpChannel` both implement, and a
two-connector `IoManager`, should the program come to use more than one cloud address.

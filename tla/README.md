# RefLib in TLA+

RefLib is a small C++ network library for game servers on Windows: completion
ports, a pool of connections, packets with a length header, and two groups of
threads.  This directory holds TLA+ modules of its core, TLC configurations that
check them on small instances, and proofs that TLAPS checks for every value of
the constants.  Paths below are relative to `src/SimpleCS/`.

## 1. The system

| component | state | operations | used by |
|---|---|---|---|
| `CompositId` (`RefLibCommon/reflib_composit_id.h`) | slot, salt | `GetIndex`, `IncSalt` | connections, their maps, the object registry |
| `NetConnectionMgr` (`RefLibNet/reflib_net_connection_manager`) | `_freeCons`, `_pendingCons`, `_busyCons`, `_isActive`, `_conLock` | `Initialize`, `RegisterCon`, `AllocNetCon` (two), `FreeNetCon`, `IsEmpty`, `Shutdown` | `NetConnectionProxy`, from any network thread |
| `NetConnectionProxy` | `_isClosed`, the manager, its worker threads | `RegisterCon`, `AllocNetCon`, `FreeNetCon`, `Shutdown`, `OnTerminated` | `NetService`, `NetConnection`, listener and connector |
| `NetListener`, `NetAcceptor` | listening socket, five `AcceptBuffer`s | `Listen`, `OnAccept`, `PostAccept`, `Shutdown` | completion port |
| `NetConnector` | - | `Connect` | `NetService::Connect` |
| `NetSocketBase` | `_socket`, `_netStatus` | `SetSocket`, `Connect`, `Disconnect`, `OnConnected`, `OnDisconnected` | everything above it |
| `NetSocket` | `_sendPendingQueue`, `_sendQueue`, `_recvBuffer`, `_recvLock` | `Send`, `PrepareSend`, `PostSend`, `OnSent`, `PostRecv`, `OnRecv`, `ExtractPakcetData` | game threads (`Send`), network threads (the rest) |
| `CircularBuffer` | `_buffer`, `_bufSize`, `_headPos`, `_tailPos` | `PutData`, `GetData`, `Clear`, growth | `NetSocket`, under `_recvLock` |
| `NetConnection` | parent `NetObj`, container, identity | `RecvPacket`, `OnConnected`, `OnDisconnected` | network threads |
| `NetObj`, `NetService` | `_recvPackets`; `_freeObjs`, `_objs`, `_freeLock`, the game threads' port | `RegisterNetObj`, `AllocNetObj`, `FreeNetObj`, `RecvPacket`, `Run`, `Shutdown` | application, network and game threads |
| `NetWorker`, `RunableThreads` | `_hThreads`, `_activated` | `Run`, `HandleIO`; `Activate`, `Deactivate`, `Join` | the thread groups |
| `MemoryPool`, `MemoryBlock`, `NetIoBuffer` | `_freeBuffers`; a block; the blocks of one request | `GetBuffer`, `FreeBuffer`, `PopData` | both directions |
| `NetworkAPI` | Winsock function pointers | `Accept`, `Connect`, `Disconnect` | sockets |
| `IocpServer`, `IocpClient` | - | the two example programs | - |

How they interact.  A game object is registered: `NetService::RegisterNetObj` takes a
connection out of the free map into the pending one.  A peer arrives (or `Connect` is
called): `AllocNetCon` moves a pending connection to the busy map under a new identity,
the socket is attached to the completion port with the connection as its key, and
`OnConnected` posts the first `WSARecv`.  From then on any network thread handles any
completion of that connection.  Received bytes go through `_recvBuffer`, packets into
the object's `_recvPackets`, and a message on the service's own port wakes a game thread,
which pops them and may call `Send`.  When a request fails or `Disconnect` completes,
`OnDisconnected` clears the queues, tells the object and gives the identity back with
`FreeNetCon`.  `Shutdown` disconnects the busy connections; the thread that frees the
last one stops the workers.

What is hard in it:

- several threads run `PrepareSend`/`PostSend` of one socket at once, over lock-free
  queues and a status word changed by completions of both directions;
- identities are copied and used later, after the connection may have been reused;
- flags are tested outside the lock that protects what they guard (`_isActive`, `_isClosed`);
- TCP cuts the byte stream anywhere, the extraction assumes it does not;
- positions of a ring buffer at its end, and while it grows;
- each failed request is taken for the end of the connection, so the end may be
  handled twice, by two threads, while a third is still in a handler;
- threads are stopped by one of themselves, with a time-out.

`PROJECT.json` lists these as hazards at their lines, with the properties that cover
them, or why none does.

What makes each component correct: an identity names one use of one connection; the
manager neither loses nor shares a connection, and a stale identity does nothing; a
packet given to `Send` is sent once and in its sender's order, and in the end; the
buffer is a queue of bytes; what the peer sent is what the object receives; an object
is told of its connection once, before its packets, and of its end once; after
`Shutdown` every thread ends; every block returns to the pool once.

## 2. Modules

| module | what it is |
|---|---|
| `CompositId` | arithmetic of identities, with the word size as a constant |
| `ConnectionPool` | abstract: a connection goes round free, pending, busy |
| `NetConnectionMgr` | the manager; implements `ConnectionPool` |
| `PacketPipe` | abstract: packets come out as they went in, until the pipe breaks |
| `NetSocketSend` | the sending half of a socket; implements `PacketPipe` until two threads are between its queues at once |
| `ByteQueue` | abstract: a queue of bytes with all-or-nothing operations |
| `CircularBuffer` | the ring buffer; implements `ByteQueue` |
| `PacketReceive` | the receiving half of a socket, over the byte queue; implements `PacketPipe` until it tears a packet |
| `NetAcceptor` | the listener and its `AcceptEx` buffers |
| `ConnectionLife` | a client's connections from `Connect` to `FreeNetCon` and on to the next use; composes connector, proxy, manager, sockets and the registry of objects; implements `ConnectionPool` too |
| `PacketDispatch` | a packet from `OnRecv` through the game threads to the answer, over several uses of a connection; composes socket, object, service and memory pool |
| `ThreadPools` | the two groups of threads and `Shutdown`; composes `RunableThreads`, `NetWorker`, proxy, manager and service |
| `*_proofs` | theorems about the module of that name |
| `MC*` | instances for TLC |

### CompositId

`typedef int uint32` (`reflib_type_def.h:5`): the library's `uint32` is signed.
`IncSalt` therefore wraps from 2^31-1 to -2^31, and `GetIndex` sign-extends a negative
salt over the slot.  `SaltLimit` stands for 2^31; the modules keep the arithmetic and
TLC gets a small word.

### NetConnectionMgr

The three maps are functions from keys to slots (a connection is its slot; `salt` is
in a variable of its own).  Every operation under `_conLock` is one action.  Three
things are not under the lock and are steps: the test of `_isActive` in
`AllocNetCon()` (`CheckActive`), the clearing of it in `Shutdown` (`ShutdownFlag`,
then `ShutdownSweep`), and the copy of the identity that `NetConnection::OnDisconnected`
gives to `FreeNetCon` (`ReadCompId`).  `ReadCompId` may be taken at any time, and by
several threads for the same connection: that is what a connection whose read and
write both fail does.  `disconnected` and `shutdown` are history.

### NetSocketSend

One action for each access to `_sendPendingQueue`, `_sendQueue` or `_netStatus`; `pc`
is the thread's place in `PrepareSend` and `PostSend`.  The local `buffer` keeps its
value when `try_pop` fails, as in the code.  The mask in `PostSend` (l. 128) reduces,
by precedence and because `!` is logical, to the status that was read; `LoadStatus`
says so.  `OnRecv` and `PostRecv` are in the model for one reason: they change the
status word between another thread's load and exchange.  A queue's `unsafe_size` is
its length at that step.  `fault` records an access that brings the program down.
`calls` and `crowded` are history: the packets in the order of the calls of `Send`, and
whether two threads have ever been between the queues at once (`Between`: from finding
the pending queue not empty to the push, and from reading the send queue's size to
`WSASend`), which nothing in the code prevents.

### PacketPipe

What one direction of a connection promises: packets are put in at one end, and what was
taken at the other is the first so many of them.  `NetSocketSend`'s `Pipe` goes from `Send` to
`WSASend` and is broken once two threads have been between the queues at once
(`crowded`); `PacketReceive`'s goes from the peer's `Send` to
`NetObj::RecvPacket` and is broken once a torn packet was delivered or the connection has
ended.  With a client at one end, the two in a row are its packets' way to the server.

### CircularBuffer and ByteQueue

The object is a record, each operation computes the next one, with the branches of the
code (empty, wrapping, straight; growth in whole packets up to the limit).  A `memcpy`
that leaves `_buffer`, or whose length is negative, sets `overrun` and ends the
behaviour: what happens then is undefined.  `ByteQueue` is what a user may rely on.  A
put that reaches the capacity exactly leaves head and tail equal, which means empty:
the abstract queue says so too, since that is what the code does.  `PacketReceive`
shows that a socket never comes near it.

### PacketReceive

One use of a connection.  `wire` is what TCP still holds; `OnRecv` takes any number of
bytes up to `MAX_PACKET_SIZE`; a read that fails part-way takes bytes with it and is the
last one (`OnCompletionFailure`).  `_recvLock` makes `PutData` and `ExtractPakcetData` one
step each (with no bytes `PutData` is the early return); between them, and between
extraction and delivery, `OnDisconnected` may run on another thread and clear the buffer.  A header is two bytes here (tag, length)
instead of four, contents are byte sequences that may contain the tag, be empty, or be
one longer than the receiver allows.  A packet whose content was never written is
marked `torn`.  The buffer is an unbounded sequence of bytes.  That it needs no bound
follows from `NothingWaits` (`BufferStaysSmall` gives the number).  `CircularBuffer`
implements it only until a read that wrapped leaves `_headPos` beyond the end and a
`memcpy` leaves the array: this overrun is not carried over, so `IntactUntilTorn` and
`EventuallyDelivered` are about a buffer that has not met it.

### NetAcceptor

`buf[b]` says where an `AcceptBuffer` is.  A buffer comes back into play only through
the end of `NetAcceptor::OnAccept` (`Repost`); all other ways lead to a place it does not
leave: `refused` (no connection could be allocated), `unbound` (`CreateIoCompletionPort`
failed, the connection stays busy without a request), `unposted` (`AcceptEx` or `socket()`
failed), `dropped` (the accept completed with an error).  `sock` is what the listener
keeps in `_socket`, `listening` is the kernel's socket: `NetSocketBase::OnDisconnected`,
which `HandleIO` calls for any failed accept, forgets the first and leaves the second.
`late` is history.

### ConnectionLife

A completion carries the address of the connection and nothing of the use it was posted
in, which is why `Take` has the use `u` as a parameter that the handlers ignore.  A socket is the
use it was made for, `open` are the sockets the kernel still has, `req` the outstanding
requests.  Handlers are cut where another thread can come between: `PostRecv` and
`AllocNetObj` in `OnConnected`; the socket, `FreeNetObj` and `FreeNetCon` in
`OnDisconnected`.  Every call into Winsock may fail at once, and a read may fail when it has transferred
some bytes, after which no other is posted (`OnCompletionFailure`); `failed` remembers
both, for the present use.
`NetworkAPI::Disconnect` closes the socket whether or not `DisconnectEx` succeeds, while
`OnDisconnected` only forgets it.  `crowded` and `mixed` are history: a use ended while
something else went on for the connection; an object was filed after others were
connected.

### PacketDispatch

A packet is the number of the use whose peer sent it, and so is its answer: the state
tells packets apart only by what the property asks.  Pushing to `_recvPackets` and
posting the message are two steps, popping and handling are two, and `OnDisconnected`
clears the queues one element at a time, like the loops of `try_pop`.  `out` and
`requested` count memory blocks.  A `NetIoBuffer` that is deleted as a
`NetCompletionOP` does not return its blocks, since that destructor is not virtual
(`OnSent`), and `OnRecv` pops the block that the destructor would have returned.

### ThreadPools

One `pc` for every thread: network threads (in `RunByThread` or a handler), game
threads, and the application's.  Each access to `_activated`, `_hThreads`, `_isClosed`,
`_isActive` and the manager's maps is a step.  `WaitForSingleObject` may time out for any
thread that has not ended.  `Join` gives up a thread on a time-out once the pool is
deactivated, which is the only way a worker gets past its own handle.  When two threads
are in `Join` and one swaps `_hThreads` under the other's iteration, the behaviour is
undefined and ends with `fault`.

## 3. Runs

| run | instance | shows |
|---|---|---|
| `mgr` | 3 connections, 2 threads, each connection used twice | `NothingLost`, `NothingShared`, `FiledUnderOwnId`: ownership; `FreedByPresentIdOnly`: a late `FreeNetCon` frees nothing; `IsEmptyMeansNoneBusy`; `LateConnectionsBounded`: what `Shutdown` may miss; `ImplementsPool` |
| `send_client` | one thread that sends and completes, 6 packets, send array of 2 | `EventuallySent` |
| `send_server` | 2 senders, 1 worker, 2 packets each, send array of 2 | `NoPacketLost`, `OvershootBounded`, `StuckBehindFullQueueOnly` under every interleaving; `FaultOnlyWhenCrowded`, `ImplementsPipe`: what it takes to fault, and to change the order of the calls of `Send` |
| `send_race` | 1 sender, 1 worker, 2 packets | `NoFault` is violated |
| `ring` | packets of up to 2 bytes, sizes 3 to 6, two byte values | `OverrunOnlyPastEnd`, `ImplementsByteQueue` |
| `receive` | 3 packets out of 5 contents, any cut | `IntactUntilTorn`, `TornOnlyIfBytesAreMissing`, `NoWrongAccusation`, `NothingWaits`, `EventuallyDelivered` |
| `receive_torn` | 1 packet | `DeliversPackets` is violated |
| `accept` | 3 buffers, 2 workers, 2 connections, 6 peers | `LastAccepts`, `ClosedByShutdown`: what one failed accept does; `EventuallyAccepted`: peers that wait are accepted unless the listener has gone deaf, in one of the ways that `Deaf` names |
| `life` | 2 connections, 2 objects, 2 workers, 2 uses each, 1 send | `BusyHasRequest`: only a call that failed at once, or a read that failed part-way, leaves a busy connection with nothing of its present use to end it; `FreeIsQuiet`: a free connection has no request, handler, socket or object, unless a use ended beside other work; `FiledIsParent`: its object is the one registered for it |
| `dispatch` | 2 network and 2 game threads, 2 uses, 3 reads, 3 packets | `PacketsAreAnnounced`: no lost wake-up; `StraysNeedOverlap`: how one peer's packet can reach the next; `PoolBalance`: where blocks are |
| `threads` | 2 network threads, 1 game thread, 2 connections | `StopsOnlyWhenEmpty`, `LeftInOrder`: the order of the shutdown; `ShutdownReturns`: it ends unless a connection was stranded or two threads joined at once |
| `join_twice` | the same | `NeverWaitsOnClosedHandle` is violated |

Bounds.  `mgr`: three connections are the fewest with which two can be in one map while
a third moves, two threads can hold two stale identities of one connection, and two
uses are enough for an identity to be stale; the proofs remove the bound.  `send_server`: three
threads meet in every way, two of them between another's two steps.  A worker takes
from `OnSent` the same path through `PrepareSend` and `PostSend` that a sender takes from
`Send`, so a second worker adds no pair that two senders do not make; the proofs are for
any number of both.  A send array of two is the smallest in which packets can have an
order: the run's four packets fill it and leave two in the pending queue, one thread takes two
of them in one `WSASend` (also without `crowded`, after exchanges that a completed read has
made fail), and packets of the two senders alternate.  `send_client`: with one thread every
call runs through to its `WSASend`, so the queues hold one packet at most and the run shows
only what it says, that no packet waits for ever.  `ring`: the byte values are two so that a
swapped byte is seen, a growth step is a packet and the limit is three of them; the buffer wraps and grows
in every order.  `receive`: three packets let one be torn between two others;
`MCContents` has the empty content, the longest one, one with a header in it and one
that is too long.

Deadlock is not checked where the system may stop: no call has to come, the counters
`LastSalt`, `MaxPackets`, `MaxUses`, `MaxReads`, `MaxSends`, `MaxPeers` end the
behaviours, and an overrun or a fault ends one.

Fairness is used by four runs.  `send_client`: a thread inside `Send` or a handler goes
on (weak), and a completed write is handled in the end (strong: the completion port is
a queue, so reads cannot keep it from the workers for ever).  `receive`: the thread in
`OnRecv` goes on, and bytes that TCP has complete an outstanding `WSARecv` (weak).
`accept`: the loop of `Accepts` ends, the kernel completes posted accepts while peers
wait, workers take up completions (weak).  `threads`: a thread that is not waiting for the port
goes on, one that is returns with a time-out if nothing else (weak), and a failed request
of a closed socket is taken up in the end (strong: other completions cannot keep it out of the
queue's front for ever).  Nothing makes the application call, peers connect, or
connections end.

### What the violated runs say of the code

- `send_race`: `PrepareSend` ignores that `try_pop` failed, and dereferences a null block.
- `receive_torn`: `ExtractPakcetData` ignores that `GetData` of the content failed.
- `join_twice`: two threads run `OnTerminated` at once.  Two workers that free the last
  two connections, or a worker and the thread in `Shutdown`, are both in `Join` over the
  same set of handles.

### What the conditions in the passing runs say of the code

Some properties hold only with an "unless", and the exception is a way the code goes
wrong.

- `Stranded` in `ShutdownReturns`: a connection that became busy after the sweep, or
  one whose socket was closed while its handler was between two requests, or one whose
  last request failed part-way, has nothing to end it, and `NetService::Shutdown` waits
  for ever.
- `failed` in `BusyHasRequest`: `ConnectEx`'s result is ignored, and so is a
  `CreateIoCompletionPort` that failed after the connection became busy; a read that
  failed with some bytes transferred is neither followed by another nor taken for the
  end.  That last one is also `pc = "lost"` in `EventuallyDelivered`.
- `crowded` in `FreeIsQuiet`: a read and a write that fail together end the use twice;
  the second end can hit the next use.
- `mixed` in `FiledIsParent`: `RegisterNetObj` files an object under the number of free
  objects and `AllocNetObj` looks for it under the connection's slot.
- `Deaf` in `EventuallyAccepted`: five refusals, or one failed accept, end the server.
  Freed connections never become pending again (only `RegisterCon` does that, which
  `IocpServer` calls before it listens), so refusals begin after `maxConn` disconnects.
- `requested` in `PoolBalance` never goes down: the blocks of completed requests are lost.
- `StuckBehindFullQueueOnly`: with several threads packets may rest in the send queue,
  since `PostSend` gives up when its exchange fails.
- `crowded` in `FaultOnlyWhenCrowded` and `ImplementsPipe`: two threads between the queues
  can bring each other down, push a packet twice, and change the order of packets, those of
  one sender too.

## 4. Proofs

All theorems are about the specifications that TLC checks, for all constants that
satisfy the modules' assumptions.

`NetConnectionMgr_proofs`, under `NoWrap` (no salt reaches 2^31; without it the
statements are false).  How far the sign extension in `GetIndex` reaches is itself
proved, for every slot and every salt of the word: `KeysThatCollide`, two identities
have the same key exactly when they have the same salt and it is negative or the slots
are equal too; `KeyInjective` is its non-negative half.  `IncSaltIsModular`: the signed
counter counts modulo the word, so salts become negative after half a turn and come
back after a whole one.  The maps' ownership is not inductive by itself: that `FreeNetCon` files the
connection under its own slot needs that the key it was found under is its present
identity, which needs that a salt never changes in the busy map.  The invariant `IInv`
joins the types, salts in range, `FiledUnderOwnId`, disjointness, `NothingLost` and the
accounting of threads that read `_isActive` before it was cleared.  `NoneIsLost`,
`NoneIsShared`, `FoundUnderOwnId`, `StaleIdsFreeNothing`,
`IsEmptyCorrect` (a cardinality argument: three disjoint maps whose sizes sum up to the
capacity), `ShutdownMissesFew` and `Refinement` follow.

`NetSocketSend_proofs`, without assumption on the number of threads.  `Overshoot`: the
property is inductive because it counts, beside the send queue, the threads that have found
room and not pushed yet.  `NothingLost`: the invariant ties each thread's `pc` to its locals (a popped packet is
in `buffer` exactly between pop and push, `op` is empty outside the drain).
`NobodyLeftBehind`: as long as the pending queue is not empty and the send queue has room,
a write is out or a thread is between the loop of `PrepareSend` and its `WSASend`
(`Attended`).  `FaultNeedsCrowd`: as long as no two threads have been between the queues at
once, what a thread has tested still holds when it uses it.  `Refinement`: until then the socket implements
`PacketPipe`, whatever the number of threads.  The wire, the sendOP, the send queue, the packet
between pop and push, and the pending queue, put behind each other in this order, are the
packets in the order of the calls of `Send`, complete; every step but `Send` leaves this line as
it is, and each `WSASend` takes its front.  `InOrder` follows: each sender's packets leave in its
order.  `ClientSafe`: one thread alone (`OneThread`, the client of the examples) is never
crowded, so it meets no fault at all.
`NothingInvented`, for any threads: what is queued, held or on the wire was given to `Send`.

`CircularBuffer_proofs`, for all sizes with `MaxPacketSize < DefBufferSize <=
MaxBufferSize`.  `TypeCorrect` bounds the positions, `_headPos` beyond the end included;
`OverrunNeedsHeadPastEnd`; `Refinement`: each operation on the ring is the operation on the
queue of its bytes.  The lemmas say what `Memcpy`, growth and the three ways to write do
to `Bytes`.

`PacketReceive_proofs`, for all contents.  `TypeCorrect`; `NothingIsLeft`: `NothingWaits`
follows from an invariant that says when the thread may leave the loop of `OnRecvData`.
`StaysInSync` is the invariant of the stream: until a packet was torn, buffer, read and wire
together are the frames of the packets from the next to be delivered on, so the buffer begins
at a header.  `IntactPackets` and `OnlyTheGuilty` are parts of it.  `TornForItsOwnBytes`: only a
header whose content is incomplete tears a packet.  `FrameBytes`, the position of a packet in
the stream, is a recursive function; the lemmas about it (that it grows, that no frame is longer than
the rest of the stream it begins) are by well-founded induction on the number of packets.
`Refinement` to `PacketPipe` follows from `StreamInv`.
`BufferStaysSmall`: at most `MaxPacketSize + HeaderSize - 1` bytes are ever buffered.  The
program's buffer starts at `DEF_SOCKET_BUFFER_SIZE`, ten times `MAX_PACKET_SIZE`, so the growth
and the refusal of `CircularBuffer::PutData`, which `CircularBuffer` models, are not met in
receiving.

`ThreadPools_proofs`, for any threads and connections.  `LeaveInOrder` needs to know what
a thread in `Join` has established, while others may be in `Join` too: `HandlesKept`, that a
thread whose handle is in no set any more has ended or was given up; `JoinKeeps`, that what
a joiner has still to come to, or keeps for the next round, covers all others; and that a
swap under another's iteration ends the behaviour.  `StopOnEmpty` needs `SeenEmpty`: between
the test of `IsEmpty` and `Deactivate` only connections in `newSince` become busy.
`WaitsAlone` says what the run `join_twice` needs: a wait for a closed handle
(`FailsOnlyInCompany`) is one of two threads that join the network threads at the same time; the
invariant `ClosedInCompany` is that a handle that is closed and still in the set, or still to be
waited for by a joiner, is one that another joiner is in its loop to have closed.  `SomebodyStops` is the safety core of `ShutdownReturns`
(`StopIsHandedOn`): after `Shutdown` was called, and until the network threads are told
to stop, a connection is busy or a thread is on its way to find that none is; from then until
the game threads are told to stop, a thread is in the `Join` of the network threads.  What is
left to liveness is that busy connections, handlers and rounds of `Join` come to an end.  The joiners hand the duty on to each other: `HandedNet`, `HandedJoiner`,
`HandedMain`.

`NetAcceptor_proofs`, for any number of buffers, workers and connections.
`FewAcceptsLeft`: once `_socket` is lost, a buffer through which a peer got a connection is
not posted again, and the buffer of the failed accept stays dropped (`NotAgain`).
`NoWayBack` (`DeafForGood`): no call, completion or disconnect makes a deaf listener accept
again, which the liveness property `EventuallyAccepted` leaves open.

`PacketDispatch_proofs`, for any threads and bounds.  `BlocksBalance` counts queues, hands
and requests.  `NoLostWakeup` is inductive as it stands.  `QueuesDoNotCarryOver`: while
nothing overlapped (`Clean`), a thread in `OnDisconnected` is alone, each queue is empty
after its clearing, and all that is in a queue or in hand is of the present use.

`ConnectionLife_proofs`, for any capacity, objects and workers.  `NoZombies` rests on what
each step does to the requests of a connection (`Posted` adds one, `Take` takes one and
leaves a thread in pursuit).  `QuietWhenFree`: while no use ended beside other work (`Calm`) a
connection that is being connected is quiet until its socket is there, and a thread in
`OnDisconnected` is alone with its connection.  `FiledForParent`: that the number of free
objects is the slot of the connection holds because `RegisterCon` takes the first free
connection, so that connections are registered for the first time in the order of their
slots (`InTurn`), and because until one is connected each has exactly one entry in
`_freeObjs` (`OneEntry`); `FiledInTurn` is the counting.  `Refinement`: with its application,
requests and handlers, of which several may end the same use, a connection still implements
`ConnectionPool`, the abstract specification that `NetConnectionMgr` implements too.

`FailsOnlyInCompany`, `StopIsHandedOn`, `DeafForGood`, `PacketReceive`'s `ImplementsPipe` and
`ConnectionLife`'s `ImplementsPool` are in no configuration: they are consequences and counterparts of
properties that are, and the proofs cover the constants of every configuration.

Model-checked only: liveness (`EventuallySent`, `EventuallyDelivered`,
`EventuallyAccepted`, `ShutdownReturns`; fairness is beyond the prover), and the three
properties that runs refute (`NoFault` for more than one thread; `ClientSafe` proves it for
one).  Every safety property of a passing run is a theorem.

## 5. Not modelled

- An object that is connected again while it is in use.  `RegisterNetObj`
  (`reflib_net_service.cpp:132-153`) does not test for it and would overwrite the object's
  connection; `ConnectionLife`'s `RegisterCon` has it as a guard.  `IocpClient` connects each
  object once.  A second attempt after `Connect` returned false is in the model.
- The overrun of the ring buffer as seen by a connection: `CircularBuffer` says when it comes,
  `PacketReceive` assumes a buffer that has not met it.
- In `NetSocketSend`, a connection that ends and a `WSASend` that fails: they are in
  `ConnectionLife` and `PacketDispatch`.
- Salts that become negative: runs and proofs stay below (`NoWrap`).
- A successful read of 0 bytes, the peer's orderly close, is a step of `PacketReceive`
  without a property: the code handles it as data, for ever, and has no path from it to
  `OnDisconnected`.
- What a `std::map` does under the access in `FreeNetObj` that takes no lock: the model
  makes `FreeNetObj` atomic.  What happens after a fault (`_hThreads` swapped under an
  iteration, a null block, an overrun buffer): undefined.
- The remaining bits of `_netStatus`, which nothing reads but a log line and the mask of
  `PostSend`; the byte limit of `PrepareSend`, which is as large as the limit on the
  number of packets allows.
- `PacketDispatch` treats batching as an outcome (sent, left, or lost with a failed
  `WSASend`); `NetSocketSend` has the detail, for one use.  `ConnectionLife` has the
  client's way of registering objects; a server registers all of them first, which is the
  case `~mixed`.
- Objects that the application destroys while they are connected (`weak_ptr`).
- `NetworkAPI::Initialize`, thread creation that fails half-way: they end the program
  before it began.
- `NetProfiler` (counters nobody reads back), name resolution, error strings, the vendored
  Loki headers, `MemoryBlock::Resize` and `CreateThreads` with a thread procedure of its
  own, which nothing calls.

The build.  `REFLIB_ASSERT` is the C `assert`, so a Release build (`NDEBUG`) does not even
evaluate its argument, and `OnRecvData` does not call `PutData` at all
(`reflib_net_socket.cpp:276`).  The modules follow a build in which assertions are
evaluated but a failed one does not end the program: a Debug build whose assertion box is
answered with "Ignore".  A Debug build that stops there does less than the modules do, at
`reflib_net_socket.cpp:29`, `:37` and `:43` and `reflib_net_obj.cpp:49` (a buffer or queue is not
empty when it is cleared: `PacketReceive` and `PacketDispatch` with its strays), at
`reflib_net_socket.cpp:272` (a read of no bytes: `PacketReceive`), and at
`reflib_circular_buffer.cpp:60` and `:84` (a put that is refused: `CircularBuffer`).  Its
behaviours are prefixes of those of the modules, so the safety results hold of it as well; the
liveness results say nothing of a program that has stopped.

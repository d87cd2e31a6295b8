# Slamware ROS bridge in TLA+

A verification development for the ROS bridge node (`src/src/ros_bridge`) and
for the parts of the Slamware SDK that come as header code and that the node
runs on (`src/src/slamware_sdk/include/rpos`).  Paths below are relative to
these two directories: `ros_bridge/...` and `rpos/...`.

1. The system
2. Modules
3. What the runs check
4. What is proved
5. Disagreements between the code and what is said of it
6. What is not modelled
7. Plan

## 1. The system

The node makes a third-party robot base and lidar, which speak ROS, look like
devices of a Slamware core.  ROS messages come in on the main thread, clients
of the core ask for scans and movements on threads of a bridge server.

### 1.1 Process life cycle and devices manager

`main.cpp`, `devices_manager_service.cpp`, `ros_node_service.cpp`,
`devices/ros_base.cpp`, `rpos/context/base_service.h`.

- *State*: the status of each service, `working_` (an atomic flag), the work
  thread, the bridge instance, the device pointers in `Ros1Node`.
- *Operations*: `main` starts the two services in the order of their
  dependencies (ROS node first), spins, and stops them in the reverse order;
  the work thread initialises the bridge, makes and registers the virtual
  devices, starts the bridge, sends a heart beat until `working_` is cleared,
  stops and releases the bridge.
- *Interaction*: the main thread joins the work thread; server threads call
  the devices, which call the ROS node service; the scan callback, on the main
  thread, calls the devices the work thread registers.
- *Hard*: three kinds of threads share flags and pointers without a lock; the
  bridge may fail to initialise or to start; the node may be stopped at any time.
- *Correct if*: a stopped manager has nothing left running, devices never use
  a stopped ROS node, the bridge server is used as it asks, stopping ends.

### 1.2 Odometry path

`ros1_node.cpp` 73-120 and 167-186, `rpos/core/angle_math.h`.

- *State*: last pose, pose of the last reply, increments not yet asked for, a
  flag for the first request, a time stamp.
- *Operations*: a message sets the pose or adds an increment; a request
  returns the movement since the last one.
- *Hard*: requests and messages interleave; the flag is tested before the lock
  is taken; the increments are relative to a heading that turns.
- *Correct if*: the replies add up to the real movement.

### 1.3 Laser scan path

`ros1_node.cpp` 121-165 and 194-215, `devices/ros_rplidar.cpp`.

- *State*: the device pointers, the topic once it has been made, one message that
  is filled again for each scan.
- *Operations*: a scan is converted and given to the lidar device; while the SDK
  has a client and the segment is there, it is put into the message, which is
  published on a topic that keeps one message.
- *Interaction*: readers in other processes read the topic at any time.
- *Hard*: one message for all scans, overwritten in place in the segment; clients
  and segment come and go between scans; the number of points comes from a division.
- *Correct if*: readers are given whole scans, and none that is earlier than the one
  before.

### 1.4 Shared-memory topic

`rpos/system/shared_memory/shm_topic.h`, `shm_subscription.h`, `shm_message.h`.

- *State*, all of it in the segment: a bounded queue of messages, a recycle
  bin of payload objects, the last sequence number, the set of subscriptions
  with the number each has read up to.
- *Operations*: publish (to a queue or in place), subscribe, unsubscribe,
  read the next or the latest message, read all.
- *Hard*: overflow, retirement of what everybody has read, recycling of the
  payload objects, allocation that fails half way, readers that die, time
  limits of subscriptions.
- *Correct if*: no object has two owners, readers get every kept message once
  and in order, assertions hold.

### 1.5 Lock of a topic

`shm_topic.h` 362-411.  The mutex lies in the segment.  A process that finds it
taken for too long unlocks it for its owner.  *Hard*: deciding that from a time
stamp the owner writes after it has locked, with clocks and processes that stop
anywhere.  *Correct if*: one process at a time works on the topic, and a dead
owner does not block the others.

### 1.6 Services with a thread

`rpos/context/threaded_service.h`, `base_service.h`.  `start()` and `stop()`
hold the lock of the service while they call `onStart()` and `onStop()`, which
make and join the work thread.  *Hard*: callers on several threads, a thread
that cannot be made, a thread that wants the same lock.  *Correct if*: the
status is true, calls find no half-way state, `stop()` returns.

### 1.7 TCP connections

`rpos/system/util/tcp_server.h`, `tcp_client.h`.

- *State*: a buffer that is kept and one that is being written, with the count
  of bytes the socket has taken; the flag `sending_`; the operations under way;
  the socket; the list of connections of a server; the I/O thread.
- *Operations*: `send()` appends and starts a transmission unless one runs; the
  handler of a write continues with the rest and then with what was appended;
  the handler of a read delivers and reads on; `close()` and errors end the
  connection; a client resolves a name and tries its addresses in turn.
- *Interaction*: any thread calls `send()` and `close()`, also from the handlers'
  callbacks; an I/O thread runs the handlers; the main thread starts and stops.
- *Hard*: the flag is reset and tested in two critical sections, and part of the
  state is read outside any; writes take a part of the buffer; the connection is
  closed from several sides at once; a client is stopped while it connects;
  the I/O thread ends when it has nothing to do, and may be made twice.
- *Correct if*: the peer receives the stream that was sent, nothing accepted
  stays behind, attempts to connect settle, closed connections are let go.

### 1.8 HTTPS client

`rpos/system/util/https_client.h`.  Any thread sends: it makes an easy handle,
enters a context for it and adds the transfer to the multi handle.  A worker lets
libcurl transfer, and for each transfer that has ended finds the context by the
address of the easy handle, calls its handler and frees both.  *Hard*: three steps
of `send()` beside the worker; addresses that are used again; `start()` and
`stop()` that replace and free the multi handle; a worker that looks up only when
nothing is transferred.  *Correct if*: each request is answered by its own handler,
once, when its transfer has ended, and `stop()` returns.

### 1.9 Waiting

`rpos/system/util/async_synchronizer.h`: threads wait, up to a time limit, for the
first call of a callback.  `waiter.h`: threads wait for a flag that one of them
takes.  *Hard*: limits that race answers, late and repeated answers, wake-ups
without a reason, a `notify()` that does not take the mutex.  *Correct if*: the
first answer stands, and waking needs no help from the clock.

### 1.10 Signals

`rpos/system/signal.h`, `signal/signal_impl.h`.  An emission runs through the table
of handlers without the lock of the table; what is connected or disposed meanwhile,
also by handlers, is put off to its end.  *Correct if*: an emission calls exactly
the handlers that were connected when it began, and no change is lost.

### 1.11 UDP client

`rpos/system/util/udp_client.h`.  The hand-over of 1.7 without a handshake;
`connect()` resolves and opens at once and may throw half way.  *Correct if*: the
socket is given the bytes in their order, and all of them.

### 1.12 Topic manager

`rpos/system/shared_memory/shm_topic_manager.h`.  A map from names to topics in the
segment, used by several processes: topics are found or made, and deleted by name
or by pointer.  Freeing a topic is outside the lock of the map.  *Hard*: the order
of freeing and erasing, freed places that are used again, each step that can fail.
*Correct if*: a name never leads to a place without a topic of that name, and no
topic is forgotten.

### 1.13 Shared and dynamic configuration

`rpos/system/config/config_provider.h`, `system/util/atomic_signal.h`: a
configuration that any thread replaces; readers look at a flag without a lock and
get it again when the flag is set.  `system/config/dynamic_config.h`: a
configuration in two halves, one written by whoever dispatches a new one, the other
shown to readers, of whom the first takes the new half over.  *Hard*: flags that are
tested, reset and read in several steps.  *Correct if*: no reader stays with an old
configuration without a flag that says so.

### 1.14 Other parts

The application context, the segment and its heartbeat, the platform, feature and
message classes, the thread pool, streams and the debug server are declarations of
binary libraries.  Timers, event counters, parsing and serialization are sequential
conversions.  `PROJECT.json` lists each with its status, and every hazard of the
code with its line and the properties that watch it.

## 2. Modules

| Module | Models | Used by |
|---|---|---|
| `DevicesManager` | 1.1, every thread of the process | `MCNode`, `MCDevicesManager`, `DevicesManagerProofs` |
| `BridgeContract` | what the bridge server promises and asks (abstract) | refined by `DevicesManager` |
| `PlanarMotion` | poses, movements, their sums (pure operators) | `Odometry` |
| `Odometry` | 1.2 | `MCNode`, `OdometryProofs` |
| `ShmTopic` | 1.4 with each call atomic | `MCShmTopic`, `ShmTopicProofs` |
| `TopicFeed` | what a reader of a topic is given (abstract) | refined by `ShmTopic` |
| `ShmLock` | 1.5, one access at a time | `MCShmLock`, `ShmLockProofs` |
| `LaserScan` | 1.3, over `ShmTopic` | `MCLaserScan`, `LaserScanProofs` |
| `ThreadedService` | 1.6 | `MCThreadedService`, `MCUtilities`, `UtilitiesProofs` |
| `TcpServer` | 1.7, a server and one connection | `MCTcpServer`, `TcpServerProofs` |
| `TcpClient` | 1.7, a client | `MCTcpClient`, `TcpClientProofs` |
| `ByteStream` | what `send()` promises (abstract) | refined by `TcpServer`, `TcpClient`, `UdpClient` |
| `HttpsClient` | 1.8 | `MCUtilities`, `UtilitiesProofs` |
| `AsyncSynchronizer`, `Waiter` | 1.9 | `MCUtilities`, `UtilitiesProofs` |
| `Signal` | 1.10 | `MCUtilities`, `UtilitiesProofs` |
| `UdpClient` | 1.11 | `MCUtilities`, `UtilitiesProofs` |
| `ShmTopicManager` | 1.12, the map; what is in a topic is `ShmTopic` | `MCUtilities`, `UtilitiesProofs` |
| `ConfigProvider`, `DynamicConfig` | 1.13 | `MCUtilities`, `UtilitiesProofs` |

Definitions carry the name of the function they translate; `map` in
`PROJECT.json` gives the lines of each.  A definition introduced by *Slip* is
a plausible mistake in the code; it is used only to see that a property would
notice it.

**DevicesManager.**  `mainPc` and `workPc` are the next statements of `main()`
(with the services it calls inlined) and of `workThread_()`; `serving` is the
set of clients inside a device.  A step is one access to something another
thread sees: `onStop()`, for instance, is the three steps `LoadWorking`,
`StoreWorking`, `Join`.  `ScanCallback` is `laserScanCallback_` as far as it
dereferences the pointers of the devices; `aborted` is the process after a
failed assertion of `shared_ptr`.  The server behind `bridge_` is a library;
`BridgeStates` and the fact that `stop()` waits for the server threads are
modelled from its header.

**Odometry.**  A message has the number it arrives with as its time stamp.
Coordinates are integers and headings are quarter turns, so that sums are
exact; `path` remembers where the base was after each message and `track` adds
up what the client was told, so that `track = path[reply.stamp]` says that the
client and the base agree.  The branch of `getDeadReckon` is chosen in one step
(`GetDeadReckon`) and executed under the lock in another.  The kind of
odometry (`accumulated`) is read once at start and never changes.  Movement is
asked for by one server thread at a time: `RosBaseDevice` is one object that the
server polls for one core (`OneCaller`); with two at once the test of
`initEstimationFlag_` outside the lock would lose a movement.

**ShmTopic.**  A payload is the number of the publish call, memory is a set of
handles of which some are allocated.  The three vectors of the code are
`messages`, `recycleBin` and `subscriptions`; the loops of the code that retire
messages one after the other are the one operator `RetireFirst(q, k)`.  A
subscription with a time limit may have expired at any publish.  The steps that
fail are actions of their own (`PublishRefused`, `PublishThrows`,
`SubscribeThrows`, `ReadAborts`).  Atomicity of a call is what `ShmLock` is about.

**ShmLock.**  A step is one access to the mutex, to `lastLockTime_` or to the
clock.  Time is relative: `age` is the time since the stamp, `since[p]` the
time since `p` read the clock; the difference the code computes is `age - since[p]`,
which may be negative and is then a huge unsigned number in `doTimedLock_` and a
negative one in `doTryLock_`.  A unit of time is a step of the clock, a millisecond
in the code, and the clock may go on between any two statements.  `sound` remembers
that none of these events has happened: an owner died, or kept the lock until its
stamp was older than the limit; the lock was found taken before its owner had
stamped it; it was taken by one process while another, which had found it taken,
was deciding whether to force it.  The code prevents neither of the last two.

**ThreadedService.**  `locked` is `BaseService::lock`, `pc` the progress of the
callers, `worker` the thread: none, at its first statement, in `worker()`, done.

**TcpServer, TcpClient.**  `sent` is everything that `send()` has accepted and
`written` everything the socket was given; the buffers between them have the
names of the code.  A critical section is one step, because it waits for
nothing; what lies between two of them is a place in `pc`: `append` and `start`
of a sender, `transmit` between the test of `sending_` and the copy of the buffer
(client), `reset` between the end of a write and `sending_ = false`, `close` and
`remove` in `close_()`.  The unlocked reads of `txBuffer_.size()` in
`onTransmitComplete_` only decide whether `onSendComplete` is called, since
`startTransmit_` follows both ways.  Handlers of finished operations are taken by
a thread in `io_.run()`; what the socket does is external: a write takes any part
of the buffer, operations end with an error when the socket is closed or the
peer has gone.  The server has a first I/O thread, made by `start()`, and
possibly a second, which a handler makes that does not find `ioThread_` assigned
yet.  A connection of the server is still open after `shutdown`, so `close_()`
may go through it again.

**LaserScan** extends `ShmTopic` with the callback, which publishes into it, and
lets readers use the topic meanwhile.  A payload of `ShmTopic` is the number of a
publish call; `content` says which message that call published, and `deviceScans`
what the lidar device was given.  The callback is one step: its message lies in the
segment, as its vector uses the segment's allocator, but no other process has a handle
of it, and what is shared is touched by the one call of `publish`.  That call may
find no lock or no memory and return false, which the callback ignores
(`PublishScan`), or throw; nothing catches an exception on the way, so that the
process of the node ends with it (`ended`), as it does when the message cannot be
filled, or for any other reason (`NodeEnds`).  `made` is what `getOrCreateTopic` returns; `count`, the result of a
division, is any number.

**HttpsClient.**  `stage` is the progress of each `send()` (its easy handle made,
its context entered, its transfer added), `selector` that of the worker.
Addresses of easy handles are few, so that they are used again.  `transfer` is what
libcurl knows; transfers end when they like, or never.

**AsyncSynchronizer, Waiter.**  A wait is three steps: the test, the waking (by a
notification, by the clock, or without a reason) and the test after it.  In `Waiter`
a thread that has tested the flag is not asleep yet: it has the mutex, and a
`notify()` that does not take it comes between (`missed`).

**Signal.**  Tokens grow, so that the iterator over the table is the least handler
not called yet.  `connected` is what ought to be in the table, `due` what the
emission began with.

**UdpClient** is built as `TcpClient` is, with one address, no list of statuses and
datagrams that are taken whole.

**ShmTopicManager.**  A topic is the place of its data, with the name that is
written there.  The sections under the lock of the map are one step each; `task` and
`target` are a `deleteTopic` outside of it.

**ConfigProvider, DynamicConfig.**  A configuration is the number of the update that
brought it.  The steps of `resetIfSignalled` and of `config()` are separate, as
nothing guards them together.  Copying into `parsed_.first` is a step that begins it
and one that ends it, since the lock is shared: two readers may copy at once (`torn`),
after which either may leave anything there, and who holds a reference reads it
meanwhile.

**MCUtilities** puts the classes 1.6 and 1.8 to 1.13 into one run.  They share nothing:
a behaviour chooses one of them in its first state (`unit`) and the others stay in
their initial states, where nothing is both fair and enabled.  **MCNode** does the
same with the two parts of the node's process, its life cycle and the odometry path (`part`); the fairness of
`DevicesManager` is asked for in the behaviours of the first only.

## 3. What the runs check

| Run | Instance | Distinct states |
|---|---|---|
| `node` | 2 clients and shared scans, or 1 caller and 5 messages out of 3 poses or 3 increments that turn and move | 190 170 |
| `shm_queue` | 2 readers, queue of 3, bin of 1, 6 handles, 5 publish calls | 105 016 |
| `laser_scan` | 2 readers, one message, 3 scans of 1 range, 3 handles, publish calls without a lock | 397 768 |
| `shm_faults` | 2 readers, queue of 2, 5 handles, 3 publish calls, failures and time limits | 227 722 |
| `shm_lock` | 3 processes, a wait of 2 ticks, a limit of 2 | 1 409 442 |
| `utilities` | nine classes, a behaviour is one of one | 111 443 |
| `tcp_server` | 2 senders, messages of 2 bytes, sending begun while fewer than 3 were sent | 585 736 |
| `tcp_client` | 2 senders, messages of 1 and 2 bytes, sending begun while fewer than 4 were sent, up to 3 addresses | 83 267 |

- `node`: `StoppedIsQuiet` and `RequestsNeedRos` relate the position
  of `main()` to the work thread and the clients; `ImplementsContract` is the
  refinement of `BridgeContract`; `SeenStopCompletes` is the liveness of a stop.
  In the behaviours of the odometry path `TrackIsReal`, that no movement is lost,
  invented or added in the wrong frame.
- `shm_queue`, `laser_scan`: `ImplementsFeed`, the refinement of `TopicFeed`,
  in which a reader has only a cursor into the log of everything published: all
  the machinery of queue, bin and retirement must be invisible.
  That the assertions of `lookupNextMessage_` hold (`LookupHolds`) is a part of
  `IInv` where allocation succeeds.
- `laser_scan`: `ReaderSeesOneScan`, that no reader is given a mixture of two scans
  though one message serves for all, and `ScansNeverGoBack`, that none is given an
  earlier scan after a later one, whichever publish calls find no lock, whichever old
  message is published again and whenever the node ends.  Allocation succeeds in this
  run, as `ImplementsFeed` needs it; `ScansAreWhole` and `ScansComeInOrder` (section 4)
  prove the other two where it fails as well.
- `shm_faults`: `AtMostOneOwner`, that no object has two owners and none is used after
  it was destroyed, whatever fails; and `RepliesNeverGoBack`, that a client is given
  nothing older than before, also through a handle that has become another's.
- `shm_lock`: `MutualExclusion` as long as `sound`; `AbandonedIsRecovered`.
- `utilities`:
  - services: `StatusTellsWork`, `HalfWayIsUnmade` (3 callers);
  - HTTPS: `HttpsIInv`, `EndedIsAnswered`, `HttpsStopReturns` (3 requests, 2 addresses,
    2 calls of `start()`);
  - waiting: `AnswerStands`, `AnswerWakesAll` (3 waiters, one of them with
    `tryWaitForResult`, 2 calls of the callback), `EachNotificationReleasesOne`,
    `FlagIsTaken` (3 threads, one with a limit, 2 notifications);
  - signals: `ChangesAreKept`, `EmissionCallsThoseConnected` (2 emitters, 3
    connections, 3 changes put off);
  - UDP: `DatagramsInOrder`, the refinement of `ByteStream`, and `DatagramsAreSent`
    (2 senders, sending begun while fewer than 4 bytes were sent);
  - topic manager: `TopicsAreReached` (2 processes, 2 names, 2 places);
  - configuration: `NoUpdateIsMissed` (2 readers, 3 updates), `NewestIsShown` (2
    readers, 3 calls of `dispatch()`).
- `tcp_server`, `tcp_client`: `ImplementsStream`, the refinement of `ByteStream`:
  whatever is appended while writes take parts of the buffer, the socket is given
  a prefix of what was sent.  `EverythingIsSent`: it is given all of it, unless
  the connection ends.  `ClosedIsReleased`: a connection that was closed from any
  side gets off the list and no operation holds it.  `ConnectSettles` and
  `ThreadEnds`: an attempt to connect ends in one status or the other even if
  `stop()` comes in between, and the thread of a connection ends with it.

Half of these runs also check the inductive invariant of their module (`IInv`); in `UtilitiesProofs` most of the properties are
inductive themselves.  The remaining runs are those of section 5.

**Bounds.**  `MaxPublish` is larger than the queue and the bin together, so
that overflow, recycling and reading behind an overflow all happen, and there
are as many handles as two readers and a full queue and bin need.
`MaxMessages` lets the base turn through more than a full circle.  `MaxSince`
bounds the time between reading the clock and using what was read by one tick more
than the limit; `MaxAge` caps the age of a stamp where larger ones are no longer told
apart.  A wait and a limit of two ticks leave room for a tick before, at and after
each; in the code both are thousands of ticks, and the proofs are for all values with
`Wait <= Timeout`.
Three processes are what it takes for two of them to wait for a third; three
callers, for two to wait while one is inside.  `MaxSent` lets both senders append
while a write is under way, with messages of two bytes so that a write can stop
inside a message; three addresses are a first, a middle and a last one.  Three
requests with two addresses make an address serve twice while another is in use;
two starts, one of them in the middle of transfers.  Two answers are a first and a
late one.  Three changes are a connection made and disposed in one emission with
another in between.  Two names with two places let a freed place be given to the
other name.  Three updates let one fall between the test and the reset of a
signal and one after it.  One range that is in bounds or not, with a count that is
too small, right or too large, tells scans apart; three scans let the message be filled,
left and filled again.  Handles and readers are
interchangeable in `ShmTopic`, and declared so in the runs without liveness.

**Deadlock** is checked except in four runs.  In `utilities` and
`service_stop`, `stop()` may really block for ever (section 5), and what is
checked is the state of the service on all the behaviours that lead there; the
other classes of `utilities` end with their bounds, and an emission whose handler emits again is
stuck.  In
`tcp_server` and `tcp_client` everything may have come to its end: nothing to
send within the bound, the connection closed, the threads gone.  `DevicesManager` ends with
the process (`Terminated`).

**Fairness.**  Threads of a live process are scheduled (`WF` of each thread's
steps), requests return, time passes (`WF` of `Tick`).  Not assumed: that messages
arrive, that the user stops the node, that clients ask or stop asking, that
`worker()` returns before it is told to, that somebody sends, closes or stops a
connection, that the peer stays or goes.  `SeenStopCompletes` assumes the
heart beat returns.  In `ShmLock` a process gets on with its call because what is
done under the lock is straight-line code; a dead one takes no step.  For the
connections, `SF` of the ends of writes, of failing reads, of resolving and of
connecting: a thread that runs another handler cannot take them at that moment,
but `io_service` queues finished operations and serves them in turn.  That a
socket with a peer takes bytes at some time is part of it.  In `UdpClient`, `SF` of
an attempt to send to end one way or the other, as datagrams may come in all the
time.  In `HttpsClient` the worker is scheduled and handlers return, but no transfer
has to end; in `AsyncSynchronizer` and `Waiter` threads go on that have begun, but
no time limit has to pass, nobody has to answer or notify.

## 4. What is proved

With TLAPS, for every value of the constants:

| Module | Theorem | For |
|---|---|---|
| `DevicesManagerProofs` | `Invariance`, `TypeCorrect`, `StopIsQuiet`, `RequestsFindRos`, `ContractRefinement` | any clients |
| `OdometryProofs` | `AccountsAgree`, `TrackFollowsBase` | both kinds of odometry, any poses and increments, any number of messages, one caller |
| | `IncrementsAddUp` | increments, any number of callers at a time |
| `ShmTopicProofs` | `TypeAndOwnership`, `NoObjectHasTwoOwners` | any readers, handles, limits, failures |
| | `LookupNeverAsserts`, `NoObjectIsLost` | the same, while allocation succeeds |
| | `ReadersAreFed` (the refinement of `TopicFeed`) | any readers, handles and sizes, while allocation succeeds and subscriptions have no time limit |
| `LaserScanProofs` | `ScansAreWhole`, `ScansComeInOrder` | any scans, readers, handles, time limits, failures |
| | `ScansAreFed` (the refinement of `TopicFeed`) | any scans, readers and handles, while allocation succeeds and subscriptions have no time limit |
| `ShmLockProofs` | `LockInvariance`, `LockExcludes` | any processes, any limit, any wait up to it |
| `TcpServerProofs` | `ServerIsSound`, `ServerStream` | any senders, bytes, messages |
| `TcpClientProofs` | `ClientIsSound`, `ClientStream` | any senders, bytes, messages, addresses |
| `UtilitiesProofs` | `FirstAnswerStands` | any waiters, any calls of the callback |
| | `NotificationsAreCounted` | any finite number of threads and notifications |
| | `RequestsKeepTheirHandles` | any requests, addresses and restarts |
| | `TopicsStayReached` | any processes, names and places |
| | `UpdatesAreNoticed` | any readers and updates |
| | `NewestIsTakenOver` | any readers and calls of `dispatch()` |
| | `DatagramStream` | any senders and messages that are not empty |
| | `ChangesPutOffAreMade`, `EmissionsAreComplete` | any emitters and handlers, any number of changes |
| | `ServiceInvariance`, `ServiceStatusIsTrue`, `ServiceHalfWay` | any callers |

Most assumptions on constants are types and positive limits
(`ShmTopicAssumption`, ...).  Those that say more are:

- `LaserAssumption`: `Singleton`, the quality of service the node asks for
  (`ros1_node.cpp:209-213`).
- `TimeAssumption` of `ShmLock`: `Wait <= Timeout`; in the code a wait is a second and
  the limit is `c_lockTimeoutInMS`.
- `ReadersAreFed` and `ScansAreFed` assume `~AllocFails` and `~Limited`,
  `LookupNeverAsserts` and `NoObjectIsLost` have `~AllocFails` in their statements, and
  `TrackFollowsBase` has one caller.  Without these the code does not keep what they
  say (section 5).

`sound` of `ShmLock`, and `overtaken`, `garbled` and `torn` of `DynamicConfig`, are not
assumptions but parts of the properties: they say which runs of the code are excepted.
Each proof follows one inductive invariant, checked by TLC first.

- *DevicesManager*: `StoppedIsQuiet` is not inductive, since it says nothing
  before `main()` has joined the thread.  `IInv` adds what the work thread has
  done to the bridge at each of its statements (`BridgeAt`), when the thread
  exists and has ended relative to `main()` (`ThreadAt`), and that the ROS node
  runs all the while (`RosAt`).
- *Odometry*, absolute: `TrackIsReal` needs that the pose kept for the next
  difference is the one of the last reply (`TrackIsPrePose`), that the current pose
  belongs to the current time stamp (`PoseIsLast`) and that the branch chosen outside
  the lock still suits (`BranchFits`).  The lemma `MovedInverse` is the geometry: a
  pose moved by the difference to another is that other.
- *Odometry*, increments: what the client knows, moved by the sum of the increments
  it has not been told, is where the base is (`TrackLagsByIncrements`).  A message
  moves both sides alike because movements compose (`MovedAssociative`, over the nine
  kinds of turn of `TrigCases`) and the sum of a sequence with one more increment is
  the sum moved by it (`AccumulateAppend`).  That last fact is an induction over the
  partial sums: the least place where those of two sequences differ would be one
  after a place where they agree.  No test is made outside the lock, so that callers
  need not take turns (`IncrementsAddUp`).
- *ShmTopic*: `AtMostOneOwner` alone is inductive only together with the limits of the
  bin; the position arithmetic of `lookupNextMessage_` needs that the queue holds
  consecutive numbers up to the last one (`Contiguous`), which retirement from
  the front and appending keep and a failed allocation breaks.
- *ShmTopic* as a `TopicFeed`: the log of what was published is the numbers of the
  calls; the payload of a queued message is its number, also when its object comes from
  the bin (`Faithful`); what somebody has still to read was retired only from a full
  queue (`Kept`); and a client's handle is a subscription of its own (`HandlesAreOwn`).
  `FeedInv` states the four, over `IInv`.  The proof has one step per operation.  That
  of reading the next message turns the position arithmetic of `lookupNextMessage_`
  into the promise of `TopicFeed`, the oldest message that is kept and comes after the
  cursor; that of `readAll` shows that what it returns is a gapless run of the log.  With
  time limits `HandlesAreOwn` fails, and with it the refinement, because the
  handle of an expired subscription may be given to another (section 5).
- *LaserScan*: every step of the callback and of the other processes is a step of
  `ShmTopic` or none (`LaserIsTopic`), so that the theorems on the topic carry over.
  `LaserInv` adds that the message in the callback's hands is one scan from the moment
  there is a topic, that each publish call that took a number put one scan there, with
  time stamps that never decrease, and that the one message of the queue holds what
  some call published, not later than the last; that a message is filled again while a
  reader has it is harmless since `publish` copies.  A call that fails takes a number
  or not, and leaves the message of the topic as it was (`PublishLeaves`).
- *ShmLock*: while `sound`, the lock has one owner whose stamp is within the limit.
  Who has found the lock taken has found it stamped, so that `ts`, read after that, is
  not before the stamp: the difference is not negative and within the limit, and nobody
  gets to the statements that force the mutex while it has an owner (`Orderly`).  That
  the stamp does not change between reading `ts` and comparing it is what the events of
  `sound` amount to; how much time passes between these statements does not matter.
- *TcpServer*, *TcpClient*: the equation `sent = written o in flight o kept`
  (`Pipeline`) gives the refinement of `ByteStream`.  It is kept only because the
  buffer of a write is left alone until the handler of that very write has reset
  `sending_` (`OneWrite`, `OneTransmission`), and the byte that was appended at
  that moment finds somebody on the way to `startTransmit_` (`NothingForgotten`).
  For the server that also takes that handlers run only after the connection was
  accepted (`NothingBefore`), for which the threads are counted
  (`ThreadsMadeOnce`).
- *ThreadedService*: one caller at a time is inside, has the lock, and finds what
  its statements so far have left (`CallAt`).
- *Signal*: one emission is past the lock of snapshots at a time and has called the
  handlers of `due` in their order up to some token (`OneEmission`); the table with the
  changes put off, applied in their order, is what `connect()` and `dispose()` have made
  of it (`Applied = connected`).  The lemmas unfold what `Applied` computes one change
  at a time, for any number of them.
- *HttpsClient*: that a request is answered once needs that its address is its own
  for as long as it is open, also while the worker is between erasing and cleaning
  up (`current`), and that nothing is transferred that is not of an open request.
- *AsyncSynchronizer*: an answer is final because the callback tests and sets under
  one lock; a thread that a notification has woken proves that there is an answer.
- *Waiter*: the threads that were let go, and one more if the flag is set, are at
  most the notifications so far; a step moves one thread, so the proof is about
  cardinalities of sets that differ in one element.
- *ShmTopicManager*: the map leads to topics with the right name
  (`MapLeadsToTopics`); that survives another deletion only because a topic that is
  being freed is off the map and in the hands of one process (`DeletedByOne`); and a
  topic that is on neither side was lost by a failure (`NoneIsForgotten`).
- *ConfigProvider*: a reader with an old configuration is on its way, signalled or
  about to be; the order of reset and reading is what keeps it.
- *DynamicConfig*: what was parsed last stays in the second half until the next
  call, and as long as the flag is set nobody is about to reset it without having
  copied (`Takeover`); the copy is whole because nobody copies while somebody parses, and,
  until `torn`, one reader copies at a time.
- *UdpClient*: the equation of `TcpClient`, `accepted = given o on its way o kept`
  (`NothingBetween`), where bytes are on their way from the moment the kept ones are
  taken until the handler has reset `sending_`; at most one thread is between setting
  and resetting it (`OneDatagram`).

`IInv` of the other modules, `FeedInv`, `LaserInv` and `SignalIInv` were run by TLC
as invariants of the instances of section 3 before they were proved.

Induction over data appears twice, in the sums of increments and in the changes of a
signal.  The library's induction theorems take the statement to be proved as a
parameter, which the provers cannot instantiate; these inductions look at the least
counterexample instead, with `WFMin` of `WellFoundedInduction` for a set in place of a statement.
The computations are written as recursive functions for that (`Sums`, `Tables`).

Every invariant and every refinement that a passing run checks is the subject of a
theorem, and so is `ScansNeverGoBack`, under the conditions of the run where it has some: one caller in
`TrackFollowsBase`, no failing allocation and no time limits in `ReadersAreFed`.  Only
model-checked are `RepliesNeverGoBack` and the liveness properties (`SeenStopCompletes`, `AbandonedIsRecovered`,
`EverythingIsSent`, `ClosedIsReleased`, `ConnectSettles`, `ThreadEnds`,
`EndedIsAnswered`, `HttpsStopReturns`, `AnswerWakesAll`, `FlagIsTaken`,
`DatagramsAreSent`); the latter rest on fairness and `ENABLED`, which the prover does not
handle.

## 5. Disagreements between the code and what is said of it

Each is a run that finds a counterexample.

- `device_pointers` — `laserScanCallback_` uses device pointers the work thread
  sets later, or never when the bridge fails to start.
- `shm_lookup` — a publish that finds no memory keeps the sequence number it
  took; the next reader of quality "all" fails an assertion.
- `shm_lock_forced` — `doTimedLock_` forces a lock open which, as it logs, has been
  "locked for too long time", also when the owner has just stamped it: a clock that was
  read before gives a negative difference, cast to a huge unsigned one.
- `service_stop` — `stop()` joins, under the lock of the service, a thread whose
  first statement takes that lock.

The modules show more that the code does, where no line of the repository says
otherwise or a property had to make an exception:

- A request for the movement that comes before the first odometry message stores
  an uninitialised pose, and the next reply is a movement from there
  (`TrackIsReal` starts with the first reply that followed a message).
- A lock that has just been taken can be forced open in more ways than the run above
  shows: the owner stamps it after locking, and who finds it taken in between sees the
  stamp of the owner before, or none; a decision to force it may be carried out after it
  has changed hands; and two processes that wait for a dead owner may both force the
  mutex, the second from the first.  `MutualExclusion` says, by `sound`, until when the
  lock can be relied on.
- `laserScanCallback_` ignores the result of `publish()`.  When it is false, for want of
  the lock or of memory, the topic keeps an old scan, or none; the next scan is published
  as if nothing had happened.  After one that failed for want of memory, a new subscription
  may also be given a message that was published before it: `ImplementsFeed` is about
  topics whose allocation succeeds.  Readers are given whole scans in their order all the same
  (`ReaderSeesOneScan`, `ScansNeverGoBack`).
- A payload or a subscription whose construction throws stays allocated and has no
  owner, as the objects of clients that died; `AtMostOneOwner` does not exclude that,
  and `NoObjectIsLost` only while allocation succeeds.
- A client whose subscription has expired goes on with its handle, and when
  another subscription is given the same place, its reads pass the messages of
  that one.
- A stop that comes before the work thread has set `working_` is never noticed
  (`SeenStopCompletes` is about the others).
- A write that fails leaves `sending_` set.  In `TcpClient` this may happen before
  there is a connection, which then sends nothing (`Broken`).
- The thread of a `TcpClient` that was started before `connect()` may find nothing
  to do and end; `start()` makes no other, as the old one can still be joined
  (`ConnectSettles` is about a thread that lives).

- `deleteTopic` of a pointer frees the topic and then erases the entry of its name.
  In between the name leads to a freed place, which may be given to a topic of
  another name, so that two names share one; and the entry that is erased may by then be one
  of a newer topic.  `TopicsAreReached` is about deletion by name.  Readers keep
  their pointers into a deleted topic in both cases, and a publisher that waits for
  the lock of a topic being destroyed publishes into it before it is freed.
- `HttpsClient`: a transfer that does not end keeps all others from being answered
  and `stop()` from returning; a second `start()` forgets the transfers under way;
  contexts that are open at the end are never freed; `stop()` before `start()`, also
  by the destructor, cleans up a pointer that was never set; transfers are added by
  any thread to a multi handle the worker uses.
- `waitForResult` reports a timeout although the answer is there, if it came as the
  time ran out, and after a wake-up without a reason.
- `Waiter::notify()` without a result does not take the mutex, and falls between a
  test and its wait (`missed`); `wait_for` clears a flag it was not given, so that
  another waiter misses it.
- `Signal`: a handler that emits its own signal waits for itself; a handler disposed
  during an emission may still be called after that; the counter of the tokens is never set.
- `UdpClient`: a datagram that fails leaves `sending_` set; `receiving_` is never reset, so
  that after `stop()` and `connect()` nothing is received; an I/O thread that has
  ended is the last; `connect()` that throws leaves the socket open; what several
  calls append meanwhile is sent as one datagram.
- `DynamicConfig`: a dispatch between a reader's copy and its `writed_ = false` is not
  shown until the next one, and one that fails to parse leaves what it has written.  Two
  readers may copy into the shown half at once, under a lock that is shared, and who holds
  a reference to that half, or finds the flag reset by another, may see it half copied.

## 6. What is not modelled

- The conversion of angles and ranges of a scan, and the segment that is remade
  while topics are in use (the functions are in a binary library).
- A topic that is destroyed while it is used, and the forced release of the lock of
  the map of topics.
- The options of an HTTPS transfer and the assembly of its header and body; the
  removal of listeners, of which only the declaration is there.
- Of the connections: a server that is started again after it was stopped, more
  than one connection at a time (they share only the list and the threads), a
  third I/O thread, exceptions of callbacks.
- Time stamps of messages and their arithmetic, wrapping of sequence numbers
  (after 2^31 messages): listed as hazards.
- Application context, segment, heartbeat, platform, features: binary libraries,
  of which only the documented behaviour that the modules rely on is used.
- A node that is started again after an exception ended its process (`ended`), and
  exceptions of the mutex itself (`shm_topic.h:387`).
- Parameters of the node, logging, timers and event counters, parsing and
  serialization: sequential conversions.
- Vendored code (Eigen, Boost, OpenSSL, jsoncpp), which is all but some 20 000 of the
  repository's two million lines: the share of it that is mapped stays tiny whatever
  is modelled of the bridge.

## 7. Plan

Done: the modules of section 2.  First those that carry what the node is for
(`DevicesManager`, `Odometry`, `ShmTopic`, `ShmLock`, `LaserScan`), then the classes
of the SDK that such programs rest on.

What is left would refine what is there:

1. `ShmTopic::destroy` beside the use of the topic, in `ShmTopic`.
2. Reads and publishes of `ShmTopic` split at the lock of `ShmLock`, for processes
   that lose it.
3. Time stamps of fixed width in `Odometry` and `LaserScan`.
4. A server that is started again, and two of its connections.

Theorems then worth proving: what is still promised to the readers of a topic with time
limits, as a weaker `TopicFeed` in which a reader may have lost its subscription without
noticing; and that calls which are atomic under a `sound` lock of `ShmLock` are what
`ShmTopic` takes them to be, once 2. has split them.

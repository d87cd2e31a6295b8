----------------------------- MODULE TcpServer ------------------------------
(***************************************************************************)
(* A server of the SDK and one of its connections (TcpServer and its       *)
(* TcpConnection): the main thread starts and stops the server; the I/O    *)
(* thread accepts the connection and runs the handlers of its reads and    *)
(* writes; any thread sends over it and closes it.                         *)
(*                                                                         *)
(* sendLock_ and lock_ guard sections that wait for nothing, and each of   *)
(* them is one step.  What handlers read or write outside them is a step   *)
(* of its own.  The callbacks of the user's handler may call send() and    *)
(* close(); the steps of Senders stand for those calls too.                *)
(*                                                                         *)
(* startWorker_ tests ioThread_ before it is assigned, so an early accept  *)
(* can make a second thread: both run handlers here.  A handler makes and  *)
(* assigns it in one step, so that there is no third.                      *)
(***************************************************************************)
EXTENDS Naturals, Sequences

CONSTANTS
  Senders,       \* threads that call send() and close()
  Bytes,
  Messages,      \* what one call of send() hands over
  MaxSent        \* bound: nobody begins to send when so much was sent

Threads == {"first", "second"}

VARIABLES
  txBuffer,      \* txBuffer_
  transferring,  \* transferingBuffer_
  transferred,   \* transferredInBuffer_
  sending,       \* sending_
  writing,       \* async_write_some is under way
  reading,       \* async_read_some is under way
  socket,        \* "none", "open", "shut" (shutdown, still open) or "closed"
  peer,          \* the other side is there
  listed,        \* the connection is in TcpServer::connections_
  told,          \* onConnectionClosed was called
  accepting,     \* async_accept is under way
  thread,        \* ioThread_
  stopped,       \* io_.stop() was called
  pc,            \* progress of the senders, the I/O threads and "main"
  message,       \* what each sender is handing over
  sent,          \* bytes accepted by send(), in order
  written        \* bytes given to the socket, in order

buffers == <<txBuffer, transferring, transferred, sending, writing, message,
             sent, written>>
connection == <<reading, socket, listed, told>>
server == <<accepting, thread, stopped>>
vars == <<buffers, connection, server, peer, pc>>

Actors == Senders \cup Threads \cup {"main"}

ASSUME SendersAssumption == Senders \cap (Threads \cup {"main"}) = {}
ASSUME MessagesAssumption == Messages \subseteq Seq(Bytes) \ {<<>>}
ASSUME MaxSentAssumption == MaxSent \in Nat

Init ==
  /\ txBuffer = <<>> /\ transferring = <<>> /\ transferred = 0
  /\ sending = FALSE /\ writing = FALSE /\ reading = FALSE
  /\ socket = "none" /\ peer = TRUE
  /\ listed = FALSE /\ told = FALSE
  /\ accepting = FALSE /\ thread = "none" /\ stopped = FALSE
  /\ pc = [a \in Actors |-> IF a \in Senders THEN "idle" ELSE "none"]
  /\ message = [s \in Senders |-> <<>>]
  /\ sent = <<>> /\ written = <<>>

Goto(a, from, to) == pc[a] = from /\ pc' = [pc EXCEPT ![a] = to]

\* Where an actor goes on when its call or handler returns.
Home(a) == IF a \in Senders THEN "idle" ELSE "run"

-----------------------------------------------------------------------------
(* Sending.                                                                *)

\* The bytes m are at the end of txBuffer_.
Accepted(m) ==
  /\ txBuffer' = txBuffer \o m
  /\ sent' = sent \o m

\* Bound: nobody begins to send when MaxSent bytes were sent.
MaySend == socket # "none" /\ Len(sent) < MaxSent

\* send() of a buffer.
SendBuffer(s) ==
  /\ MaySend
  /\ Goto(s, "idle", "start")
  /\ \E m \in Messages : Accepted(m)
  /\ UNCHANGED <<transferring, transferred, sending, writing, message, written,
                 connection, server, peer>>

\* send() of a vector assigns an empty txBuffer_; else it releases the lock and
\* calls the other overload.
SendVector(s) ==
  /\ MaySend
  /\ \E m \in Messages :
       IF txBuffer = <<>>
         THEN Goto(s, "idle", "start") /\ Accepted(m) /\ UNCHANGED message
         ELSE /\ Goto(s, "idle", "append")
              /\ message' = [message EXCEPT ![s] = m]
              /\ UNCHANGED <<txBuffer, sent>>
  /\ UNCHANGED <<transferring, transferred, sending, writing, written,
                 connection, server, peer>>

AppendVector(s) ==
  /\ Goto(s, "append", "start")
  /\ Accepted(message[s])
  /\ message' = [message EXCEPT ![s] = <<>>]
  /\ UNCHANGED <<transferring, transferred, sending, writing, written,
                 connection, server, peer>>

\* Slip: startTransmit_ without the test of sending_.
StartTransmitAnyway(a) ==
  /\ Goto(a, "start", Home(a))
  /\ IF txBuffer = <<>>
       THEN UNCHANGED <<txBuffer, transferring, transferred, sending, writing>>
       ELSE /\ sending' = TRUE
            /\ transferred' = 0
            /\ transferring' = txBuffer
            /\ txBuffer' = <<>>
            /\ writing' = TRUE
  /\ UNCHANGED <<message, sent, written, connection, server, peer>>

\* startTransmit_ hands the whole of txBuffer_ over to one write at a time.
StartTransmit(a) ==
  /\ Goto(a, "start", Home(a))
  /\ IF sending \/ txBuffer = <<>>
       THEN UNCHANGED <<txBuffer, transferring, transferred, sending, writing>>
       ELSE /\ sending' = TRUE
            /\ transferred' = 0
            /\ transferring' = txBuffer
            /\ txBuffer' = <<>>
            /\ writing' = TRUE
  /\ UNCHANGED <<message, sent, written, connection, server, peer>>

\* A thread in io_.run() takes the handler of a finished operation.
Takes(t, to) == ~stopped /\ Goto(t, "run", to)

\* The socket takes n more bytes and onTransmitComplete_ counts them; as long
\* as some are left it starts the next write at once.
WriteCompletes(t) ==
  /\ writing /\ socket = "open" /\ peer
  /\ \E n \in 1..(Len(transferring) - transferred) :
       LET done == transferred + n = Len(transferring) IN
       /\ Takes(t, IF done THEN "reset" ELSE "run")
       /\ writing' = ~done
       /\ transferred' = transferred + n
       /\ written' =
            written \o SubSeq(transferring, transferred + 1, transferred + n)
  /\ UNCHANGED <<txBuffer, transferring, sending, message, sent, connection,
                 server, peer>>

WriteFails(t) ==
  /\ writing /\ (socket # "open" \/ ~peer)
  /\ Takes(t, "close")
  /\ writing' = FALSE
  /\ UNCHANGED <<txBuffer, transferring, transferred, sending, message, sent,
                 written, connection, server, peer>>

\* Slip: the handler of a completed write leaves it to the next send() to go on.
ResetSendingOnly(t) ==
  /\ Goto(t, "reset", "run")
  /\ sending' = FALSE
  /\ UNCHANGED <<txBuffer, transferring, transferred, writing, message, sent,
                 written, connection, server, peer>>

\* The handler then goes to startTransmit_ whatever its unlocked read of
\* txBuffer_.size() gives; where that is 0 it calls onSendComplete before.
ResetSending(t) ==
  /\ Goto(t, "reset", "start")
  /\ sending' = FALSE
  /\ UNCHANGED <<txBuffer, transferring, transferred, writing, message, sent,
                 written, connection, server, peer>>

-----------------------------------------------------------------------------
(* Receiving.                                                              *)

\* startServerWorker_ and startAccept_ end in startWorker_: it makes a thread
\* as long as ioThread_ is not assigned.
StartWorker(t, from) ==
  IF thread = "none"
    THEN /\ pc[t] = from
         /\ pc' = [pc EXCEPT ![t] = "run", !["second"] = "run"]
         /\ thread' = "second"
    ELSE Goto(t, from, "run") /\ UNCHANGED thread

\* handleConnection_ of an accepted connection: it is listed, started, and
\* the next one is awaited.
Accept(t) ==
  /\ accepting
  /\ Takes(t, "accepted")
  /\ accepting' = FALSE
  /\ socket' = "open"
  /\ listed' = TRUE
  /\ UNCHANGED <<buffers, reading, told, thread, stopped, peer>>

\* An accept that failed is only logged before the next one.
AcceptFails(t) ==
  /\ accepting /\ ~stopped
  /\ StartWorker(t, "run")
  /\ UNCHANGED <<buffers, connection, accepting, stopped, peer>>

StartReceive(t) ==
  /\ StartWorker(t, "accepted")
  /\ reading' = TRUE
  /\ UNCHANGED <<buffers, socket, listed, told, accepting, stopped, peer>>

ReadCompletes(t) ==
  /\ reading /\ socket = "open"
  /\ Takes(t, "deliver")
  /\ reading' = FALSE
  /\ UNCHANGED <<buffers, socket, listed, told, server, peer>>

\* The handler has been given the bytes, and receive_ reads on.
Receive(t) ==
  /\ StartWorker(t, "deliver")
  /\ reading' = TRUE
  /\ UNCHANGED <<buffers, socket, listed, told, accepting, stopped, peer>>

ReadFails(t) ==
  /\ reading /\ (socket # "open" \/ ~peer)
  /\ Takes(t, "close")
  /\ reading' = FALSE
  /\ UNCHANGED <<buffers, socket, listed, told, server, peer>>

PeerGoes ==
  /\ peer
  /\ peer' = FALSE
  /\ UNCHANGED <<buffers, connection, server, pc>>

-----------------------------------------------------------------------------
(* Closing.                                                                *)

\* Bound: nobody calls close() once its end was reported.
MayClose == socket # "none" /\ ~told

Close(s) ==
  /\ MayClose
  /\ Goto(s, "idle", "close")
  /\ UNCHANGED <<buffers, connection, server, peer>>

\* close_ shuts an open socket down and closes it where that fails.  A socket
\* that was shut down is still open, so another call goes through it again.
Shutdown(a) ==
  /\ Goto(a, "close", IF socket = "closed" THEN Home(a) ELSE "remove")
  /\ socket' \in IF socket = "open" /\ peer THEN {"shut"}
                 ELSE IF socket = "closed" THEN {"closed"}
                 ELSE {"shut", "closed"}
  /\ UNCHANGED <<buffers, reading, listed, told, server, peer>>

\* Slip: handleConnectionClose_ is not called.
RemoveForgotten(a) ==
  /\ Goto(a, "remove", Home(a))
  /\ told' = TRUE
  /\ UNCHANGED <<buffers, reading, socket, listed, server, peer>>

\* The server takes the connection off its list, and the handler is told.
Remove(a) ==
  /\ Goto(a, "remove", Home(a))
  /\ listed' = FALSE
  /\ told' = TRUE
  /\ UNCHANGED <<buffers, reading, socket, server, peer>>

-----------------------------------------------------------------------------
(* The server.                                                             *)

Start ==
  /\ Goto("main", "none", "create")
  /\ accepting' = TRUE
  /\ UNCHANGED <<buffers, connection, thread, stopped, peer>>

CreateThread ==
  /\ pc["main"] = "create"
  /\ pc' = [pc EXCEPT !["main"] = "assign", !["first"] = "run"]
  /\ UNCHANGED <<buffers, connection, server, peer>>

AssignThread ==
  /\ Goto("main", "assign", "started")
  /\ thread' = "first"
  /\ UNCHANGED <<buffers, connection, accepting, stopped, peer>>

Stop ==
  /\ Goto("main", "started", "closeAcceptor")
  /\ stopped' = TRUE
  /\ UNCHANGED <<buffers, connection, accepting, thread, peer>>

CloseAcceptor ==
  /\ Goto("main", "closeAcceptor", "join")
  /\ accepting' = FALSE
  /\ UNCHANGED <<buffers, connection, thread, stopped, peer>>

Join ==
  /\ Goto("main", "join", "stopped")
  /\ pc[thread] = "done"
  /\ UNCHANGED <<buffers, connection, server, peer>>

\* io_.run() returns once it is stopped and no handler is running.
WorkerEnds(t) ==
  /\ stopped
  /\ Goto(t, "run", "done")
  /\ UNCHANGED <<buffers, connection, server, peer>>

-----------------------------------------------------------------------------
\* What an actor does next in a call or a handler it is in.
Continue(a) ==
  \/ StartTransmit(a) \/ Shutdown(a) \/ Remove(a)

SenderStep(s) == AppendVector(s) \/ Continue(s)

HandlerStep(t) ==
  \/ ResetSending(t) \/ StartReceive(t) \/ Receive(t)
  \/ Continue(t) \/ WorkerEnds(t)

WriteEnds == \E t \in Threads : WriteCompletes(t) \/ WriteFails(t)
ReadEnds == \E t \in Threads : ReadFails(t)

MainStep == CreateThread \/ AssignThread \/ CloseAcceptor \/ Join

Next ==
  \/ Start \/ Stop \/ MainStep \/ PeerGoes
  \/ \E s \in Senders : SendBuffer(s) \/ SendVector(s) \/ Close(s) \/ SenderStep(s)
  \/ \E t \in Threads : Accept(t) \/ AcceptFails(t) \/ ReadCompletes(t) \/ HandlerStep(t)
  \/ WriteEnds \/ ReadEnds

Spec == Init /\ [][Next]_vars

\* Threads go on with what they are in.  Operations end when they can, which
\* io_service guarantees as it serves finished operations in turn: strong
\* fairness, since a thread that runs a handler takes no other.
Fairness ==
  /\ \A s \in Senders : WF_vars(SenderStep(s))
  /\ \A t \in Threads : WF_vars(HandlerStep(t))
  /\ WF_vars(MainStep)
  /\ SF_vars(WriteEnds)
  /\ SF_vars(ReadEnds)

FairSpec == Spec /\ Fairness

-----------------------------------------------------------------------------
(* Properties.                                                             *)

Sockets == {"none", "open", "shut", "closed"}

SenderPcs == {"idle", "append", "start", "close", "remove"}
ThreadPcs == {"none", "run", "done", "accepted", "deliver", "reset", "start",
              "close", "remove"}
MainPcs == {"none", "create", "assign", "started", "closeAcceptor", "join",
            "stopped"}

TypeOK ==
  /\ txBuffer \in Seq(Bytes) /\ transferring \in Seq(Bytes)
  /\ sent \in Seq(Bytes) /\ written \in Seq(Bytes)
  /\ transferred \in 0..Len(transferring)
  /\ sending \in BOOLEAN /\ writing \in BOOLEAN /\ reading \in BOOLEAN
  /\ socket \in Sockets /\ peer \in BOOLEAN
  /\ listed \in BOOLEAN /\ told \in BOOLEAN
  /\ accepting \in BOOLEAN /\ stopped \in BOOLEAN
  /\ thread \in Threads \cup {"none"}
  /\ pc \in [Actors -> SenderPcs \cup ThreadPcs \cup MainPcs]
  /\ \A s \in Senders : pc[s] \in SenderPcs
  /\ \A t \in Threads : pc[t] \in ThreadPcs
  /\ pc["main"] \in MainPcs
  /\ message \in [Senders -> Messages \cup {<<>>}]

At(place) == {a \in Actors : pc[a] = place}

\* What the write under way has yet to give to the socket.
InFlight ==
  IF sending THEN SubSeq(transferring, transferred + 1, Len(transferring))
             ELSE <<>>

\* Every accepted byte is written, in flight or kept, in this order.
Pipeline == sent = (written \o InFlight) \o txBuffer

\* The buffer of a write is left alone until its handler has reset sending_,
\* and one handler at a time does.
OneWrite ==
  /\ writing => sending /\ At("reset") = {} /\ transferred < Len(transferring)
  /\ At("reset") # {} => sending /\ transferred = Len(transferring)
  /\ \A a, b \in At("reset") : a = b

\* Whenever bytes are kept and no transmission runs, somebody will start one.
NothingForgotten ==
  ~sending /\ txBuffer # <<>> => At("start") # {}

\* Handlers that hold rxBlock_, or are about to read into it for the first time.
Receivers == At("accepted") \cup At("deliver")

\* rxBlock_ is not read into while a handler is given its contents.
OneRead ==
  /\ reading => Receivers = {}
  /\ \A a, b \in Receivers : a = b

\* Before the connection is accepted nobody has anything to do with it.
NothingBefore ==
  /\ accepting \/ pc["main"] = "none" => socket = "none"
  /\ socket = "none" =>
       /\ ~reading /\ ~writing
       /\ \A s \in Senders : pc[s] = "idle"
       /\ \A t \in Threads : pc[t] \in {"none", "run", "done"}

\* The second thread is made only while ioThread_ is not assigned, and no
\* third one.
ThreadsMadeOnce ==
  /\ pc["main"] \in {"none", "create"} => pc["first"] = "none" /\ thread = "none"
  /\ thread = "none" => pc["second"] = "none"

\* A connection that was shut down is off the list of the server and its
\* handler is told, or somebody is about to do it.
ClosedIsUnlisted ==
  socket \in {"shut", "closed"} => (~listed /\ told) \/ At("remove") # {}

\* The invariant the properties rest on.
IInv ==
  /\ TypeOK
  /\ Pipeline /\ OneWrite /\ NothingForgotten
  /\ OneRead /\ ClosedIsUnlisted /\ NothingBefore /\ ThreadsMadeOnce

\* send() keeps what ByteStream promises: partial writes, the exchange of the
\* buffers and the threads that append meanwhile neither lose, repeat nor
\* reorder a byte.
Stream == INSTANCE ByteStream
ImplementsStream == Stream!Spec

Over == ~peer \/ socket \in {"shut", "closed"} \/ stopped

\* What was accepted by send() is written, whoever appended while a
\* transmission ended, unless the connection or the server ends first.
EverythingIsSent == sent # written ~> (sent = written \/ Over)

\* A connection that was closed gets off the list, its handler is told, and no
\* operation keeps it alive: the last reference to it goes.
ClosedIsReleased ==
  socket \in {"shut", "closed"} ~>
    ((~listed /\ told /\ ~reading /\ ~writing) \/ stopped)
=============================================================================

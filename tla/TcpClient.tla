----------------------------- MODULE TcpClient ------------------------------
(***************************************************************************)
(* A client connection of the SDK (TcpClient): the main thread connects    *)
(* and starts the I/O thread, in either order; any thread sends and stops; *)
(* the I/O thread runs the handlers until no operation is under way.       *)
(*                                                                         *)
(* lock_ and sendLock_ guard sections that wait for nothing, and each of   *)
(* them is one step.  The steps of Senders stand for calls from the user's *)
(* callbacks too.                                                          *)
(***************************************************************************)
EXTENDS Naturals, Sequences

CONSTANTS
  Senders,       \* threads that call send() and stop()
  Bytes,
  Messages,      \* what one call of send() hands over
  MaxSent,       \* bound: nobody begins to send when so much was sent
  MaxEndpoints   \* bound: addresses a host name has

ASSUME SendersAssumption == Senders \cap {"io", "main"} = {}
ASSUME MessagesAssumption == Messages \subseteq Seq(Bytes) \ {<<>>}
ASSUME BoundsAssumption == MaxSent \in Nat /\ MaxEndpoints \in Nat \ {0}

VARIABLES
  status,        \* status_
  endpoints,     \* endpoints resolveResult_ has left
  resolving, connecting, reading, writing,
                 \* operations: "none", "pending" or "aborted" by a close
  socket,        \* "closed" (not open), "open" or "connected"
  peer,          \* the other side is there
  txBuffer,      \* txBuffer_
  transferring,  \* transferingBuffer_
  transferred,   \* transferredInBuffer_
  sending,       \* sending_
  pc,            \* progress of the senders, "io" (ioThread_) and "main"
  sent,          \* bytes accepted by send(), in order
  written        \* bytes given to the socket, in order

buffers == <<txBuffer, transferring, transferred, sending, sent, written>>
link == <<status, endpoints, resolving, connecting>>
vars == <<buffers, link, reading, writing, socket, peer, pc>>

Actors == Senders \cup {"io", "main"}

Init ==
  /\ status = "Idle" /\ endpoints = 0
  /\ resolving = "none" /\ connecting = "none"
  /\ reading = "none" /\ writing = "none"
  /\ socket = "closed" /\ peer = TRUE
  /\ txBuffer = <<>> /\ transferring = <<>> /\ transferred = 0
  /\ sending = FALSE
  /\ pc = [a \in Actors |-> IF a = "io" THEN "none" ELSE "idle"]
  /\ sent = <<>> /\ written = <<>>

Goto(a, from, to) == pc[a] = from /\ pc' = [pc EXCEPT ![a] = to]

Home(a) == IF a = "io" THEN "run" ELSE "idle"

\* An operation that is started on the socket as it is.
Begun == IF socket = "closed" THEN "aborted" ELSE "pending"

\* What close() of the socket leaves of an operation.
Cut(operation) == IF operation = "pending" THEN "aborted" ELSE operation

-----------------------------------------------------------------------------
(* Connecting.                                                             *)

\* connect() does something only once.
Connect ==
  /\ status = "Idle"
  /\ Goto("main", "idle", "resolve")
  /\ status' = "ResolvingHost"
  /\ UNCHANGED <<buffers, endpoints, resolving, connecting, reading, writing,
                 socket, peer>>

Resolve ==
  /\ Goto("main", "resolve", "idle")
  /\ resolving' = "pending"
  /\ UNCHANGED <<buffers, status, endpoints, connecting, reading, writing,
                 socket, peer>>

\* start() makes the thread; one that has ended is still joinable.
Start ==
  /\ pc["main"] = "idle"
  /\ Goto("io", "none", "run")
  /\ UNCHANGED <<buffers, link, reading, writing, socket, peer>>

ResolveFails ==
  /\ resolving = "pending"
  /\ pc["io"] = "run"
  /\ resolving' = "none"
  /\ status' = "Error"
  /\ UNCHANGED <<buffers, endpoints, connecting, reading, writing, socket, peer, pc>>

\* onAddressResolved_ connects to the first endpoint, which opens the socket.
Resolved ==
  /\ resolving = "pending"
  /\ pc["io"] = "run"
  /\ resolving' = "none"
  /\ status' = "Connecting"
  /\ endpoints' \in 1..MaxEndpoints
  /\ connecting' = "pending"
  /\ socket' = "open"
  /\ UNCHANGED <<buffers, reading, writing, peer, pc>>

\* Slip: onConnect_ without resolveResult_++.
ConnectFailsAgain ==
  /\ connecting # "none"
  /\ pc["io"] = "run"
  /\ connecting' = "pending"
  /\ socket' = "open"
  /\ writing' = Cut(writing)
  /\ UNCHANGED <<buffers, status, endpoints, resolving, reading, peer, pc>>

\* onConnect_ with an error goes to the next endpoint, also when it was stop()
\* that ended the attempt; the last one leaves the socket as it is.
ConnectFails ==
  /\ connecting # "none"
  /\ pc["io"] = "run"
  /\ endpoints' = endpoints - 1
  /\ IF endpoints = 1
       THEN /\ connecting' = "none"
            /\ status' = "Error"
            /\ UNCHANGED <<socket, writing>>
       ELSE /\ connecting' = "pending"
            /\ socket' = "open"
            /\ writing' = Cut(writing)
            /\ UNCHANGED status
  /\ UNCHANGED <<buffers, resolving, reading, peer, pc>>

\* onConnected is called before the status is set.
ConnectSucceeds ==
  /\ connecting = "pending"
  /\ Goto("io", "run", "connected")
  /\ connecting' = "none"
  /\ socket' = "connected"
  /\ UNCHANGED <<buffers, status, endpoints, resolving, reading, writing, peer>>

Connected ==
  /\ Goto("io", "connected", "run")
  /\ status' = "Connected"
  /\ reading' = Begun
  /\ UNCHANGED <<buffers, endpoints, resolving, connecting, writing, socket, peer>>

\* stop() does nothing while the socket is not open, as before the host is
\* resolved.
CloseSocket ==
  /\ socket' = "closed"
  /\ connecting' = Cut(connecting)
  /\ reading' = Cut(reading)
  /\ writing' = Cut(writing)

Stop(s) ==
  /\ pc[s] = "idle"
  /\ socket # "closed"
  /\ CloseSocket
  /\ UNCHANGED <<buffers, status, endpoints, resolving, peer, pc>>

-----------------------------------------------------------------------------
(* Sending.                                                                *)

\* Bound: nobody begins to send when MaxSent bytes were sent.
Send(s) ==
  /\ Len(sent) < MaxSent
  /\ Goto(s, "idle", "start")
  /\ \E m \in Messages : txBuffer' = txBuffer \o m /\ sent' = sent \o m
  /\ UNCHANGED <<transferring, transferred, sending, written, link, reading,
                 writing, socket, peer>>

\* Slip: startTransmit_ without sending_ = true.
StartTransmitUnmarked(a) ==
  /\ IF sending \/ txBuffer = <<>>
       THEN Goto(a, "start", Home(a))
       ELSE Goto(a, "start", "transmit")
  /\ UNCHANGED <<buffers, link, reading, writing, socket, peer>>

StartTransmit(a) ==
  /\ IF sending \/ txBuffer = <<>>
       THEN Goto(a, "start", Home(a)) /\ UNCHANGED sending
       ELSE Goto(a, "start", "transmit") /\ sending' = TRUE
  /\ UNCHANGED <<txBuffer, transferring, transferred, sent, written, link,
                 reading, writing, socket, peer>>

\* Slip: transmit_ without txBuffer_.clear().
TransmitKeeps(a) ==
  /\ Goto(a, "transmit", Home(a))
  /\ transferred' = 0
  /\ transferring' = txBuffer
  /\ writing' = Begun
  /\ UNCHANGED <<txBuffer, sending, sent, written, link, reading, socket, peer>>

\* transmit_ takes the lock again; others may have appended meanwhile.
Transmit(a) ==
  /\ Goto(a, "transmit", Home(a))
  /\ transferred' = 0
  /\ transferring' = txBuffer
  /\ txBuffer' = <<>>
  /\ writing' = Begun
  /\ UNCHANGED <<sending, sent, written, link, reading, socket, peer>>

\* The socket takes n more bytes; as long as some are left the next write is
\* started at once.
WriteCompletes ==
  /\ writing = "pending" /\ socket = "connected" /\ peer
  /\ \E n \in 1..(Len(transferring) - transferred) :
       LET done == transferred + n = Len(transferring) IN
       /\ Goto("io", "run", IF done THEN "reset" ELSE "run")
       /\ writing' = IF done THEN "none" ELSE "pending"
       /\ transferred' = transferred + n
       /\ written' =
            written \o SubSeq(transferring, transferred + 1, transferred + n)
  /\ UNCHANGED <<txBuffer, transferring, sending, sent, link, reading, socket, peer>>

\* onSendError is called and the socket closed; sending_ stays set.
WriteFails ==
  /\ \/ writing = "aborted"
     \/ writing = "pending" /\ (~peer \/ status = "Error")
  /\ Goto("io", "run", "close")
  /\ writing' = "none"
  /\ UNCHANGED <<buffers, link, reading, socket, peer>>

\* Slip: the handler of a completed write leaves it to the next send() to go on.
ResetSendingOnly ==
  /\ Goto("io", "reset", "run")
  /\ sending' = FALSE
  /\ UNCHANGED <<txBuffer, transferring, transferred, sent, written, link,
                 reading, writing, socket, peer>>

\* The handler then goes to startTransmit_ whatever its unlocked read of
\* txBuffer_.size() gives; where that is 0 it calls onSendComplete before.
ResetSending ==
  /\ Goto("io", "reset", "start")
  /\ sending' = FALSE
  /\ UNCHANGED <<txBuffer, transferring, transferred, sent, written, link,
                 reading, writing, socket, peer>>

-----------------------------------------------------------------------------
(* Receiving, and the end.                                                 *)

ReadCompletes ==
  /\ reading = "pending" /\ socket = "connected"
  /\ Goto("io", "run", "deliver")
  /\ reading' = "none"
  /\ UNCHANGED <<buffers, link, writing, socket, peer>>

Receive ==
  /\ Goto("io", "deliver", "run")
  /\ reading' = Begun
  /\ UNCHANGED <<buffers, link, writing, socket, peer>>

\* Slip: onReceiveComplete_ reads on after an error.
ReadFailsReads ==
  /\ reading = "aborted" \/ (reading = "pending" /\ ~peer)
  /\ Goto("io", "run", "deliver")
  /\ reading' = "none"
  /\ UNCHANGED <<buffers, link, writing, socket, peer>>

ReadFails ==
  /\ reading = "aborted" \/ (reading = "pending" /\ ~peer)
  /\ Goto("io", "run", "close")
  /\ reading' = "none"
  /\ UNCHANGED <<buffers, link, writing, socket, peer>>

\* close() of a handler that was given an error.
Close ==
  /\ Goto("io", "close", "run")
  /\ IF socket = "closed" THEN UNCHANGED <<socket, connecting, reading, writing>>
                          ELSE CloseSocket
  /\ UNCHANGED <<buffers, status, endpoints, resolving, peer>>

PeerGoes ==
  /\ socket = "connected" /\ peer
  /\ peer' = FALSE
  /\ UNCHANGED <<buffers, link, reading, writing, socket, pc>>

Idle == {resolving, connecting, reading, writing} = {"none"}

\* io_.run() returns once no operation is under way, and worker_ with it.
WorkerEnds ==
  /\ Idle
  /\ Goto("io", "run", "done")
  /\ UNCHANGED <<buffers, link, reading, writing, socket, peer>>

-----------------------------------------------------------------------------
SenderStep(s) == StartTransmit(s) \/ Transmit(s)

HandlerStep ==
  \/ Connected \/ StartTransmit("io") \/ Transmit("io") \/ ResetSending
  \/ Receive \/ Close \/ WorkerEnds

ResolveEnds == Resolved \/ ResolveFails
ConnectEnds == ConnectSucceeds \/ ConnectFails
WriteEnds == WriteCompletes \/ WriteFails

Next ==
  \/ Connect \/ Resolve \/ Start \/ PeerGoes
  \/ \E s \in Senders : Send(s) \/ Stop(s) \/ SenderStep(s)
  \/ HandlerStep \/ ResolveEnds \/ ConnectEnds \/ WriteEnds
  \/ ReadCompletes \/ ReadFails

Spec == Init /\ [][Next]_vars

\* Threads go on with what they are in.  Attempts to resolve and to connect end
\* one way or the other; operations end when they can, which io_service
\* guarantees as it serves finished operations in turn.
Fairness ==
  /\ \A s \in Senders : WF_vars(SenderStep(s))
  /\ WF_vars(HandlerStep)
  /\ WF_vars(Resolve)
  /\ SF_vars(ResolveEnds) /\ SF_vars(ConnectEnds)
  /\ SF_vars(WriteEnds) /\ SF_vars(ReadFails)

FairSpec == Spec /\ Fairness

-----------------------------------------------------------------------------
(* Properties.                                                             *)

Operations == {"none", "pending", "aborted"}

TypeOK ==
  /\ status \in {"Idle", "ResolvingHost", "Connecting", "Connected", "Error"}
  /\ endpoints \in 0..MaxEndpoints
  /\ resolving \in Operations /\ connecting \in Operations
  /\ reading \in Operations /\ writing \in Operations
  /\ socket \in {"closed", "open", "connected"} /\ peer \in BOOLEAN
  /\ txBuffer \in Seq(Bytes) /\ transferring \in Seq(Bytes)
  /\ sent \in Seq(Bytes) /\ written \in Seq(Bytes)
  /\ transferred \in 0..Len(transferring)
  /\ sending \in BOOLEAN
  /\ pc \in [Actors -> {"none", "idle", "run", "start", "transmit", "reset",
                        "connected", "deliver", "close", "resolve", "done"}]
  /\ \A s \in Senders : pc[s] \in {"idle", "start", "transmit"}
  /\ pc["main"] \in {"idle", "resolve"}
  /\ pc["io"] \notin {"idle", "resolve"}

At(place) == {a \in Actors : pc[a] = place}

\* A transmission was begun and has not failed.
Transmitting == At("transmit") \cup At("reset") # {} \/ writing # "none"

\* A write has failed: nothing more is sent, also over a connection that is
\* made later.
Broken == sending /\ ~Transmitting

\* What the write under way, or the failed one, has yet to give to the socket.
InFlight ==
  IF sending /\ At("transmit") = {}
    THEN SubSeq(transferring, transferred + 1, Len(transferring)) ELSE <<>>

\* Every accepted byte is written, in flight or kept, in this order.
Pipeline == sent = (written \o InFlight) \o txBuffer

\* From the test of sending_ to its reset there is one transmission, in one
\* place, and its buffer is left alone.
OneTransmission ==
  /\ Transmitting => sending
  /\ At("transmit") # {} =>
       txBuffer # <<>> /\ writing = "none" /\ At("reset") = {}
  /\ At("reset") # {} => writing = "none" /\ transferred = Len(transferring)
  /\ writing # "none" => transferred < Len(transferring)
  /\ \A a, b \in At("transmit") : a = b

\* Whenever bytes are kept and no transmission runs, somebody will start one.
NothingForgotten == ~sending /\ txBuffer # <<>> => At("start") # {}

\* The status tells which of the operations of a connection is under way, and
\* there is never a second one.
StatusAgrees ==
  /\ resolving # "none" \/ pc["main"] = "resolve" => status = "ResolvingHost"
  /\ resolving # "none" => pc["main"] # "resolve"
  /\ connecting # "none" \/ pc["io"] = "connected" => status = "Connecting"
  /\ connecting # "none" => pc["io"] # "connected" /\ endpoints > 0
  /\ reading # "none" \/ pc["io"] = "deliver" => status = "Connected"
  /\ reading # "none" => pc["io"] # "deliver"
  /\ resolving # "aborted"

\* The invariant the properties rest on.
IInv ==
  TypeOK /\ Pipeline /\ OneTransmission /\ NothingForgotten /\ StatusAgrees

\* send() keeps what ByteStream promises, also for bytes that are handed over
\* before there is a connection.
Stream == INSTANCE ByteStream
ImplementsStream == Stream!Spec

\* Once the I/O thread has found an attempt to connect, it ends in a connection
\* or an error, whoever stops the client meanwhile.  A thread that was started
\* first may find nothing to do and end, and then nothing settles.
ConnectSettles ==
  status = "ResolvingHost" /\ resolving = "pending" /\ pc["io"] \notin {"none", "done"}
    ~> status \in {"Connected", "Error"}

\* What was accepted by send() is written once there is a connection, unless it
\* ends or a write had failed before.
EverythingIsSent ==
  status = "Connected" /\ sent # written
    ~> (sent = written \/ ~peer \/ socket = "closed" \/ Broken)

\* After the end of a connection, from either side, the I/O thread ends, so
\* that it can be joined.
ThreadEnds ==
  status = "Connected" /\ (socket = "closed" \/ ~peer) ~> pc["io"] = "done"
=============================================================================

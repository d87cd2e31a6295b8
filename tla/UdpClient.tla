------------------------------ MODULE UdpClient ------------------------------
(***************************************************************************)
(* A datagram client of the SDK (UdpClient): the owner connects, starts    *)
(* the I/O thread and stops; any thread sends; the I/O thread runs the     *)
(* handlers until no operation is under way.                               *)
(*                                                                         *)
(* lock_ and sendLock_ guard sections that wait for nothing, each of them  *)
(* one step.  The socket is external: it takes a datagram whole, or fails. *)
(* An ended I/O thread is the last: a new one finds io_ stopped and ends.  *)
(***************************************************************************)
EXTENDS Naturals, Sequences

CONSTANTS
  UdpSenders,    \* threads that call send()
  Payloads,      \* what one call of send() hands over
  MaxAccepted    \* bound: nobody begins to send when so much was sent

\* The bytes there are.
UdpBytes == UNION {{m[i] : i \in DOMAIN m} : m \in Payloads}

\* An empty buffer is not sent: send() returns at once.
ASSUME UdpAssumption ==
  /\ "io" \notin UdpSenders /\ MaxAccepted \in Nat
  /\ Payloads \subseteq Seq(UdpBytes) \ {<<>>}

VARIABLES
  udpSocket,     \* "closed" (not open), "open" or "connected"
  receiveOp, sendOp,
                 \* operations: "none", "pending" or "aborted" by a close
  receiving,     \* receiving_
  sending,       \* sending_
  txBuffer,      \* txBuffer_
  transferring,  \* transferingBuffer_
  udpAt,         \* progress of the senders and "io" (ioThread_)
  accepted,      \* bytes handed to send(), in order
  given          \* bytes the socket has taken, in order

udpBuffers == <<txBuffer, transferring, accepted, given>>
udpVars == <<udpSocket, receiveOp, sendOp, receiving, sending, udpBuffers, udpAt>>

UdpInit ==
  /\ udpSocket = "closed" /\ receiveOp = "none" /\ sendOp = "none"
  /\ receiving = FALSE /\ sending = FALSE
  /\ txBuffer = <<>> /\ transferring = <<>> /\ accepted = <<>> /\ given = <<>>
  /\ udpAt = [a \in UdpSenders \cup {"io"} |-> IF a = "io" THEN "none" ELSE "idle"]

UdpGoes(a, from, to) == udpAt[a] = from /\ udpAt' = [udpAt EXCEPT ![a] = to]
UdpHome(a) == IF a = "io" THEN "run" ELSE "idle"
UdpBegun(socket) == IF socket = "closed" THEN "aborted" ELSE "pending"

-----------------------------------------------------------------------------
(* The owner.                                                              *)

\* Receiving is begun once in the life of the client: receiving_ stays set.
UdpConnect ==
  /\ udpSocket = "closed" /\ udpSocket' = "connected"
  /\ receiving' = TRUE
  /\ receiveOp' = IF receiving THEN receiveOp ELSE "pending"
  /\ UNCHANGED <<sendOp, sending, udpBuffers, udpAt>>

\* The second call for the socket throws, and leaves it open.
UdpConnectThrows ==
  /\ udpSocket = "closed" /\ udpSocket' = "open"
  /\ UNCHANGED <<receiveOp, sendOp, receiving, sending, udpBuffers, udpAt>>

UdpStart ==
  /\ UdpGoes("io", "none", "run")
  /\ UNCHANGED <<udpSocket, receiveOp, sendOp, receiving, sending, udpBuffers>>

UdpStop ==
  /\ udpSocket # "closed" /\ udpSocket' = "closed"
  /\ receiveOp' = IF receiveOp = "pending" THEN "aborted" ELSE receiveOp
  /\ sendOp' = IF sendOp = "pending" THEN "aborted" ELSE sendOp
  /\ UNCHANGED <<receiving, sending, udpBuffers, udpAt>>

-----------------------------------------------------------------------------
(* Sending.                                                                *)

UdpSend(s) ==
  /\ Len(accepted) < MaxAccepted
  /\ UdpGoes(s, "idle", "start")
  /\ \E m \in Payloads : txBuffer' = txBuffer \o m /\ accepted' = accepted \o m
  /\ UNCHANGED <<udpSocket, receiveOp, sendOp, receiving, sending, transferring, given>>

UdpStartTransmit(a) ==
  /\ IF sending \/ txBuffer = <<>>
       THEN UdpGoes(a, "start", UdpHome(a)) /\ UNCHANGED sending
       ELSE UdpGoes(a, "start", "transmit") /\ sending' = TRUE
  /\ UNCHANGED <<udpSocket, receiveOp, sendOp, receiving, udpBuffers>>

\* Slip: transmit_ without txBuffer_.clear().
UdpTransmitKeeps(a) ==
  /\ UdpGoes(a, "transmit", UdpHome(a))
  /\ transferring' = txBuffer
  /\ sendOp' = UdpBegun(udpSocket)
  /\ UNCHANGED <<udpSocket, receiveOp, receiving, sending, txBuffer, accepted, given>>

\* What several calls have appended meanwhile goes out as one datagram.
UdpTransmit(a) ==
  /\ UdpGoes(a, "transmit", UdpHome(a))
  /\ transferring' = txBuffer /\ txBuffer' = <<>>
  /\ sendOp' = UdpBegun(udpSocket)
  /\ UNCHANGED <<udpSocket, receiveOp, receiving, sending, accepted, given>>

UdpSent ==
  /\ sendOp = "pending" /\ udpSocket = "connected"
  /\ UdpGoes("io", "run", "reset")
  /\ sendOp' = "none"
  /\ given' = given \o transferring
  /\ UNCHANGED <<udpSocket, receiveOp, receiving, sending, txBuffer, transferring, accepted>>

\* onSendError is called; sending_ stays set, also where the datagram was
\* refused, which the receiving side ignores.
UdpSendFails ==
  /\ sendOp # "none" /\ udpAt["io"] = "run"
  /\ sendOp' = "none"
  /\ UNCHANGED <<udpSocket, receiveOp, receiving, sending, udpBuffers, udpAt>>

\* Slip: the handler of a datagram that was sent does not look for more.
UdpResetOnly ==
  /\ UdpGoes("io", "reset", "run")
  /\ sending' = FALSE
  /\ UNCHANGED <<udpSocket, receiveOp, sendOp, receiving, udpBuffers>>

UdpReset ==
  /\ UdpGoes("io", "reset", "start")
  /\ sending' = FALSE
  /\ UNCHANGED <<udpSocket, receiveOp, sendOp, receiving, udpBuffers>>

-----------------------------------------------------------------------------
(* Receiving.                                                              *)

\* A datagram has come, or the news that one of ours was refused.
UdpReceived ==
  /\ receiveOp = "pending" /\ udpSocket = "connected"
  /\ UdpGoes("io", "run", "deliver")
  /\ receiveOp' = "none"
  /\ UNCHANGED <<udpSocket, sendOp, receiving, sending, udpBuffers>>

UdpReceiveNext ==
  /\ UdpGoes("io", "deliver", "run")
  /\ receiveOp' = UdpBegun(udpSocket)
  /\ UNCHANGED <<udpSocket, sendOp, receiving, sending, udpBuffers>>

\* Any other error ends the receiving.
UdpReceiveFails ==
  /\ receiveOp # "none" /\ udpAt["io"] = "run"
  /\ receiveOp' = "none"
  /\ UNCHANGED <<udpSocket, sendOp, receiving, sending, udpBuffers, udpAt>>

UdpWorkerEnds ==
  /\ receiveOp = "none" /\ sendOp = "none"
  /\ UdpGoes("io", "run", "done")
  /\ UNCHANGED <<udpSocket, receiveOp, sendOp, receiving, sending, udpBuffers>>

UdpSenderStep(a) == UdpStartTransmit(a) \/ UdpTransmit(a)
UdpHandlerStep == UdpSenderStep("io") \/ UdpReset \/ UdpReceiveNext \/ UdpWorkerEnds

UdpNext ==
  \/ UdpConnect \/ UdpConnectThrows \/ UdpStart \/ UdpStop
  \/ \E s \in UdpSenders : UdpSend(s) \/ UdpSenderStep(s)
  \/ UdpHandlerStep \/ UdpSent \/ UdpSendFails \/ UdpReceived \/ UdpReceiveFails

UdpSpec == UdpInit /\ [][UdpNext]_udpVars

\* Threads go on; an operation to send ends one way or the other, though
\* datagrams may come in all the time.
UdpFairness ==
  /\ \A s \in UdpSenders : WF_udpVars(UdpSenderStep(s))
  /\ WF_udpVars(UdpHandlerStep)
  /\ SF_udpVars(UdpSent \/ UdpSendFails)

-----------------------------------------------------------------------------
(***************************************************************************)
(* The socket takes the bytes that were handed over in their order, each   *)
(* once and none left out, as of a stream.                                 *)
(***************************************************************************)
Datagrams == INSTANCE ByteStream
  WITH Messages <- Payloads, sent <- accepted, written <- given
DatagramsInOrder == Datagrams!Spec

\* An attempt to send has failed: nothing is sent any more.
Silenced ==
  sending /\ sendOp = "none" /\ \A a \in DOMAIN udpAt : udpAt[a] \notin {"transmit", "reset"}

(***************************************************************************)
(* What is handed over while the I/O thread runs is sent, unless the       *)
(* client is stopped, its receiving and sending have ended, or an attempt  *)
(* to send has failed.                                                     *)
(***************************************************************************)
DatagramsAreSent ==
  udpAt["io"] = "run" /\ udpSocket = "connected" /\ accepted # given
    ~> accepted = given \/ udpSocket # "connected" \/ udpAt["io"] = "done" \/ Silenced
=============================================================================

-------------------------- MODULE TcpClientProofs --------------------------
(***************************************************************************)
(* A client sends what it was handed, in order and once, and forgets no    *)
(* byte, for any senders, messages and addresses: the inductive invariant  *)
(* of module TcpClient and the refinement of ByteStream.                   *)
(***************************************************************************)
EXTENDS TcpClient, SequenceTheorems, TLAPS

-----------------------------------------------------------------------------
(* How bytes move.                                                         *)

\* The buffer that is kept becomes the one in flight.
LEMMA SwapMoves ==
  ASSUME NEW w \in Seq(Bytes), NEW b \in Seq(Bytes)
  PROVE  (w \o <<>>) \o b = (w \o SubSeq(b, 0 + 1, Len(b))) \o <<>>
<1>1. SubSeq(b, 0 + 1, Len(b)) = b
  BY SubSeqFull
<1>2. w \o b \in Seq(Bytes)
  BY ConcatProperties
<1>3. w \o <<>> = w /\ (w \o b) \o <<>> = w \o b
  BY <1>2, ConcatEmptySeq
<1> QED
  BY <1>1, <1>3

\* What the socket takes goes from the buffer in flight to what was written.
LEMMA WriteMoves ==
  ASSUME NEW w \in Seq(Bytes), NEW t \in Seq(Bytes), NEW k \in 0..Len(t),
         NEW n \in 1..(Len(t) - k)
  PROVE  /\ SubSeq(t, k + 1, k + n) \in Seq(Bytes)
         /\ w \o SubSeq(t, k + 1, Len(t)) =
              (w \o SubSeq(t, k + 1, k + n)) \o SubSeq(t, (k + n) + 1, Len(t))
<1> DEFINE taken == SubSeq(t, k + 1, k + n)
           rest == SubSeq(t, (k + n) + 1, Len(t))
<1>1. Len(t) \in Nat /\ k \in Nat /\ n \in Nat /\ n >= 1 /\ k + n <= Len(t)
  BY LenProperties
<1>2. \A i \in 1..Len(t) : t[i] \in Bytes
  BY ElementOfSeq
<1>3. taken \in Seq(Bytes)
  BY <1>1, <1>2, SubSeqProperties
<1>4. rest \in Seq(Bytes)
  BY <1>1, <1>2, SubSeqProperties
<1>5. taken \o rest = SubSeq(t, k + 1, Len(t))
  <2>1. k + 1 \in 1..Len(t) + 1 /\ k + n \in (k + 1) - 1..Len(t) /\ Len(t) \in k + n..Len(t)
    BY <1>1
  <2> QED
    BY <2>1, ConcatAdjacentSubSeq
<1>6. (w \o taken) \o rest = w \o (taken \o rest)
  <2> HIDE DEF taken, rest
  <2> QED
    BY <1>3, <1>4, ConcatAssociative
<1> QED
  BY <1>3, <1>5, <1>6

\* What comes first in a sequence is a prefix of it.
LEMMA FirstIsPrefix ==
  ASSUME NEW w \in Seq(Bytes), NEW f \in Seq(Bytes), NEW b \in Seq(Bytes)
  PROVE  /\ Len(w) \in 0..Len((w \o f) \o b)
         /\ w = SubSeq((w \o f) \o b, 1, Len(w))
<1>1. f \o b \in Seq(Bytes) /\ (w \o f) \o b = w \o (f \o b)
  BY ConcatProperties, ConcatAssociative
<1>2. Len(w) \in Nat /\ Len(f \o b) \in Nat /\ Len(w \o (f \o b)) = Len(w) + Len(f \o b)
  BY <1>1, ConcatProperties, LenProperties
<1>3. CASE w = <<>>
  <2>1. Len(w) = 0
    BY <1>3, EmptySeq
  <2> QED
    BY <1>1, <1>2, <1>3, <2>1, SubSeqEmpty
<1>4. CASE w # <<>>
  <2>1. 1 \in 1..Len(w) /\ Len(w) \in 1..Len(w)
    BY <1>2, <1>4, EmptySeq
  <2>2. SubSeq(w \o (f \o b), 1, Len(w)) = SubSeq(w, 1, Len(w))
    BY <1>1, <2>1, SubSeqOfConcat1
  <2> QED
    BY <1>1, <1>2, <2>2, SubSeqFull
<1> QED
  BY <1>3, <1>4

-----------------------------------------------------------------------------
(* The steps.                                                              *)

Pcs == {"none", "idle", "run", "start", "transmit", "reset", "connected",
        "deliver", "close", "resolve", "done"}

\* An actor that goes on leaves one place for another.
LEMMA GotoIsLocal ==
  ASSUME TypeOK, NEW a \in Actors, NEW from, NEW to \in Pcs, Goto(a, from, to)
  PROVE  /\ pc' \in [Actors -> Pcs]
         /\ a \in At(from)
         /\ \A b \in Actors \ {a} : pc'[b] = pc[b]
         /\ pc'[a] = to
         /\ \A place : At(place)' = IF place = to THEN At(place) \cup {a}
                                                 ELSE At(place) \ {a}
<1>1. pc \in [Actors -> Pcs]
  BY DEF TypeOK, Pcs
<1> QED
  BY <1>1 DEF Goto, At

\* Who is who.
LEMMA ActorFacts ==
  /\ "io" \in Actors /\ "main" \in Actors /\ Senders \subseteq Actors
  /\ "io" \notin Senders /\ "main" \notin Senders
  /\ Messages \subseteq Seq(Bytes)
  /\ \A s \in Senders : s # "io"
  BY SendersAssumption, MessagesAssumption DEF Actors

\* A step that moves the actor a between places that Places lists and changes
\* no buffer keeps the types of pc.
LEMMA GotoKeepsPcType ==
  ASSUME TypeOK, NEW a \in Actors, NEW from, NEW to \in Pcs, Goto(a, from, to),
         a \in Senders => to \in {"idle", "start", "transmit"},
         a = "main" => to \in {"idle", "resolve"},
         a = "io" => to \notin {"idle", "resolve"}
  PROVE  /\ pc' \in [Actors -> Pcs]
         /\ \A s \in Senders : pc'[s] \in {"idle", "start", "transmit"}
         /\ pc'["main"] \in {"idle", "resolve"}
         /\ pc'["io"] \notin {"idle", "resolve"}
<1>1. pc' \in [Actors -> Pcs] /\ pc'[a] = to /\ \A b \in Actors \ {a} : pc'[b] = pc[b]
  BY GotoIsLocal
<1> QED
  BY <1>1, ActorFacts DEF TypeOK

Quiet ==
  \/ Connect \/ Resolve \/ Start \/ PeerGoes \/ ResolveEnds \/ ConnectEnds
  \/ \E s \in Senders : Stop(s)
  \/ Connected \/ Receive \/ Close \/ WorkerEnds \/ ReadCompletes \/ ReadFails
  \/ UNCHANGED vars

\* What the steps that neither connect nor send keep of the transmission.
LEMMA QuietType == TypeOK /\ StatusAgrees /\ Quiet => TypeOK'
<1> SUFFICES ASSUME TypeOK, StatusAgrees, Quiet PROVE TypeOK'
  OBVIOUS
<1>u. UNCHANGED buffers
  BY DEF Quiet, Connect, Resolve, Start, PeerGoes, ResolveEnds, Resolved, ResolveFails,
         ConnectEnds, ConnectSucceeds, ConnectFails, Stop, Connected, Receive, Close,
         WorkerEnds, ReadCompletes, ReadFails, vars
<1>p. /\ pc' \in [Actors -> Pcs]
      /\ \A s \in Senders : pc'[s] \in {"idle", "start", "transmit"}
      /\ pc'["main"] \in {"idle", "resolve"}
      /\ pc'["io"] \notin {"idle", "resolve"}
  <2>1. CASE UNCHANGED pc
    BY <2>1 DEF TypeOK, Pcs
  <2>2. CASE \E to \in {"resolve", "idle"} : \E from : Goto("main", from, to)
    BY <2>2, GotoKeepsPcType, ActorFacts DEF Pcs
  <2>3. CASE \E to \in {"run", "connected", "deliver", "close", "done"} :
               \E from : Goto("io", from, to)
    BY <2>3, GotoKeepsPcType, ActorFacts DEF Pcs
  <2> QED
    BY <2>1, <2>2, <2>3 DEF Quiet, Connect, Resolve, Start, PeerGoes, ResolveEnds, Resolved,
         ResolveFails, ConnectEnds, ConnectSucceeds, ConnectFails, Stop, Connected, Receive,
         Close, WorkerEnds, ReadCompletes, ReadFails, vars
<1>o. /\ resolving' \in Operations /\ connecting' \in Operations
      /\ reading' \in Operations /\ writing' \in Operations
  BY DEF TypeOK, Operations, Cut, Begun, CloseSocket,
         Quiet, Connect, Resolve, Start, PeerGoes, ResolveEnds, Resolved, ResolveFails,
         ConnectEnds, ConnectSucceeds, ConnectFails, Stop, Connected, Receive, Close,
         WorkerEnds, ReadCompletes, ReadFails, link, vars
<1>s. /\ status' \in {"Idle", "ResolvingHost", "Connecting", "Connected", "Error"}
      /\ socket' \in {"closed", "open", "connected"} /\ peer' \in BOOLEAN
  BY DEF TypeOK, CloseSocket,
         Quiet, Connect, Resolve, Start, PeerGoes, ResolveEnds, Resolved, ResolveFails,
         ConnectEnds, ConnectSucceeds, ConnectFails, Stop, Connected, Receive, Close,
         WorkerEnds, ReadCompletes, ReadFails, link, vars
<1>e. endpoints' \in 0..MaxEndpoints
  <2>1. endpoints \in 0..MaxEndpoints /\ MaxEndpoints \in Nat
    BY BoundsAssumption DEF TypeOK
  <2>2. CASE endpoints' = endpoints - 1 /\ connecting # "none"
    BY <2>1, <2>2 DEF StatusAgrees
  <2>3. CASE endpoints' \in 1..MaxEndpoints
    BY <2>1, <2>3
  <2>4. CASE endpoints' = endpoints
    BY <2>1, <2>4
  <2> QED
    BY <2>2, <2>3, <2>4
    DEF Quiet, Connect, Resolve, Start, PeerGoes, ResolveEnds, Resolved, ResolveFails,
        ConnectEnds, ConnectSucceeds, ConnectFails, Stop, Connected, Receive, Close,
        WorkerEnds, ReadCompletes, ReadFails, link, vars
<1> QED
  BY <1>u, <1>p, <1>o, <1>s, <1>e DEF TypeOK, buffers, Pcs

Transmission == Pipeline /\ OneTransmission /\ NothingForgotten

\* The steps that neither connect nor send leave the transmission as it is.
LEMMA QuietKeeps == TypeOK /\ Quiet /\ Transmission => Transmission'
<1> SUFFICES ASSUME TypeOK, Quiet, Transmission PROVE Transmission'
  OBVIOUS
<1>u. UNCHANGED buffers
  BY DEF Quiet, Connect, Resolve, Start, PeerGoes, ResolveEnds, Resolved, ResolveFails,
         ConnectEnds, ConnectSucceeds, ConnectFails, Stop, Connected, Receive, Close,
         WorkerEnds, ReadCompletes, ReadFails, vars
<1>w. writing' = "none" <=> writing = "none"
  BY DEF Cut, CloseSocket,
         Quiet, Connect, Resolve, Start, PeerGoes, ResolveEnds, Resolved, ResolveFails,
         ConnectEnds, ConnectSucceeds, ConnectFails, Stop, Connected, Receive, Close,
         WorkerEnds, ReadCompletes, ReadFails, vars
<1>p. \A q \in {"start", "transmit", "reset"} : At(q)' = At(q)
  <2>1. CASE UNCHANGED pc
    BY <2>1 DEF At
  <2>2. CASE \E from, to \in Pcs \ {"start", "transmit", "reset"} :
               Goto("main", from, to) \/ Goto("io", from, to)
    <3>1. PICK from, to \in Pcs \ {"start", "transmit", "reset"}, a \in {"main", "io"} :
                 Goto(a, from, to)
      BY <2>2
    <3>2. a \in Actors /\ a \in At(from)
      BY <3>1, ActorFacts, GotoIsLocal
    <3>3. \A q \in {"start", "transmit", "reset"} : a \notin At(q)
      BY <3>1, <3>2 DEF At
    <3> QED
      BY <3>1, <3>2, <3>3, GotoIsLocal
  <2> QED
    BY <2>1, <2>2 DEF Pcs, Quiet, Connect, Resolve, Start, PeerGoes, ResolveEnds, Resolved,
         ResolveFails, ConnectEnds, ConnectSucceeds, ConnectFails, Stop, Connected, Receive,
         Close, WorkerEnds, ReadCompletes, ReadFails, vars
<1> QED
  BY <1>u, <1>w, <1>p
  DEF Transmission, Pipeline, OneTransmission, NothingForgotten, InFlight, Transmitting, buffers

\* Only the I/O thread resets sending_, and a failed write leaves it set.
LEMMA PlaceFacts ==
  ASSUME TypeOK
  PROVE  /\ At("reset") \subseteq {"io"}
         /\ At("transmit") \subseteq Senders \cup {"io"}
  BY DEF TypeOK, At, Actors

\* The rest of a write is a sequence of bytes.
LEMMA InFlightIsSeq == TypeOK => InFlight \in Seq(Bytes)
<1> SUFFICES ASSUME TypeOK PROVE InFlight \in Seq(Bytes)
  OBVIOUS
<1>1. /\ transferring \in Seq(Bytes) /\ transferred \in Int /\ Len(transferring) \in Int
      /\ transferred >= 0
  BY LenProperties DEF TypeOK
<1>2. \A i \in transferred + 1..Len(transferring) : transferring[i] \in Bytes
  BY <1>1, ElementOfSeq
<1>3. SubSeq(transferring, transferred + 1, Len(transferring)) \in Seq(Bytes)
  BY <1>1, <1>2, SubSeqProperties
<1> QED
  BY <1>3, EmptySeq DEF InFlight

\* What send() appends comes after all that was accepted before.
LEMMA SendStep ==
  ASSUME TypeOK, Transmission, NEW s \in Senders, Send(s)
  PROVE  TypeOK' /\ Transmission'
<1>1. PICK m \in Messages : txBuffer' = txBuffer \o m /\ sent' = sent \o m
  BY DEF Send
<1>2. m \in Seq(Bytes) /\ txBuffer \in Seq(Bytes) /\ written \in Seq(Bytes) /\ sent \in Seq(Bytes)
  BY ActorFacts DEF TypeOK
<1>3. Goto(s, "idle", "start") /\ s \in Actors
  BY ActorFacts DEF Send
<1>4. txBuffer' \in Seq(Bytes) /\ sent' \in Seq(Bytes)
  BY <1>1, <1>2, ConcatProperties
<1>5. TypeOK'
  BY <1>3, <1>4, ActorFacts, GotoKeepsPcType DEF Send, TypeOK, Pcs, link
<1>6. /\ At("start")' = At("start") \cup {s}
      /\ At("transmit")' = At("transmit") /\ At("reset")' = At("reset")
  <2>1. s \notin At("transmit") /\ s \notin At("reset") /\ "start" \in Pcs
    BY <1>3 DEF Goto, At, Pcs
  <2>2. /\ At("start")' = At("start") \cup {s}
        /\ At("transmit")' = At("transmit") \ {s} /\ At("reset")' = At("reset") \ {s}
    BY <1>3, <2>1, GotoIsLocal
  <2> QED
    BY <2>1, <2>2
<1>7. txBuffer # <<>> => txBuffer' # <<>>
  BY <1>1, <1>2, ConcatEqualIffEmpty
<1>8. OneTransmission'
  BY <1>6, <1>7 DEF Send, Transmission, OneTransmission, Transmitting
<1>9. Pipeline'
  <2>1. InFlight' = InFlight
    BY <1>6 DEF Send, InFlight
  <2>2. InFlight \in Seq(Bytes)
    BY InFlightIsSeq
  <2>3. sent' = (written \o InFlight) \o txBuffer'
    <3>1. sent = (written \o InFlight) \o txBuffer
      BY DEF Transmission, Pipeline
    <3>2. ((written \o InFlight) \o txBuffer) \o m = (written \o InFlight) \o (txBuffer \o m)
      <4> DEFINE before == written \o InFlight
      <4>1. before \in Seq(Bytes)
        BY <1>2, <2>2, ConcatProperties
      <4> HIDE DEF before
      <4>2. (before \o txBuffer) \o m = before \o (txBuffer \o m)
        BY <1>2, <4>1, ConcatAssociative
      <4> QED
        BY <4>2 DEF before
    <3> QED
      BY <1>1, <3>1, <3>2
  <2> QED
    BY <2>1, <2>3 DEF Send, Pipeline
<1>10. NothingForgotten'
  BY <1>6 DEF NothingForgotten
<1> QED
  BY <1>5, <1>8, <1>9, <1>10 DEF Transmission

\* startTransmit_ finds a transmission, or nothing to send, or begins the only one.
LEMMA StartTransmitStep ==
  ASSUME TypeOK, Transmission, NEW a \in Senders \cup {"io"}, StartTransmit(a)
  PROVE  TypeOK' /\ Transmission'
<1>a. a \in Actors /\ a # "main" /\ Home(a) \in {"run", "idle"}
      /\ (a = "io" => Home(a) = "run") /\ (a \in Senders => Home(a) = "idle")
  BY ActorFacts DEF Home
<1>1. CASE sending \/ txBuffer = <<>>
  <2>1. Goto(a, "start", Home(a)) /\ UNCHANGED sending
    BY <1>1 DEF StartTransmit
  <2>2. TypeOK'
    BY <1>a, <2>1, GotoKeepsPcType DEF StartTransmit, TypeOK, Pcs, link
  <2>3. At("transmit")' = At("transmit") /\ At("reset")' = At("reset")
    <3>1. a \notin At("transmit") /\ a \notin At("reset") /\ Home(a) \in Pcs
      BY <1>a, <2>1 DEF Goto, At, Pcs
    <3> QED
      BY <1>a, <2>1, <3>1, GotoIsLocal
  <2> QED
    BY <1>1, <2>1, <2>2, <2>3 DEF StartTransmit, Transmission, Pipeline, InFlight,
       OneTransmission, Transmitting, NothingForgotten
<1>2. CASE ~sending /\ txBuffer # <<>>
  <2>1. Goto(a, "start", "transmit") /\ sending' = TRUE
    BY <1>2 DEF StartTransmit
  <2>2. TypeOK'
    <3>1. "transmit" \in Pcs /\ "transmit" \notin {"idle", "resolve"}
      BY DEF Pcs
    <3> QED
      BY <1>a, <2>1, <3>1, GotoKeepsPcType DEF StartTransmit, TypeOK, Pcs, link
  <2>3. At("transmit") = {} /\ At("reset") = {} /\ writing = "none"
    BY <1>2 DEF Transmission, OneTransmission, Transmitting
  <2>4. At("transmit")' = {a} /\ At("reset")' = {}
    BY <1>a, <2>1, <2>3, GotoIsLocal DEF Pcs
  <2>5. OneTransmission'
    BY <1>2, <2>1, <2>3, <2>4 DEF StartTransmit, OneTransmission, Transmitting
  <2>6. Pipeline'
    BY <1>2, <2>4 DEF StartTransmit, Transmission, Pipeline, InFlight
  <2> QED
    BY <2>1, <2>2, <2>5, <2>6 DEF Transmission, NothingForgotten
<1> QED
  BY <1>1, <1>2 DEF TypeOK

\* transmit_ puts all that is kept in flight, what was appended meanwhile too.
LEMMA TransmitStep ==
  ASSUME TypeOK, Transmission, NEW a \in Senders \cup {"io"}, Transmit(a)
  PROVE  TypeOK' /\ Transmission'
<1>a. a \in Actors /\ a # "main" /\ Home(a) \in {"run", "idle"}
      /\ (a = "io" => Home(a) = "run") /\ (a \in Senders => Home(a) = "idle")
  BY ActorFacts DEF Home
<1>1. Goto(a, "transmit", Home(a)) /\ Begun \in {"pending", "aborted"}
  BY DEF Transmit, Begun
<1>2. TypeOK'
  <2>1. txBuffer' \in Seq(Bytes) /\ transferring' \in Seq(Bytes)
        /\ transferred' \in 0..Len(transferring')
    BY EmptySeq, LenProperties DEF Transmit, TypeOK
  <2> QED
    BY <1>a, <1>1, <2>1, GotoKeepsPcType DEF Transmit, TypeOK, Pcs, link, Operations
<1>3. a \in At("transmit")
  BY <1>a, <1>1 DEF Goto, At
<1>4. At("transmit") = {a} /\ At("reset") = {} /\ sending /\ txBuffer # <<>>
  BY <1>3 DEF Transmission, OneTransmission, Transmitting
<1>5. At("transmit")' = {} /\ At("reset")' = {}
  BY <1>a, <1>1, <1>4, GotoIsLocal DEF Pcs
<1>6. txBuffer \in Seq(Bytes) /\ written \in Seq(Bytes)
  BY DEF TypeOK
<1>7. 0 < Len(txBuffer)
  BY <1>4, <1>6, EmptySeq
<1>8. OneTransmission'
  BY <1>1, <1>4, <1>5, <1>7 DEF Transmit, OneTransmission, Transmitting
<1>9. Pipeline'
  <2>1. InFlight = <<>> /\ InFlight' = SubSeq(txBuffer, 0 + 1, Len(txBuffer))
    BY <1>4, <1>5 DEF Transmit, InFlight
  <2>2. sent = (written \o <<>>) \o txBuffer
    BY <2>1 DEF Transmission, Pipeline
  <2>3. (written \o <<>>) \o txBuffer
          = (written \o SubSeq(txBuffer, 0 + 1, Len(txBuffer))) \o <<>>
    BY <1>6, SwapMoves
  <2> QED
    BY <2>1, <2>2, <2>3 DEF Transmit, Pipeline
<1> QED
  BY <1>2, <1>4, <1>8, <1>9 DEF Transmit, Transmission, NothingForgotten

\* The socket takes bytes from the front of what is in flight.
LEMMA WriteCompletesStep ==
  ASSUME TypeOK, Transmission, WriteCompletes
  PROVE  TypeOK' /\ Transmission'
<1>1. PICK n \in 1..(Len(transferring) - transferred) :
        LET done == transferred + n = Len(transferring) IN
        /\ Goto("io", "run", IF done THEN "reset" ELSE "run")
        /\ writing' = IF done THEN "none" ELSE "pending"
        /\ transferred' = transferred + n
        /\ written' = written \o SubSeq(transferring, transferred + 1, transferred + n)
  BY DEF WriteCompletes
<1>2. /\ transferring \in Seq(Bytes) /\ written \in Seq(Bytes) /\ txBuffer \in Seq(Bytes)
      /\ transferred \in 0..Len(transferring) /\ Len(transferring) \in Nat
  BY LenProperties DEF TypeOK
<1>3. transferred' \in 0..Len(transferring)
  BY <1>1, <1>2
<1>m. /\ SubSeq(transferring, transferred + 1, transferred + n) \in Seq(Bytes)
      /\ written \o SubSeq(transferring, transferred + 1, Len(transferring)) =
           (written \o SubSeq(transferring, transferred + 1, transferred + n))
              \o SubSeq(transferring, (transferred + n) + 1, Len(transferring))
  BY <1>1, <1>2, WriteMoves
<1>4. written' \in Seq(Bytes)
  BY <1>1, <1>2, <1>m, ConcatProperties
<1>5. TypeOK'
  <2>1. {"reset", "run"} \subseteq Pcs \ {"idle", "resolve"}
    BY DEF Pcs
  <2>2. /\ pc' \in [Actors -> Pcs]
        /\ \A s \in Senders : pc'[s] \in {"idle", "start", "transmit"}
        /\ pc'["main"] \in {"idle", "resolve"}
        /\ pc'["io"] \notin {"idle", "resolve"}
    BY <1>1, <2>1, ActorFacts, GotoKeepsPcType
  <2> QED
    BY <1>1, <1>3, <1>4, <2>2 DEF WriteCompletes, TypeOK, Pcs, link, Operations
<1>6. /\ sending /\ At("transmit") = {} /\ At("reset") = {}
  BY DEF WriteCompletes, Transmission, OneTransmission, Transmitting
<1>7. At("transmit")' = {}
  BY <1>1, <1>6, ActorFacts, GotoIsLocal DEF Pcs
<1>8. At("reset")' = IF transferred + n = Len(transferring) THEN {"io"} ELSE {}
  BY <1>1, <1>6, ActorFacts, GotoIsLocal DEF Pcs
<1>9. OneTransmission'
  <2>1. transferred' = transferred + n /\ transferring' = transferring /\ sending' = sending
    BY <1>1 DEF WriteCompletes
  <2>2. CASE transferred + n = Len(transferring)
    BY <1>1, <1>6, <1>7, <1>8, <2>1, <2>2 DEF OneTransmission, Transmitting
  <2>3. CASE transferred + n # Len(transferring)
    <3>1. transferred + n < Len(transferring)
      BY <1>2, <1>3, <2>1, <2>3
    <3> QED
      BY <1>1, <1>6, <1>7, <1>8, <2>1, <2>3, <3>1 DEF OneTransmission, Transmitting
  <2> QED
    BY <2>2, <2>3
<1>10. Pipeline'
  <2>1. /\ InFlight = SubSeq(transferring, transferred + 1, Len(transferring))
        /\ InFlight' = SubSeq(transferring, (transferred + n) + 1, Len(transferring))
    BY <1>1, <1>6, <1>7 DEF WriteCompletes, InFlight
  <2>2. written \o InFlight = written' \o InFlight'
    BY <1>1, <1>m, <2>1
  <2> QED
    BY <2>2 DEF WriteCompletes, Transmission, Pipeline
<1> QED
  BY <1>5, <1>6, <1>9, <1>10 DEF WriteCompletes, Transmission, NothingForgotten

\* A write that failed leaves sending_ set: nothing is sent any more.
LEMMA WriteFailsStep ==
  ASSUME TypeOK, Transmission, WriteFails
  PROVE  TypeOK' /\ Transmission'
<1>1. Goto("io", "run", "close") /\ writing # "none" /\ "close" \in Pcs \ {"idle", "resolve"}
  BY DEF WriteFails, Pcs
<1>2. TypeOK'
  BY <1>1, ActorFacts, GotoKeepsPcType DEF WriteFails, TypeOK, Pcs, link, buffers, Operations
<1>3. sending /\ At("transmit") = {} /\ At("reset") = {}
  BY <1>1 DEF Transmission, OneTransmission, Transmitting
<1>4. At("transmit")' = {} /\ At("reset")' = {}
  BY <1>1, <1>3, ActorFacts, GotoIsLocal
<1> QED
  BY <1>2, <1>3, <1>4 DEF WriteFails, buffers, Transmission, Pipeline, InFlight, OneTransmission,
     Transmitting, NothingForgotten

\* The handler that resets sending_ goes on to start the next transmission.
LEMMA ResetSendingStep ==
  ASSUME TypeOK, Transmission, ResetSending
  PROVE  TypeOK' /\ Transmission'
<1>1. Goto("io", "reset", "start") /\ "start" \in Pcs \ {"idle", "resolve"}
  BY DEF ResetSending, Pcs
<1>2. TypeOK'
  BY <1>1, ActorFacts, GotoKeepsPcType DEF ResetSending, TypeOK, Pcs, link
<1>3. "io" \in At("reset")
  BY <1>1, ActorFacts DEF Goto, At
<1>4. At("reset") = {"io"} /\ writing = "none" /\ transferred = Len(transferring) /\ sending
      /\ At("transmit") = {}
  BY <1>3, PlaceFacts DEF Transmission, OneTransmission, Transmitting
<1>5. At("reset")' = {} /\ At("transmit")' = {} /\ At("start")' # {}
  BY <1>1, <1>4, ActorFacts, GotoIsLocal
<1>6. OneTransmission' /\ NothingForgotten'
  BY <1>4, <1>5 DEF ResetSending, OneTransmission, Transmitting, NothingForgotten
<1>7. InFlight = <<>> /\ InFlight' = <<>>
  <2>1. Len(transferring) \in Nat
    BY LenProperties DEF TypeOK
  <2>2. SubSeq(transferring, Len(transferring) + 1, Len(transferring)) = <<>>
    BY <2>1, SubSeqEmpty
  <2> QED
    BY <1>4, <2>2 DEF ResetSending, InFlight
<1> QED
  BY <1>2, <1>6, <1>7 DEF ResetSending, Transmission, Pipeline

-----------------------------------------------------------------------------
(* The connection.                                                         *)

\* The status is the right one after every step.
LEMMA StatusStep ==
  ASSUME TypeOK, TypeOK', StatusAgrees, [Next]_vars
  PROVE  StatusAgrees'
<1>p. /\ pc \in [Actors -> Pcs] /\ "io" \in Actors /\ "main" \in Actors
      /\ \A s \in Senders : s \in Actors /\ s # "io" /\ s # "main"
      /\ endpoints \in 0..MaxEndpoints /\ endpoints' \in 0..MaxEndpoints
      /\ MaxEndpoints \in Nat
  BY ActorFacts, BoundsAssumption DEF TypeOK, Pcs
<1>3. CASE Connect \/ Resolve
  BY <1>3, <1>p DEF Connect, Resolve, Goto, StatusAgrees
<1>4. CASE Start \/ PeerGoes \/ UNCHANGED vars
  BY <1>4, <1>p DEF Start, PeerGoes, link, vars, Goto, StatusAgrees
<1>5. CASE ResolveEnds
  <2>1. status = "ResolvingHost" /\ pc["main"] # "resolve" /\ pc' = pc /\ pc["io"] = "run"
        /\ connecting = "none" /\ reading = "none" /\ resolving' = "none" /\ reading' = reading
    BY <1>5 DEF ResolveEnds, Resolved, ResolveFails, StatusAgrees
  <2>2. CASE ResolveFails
    BY <2>1, <2>2 DEF ResolveFails, StatusAgrees
  <2>3. CASE Resolved
    <3>1. endpoints' > 0
      BY <2>3, <1>p DEF Resolved
    <3> QED
      BY <2>1, <2>3, <3>1 DEF Resolved, StatusAgrees
  <2> QED
    BY <1>5, <2>2, <2>3 DEF ResolveEnds
<1>6. CASE ConnectFails
  <2>1. endpoints > 0 /\ (endpoints # 1 => endpoints - 1 > 0)
    BY <1>6, <1>p DEF ConnectFails, Goto, StatusAgrees
  <2> QED
    BY <1>6, <2>1 DEF ConnectFails, Goto, StatusAgrees
<1>7. CASE ConnectSucceeds \/ Connected
  BY <1>7, <1>p DEF ConnectSucceeds, Connected, Goto, StatusAgrees
<1>8. CASE WriteEnds \/ ResetSending \/ WorkerEnds
  BY <1>8, <1>p
  DEF WriteEnds, WriteCompletes, WriteFails, ResetSending, WorkerEnds, link, Goto, StatusAgrees
<1>9. CASE ReadCompletes \/ ReadFails \/ Receive
  BY <1>9, <1>p DEF ReadCompletes, ReadFails, Receive, link, Begun, Goto, StatusAgrees
<1>10. CASE Close \/ \E s \in Senders : Stop(s)
  BY <1>10, <1>p DEF Close, Stop, CloseSocket, Cut, Goto, StatusAgrees
<1>11. CASE \E a \in Senders \cup {"io"} : StartTransmit(a) \/ Transmit(a)
  <2>1. PICK a \in Senders \cup {"io"} : StartTransmit(a) \/ Transmit(a)
    BY <1>11
  <2>2. \/ Goto(a, "start", Home(a)) \/ Goto(a, "start", "transmit")
        \/ Goto(a, "transmit", Home(a))
    BY <2>1 DEF StartTransmit, Transmit
  <2>3. a \in Actors /\ a # "main"
    BY <1>p
  <2>4. pc'["main"] = pc["main"]
    BY <1>p, <2>2, <2>3 DEF Goto
  <2>5. pc'["io"] = pc["io"] \/ pc'["io"] = "transmit" \/ pc'["io"] = "run"
    BY <1>p, <2>2, <2>3 DEF Goto, Home
  <2>6. UNCHANGED <<link, reading>>
    BY <2>1 DEF StartTransmit, Transmit
  <2> QED
    BY <2>4, <2>5, <2>6 DEF link, Goto, StatusAgrees
<1>12. CASE \E s \in Senders : Send(s)
  BY <1>12, <1>p DEF Send, link, Goto, StatusAgrees
<1> QED
  BY <1>3, <1>4, <1>5, <1>6, <1>7, <1>8, <1>9, <1>10, <1>11, <1>12
  DEF Next, HandlerStep, SenderStep, ConnectEnds

-----------------------------------------------------------------------------
(* The theorems.                                                           *)

\* A client that was just made has sent nothing.
LEMMA InitIInv == Init => IInv
<1> SUFFICES ASSUME Init PROVE IInv
  OBVIOUS
<1>1. TypeOK
  <2>1. <<>> \in Seq(Bytes) /\ Len(<<>>) = 0 /\ 0 \in 0..0 /\ 0 \in 0..MaxEndpoints
    BY EmptySeq, BoundsAssumption
  <2>2. pc \in [Actors -> Pcs]
    BY DEF Init, Pcs
  <2> QED
    BY <2>1, <2>2, ActorFacts DEF Init, TypeOK, Operations, Pcs
<1>2. At("transmit") = {} /\ At("reset") = {}
  BY DEF Init, At
<1>3. Pipeline
  <2>1. (<<>> \o <<>>) \o <<>> = <<>>
    BY ConcatEmptySeq, EmptySeq
  <2> QED
    BY <2>1 DEF Init, Pipeline, InFlight
<1>4. OneTransmission /\ NothingForgotten
  BY <1>2 DEF Init, OneTransmission, Transmitting, NothingForgotten
<1>5. StatusAgrees
  BY ActorFacts DEF Init, StatusAgrees
<1> QED
  BY <1>1, <1>3, <1>4, <1>5 DEF IInv

\* Every step keeps the invariant.
LEMMA NextIInv == IInv /\ [Next]_vars => IInv'
<1> SUFFICES ASSUME IInv, [Next]_vars PROVE IInv'
  OBVIOUS
<1>1. TypeOK /\ Transmission /\ StatusAgrees
  BY DEF IInv, Transmission
<1>2. TypeOK' /\ Transmission'
  <2>1. CASE Quiet
    BY <1>1, <2>1, QuietType, QuietKeeps
  <2>2. CASE \E s \in Senders : Send(s)
    BY <1>1, <2>2, SendStep
  <2>3. CASE \E a \in Senders \cup {"io"} : StartTransmit(a)
    BY <1>1, <2>3, StartTransmitStep
  <2>4. CASE \E a \in Senders \cup {"io"} : Transmit(a)
    BY <1>1, <2>4, TransmitStep
  <2>5. CASE WriteCompletes
    BY <1>1, <2>5, WriteCompletesStep
  <2>6. CASE WriteFails
    BY <1>1, <2>6, WriteFailsStep
  <2>7. CASE ResetSending
    BY <1>1, <2>7, ResetSendingStep
  <2> QED
    BY <2>1, <2>2, <2>3, <2>4, <2>5, <2>6, <2>7
    DEF Next, HandlerStep, SenderStep, WriteEnds, Quiet
<1> QED
  BY <1>1, <1>2, StatusStep DEF IInv, Transmission

\* Types, the stream in its buffers, one transmission at a time and no byte
\* forgotten: in every reachable state, for any senders and messages.
THEOREM ClientIsSound == Spec => []IInv
  BY InitIInv, NextIInv, PTL DEF Spec

\* What the socket was given is a prefix of what send() accepted.
LEMMA WrittenIsPrefix ==
  ASSUME IInv
  PROVE  /\ Len(written) \in 0..Len(sent) /\ written = SubSeq(sent, 1, Len(written))
         /\ written \in Seq(Bytes)
<1>1. written \in Seq(Bytes) /\ txBuffer \in Seq(Bytes)
  BY DEF IInv, TypeOK
<1>2. InFlight \in Seq(Bytes)
  BY InFlightIsSeq DEF IInv
<1> DEFINE f == InFlight
<1>3. sent = (written \o f) \o txBuffer /\ f \in Seq(Bytes)
  BY <1>2 DEF IInv, Pipeline
<1> HIDE DEF f
<1> QED
  BY <1>1, <1>3, FirstIsPrefix

\* Every step of the client is a step of the byte stream or does not concern it.
THEOREM ClientStream == Spec => ImplementsStream
<1>1. Init => Stream!Init
  BY DEF Init, Stream!Init
<1> DEFINE Prefix == Len(written) \in 0..Len(sent) /\ written = SubSeq(sent, 1, Len(written))
<1>p. IInv => Prefix
  BY WrittenIsPrefix
<1>q. IInv' => Prefix'
  BY <1>p, PTL
<1>2. IInv /\ IInv' /\ [Next]_vars => [Stream!Next]_(Stream!vars)
  <2> SUFFICES ASSUME IInv, IInv', [Next]_vars,
                      ~(UNCHANGED <<sent, written>>)
               PROVE  Stream!Next
    BY DEF Stream!vars
  <2>1. CASE \E s \in Senders : Send(s)
    BY <2>1 DEF Send, Stream!Next, Stream!Send
  <2>2. CASE WriteCompletes
    <3>1. sent' = sent /\ Len(written') \in 0..Len(sent)
          /\ written' = SubSeq(sent, 1, Len(written'))
      <4>1. Len(written') \in 0..Len(sent') /\ written' = SubSeq(sent', 1, Len(written'))
        BY <1>q
      <4>2. sent' = sent
        BY <2>2 DEF WriteCompletes
      <4> QED
        BY <4>1, <4>2
    <3>2. Len(written') > Len(written)
      <4>1. PICK n \in 1..(Len(transferring) - transferred) :
              written' = written \o SubSeq(transferring, transferred + 1, transferred + n)
        BY <2>2 DEF WriteCompletes
      <4>2. /\ transferring \in Seq(Bytes) /\ written \in Seq(Bytes)
            /\ transferred \in 0..Len(transferring) /\ Len(transferring) \in Nat
        BY LenProperties DEF IInv, TypeOK
      <4>3. /\ SubSeq(transferring, transferred + 1, transferred + n) \in Seq(Bytes)
            /\ Len(SubSeq(transferring, transferred + 1, transferred + n)) = n
        <5>1. \A i \in transferred + 1..transferred + n : transferring[i] \in Bytes
          BY <4>1, <4>2, ElementOfSeq
        <5>2. transferred + 1 \in Int /\ transferred + n \in Int
              /\ transferred + 1 <= transferred + n
              /\ (transferred + n) - (transferred + 1) + 1 = n
          BY <4>1, <4>2
        <5> QED
          BY <5>1, <5>2, SubSeqProperties
      <4> DEFINE taken == SubSeq(transferring, transferred + 1, transferred + n)
      <4> HIDE DEF taken
      <4>4. Len(written \o taken) = Len(written) + Len(taken) /\ Len(written) \in Nat
        BY <4>2, <4>3, ConcatProperties, LenProperties DEF taken
      <4> QED
        BY <4>1, <4>3, <4>4 DEF taken
    <3>3. Len(written') \in (Len(written) + 1)..Len(sent)
      <4>1. Len(written) \in Nat /\ Len(sent) \in Nat
        BY LenProperties DEF IInv, TypeOK
      <4> QED
        BY <3>1, <3>2, <4>1
    <3> QED
      BY <3>1, <3>3 DEF Stream!Next, Stream!Write
  <2>3. CASE ~WriteCompletes /\ ~\E s \in Senders : Send(s)
    BY <2>3 DEF Next, HandlerStep, SenderStep, ResolveEnds, ConnectEnds, WriteEnds, buffers, vars,
       Connect, Resolve, Start, PeerGoes, Stop, StartTransmit, Transmit, Connected, ResetSending,
       Receive, Close, WorkerEnds, Resolved, ResolveFails, ConnectSucceeds, ConnectFails,
       WriteFails, ReadCompletes, ReadFails
  <2> QED
    BY <2>1, <2>2, <2>3
<1> QED
  BY <1>1, <1>2, ClientIsSound, PTL DEF Spec, ImplementsStream, Stream!Spec
=============================================================================

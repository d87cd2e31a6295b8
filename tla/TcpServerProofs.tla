-------------------------- MODULE TcpServerProofs --------------------------
(***************************************************************************)
(* A connection of a server sends what it was handed, in order and once,   *)
(* forgets no byte, reads one block at a time and gets off the list of the *)
(* server when it was closed: the inductive invariant of module TcpServer  *)
(* for any senders and messages, and the refinement of ByteStream.         *)
(***************************************************************************)
EXTENDS TcpServer, SequenceTheorems, TLAPS

-----------------------------------------------------------------------------
(* How bytes move.                                                         *)

\* The buffer that is kept becomes the one in flight.
LEMMA SwapMoves ==
  ASSUME NEW w \in Seq(Bytes), NEW b \in Seq(Bytes)
  PROVE  (w \o <<>>) \o b = (w \o SubSeq(b, 0 + 1, Len(b))) \o <<>>
<1>1. SubSeq(b, 0 + 1, Len(b)) = b
  BY SubSeqFull
<1>2. w \o b \in Seq(Bytes)
  BY ConcatProperties
<1>3. w \o <<>> = w /\ (w \o b) \o <<>> = w \o b
  BY <1>2, ConcatEmptySeq
<1> QED
  BY <1>1, <1>3

\* What the socket takes goes from the buffer in flight to what was written.
LEMMA WriteMoves ==
  ASSUME NEW w \in Seq(Bytes), NEW t \in Seq(Bytes), NEW k \in 0..Len(t),
         NEW n \in 1..(Len(t) - k)
  PROVE  /\ SubSeq(t, k + 1, k + n) \in Seq(Bytes)
         /\ w \o SubSeq(t, k + 1, Len(t)) =
              (w \o SubSeq(t, k + 1, k + n)) \o SubSeq(t, (k + n) + 1, Len(t))
<1> DEFINE taken == SubSeq(t, k + 1, k + n)
           rest == SubSeq(t, (k + n) + 1, Len(t))
<1>1. Len(t) \in Nat /\ k \in Nat /\ n \in Nat /\ n >= 1 /\ k + n <= Len(t)
  BY LenProperties
<1>2. \A i \in 1..Len(t) : t[i] \in Bytes
  BY ElementOfSeq
<1>3. taken \in Seq(Bytes)
  BY <1>1, <1>2, SubSeqProperties
<1>4. rest \in Seq(Bytes)
  BY <1>1, <1>2, SubSeqProperties
<1>5. taken \o rest = SubSeq(t, k + 1, Len(t))
  <2>1. k + 1 \in 1..Len(t) + 1 /\ k + n \in (k + 1) - 1..Len(t) /\ Len(t) \in k + n..Len(t)
    BY <1>1
  <2> QED
    BY <2>1, ConcatAdjacentSubSeq
<1>6. (w \o taken) \o rest = w \o (taken \o rest)
  <2> HIDE DEF taken, rest
  <2> QED
    BY <1>3, <1>4, ConcatAssociative
<1> QED
  BY <1>3, <1>5, <1>6

\* What comes first in a sequence is a prefix of it.
LEMMA FirstIsPrefix ==
  ASSUME NEW w \in Seq(Bytes), NEW f \in Seq(Bytes), NEW b \in Seq(Bytes)
  PROVE  /\ Len(w) \in 0..Len((w \o f) \o b)
         /\ w = SubSeq((w \o f) \o b, 1, Len(w))
<1>1. f \o b \in Seq(Bytes) /\ (w \o f) \o b = w \o (f \o b)
  BY ConcatProperties, ConcatAssociative
<1>2. Len(w) \in Nat /\ Len(f \o b) \in Nat /\ Len(w \o (f \o b)) = Len(w) + Len(f \o b)
  BY <1>1, ConcatProperties, LenProperties
<1>3. CASE w = <<>>
  <2>1. Len(w) = 0
    BY <1>3, EmptySeq
  <2> QED
    BY <1>1, <1>2, <1>3, <2>1, SubSeqEmpty
<1>4. CASE w # <<>>
  <2>1. 1 \in 1..Len(w) /\ Len(w) \in 1..Len(w)
    BY <1>2, <1>4, EmptySeq
  <2>2. SubSeq(w \o (f \o b), 1, Len(w)) = SubSeq(w, 1, Len(w))
    BY <1>1, <2>1, SubSeqOfConcat1
  <2> QED
    BY <1>1, <1>2, <2>2, SubSeqFull
<1> QED
  BY <1>3, <1>4

-----------------------------------------------------------------------------
(* Who is where.                                                           *)

Pcs == SenderPcs \cup ThreadPcs \cup MainPcs

\* Each kind of actor stays at its own places.
PcType ==
  /\ pc \in [Actors -> Pcs]
  /\ \A s \in Senders : pc[s] \in SenderPcs
  /\ \A t \in Threads : pc[t] \in ThreadPcs
  /\ pc["main"] \in MainPcs

\* Who is who.
LEMMA ActorFacts ==
  /\ Senders \subseteq Actors /\ Threads \subseteq Actors /\ "main" \in Actors
  /\ "first" \in Threads /\ "second" \in Threads
  /\ Actors = Senders \cup Threads \cup {"main"}
  /\ \A s \in Senders : s \notin Threads /\ s # "main"
  /\ \A t \in Threads : t # "main" /\ t \notin Senders
  /\ Messages \subseteq Seq(Bytes)
  BY SendersAssumption, MessagesAssumption DEF Actors, Threads

\* An actor that goes on leaves one place for another and is alone to move.
LEMMA GotoIsLocal ==
  ASSUME PcType, NEW a \in Actors, NEW from, NEW to \in Pcs, Goto(a, from, to)
  PROVE  /\ pc' \in [Actors -> Pcs]
         /\ a \in At(from) /\ pc[a] = from
         /\ \A b \in Actors \ {a} : pc'[b] = pc[b]
         /\ pc'[a] = to
         /\ \A place : At(place)' = IF place = to THEN At(place) \cup {a}
                                                 ELSE At(place) \ {a}
  BY DEF PcType, Goto, At

\* The types of pc that the steps of each kind of actor keep.
LEMMA GotoKeepsPcType ==
  ASSUME PcType, NEW a \in Actors, NEW from, NEW to \in Pcs, Goto(a, from, to),
         a \in Senders => to \in SenderPcs,
         a \in Threads => to \in ThreadPcs,
         a = "main" => to \in MainPcs
  PROVE  PcType'
<1>1. pc' \in [Actors -> Pcs] /\ pc'[a] = to /\ \A b \in Actors \ {a} : pc'[b] = pc[b]
  BY GotoIsLocal
<1> QED
  BY <1>1, ActorFacts DEF PcType

\* startWorker_ sends a thread back to io_.run() and may make the second one.
LEMMA StartWorkerIsLocal ==
  ASSUME PcType, ThreadsMadeOnce, NEW t \in Threads,
         NEW from \in {"run", "accepted", "deliver"}, StartWorker(t, from)
  PROVE  /\ PcType'
         /\ pc[t] = from /\ pc'[t] = "run"
         /\ thread' \in {thread, "second"} /\ thread' # "none"
         /\ \A b \in Actors \ {t} : pc'[b] = pc[b] \/ (pc[b] = "none" /\ pc'[b] = "run" /\ b = "second")
         /\ \A place : place \notin {"none", "run"} => At(place)' = At(place) \ {t}
<1>1. CASE thread = "none"
  <2>1. /\ pc[t] = from /\ pc["second"] = "none" /\ thread' = "second"
        /\ pc' = [pc EXCEPT ![t] = "run", !["second"] = "run"]
    BY <1>1 DEF StartWorker, ThreadsMadeOnce
  <2>2. t # "second" /\ t \in Actors /\ "second" \in Actors /\ pc \in [Actors -> Pcs]
    BY <2>1, ActorFacts DEF PcType
  <2>3. pc' \in [Actors -> Pcs] /\ pc'[t] = "run" /\ pc'["second"] = "run"
        /\ \A b \in Actors \ {t, "second"} : pc'[b] = pc[b]
    BY <2>1, <2>2 DEF Pcs, ThreadPcs
  <2>4. PcType'
    BY <2>3, ActorFacts DEF PcType, ThreadPcs
  <2>5. \A place : place \notin {"none", "run"} => At(place)' = At(place) \ {t}
    BY <2>1, <2>2, <2>3 DEF At
  <2> QED
    BY <2>1, <2>3, <2>4, <2>5, ActorFacts
<1>2. CASE thread # "none"
  <2>1. Goto(t, from, "run") /\ thread' = thread /\ thread # "none"
    BY <1>2 DEF StartWorker
  <2>2. "run" \in Pcs /\ "run" \in ThreadPcs /\ t \in Actors
    BY ActorFacts DEF Pcs, ThreadPcs
  <2>3. PcType'
    BY <2>1, <2>2, ActorFacts, GotoKeepsPcType
  <2>4. \A place : place \notin {"none", "run"} => At(place)' = At(place) \ {t}
    BY <2>1, <2>2, ActorFacts, GotoIsLocal
  <2>5. pc[t] = from /\ pc'[t] = "run" /\ \A b \in Actors \ {t} : pc'[b] = pc[b]
    BY <2>1, <2>2, ActorFacts, GotoIsLocal
  <2> QED
    BY <2>1, <2>3, <2>4, <2>5
<1> QED
  BY <1>1, <1>2

-----------------------------------------------------------------------------
(* The stream.                                                             *)

Transmission == Pipeline /\ OneWrite /\ NothingForgotten

\* What every step keeps of the other variables.
DataType ==
  /\ txBuffer \in Seq(Bytes) /\ transferring \in Seq(Bytes)
  /\ sent \in Seq(Bytes) /\ written \in Seq(Bytes)
  /\ transferred \in 0..Len(transferring)
  /\ sending \in BOOLEAN /\ writing \in BOOLEAN
  /\ message \in [Senders -> Messages \cup {<<>>}]

FlagType ==
  /\ reading \in BOOLEAN
  /\ socket \in Sockets /\ peer \in BOOLEAN
  /\ listed \in BOOLEAN /\ told \in BOOLEAN
  /\ accepting \in BOOLEAN /\ stopped \in BOOLEAN
  /\ thread \in Threads \cup {"none"}

\* The type invariant by the steps that could break its parts.
LEMMA TypeParts == TypeOK <=> DataType /\ FlagType /\ PcType
  BY DEF TypeOK, DataType, FlagType, PcType, Pcs

\* The steps that neither send nor write.
QuietMove ==
  \/ Start \/ AssignThread \/ Stop \/ CloseAcceptor \/ Join
  \/ \E a \in Senders \cup Threads : Shutdown(a) \/ Remove(a)
  \/ \E s \in Senders : Close(s)
  \/ \E t \in Threads : Accept(t) \/ ReadCompletes(t) \/ ReadFails(t) \/ WorkerEnds(t)

QuietWorker == \E t \in Threads : AcceptFails(t) \/ StartReceive(t) \/ Receive(t)

Quiet == QuietMove \/ QuietWorker \/ CreateThread \/ PeerGoes \/ UNCHANGED vars

\* Each of them moves one actor between places outside the transmission.
LEMMA QuietMoves ==
  ASSUME PcType, QuietMove
  PROVE  /\ UNCHANGED buffers
         /\ PcType'
         /\ \E a \in Actors, from, to \in Pcs :
              Goto(a, from, to) /\ from \notin {"start", "reset"} /\ to \notin {"start", "reset"}
<1>1. UNCHANGED buffers
  BY DEF QuietMove, Start, AssignThread, Stop, CloseAcceptor, Join, Shutdown, Remove, Close,
         Accept, ReadCompletes, ReadFails, WorkerEnds
<1>2. CASE Start \/ AssignThread \/ Stop \/ CloseAcceptor \/ Join
  <2>1. PICK from, to \in MainPcs : Goto("main", from, to)
    BY <1>2 DEF Start, AssignThread, Stop, CloseAcceptor, Join, MainPcs
  <2>2. {"start", "reset"} \cap MainPcs = {} /\ MainPcs \subseteq Pcs
    BY DEF MainPcs, Pcs
  <2> QED
    BY <1>1, <2>1, <2>2, ActorFacts, GotoKeepsPcType
<1>3. CASE \E s \in Senders : Close(s) \/ Shutdown(s) \/ Remove(s)
  <2>1. PICK s \in Senders, from, to \in {"idle", "close", "remove"} : Goto(s, from, to)
    BY <1>3 DEF Close, Shutdown, Remove, Home
  <2>2. {"idle", "close", "remove"} \subseteq SenderPcs /\ SenderPcs \subseteq Pcs
    BY DEF SenderPcs, Pcs
  <2> QED
    BY <1>1, <2>1, <2>2, ActorFacts, GotoKeepsPcType
<1>4. CASE \E t \in Threads : \/ Shutdown(t) \/ Remove(t) \/ Accept(t) \/ ReadCompletes(t)
                              \/ ReadFails(t) \/ WorkerEnds(t)
  <2>1. PICK t \in Threads, from, to \in {"run", "close", "remove", "accepted", "deliver", "done"} :
               Goto(t, from, to)
    BY <1>4, ActorFacts DEF Shutdown, Remove, Home, Accept, ReadCompletes, ReadFails, WorkerEnds, Takes
  <2>2. {"run", "close", "remove", "accepted", "deliver", "done"} \subseteq ThreadPcs
        /\ ThreadPcs \subseteq Pcs
    BY DEF ThreadPcs, Pcs
  <2> QED
    BY <1>1, <2>1, <2>2, ActorFacts, GotoKeepsPcType
<1> QED
  BY <1>2, <1>3, <1>4 DEF QuietMove

\* A handler that may make a thread leaves the places of the transmission alone.
LEMMA QuietWorkerMoves ==
  ASSUME PcType, ThreadsMadeOnce, QuietWorker
  PROVE  /\ UNCHANGED buffers
         /\ PcType'
         /\ At("start")' = At("start") /\ At("reset")' = At("reset")
<1>1. PICK t \in Threads, from \in {"run", "accepted", "deliver"} :
        StartWorker(t, from) /\ UNCHANGED buffers
  BY DEF QuietWorker, AcceptFails, StartReceive, Receive
<1>2. /\ PcType' /\ pc[t] = from
      /\ \A place : place \notin {"none", "run"} => At(place)' = At(place) \ {t}
  BY <1>1, StartWorkerIsLocal
<1>3. t \notin At("start") /\ t \notin At("reset")
  BY <1>1, <1>2 DEF At
<1> QED
  BY <1>1, <1>2, <1>3

\* So do all the steps that neither send nor write ...
LEMMA QuietPlaces ==
  ASSUME PcType, ThreadsMadeOnce, Quiet
  PROVE  /\ UNCHANGED buffers
         /\ PcType'
         /\ At("start")' = At("start") /\ At("reset")' = At("reset")
<1>1. CASE QuietMove
  <2>1. PICK a \in Actors, from, to \in Pcs :
          Goto(a, from, to) /\ from \notin {"start", "reset"} /\ to \notin {"start", "reset"}
    BY <1>1, QuietMoves
  <2>2. a \notin At("start") /\ a \notin At("reset")
    BY <2>1 DEF Goto, At
  <2>3. At("start")' = At("start") \ {a} /\ At("reset")' = At("reset") \ {a}
    BY <2>1, GotoIsLocal
  <2> QED
    BY <1>1, <2>2, <2>3, QuietMoves
<1>2. CASE QuietWorker
  BY <1>2, QuietWorkerMoves
<1>3. CASE CreateThread
  <2>1. /\ UNCHANGED buffers /\ pc["main"] = "create" /\ pc["first"] = "none"
        /\ pc' = [pc EXCEPT !["main"] = "assign", !["first"] = "run"]
    BY <1>3 DEF CreateThread, ThreadsMadeOnce
  <2>2. /\ pc' \in [Actors -> Pcs] /\ pc'["main"] = "assign" /\ pc'["first"] = "run"
        /\ \A b \in Actors \ {"main", "first"} : pc'[b] = pc[b]
    BY <2>1, ActorFacts DEF PcType, Pcs, MainPcs, ThreadPcs
  <2>3. PcType'
    BY <2>2, ActorFacts DEF PcType, MainPcs, ThreadPcs
  <2>4. At("start")' = At("start") /\ At("reset")' = At("reset")
    BY <2>1, <2>2 DEF At
  <2> QED
    BY <2>1, <2>3, <2>4
<1>4. CASE PeerGoes \/ UNCHANGED vars
  BY <1>4 DEF PeerGoes, vars, PcType, At
<1> QED
  BY <1>1, <1>2, <1>3, <1>4 DEF Quiet

\* ... and they leave the stream as it is.
LEMMA QuietKeeps ==
  ASSUME TypeOK, ThreadsMadeOnce, Transmission, Quiet
  PROVE  DataType' /\ PcType' /\ Transmission'
<1>1. /\ UNCHANGED buffers /\ PcType'
      /\ At("start")' = At("start") /\ At("reset")' = At("reset")
  BY TypeParts, QuietPlaces
<1>2. DataType'
  BY <1>1, TypeParts DEF DataType, buffers
<1> QED
  BY <1>1, <1>2 DEF buffers, Transmission, Pipeline, InFlight, OneWrite, NothingForgotten

-----------------------------------------------------------------------------
(* The steps that send.                                                    *)

\* The rest of a write is a sequence of bytes.
LEMMA InFlightIsSeq == TypeOK => InFlight \in Seq(Bytes)
<1> SUFFICES ASSUME TypeOK PROVE InFlight \in Seq(Bytes)
  OBVIOUS
<1>1. /\ transferring \in Seq(Bytes) /\ transferred \in Int /\ Len(transferring) \in Int
      /\ transferred >= 0
  BY LenProperties DEF TypeOK
<1>2. \A i \in transferred + 1..Len(transferring) : transferring[i] \in Bytes
  BY <1>1, ElementOfSeq
<1>3. SubSeq(transferring, transferred + 1, Len(transferring)) \in Seq(Bytes)
  BY <1>1, <1>2, SubSeqProperties
<1> QED
  BY <1>3, EmptySeq DEF InFlight

\* What is appended comes after all that was accepted before.
LEMMA AppendStep ==
  ASSUME TypeOK, Transmission, NEW s \in Senders, NEW m \in Seq(Bytes), Accepted(m),
         NEW from \in {"idle", "append"}, Goto(s, from, "start"),
         UNCHANGED <<transferring, transferred, sending, writing, written>>,
         message' \in [Senders -> Messages \cup {<<>>}]
  PROVE  DataType' /\ PcType' /\ Transmission'
<1>1. txBuffer' = txBuffer \o m /\ sent' = sent \o m
  BY DEF Accepted
<1>2. /\ txBuffer \in Seq(Bytes) /\ written \in Seq(Bytes) /\ sent \in Seq(Bytes)
      /\ DataType /\ PcType
  BY TypeParts DEF TypeOK
<1>3. s \in Actors /\ s \notin Threads /\ s # "main"
      /\ "start" \in Pcs /\ "start" \in SenderPcs
  BY ActorFacts DEF Pcs, SenderPcs
<1>4. txBuffer' \in Seq(Bytes) /\ sent' \in Seq(Bytes)
  BY <1>1, <1>2, ConcatProperties
<1>5. DataType' /\ PcType'
  <2>1. PcType'
    BY <1>2, <1>3, GotoKeepsPcType
  <2> QED
    BY <1>2, <1>4, <2>1 DEF DataType
<1>6. At("start")' = At("start") \cup {s} /\ At("reset")' = At("reset")
  <2>1. s \notin At("reset")
    BY DEF Goto, At
  <2>2. At("start")' = At("start") \cup {s} /\ At("reset")' = At("reset") \ {s}
    BY <1>2, <1>3, GotoIsLocal
  <2> QED
    BY <2>1, <2>2
<1>8. OneWrite' /\ NothingForgotten'
  BY <1>6 DEF Transmission, OneWrite, NothingForgotten
<1>9. Pipeline'
  <2>1. InFlight' = InFlight
    BY DEF InFlight
  <2>2. InFlight \in Seq(Bytes)
    BY InFlightIsSeq
  <2>3. sent = (written \o InFlight) \o txBuffer
    BY DEF Transmission, Pipeline
  <2>4. ((written \o InFlight) \o txBuffer) \o m = (written \o InFlight) \o (txBuffer \o m)
    <3> DEFINE before == written \o InFlight
    <3>1. before \in Seq(Bytes)
      BY <1>2, <2>2, ConcatProperties
    <3> HIDE DEF before
    <3>2. (before \o txBuffer) \o m = before \o (txBuffer \o m)
      BY <1>2, <3>1, ConcatAssociative
    <3> QED
      BY <3>2 DEF before
  <2> QED
    BY <1>1, <2>1, <2>3, <2>4 DEF Pipeline
<1> QED
  BY <1>5, <1>8, <1>9 DEF Transmission

\* Both forms of send() append, one of them after it has given up the lock.
LEMMA SendStep ==
  ASSUME TypeOK, Transmission, NEW s \in Senders, SendBuffer(s) \/ SendVector(s) \/ AppendVector(s)
  PROVE  DataType' /\ PcType' /\ Transmission'
<1>1. message \in [Senders -> Messages \cup {<<>>}] /\ \A m \in Messages : m \in Seq(Bytes)
  BY ActorFacts DEF TypeOK
<1>2. CASE SendBuffer(s)
  BY <1>1, <1>2, AppendStep DEF SendBuffer
<1>3. CASE SendVector(s) /\ txBuffer = <<>>
  BY <1>1, <1>3, AppendStep DEF SendVector
<1>4. CASE AppendVector(s)
  <2>1. message[s] \in Seq(Bytes)
    BY <1>1, EmptySeq
  <2>2. message' \in [Senders -> Messages \cup {<<>>}]
    BY <1>1, <1>4 DEF AppendVector
  <2> QED
    BY <1>4, <2>1, <2>2, AppendStep DEF AppendVector
<1>5. CASE SendVector(s) /\ txBuffer # <<>>
  <2>1. /\ Goto(s, "idle", "append")
        /\ \E m \in Messages : message' = [message EXCEPT ![s] = m]
        /\ UNCHANGED <<txBuffer, sent, transferring, transferred, sending, writing, written>>
    BY <1>5 DEF SendVector
  <2>2. DataType'
    BY <1>1, <2>1, TypeParts DEF DataType
  <2>3. PcType /\ s \in Actors /\ "append" \in Pcs /\ "append" \in SenderPcs
        /\ s \notin Threads /\ s # "main"
    BY TypeParts, ActorFacts DEF Pcs, SenderPcs
  <2>4. PcType'
    BY <2>1, <2>3, GotoKeepsPcType
  <2>5. s \notin At("start") /\ s \notin At("reset")
    BY <2>1 DEF Goto, At
  <2>6. At("start")' = At("start") \ {s} /\ At("reset")' = At("reset") \ {s}
    BY <2>1, <2>3, GotoIsLocal
  <2> QED
    BY <2>1, <2>2, <2>4, <2>5, <2>6
    DEF Transmission, Pipeline, InFlight, OneWrite, NothingForgotten
<1> QED
  BY <1>2, <1>3, <1>4, <1>5

\* startTransmit_ begins the only write, with all that is kept.
LEMMA StartTransmitStep ==
  ASSUME TypeOK, Transmission, NEW a \in Senders \cup Threads, StartTransmit(a)
  PROVE  DataType' /\ PcType' /\ Transmission'
<1>a. /\ a \in Actors /\ a # "main" /\ Home(a) \in Pcs \ {"start", "reset"}
      /\ (a \in Senders => Home(a) \in SenderPcs) /\ (a \in Threads => Home(a) \in ThreadPcs)
  BY ActorFacts DEF Home, Pcs, SenderPcs, ThreadPcs
<1>b. Goto(a, "start", Home(a)) /\ PcType /\ DataType
  BY TypeParts DEF StartTransmit
<1>c. PcType'
  BY <1>a, <1>b, GotoKeepsPcType
<1>d. At("reset")' = At("reset")
  <2>1. a \notin At("reset")
    BY <1>b DEF Goto, At
  <2>2. At("reset")' = At("reset") \ {a}
    BY <1>a, <1>b, GotoIsLocal
  <2> QED
    BY <2>1, <2>2
<1>1. CASE sending \/ txBuffer = <<>>
  <2>1. DataType'
    BY <1>1, <1>b DEF StartTransmit, DataType
  <2> QED
    BY <1>1, <1>c, <1>d, <2>1 DEF StartTransmit, Transmission, Pipeline, InFlight,
       OneWrite, NothingForgotten
<1>2. CASE ~sending /\ txBuffer # <<>>
  <2>1. /\ sending' = TRUE /\ writing' = TRUE /\ transferred' = 0
        /\ transferring' = txBuffer /\ txBuffer' = <<>>
        /\ UNCHANGED <<message, sent, written>>
    BY <1>2 DEF StartTransmit
  <2>2. txBuffer \in Seq(Bytes) /\ written \in Seq(Bytes)
    BY DEF TypeOK
  <2>3. Len(txBuffer) \in Nat /\ 0 < Len(txBuffer)
    BY <1>2, <2>2, EmptySeq, LenProperties
  <2>4. DataType'
    BY <1>b, <2>1, <2>2, <2>3, EmptySeq DEF DataType
  <2>5. At("reset") = {}
    BY <1>2 DEF Transmission, OneWrite
  <2>6. OneWrite' /\ NothingForgotten'
    BY <1>d, <2>1, <2>3, <2>5 DEF OneWrite, NothingForgotten
  <2>7. Pipeline'
    <3>1. InFlight = <<>> /\ InFlight' = SubSeq(txBuffer, 0 + 1, Len(txBuffer))
      BY <1>2, <2>1 DEF InFlight
    <3>2. sent = (written \o <<>>) \o txBuffer
      BY <3>1 DEF Transmission, Pipeline
    <3>3. (written \o <<>>) \o txBuffer
            = (written \o SubSeq(txBuffer, 0 + 1, Len(txBuffer))) \o <<>>
      BY <2>2, SwapMoves
    <3> QED
      BY <2>1, <3>1, <3>2, <3>3 DEF Pipeline
  <2> QED
    BY <1>c, <2>4, <2>6, <2>7 DEF Transmission
<1> QED
  BY <1>1, <1>2 DEF TypeOK

\* The socket takes bytes from the front of what is in flight.
LEMMA WriteCompletesStep ==
  ASSUME TypeOK, Transmission, NEW t \in Threads, WriteCompletes(t)
  PROVE  DataType' /\ PcType' /\ Transmission'
<1>1. PICK n \in 1..(Len(transferring) - transferred) :
        LET done == transferred + n = Len(transferring) IN
        /\ Takes(t, IF done THEN "reset" ELSE "run")
        /\ writing' = ~done
        /\ transferred' = transferred + n
        /\ written' = written \o SubSeq(transferring, transferred + 1, transferred + n)
  BY DEF WriteCompletes
<1>2. /\ transferring \in Seq(Bytes) /\ written \in Seq(Bytes) /\ txBuffer \in Seq(Bytes)
      /\ transferred \in 0..Len(transferring) /\ Len(transferring) \in Nat
      /\ PcType /\ DataType
  BY LenProperties, TypeParts DEF TypeOK
<1>3. transferred' \in 0..Len(transferring)
  BY <1>1, <1>2
<1>m. /\ SubSeq(transferring, transferred + 1, transferred + n) \in Seq(Bytes)
      /\ written \o SubSeq(transferring, transferred + 1, Len(transferring)) =
           (written \o SubSeq(transferring, transferred + 1, transferred + n))
              \o SubSeq(transferring, (transferred + n) + 1, Len(transferring))
  BY <1>1, <1>2, WriteMoves
<1>4. written' \in Seq(Bytes)
  BY <1>1, <1>2, <1>m, ConcatProperties
<1>5. DataType'
  BY <1>1, <1>2, <1>3, <1>4 DEF WriteCompletes, DataType
<1>t. /\ {"reset", "run"} \subseteq Pcs /\ {"reset", "run"} \subseteq ThreadPcs
      /\ t \in Actors /\ t \notin Senders /\ t # "main"
      /\ Goto(t, "run", IF transferred + n = Len(transferring) THEN "reset" ELSE "run")
  BY <1>1, ActorFacts DEF Pcs, ThreadPcs, Takes
<1>6. PcType'
  BY <1>2, <1>t, GotoKeepsPcType
<1>7. sending /\ At("reset") = {}
  BY DEF WriteCompletes, Transmission, OneWrite
<1>8. At("reset")' = IF transferred + n = Len(transferring) THEN {t} ELSE {}
  BY <1>2, <1>t, <1>7, GotoIsLocal
<1>9. OneWrite'
  <2>1. transferred' = transferred + n /\ transferring' = transferring /\ sending' = sending
    BY <1>1 DEF WriteCompletes
  <2>2. CASE transferred + n = Len(transferring)
    BY <1>1, <1>7, <1>8, <2>1, <2>2 DEF OneWrite
  <2>3. CASE transferred + n # Len(transferring)
    <3>1. transferred + n < Len(transferring)
      BY <1>2, <1>3, <2>1, <2>3
    <3> QED
      BY <1>1, <1>7, <1>8, <2>1, <2>3, <3>1 DEF OneWrite
  <2> QED
    BY <2>2, <2>3
<1>10. Pipeline'
  <2>1. /\ InFlight = SubSeq(transferring, transferred + 1, Len(transferring))
        /\ InFlight' = SubSeq(transferring, (transferred + n) + 1, Len(transferring))
    BY <1>1, <1>7 DEF WriteCompletes, InFlight
  <2>2. written \o InFlight = written' \o InFlight'
    BY <1>1, <1>m, <2>1
  <2> QED
    BY <2>2 DEF WriteCompletes, Transmission, Pipeline
<1> QED
  BY <1>5, <1>6, <1>7, <1>9, <1>10 DEF WriteCompletes, Transmission, NothingForgotten

\* A write that failed leaves sending_ set: nothing is sent any more.
LEMMA WriteFailsStep ==
  ASSUME TypeOK, Transmission, NEW t \in Threads, WriteFails(t)
  PROVE  DataType' /\ PcType' /\ Transmission'
<1>1. /\ Goto(t, "run", "close") /\ "close" \in Pcs /\ "close" \in ThreadPcs
      /\ t \in Actors /\ t \notin Senders /\ t # "main" /\ PcType /\ DataType
  BY ActorFacts, TypeParts DEF WriteFails, Takes, Pcs, ThreadPcs
<1>2. DataType' /\ PcType'
  <2>1. PcType'
    BY <1>1, GotoKeepsPcType
  <2> QED
    BY <1>1, <2>1 DEF WriteFails, DataType
<1>3. sending /\ At("reset") = {}
  BY DEF WriteFails, Transmission, OneWrite
<1>4. At("reset")' = {}
  BY <1>1, <1>3, GotoIsLocal
<1> QED
  BY <1>2, <1>3, <1>4 DEF WriteFails, Transmission, Pipeline, InFlight, OneWrite, NothingForgotten

\* The handler that resets sending_ goes on to start the next transmission.
LEMMA ResetSendingStep ==
  ASSUME TypeOK, Transmission, NEW t \in Threads, ResetSending(t)
  PROVE  DataType' /\ PcType' /\ Transmission'
<1>1. /\ Goto(t, "reset", "start") /\ "start" \in Pcs /\ "start" \in ThreadPcs
      /\ t \in Actors /\ t \notin Senders /\ t # "main" /\ PcType /\ DataType
  BY ActorFacts, TypeParts DEF ResetSending, Pcs, ThreadPcs
<1>2. DataType' /\ PcType'
  <2>1. PcType'
    BY <1>1, GotoKeepsPcType
  <2> QED
    BY <1>1, <2>1 DEF ResetSending, DataType
<1>3. t \in At("reset")
  BY <1>1 DEF Goto, At
<1>4. At("reset") = {t} /\ ~writing /\ transferred = Len(transferring) /\ sending
  BY <1>3, <1>1 DEF Transmission, OneWrite, DataType
<1>5. At("reset")' = {} /\ At("start")' # {}
  BY <1>1, <1>4, GotoIsLocal
<1>6. OneWrite' /\ NothingForgotten'
  BY <1>4, <1>5 DEF ResetSending, OneWrite, NothingForgotten
<1>7. InFlight = <<>> /\ InFlight' = <<>>
  <2>1. Len(transferring) \in Nat
    BY LenProperties DEF TypeOK
  <2>2. SubSeq(transferring, Len(transferring) + 1, Len(transferring)) = <<>>
    BY <2>1, SubSeqEmpty
  <2> QED
    BY <1>4, <2>2 DEF ResetSending, InFlight
<1> QED
  BY <1>2, <1>6, <1>7 DEF ResetSending, Transmission, Pipeline

\* Every step keeps the types of the data and of pc, and the stream.
LEMMA TransmissionStep ==
  ASSUME TypeOK, ThreadsMadeOnce, Transmission, [Next]_vars
  PROVE  DataType' /\ PcType' /\ Transmission'
<1>1. CASE Quiet
  BY <1>1, QuietKeeps
<1>2. CASE \E s \in Senders : SendBuffer(s) \/ SendVector(s) \/ AppendVector(s)
  BY <1>2, SendStep
<1>3. CASE \E a \in Senders \cup Threads : StartTransmit(a)
  BY <1>3, StartTransmitStep
<1>4. CASE \E t \in Threads : WriteCompletes(t) \/ WriteFails(t) \/ ResetSending(t)
  BY <1>4, WriteCompletesStep, WriteFailsStep, ResetSendingStep
<1> QED
  BY <1>1, <1>2, <1>3, <1>4 DEF Next, MainStep, SenderStep, HandlerStep, Continue, WriteEnds,
     ReadEnds, Quiet, QuietMove, QuietWorker

-----------------------------------------------------------------------------
(* The connection and the threads.                                         *)

Link == OneRead /\ ClosedIsUnlisted /\ NothingBefore /\ ThreadsMadeOnce

\* Whoever is in a call or a handler of the connection found it accepted.
LEMMA BusyIsAccepted ==
  ASSUME TypeOK, NothingBefore, NEW a \in Senders \cup Threads,
         pc[a] \notin {"idle", "none", "run", "done"}
  PROVE  socket # "none"
  BY ActorFacts DEF NothingBefore

\* No I/O thread runs before start() has made one.
LEMMA RunsIsStarted ==
  ASSUME ThreadsMadeOnce, NEW t \in Threads, pc[t] # "none"
  PROVE  pc["main"] \notin {"none", "create"}
  BY DEF ThreadsMadeOnce, Threads

\* A step of the transmission leaves the connection and the threads alone.
LEMMA TransmissionKeepsLink ==
  ASSUME TypeOK, Link, NEW a \in Senders \cup Threads,
         NEW from \in {"idle", "append", "start", "run", "reset"},
         NEW to \in {"idle", "append", "start", "run", "reset", "close"},
         Goto(a, from, to), socket # "none",
         UNCHANGED <<connection, server, peer>>
  PROVE  FlagType' /\ Link'
<1>1. /\ PcType /\ FlagType /\ a \in Actors /\ to \in Pcs /\ a # "main"
  BY TypeParts, ActorFacts DEF Pcs, SenderPcs, ThreadPcs
<1>2. /\ pc[a] = from /\ pc'[a] = to /\ \A b \in Actors \ {a} : pc'[b] = pc[b]
      /\ \A place : At(place)' = IF place = to THEN At(place) \cup {a} ELSE At(place) \ {a}
  BY <1>1, GotoIsLocal
<1>3. \A place \in {"accepted", "deliver", "remove"} : At(place)' = At(place)
  <2>1. a \notin At("accepted") /\ a \notin At("deliver") /\ a \notin At("remove")
    BY <1>2 DEF At
  <2> QED
    BY <1>2, <2>1
<1>4. FlagType'
  BY <1>1 DEF connection, server, FlagType
<1>5. OneRead' /\ ClosedIsUnlisted'
  BY <1>3 DEF connection, Link, OneRead, Receivers, ClosedIsUnlisted
<1>6. NothingBefore'
  BY <1>1, <1>2, ActorFacts DEF connection, server, Link, NothingBefore
<1>7. ThreadsMadeOnce'
  BY <1>1, <1>2, ActorFacts DEF server, Link, ThreadsMadeOnce
<1> QED
  BY <1>4, <1>5, <1>6, <1>7 DEF Link

\* Sending and writing leave the connection and the threads alone.
LEMMA SendLinkStep ==
  ASSUME TypeOK, Link, OneWrite,
         \/ \E s \in Senders : SendBuffer(s) \/ SendVector(s) \/ AppendVector(s)
         \/ \E a \in Senders \cup Threads : StartTransmit(a)
         \/ \E t \in Threads : WriteCompletes(t) \/ WriteFails(t) \/ ResetSending(t)
  PROVE  FlagType' /\ Link'
<1>1. PICK a \in Senders \cup Threads,
           from \in {"idle", "append", "start", "run", "reset"},
           to \in {"idle", "append", "start", "run", "reset", "close"} :
        /\ Goto(a, from, to) /\ UNCHANGED <<connection, server, peer>>
        /\ MaySend \/ writing \/ from \in {"append", "start", "reset"}
  <2>1. CASE \E s \in Senders : SendBuffer(s) \/ SendVector(s) \/ AppendVector(s)
    BY <2>1 DEF SendBuffer, SendVector, AppendVector
  <2>2. CASE \E a \in Senders \cup Threads : StartTransmit(a)
    BY <2>2 DEF StartTransmit, Home
  <2>3. CASE \E t \in Threads : WriteCompletes(t) \/ WriteFails(t) \/ ResetSending(t)
    BY <2>3 DEF WriteCompletes, WriteFails, ResetSending, Takes
  <2> QED
    BY <2>1, <2>2, <2>3
<1>2. socket # "none"
  <2>1. CASE from \in {"append", "start", "reset"}
    <3>1. pc[a] = from
      BY <1>1 DEF Goto
    <3> QED
      BY <2>1, <3>1, BusyIsAccepted DEF Link
  <2>2. CASE MaySend
    BY <2>2 DEF MaySend
  <2>3. CASE writing
    BY <2>3 DEF Link, NothingBefore
  <2> QED
    BY <1>1, <2>1, <2>2, <2>3
<1> QED
  BY <1>1, <1>2, TransmissionKeepsLink

\* The steps of start() and stop() and of io_.run() leave the connection alone.
LEMMA MainKeepsLink ==
  ASSUME TypeOK, Link,
         Start \/ AssignThread \/ Stop \/ CloseAcceptor \/ Join \/ CreateThread
  PROVE  FlagType' /\ Link'
<1>1. /\ FlagType /\ PcType /\ \A s \in Senders : s # "main" /\ s # "first"
      /\ \A t \in Threads : t # "main"
      /\ pc \in [Actors -> Pcs] /\ "main" \in Actors /\ "first" \in Actors
      /\ Senders \subseteq Actors /\ Threads \subseteq Actors
  BY TypeParts, ActorFacts DEF PcType
<1>2. /\ \A s \in Senders : pc'[s] = pc[s]
      /\ \A t \in Threads : \/ pc'[t] = pc[t]
                            \/ CreateThread /\ t = "first" /\ pc[t] = "none" /\ pc'[t] = "run"
  <2>1. CASE CreateThread
    BY <1>1, <2>1 DEF CreateThread, Link, ThreadsMadeOnce
  <2>2. CASE ~CreateThread
    BY <1>1, <2>2 DEF Start, AssignThread, Stop, CloseAcceptor, Join, Goto
  <2> QED
    BY <2>1, <2>2
<1>3. \A place \in {"accepted", "deliver", "remove"} : At(place)' = At(place)
  <2>1. \A place \in {"accepted", "deliver", "remove"} :
          pc["main"] # place /\ pc'["main"] # place
    BY <1>1 DEF Start, AssignThread, Stop, CloseAcceptor, Join, CreateThread, Goto, PcType, MainPcs
  <2> QED
    BY <1>2, <2>1 DEF At, Actors
<1>4. UNCHANGED <<buffers, connection, peer>>
  BY DEF Start, AssignThread, Stop, CloseAcceptor, Join, CreateThread
<1>5. FlagType'
  BY <1>1, <1>4 DEF Start, AssignThread, Stop, CloseAcceptor, Join, CreateThread, FlagType,
     connection, server, Threads
<1>6. OneRead' /\ ClosedIsUnlisted'
  BY <1>3, <1>4 DEF connection, Link, OneRead, Receivers, ClosedIsUnlisted
<1>7. ThreadsMadeOnce'
  <2>1. CASE Start \/ Stop \/ CloseAcceptor \/ Join
    BY <1>1, <2>1 DEF Start, Stop, CloseAcceptor, Join, server, Goto, Link, ThreadsMadeOnce, Threads
  <2>2. CASE CreateThread
    BY <1>1, <2>2 DEF CreateThread, server, Link, ThreadsMadeOnce, Threads
  <2>3. CASE AssignThread
    BY <1>1, <2>3 DEF AssignThread, Goto, Link, ThreadsMadeOnce, Threads
  <2> QED
    BY <2>1, <2>2, <2>3
<1>8. NothingBefore'
  <2>1. accepting' \/ pc'["main"] = "none" => socket = "none"
    BY <1>1 DEF Start, AssignThread, Stop, CloseAcceptor, Join, CreateThread, server, Goto,
       Link, NothingBefore
  <2> QED
    BY <1>2, <1>4, <2>1 DEF connection, buffers, Link, NothingBefore
<1> QED
  BY <1>5, <1>6, <1>7, <1>8 DEF Link

\* A step of an I/O thread or of a call of close().
LEMMA ActorMove ==
  ASSUME TypeOK, Link, NEW a \in Senders \cup Threads,
         NEW from, NEW to \in {"run", "idle", "accepted", "deliver", "close", "remove", "done"},
         from # "none", Goto(a, from, to), UNCHANGED <<thread, stopped>>
  PROVE  /\ ThreadsMadeOnce' /\ FlagType /\ pc[a] = from /\ pc'[a] = to
         /\ pc'["main"] = pc["main"]
         /\ \A b \in Senders \cup Threads : b # a => pc'[b] = pc[b]
         /\ \A place : At(place)' = IF place = to THEN At(place) \cup {a} ELSE At(place) \ {a}
<1>1. /\ PcType /\ FlagType /\ a \in Actors /\ to \in Pcs /\ a # "main"
  BY TypeParts, ActorFacts DEF Pcs, SenderPcs, ThreadPcs
<1>2. /\ pc[a] = from /\ pc'[a] = to /\ \A b \in Actors \ {a} : pc'[b] = pc[b]
      /\ \A place : At(place)' = IF place = to THEN At(place) \cup {a} ELSE At(place) \ {a}
  BY <1>1, GotoIsLocal
<1>3. ThreadsMadeOnce'
  BY <1>1, <1>2, ActorFacts DEF Link, ThreadsMadeOnce
<1> QED
  BY <1>1, <1>2, <1>3, ActorFacts

\* The connection is accepted once, and nobody had to do with it before.
LEMMA AcceptLink ==
  ASSUME TypeOK, Link, NEW t \in Threads, Accept(t)
  PROVE  FlagType' /\ Link'
<1>1. Goto(t, "run", "accepted") /\ UNCHANGED <<thread, stopped>>
  BY DEF Accept, Takes
<1>2. /\ ThreadsMadeOnce' /\ FlagType /\ pc'[t] = "accepted" /\ pc[t] = "run"
      /\ pc'["main"] = pc["main"]
      /\ \A b \in Senders \cup Threads : b # t => pc'[b] = pc[b]
      /\ \A place : At(place)' = IF place = "accepted" THEN At(place) \cup {t}
                                                       ELSE At(place) \ {t}
  BY <1>1, ActorMove
<1>3. /\ socket = "none" /\ ~reading /\ Receivers = {}
  BY ActorFacts DEF Accept, Link, NothingBefore, Receivers, At, Actors, TypeOK, MainPcs
<1>4. pc["main"] # "none"
  BY <1>2, RunsIsStarted DEF Link
<1>5. FlagType'
  BY <1>2 DEF Accept, FlagType, Sockets
<1>6. OneRead' /\ ClosedIsUnlisted'
  BY <1>2, <1>3 DEF Accept, OneRead, Receivers, ClosedIsUnlisted
<1>7. NothingBefore'
  BY <1>2, <1>4 DEF Accept, NothingBefore
<1> QED
  BY <1>2, <1>5, <1>6, <1>7 DEF Link

\* A read that ends hands rxBlock_ to one handler, or to none.
LEMMA ReadLink ==
  ASSUME TypeOK, Link, NEW t \in Threads, ReadCompletes(t) \/ ReadFails(t)
  PROVE  FlagType' /\ Link'
<1>1. PICK to \in {"deliver", "close"} : Goto(t, "run", to) /\ UNCHANGED <<thread, stopped>>
  BY DEF ReadCompletes, ReadFails, Takes, server
<1>2. /\ ThreadsMadeOnce' /\ FlagType /\ pc'[t] = to /\ pc[t] = "run"
      /\ pc'["main"] = pc["main"]
      /\ \A b \in Senders \cup Threads : b # t => pc'[b] = pc[b]
      /\ \A place : At(place)' = IF place = to THEN At(place) \cup {t} ELSE At(place) \ {t}
  BY <1>1, ActorMove
<1>3. /\ socket # "none" /\ Receivers = {} /\ reading' = FALSE
      /\ UNCHANGED <<buffers, socket, listed, told, server, peer>>
  BY DEF ReadCompletes, ReadFails, Link, NothingBefore, OneRead
<1>4. FlagType'
  BY <1>2, <1>3 DEF FlagType, server
<1>5. OneRead'
  BY <1>2, <1>3 DEF OneRead, Receivers
<1>6. ClosedIsUnlisted'
  <2>1. t \notin At("remove") /\ At("remove")' = At("remove") \ {t}
    BY <1>2 DEF At
  <2> QED
    BY <1>3, <2>1 DEF Link, ClosedIsUnlisted
<1>7. NothingBefore'
  BY <1>2, <1>3 DEF server, Link, NothingBefore
<1> QED
  BY <1>2, <1>4, <1>5, <1>6, <1>7 DEF Link

\* close() shuts the socket down, and its caller is left to take it off the list.
LEMMA CloseLink ==
  ASSUME TypeOK, Link, NEW a \in Senders \cup Threads,
         (a \in Senders /\ Close(a)) \/ Shutdown(a) \/ Remove(a)
  PROVE  FlagType' /\ Link'
<1>1. PICK from \in {"idle", "close", "remove"}, to \in {"run", "idle", "close", "remove"} :
        /\ Goto(a, from, to) /\ UNCHANGED <<thread, stopped>>
        /\ from = "idle" => MayClose
  BY DEF Close, Shutdown, Remove, Home, server
<1>2. /\ ThreadsMadeOnce' /\ FlagType /\ pc'[a] = to /\ pc[a] = from
      /\ pc'["main"] = pc["main"]
      /\ \A b \in Senders \cup Threads : b # a => pc'[b] = pc[b]
      /\ \A place : At(place)' = IF place = to THEN At(place) \cup {a} ELSE At(place) \ {a}
  BY <1>1, ActorMove
<1>p. pc \in [Actors -> Pcs] /\ a \in Actors
  BY TypeParts, ActorFacts DEF PcType
<1>3. socket # "none"
  BY <1>1, <1>2, BusyIsAccepted DEF MayClose, Link
<1>4. UNCHANGED <<buffers, reading, server, peer>>
  BY DEF Close, Shutdown, Remove, connection
<1>5. FlagType' /\ socket' # "none"
  BY <1>2, <1>3, <1>4 DEF Close, Shutdown, Remove, FlagType, Sockets, connection, server
<1>6. OneRead'
  <2>1. a \notin At("accepted") /\ a \notin At("deliver")
    BY <1>2 DEF At
  <2>2. Receivers' = Receivers
    BY <1>2, <2>1 DEF Receivers
  <2> QED
    BY <1>4, <2>2 DEF Link, OneRead
<1>7. ClosedIsUnlisted'
  <2>1. CASE Remove(a)
    BY <2>1 DEF Remove, ClosedIsUnlisted
  <2>2. CASE Close(a)
    <3>1. At("remove")' = At("remove") /\ UNCHANGED connection
      BY <2>2, <1>2 DEF Close, At, Goto
    <3> QED
      BY <3>1 DEF connection, Link, ClosedIsUnlisted
  <2>3. CASE Shutdown(a) /\ socket # "closed"
    <3>1. a \in At("remove")'
      BY <2>3, <1>p DEF Shutdown, Goto, At
    <3> QED
      BY <3>1 DEF ClosedIsUnlisted
  <2>4. CASE Shutdown(a) /\ socket = "closed"
    <3>1. pc[a] = "close" /\ to = Home(a)
      BY <2>4, <1>2, <1>p DEF Shutdown, Goto
    <3>2. a \notin At("remove") /\ to # "remove"
      BY <3>1 DEF At, Home
    <3>3. At("remove")' = At("remove") /\ UNCHANGED <<listed, told>>
      BY <2>4, <1>2, <3>2 DEF Shutdown
    <3> QED
      BY <2>4, <3>3 DEF Shutdown, Link, ClosedIsUnlisted
  <2> QED
    BY <2>1, <2>2, <2>3, <2>4
<1>8. NothingBefore'
  BY <1>2, <1>3, <1>4, <1>5 DEF server, Link, NothingBefore
<1> QED
  BY <1>2, <1>5, <1>6, <1>7, <1>8 DEF Link

\* A handler that ends io_.run()'s turn may make the second thread.
LEMMA WorkerLink ==
  ASSUME TypeOK, Link, NEW t \in Threads,
         AcceptFails(t) \/ StartReceive(t) \/ Receive(t)
  PROVE  FlagType' /\ Link'
<1>1. PICK from \in {"run", "accepted", "deliver"} :
        /\ StartWorker(t, from)
        /\ AcceptFails(t) => from = "run"
        /\ ~AcceptFails(t) => from \in {"accepted", "deliver"}
  BY DEF AcceptFails, StartReceive, Receive
<1>2. /\ PcType' /\ PcType /\ FlagType /\ pc[t] = from /\ pc'[t] = "run" /\ t # "main"
      /\ thread' \in {thread, "second"} /\ thread' # "none"
      /\ \A b \in Actors \ {t} :
           pc'[b] = pc[b] \/ (pc[b] = "none" /\ pc'[b] = "run" /\ b = "second")
      /\ \A place : place \notin {"none", "run"} => At(place)' = At(place) \ {t}
  BY <1>1, StartWorkerIsLocal, TypeParts, ActorFacts DEF Link
<1>3. pc["main"] \notin {"none", "create"}
  BY <1>1, <1>2, RunsIsStarted DEF Link
<1>4. UNCHANGED <<buffers, socket, listed, told, accepting, stopped, peer>>
  BY DEF AcceptFails, StartReceive, Receive, connection
<1>5. AcceptFails(t) \/ (t \in Receivers /\ reading' = TRUE)
  BY <1>1, <1>2, ActorFacts DEF StartReceive, Receive, Receivers, At
<1>6. AcceptFails(t) => UNCHANGED reading /\ t \notin Receivers
  BY <1>1, <1>2 DEF AcceptFails, connection, Receivers, At
<1>7. FlagType'
  BY <1>2, <1>4, <1>5, <1>6, ActorFacts DEF FlagType
<1>8. Receivers' = Receivers \ {t} /\ At("remove")' = At("remove")
  <2>1. t \notin At("remove")
    BY <1>2 DEF At
  <2> QED
    BY <1>2, <2>1 DEF Receivers
<1>9. OneRead'
  BY <1>5, <1>6, <1>8 DEF Link, OneRead
<1>10. ClosedIsUnlisted'
  BY <1>4, <1>8 DEF Link, ClosedIsUnlisted
<1>m. pc'["main"] = pc["main"] /\ \A s \in Senders : pc'[s] = pc[s]
  BY <1>2, ActorFacts
<1>11. ThreadsMadeOnce'
  BY <1>2, <1>3, <1>m DEF ThreadsMadeOnce
<1>12. NothingBefore'
  <2>1. accepting' \/ pc'["main"] = "none" => socket' = "none"
    BY <1>4, <1>m DEF Link, NothingBefore
  <2>2. CASE socket = "none"
    <3>1. AcceptFails(t)
      BY <1>1, <1>2, <2>2, BusyIsAccepted DEF Link
    <3>2. \A b \in Threads : pc'[b] \in {"none", "run", "done"}
      BY <1>2, <2>2, ActorFacts DEF Link, NothingBefore
    <3> QED
      BY <1>4, <1>6, <1>m, <2>1, <2>2, <3>1, <3>2 DEF buffers, Link, NothingBefore
  <2>3. CASE socket # "none"
    BY <1>4, <2>1, <2>3 DEF NothingBefore
  <2> QED
    BY <2>2, <2>3
<1> QED
  BY <1>7, <1>9, <1>10, <1>11, <1>12 DEF Link

\* A thread that leaves io_.run() holds nothing of the connection.
LEMMA WorkerEndsLink ==
  ASSUME TypeOK, Link, NEW t \in Threads, WorkerEnds(t)
  PROVE  FlagType' /\ Link'
<1>1. Goto(t, "run", "done") /\ UNCHANGED <<buffers, connection, server, peer, thread, stopped>>
  BY DEF WorkerEnds, server
<1>2. /\ ThreadsMadeOnce' /\ FlagType /\ pc'[t] = "done" /\ pc[t] = "run"
      /\ pc'["main"] = pc["main"]
      /\ \A b \in Senders \cup Threads : b # t => pc'[b] = pc[b]
      /\ \A place : At(place)' = IF place = "done" THEN At(place) \cup {t} ELSE At(place) \ {t}
  BY <1>1, ActorMove
<1>3. \A place \in {"accepted", "deliver", "remove"} : At(place)' = At(place)
  <2>1. t \notin At("accepted") /\ t \notin At("deliver") /\ t \notin At("remove")
    BY <1>2 DEF At
  <2> QED
    BY <1>2, <2>1
<1>4. FlagType'
  BY <1>1, <1>2 DEF connection, server, FlagType
<1>5. OneRead' /\ ClosedIsUnlisted'
  BY <1>1, <1>3 DEF connection, Link, OneRead, Receivers, ClosedIsUnlisted
<1>6. NothingBefore'
  BY <1>1, <1>2 DEF buffers, connection, server, Link, NothingBefore
<1> QED
  BY <1>2, <1>4, <1>5, <1>6 DEF Link

\* Every step keeps the connection and the threads in order.
LEMMA LinkStep ==
  ASSUME TypeOK, OneWrite, Link, [Next]_vars
  PROVE  FlagType' /\ Link'
<1>1. CASE \/ \E s \in Senders : SendBuffer(s) \/ SendVector(s) \/ AppendVector(s)
           \/ \E a \in Senders \cup Threads : StartTransmit(a)
           \/ \E t \in Threads : WriteCompletes(t) \/ WriteFails(t) \/ ResetSending(t)
  BY <1>1, SendLinkStep
<1>2. CASE Start \/ AssignThread \/ Stop \/ CloseAcceptor \/ Join \/ CreateThread
  BY <1>2, MainKeepsLink
<1>3. CASE \E t \in Threads : \/ Accept(t) \/ ReadCompletes(t) \/ ReadFails(t) \/ WorkerEnds(t)
                              \/ AcceptFails(t) \/ StartReceive(t) \/ Receive(t)
  BY <1>3, AcceptLink, ReadLink, WorkerEndsLink, WorkerLink
<1>4. CASE \/ \E s \in Senders : Close(s)
           \/ \E a \in Senders \cup Threads : Shutdown(a) \/ Remove(a)
  BY <1>4, CloseLink
<1>5. CASE PeerGoes \/ UNCHANGED vars
  <2>1. FlagType /\ UNCHANGED <<buffers, connection, server, pc>> /\ peer' \in BOOLEAN
    BY <1>5, TypeParts DEF PeerGoes, vars, FlagType
  <2> QED
    BY <2>1 DEF buffers, connection, server, FlagType, Link, OneRead, Receivers, At,
       ClosedIsUnlisted, NothingBefore, ThreadsMadeOnce
<1> QED
  BY <1>1, <1>2, <1>3, <1>4, <1>5 DEF Next, MainStep, SenderStep, HandlerStep, Continue,
     WriteEnds, ReadEnds

-----------------------------------------------------------------------------
(* The theorems.                                                           *)

\* Before start() there is neither a thread nor a connection.
LEMMA InitIInv == Init => IInv
<1> SUFFICES ASSUME Init PROVE IInv
  OBVIOUS
<1>p. /\ pc \in [Actors -> Pcs] /\ \A a \in Actors : pc[a] \in {"idle", "none"}
      /\ \A s \in Senders : pc[s] = "idle"
      /\ \A t \in Threads : pc[t] = "none"
      /\ pc["main"] = "none"
  BY ActorFacts DEF Init, Pcs, SenderPcs, ThreadPcs
<1>1. TypeOK
  <2>1. <<>> \in Seq(Bytes) /\ Len(<<>>) = 0 /\ 0 \in 0..0
    BY EmptySeq
  <2>2. DataType
    BY <2>1 DEF Init, DataType
  <2>3. FlagType
    BY DEF Init, FlagType, Sockets
  <2>4. PcType
    BY <1>p DEF PcType, SenderPcs, ThreadPcs, MainPcs
  <2> QED
    BY <2>2, <2>3, <2>4, TypeParts
<1>2. \A place \in {"reset", "start", "accepted", "deliver", "remove"} : At(place) = {}
  BY <1>p DEF At
<1>3. Pipeline
  <2>1. (<<>> \o <<>>) \o <<>> = <<>>
    BY ConcatEmptySeq, EmptySeq
  <2> QED
    BY <2>1 DEF Init, Pipeline, InFlight
<1>4. OneWrite /\ NothingForgotten /\ OneRead /\ ClosedIsUnlisted
  BY <1>2 DEF Init, OneWrite, NothingForgotten, OneRead, Receivers, ClosedIsUnlisted
<1>5. NothingBefore /\ ThreadsMadeOnce
  BY <1>p, ActorFacts DEF Init, NothingBefore, ThreadsMadeOnce
<1> QED
  BY <1>1, <1>3, <1>4, <1>5 DEF IInv

\* Every step keeps the invariant.
LEMMA NextIInv == IInv /\ [Next]_vars => IInv'
<1> SUFFICES ASSUME IInv, [Next]_vars PROVE IInv'
  OBVIOUS
<1>1. TypeOK /\ Transmission /\ Link
  BY DEF IInv, Transmission, Link
<1>2. DataType' /\ PcType' /\ Transmission'
  BY <1>1, TransmissionStep DEF Link
<1>3. FlagType' /\ Link'
  BY <1>1, LinkStep DEF Transmission
<1>4. TypeOK'
  BY <1>2, <1>3, TypeParts, PTL
<1> QED
  BY <1>2, <1>3, <1>4 DEF IInv, Transmission, Link

\* Types, the stream in its buffers, one write and one read at a time, no byte
\* forgotten and closed connections off the list: in every reachable state,
\* for any senders and messages.
THEOREM ServerIsSound == Spec => []IInv
  BY InitIInv, NextIInv, PTL DEF Spec

\* What the socket was given is a prefix of what send() accepted.
LEMMA WrittenIsPrefix ==
  ASSUME IInv
  PROVE  /\ Len(written) \in 0..Len(sent) /\ written = SubSeq(sent, 1, Len(written))
         /\ written \in Seq(Bytes)
<1>1. written \in Seq(Bytes) /\ txBuffer \in Seq(Bytes)
  BY DEF IInv, TypeOK
<1>2. InFlight \in Seq(Bytes)
  BY InFlightIsSeq DEF IInv
<1> DEFINE f == InFlight
<1>3. sent = (written \o f) \o txBuffer /\ f \in Seq(Bytes)
  BY <1>2 DEF IInv, Pipeline
<1> HIDE DEF f
<1> QED
  BY <1>1, <1>3, FirstIsPrefix

\* What a write is under way with was accepted by send(), in this order and
\* once: every step of a connection is a step of the byte stream or does not
\* concern it.
THEOREM ServerStream == Spec => ImplementsStream
<1>1. Init => Stream!Init
  BY DEF Init, Stream!Init
<1> DEFINE Prefix == Len(written) \in 0..Len(sent) /\ written = SubSeq(sent, 1, Len(written))
<1>p. IInv => Prefix
  BY WrittenIsPrefix
<1>q. IInv' => Prefix'
  BY <1>p, PTL
<1>2. IInv /\ IInv' /\ [Next]_vars => [Stream!Next]_(Stream!vars)
  <2> SUFFICES ASSUME IInv, IInv', [Next]_vars,
                      ~(UNCHANGED <<sent, written>>)
               PROVE  Stream!Next
    BY DEF Stream!vars
  <2>1. CASE \E m \in Messages : Accepted(m) /\ UNCHANGED written
    BY <2>1 DEF Accepted, Stream!Next, Stream!Send
  <2>2. CASE \E s \in Senders : AppendVector(s)
    <3>1. PICK s \in Senders : sent' = sent \o message[s] /\ written' = written
      BY <2>2 DEF AppendVector, Accepted
    <3>2. message[s] \in Messages \/ message[s] = <<>>
      BY DEF IInv, TypeOK
    <3>3. message[s] = <<>> => sent' = sent
      BY <3>1, ConcatEmptySeq DEF IInv, TypeOK
    <3> QED
      BY <3>1, <3>2, <3>3 DEF Stream!Next, Stream!Send
  <2>3. CASE \E t \in Threads : WriteCompletes(t)
    <3>0. PICK t \in Threads : WriteCompletes(t)
      BY <2>3
    <3>1. sent' = sent /\ Len(written') \in 0..Len(sent)
          /\ written' = SubSeq(sent, 1, Len(written'))
      <4>1. Len(written') \in 0..Len(sent') /\ written' = SubSeq(sent', 1, Len(written'))
        BY <1>q
      <4>2. sent' = sent
        BY <3>0 DEF WriteCompletes
      <4> QED
        BY <4>1, <4>2
    <3>2. Len(written') > Len(written)
      <4>1. PICK n \in 1..(Len(transferring) - transferred) :
              written' = written \o SubSeq(transferring, transferred + 1, transferred + n)
        BY <3>0 DEF WriteCompletes
      <4>2. /\ transferring \in Seq(Bytes) /\ written \in Seq(Bytes)
            /\ transferred \in 0..Len(transferring) /\ Len(transferring) \in Nat
        BY LenProperties DEF IInv, TypeOK
      <4>3. /\ SubSeq(transferring, transferred + 1, transferred + n) \in Seq(Bytes)
            /\ Len(SubSeq(transferring, transferred + 1, transferred + n)) = n
        <5>1. \A i \in transferred + 1..transferred + n : transferring[i] \in Bytes
          BY <4>1, <4>2, ElementOfSeq
        <5>2. transferred + 1 \in Int /\ transferred + n \in Int
              /\ transferred + 1 <= transferred + n
              /\ (transferred + n) - (transferred + 1) + 1 = n
          BY <4>1, <4>2
        <5> QED
          BY <5>1, <5>2, SubSeqProperties
      <4> DEFINE taken == SubSeq(transferring, transferred + 1, transferred + n)
      <4> HIDE DEF taken
      <4>4. Len(written \o taken) = Len(written) + Len(taken) /\ Len(written) \in Nat
        BY <4>2, <4>3, ConcatProperties, LenProperties DEF taken
      <4> QED
        BY <4>1, <4>3, <4>4 DEF taken
    <3>3. Len(written') \in (Len(written) + 1)..Len(sent)
      <4>1. Len(written) \in Nat /\ Len(sent) \in Nat
        BY LenProperties DEF IInv, TypeOK
      <4> QED
        BY <3>1, <3>2, <4>1
    <3> QED
      BY <3>1, <3>3 DEF Stream!Next, Stream!Write
  <2>4. CASE /\ ~\E t \in Threads : WriteCompletes(t)
             /\ ~\E s \in Senders : AppendVector(s)
             /\ ~\E m \in Messages : Accepted(m) /\ UNCHANGED written
    <3>1. UNCHANGED <<sent, written>>
      BY <2>4 DEF Next, MainStep, SenderStep, HandlerStep, Continue, WriteEnds, ReadEnds,
         buffers, vars, Start, Stop, CreateThread, AssignThread, CloseAcceptor, Join, PeerGoes,
         SendBuffer, SendVector, Close, Accept, AcceptFails, ReadCompletes, ReadFails,
         WriteFails, ResetSending, StartReceive, Receive, StartTransmit, Shutdown, Remove,
         WorkerEnds
    <3> QED
      BY <3>1
  <2> QED
    BY <2>1, <2>2, <2>3, <2>4
<1> QED
  BY <1>1, <1>2, ServerIsSound, PTL DEF Spec, ImplementsStream, Stream!Spec
=============================================================================

--------------------------- MODULE LaserScanProofs --------------------------
(***************************************************************************)
(* The way of a laser scan uses the topic as ShmTopic describes it, and    *)
(* what a reader is given through it is one whole scan, and never one from *)
(* before a scan it was given, whatever comes and goes or fails meanwhile. *)
(***************************************************************************)
EXTENDS LaserScan, ShmTopicProofs

\* Every step is one of the topic, or leaves the topic alone.
LEMMA LaserStep == LaserNext => [Next]_vars
<1>1. ScanCallback => [Next]_vars
  <2> SUFFICES ASSUME ScanCallback PROVE [Next]_vars
    OBVIOUS
  <2>1. Publish \/ PublishRefused \/ PublishThrows \/ UNCHANGED vars
    BY DEF ScanCallback, PublishScan
  <2> QED
    BY <2>1 DEF Next
<1>2. Elsewhere \/ NodeEnds => [Next]_vars
  BY DEF Elsewhere, NodeEnds
<1>3. ReaderProcess => [Next]_vars
  BY DEF ReaderProcess, Next
<1> QED
  BY <1>1, <1>2, <1>3 DEF LaserNext

\* So what is true of a topic is true of the one scans go to.
LEMMA LaserIsTopic == LaserSpec => Spec
<1>1. LaserInit => Init
  BY DEF LaserInit
<1>2. [LaserNext]_<<vars, laserVars>> => [Next]_vars
  BY LaserStep
<1> QED
  BY <1>1, <1>2, PTL DEF LaserSpec, Spec

\* The invariant of a topic holds, too.
LEMMA LaserKeepsTopic == LaserSpec => []OK
<1>1. OK /\ [LaserNext]_<<vars, laserVars>> => OK'
  BY LaserStep, NextOK
<1>2. LaserInit => OK
  BY InitOK DEF LaserInit
<1> QED
  BY <1>1, <1>2, PTL DEF LaserSpec

-----------------------------------------------------------------------------
(* The topic of one message.                                               *)

Scan == [stamp : Nat, points : SUBSET Nat]

\* The message is the one of the scans that has its time stamp.
IsScan(msg, scans) == msg.stamp \in 1..Len(scans) /\ msg.points = scans[msg.stamp]

\* The payload of the one message is that of the publish call it has its number from.
HoldsOne ==
  messages # <<>> =>
    messages[1].seq \in 1..lastSeq /\ payload[messages[1].handle] = messages[1].seq

\* Readers have been given at most one message each, and none that is newer
\* than the one that is there.
GivenOne ==
  \A r \in Readers : reply[r] # <<>> =>
    /\ messages # <<>> /\ Len(reply[r]) = 1
    /\ reply[r][1] \in Nat \ {0} /\ reply[r][1] <= messages[1].seq

\* Publish calls have never gone back to an earlier scan.
Ordered ==
  /\ \A m, n \in 1..lastSeq : m <= n => content[m].stamp <= content[n].stamp
  /\ \A n \in 1..lastSeq : content[n].stamp <= laserScanMsg.stamp
  /\ laserScanMsg.stamp <= Len(deviceScans)

(***************************************************************************)
(* The inductive invariant: once there is a topic the message in hand is   *)
(* a scan, so is whatever publish calls were made with, in the order of    *)
(* the scans, and the topic holds the message of one such call, which is   *)
(* not older than what readers have been given.                            *)
(***************************************************************************)
LaserInv ==
  /\ deviceScans \in Seq(SUBSET Nat) /\ content \in Seq(Scan) /\ laserScanMsg \in Scan
  /\ Len(content) = lastSeq
  /\ topicLaserScan => IsScan(laserScanMsg, deviceScans)
  /\ \A n \in 1..lastSeq : IsScan(content[n], deviceScans)
  /\ Ordered
  /\ HoldsOne
  /\ GivenOne
  /\ reply \in [Readers -> Seq(Nat)]

\* What a publish call leaves in a topic of one message.
LEMMA PublishReplaces ==
  ASSUME OK, Publish
  PROVE  /\ lastSeq' = lastSeq + 1 /\ reply' = reply
         /\ messages' # <<>> /\ messages'[1].seq = lastSeq + 1
         /\ payload'[messages'[1].handle] = lastSeq + 1
<1>1. Singleton
  BY LaserAssumption
<1>2. ASSUME NEW q, Published(q)
      PROVE  /\ messages' = q.messages /\ payload' = q.payload
             /\ lastSeq' = lastSeq + 1 /\ reply' = reply
  <2>1. PICK gone \in Expired :
          LET left == subscriptions \ gone
              rest == [q EXCEPT !.allocated = @ \ gone]
          IN  Commit(IF gone = {} THEN q ELSE Retire(rest, left, subData))
    BY <1>2 DEF Published
  <2>2. CASE gone = {}
    BY <1>2, <2>1, <2>2 DEF Published, Commit
  <2>3. CASE gone # {}
    BY <1>1, <1>2, <2>1, <2>3 DEF Published, Commit, Retire
  <2> QED
    BY <2>2, <2>3
<1>3. /\ messages \in Seq(Message) /\ payload \in [Handles -> Nat] /\ lastSeq \in Nat
  BY StoreFields DEF OK, StoreOK, StoreType, InOrder, Others
<1>4. CASE InPlace
  <2> DEFINE h == messages[1].handle
             e == [handle |-> h, seq |-> lastSeq + 1]
             ms == [messages EXCEPT ![1] = e]
  <2>1. 1 \in 1..Len(messages)
    BY <1>3, <1>4, EmptySeq DEF InPlace
  <2>2. h \in Handles
    <3>1. messages[1] \in Message
      BY <1>3, <2>1, ElementOfSeq
    <3> QED
      BY <3>1 DEF Message
  <2>3. ms[1].handle = h /\ ms[1].seq = lastSeq + 1 /\ ms # <<>>
    BY <1>3, <2>1
  <2>4. /\ messages' = ms /\ payload' = [payload EXCEPT ![h] = lastSeq + 1]
        /\ lastSeq' = lastSeq + 1 /\ reply' = reply
    <3>1. Published([messages |-> ms, bin |-> recycleBin,
                     payload |-> [payload EXCEPT ![h] = lastSeq + 1],
                     allocated |-> allocated])
      BY <1>4 DEF Publish, PublishInPlace
    <3> HIDE DEF ms, h
    <3> QED
      BY <1>2, <3>1
  <2> QED
    BY <1>3, <2>2, <2>3, <2>4
<1>5. CASE ~InPlace
  <2>1. PICK h \in PayloadHandles :
          Published([MakeRoom(Take(h)) EXCEPT
                       !.messages = Append(@, [handle |-> h, seq |-> lastSeq + 1])])
    BY <1>5 DEF Publish, PublishNew
  <2> DEFINE room == MakeRoom(Take(h))
             e == [handle |-> h, seq |-> lastSeq + 1]
             q == [room EXCEPT !.messages = Append(@, e)]
  <2>2. /\ h \in Handles /\ Take(h).messages = <<>>
        /\ StoreOK(Take(h), subscriptions \cup {h}, lastSeq)
    BY <1>1, <1>5, TakeOK DEF InPlace
  <2>3. Take(h).payload[h] = lastSeq + 1
    BY <1>3, <2>2 DEF Take
  <2>4. room = RetireFirst(Take(h), 0)
    BY <2>2, ShmTopicAssumption DEF MakeRoom
  <2>5. StoreOK(room, subscriptions \cup {h}, lastSeq) /\ room.messages = <<>>
    BY <1>3, <2>2, MakeRoomOK
  <2> HIDE DEF room
  <2>6. room.payload[h] = lastSeq + 1
    <3>1. Faithful(Take(h)) /\ 0 \in 0..Len(Take(h).messages)
      BY <2>2 DEF Faithful
    <3>2. \A x \in subscriptions \cup {h} :
            RetireFirst(Take(h), 0).payload[x] = Take(h).payload[x]
      BY <2>2, <3>1, RetireFirstFaithful
    <3> QED
      BY <2>3, <2>4, <3>2
  <2>7. q.messages = Append(<<>>, e) /\ q.payload = room.payload
    BY <2>5 DEF StoreOK, StoreType
  <2>8. messages' = <<e>> /\ payload' = room.payload /\ lastSeq' = lastSeq + 1 /\ reply' = reply
    <3>1. Published(q)
      BY <2>1 DEF room
    <3>2. Append(<<>>, e) = <<e>>
      OBVIOUS
    <3> HIDE DEF q, e
    <3> QED
      BY <1>2, <2>7, <3>1, <3>2
  <2> QED
    BY <2>6, <2>8
<1> QED
  BY <1>4, <1>5

\* A publish call that fails takes a number and leaves the message as it is.
LEMMA PublishLeaves ==
  ASSUME OK, PublishRefused \/ (PublishThrows /\ (InPlace => UNCHANGED payload))
  PROVE  /\ lastSeq' = lastSeq + 1 /\ reply' = reply /\ messages' = messages
         /\ messages # <<>> => payload' = payload
<1>1. Singleton
  BY LaserAssumption
<1>2. CASE PublishRefused
  BY <1>2 DEF PublishRefused
<1>3. CASE PublishThrows /\ (InPlace => UNCHANGED payload)
  <2>1. lastSeq' = lastSeq + 1 /\ reply' = reply
    BY <1>3 DEF PublishThrows
  <2>2. CASE InPlace
    <3>1. PICK left \in {payload[messages[1].handle], Garbage} :
            Commit([Store EXCEPT !.payload = [@ EXCEPT ![messages[1].handle] = left]])
      BY <1>3, <2>2 DEF PublishThrows
    <3>2. messages' = messages
      BY <3>1 DEF Commit, Store
    <3> QED
      BY <1>3, <2>1, <2>2, <3>2
  <2>3. CASE ~InPlace
    <3>1. PICK h \in PayloadHandles : Commit(Take(h)) \/ Commit(MakeRoom(Take(h)))
      BY <1>3, <2>3 DEF PublishThrows
    <3>2. messages = <<>> /\ Take(h).messages = <<>>
      BY <1>1, <2>3 DEF InPlace, Take
    <3>3. StoreOK(Take(h), subscriptions \cup {h}, lastSeq) /\ lastSeq \in Nat
      BY TakeOK DEF OK, Others
    <3>4. MakeRoom(Take(h)).messages = <<>>
      BY <3>2, <3>3, MakeRoomOK
    <3>5. messages' = <<>>
      BY <3>1, <3>2, <3>4 DEF Commit
    <3> QED
      BY <2>1, <3>2, <3>5
  <2> QED
    BY <2>2, <2>3
<1> QED
  BY <1>2, <1>3

\* A scan stays one as more come in.
LEMMA ScansStay ==
  ASSUME NEW msg, NEW scans \in Seq(SUBSET Nat), IsScan(msg, scans), NEW points \in SUBSET Nat
  PROVE  IsScan(msg, Append(scans, points))
<1> DEFINE more == Append(scans, points)
<1>1. /\ Len(more) = Len(scans) + 1 /\ Len(scans) \in Nat
      /\ \A i \in 1..Len(scans) : more[i] = scans[i]
  BY AppendProperties, LenProperties
<1> QED
  BY <1>1 DEF IsScan

\* The callback of a scan.
LEMMA ScanKeeps ==
  ASSUME OK, LaserInv, ScanCallback
  PROVE  /\ LaserInv' /\ reply' = reply /\ lastSeq <= lastSeq'
         /\ \A n \in 1..lastSeq : content'[n] = content[n]
<1>1. PICK count \in 0..(MaxRanges + 1), ranges \in [1..MaxRanges -> BOOLEAN],
           made \in BOOLEAN :
        LET points == InRange(count, ranges)
            msg == MessageFor(points)
            topic == GetOrCreateTopic(made)
        IN  /\ topicLaserScan' = topic /\ laserScanMsg' = msg
            /\ deviceScans' = Append(deviceScans, points)
            /\ IF topic THEN PublishScan(msg) ELSE UNCHANGED <<vars, content, ended>>
  BY DEF ScanCallback
<1> DEFINE points == InRange(count, ranges)
           msg == MessageFor(points)
           topic == GetOrCreateTopic(made)
           N == Len(deviceScans)
<1>2. /\ topicLaserScan' = topic /\ laserScanMsg' = msg
      /\ deviceScans' = Append(deviceScans, points)
      /\ topic => PublishScan(msg)
      /\ ~topic => UNCHANGED <<vars, content>>
  BY <1>1
<1>3. points \in SUBSET Nat /\ lastSeq \in Nat /\ MaxRanges \in Nat
  BY LaserAssumption DEF InRange, OK, Others
<1>4. topic <=> topicLaserScan \/ (EnsureTopic /\ made)
  BY DEF GetOrCreateTopic
<1>5. /\ EnsureTopic => msg = [stamp |-> N + 1, points |-> points]
      /\ ~EnsureTopic => msg = laserScanMsg
  BY DEF MessageFor, Filled
<1> HIDE DEF points, topic
<1>6. /\ deviceScans' \in Seq(SUBSET Nat) /\ Len(deviceScans') = N + 1 /\ N \in Nat
      /\ deviceScans'[N + 1] = points
  BY <1>2, <1>3, AppendProperties, LenProperties DEF LaserInv
<1>7. msg \in Scan
  BY <1>3, <1>5, <1>6 DEF Scan, LaserInv
<1> HIDE DEF N
<1>8. EnsureTopic => IsScan(msg, deviceScans')
  BY <1>2, <1>5, <1>6 DEF IsScan
<1>9. topic => IsScan(msg, deviceScans')
  <2>1. CASE EnsureTopic
    BY <1>8, <2>1
  <2>2. CASE ~EnsureTopic /\ topic
    <3>1. msg = laserScanMsg /\ IsScan(laserScanMsg, deviceScans)
      BY <1>4, <1>5, <2>2 DEF LaserInv
    <3> QED
      BY <1>2, <1>3, <3>1, ScansStay DEF LaserInv
  <2> QED
    BY <2>1, <2>2
<1>10. \A n \in 1..lastSeq : IsScan(content[n], deviceScans')
  BY <1>2, <1>3, ScansStay DEF LaserInv
<1>11. /\ laserScanMsg.stamp <= msg.stamp /\ msg.stamp <= N + 1
       /\ laserScanMsg.stamp \in Nat /\ msg.stamp \in Nat
  <2>1. laserScanMsg.stamp <= N /\ laserScanMsg.stamp \in Nat
    BY DEF LaserInv, Ordered, Scan, N
  <2> QED
    BY <1>5, <1>6, <2>1
<1>12. \A n \in 1..lastSeq : content[n].stamp \in Nat /\ content[n].stamp <= msg.stamp
  <2> SUFFICES ASSUME NEW n \in 1..lastSeq
               PROVE  content[n].stamp \in Nat /\ content[n].stamp <= msg.stamp
    OBVIOUS
  <2>1. content[n] \in Scan
    BY ElementOfSeq DEF LaserInv
  <2>2. content[n].stamp \in Nat /\ content[n].stamp <= laserScanMsg.stamp
    BY <2>1 DEF LaserInv, Ordered, Scan
  <2> QED
    BY <1>11, <2>2
<1> HIDE DEF msg
\* The call has taken a number.
<1>13. ASSUME topic, content' = Append(content, msg), lastSeq' = lastSeq + 1, reply' = reply,
              \/ messages' # <<>> /\ messages'[1].seq = lastSeq + 1
                 /\ payload'[messages'[1].handle] = lastSeq + 1
              \/ messages' = messages /\ (messages # <<>> => payload' = payload)
       PROVE  LaserInv' /\ \A n \in 1..lastSeq : content'[n] = content[n]
  <2>1. /\ content' \in Seq(Scan) /\ Len(content') = lastSeq + 1
        /\ content'[lastSeq + 1] = msg
        /\ \A n \in 1..lastSeq : content'[n] = content[n]
    BY <1>7, <1>13, AppendProperties DEF LaserInv
  <2>2. IsScan(msg, deviceScans') /\ laserScanMsg' = msg
    BY <1>2, <1>9, <1>13
  <2>3. \A n \in 1..lastSeq' : n \in 1..lastSeq \/ n = lastSeq + 1
    BY <1>3, <1>13
  <2>4. \A n \in 1..lastSeq' : IsScan(content'[n], deviceScans')
    BY <1>10, <2>1, <2>2, <2>3
  <2>5. Ordered'
    <3>1. \A n \in 1..lastSeq' : content'[n].stamp <= msg.stamp
      BY <1>11, <1>12, <2>1, <2>3
    <3>2. ASSUME NEW m \in 1..lastSeq', NEW n \in 1..lastSeq', m <= n
          PROVE  content'[m].stamp <= content'[n].stamp
      <4>1. CASE n = lastSeq + 1
        BY <2>1, <3>1, <4>1
      <4>2. CASE n \in 1..lastSeq
        <5>1. m \in 1..lastSeq
          BY <1>3, <1>13, <3>2, <4>2
        <5> QED
          BY <2>1, <3>2, <4>2, <5>1 DEF LaserInv, Ordered
      <4> QED
        BY <2>3, <4>1, <4>2
    <3> QED
      BY <1>6, <1>11, <2>2, <3>1, <3>2 DEF Ordered
  <2>6. HoldsOne'
    BY <1>3, <1>13 DEF HoldsOne, LaserInv
  <2>7. GivenOne'
    BY <1>3, <1>13 DEF GivenOne, HoldsOne, LaserInv
  <2> QED
    BY <1>2, <1>6, <1>7, <1>13, <2>1, <2>2, <2>4, <2>5, <2>6, <2>7 DEF LaserInv
\* No number was taken.
<1>14. ASSUME UNCHANGED <<vars, content>> PROVE LaserInv'
  <2>1. UNCHANGED <<messages, payload, lastSeq, reply, content>>
    BY <1>14 DEF vars
  <2>2. HoldsOne' /\ GivenOne'
    BY <2>1 DEF LaserInv, HoldsOne, GivenOne
  <2>3. Ordered'
    BY <1>2, <1>6, <1>11, <1>12, <2>1 DEF LaserInv, Ordered
  <2>4. topicLaserScan' => IsScan(laserScanMsg', deviceScans')
    BY <1>2, <1>9
  <2> QED
    BY <1>2, <1>6, <1>7, <1>10, <2>1, <2>2, <2>3, <2>4 DEF LaserInv
<1>15. CASE topic /\ ~UNCHANGED <<vars, content>>
  <2>1. /\ content' = Append(content, msg)
        /\ \/ Publish
           \/ PublishRefused \/ (PublishThrows /\ (InPlace => UNCHANGED payload))
    BY <1>2, <1>15 DEF PublishScan
  <2>2. CASE Publish
    <3>1. /\ lastSeq' = lastSeq + 1 /\ reply' = reply
          /\ messages' # <<>> /\ messages'[1].seq = lastSeq + 1
          /\ payload'[messages'[1].handle] = lastSeq + 1
      BY <2>2, PublishReplaces
    <3>2. LaserInv' /\ \A n \in 1..lastSeq : content'[n] = content[n]
      BY <1>13, <1>15, <2>1, <3>1
    <3> QED
      BY <1>3, <3>1, <3>2
  <2>3. CASE PublishRefused \/ (PublishThrows /\ (InPlace => UNCHANGED payload))
    <3>1. /\ lastSeq' = lastSeq + 1 /\ reply' = reply
          /\ messages' = messages /\ (messages # <<>> => payload' = payload)
      BY <2>3, PublishLeaves
    <3>2. LaserInv' /\ \A n \in 1..lastSeq : content'[n] = content[n]
      BY <1>13, <1>15, <2>1, <3>1
    <3> QED
      BY <1>3, <3>1, <3>2
  <2> QED
    BY <2>1, <2>2, <2>3
<1>16. CASE UNCHANGED <<vars, content>>
  BY <1>3, <1>14, <1>16 DEF vars
<1> QED
  BY <1>2, <1>15, <1>16

\* A reader takes nothing out of a topic of one message.
LEMMA ReaderKeeps ==
  ASSUME OK, LaserInv, UNCHANGED laserVars, NEW r \in Readers,
         \/ Subscribe(r) \/ SubscribeThrows(r) \/ Unsubscribe(r) \/ Abandon(r) \/ Reads(r)
  PROVE  /\ LaserInv' /\ lastSeq' = lastSeq /\ content' = content
         /\ \A s \in Readers : \/ reply'[s] = reply[s] \/ reply'[s] = <<>>
                               \/ reply'[s] = <<messages[1].seq>> /\ messages # <<>>
<1>1. Subscribe(r) \/ SubscribeThrows(r) \/ Unsubscribe(r) \/ Abandon(r) \/ Reads(r)
  OBVIOUS
<1>2. UNCHANGED laserVars /\ Singleton
  BY LaserAssumption
<1>3. /\ messages \in Seq(Message) /\ lastSeq \in Nat /\ Len(messages) <= 1
      /\ Len(messages) \in Nat
  BY <1>2, StoreFields, LenProperties DEF OK, StoreOK, InOrder, Others, Single
<1>4. UNCHANGED <<messages, payload, lastSeq>>
  BY <1>1, <1>2 DEF Subscribe, SubscribeThrows, Unsubscribe, Abandon, Reads, ReadLatest,
                    ReadNext, ReadAll, ReadAborts, Deliver, Retire, Commit, Store
<1>5. ASSUME NEW i, NEW j \in 1..Len(messages), i \in 1..j, Deliver(r, i, j)
      PROVE  reply' = [reply EXCEPT ![r] = <<messages[1].seq>>]
  <2>1. i = 1 /\ j = 1 /\ messages # <<>>
    <3> DEFINE N == Len(messages)
    <3>1. N \in Nat /\ N <= 1 /\ j \in 1..N /\ i \in 1..j
      BY <1>3, <1>5
    <3> HIDE DEF N
    <3>2. i = 1 /\ j = 1 /\ N # 0
      BY <3>1
    <3> QED
      BY <3>2 DEF N
  <2>2. [k \in 1..(j - i + 1) |-> payload[messages[i + k - 1].handle]] = <<messages[1].seq>>
    <3>1. payload[messages[1].handle] = messages[1].seq
      BY <2>1 DEF LaserInv, HoldsOne
    <3>2. \A k \in 1..1 : k = 1
      OBVIOUS
    <3> QED
      BY <2>1, <3>1, <3>2
  <2> QED
    BY <1>5, <2>2 DEF Deliver
<1>6. \/ reply' = reply \/ reply' = [reply EXCEPT ![r] = <<>>]
      \/ reply' = [reply EXCEPT ![r] = <<messages[1].seq>>] /\ messages # <<>>
  <2>1. CASE ReadLatest(r)
    <3>1. Deliver(r, Len(messages), Len(messages)) /\ messages # <<>>
      BY <2>1 DEF ReadLatest
    <3>2. Len(messages) \in 1..Len(messages)
      BY <1>3, <3>1, EmptySeq
    <3> QED
      BY <1>5, <3>1, <3>2
  <2>2. CASE ReadNext(r) \/ ReadAll(r)
    <3> DEFINE k == LookupNext(Last(r))
    <3>1. /\ k <= Len(messages) /\ LookupAsserts(Last(r))
          /\ Deliver(r, k, k) \/ Deliver(r, k, Len(messages))
      BY <2>2 DEF ReadNext, ReadAll
    <3>2. k \in 1..Len(messages)
      <4>1. Between(Last(r) + 1) => k \in 1..Len(messages)
        BY <3>1 DEF LookupAsserts
      <4>2. ~Between(Last(r) + 1) => k = 1 \/ k = Len(messages) + 1
        BY DEF LookupNext
      <4> HIDE DEF k
      <4> QED
        BY <1>3, <3>1, <4>1, <4>2
    <3>3. k \in 1..k /\ Len(messages) \in 1..Len(messages) /\ messages # <<>>
      BY <1>3, <3>2
    <3> HIDE DEF k
    <3> QED
      BY <1>5, <3>1, <3>2, <3>3
  <2> QED
    BY <1>1, <2>1, <2>2 DEF Subscribe, SubscribeThrows, Unsubscribe, Abandon, Reads, ReadAborts
<1>7. \A s \in Readers : \/ reply'[s] = reply[s] \/ reply'[s] = <<>>
                         \/ reply'[s] = <<messages[1].seq>> /\ messages # <<>>
  <2> SUFFICES ASSUME NEW s \in Readers
               PROVE  \/ reply'[s] = reply[s] \/ reply'[s] = <<>>
                      \/ reply'[s] = <<messages[1].seq>> /\ messages # <<>>
    OBVIOUS
  <2>1. CASE s # r
    BY <1>6, <2>1 DEF LaserInv
  <2>2. CASE s = r
    BY <1>6, <2>2 DEF LaserInv
  <2> QED
    BY <2>1, <2>2
<1>8. messages # <<>> => messages[1].seq \in Nat \ {0}
  BY <1>3 DEF LaserInv, HoldsOne
<1>9. GivenOne'
  <2> SUFFICES ASSUME NEW s \in Readers, reply'[s] # <<>>
               PROVE  /\ messages # <<>> /\ Len(reply'[s]) = 1
                      /\ reply'[s][1] \in Nat \ {0} /\ reply'[s][1] <= messages[1].seq
    BY <1>4 DEF GivenOne
  <2>1. CASE reply'[s] = reply[s]
    BY <2>1 DEF LaserInv, GivenOne
  <2>2. CASE reply'[s] = <<messages[1].seq>> /\ messages # <<>>
    BY <1>8, <2>2
  <2> QED
    BY <1>7, <2>1, <2>2
<1>10. reply' \in [Readers -> Seq(Nat)]
  <2>1. <<>> \in Seq(Nat) /\ (messages # <<>> => <<messages[1].seq>> \in Seq(Nat))
    BY <1>8
  <2> QED
    BY <1>6, <2>1 DEF LaserInv
<1>11. HoldsOne'
  BY <1>4 DEF LaserInv, HoldsOne
<1>12. Ordered'
  BY <1>2, <1>4 DEF LaserInv, Ordered, laserVars
<1> QED
  BY <1>2, <1>4, <1>7, <1>9, <1>10, <1>11, <1>12 DEF LaserInv, laserVars

\* Nor do several.
LEMMA ReadersKeep ==
  ASSUME OK, LaserInv, ReaderProcess
  PROVE  /\ LaserInv' /\ lastSeq' = lastSeq /\ content' = content
         /\ \A s \in Readers : \/ reply'[s] = reply[s] \/ reply'[s] = <<>>
                               \/ reply'[s] = <<messages[1].seq>> /\ messages # <<>>
<1>1. CASE ReadNothing
  <2>1. UNCHANGED <<vars, laserVars>>
    BY <1>1 DEF ReaderProcess, ReadNothing
  <2> QED
    BY <2>1 DEF vars, laserVars, LaserInv, HoldsOne, GivenOne, Ordered
<1>2. CASE \E r \in Readers : \/ Subscribe(r) \/ SubscribeThrows(r) \/ Unsubscribe(r)
                             \/ Abandon(r) \/ Reads(r)
  BY <1>2, ReaderKeeps DEF ReaderProcess
<1> QED
  BY <1>1, <1>2 DEF ReaderProcess

\* The inductive invariant holds in every reachable state.
LEMMA LaserInvariance == LaserSpec => []LaserInv
<1>1. LaserInit => LaserInv
  <2> SUFFICES ASSUME LaserInit PROVE LaserInv
    OBVIOUS
  <2>1. /\ deviceScans \in Seq(SUBSET Nat) /\ content \in Seq(Scan) /\ Len(content) = 0
        /\ Len(deviceScans) = 0
    BY DEF LaserInit
  <2>2. laserScanMsg \in Scan /\ laserScanMsg.stamp = 0
    BY DEF LaserInit, NoMessage, Scan
  <2>3. reply \in [Readers -> Seq(Nat)] /\ \A r \in Readers : reply[r] = <<>>
    BY DEF LaserInit, Init
  <2>4. lastSeq = 0 /\ messages = <<>> /\ ~topicLaserScan
    BY DEF LaserInit, Init
  <2> QED
    BY <2>1, <2>2, <2>3, <2>4 DEF LaserInv, HoldsOne, GivenOne, Ordered
<1>2. OK /\ LaserInv /\ [LaserNext]_<<vars, laserVars>> => LaserInv'
  <2> SUFFICES ASSUME OK, LaserInv, [LaserNext]_<<vars, laserVars>> PROVE LaserInv'
    OBVIOUS
  <2>1. ASSUME UNCHANGED <<vars, topicLaserScan, laserScanMsg, deviceScans, content>>
        PROVE  LaserInv'
    BY <2>1 DEF vars, LaserInv, HoldsOne, GivenOne, Ordered
  <2>2. CASE Elsewhere \/ NodeEnds
    BY <2>1, <2>2 DEF Elsewhere, NodeEnds
  <2>3. CASE UNCHANGED <<vars, laserVars>>
    BY <2>1, <2>3 DEF laserVars
  <2> QED
    BY <2>2, <2>3, ScanKeeps, ReadersKeep DEF LaserNext
<1> QED
  BY <1>1, <1>2, LaserKeepsTopic, PTL DEF LaserSpec

-----------------------------------------------------------------------------
(***************************************************************************)
(* A reader is given one whole scan (laserScanCallback_ fills and          *)
(* publishes one message object again and again): the points are those the *)
(* lidar device was given for the scan with this time stamp, for scans of  *)
(* any size, whatever readers, clients and the segment do meanwhile,       *)
(* whether or not subscriptions expire, publish calls return false or the  *)
(* segment runs out of memory.                                             *)
(***************************************************************************)
THEOREM ScansAreWhole == LaserSpec => []ReaderSeesOneScan
<1>1. OK /\ LaserInv => ReaderSeesOneScan
  <2> SUFFICES ASSUME OK, LaserInv, NEW r \in Readers, NEW k \in 1..Len(reply[r])
               PROVE  IsScan(content[reply[r][k]], deviceScans)
    BY DEF ReaderSeesOneScan, IsScan
  <2>1. lastSeq \in Nat /\ reply[r] # <<>>
    BY DEF OK, Others
  <2>2. /\ Len(reply[r]) = 1 /\ messages # <<>>
        /\ reply[r][1] \in Nat \ {0} /\ reply[r][1] <= messages[1].seq
    BY <2>1 DEF LaserInv, GivenOne
  <2>3. messages[1].seq \in 1..lastSeq
    BY <2>2 DEF LaserInv, HoldsOne
  <2>4. k = 1
    BY <2>2
  <2>5. reply[r][k] \in 1..lastSeq
    BY <2>1, <2>2, <2>3, <2>4
  <2> QED
    BY <2>5 DEF LaserInv
<1> QED
  BY <1>1, LaserInvariance, LaserKeepsTopic, PTL

(***************************************************************************)
(* A reader is never given a scan from before the last one it was given,   *)
(* though the node goes on after publish calls that failed, and publishes  *)
(* the message in hand again while scans are not shared.                   *)
(***************************************************************************)
THEOREM ScansComeInOrder == LaserSpec => ScansNeverGoBack
<1> DEFINE Forward == \A r \in Readers : reply[r] # <<>> /\ reply'[r] # <<>> =>
             content[reply[r][Len(reply[r])]].stamp <= content'[reply'[r][1]].stamp
<1>1. OK /\ LaserInv /\ [LaserNext]_<<vars, laserVars>> => [Forward]_<<vars, laserVars>>
  <2> SUFFICES ASSUME OK, LaserInv, LaserNext,
                      NEW r \in Readers, reply[r] # <<>>, reply'[r] # <<>>
               PROVE  content[reply[r][Len(reply[r])]].stamp <= content'[reply'[r][1]].stamp
    OBVIOUS
  <2> DEFINE n == reply[r][1]
  <2>1. /\ lastSeq \in Nat /\ Len(reply[r]) = 1 /\ messages # <<>>
        /\ n \in 1..lastSeq /\ n <= messages[1].seq /\ messages[1].seq \in 1..lastSeq
    BY DEF OK, Others, LaserInv, GivenOne, HoldsOne
  <2>2. content[n].stamp <= content[n].stamp /\ content[n].stamp <= content[messages[1].seq].stamp
    BY <2>1 DEF LaserInv, Ordered
  <2>3. CASE ScanCallback
    BY <2>1, <2>2, <2>3, ScanKeeps
  <2>4. CASE Elsewhere \/ NodeEnds
    BY <2>1, <2>2, <2>4 DEF Elsewhere, NodeEnds, vars
  <2>5. CASE ReaderProcess
    <3>1. content' = content /\ (reply'[r] = reply[r] \/ reply'[r] = <<messages[1].seq>>)
      BY <2>5, ReadersKeep
    <3> QED
      BY <2>1, <2>2, <3>1
  <2> QED
    BY <2>3, <2>4, <2>5 DEF LaserNext
<1> QED
  BY <1>1, LaserInvariance, LaserKeepsTopic, PTL DEF LaserSpec, ScansNeverGoBack

(***************************************************************************)
(* While allocation succeeds and subscriptions do not expire, the topic of *)
(* scans is a feed that keeps one message: each reader of it gets the last *)
(* one that could be published, at most once.                              *)
(***************************************************************************)
THEOREM ScansAreFed == ASSUME ~AllocFails, ~Limited PROVE LaserSpec => ImplementsFeed
  BY LaserIsTopic, ReadersAreFed, PTL
=============================================================================

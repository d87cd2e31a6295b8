------------------------------ MODULE LaserScan ------------------------------
(***************************************************************************)
(* The way of a laser scan through the bridge (laserScanCallback_): the    *)
(* points in range go to the lidar device and, while the SDK is connected  *)
(* and the segment is there, into the one message of a singleton topic,    *)
(* which other processes read at any time.                                 *)
(*                                                                         *)
(* A payload of ShmTopic is the number of a publish call, and content says *)
(* what the call has published.  A point stands for its index among the    *)
(* ranges of the scan, a scan's time stamp for its number.  The callback   *)
(* is one step: the message lies in the segment with its points (its       *)
(* vector uses the segment's allocator), but no other process has its      *)
(* handle.  Nothing catches an exception of the callback, so that the      *)
(* node's process ends with it; is the mutex held then, the others force   *)
(* it open in time (ShmLock).  The lidar device is external.               *)
(***************************************************************************)
EXTENDS ShmTopic

CONSTANTS
  ShmEnabled,    \* enable_shared_memory_
  MaxRanges      \* bound on the ranges of a scan

\* The topic is created with ShmTopicQosMessageSingleton.
ASSUME LaserAssumption == Singleton /\ ShmEnabled \in BOOLEAN /\ MaxRanges \in Nat \ {0}

VARIABLES
  clientConnected,   \* baseDevice_->isClientConnected()
  segmentValid,      \* what makeItValid would say
  topicLaserScan,    \* topicLaserScan_ is set
  laserScanMsg,      \* laserScanMsg_
  deviceScans,       \* history: the points the lidar device was given, per scan
  content,           \* history: the message of each publish call that took a number
  ended              \* the node's process has ended

laserVars == <<clientConnected, segmentValid, topicLaserScan, laserScanMsg,
               deviceScans, content, ended>>

NoMessage == [stamp |-> 0, points |-> {}]

LaserInit ==
  /\ Init
  /\ clientConnected = FALSE /\ segmentValid = FALSE
  /\ topicLaserScan = FALSE /\ laserScanMsg = NoMessage
  /\ deviceScans = <<>> /\ content = <<>> /\ ended = FALSE

-----------------------------------------------------------------------------
\* ensureSharedMemoryTopic_ returns true.
EnsureTopic == ShmEnabled /\ clientConnected /\ segmentValid

\* The points of a scan: the division gives count, anything where
\* time_increment is 0; a range may be out of bounds.
InRange(count, ranges) == {i \in 1..count : i <= Len(ranges) /\ ranges[i]}

\* Slip: payload.data is not cleared.
FilledUp(points) ==
  [stamp |-> Len(deviceScans) + 1, points |-> laserScanMsg.points \cup points]

Filled(points) == [stamp |-> Len(deviceScans) + 1, points |-> points]

\* Slip: what is not to be shared is still published, in a message made anew.
MessageForAnew(points) == IF EnsureTopic THEN Filled(points) ELSE NoMessage

\* The message in hand when the points have been gone through.
MessageFor(points) == IF EnsureTopic THEN Filled(points) ELSE laserScanMsg

\* publish() returns false without a lock, and without memory once it has
\* taken a number; the result is ignored.  A vector that must grow does so
\* before the points it holds are touched, so that bad_alloc leaves the scan
\* that was published before.
PublishScan(msg) ==
  \/ UNCHANGED <<vars, content, ended>>
  \/ /\ \/ (Publish \/ PublishRefused) /\ UNCHANGED ended
        \/ PublishThrows /\ (InPlace => UNCHANGED payload) /\ ended' = TRUE
     /\ content' = Append(content, msg)

\* getOrCreateTopic may fail (made is FALSE).
GetOrCreateTopic(made) == topicLaserScan \/ (EnsureTopic /\ made)

\* The message is filled also when there is no topic, and a topic that is there
\* is published to also when nothing was filled.
ScanCallback ==
  /\ ~ended /\ Len(deviceScans) < MaxPublish
  /\ \E count \in 0..(MaxRanges + 1), ranges \in [1..MaxRanges -> BOOLEAN], made \in BOOLEAN :
       LET points == InRange(count, ranges)
           msg == MessageFor(points)
           topic == GetOrCreateTopic(made)
       IN  /\ topicLaserScan' = topic /\ laserScanMsg' = msg
           /\ deviceScans' = Append(deviceScans, points)
           /\ IF topic THEN PublishScan(msg) ELSE UNCHANGED <<vars, content, ended>>
  /\ UNCHANGED <<clientConnected, segmentValid>>

\* The node's process is ended between two scans, or by bad_alloc while the
\* topic is made or the message filled.
NodeEnds ==
  /\ ~ended
  /\ ended' = TRUE
  /\ UNCHANGED <<vars, clientConnected, segmentValid, topicLaserScan, laserScanMsg,
                 deviceScans, content>>

\* The SDK's client comes and goes, and so does the segment.
Elsewhere ==
  /\ ~ended
  /\ \/ clientConnected' = ~clientConnected /\ UNCHANGED segmentValid
     \/ segmentValid' = ~segmentValid /\ UNCHANGED clientConnected
  /\ UNCHANGED <<vars, topicLaserScan, laserScanMsg, deviceScans, content, ended>>

\* A reader finds the topic by its name.
ReaderProcess ==
  /\ \/ \E r \in Readers \ aborted :
          Subscribe(r) \/ SubscribeThrows(r) \/ Unsubscribe(r) \/ Abandon(r) \/ Reads(r)
     \/ ReadNothing
  /\ UNCHANGED laserVars

LaserNext == ScanCallback \/ NodeEnds \/ Elsewhere \/ ReaderProcess

LaserSpec == LaserInit /\ [][LaserNext]_<<vars, laserVars>>

-----------------------------------------------------------------------------
(***************************************************************************)
(* What a reader is given is one scan, whole: the points the lidar device  *)
(* was given for the scan with this time stamp, though the one message is  *)
(* filled and overwritten again and again.                                 *)
(***************************************************************************)
ReaderSeesOneScan ==
  \A r \in Readers : \A k \in 1..Len(reply[r]) :
    LET msg == content[reply[r][k]]
    IN  msg.stamp \in 1..Len(deviceScans) /\ msg.points = deviceScans[msg.stamp]

(***************************************************************************)
(* A reader that has been given a scan is not given an earlier one after   *)
(* it, though publish calls fail and their results are ignored, numbers    *)
(* are taken for nothing, and an old message is published again while      *)
(* scans are not shared.                                                   *)
(***************************************************************************)
ScansNeverGoBack ==
  [][\A r \in Readers : reply[r] # <<>> /\ reply'[r] # <<>> =>
       content[reply[r][Len(reply[r])]].stamp <= content'[reply'[r][1]].stamp]_<<vars, laserVars>>
=============================================================================

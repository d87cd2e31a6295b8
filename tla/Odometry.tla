------------------------------ MODULE Odometry ------------------------------
(***************************************************************************)
(* The odometry path of Ros1Node: messages of the third-party base arrive  *)
(* on the ROS thread (odometryCallback_ or deadReckonCallback_, depending  *)
(* on the configuration) while the threads of the bridge server ask for    *)
(* the movement since last time (RosBaseDevice::getMovementEstimation,     *)
(* which ends in getDeadReckon).  poseDataLock_ makes each callback and    *)
(* the body of getDeadReckon atomic; initEstimationFlag_ is read before    *)
(* the lock is taken.                                                      *)
(*                                                                         *)
(* Message k carries time stamp k.  path records the pose of the base      *)
(* after each message and track what the client makes of the replies, so   *)
(* that the replies can be compared with what really happened.             *)
(***************************************************************************)
EXTENDS PlanarMotion, FiniteSets

CONSTANTS
  Callers,       \* server threads that call getMovementEstimation
  Poses,         \* poses an odometry message may carry
  Steps,         \* increments a dead-reckoning message may carry
  MaxMessages    \* bound on the messages received in a behaviour

ASSUME OdometryAssumption ==
  /\ Poses \subseteq Pose
  /\ Steps \subseteq Movement
  /\ MaxMessages \in Nat

VARIABLES
  accumulated,   \* RosNodeConfig::is_accumulated_odometry, read at start
  pose,          \* pose_
  prePose,       \* prePose_
  initFlag,      \* initEstimationFlag_
  deadreckon,    \* deadreckon_
  odomTimestamp, \* odomTimestamp_
  pc,            \* progress of each caller in getDeadReckon
  reply,         \* what the last getDeadReckon returned: movement and time stamp
  path,          \* history: pose of the base after message 1, 2, ...
  tracking,      \* history: a reply has been based on a received message
  track          \* history: the replies added up, from where tracking began

odometryVars == <<accumulated, pose, prePose, initFlag, deadreckon, odomTimestamp, pc, reply,
          path, tracking, track>>

Received == path # <<>>

\* The constructor leaves pose_, prePose_ and odomTimestamp_ uninitialised.
\* Dead reckoning starts from the pose of the base at startup, whatever it is.
OdometryInit ==
  /\ accumulated \in BOOLEAN
  /\ pose \in Poses
  /\ prePose \in Poses
  /\ initFlag = TRUE
  /\ deadreckon = <<>>
  /\ odomTimestamp \in 0..MaxMessages
  /\ pc = [c \in Callers |-> "idle"]
  /\ reply = [moved |-> Zero, stamp |-> 0]
  /\ path = <<>>
  /\ tracking = FALSE
  /\ track = Zero

-----------------------------------------------------------------------------
(* Callbacks.                                                              *)

OdometryCallback(p) ==
  /\ accumulated
  /\ Len(path) < MaxMessages
  /\ pose' = p
  /\ odomTimestamp' = Len(path) + 1
  /\ path' = Append(path, p)
  /\ UNCHANGED <<accumulated, prePose, initFlag, deadreckon, pc, reply, tracking, track>>

DeadReckonCallback(d) ==
  /\ ~accumulated
  /\ Len(path) < MaxMessages
  /\ deadreckon' = Append(deadreckon, d)
  /\ odomTimestamp' = Len(path) + 1
  /\ path' = Append(path, Moved(IF Received THEN Last(path) ELSE Zero, d))
  /\ UNCHANGED <<accumulated, pose, prePose, initFlag, pc, reply, tracking, track>>

-----------------------------------------------------------------------------
(* getDeadReckon.                                                          *)

\* The branch is chosen before the lock is taken.
GetDeadReckon(c) ==
  /\ pc[c] = "idle"
  /\ pc' = [pc EXCEPT ![c] = IF ~accumulated THEN "increments"
                              ELSE IF initFlag THEN "first" ELSE "difference"]
  /\ UNCHANGED <<accumulated, pose, prePose, initFlag, deadreckon, odomTimestamp,
                 reply, path, tracking, track>>

\* The caller gets movement m; the client adds it to its track.
Return(c, m) ==
  /\ pc' = [pc EXCEPT ![c] = "idle"]
  /\ reply' = [moved |-> m, stamp |-> odomTimestamp]
  /\ tracking' = (tracking \/ Received)
  /\ track' = IF tracking \/ ~accumulated THEN Moved(track, m)
              ELSE IF Received THEN pose ELSE track
  /\ UNCHANGED <<accumulated, pose, odomTimestamp, path>>

First(c) ==
  /\ pc[c] = "first"
  /\ initFlag' = FALSE
  /\ prePose' = pose
  /\ Return(c, Zero)
  /\ UNCHANGED deadreckon

\* Slip: the previous pose is not moved up.
DifferenceNoUpdate(c) ==
  /\ pc[c] = "difference"
  /\ Return(c, InverseTimes(prePose, pose))
  /\ UNCHANGED <<prePose, initFlag, deadreckon>>

Difference(c) ==
  /\ pc[c] = "difference"
  /\ Return(c, InverseTimes(prePose, pose))
  /\ prePose' = pose
  /\ UNCHANGED <<initFlag, deadreckon>>

Increments(c) ==
  /\ pc[c] = "increments"
  /\ Return(c, Accumulate(deadreckon))
  /\ deadreckon' = <<>>
  /\ UNCHANGED <<prePose, initFlag>>

OdometryNext ==
  \/ \E p \in Poses : OdometryCallback(p)
  \/ \E d \in Steps : DeadReckonCallback(d)
  \/ \E c \in Callers : GetDeadReckon(c) \/ First(c) \/ Difference(c) \/ Increments(c)

OdometrySpec == OdometryInit /\ [][OdometryNext]_odometryVars

-----------------------------------------------------------------------------
OdometryTypeOK ==
  /\ accumulated \in BOOLEAN
  /\ pose \in Pose /\ prePose \in Pose /\ track \in Pose
  /\ initFlag \in BOOLEAN /\ tracking \in BOOLEAN
  /\ deadreckon \in Seq(Movement)
  /\ odomTimestamp \in Nat
  /\ pc \in [Callers -> {"idle", "first", "difference", "increments"}]
  /\ reply \in [moved : Movement, stamp : Nat]
  /\ path \in Seq(Pose)

(***************************************************************************)
(* The replies lose and invent no movement: added up from the first reply  *)
(* that followed a message, they lead to the pose of the very message      *)
(* whose time stamp the last reply carries, however callbacks and calls    *)
(* interleave (getDeadReckon, "Get movement estimation since last get").   *)
(***************************************************************************)
TrackIsReal ==
  tracking => track = path[reply.stamp]

-----------------------------------------------------------------------------
\* The server threads that ask for movement are one (see README).
OneCaller == \A c, d \in Callers : c = d

\* The pose data and its time stamp are those of the last message.
PoseIsLast == Received => pose = Last(path) /\ odomTimestamp = Len(path)

\* The pose the next difference starts from is where the client believes
\* the base to be, and is the one of the last reply's message.
TrackIsPrePose ==
  tracking =>
    /\ ~initFlag
    /\ reply.stamp \in 1..Len(path)
    /\ prePose = path[reply.stamp]
    /\ track = prePose

\* The branch a caller took still suits the flag when it has the lock.
BranchFits ==
  \A c \in Callers :
    /\ pc[c] = "first" => initFlag
    /\ pc[c] = "difference" => ~initFlag
    /\ pc[c] # "increments"

AbsoluteInv == PoseIsLast /\ TrackIsPrePose /\ BranchFits

\* Where the base is, as the increments received so far add up.
Base == IF Received THEN Last(path) ELSE Zero

\* The increments that no reply has reported yet lead from where the client
\* believes the base to be to where it is.
TrackLagsByIncrements == Moved(track, Accumulate(deadreckon)) = Base

IncrementsInv ==
  /\ TrackLagsByIncrements
  /\ Received => odomTimestamp = Len(path)
  /\ ~Received => deadreckon = <<>>
  /\ tracking => reply.stamp \in 1..Len(path) /\ track = path[reply.stamp]
  /\ \A c \in Callers : pc[c] \in {"idle", "increments"}

(***************************************************************************)
(* The inductive invariant behind TrackIsReal, for a single caller where   *)
(* odometry is absolute.                                                   *)
(***************************************************************************)
OdometryIInv ==
  /\ OdometryTypeOK
  /\ accumulated => AbsoluteInv
  /\ ~accumulated => IncrementsInv
=============================================================================

--------------------------- MODULE DevicesManager ---------------------------
(***************************************************************************)
(* The life cycle of the ROS bridge process: main() (main.cpp), the two    *)
(* services it starts (RosNodeService, DevicesManagerService) through      *)
(* BaseService, the work thread of DevicesManagerService, the scan         *)
(* callback that ros::spin() runs on the main thread, and the requests     *)
(* that clients of the bridge server make on the virtual devices.          *)
(*                                                                         *)
(* Threads: the main thread (mainPc), the work thread (workPc) and one     *)
(* server thread per client (serving).  A step is one access to a variable *)
(* that another thread reads or writes; runs of thread-local statements    *)
(* are merged into it.  Logging and the contents of messages are left out. *)
(***************************************************************************)
EXTENDS FiniteSets

CONSTANTS
  Clients,             \* connections of slamware clients to the virtual devices
  ShmEnabled           \* RosNodeConfig::enable_shared_memory_lidar

ASSUME ShmEnabledAssumption == ShmEnabled \in BOOLEAN

VARIABLES
  mainPc,              \* next statement of main()
  workPc,              \* next statement of workThread_()
  status,              \* BaseService::status of each service
  working,             \* DevicesManagerService::working_
  bridge,              \* life cycle of the server behind bridge_
  serving,             \* clients whose request a virtual device is handling
  registered,          \* device pointers set in Ros1Node (lidarDevice_, baseDevice_)
  nullDeref            \* the scan callback has used a null device pointer

vars == <<mainPc, workPc, status, working, bridge, serving, registered, nullDeref>>

Services == {"rosNode", "devices"}
ServiceStatus == {"Stopped", "StartingUp", "Running", "Stopping"}
Devices == {"lidar", "base"}
BridgeStates == {"null", "created", "inited", "started", "stopped"}

MainPcs == {"startRos", "rosOnStart", "startDevices", "devicesOnStart",
            "devicesStarted", "spin", "stopDevices", "loadWorking",
            "storeWorking", "join", "devicesStopped", "stopRos", "rosOnStop",
            "exit", "aborted"}

WorkPcs == {"none", "begin", "init", "config", "registerLidar", "registerBase",
            "start", "loop", "heartBeat", "stop", "cleanup", "release", "done"}

TypeOK ==
  /\ mainPc \in MainPcs
  /\ workPc \in WorkPcs
  /\ status \in [Services -> ServiceStatus]
  /\ working \in BOOLEAN
  /\ bridge \in BridgeStates
  /\ serving \subseteq Clients
  /\ registered \subseteq Devices
  /\ nullDeref \in BOOLEAN

\* Both services are constructed and added; nothing is started.
Init ==
  /\ mainPc = "startRos"
  /\ workPc = "none"
  /\ status = [s \in Services |-> "Stopped"]
  /\ working = FALSE
  /\ bridge = "null"
  /\ serving = {}
  /\ registered = {}
  /\ nullDeref = FALSE

MainStep(from, to) == mainPc = from /\ mainPc' = to
WorkStep(from, to) == workPc = from /\ workPc' = to

SetStatus(s, st) == status' = [status EXCEPT ![s] = st]

-----------------------------------------------------------------------------
(* The main thread: startServices() starts the services in the order of    *)
(* their dependencies, stopServices() stops them in the reverse order.     *)

\* BaseService::start() up to onStart(); the only caller is main(), so the
\* status is Stopped and the other branches are not taken.
StartService(s, from, to) ==
  /\ MainStep(from, to)
  /\ status[s] = "Stopped"
  /\ SetStatus(s, "StartingUp")
  /\ UNCHANGED <<workPc, working, bridge, serving, registered, nullDeref>>

\* BaseService::stop() up to onStop(), likewise of a running service.
StopService(s, from, to) ==
  /\ MainStep(from, to)
  /\ status[s] = "Running"
  /\ SetStatus(s, "Stopping")
  /\ UNCHANGED <<workPc, working, bridge, serving, registered, nullDeref>>

\* RosNodeService::onStart() reads the configuration, subscribes and returns
\* true; messages for the callbacks queue up until main() spins.
RosOnStart ==
  /\ MainStep("rosOnStart", "startDevices")
  /\ SetStatus("rosNode", "Running")
  /\ UNCHANGED <<workPc, working, bridge, serving, registered, nullDeref>>

\* DevicesManagerService::onStart(): the work thread exists from here on.
DevicesOnStart ==
  /\ MainStep("devicesOnStart", "devicesStarted")
  /\ workPc' = "begin"
  /\ UNCHANGED <<status, working, bridge, serving, registered, nullDeref>>

DevicesStarted ==
  /\ MainStep("devicesStarted", "spin")
  /\ SetStatus("devices", "Running")
  /\ UNCHANGED <<workPc, working, bridge, serving, registered, nullDeref>>

\* The device pointers laserScanCallback_ dereferences: lidarDevice_ always,
\* baseDevice_ only when the scan is also shared (ensureSharedMemoryTopic_).
NeededDevices == IF ShmEnabled THEN Devices ELSE {"lidar"}

\* ros::spin() delivers a scan.  A null pointer trips the assertion in
\* shared_ptr::operator-> and aborts the process.
ScanCallback ==
  /\ mainPc = "spin"
  /\ nullDeref' = ~(NeededDevices \subseteq registered)
  /\ mainPc' = IF NeededDevices \subseteq registered THEN "spin" ELSE "aborted"
  /\ UNCHANGED <<workPc, status, working, bridge, serving, registered>>

\* ros::spin() returns when the node is asked to shut down.
SpinReturns ==
  /\ MainStep("spin", "stopDevices")
  /\ UNCHANGED <<workPc, status, working, bridge, serving, registered, nullDeref>>

\* Slip: the join moves into the branch that clears the flag.
LoadWorkingJoinInIf ==
  /\ mainPc = "loadWorking"
  /\ mainPc' = IF working THEN "storeWorking" ELSE "devicesStopped"
  /\ UNCHANGED <<workPc, status, working, bridge, serving, registered, nullDeref>>

\* onStop() tests working_ ...
LoadWorking ==
  /\ mainPc = "loadWorking"
  /\ mainPc' = IF working THEN "storeWorking" ELSE "join"
  /\ UNCHANGED <<workPc, status, working, bridge, serving, registered, nullDeref>>

\* Slip: the flag is tested but not cleared.
StoreWorkingForgotten ==
  /\ MainStep("storeWorking", "join")
  /\ UNCHANGED <<workPc, status, working, bridge, serving, registered, nullDeref>>

\* ... clears it, as a second access to the flag ...
StoreWorking ==
  /\ MainStep("storeWorking", "join")
  /\ working' = FALSE
  /\ UNCHANGED <<workPc, status, bridge, serving, registered, nullDeref>>

\* Slip: the thread is not joined.
JoinForgotten ==
  /\ MainStep("join", "devicesStopped")
  /\ UNCHANGED <<workPc, status, working, bridge, serving, registered, nullDeref>>

\* ... and joins the thread.
Join ==
  /\ MainStep("join", "devicesStopped")
  /\ workPc = "done"
  /\ UNCHANGED <<workPc, status, working, bridge, serving, registered, nullDeref>>

DevicesStopped ==
  /\ MainStep("devicesStopped", "stopRos")
  /\ SetStatus("devices", "Stopped")
  /\ UNCHANGED <<workPc, working, bridge, serving, registered, nullDeref>>

\* RosNodeService::onStop() drops the subscribers; main() returns.
RosOnStop ==
  /\ MainStep("rosOnStop", "exit")
  /\ SetStatus("rosNode", "Stopped")
  /\ UNCHANGED <<workPc, working, bridge, serving, registered, nullDeref>>

Main ==
  \/ StartService("rosNode", "startRos", "rosOnStart")
  \/ RosOnStart
  \/ StartService("devices", "startDevices", "devicesOnStart")
  \/ DevicesOnStart
  \/ DevicesStarted
  \/ ScanCallback
  \/ SpinReturns
  \/ StopService("devices", "stopDevices", "loadWorking")
  \/ LoadWorking
  \/ StoreWorking
  \/ Join
  \/ DevicesStopped
  \/ StopService("rosNode", "stopRos", "rosOnStop")
  \/ RosOnStop
-----------------------------------------------------------------------------
(* workThread_().                                                          *)

WorkBegin ==
  /\ WorkStep("begin", "init")
  /\ working' = TRUE
  /\ UNCHANGED <<mainPc, status, bridge, serving, registered, nullDeref>>

\* initBridge_(): no instance, an instance whose init failed, or a usable one.
InitBridge ==
  /\ workPc = "init"
  /\ \/ UNCHANGED bridge /\ workPc' = "cleanup"
     \/ bridge' = "created" /\ workPc' = "cleanup"
     \/ bridge' = "inited" /\ workPc' = "config"
  /\ UNCHANGED <<mainPc, status, working, serving, registered, nullDeref>>

\* configDevices_() up to the registrations: the devices are made and added
\* to the bridge, which nobody else can see yet.
ConfigDevices ==
  /\ WorkStep("config", "registerLidar")
  /\ UNCHANGED <<mainPc, status, working, bridge, serving, registered, nullDeref>>

\* The two registrations, each a write that the main thread may observe.
RegisterDevice(d, from, to) ==
  /\ WorkStep(from, to)
  /\ registered' = registered \cup {d}
  /\ UNCHANGED <<mainPc, status, working, bridge, serving, nullDeref>>

StartBridge ==
  /\ workPc = "start"
  /\ \/ bridge' = "started" /\ workPc' = "loop"
     \/ UNCHANGED bridge /\ workPc' = "cleanup"
  /\ UNCHANGED <<mainPc, status, working, serving, registered, nullDeref>>

\* Slip: the loop falls through to cleanup_() without bridge_->stop().
LoopTestNoStop ==
  /\ workPc = "loop"
  /\ workPc' = IF working THEN "heartBeat" ELSE "cleanup"
  /\ UNCHANGED <<mainPc, status, working, bridge, serving, registered, nullDeref>>

LoopTest ==
  /\ workPc = "loop"
  /\ workPc' = IF working THEN "heartBeat" ELSE "stop"
  /\ UNCHANGED <<mainPc, status, working, bridge, serving, registered, nullDeref>>

HeartBeat ==
  /\ WorkStep("heartBeat", "loop")
  /\ UNCHANGED <<mainPc, status, working, bridge, serving, registered, nullDeref>>

\* bridge_->stop() returns when its server threads have ended.
StopBridge ==
  /\ WorkStep("stop", "cleanup")
  /\ serving = {}
  /\ bridge' = "stopped"
  /\ UNCHANGED <<mainPc, status, working, serving, registered, nullDeref>>

\* cleanup_(): the flag first, then the instance if there is one.
CleanupFlag ==
  /\ WorkStep("cleanup", "release")
  /\ working' = FALSE
  /\ UNCHANGED <<mainPc, status, bridge, serving, registered, nullDeref>>

CleanupBridge ==
  /\ WorkStep("release", "done")
  /\ bridge' = "null"
  /\ UNCHANGED <<mainPc, status, working, serving, registered, nullDeref>>

Work ==
  \/ WorkBegin
  \/ InitBridge
  \/ ConfigDevices
  \/ RegisterDevice("lidar", "registerLidar", "registerBase")
  \/ RegisterDevice("base", "registerBase", "start")
  \/ StartBridge
  \/ LoopTest
  \/ HeartBeat
  \/ StopBridge
  \/ CleanupFlag
  \/ CleanupBridge

-----------------------------------------------------------------------------
(* Requests of the clients: requestMotion and getMovementEstimation of     *)
(* RosBaseDevice, which the server calls on its own threads from start()   *)
(* until stop() is called, and which reach the ROS node through the        *)
(* service dependency.                                                     *)

BeginRequest(c) ==
  /\ bridge = "started"
  /\ workPc # "stop"
  /\ c \notin serving
  /\ serving' = serving \cup {c}
  /\ UNCHANGED <<mainPc, workPc, status, working, bridge, registered, nullDeref>>

EndRequest(c) ==
  /\ c \in serving
  /\ serving' = serving \ {c}
  /\ UNCHANGED <<mainPc, workPc, status, working, bridge, registered, nullDeref>>

-----------------------------------------------------------------------------
Alive == mainPc # "aborted"

Terminated == mainPc \in {"exit", "aborted"} /\ UNCHANGED vars

Next ==
  \/ Main
  \/ Alive /\ Work
  \/ \E c \in Clients : Alive /\ (BeginRequest(c) \/ EndRequest(c))
  \/ Terminated

\* Threads are scheduled and device requests return.  Nothing forces a scan
\* to arrive, the user to stop the node, or a client to send a request.
Fairness ==
  /\ WF_vars(Main /\ mainPc # "spin")
  /\ WF_vars(Alive /\ Work)
  /\ \A c \in Clients : WF_vars(Alive /\ EndRequest(c))

Spec == Init /\ [][Next]_vars

FairSpec == Spec /\ Fairness

-----------------------------------------------------------------------------
(***************************************************************************)
(* Once DevicesManagerService has stopped, nothing of it is left running:  *)
(* the work thread has ended, the bridge instance is released and no       *)
(* client is inside a device, so the ROS node under it may be torn down.   *)
(***************************************************************************)
StoppedIsQuiet ==
  mainPc \in {"devicesStopped", "stopRos", "rosOnStop", "exit"} =>
    workPc = "done" /\ bridge = "null" /\ serving = {}

(***************************************************************************)
(* A device request uses the ROS node behind the service dependency only   *)
(* while that service is running: it is started before the bridge accepts  *)
(* clients and stopped after the last of them is done.                     *)
(***************************************************************************)
RequestsNeedRos == serving # {} => status["rosNode"] = "Running"

(***************************************************************************)
(* The calls made on the bridge server follow its contract: one instance,  *)
(* stopped before it is released, requests served only while started.      *)
(***************************************************************************)
Contract == INSTANCE BridgeContract
ImplementsContract == Contract!Spec

(***************************************************************************)
(* An onStop() that found working_ set always gets the process to the end  *)
(* of main(): the thread sees the cleared flag, stops and releases the     *)
(* bridge, and is joined.                                                  *)
(***************************************************************************)
SeenStopCompletes == mainPc = "storeWorking" ~> mainPc = "exit"

(***************************************************************************)
(* A scan never reaches a device pointer that is still null: what the      *)
(* assertion of boost::shared_ptr::operator-> demands of the callback.     *)
(***************************************************************************)
DevicePointersSet == ~nullDeref

-----------------------------------------------------------------------------
\* Statements of main() before onStart() has made the work thread.
BeforeThread == {"startRos", "rosOnStart", "startDevices", "devicesOnStart"}

\* Statements of main() after join().
AfterJoin == {"devicesStopped", "stopRos", "rosOnStop", "exit"}

\* The bridge as the work thread left it on its way to each statement.
BridgeAt ==
  /\ workPc \in {"none", "begin", "init", "done"} => bridge = "null"
  /\ workPc \in {"config", "registerLidar", "registerBase", "start"} => bridge = "inited"
  /\ workPc \in {"loop", "heartBeat", "stop"} => bridge = "started"
  /\ workPc \in {"cleanup", "release"} => bridge # "started"

ThreadAt ==
  /\ workPc = "none" => mainPc \in BeforeThread
  /\ mainPc \in BeforeThread => workPc = "none"
  /\ mainPc \in AfterJoin => workPc = "done"

RosAt ==
  mainPc \notin {"startRos", "rosOnStart", "rosOnStop", "exit"} =>
    status["rosNode"] = "Running"

(***************************************************************************)
(* The inductive invariant: the bridge instance is exactly as far as the   *)
(* work thread has taken it, the work thread exists and has ended in step  *)
(* with main(), the ROS node outlives every bridge, and clients are served *)
(* only by a started bridge.  Everything above follows from it.            *)
(***************************************************************************)
IInv ==
  /\ TypeOK
  /\ BridgeAt
  /\ ThreadAt
  /\ RosAt
  /\ serving # {} => bridge = "started"
=============================================================================

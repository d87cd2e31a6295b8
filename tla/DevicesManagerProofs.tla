------------------------ MODULE DevicesManagerProofs ------------------------
(***************************************************************************)
(* Proofs about DevicesManager for any set of clients: its type invariant, *)
(* the two safety invariants of the shutdown, and that its calls on the    *)
(* bridge implement BridgeContract.  They follow from one inductive        *)
(* invariant, IInv, which ties the state of the bridge to the statement    *)
(* the work thread is at, and that statement to the one of main().         *)
(***************************************************************************)
EXTENDS DevicesManager, TLAPS

\* Before main() starts the first service there is nothing to account for.
LEMMA InitIInv == Init => IInv
  BY DEF Init, IInv, TypeOK, BridgeAt, ThreadAt, RosAt, BeforeThread, AfterJoin,
         MainPcs, WorkPcs, Services, ServiceStatus, BridgeStates, Devices

\* The steps of main(), with the services it starts and stops, keep the invariant.
LEMMA MainIInv == IInv /\ Main => IInv'
  <1> SUFFICES ASSUME IInv, Main PROVE IInv'
    OBVIOUS
  <1> USE DEF IInv, TypeOK, BridgeAt, ThreadAt, RosAt, BeforeThread, AfterJoin,
              MainPcs, Services, ServiceStatus, MainStep, SetStatus
  <1>1. CASE StartService("rosNode", "startRos", "rosOnStart")
    BY <1>1 DEF StartService
  <1>2. CASE RosOnStart
    BY <1>2 DEF RosOnStart
  <1>3. CASE StartService("devices", "startDevices", "devicesOnStart")
    BY <1>3 DEF StartService
  <1>4. CASE DevicesOnStart
    BY <1>4 DEF DevicesOnStart, WorkPcs
  <1>5. CASE DevicesStarted
    BY <1>5 DEF DevicesStarted
  <1>6. CASE ScanCallback
    BY <1>6 DEF ScanCallback
  <1>7. CASE SpinReturns
    BY <1>7 DEF SpinReturns
  <1>8. CASE StopService("devices", "stopDevices", "loadWorking")
    BY <1>8 DEF StopService
  <1>9. CASE LoadWorking
    BY <1>9 DEF LoadWorking
  <1>10. CASE StoreWorking
    BY <1>10 DEF StoreWorking
  <1>11. CASE Join
    BY <1>11 DEF Join
  <1>12. CASE DevicesStopped
    BY <1>12 DEF DevicesStopped
  <1>13. CASE StopService("rosNode", "stopRos", "rosOnStop")
    BY <1>13 DEF StopService
  <1>14. CASE RosOnStop
    BY <1>14 DEF RosOnStop
  <1> QED
    BY <1>1, <1>2, <1>3, <1>4, <1>5, <1>6, <1>7, <1>8, <1>9, <1>10, <1>11,
       <1>12, <1>13, <1>14 DEF Main

\* So do the steps of the work thread, which alone touches the bridge ...
LEMMA WorkIInv == IInv /\ Work => IInv'
  <1> SUFFICES ASSUME IInv, Work PROVE IInv'
    OBVIOUS
  <1> USE DEF IInv, TypeOK, BridgeAt, ThreadAt, RosAt, BeforeThread, AfterJoin,
              WorkPcs, BridgeStates, WorkStep
  <1>1. CASE WorkBegin
    BY <1>1 DEF WorkBegin
  <1>2. CASE InitBridge
    BY <1>2 DEF InitBridge
  <1>3. CASE ConfigDevices
    BY <1>3 DEF ConfigDevices
  <1>4. CASE RegisterDevice("lidar", "registerLidar", "registerBase")
    BY <1>4 DEF RegisterDevice, Devices
  <1>5. CASE RegisterDevice("base", "registerBase", "start")
    BY <1>5 DEF RegisterDevice, Devices
  <1>6. CASE StartBridge
    BY <1>6 DEF StartBridge
  <1>7. CASE LoopTest
    BY <1>7 DEF LoopTest
  <1>8. CASE HeartBeat
    BY <1>8 DEF HeartBeat
  <1>9. CASE StopBridge
    BY <1>9 DEF StopBridge
  <1>10. CASE CleanupFlag
    BY <1>10 DEF CleanupFlag
  <1>11. CASE CleanupBridge
    BY <1>11 DEF CleanupBridge
  <1> QED
    BY <1>1, <1>2, <1>3, <1>4, <1>5, <1>6, <1>7, <1>8, <1>9, <1>10, <1>11 DEF Work

\* ... and those of the clients, who are served only by a started bridge.
LEMMA RequestIInv ==
  ASSUME IInv, NEW c \in Clients, BeginRequest(c) \/ EndRequest(c)
  PROVE  IInv'
  <1> USE DEF IInv, TypeOK, BridgeAt, ThreadAt, RosAt
  <1>1. CASE BeginRequest(c)
    BY <1>1 DEF BeginRequest
  <1>2. CASE EndRequest(c)
    BY <1>2 DEF EndRequest
  <1> QED
    BY <1>1, <1>2

\* Whoever moves, the invariant is kept.
LEMMA NextIInv == IInv /\ [Next]_vars => IInv'
  <1> SUFFICES ASSUME IInv, [Next]_vars PROVE IInv'
    OBVIOUS
  <1>1. CASE UNCHANGED vars
    BY <1>1 DEF vars, IInv, TypeOK, BridgeAt, ThreadAt, RosAt
  <1>2. CASE Next
    BY <1>1, <1>2, MainIInv, WorkIInv, RequestIInv DEF Next, Terminated
  <1> QED
    BY <1>1, <1>2

(***************************************************************************)
(* The main thread, the work thread and the clients are always at places   *)
(* that fit each other, the services' statuses and the bridge server; the  *)
(* theorems below are read off from this.                                  *)
(***************************************************************************)
THEOREM Invariance == Spec => []IInv
  BY InitIInv, NextIInv, PTL DEF Spec

-----------------------------------------------------------------------------
(* Every variable keeps its type, for any set of clients.                  *)
THEOREM TypeCorrect == Spec => []TypeOK
  <1>1. IInv => TypeOK
    BY DEF IInv
  <1> QED
    BY <1>1, Invariance, PTL

(* After stop() nothing of the devices manager is left running.            *)
THEOREM StopIsQuiet == Spec => []StoppedIsQuiet
  <1>1. IInv => StoppedIsQuiet
    BY DEF IInv, StoppedIsQuiet, ThreadAt, BridgeAt, AfterJoin
  <1> QED
    BY <1>1, Invariance, PTL

(* Device requests find the ROS node service running.                      *)
THEOREM RequestsFindRos == Spec => []RequestsNeedRos
  <1>1. IInv => RequestsNeedRos
    BY DEF IInv, RequestsNeedRos, ThreadAt, BridgeAt, RosAt, BeforeThread, AfterJoin
  <1> QED
    BY <1>1, Invariance, PTL

(* The calls on the bridge are behaviours of its contract.                 *)
THEOREM ContractRefinement == Spec => ImplementsContract
  <1>1. Init => Contract!Init
    BY DEF Init, Contract!Init
  <1>2. ASSUME IInv, [Next]_vars
        PROVE  [Contract!Next]_<<bridge, serving>>
    <2> USE <1>2 DEF IInv, BridgeAt, TypeOK, BridgeStates
    <2>1. CASE Main
      BY <2>1 DEF Main, StartService, RosOnStart, DevicesOnStart, DevicesStarted,
                  ScanCallback, SpinReturns, StopService, LoadWorking, StoreWorking,
                  Join, DevicesStopped, RosOnStop
    <2>2. CASE Work
      <3>1. CASE InitBridge
        BY <3>1 DEF InitBridge, Contract!Next, Contract!Create
      <3>2. CASE StartBridge
        BY <3>2 DEF StartBridge, Contract!Next, Contract!Start
      <3>3. CASE StopBridge
        BY <3>3 DEF StopBridge, WorkStep, Contract!Next, Contract!Stop
      <3>4. CASE CleanupBridge
        BY <3>4 DEF CleanupBridge, WorkStep, Contract!Next, Contract!Release
      <3> QED
        BY <2>2, <3>1, <3>2, <3>3, <3>4
           DEF Work, WorkBegin, ConfigDevices, RegisterDevice, LoopTest, HeartBeat,
               CleanupFlag
    <2>3. ASSUME NEW c \in Clients, BeginRequest(c) \/ EndRequest(c)
          PROVE  Contract!Next
      <3>1. CASE BeginRequest(c)
        BY <3>1 DEF BeginRequest, Contract!Next, Contract!Serve
      <3>2. CASE EndRequest(c)
        BY <3>2 DEF EndRequest, Contract!Next, Contract!Answer
      <3> QED
        BY <2>3, <3>1, <3>2
    <2>4. CASE UNCHANGED vars
      BY <2>4 DEF vars
    <2> QED
      BY <2>1, <2>2, <2>3, <2>4 DEF Next, Terminated
  <1> QED
    BY <1>1, <1>2, Invariance, PTL DEF Spec, ImplementsContract, Contract!Spec
=============================================================================

----------------------------- MODULE MCUtilities -----------------------------
(***************************************************************************)
(* The small classes of the SDK that share nothing with each other, each   *)
(* with a few threads.  A behaviour is one of one of them: the others stay *)
(* in their initial states, in which nothing that is fair is enabled.      *)
(***************************************************************************)
EXTENDS ThreadedService, HttpsClient, AsyncSynchronizer, Waiter, Signal, UdpClient,
        ShmTopicManager, ConfigProvider, DynamicConfig

CONSTANTS x, y

MCPayloads == {<<x>>, <<y, x>>}

VARIABLE unit    \* the class of this behaviour

serviceVars == vars
utilityVars == <<serviceVars, httpsVars, syncVars, waiterVars, signalVars, udpVars,
                 managerVars, configVars, dynamicVars>>

UInit ==
  /\ unit \in {"service", "https", "synchronizer", "waiter", "signal", "udp",
               "manager", "config", "dynamic"}
  /\ Init /\ HttpsInit /\ SyncInit /\ WaiterInit /\ SignalInit /\ UdpInit
  /\ ManagerInit /\ ConfigInit /\ DynamicInit

ServiceUnit ==
  /\ unit = "service" /\ Next
  /\ UNCHANGED <<httpsVars, syncVars, waiterVars, signalVars,
                 udpVars, managerVars, configVars, dynamicVars>>
HttpsUnit ==
  /\ unit = "https" /\ HttpsNext
  /\ UNCHANGED <<serviceVars, syncVars, waiterVars, signalVars,
                 udpVars, managerVars, configVars, dynamicVars>>
SyncUnit ==
  /\ unit = "synchronizer" /\ SyncNext
  /\ UNCHANGED <<serviceVars, httpsVars, waiterVars, signalVars,
                 udpVars, managerVars, configVars, dynamicVars>>
WaiterUnit ==
  /\ unit = "waiter" /\ WaiterNext
  /\ UNCHANGED <<serviceVars, httpsVars, syncVars, signalVars,
                 udpVars, managerVars, configVars, dynamicVars>>
SignalUnit ==
  /\ unit = "signal" /\ SignalNext
  /\ UNCHANGED <<serviceVars, httpsVars, syncVars, waiterVars,
                 udpVars, managerVars, configVars, dynamicVars>>
UdpUnit ==
  /\ unit = "udp" /\ UdpNext
  /\ UNCHANGED <<serviceVars, httpsVars, syncVars, waiterVars,
                 signalVars, managerVars, configVars, dynamicVars>>
ManagerUnit ==
  /\ unit = "manager" /\ ManagerNext
  /\ UNCHANGED <<serviceVars, httpsVars, syncVars, waiterVars,
                 signalVars, udpVars, configVars, dynamicVars>>
ConfigUnit ==
  /\ unit = "config" /\ ConfigNext
  /\ UNCHANGED <<serviceVars, httpsVars, syncVars, waiterVars,
                 signalVars, udpVars, managerVars, dynamicVars>>
DynamicUnit ==
  /\ unit = "dynamic" /\ DynamicNext
  /\ UNCHANGED <<serviceVars, httpsVars, syncVars, waiterVars,
                 signalVars, udpVars, managerVars, configVars>>

UNext ==
  /\ \/ ServiceUnit \/ HttpsUnit \/ SyncUnit \/ WaiterUnit \/ SignalUnit \/ UdpUnit
     \/ ManagerUnit \/ ConfigUnit \/ DynamicUnit
  /\ UNCHANGED unit

USpec ==
  /\ UInit /\ [][UNext]_<<utilityVars, unit>>
  /\ HttpsFairness /\ SyncFairness /\ WaiterFairness /\ UdpFairness
=============================================================================

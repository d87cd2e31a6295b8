---------------------------- MODULE ConfigProvider ----------------------------
(***************************************************************************)
(* A configuration that services share (ConfigProviderService): any thread *)
(* updates it, and each reader has a listener (AtomicSignalListener) that  *)
(* it looks at without a lock before it asks for the configuration again.  *)
(*                                                                         *)
(* BaseService::lock guards the calls of the provider; an update signals   *)
(* the listeners under it, one after the other.  What addListener and      *)
(* broadcastSignal do in the broadcaster is external, and taken from their *)
(* comments; listeners are not removed here.                               *)
(***************************************************************************)
EXTENDS Naturals

CONSTANTS
  Listeners,     \* threads, each with a listener
  MaxUpdates     \* bound on the calls of updateConfig()

ASSUME ConfigAssumption == MaxUpdates \in Nat

VARIABLES
  config,        \* config_: the number of the update, 0 for none
  untold,        \* listeners an update under way has still to signal
  updating,      \* updateConfig() is under way, and has the lock
  registered,    \* listeners of the broadcaster
  signalled,     \* abIsSignalled of each listener
  looking,       \* progress of each reader
  seen,          \* the configuration each reader has got
  known          \* history: the configuration each listener was added after

updateVars == <<config, untold, updating>>
readerVars == <<looking, seen>>
configVars == <<updateVars, readerVars, registered, signalled, known>>

ConfigInit ==
  /\ config = 0 /\ untold = {} /\ updating = FALSE
  /\ registered = {} /\ signalled = [l \in Listeners |-> FALSE]
  /\ looking = [l \in Listeners |-> "test"]
  /\ seen = [l \in Listeners |-> 0] /\ known = [l \in Listeners |-> 0]

-----------------------------------------------------------------------------
UpdateConfig ==
  /\ ~updating /\ config < MaxUpdates
  /\ updating' = TRUE
  /\ config' = config + 1 /\ untold' = registered
  /\ UNCHANGED <<readerVars, registered, signalled, known>>

BroadcastSignal(l) ==
  /\ l \in untold
  /\ untold' = untold \ {l}
  /\ signalled' = [signalled EXCEPT ![l] = TRUE]
  /\ UNCHANGED <<config, updating, readerVars, registered, known>>

UpdateReturns ==
  /\ updating /\ untold = {}
  /\ updating' = FALSE
  /\ UNCHANGED <<config, untold, readerVars, registered, signalled, known>>

\* One that is added without a signal hears of later updates only.
AddListener(l, initSignalled) ==
  /\ ~updating /\ l \notin registered /\ looking[l] = "test"
  /\ registered' = registered \cup {l}
  /\ signalled' = [signalled EXCEPT ![l] = initSignalled]
  /\ known' = [known EXCEPT ![l] = IF initSignalled THEN 0 ELSE config]
  /\ UNCHANGED <<updateVars, readerVars>>

-----------------------------------------------------------------------------
(* A reader tests the signal, resets it (resetIfSignalled) and gets the    *)
(* configuration.                                                          *)

\* Slip: the signal is reset when the configuration has been got.
AfterReadFirst == [test |-> "get", get |-> "reset", reset |-> "test"]

After == [test |-> "reset", reset |-> "get", get |-> "test"]

Look(l, step) ==
  looking[l] = step /\ looking' = [looking EXCEPT ![l] = After[step]]

TestSignal(l) ==
  /\ signalled[l]
  /\ Look(l, "test")
  /\ UNCHANGED <<updateVars, seen, registered, signalled, known>>

ResetSignal(l) ==
  /\ Look(l, "reset")
  /\ signalled' = [signalled EXCEPT ![l] = FALSE]
  /\ UNCHANGED <<updateVars, seen, registered, known>>

GetConfig(l) ==
  /\ ~updating
  /\ Look(l, "get")
  /\ seen' = [seen EXCEPT ![l] = config]
  /\ UNCHANGED <<updateVars, registered, signalled, known>>

ConfigNext ==
  \/ UpdateConfig \/ UpdateReturns
  \/ \E l \in Listeners :
       \/ BroadcastSignal(l) \/ AddListener(l, TRUE) \/ AddListener(l, FALSE)
       \/ TestSignal(l) \/ ResetSignal(l) \/ GetConfig(l)

ConfigSpec == ConfigInit /\ [][ConfigNext]_configVars

-----------------------------------------------------------------------------
ConfigTypeOK ==
  /\ config \in Nat /\ updating \in BOOLEAN
  /\ untold \subseteq registered /\ registered \subseteq Listeners
  /\ signalled \in [Listeners -> BOOLEAN]
  /\ looking \in [Listeners -> {"test", "reset", "get"}]
  /\ seen \in [Listeners -> Nat] /\ known \in [Listeners -> Nat]

(***************************************************************************)
(* A reader that has not got the newest configuration is on its way to it, *)
(* is signalled or is about to be, unless it is the one after which its    *)
(* listener was added: test and reset of the signal need not be atomic.    *)
(***************************************************************************)
NoUpdateIsMissed ==
  /\ ConfigTypeOK
  /\ untold # {} => updating
  /\ \A l \in registered :
       seen[l] = config \/ known[l] = config \/ signalled[l]
         \/ l \in untold \/ looking[l] # "test"
=============================================================================

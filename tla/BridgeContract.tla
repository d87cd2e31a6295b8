--------------------------- MODULE BridgeContract ---------------------------
(***************************************************************************)
(* What the pseudo device bridge promises, and what it asks of its user:   *)
(* the call protocol documented by IBridgeServer and createBridgeServer    *)
(* (rp/slamware/utils/any2tcp_bridge.h).  One instance is created,         *)
(* initialised, started, stopped and released; device requests of clients  *)
(* are served only while it is started; an instance whose init or start    *)
(* failed may be released as it is.  The bridge is a binary library, so    *)
(* this module is the abstract specification that DevicesManager is shown  *)
(* to implement, not a translation of its code.                            *)
(***************************************************************************)
CONSTANT Clients         \* connections of slamware clients to the devices

VARIABLES bridge,        \* life cycle of the only bridge instance
          serving        \* clients whose device request is being handled

BridgeStates == {"null", "created", "inited", "started", "stopped"}

TypeOK ==
  /\ bridge \in BridgeStates
  /\ serving \subseteq Clients

Init ==
  /\ bridge = "null"
  /\ serving = {}

Create  == bridge = "null" /\ bridge' \in {"created", "inited"} /\ UNCHANGED serving
Start   == bridge = "inited" /\ bridge' = "started" /\ UNCHANGED serving

Serve(c) ==
  /\ bridge = "started"
  /\ serving' = serving \cup {c}
  /\ UNCHANGED bridge

Answer(c) == c \in serving /\ serving' = serving \ {c} /\ UNCHANGED bridge

\* The server stops only when no request is running in a device.
Stop    == bridge = "started" /\ serving = {} /\ bridge' = "stopped" /\ UNCHANGED serving

\* A started server must be stopped before it is released.
Release ==
  /\ bridge \in {"created", "inited", "stopped"}
  /\ bridge' = "null"
  /\ UNCHANGED serving

Next ==
  \/ Create \/ Start \/ Stop \/ Release
  \/ \E c \in Clients : Serve(c) \/ Answer(c)

Spec == Init /\ [][Next]_<<bridge, serving>>

-----------------------------------------------------------------------------
(***************************************************************************)
(* No device request is ever in progress on a bridge that is not started:  *)
(* the device instance can be freed once the server has stopped.           *)
(***************************************************************************)
ServesOnlyStarted == serving # {} => bridge = "started"
=============================================================================

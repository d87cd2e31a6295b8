------------------------------- MODULE MCNode --------------------------------
(***************************************************************************)
(* The node's process with a few clients, in the two parts of it that      *)
(* share no state: its life cycle (DevicesManager) and the odometry path,  *)
(* with poses and increments that turn as well as move, so that adding     *)
(* them in the wrong frame or order shows.  A behaviour is one of one      *)
(* part; the other stays in its initial state.                             *)
(***************************************************************************)
EXTENDS DevicesManager, Odometry

P(x, y, h) == [x |-> x, y |-> y, h |-> h]

MCPoses == {P(0, 0, 0), P(1, 0, 1), P(1, 2, 3)}
MCSteps == {P(1, 0, 1), P(0, 1, -2), P(2, 0, 0)}

VARIABLE part    \* the part of this behaviour

nodeVars == <<vars, odometryVars, part>>

NodeInit == part \in {"life cycle", "odometry"} /\ Init /\ OdometryInit

InLifeCycle(step) ==
  part = "life cycle" /\ step /\ UNCHANGED <<odometryVars, part>>
OdometryPart ==
  part = "odometry" /\ OdometryNext /\ UNCHANGED <<vars, part>>

NodeNext == InLifeCycle(Next) \/ OdometryPart

\* The fairness of DevicesManager, in the behaviours that are about it.
NodeFairness ==
  /\ WF_nodeVars(InLifeCycle(Main /\ mainPc # "spin"))
  /\ WF_nodeVars(InLifeCycle(Alive /\ Work))
  /\ \A c \in Clients : WF_nodeVars(InLifeCycle(Alive /\ EndRequest(c)))

NodeSpec == NodeInit /\ [][NodeNext]_nodeVars /\ NodeFairness
=============================================================================

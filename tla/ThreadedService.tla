-------------------------- MODULE ThreadedService ---------------------------
(***************************************************************************)
(* A service with a thread of its own (ThreadedService over BaseService):  *)
(* callers start and stop it from any thread, the work thread first asks   *)
(* for the id of the service and then runs worker() until working_ is      *)
(* cleared or it is done.                                                  *)
(*                                                                         *)
(* BaseService::lock is held for the whole of start() and stop() and is    *)
(* the variable locked; ThreadedService::lock_ guards sections that never  *)
(* wait for a caller, and each of them is one step.  worker() and the      *)
(* callbacks are the user's.                                               *)
(***************************************************************************)
CONSTANT
  Callers        \* threads that call start() and stop()

VARIABLES
  locked,        \* BaseService::lock
  status,        \* BaseService::status
  working,       \* ThreadedService::working_
  worker,        \* the thread behind workThread_; "none" if it is not joinable
  pc,            \* progress of each caller
  thrown         \* callers that got "shouldn't be in this branch"

vars == <<locked, status, working, worker, pc, thrown>>

Init ==
  /\ locked = FALSE
  /\ status = "Stopped"
  /\ working = FALSE
  /\ worker = "none"
  /\ pc = [c \in Callers |-> "idle"]
  /\ thrown = {}

Goto(c, from, to) == pc[c] = from /\ pc' = [pc EXCEPT ![c] = to]

Return(c, from, st) == Goto(c, from, "idle") /\ locked' = FALSE /\ status' = st

-----------------------------------------------------------------------------
(* start() and stop().                                                     *)

\* A caller waits for the lock of the service.
Calls(c) ==
  /\ Goto(c, "idle", "start") \/ Goto(c, "idle", "stop")
  /\ UNCHANGED <<locked, status, working, worker, thrown>>

Start(c) ==
  /\ ~locked /\ status = "Stopped"
  /\ Goto(c, "start", "onStart")
  /\ locked' = TRUE
  /\ status' = "StartingUp"
  /\ UNCHANGED <<working, worker, thrown>>

Stop(c) ==
  /\ ~locked /\ status = "Running"
  /\ Goto(c, "stop", "onStop")
  /\ locked' = TRUE
  /\ status' = "Stopping"
  /\ UNCHANGED <<working, worker, thrown>>

\* There is nothing to do, and true is returned.
AlreadySo(c) ==
  /\ ~locked
  /\ \/ status = "Running" /\ Return(c, "start", status)
     \/ status = "Stopped" /\ Return(c, "stop", status)
  /\ UNCHANGED <<working, worker, thrown>>

\* The branch for a service that is starting up or stopping throws.
Throws(c) ==
  /\ ~locked
  /\ status \in {"StartingUp", "Stopping"}
  /\ Return(c, "start", status) \/ Return(c, "stop", status)
  /\ thrown' = thrown \cup {c}
  /\ UNCHANGED <<working, worker>>

\* onStart() makes the thread, unless the service still works; a thread left
\* from before is joined first.
OnStart(c) ==
  /\ Goto(c, "onStart", "started")
  /\ working' = TRUE
  /\ IF working THEN UNCHANGED worker
     ELSE worker \in {"none", "done"} /\ worker' = "wrapper"
  /\ UNCHANGED <<locked, status, thrown>>

\* beforeStart() refuses.
OnStartFails(c) ==
  /\ ~working
  /\ Return(c, "onStart", "Stopped")
  /\ UNCHANGED <<working, worker, thrown>>

\* The constructor of boost::thread throws: the locks are released on the
\* way out, nothing else is undone.
OnStartThrows(c) ==
  /\ ~working
  /\ worker \in {"none", "done"} /\ worker' = "none"
  /\ Return(c, "onStart", status)
  /\ working' = TRUE
  /\ UNCHANGED thrown

Started(c) ==
  /\ Return(c, "started", "Running")
  /\ UNCHANGED <<working, worker, thrown>>

\* Slip: the lock of the service is given up before the thread is joined.
OnStopUnlocks(c) ==
  /\ working
  /\ Goto(c, "onStop", "join")
  /\ working' = FALSE
  /\ locked' = FALSE
  /\ UNCHANGED <<status, worker, thrown>>

\* onStop() clears the flag ...
OnStop(c) ==
  /\ IF working THEN Goto(c, "onStop", "join") /\ UNCHANGED <<locked, status>>
     ELSE Return(c, "onStop", "Running")
  /\ working' = FALSE
  /\ UNCHANGED <<worker, thrown>>

\* Slip: the thread is not joined.
JoinForgotten(c) ==
  /\ Goto(c, "join", "stopped")
  /\ UNCHANGED <<locked, status, working, worker, thrown>>

\* ... and joins the thread; afterStopped() follows.
Join(c) ==
  /\ Goto(c, "join", "stopped")
  /\ worker \in {"none", "done"}
  /\ worker' = "none"
  /\ UNCHANGED <<locked, status, working, thrown>>

Stopped(c) ==
  /\ Return(c, "stopped", "Stopped")
  /\ UNCHANGED <<working, worker, thrown>>

-----------------------------------------------------------------------------
(* workerWrapper_().                                                       *)

WorkerStep(from, to) ==
  /\ worker = from
  /\ worker' = to
  /\ UNCHANGED <<locked, status, working, pc, thrown>>

\* getId() takes the lock of the service for a moment.
GetId == ~locked /\ WorkerStep("wrapper", "working")

\* worker() sees the flag cleared, or is done before that.
WorkerStops == ~working /\ WorkerStep("working", "done")
WorkerDone == working /\ WorkerStep("working", "done")

\* The steps of a call that has begun.
Call(c) ==
  \/ Start(c)
  \/ Stop(c)
  \/ AlreadySo(c)
  \/ Throws(c)
  \/ OnStart(c)
  \/ OnStartFails(c)
  \/ OnStartThrows(c)
  \/ Started(c)
  \/ OnStop(c)
  \/ Join(c)
  \/ Stopped(c)

Next ==
  \/ \E c \in Callers : Calls(c) \/ Call(c)
  \/ GetId
  \/ WorkerStops
  \/ WorkerDone

Spec == Init /\ [][Next]_vars

\* Threads are scheduled, and a worker that sees the flag cleared ends.
FairSpec ==
  /\ Spec
  /\ \A c \in Callers : WF_vars(Call(c))
  /\ WF_vars(GetId) /\ WF_vars(WorkerStops)

-----------------------------------------------------------------------------
TypeOK ==
  /\ locked \in BOOLEAN
  /\ status \in {"Stopped", "StartingUp", "Running", "Stopping"}
  /\ working \in BOOLEAN
  /\ worker \in {"none", "wrapper", "working", "done"}
  /\ pc \in [Callers -> {"idle", "start", "stop", "onStart", "started", "onStop",
                       "join", "stopped"}]
  /\ thrown \subseteq Callers

(***************************************************************************)
(* What a caller is told is so: a service that is stopped has no thread    *)
(* left, nor the flag set for one, and a running one has been given its    *)
(* thread.                                                                 *)
(***************************************************************************)
StatusTellsWork ==
  ~locked =>
    /\ status = "Stopped" => ~working /\ worker = "none"
    /\ status = "Running" => working /\ worker # "none"

\* What a start() leaves behind whose thread could not be made.
Unmade == status = "StartingUp" /\ working /\ worker = "none"

(***************************************************************************)
(* No caller finds the service half way ("Service is starting up or        *)
(* stopping, shouldn't be in this branch"), unless it is one whose thread  *)
(* could not be made and that is left as it was for good.                  *)
(***************************************************************************)
HalfWayIsUnmade == thrown # {} => Unmade

(***************************************************************************)
(* A stop that has begun gets to the callback "called after onStop()       *)
(* calls, and the service is stopped".                                     *)
(***************************************************************************)
StopCompletes == \A c \in Callers : pc[c] = "join" ~> pc[c] = "stopped"

-----------------------------------------------------------------------------
\* The callers that have the lock.
Inside == {c \in Callers : pc[c] \notin {"idle", "start", "stop"}}

\* What is so at each point of a call.
CallAt(c) ==
  /\ pc[c] = "onStart" => status = "StartingUp" /\ ~working /\ worker = "none"
  /\ pc[c] = "started" => status = "StartingUp" /\ working /\ worker # "none"
  /\ pc[c] = "onStop" => status = "Stopping" /\ working /\ worker # "none"
  /\ pc[c] = "join" => status = "Stopping" /\ ~working
  /\ pc[c] = "stopped" => status = "Stopping" /\ ~working /\ worker = "none"

(***************************************************************************)
(* The inductive invariant: one caller at a time is inside start() or      *)
(* stop(), has the lock, and finds what the statements before have left;   *)
(* half-way states are seen by nobody else but for the one of a service    *)
(* whose thread could not be made.                                         *)
(***************************************************************************)
IInv ==
  /\ TypeOK
  /\ locked <=> Inside # {}
  /\ \A c, d \in Inside : c = d
  /\ \A c \in Callers : CallAt(c)
  /\ StatusTellsWork
  /\ HalfWayIsUnmade
  /\ ~locked => status \in {"Stopped", "Running"} \/ Unmade
=============================================================================

------------------------------- MODULE Waiter -------------------------------
(***************************************************************************)
(* A flag that threads wait for (Waiter): notify() with a result takes the *)
(* mutex, notify() without one does not; wait_for() gives up on a timeout. *)
(*                                                                         *)
(* A thread holds the mutex from its test of the flag to the moment it is  *)
(* on the list of the condition variable, in which a notify() without the  *)
(* mutex may come between.  waitForResult() is a wait(); flag_ is a plain  *)
(* bool, taken to be read and written whole.                               *)
(***************************************************************************)
EXTENDS Naturals, FiniteSets

CONSTANTS
  Sleepers,      \* threads, each with one wait() or wait_for()
  Timed,         \* those that use wait_for()
  Notifiers      \* calls of notify()

ASSUME WaiterAssumption ==
  Timed \subseteq Sleepers /\ IsFiniteSet(Sleepers) /\ IsFiniteSet(Notifiers)

VARIABLES
  flag,          \* flag_
  sleeper,       \* progress of each sleeper
  notifier,      \* progress of each notifier
  missed         \* history: a notification fell between a test and its wait

waiterVars == <<flag, sleeper, notifier, missed>>

WaiterInit ==
  /\ flag = FALSE
  /\ sleeper = [s \in Sleepers |-> "new"]
  /\ notifier = [n \in Notifiers |-> "no"]
  /\ missed = FALSE

SleeperAt(place) == {s \in Sleepers : sleeper[s] = place}
SleeperGoes(s, from, to) == sleeper[s] = from /\ sleeper' = [sleeper EXCEPT ![s] = to]
NotifierGoes(n, from, to) == notifier[n] = from /\ notifier' = [notifier EXCEPT ![n] = to]

MutexFree == SleeperAt("tested") = {}

\* Slip: the flag is not tested again after a wait.
TestFlagOnce(s) ==
  /\ MutexFree
  /\ \/ SleeperGoes(s, "woken", "left") /\ flag' = FALSE
     \/ flag /\ SleeperGoes(s, "new", "left") /\ flag' = FALSE
     \/ ~flag /\ SleeperGoes(s, "new", "tested") /\ UNCHANGED flag
  /\ UNCHANGED <<notifier, missed>>

\* The mutex is taken, at first or after a wait, and the flag tested.
TestFlag(s) ==
  /\ MutexFree
  /\ \E from \in {"new", "woken"} :
       IF flag THEN SleeperGoes(s, from, "left") /\ flag' = FALSE
               ELSE SleeperGoes(s, from, "tested") /\ UNCHANGED flag
  /\ UNCHANGED <<notifier, missed>>

Sleep(s) ==
  /\ SleeperGoes(s, "tested", "asleep")
  /\ UNCHANGED <<flag, notifier, missed>>

WakeSpuriously(s) ==
  /\ SleeperGoes(s, "asleep", "woken")
  /\ UNCHANGED <<flag, notifier, missed>>

\* wait_for() leaves on a timeout, and clears a flag that was set meanwhile.
GiveUp(s) ==
  /\ MutexFree /\ s \in Timed
  /\ SleeperGoes(s, "asleep", "gone")
  /\ flag' = FALSE
  /\ UNCHANGED <<notifier, missed>>

WakeAll ==
  sleeper' = [s \in Sleepers |-> IF sleeper[s] = "asleep" THEN "woken" ELSE sleeper[s]]

\* Slip: notify(result) without its lock.
NotifyResultUnlocked(n) ==
  /\ NotifierGoes(n, "no", "over")
  /\ flag' = TRUE
  /\ WakeAll
  /\ UNCHANGED missed

NotifyResult(n) ==
  /\ MutexFree
  /\ NotifierGoes(n, "no", "over")
  /\ flag' = TRUE
  /\ WakeAll
  /\ UNCHANGED missed

NotifySetsFlag(n) ==
  /\ NotifierGoes(n, "no", "notify")
  /\ flag' = TRUE
  /\ UNCHANGED <<sleeper, missed>>

NotifyWakes(n) ==
  /\ NotifierGoes(n, "notify", "over")
  /\ WakeAll
  /\ missed' = (missed \/ ~MutexFree)
  /\ UNCHANGED flag

Go(s) == TestFlag(s) \/ Sleep(s)

WaiterNext ==
  \/ \E s \in Sleepers : Go(s) \/ WakeSpuriously(s) \/ GiveUp(s)
  \/ \E n \in Notifiers : NotifyResult(n) \/ NotifySetsFlag(n) \/ NotifyWakes(n)

WaiterSpec == WaiterInit /\ [][WaiterNext]_waiterVars

\* Threads go on once they have begun; nobody has to call wait() or notify(),
\* and no timeout has to pass.
WaiterFairness ==
  /\ \A s \in Sleepers :
       WF_waiterVars(Sleep(s)) /\ WF_waiterVars(sleeper[s] = "woken" /\ TestFlag(s))
  /\ \A n \in Notifiers : WF_waiterVars(NotifyWakes(n))

-----------------------------------------------------------------------------
WaiterTypeOK ==
  /\ flag \in BOOLEAN /\ missed \in BOOLEAN
  /\ sleeper \in [Sleepers -> {"new", "tested", "asleep", "woken", "left", "gone"}]
  /\ notifier \in [Notifiers -> {"no", "notify", "over"}]

Notified == {n \in Notifiers : notifier[n] # "no"}

\* A set flag will let one more thread go.
Owed == IF flag THEN 1 ELSE 0

(***************************************************************************)
(* However many threads a notification wakes, and whatever else wakes      *)
(* them, no more of them return from wait() than there were notifications. *)
(***************************************************************************)
EachNotificationReleasesOne ==
  /\ WaiterTypeOK
  /\ Cardinality(SleeperAt("left")) + Owed <= Cardinality(Notified)
  /\ \A s, t \in SleeperAt("tested") : s = t

(***************************************************************************)
(* A flag that is set while a thread sleeps is taken by somebody, unless a *)
(* notify() without the mutex has fallen between a test and its wait.      *)
(***************************************************************************)
FlagIsTaken == flag /\ SleeperAt("asleep") # {} ~> ~flag \/ missed
=============================================================================

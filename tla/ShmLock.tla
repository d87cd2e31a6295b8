------------------------------- MODULE ShmLock -------------------------------
(***************************************************************************)
(* The lock of a shared-memory topic (ShmTopic::doTimedLock_, doTryLock_). *)
(* The mutex lies in the segment and outlives a process that dies with it, *)
(* so a process that finds it taken for longer than c_lockTimeoutInMS      *)
(* unlocks it on behalf of the owner and tries again.                      *)
(*                                                                         *)
(* Time is relative: age is the time since lastLockTime_, and since[p] the *)
(* time since p last read the clock, so that the difference the code       *)
(* computes, ts - lastLockTime_, is age - since[p].  One unit is a step of *)
(* the clock, a millisecond in the code; a Tick may come between any two   *)
(* statements.  A step is one access to the mutex, to lastLockTime_ or to  *)
(* the clock.  What is done under the lock is module ShmTopic.             *)
(***************************************************************************)
EXTENDS Integers

CONSTANTS
  Procs,         \* processes that use the topic
  Wait,          \* how long a timed wait takes
  Timeout        \* c_lockTimeoutInMS

ASSUME TimeAssumption == Timeout \in Nat /\ Wait \in 1..Timeout

VARIABLES
  locked,        \* the mutex is locked (it does not know by whom)
  age,           \* time since lastLockTime_
  pc,            \* next statement of each process
  isSecondTry,   \* the local of doTimedLock_
  since,         \* time since the process last read the clock, 0 when unused
  sound          \* history: the topic has been used as the lock needs it

vars == <<locked, age, pc, isSecondTry, since, sound>>

MaxSince == Timeout + 1              \* bound on the time between reading and using ts
MaxAge == MaxSince + Timeout + 1     \* older time stamps are not told apart

Pcs == {"idle", "timedLock", "readClock", "compare", "force", "stamp", "stampTs", "owner",
        "tryReadClock", "tryCompare", "tryForce", "tryAgain", "dead"}

\* Statements with ts still to be used.
HasTs == {"compare", "tryCompare", "tryForce", "tryAgain", "stampTs"}

\* The process's scoped_lock owns the mutex, whose time stamp it has yet to write.
Owners == {p \in Procs : pc[p] \in {"stamp", "stampTs", "owner"}}
Unstamped == {p \in Procs : pc[p] \in {"stamp", "stampTs"}}

\* The process has found the mutex taken and has not finished its decision
\* whether to force it.
Deciding == {p \in Procs : pc[p] \in {"readClock", "compare", "force",
                                     "tryReadClock", "tryCompare", "tryForce"}}

\* lastLockTime_ is 0 at first.
Init ==
  /\ locked = FALSE
  /\ age = MaxAge
  /\ pc = [p \in Procs |-> "idle"]
  /\ isSecondTry = [p \in Procs |-> FALSE]
  /\ since = [p \in Procs |-> 0]
  /\ sound = TRUE

\* Process p goes on with statement to.  The clock is read (ts, or the end
\* of the wait) on the way to the statements that use it first.
Goto(p, from, to) ==
  /\ pc[p] = from
  /\ pc' = [pc EXCEPT ![p] = to]
  /\ since' = [since EXCEPT ![p] = IF {from, to} \subseteq HasTs THEN @ ELSE 0]

\* The mutex is free, and p takes it; is another process just deciding
\* whether to force it, its decision will be about the wrong owner.
Lock(p, from, to) ==
  /\ ~locked /\ locked' = TRUE
  /\ sound' = (sound /\ Deciding = {})
  /\ Goto(p, from, to)

\* p finds the mutex taken; has its owner not stamped it yet, p will see the
\* time stamp of an earlier lock.
FindTaken(p, from, to) ==
  /\ locked /\ UNCHANGED locked
  /\ sound' = (sound /\ Unstamped = {})
  /\ Goto(p, from, to)

-----------------------------------------------------------------------------
(* doTimedLock_.                                                           *)

TimedLock(p) ==
  /\ Goto(p, "idle", "timedLock")
  /\ isSecondTry' = [isSecondTry EXCEPT ![p] = FALSE]
  /\ UNCHANGED <<locked, age, sound>>

TimedLocked(p) ==
  /\ Lock(p, "timedLock", "stamp")
  /\ UNCHANGED <<age, isSecondTry>>

TimedLockExpires(p) ==
  /\ since[p] >= Wait
  /\ FindTaken(p, "timedLock", "readClock")
  /\ UNCHANGED <<age, isSecondTry>>

ReadClock(p, from, to) ==
  /\ Goto(p, from, to)
  /\ UNCHANGED <<locked, age, isSecondTry, sound>>

\* uint32_t(ts - lastLockTime_): a negative difference becomes a large one.
LockedTooLong(p) == age - since[p] < 0 \/ age - since[p] > Timeout

\* Slip: the limit itself already counts as too long.
CompareAtLimit(p) ==
  /\ Goto(p, "compare", IF age - since[p] < Timeout THEN "timedLock"
                        ELSE IF isSecondTry[p] THEN "idle" ELSE "force")
  /\ UNCHANGED <<locked, age, isSecondTry, sound>>

\* Too long the second time: false is returned.
Compare(p) ==
  /\ Goto(p, "compare", IF ~LockedTooLong(p) THEN "timedLock"
                        ELSE IF isSecondTry[p] THEN "idle" ELSE "force")
  /\ UNCHANGED <<locked, age, isSecondTry, sound>>

\* Slip: the second try is marked but the mutex stays as it is.
ForceMarkOnly(p) ==
  /\ Goto(p, "force", "timedLock")
  /\ isSecondTry' = [isSecondTry EXCEPT ![p] = TRUE]
  /\ UNCHANGED <<locked, age, sound>>

\* data_->mutex_.unlock(), whoever owns it by now.
ForceUnlock(p) ==
  /\ Goto(p, "force", "timedLock")
  /\ locked' = FALSE
  /\ isSecondTry' = [isSecondTry EXCEPT ![p] = TRUE]
  /\ UNCHANGED <<age, sound>>

\* lastLockTime_ is written, with the time that was read for it.
StampTs(p) ==
  /\ Goto(p, "stampTs", "owner")
  /\ age' = since[p]
  /\ sound' = (sound /\ since[p] <= Timeout)
  /\ UNCHANGED <<locked, isSecondTry>>

-----------------------------------------------------------------------------
(* doTryLock_.                                                             *)

TryLock(p) ==
  /\ Lock(p, "idle", "stamp") \/ FindTaken(p, "idle", "tryReadClock")
  /\ UNCHANGED <<age, isSecondTry>>

\* Here the difference keeps its sign.
TryCompare(p) ==
  /\ Goto(p, "tryCompare", IF age - since[p] > Timeout THEN "tryForce" ELSE "idle")
  /\ UNCHANGED <<locked, age, isSecondTry, sound>>

TryForce(p) ==
  /\ Goto(p, "tryForce", "tryAgain")
  /\ locked' = FALSE
  /\ UNCHANGED <<age, isSecondTry, sound>>

\* Here the time stamp will be the one read before the lock was forced.
TryAgain(p) ==
  /\ \/ Lock(p, "tryAgain", "stampTs")
     \/ locked /\ Goto(p, "tryAgain", "idle") /\ UNCHANGED <<locked, sound>>
  /\ UNCHANGED <<age, isSecondTry>>

-----------------------------------------------------------------------------
\* The destructor of scoped_lock unlocks the mutex, whoever owns it by now.
Release(p) ==
  /\ Goto(p, "owner", "idle")
  /\ locked' = FALSE
  /\ UNCHANGED <<age, isSecondTry, sound>>

Crash(p) ==
  /\ p \in Owners
  /\ Goto(p, pc[p], "dead")
  /\ sound' = FALSE
  /\ UNCHANGED <<locked, age, isSecondTry>>

AtMost(n, limit) == IF n < limit THEN n ELSE limit

\* The clock goes on.
Tick ==
  /\ \A p \in Procs : pc[p] \in HasTs => since[p] < MaxSince
  /\ age' = AtMost(age + 1, MaxAge)
  /\ since' = [p \in Procs |-> IF pc[p] \in HasTs THEN since[p] + 1
                               ELSE IF pc[p] = "timedLock" THEN AtMost(since[p] + 1, Wait) ELSE 0]
  /\ sound' = (sound /\ \A p \in Procs : pc[p] = "owner" => age < Timeout)
  /\ UNCHANGED <<locked, pc, isSecondTry>>

\* The steps of a call that has begun.
Step(p) ==
  \/ TimedLocked(p)
  \/ TimedLockExpires(p)
  \/ ReadClock(p, "readClock", "compare")
  \/ Compare(p)
  \/ ForceUnlock(p)
  \/ ReadClock(p, "stamp", "stampTs")
  \/ StampTs(p)
  \/ ReadClock(p, "tryReadClock", "tryCompare")
  \/ TryCompare(p)
  \/ TryForce(p)
  \/ TryAgain(p)
  \/ Release(p)

Next ==
  \/ \E p \in Procs : TimedLock(p) \/ TryLock(p) \/ Step(p) \/ Crash(p)
  \/ Tick

Spec == Init /\ [][Next]_vars

\* Time passes, and live processes get on with their calls; what they do
\* under the lock is straight-line code.
Fairness == WF_vars(Tick) /\ \A p \in Procs : WF_vars(Step(p))

FairSpec == Spec /\ Fairness

-----------------------------------------------------------------------------
TypeOK ==
  /\ locked \in BOOLEAN
  /\ age \in 0..MaxAge
  /\ pc \in [Procs -> Pcs]
  /\ isSecondTry \in [Procs -> BOOLEAN]
  /\ since \in [Procs -> 0..MaxSince]
  /\ sound \in BOOLEAN

(***************************************************************************)
(* Two processes do not work on the topic at the same time as long as      *)
(*  - no owner has died with the lock, or kept it until its time stamp was *)
(*    older than the limit (Crash, Tick, StampTs),                         *)
(*  - nobody has found it taken before its owner had stamped it            *)
(*    (FindTaken), and                                                     *)
(*  - it has not been taken by one process while another that had found it *)
(*    taken was deciding whether to force it (Lock).                       *)
(* The last two the code leaves to chance: see ForcedWhenTooLong.          *)
(***************************************************************************)
MutualExclusion == sound => \A p, q \in Owners : p = q

(***************************************************************************)
(* A timed lock is forced open only if it has been locked for too long a   *)
(* time, as the message doTimedLock_ logs says.                            *)
(***************************************************************************)
ForcedWhenTooLong ==
  [][\A p \in Procs : pc[p] = "compare" /\ pc'[p] = "force" => age > Timeout]_vars

(***************************************************************************)
(* A lock whose owner has died does not stay locked as long as a process   *)
(* waits for it that has not yet forced it once.                           *)
(***************************************************************************)
Abandoned == locked /\ Owners = {}
FirstTries == {p \in Procs : pc[p] = "timedLock" /\ ~isSecondTry[p]}

AbandonedIsRecovered == Abandoned /\ FirstTries # {} ~> ~Abandoned

-----------------------------------------------------------------------------
\* The lock has one owner, whose time stamp is within the limit; who has
\* found it taken has read the clock after that stamp was made; and who
\* forces it finds it without an owner.
Orderly ==
  /\ MutualExclusion
  /\ locked <=> Owners # {}
  /\ Deciding # {} => Unstamped = {}
  /\ \A p \in Procs :
       /\ pc[p] # "dead"
       /\ pc[p] = "owner" => age <= Timeout
       /\ pc[p] \in {"compare", "tryCompare"} => since[p] <= age
       /\ pc[p] \in {"force", "tryForce"} => Owners = {}

(***************************************************************************)
(* The inductive invariant behind MutualExclusion.                         *)
(***************************************************************************)
IInv == TypeOK /\ (sound => Orderly)
=============================================================================

---------------------------- MODULE ShmLockProofs ----------------------------
(***************************************************************************)
(* The lock of a topic excludes as long as it is used as it needs it (the  *)
(* variable sound of module ShmLock), for any number of processes, any     *)
(* time limit and any timed wait within it.                                *)
(***************************************************************************)
EXTENDS ShmLock, TLAPS

\* The facts about the ages that the steps below use.
LEMMA Limits == /\ Timeout \in Nat /\ Wait \in 1..Timeout /\ MaxSince \in Nat /\ MaxAge \in Nat
                /\ Timeout < MaxSince /\ MaxSince < MaxAge
  BY TimeAssumption DEF MaxSince, MaxAge

\* The initial state satisfies the inductive invariant.
LEMMA InitIInv == Init => IInv
<1> SUFFICES ASSUME Init PROVE IInv
  OBVIOUS
<1>1. TypeOK
  <2>1. MaxAge \in 0..MaxAge /\ 0 \in 0..MaxSince
    BY Limits
  <2>2. QED
    BY <2>1 DEF Init, TypeOK, Pcs
<1>2. Owners = {} /\ Deciding = {} /\ MutualExclusion
  BY DEF Init, Owners, Deciding, MutualExclusion
<1>3. QED
  BY <1>1, <1>2 DEF Init, IInv, Orderly

\* Going on with a statement keeps the types and concerns one process only.
LEMMA GotoIsLocal ==
  ASSUME TypeOK, NEW p \in Procs, NEW from \in Pcs, NEW to \in Pcs, Goto(p, from, to)
  PROVE  /\ pc' \in [Procs -> Pcs] /\ since' \in [Procs -> 0..MaxSince]
         /\ pc[p] = from /\ pc'[p] = to
         /\ from \notin HasTs => since'[p] = 0
         /\ \A q \in Procs \ {p} : pc'[q] = pc[q] /\ since'[q] = since[q]
         /\ Owners' = IF to \in {"stamp", "stampTs", "owner"} THEN Owners \cup {p} ELSE Owners \ {p}
         /\ Unstamped' = IF to \in {"stamp", "stampTs"} THEN Unstamped \cup {p} ELSE Unstamped \ {p}
         /\ Deciding' = IF to \in {"readClock", "compare", "force",
                                  "tryReadClock", "tryCompare", "tryForce"}
                        THEN Deciding \cup {p} ELSE Deciding \ {p}
<1>1. 0 \in 0..MaxSince
  BY Limits
<1>2. pc' \in [Procs -> Pcs] /\ since' \in [Procs -> 0..MaxSince]
  BY <1>1 DEF TypeOK, Goto
<1>3. pc[p] = from /\ pc'[p] = to /\ (from \notin HasTs => since'[p] = 0)
  BY DEF TypeOK, Goto
<1>4. \A q \in Procs \ {p} : pc'[q] = pc[q] /\ since'[q] = since[q]
  BY DEF TypeOK, Goto
<1>5. QED
  BY <1>2, <1>3, <1>4 DEF Owners, Unstamped, Deciding

\* Every step of a process keeps the types.
LEMMA StepTypeOK ==
  ASSUME TypeOK, NEW p \in Procs, TimedLock(p) \/ TryLock(p) \/ Step(p) \/ Crash(p)
  PROVE  TypeOK'
<1>1. \E from, to \in Pcs : Goto(p, from, to)
  <2>1. p \in Procs /\ pc[p] \in Pcs
    BY DEF TypeOK
  <2>2. Pcs = {"idle", "timedLock", "readClock", "compare", "force", "stamp", "stampTs", "owner",
               "tryReadClock", "tryCompare", "tryForce", "tryAgain", "dead"}
    BY DEF Pcs
  <2>3. CASE TimedLock(p) \/ TryLock(p) \/ Crash(p)
    BY <2>1, <2>2, <2>3 DEF TimedLock, TryLock, Crash, Lock, FindTaken
  <2>4. CASE \/ TimedLocked(p) \/ TimedLockExpires(p) \/ ReadClock(p, "readClock", "compare")
             \/ Compare(p) \/ ForceUnlock(p) \/ ReadClock(p, "stamp", "stampTs") \/ StampTs(p)
    BY <2>2, <2>4 DEF TimedLocked, TimedLockExpires, ReadClock, Compare, ForceUnlock, StampTs,
                      Lock, FindTaken
  <2>5. CASE \/ ReadClock(p, "tryReadClock", "tryCompare") \/ TryCompare(p) \/ TryForce(p)
             \/ TryAgain(p) \/ Release(p)
    BY <2>2, <2>5 DEF ReadClock, TryCompare, TryForce, TryAgain, Release, Lock
  <2>6. QED
    BY <2>3, <2>4, <2>5 DEF Step
<1>2. pc' \in [Procs -> Pcs] /\ since' \in [Procs -> 0..MaxSince]
  BY <1>1, GotoIsLocal
<1>3. locked' \in BOOLEAN /\ isSecondTry' \in [Procs -> BOOLEAN] /\ sound' \in BOOLEAN
  BY DEF TypeOK, TimedLock, TryLock, Crash, Step, TimedLocked, TimedLockExpires, ReadClock,
         Compare, ForceUnlock, TryCompare, TryForce, TryAgain, StampTs, Release, Lock, FindTaken
<1>4. age' = age \/ age' = since[p]
  BY DEF TypeOK, TimedLock, TryLock, Crash, Step, TimedLocked, TimedLockExpires, ReadClock,
         Compare, ForceUnlock, TryCompare, TryForce, TryAgain, StampTs, Release
<1>5. age' \in 0..MaxAge
  BY <1>4, Limits DEF TypeOK
<1>6. QED
  BY <1>2, <1>3, <1>5 DEF TypeOK

\* The steps of a process.
LEMMA StepOrderly ==
  ASSUME TypeOK, Orderly, sound, NEW p \in Procs, TimedLock(p) \/ TryLock(p) \/ Step(p)
  PROVE  sound' => Orderly'
<1> SUFFICES ASSUME sound' PROVE Orderly'
  OBVIOUS
<1> DEFINE Local(from, to) ==
      /\ pc[p] = from /\ pc'[p] = to
      /\ from \notin HasTs => since'[p] = 0
      /\ \A q \in Procs \ {p} : pc'[q] = pc[q] /\ since'[q] = since[q]
      /\ Owners' = IF to \in {"stamp", "stampTs", "owner"} THEN Owners \cup {p} ELSE Owners \ {p}
      /\ Unstamped' = IF to \in {"stamp", "stampTs"} THEN Unstamped \cup {p} ELSE Unstamped \ {p}
      /\ Deciding' = IF to \in {"readClock", "compare", "force",
                               "tryReadClock", "tryCompare", "tryForce"}
                     THEN Deciding \cup {p} ELSE Deciding \ {p}
<1>t. TypeOK
  OBVIOUS
<1>g. ASSUME NEW from \in Pcs, NEW to \in Pcs, Goto(p, from, to) PROVE Local(from, to)
  BY <1>t, <1>g, GotoIsLocal
<1>c. {"idle", "timedLock", "readClock", "compare", "force", "stamp", "stampTs", "owner",
       "tryReadClock", "tryCompare", "tryForce", "tryAgain"} \subseteq Pcs
  BY DEF Pcs
<1>n. age \in Nat /\ \A q \in Procs : since[q] \in Nat
  BY <1>t, Limits DEF TypeOK
\* p has taken the mutex: nobody was deciding, and nobody owned it.
<1>l. ASSUME NEW from \in {"idle", "timedLock", "tryAgain"}, NEW to \in {"stamp", "stampTs"},
             Lock(p, from, to), age' = age
      PROVE  Orderly'
  <2>1. Local(from, to)
    BY <1>l, <1>c, <1>g DEF Lock
  <2>2. Owners = {} /\ Owners' = {p} /\ Deciding' = {} /\ locked'
    BY <1>l, <2>1 DEF Lock, Orderly
  <2>3. \A q \in Procs : pc'[q] \notin {"owner", "compare", "tryCompare", "force", "tryForce", "dead"}
    BY <2>1, <2>2 DEF Orderly, Owners, Deciding
  <2>4. QED
    BY <2>2, <2>3 DEF Orderly, MutualExclusion
\* p has found the mutex taken, and stamped.
<1>f. ASSUME NEW from \in {"idle", "timedLock"}, NEW to \in {"readClock", "tryReadClock"},
             FindTaken(p, from, to), age' = age
      PROVE  Orderly'
  <2>1. Local(from, to) /\ locked' = locked
    BY <1>f, <1>c, <1>g DEF FindTaken
  <2>2. Owners' = Owners /\ Unstamped' = {}
    BY <1>f, <2>1 DEF FindTaken, Owners, Unstamped
  <2>3. QED
    BY <1>f, <2>1, <2>2 DEF Orderly, MutualExclusion
\* p goes on without a change to the mutex or its stamp.
<1>s. ASSUME NEW from \in Pcs \ {"stamp", "stampTs", "owner"},
             NEW to \in Pcs \ {"stamp", "stampTs", "owner", "dead"}, Goto(p, from, to),
             p \in Deciding \/ p \notin Deciding',
             to \in {"compare", "tryCompare"} => from \notin HasTs,
             to \in {"force", "tryForce"} => Owners = {},
             locked' = locked, age' = age
      PROVE  Orderly'
  <2>1. Local(from, to)
    BY <1>s, <1>g
  <2>2. Owners' = Owners /\ Unstamped' = Unstamped
    BY <1>s, <2>1 DEF Owners, Unstamped
  <2>3. Deciding' \subseteq Deciding
    BY <1>s, <2>1
  <2>4. \A q \in Procs : pc'[q] \in {"compare", "tryCompare"} => since'[q] <= age
    BY <1>s, <1>n, <2>1 DEF Orderly
  <2>5. QED
    BY <1>s, <2>1, <2>2, <2>3, <2>4 DEF Orderly, MutualExclusion
\* Who forces the mutex finds it without an owner.
<1>u. ASSUME NEW from \in {"force", "tryForce"}, NEW to \in {"timedLock", "tryAgain"},
             Goto(p, from, to), locked' = FALSE, age' = age
      PROVE  Orderly'
  <2>1. Local(from, to)
    BY <1>u, <1>c, <1>g
  <2>2. Owners = {} /\ ~locked
    BY <1>u, <2>1 DEF Orderly
  <2>3. p \notin Deciding'
    BY <2>1
  <2>4. locked' = locked
    BY <1>u, <1>t, <2>2 DEF TypeOK
  <2>5. /\ from \in Pcs \ {"stamp", "stampTs", "owner"}
        /\ to \in Pcs \ {"stamp", "stampTs", "owner", "dead"}
        /\ to \notin {"compare", "tryCompare", "force", "tryForce"}
    BY <1>c, <1>u
  <2>6. QED
    BY <1>u, <1>s, <2>3, <2>4, <2>5
<1>1. CASE TimedLock(p)
  BY <1>1, <1>c, <1>g, <1>s DEF TimedLock
<1>2. CASE TimedLocked(p)
  BY <1>2, <1>l DEF TimedLocked
<1>3. CASE TimedLockExpires(p)
  BY <1>3, <1>f DEF TimedLockExpires
<1>4. CASE ReadClock(p, "readClock", "compare")
  <2>1. p \in Deciding
    BY <1>4 DEF ReadClock, Goto, Deciding
  <2>2. QED
    BY <1>4, <2>1, <1>c, <1>s DEF ReadClock, HasTs
<1>5. CASE Compare(p)
  <2>1. p \in Deciding /\ pc[p] = "compare"
    BY <1>5 DEF Compare, Goto, Deciding
  <2>2. LockedTooLong(p) => Owners = {}
    <3> SUFFICES ASSUME NEW q \in Owners PROVE ~LockedTooLong(p)
      OBVIOUS
    <3>1. pc[q] = "owner"
      BY <2>1 DEF Owners, Unstamped, Orderly
    <3>2. age <= Timeout /\ since[p] <= age
      BY <2>1, <3>1 DEF Orderly, Owners
    <3>3. QED
      BY <3>2, <1>n, Limits DEF LockedTooLong
  <2>3. PICK to \in {"timedLock", "idle", "force"} :
          Goto(p, "compare", to) /\ (to = "force" => Owners = {})
    BY <1>5, <2>2 DEF Compare
  <2>4. QED
    BY <1>5, <2>1, <2>3, <1>c, <1>s DEF Compare
<1>6. CASE ForceUnlock(p)
  BY <1>6, <1>u DEF ForceUnlock
<1>7. CASE ReadClock(p, "stamp", "stampTs")
  <2>1. Local("stamp", "stampTs")
    BY <1>7, <1>c, <1>g DEF ReadClock
  <2>2. Owners' = Owners /\ Unstamped' = Unstamped /\ Deciding' = Deciding
    BY <2>1 DEF Owners, Unstamped, Deciding
  <2>3. QED
    BY <1>7, <2>1, <2>2 DEF ReadClock, Orderly, MutualExclusion
<1>8. CASE StampTs(p)
  <2>1. Local("stampTs", "owner")
    BY <1>8, <1>c, <1>g DEF StampTs
  <2>2. p \in Owners /\ p \in Unstamped
    BY <2>1 DEF Owners, Unstamped
  <2>3. Owners' = Owners /\ Deciding' = {}
    BY <2>1, <2>2 DEF Orderly
  <2>4. age' <= Timeout
    BY <1>8 DEF StampTs
  <2>5. \A q \in Procs : pc'[q] \notin {"compare", "tryCompare", "force", "tryForce"}
    BY <2>3 DEF Deciding
  <2>6. QED
    BY <1>8, <2>1, <2>3, <2>4, <2>5 DEF StampTs, Orderly, MutualExclusion
<1>9. CASE TryLock(p)
  BY <1>9, <1>l, <1>f DEF TryLock
<1>10. CASE ReadClock(p, "tryReadClock", "tryCompare")
  <2>1. p \in Deciding
    BY <1>10 DEF ReadClock, Goto, Deciding
  <2>2. QED
    BY <1>10, <2>1, <1>c, <1>s DEF ReadClock, HasTs
<1>11. CASE TryCompare(p)
  <2>1. p \in Deciding /\ pc[p] = "tryCompare"
    BY <1>11 DEF TryCompare, Goto, Deciding
  <2>2. age - since[p] > Timeout => Owners = {}
    <3> SUFFICES ASSUME NEW q \in Owners PROVE ~(age - since[p] > Timeout)
      OBVIOUS
    <3>1. pc[q] = "owner"
      BY <2>1 DEF Owners, Unstamped, Orderly
    <3>2. age <= Timeout
      BY <3>1 DEF Orderly, Owners
    <3>3. QED
      BY <3>2, <2>1, <1>n, Limits
  <2>3. PICK to \in {"idle", "tryForce"} :
          Goto(p, "tryCompare", to) /\ (to = "tryForce" => Owners = {})
    BY <1>11, <2>2 DEF TryCompare
  <2>4. QED
    BY <1>11, <2>1, <2>3, <1>c, <1>s DEF TryCompare
<1>12. CASE TryForce(p)
  BY <1>12, <1>u DEF TryForce
<1>13. CASE TryAgain(p)
  <2>1. CASE Lock(p, "tryAgain", "stampTs")
    BY <1>13, <2>1, <1>l DEF TryAgain
  <2>2. CASE Goto(p, "tryAgain", "idle") /\ locked' = locked
    <3>1. Local("tryAgain", "idle")
      BY <2>2, <1>c, <1>g
    <3>2. QED
      BY <1>13, <2>2, <3>1, <1>c, <1>s DEF TryAgain
  <2>3. QED
    BY <1>13, <2>1, <2>2 DEF TryAgain
<1>14. CASE Release(p)
  <2>1. Local("owner", "idle")
    BY <1>14, <1>c, <1>g DEF Release
  <2>2. p \in Owners /\ Owners' = {} /\ Deciding' = Deciding /\ Unstamped' \subseteq Unstamped
    BY <2>1 DEF Owners, Deciding, Orderly, MutualExclusion
  <2>3. QED
    BY <1>14, <2>1, <2>2 DEF Release, Orderly, MutualExclusion
<1>15. QED
  BY <1>1, <1>2, <1>3, <1>4, <1>5, <1>6, <1>7, <1>8, <1>9, <1>10, <1>11, <1>12, <1>13, <1>14
  DEF Step

\* The clock goes on.
LEMMA TickTypeOK == ASSUME TypeOK, Tick PROVE TypeOK'
<1> USE Limits
<1>1. age' \in 0..MaxAge
  BY DEF Tick, AtMost, TypeOK
<1>2. since' \in [Procs -> 0..MaxSince]
  BY DEF Tick, AtMost, TypeOK
<1>3. QED
  BY <1>1, <1>2 DEF Tick, TypeOK

\* A tick keeps the lock in order, or ends the use it needs.
LEMMA TickOrderly == ASSUME TypeOK, Orderly, sound, Tick PROVE sound' => Orderly'
<1> USE Limits
<1> SUFFICES ASSUME sound' PROVE Orderly'
  OBVIOUS
<1>1. /\ pc' = pc /\ locked' = locked /\ Owners' = Owners
      /\ Unstamped' = Unstamped /\ Deciding' = Deciding
  BY DEF Tick, Owners, Unstamped, Deciding
<1>2. \A p \in Procs : pc[p] = "owner" => age' <= Timeout
  <2>1. \A p \in Procs : pc[p] = "owner" => age < Timeout
    BY DEF Tick
  <2>2. age < Timeout => age' <= Timeout
    BY DEF Tick, AtMost, TypeOK
  <2>3. QED
    BY <2>1, <2>2
<1>3. ASSUME NEW p \in Procs, pc[p] \in {"compare", "tryCompare"} PROVE since'[p] <= age'
  <2>1. since'[p] = since[p] + 1 /\ since[p] < MaxSince /\ since[p] <= age
    BY <1>3 DEF Tick, HasTs, Orderly
  <2>2. QED
    BY <1>3, <2>1 DEF Tick, AtMost, TypeOK
<1>4. QED
  BY <1>1, <1>2, <1>3 DEF Orderly, MutualExclusion

(***************************************************************************)
(* As long as the lock is used as it needs, its time stamp is within the   *)
(* limit and older than the reading of whoever has found it taken, so that *)
(* nobody comes to force a mutex that has an owner.                        *)
(***************************************************************************)
THEOREM LockInvariance == Spec => []IInv
<1>1. IInv /\ [Next]_vars => IInv'
  <2> SUFFICES ASSUME IInv, [Next]_vars PROVE IInv'
    OBVIOUS
  <2>1. CASE UNCHANGED vars
    BY <2>1 DEF vars, IInv, TypeOK, Orderly, MutualExclusion, Owners, Unstamped, Deciding
  <2>2. CASE Tick
    BY <2>2, TickTypeOK, TickOrderly DEF IInv, Tick
  <2>3. ASSUME NEW p \in Procs, TimedLock(p) \/ TryLock(p) \/ Step(p) \/ Crash(p)
        PROVE  IInv'
    <3>1. TypeOK'
      BY <2>3, StepTypeOK DEF IInv
    <3>2. sound' => sound /\ ~Crash(p)
      BY <2>3 DEF IInv, TypeOK, TimedLock, TryLock, Crash, Step, TimedLocked, TimedLockExpires,
         ReadClock, Compare, ForceUnlock, TryCompare, TryForce, TryAgain, StampTs, Release,
         Lock, FindTaken
    <3>3. QED
      BY <2>3, <3>1, <3>2, StepOrderly DEF IInv
  <2>4. QED
    BY <2>1, <2>2, <2>3 DEF Next
<1>2. QED
  BY InitIInv, <1>1, PTL DEF Spec

(***************************************************************************)
(* Two processes never work on a topic at the same time, provided that no  *)
(* owner dies with the lock or keeps it for longer than the time limit,    *)
(* that it is found taken only once it is stamped, and that it does not    *)
(* change hands while somebody decides whether to force it; however long   *)
(* any statement takes otherwise.                                          *)
(***************************************************************************)
THEOREM LockExcludes == Spec => []MutualExclusion
<1>1. IInv => MutualExclusion
  BY DEF IInv, Orderly, MutualExclusion
<1>2. QED
  BY LockInvariance, <1>1, PTL
=============================================================================

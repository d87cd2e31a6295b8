-------------------------- MODULE AsyncSynchronizer --------------------------
(***************************************************************************)
(* Waiting for the answer of an asynchronous call (AsyncSynchronizer):     *)
(* its callback may be called by any thread, more than once and late, and  *)
(* any number of threads wait with waitForResult or tryWaitForResult.      *)
(*                                                                         *)
(* lock_ makes the test and the beginning of a wait one step, as it does   *)
(* the body of onCallback; a thread that has been woken, for one of three  *)
(* reasons, has yet to take the lock again.                                *)
(***************************************************************************)
EXTENDS Naturals, FiniteSets

CONSTANTS
  Waiters,
  Trying,        \* those that use tryWaitForResult
  Answers,       \* calls of the callback, each with an answer of its own
  NoAnswer, Timeout

ASSUME SyncAssumption ==
  /\ Trying \subseteq Waiters
  /\ NoAnswer \notin Answers /\ Timeout \notin Answers /\ NoAnswer # Timeout

VARIABLES
  answer,        \* result_ and ec_, NoAnswer while done_ is false
  waiter,        \* progress of each waiter
  woken,         \* why cond_.wait_for returned
  outcome,       \* what each waiter was given, Timeout for false or a throw
  callback       \* progress of each call of the callback

syncVars == <<answer, waiter, woken, outcome, callback>>

SyncInit ==
  /\ answer = NoAnswer
  /\ waiter = [w \in Waiters |-> "new"]
  /\ woken = [w \in Waiters |-> "no"]
  /\ outcome = [w \in Waiters |-> NoAnswer]
  /\ callback = [a \in Answers |-> "no"]

WaiterGoes(w, from, to) == waiter[w] = from /\ waiter' = [waiter EXCEPT ![w] = to]
CallbackGoes(a, from, to) == callback[a] = from /\ callback' = [callback EXCEPT ![a] = to]

GivenAnswer == IF answer = NoAnswer THEN Timeout ELSE answer

Leave(w, from, what) ==
  WaiterGoes(w, from, "left") /\ outcome' = [outcome EXCEPT ![w] = what]

\* The answer is there already.
FindAnswer(w) ==
  /\ answer # NoAnswer
  /\ Leave(w, "new", answer)
  /\ UNCHANGED <<answer, woken, callback>>

BeginWait(w) ==
  /\ answer = NoAnswer
  /\ WaiterGoes(w, "new", "blocked")
  /\ UNCHANGED <<answer, woken, outcome, callback>>

\* The timeout has passed, or a wake-up without a reason.
WakeBySelf(w) ==
  /\ WaiterGoes(w, "blocked", "woken")
  /\ \E reason \in {"timeout", "spurious"} : woken' = [woken EXCEPT ![w] = reason]
  /\ UNCHANGED <<answer, outcome, callback>>

\* waitForResult goes by the reason first; no wait is begun a second time.
EndWait(w) ==
  /\ Leave(w, "woken", IF w \notin Trying /\ woken[w] = "timeout" THEN Timeout ELSE GivenAnswer)
  /\ UNCHANGED <<answer, woken, callback>>

\* Slip: a later answer takes the place of the first one.
OnCallbackAgain(a) ==
  /\ CallbackGoes(a, "no", "notify") /\ answer' = a
  /\ UNCHANGED <<waiter, woken, outcome>>

\* The callback keeps the synchronizer alive, so that weakSelf is never empty.
OnCallback(a) ==
  /\ IF answer = NoAnswer
     THEN CallbackGoes(a, "no", "notify") /\ answer' = a
     ELSE CallbackGoes(a, "no", "over") /\ UNCHANGED answer
  /\ UNCHANGED <<waiter, woken, outcome>>

Blocked == {w \in Waiters : waiter[w] = "blocked"}

\* Slip: notify_one().
NotifyOne(a) ==
  /\ CallbackGoes(a, "notify", "over")
  /\ \E s \in SUBSET Blocked :
       /\ Cardinality(s) = IF Blocked = {} THEN 0 ELSE 1
       /\ waiter' = [w \in Waiters |-> IF w \in s THEN "woken" ELSE waiter[w]]
       /\ woken' = [w \in Waiters |-> IF w \in s THEN "notified" ELSE woken[w]]
  /\ UNCHANGED <<answer, outcome>>

\* notify_all() comes after the lock has been given back.
NotifyAll(a) ==
  /\ CallbackGoes(a, "notify", "over")
  /\ waiter' = [w \in Waiters |-> IF w \in Blocked THEN "woken" ELSE waiter[w]]
  /\ woken' = [w \in Waiters |-> IF w \in Blocked THEN "notified" ELSE woken[w]]
  /\ UNCHANGED <<answer, outcome>>

SyncNext ==
  \/ \E w \in Waiters : FindAnswer(w) \/ BeginWait(w) \/ WakeBySelf(w) \/ EndWait(w)
  \/ \E a \in Answers : OnCallback(a) \/ NotifyAll(a)

SyncSpec == SyncInit /\ [][SyncNext]_syncVars

\* Threads go on.  The clock is given no fairness, so that nothing rests on it.
SyncFairness ==
  /\ \A w \in Waiters : WF_syncVars(EndWait(w))
  /\ \A a \in Answers : WF_syncVars(NotifyAll(a))

-----------------------------------------------------------------------------
SyncTypeOK ==
  /\ answer \in Answers \cup {NoAnswer}
  /\ waiter \in [Waiters -> {"new", "blocked", "woken", "left"}]
  /\ woken \in [Waiters -> {"no", "notified", "spurious", "timeout"}]
  /\ outcome \in [Waiters -> Answers \cup {NoAnswer, Timeout}]
  /\ callback \in [Answers -> {"no", "notify", "over"}]

(***************************************************************************)
(* All waiters that are given an answer are given the same one, whichever  *)
(* calls of the callback come later; nobody leaves with nothing; and       *)
(* nobody whom the callback has woken is told of a timeout.                *)
(***************************************************************************)
AnswerStands ==
  /\ SyncTypeOK
  /\ \A w \in Waiters :
       /\ outcome[w] \in
            IF waiter[w] = "left" THEN {answer, Timeout} \ {NoAnswer} ELSE {NoAnswer}
       /\ outcome[w] = Timeout => woken[w] \in {"timeout", "spurious"}
       /\ woken[w] = "notified" => answer # NoAnswer
       /\ waiter[w] = "woken" => woken[w] # "no"
  /\ \A a \in Answers : callback[a] = "notify" => answer = a

(***************************************************************************)
(* Once there is an answer everybody who waits goes on, without the help   *)
(* of the clock.                                                           *)
(***************************************************************************)
AnswerWakesAll ==
  \A w \in Waiters : answer # NoAnswer /\ waiter[w] = "blocked" ~> waiter[w] = "left"
=============================================================================

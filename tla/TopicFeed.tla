----------------------------- MODULE TopicFeed ------------------------------
(***************************************************************************)
(* What a shared-memory topic promises to those who read it: published     *)
(* messages form one log of which the topic keeps the last Capacity; a     *)
(* subscription starts at the end of the log; ShmSubscriptionQosAll ("read *)
(* all message") gets every kept message once and in order, and            *)
(* ShmSubscriptionQosAtMostOnce ("read latest message") gets the last one, *)
(* at most once; readAll gets all that is new.                             *)
(*                                                                         *)
(* This is the abstract specification ShmTopic is shown to implement: no   *)
(* sequence numbers, memory handles, recycling or retirement.              *)
(***************************************************************************)
EXTENDS Naturals, Sequences

CONSTANTS Readers, Payloads, Capacity

VARIABLES log,      \* payloads published
          mode,     \* "closed", or the quality of service of each subscription
          cursor,   \* how much of the log each open subscription has passed
          reply     \* the payloads each reader was last given

vars == <<log, mode, cursor, reply>>

Init ==
  /\ log = <<>>
  /\ mode = [r \in Readers |-> "closed"]
  /\ cursor = [r \in Readers |-> 0]
  /\ reply = [r \in Readers |-> <<>>]

Open == {r \in Readers : mode[r] # "closed"}

Oldest == IF Len(log) > Capacity THEN Len(log) - Capacity + 1 ELSE 1

\* The first kept message that reader r has not passed.
NextFor(r) == IF cursor[r] >= Oldest THEN cursor[r] + 1 ELSE Oldest

\* A message is published; subscriptions that timed out are closed with it.
Publish ==
  /\ \E p \in Payloads : log' = Append(log, p)
  /\ \E gone \in SUBSET Open :
       /\ mode' = [r \in Readers |-> IF r \in gone THEN "closed" ELSE mode[r]]
       /\ cursor' = [r \in Readers |-> IF r \in gone THEN 0 ELSE cursor[r]]
  /\ UNCHANGED reply

Subscribe(r) ==
  /\ r \notin Open
  /\ \E q \in {"all", "atMostOnce"} : mode' = [mode EXCEPT ![r] = q]
  /\ cursor' = [cursor EXCEPT ![r] = Len(log)]
  /\ reply' = [reply EXCEPT ![r] = <<>>]
  /\ UNCHANGED log

\* Reader r is given the messages i..j and has passed j.
Give(r, i, j) ==
  /\ r \in Open
  /\ i <= j
  /\ reply' = [reply EXCEPT ![r] = SubSeq(log, i, j)]
  /\ cursor' = [cursor EXCEPT ![r] = j]
  /\ UNCHANGED <<log, mode>>

ReadNext(r) ==
  mode[r] = "all" /\ NextFor(r) <= Len(log) /\ Give(r, NextFor(r), NextFor(r))

ReadLatest(r) ==
  mode[r] = "atMostOnce" /\ cursor[r] < Len(log) /\ Give(r, Len(log), Len(log))

ReadAll(r) == Give(r, NextFor(r), Len(log))

Close(r) ==
  /\ mode' = [mode EXCEPT ![r] = "closed"]
  /\ cursor' = [cursor EXCEPT ![r] = 0]
  /\ UNCHANGED <<log, reply>>

Next ==
  \/ Publish
  \/ \E r \in Readers :
       Subscribe(r) \/ ReadNext(r) \/ ReadLatest(r) \/ ReadAll(r) \/ Close(r)

Spec == Init /\ [][Next]_vars
=============================================================================

------------------------------ MODULE ShmTopic ------------------------------
(***************************************************************************)
(* A shared-memory topic (ShmTopic, ShmSubscription): one publisher and    *)
(* some readers, usually in different processes, work on one ShmTopicData  *)
(* under its mutex, so that each call is one atomic step.  The mutex       *)
(* itself (timed locking, forced release) is left out here.                *)
(*                                                                         *)
(* A message carries as payload the number of the publish call that sent   *)
(* it; memory is a set of handles, each an object that is free or          *)
(* allocated.  The clock is abstracted: a subscription with a time limit   *)
(* may have expired at any publish.  Every client is a process of its own. *)
(***************************************************************************)
EXTENDS Integers, Sequences, FiniteSets

CONSTANTS
  Readers,          \* client objects that subscribe (ShmSubscription)
  Handles,          \* memory_handle_t: places for objects in the segment
  NoHandle,         \* a client without subscription
  Singleton,        \* the topic is ShmTopicQosMessageSingleton
  MaxMessageCount,  \* c_maxMessageCount
  MaxTrash,         \* maxMessageTrashSize_
  Limited,          \* subscriptions have a time limit (timeoutInSeconds_)
  AllocFails,       \* the segment may run out of memory
  MaxPublish        \* bound on the publish calls of a behaviour

ASSUME ShmTopicAssumption ==
  /\ NoHandle \notin Handles
  /\ Singleton \in BOOLEAN /\ Limited \in BOOLEAN /\ AllocFails \in BOOLEAN
  /\ MaxMessageCount \in Nat \ {0}
  /\ MaxTrash \in Nat
  /\ MaxPublish \in Nat

VARIABLES
  messages,         \* messages_, oldest first
  recycleBin,       \* recycleBin_
  lastSeq,          \* lastGeneratedMsgSeqNum_
  subscriptions,    \* subscriptions_
  subData,          \* the ShmSubscriptionData at each handle
  payload,          \* the payload object at each handle; Garbage if there is none
  allocated,        \* handles of the objects that have been constructed
  reader,           \* subHandle of each client, NoHandle once topic_ is reset
  reply,            \* the payloads each client was last given
  log,              \* history: payloads of the publish calls that succeeded
  aborted           \* clients whose process an assertion has ended

vars == <<messages, recycleBin, lastSeq, subscriptions, subData, payload,
          allocated, reader, reply, log, aborted>>

SubscriptionQos == {"atMostOnce", "all"}
Garbage == 0
NoData == [qos |-> "atMostOnce", latest |-> 0]

Init ==
  /\ messages = <<>>
  /\ recycleBin = <<>>
  /\ lastSeq = 0
  /\ subscriptions = {}
  /\ subData = [h \in Handles |-> NoData]
  /\ payload = [h \in Handles |-> Garbage]
  /\ allocated = {}
  /\ reader = [r \in Readers |-> NoHandle]
  /\ reply = [r \in Readers |-> <<>>]
  /\ log = <<>>
  /\ aborted = {}

\* The queue and its memory, which the helpers below take and give back.
Store == [messages |-> messages, bin |-> recycleBin,
          payload |-> payload, allocated |-> allocated]

Commit(q) ==
  /\ messages' = q.messages
  /\ recycleBin' = q.bin
  /\ payload' = q.payload
  /\ allocated' = q.allocated

-----------------------------------------------------------------------------
(* Retirement of messages.                                                 *)

\* retireFirstMessage_, k times: handles go to the recycle bin while there
\* is room and are destroyed after that.
RetireFirst(q, k) ==
  LET n == IF k <= MaxTrash - Len(q.bin) THEN k ELSE MaxTrash - Len(q.bin)
      gone == {q.messages[i].handle : i \in (n + 1)..k}
  IN  [messages  |-> SubSeq(q.messages, k + 1, Len(q.messages)),
       bin       |-> q.bin \o [i \in 1..n |-> q.messages[i].handle],
       payload   |-> [h \in Handles |-> IF h \in gone THEN Garbage ELSE q.payload[h]],
       allocated |-> q.allocated \ gone]

\* Slip: one subscription that has passed the message is enough.
PassedBySome(m, subs, data) == \E h \in subs : m.seq <= data[h].latest

\* Every subscription of subs has passed the message.
Passed(m, subs, data) == \A h \in subs : m.seq <= data[h].latest

\* retireMessages_: retire the messages at the front that all have passed.
\* A singleton topic never calls it.
Retire(q, subs, data) ==
  IF Singleton THEN q
  ELSE RetireFirst(q, Cardinality({i \in 1..Len(q.messages) :
                         \A j \in 1..i : Passed(q.messages[j], subs, data)}))

-----------------------------------------------------------------------------
(* doPublish_.                                                             *)

\* The subscriptions that retireSubscriptions_ finds expired.
Expired == IF Limited THEN SUBSET subscriptions ELSE {{}}

\* What ends a successful publish that has made the store q: expired
\* subscriptions are removed, and messages only they had not passed retired.
Published(q) ==
  /\ \E gone \in Expired :
       LET left == subscriptions \ gone
           rest == [q EXCEPT !.allocated = @ \ gone]
       IN  /\ Commit(IF gone = {} THEN q ELSE Retire(rest, left, subData))
           /\ subscriptions' = left
           /\ subData' = [h \in Handles |-> IF h \in gone THEN NoData ELSE subData[h]]
  /\ lastSeq' = lastSeq + 1
  /\ log' = Append(log, lastSeq + 1)
  /\ UNCHANGED <<reader, reply, aborted>>

InPlace == Singleton /\ messages # <<>>

\* A singleton topic overwrites its message.
PublishInPlace ==
  /\ InPlace
  /\ lastSeq < MaxPublish
  /\ LET h == messages[1].handle
         m == [handle |-> h, seq |-> lastSeq + 1]
     IN  Published([messages  |-> [messages EXCEPT ![1] = m],
                    bin       |-> recycleBin,
                    payload   |-> [payload EXCEPT ![h] = lastSeq + 1],
                    allocated |-> allocated])

\* Where the payload can go: the last recycled object, or a new one.
PayloadHandles ==
  IF recycleBin = <<>> THEN Handles \ allocated ELSE {recycleBin[Len(recycleBin)]}

\* Slip: the handle is used but stays in the recycle bin.
TakeNoPop(h) ==
  [messages  |-> messages,
   bin       |-> recycleBin,
   payload   |-> [payload EXCEPT ![h] = lastSeq + 1],
   allocated |-> allocated \cup {h}]

\* The payload is copied to h.
Take(h) ==
  [messages  |-> messages,
   bin       |-> IF recycleBin = <<>> THEN <<>>
                 ELSE SubSeq(recycleBin, 1, Len(recycleBin) - 1),
   payload   |-> [payload EXCEPT ![h] = lastSeq + 1],
   allocated |-> allocated \cup {h}]

\* A full queue loses its oldest messages.
MakeRoom(q) ==
  RetireFirst(q, IF Len(q.messages) >= MaxMessageCount
                 THEN Len(q.messages) - MaxMessageCount + 1 ELSE 0)

PublishNew ==
  /\ ~InPlace
  /\ lastSeq < MaxPublish
  /\ \E h \in PayloadHandles :
       Published([MakeRoom(Take(h)) EXCEPT
                    !.messages = Append(@, [handle |-> h, seq |-> lastSeq + 1])])

Publish == IF InPlace THEN PublishInPlace ELSE PublishNew

\* No memory for the payload object: false is returned, after the sequence
\* number was taken.
PublishRefused ==
  /\ AllocFails
  /\ ~InPlace /\ recycleBin = <<>>
  /\ lastSeq < MaxPublish
  /\ lastSeq' = lastSeq + 1
  /\ UNCHANGED <<messages, recycleBin, subscriptions, subData, payload, allocated,
                 reader, reply, log, aborted>>

\* bad_alloc while the payload is copied or the entry appended.  In place the
\* old payload is kept or half overwritten, as its type has it; a new object,
\* at h, stays behind without an owner.
PublishThrows ==
  /\ AllocFails
  /\ lastSeq < MaxPublish
  /\ IF InPlace
     THEN \E left \in {payload[messages[1].handle], Garbage} :
            Commit([Store EXCEPT !.payload = [@ EXCEPT ![messages[1].handle] = left]])
     ELSE \E h \in PayloadHandles : Commit(Take(h)) \/ Commit(MakeRoom(Take(h)))
  /\ lastSeq' = lastSeq + 1
  /\ UNCHANGED <<subscriptions, subData, reader, reply, log, aborted>>

-----------------------------------------------------------------------------
(* Subscribing and unsubscribing.                                          *)

\* Slip: a new subscription starts at the beginning of the numbering.
SubscribeFromZero(r) ==
  /\ reader[r] = NoHandle
  /\ \E h \in Handles \ allocated, q \in SubscriptionQos :
       /\ allocated' = allocated \cup {h}
       /\ subData' = [subData EXCEPT ![h] = [qos |-> q, latest |-> 0]]
       /\ subscriptions' = subscriptions \cup {h}
       /\ reader' = [reader EXCEPT ![r] = h]
  /\ reply' = [reply EXCEPT ![r] = <<>>]
  /\ UNCHANGED <<messages, recycleBin, lastSeq, payload, log, aborted>>

Subscribe(r) ==
  /\ reader[r] = NoHandle
  /\ \E h \in Handles \ allocated, q \in SubscriptionQos :
       /\ allocated' = allocated \cup {h}
       /\ subData' = [subData EXCEPT ![h] = [qos |-> q, latest |-> lastSeq]]
       /\ subscriptions' = subscriptions \cup {h}
       /\ reader' = [reader EXCEPT ![r] = h]
  /\ reply' = [reply EXCEPT ![r] = <<>>]
  /\ UNCHANGED <<messages, recycleBin, lastSeq, payload, log, aborted>>

\* bad_alloc when the handle is inserted: the data object stays behind.
SubscribeThrows(r) ==
  /\ AllocFails
  /\ reader[r] = NoHandle
  /\ \E h \in Handles \ allocated : allocated' = allocated \cup {h}
  /\ UNCHANGED <<messages, recycleBin, lastSeq, subscriptions, subData, payload,
                 reader, reply, log, aborted>>

\* unsubscribe() and the destructor of ShmSubscription.
Unsubscribe(r) ==
  /\ reader[r] \in subscriptions
  /\ LET h == reader[r]
         left == subscriptions \ {h}
     IN  /\ subscriptions' = left
         /\ subData' = [subData EXCEPT ![h] = NoData]
         /\ Commit(Retire([Store EXCEPT !.allocated = @ \ {h}], left, subData))
  /\ reader' = [reader EXCEPT ![r] = NoHandle]
  /\ UNCHANGED <<lastSeq, reply, log, aborted>>

\* The same without the lock, or when the subscription had been removed: the
\* client drops the topic, and a subscription that is there stays.
Abandon(r) ==
  /\ reader[r] # NoHandle
  /\ reader' = [reader EXCEPT ![r] = NoHandle]
  /\ UNCHANGED <<messages, recycleBin, lastSeq, subscriptions, subData, payload,
                 allocated, reply, log, aborted>>

-----------------------------------------------------------------------------
(* Reading.                                                                *)

\* Slip: latestMsgSeqNum_ stays as it was.
DeliverOnly(r, i, j) ==
  /\ reply' = [reply EXCEPT ![r] =
                 [k \in 1..(j - i + 1) |-> payload[messages[i + k - 1].handle]]]
  /\ Commit(Retire(Store, subscriptions, subData))
  /\ UNCHANGED <<subData, lastSeq, subscriptions, reader, log, aborted>>

\* Client r is given messages[i..j].
Deliver(r, i, j) ==
  LET data == [subData EXCEPT ![reader[r]].latest = messages[j].seq]
  IN  /\ subData' = data
      /\ reply' = [reply EXCEPT ![r] =
                     [k \in 1..(j - i + 1) |-> payload[messages[i + k - 1].handle]]]
      /\ Commit(Retire(Store, subscriptions, data))
      /\ UNCHANGED <<lastSeq, subscriptions, reader, log, aborted>>

Between(n) == messages # <<>> /\ messages[1].seq < n /\ n <= messages[Len(messages)].seq

\* Slip: the offset into the queue is one too small.
LookupNextShort(last) ==
  IF Between(last + 1) THEN last - messages[1].seq + 1
  ELSE IF messages # <<>> /\ last + 1 <= messages[1].seq THEN 1
  ELSE Len(messages) + 1

\* Where the first message after number last is taken to be; the end of the
\* queue is Len(messages) + 1.
LookupNext(last) ==
  IF Between(last + 1) THEN last - messages[1].seq + 2
  ELSE IF messages # <<>> /\ last + 1 <= messages[1].seq THEN 1
  ELSE Len(messages) + 1

\* The two assertions of lookupNextMessage_.
LookupAsserts(last) ==
  Between(last + 1) =>
    /\ LookupNext(last) \in 1..Len(messages)
    /\ messages[LookupNext(last)].seq = last + 1

Last(r) == subData[reader[r]].latest

\* read and tryRead.
ReadLatest(r) ==
  /\ reader[r] \in subscriptions
  /\ subData[reader[r]].qos = "atMostOnce"
  /\ messages # <<>>
  /\ Last(r) # messages[Len(messages)].seq
  /\ Deliver(r, Len(messages), Len(messages))

ReadNext(r) ==
  /\ reader[r] \in subscriptions
  /\ subData[reader[r]].qos = "all"
  /\ LookupAsserts(Last(r))
  /\ LookupNext(Last(r)) <= Len(messages)
  /\ Deliver(r, LookupNext(Last(r)), LookupNext(Last(r)))

ReadAll(r) ==
  /\ reader[r] \in subscriptions
  /\ LookupAsserts(Last(r))
  /\ LookupNext(Last(r)) <= Len(messages)
  /\ Deliver(r, LookupNext(Last(r)), Len(messages))

\* read of an "all" subscription, and readAll, when an assertion fails.  The
\* process ends with the mutex held, which the others force open in time.
ReadAborts(r) ==
  /\ reader[r] \in subscriptions
  /\ ~LookupAsserts(Last(r))
  /\ aborted' = aborted \cup {r}
  /\ UNCHANGED <<messages, recycleBin, lastSeq, subscriptions, subData, payload,
                 allocated, reader, reply, log>>

\* A read that returns false: there is no subscription, or nothing is new.
ReadNothing == UNCHANGED vars

-----------------------------------------------------------------------------
Reads(r) == ReadLatest(r) \/ ReadNext(r) \/ ReadAll(r) \/ ReadAborts(r)

Next ==
  \/ Publish
  \/ PublishRefused
  \/ PublishThrows
  \/ \E r \in Readers \ aborted :
       \/ Subscribe(r) \/ SubscribeThrows(r)
       \/ Unsubscribe(r) \/ Abandon(r)
       \/ Reads(r)
  \/ ReadNothing

Spec == Init /\ [][Next]_vars

-----------------------------------------------------------------------------
StoreType ==
  [messages : Seq([handle : Handles, seq : Nat]), bin : Seq(Handles),
   payload : [Handles -> Nat], allocated : SUBSET Handles]

TypeOK ==
  /\ Store \in StoreType
  /\ lastSeq \in Nat
  /\ subscriptions \subseteq Handles
  /\ subData \in [Handles -> [qos : SubscriptionQos, latest : Nat]]
  /\ reader \in [Readers -> Handles \cup {NoHandle}]
  /\ aborted \subseteq Readers

MessageHandles(q) == {q.messages[i].handle : i \in 1..Len(q.messages)}
BinHandles(q) == {q.bin[i] : i \in 1..Len(q.bin)}

\* No handle occurs twice in the queue or twice in the recycle bin.
NoRepeats(q) ==
  /\ \A i, j \in 1..Len(q.messages) :
       i # j => q.messages[i].handle # q.messages[j].handle
  /\ \A i, j \in 1..Len(q.bin) : i # j => q.bin[i] # q.bin[j]

Owned(q, subs) ==
  /\ NoRepeats(q)
  /\ MessageHandles(q) \cap BinHandles(q) = {}
  /\ MessageHandles(q) \cap subs = {}
  /\ BinHandles(q) \cap subs = {}
  /\ MessageHandles(q) \cup BinHandles(q) \cup subs \subseteq q.allocated

(***************************************************************************)
(* No object in the segment has two owners, of queued messages, recycled   *)
(* payloads and subscriptions, and what has an owner is not destroyed,     *)
(* whatever fails on the way.  An object may have lost its owner: see      *)
(* NothingLeaks, SubscribeThrows and PublishThrows.                        *)
(***************************************************************************)
AtMostOneOwner == Owned(Store, subscriptions)

(***************************************************************************)
(* As long as allocation succeeds nothing is lost either: the objects that *)
(* are allocated are the ones that have an owner.                          *)
(***************************************************************************)
Exact(q, subs) == q.allocated \subseteq MessageHandles(q) \cup BinHandles(q) \cup subs
NothingLeaks == ~AllocFails => Exact(Store, subscriptions)

(***************************************************************************)
(* A client of a queue is never given an older message than one it was     *)
(* given before, though numbers are left out, subscriptions expire, and    *)
(* the handle it still holds may meanwhile be that of another's            *)
(* subscription.  (Then it may be given its last message again.)           *)
(***************************************************************************)
RepliesNeverGoBack ==
  [][\A r \in Readers :
       ~Singleton /\ reply[r] # <<>> /\ reply'[r] \notin {reply[r], <<>>}
         => reply[r][Len(reply[r])] <= reply'[r][1]]_vars

(***************************************************************************)
(* The queue is where lookupNextMessage_ expects it: positions differ as   *)
(* sequence numbers do (the assertions at the end of lookupNextMessage_).  *)
(***************************************************************************)
LookupHolds == aborted = {}

\* The queue holds the last sequence numbers, up to last, without a gap.
UpTo(q, last) ==
  \A i \in 1..Len(q.messages) : q.messages[i].seq = last - Len(q.messages) + i

Contiguous == UpTo(Store, lastSeq)

\* How many messages the queue may hold.
Capacity == IF Singleton THEN 1 ELSE MaxMessageCount

(***************************************************************************)
(* Readers get what TopicFeed promises: every kept message once and in     *)
(* order, or the latest one at most once, with the payload that was        *)
(* published, across retirement, recycling and overflow of the queue.      *)
(***************************************************************************)
Feed == INSTANCE TopicFeed WITH
  Payloads <- 1..MaxPublish,
  Capacity <- Capacity,
  mode <- [r \in Readers |->
            IF reader[r] \in subscriptions THEN subData[reader[r]].qos ELSE "closed"],
  cursor <- [r \in Readers |->
            IF reader[r] \in subscriptions THEN Last(r) ELSE 0]
ImplementsFeed == Feed!Spec

(***************************************************************************)
(* The inductive invariant: no object has two owners, the recycle bin keeps  *)
(* to its limit, and while allocation succeeds the queue is contiguous and *)
(* nothing leaks.                                                          *)
(***************************************************************************)
IInv ==
  /\ TypeOK
  /\ AtMostOneOwner
  /\ Len(recycleBin) <= MaxTrash
  /\ Singleton => Len(messages) <= 1
  /\ NothingLeaks
  /\ ~AllocFails => Contiguous /\ LookupHolds

-----------------------------------------------------------------------------
\* The payload of a queued message is that of the call that published it.
Faithful(q) ==
  \A i \in 1..Len(q.messages) : q.payload[q.messages[i].handle] = q.messages[i].seq

\* With n messages left of those up to last, none is gone that a subscription
\* of subs has still to read, unless the queue is full.
Kept(n, last, subs, data) ==
  /\ n <= Capacity /\ n <= last
  /\ \A h \in subs : last - n <= data[h].latest \/ n = Capacity

\* A client that has a handle has a subscription, and it is nobody else's.
HandlesAreOwn ==
  \A r \in Readers : reader[r] # NoHandle =>
    /\ reader[r] \in subscriptions
    /\ \A s \in Readers : reader[s] = reader[r] => s = r

(***************************************************************************)
(* The invariant behind ImplementsFeed, on top of IInv, for topics whose   *)
(* allocation succeeds and whose subscriptions do not expire.              *)
(***************************************************************************)
FeedInv ==
  /\ log = [i \in 1..lastSeq |-> i] /\ lastSeq <= MaxPublish
  /\ Faithful(Store)
  /\ Kept(Len(messages), lastSeq, subscriptions, subData)
  /\ \A h \in subscriptions : subData[h].latest <= lastSeq
  /\ HandlesAreOwn
=============================================================================

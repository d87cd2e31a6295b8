--------------------------- MODULE UtilitiesProofs ---------------------------
(***************************************************************************)
(* Proofs about small classes of the SDK, for any requests, handles,       *)
(* threads, topics, calls, handlers and emitters.                          *)
(***************************************************************************)
EXTENDS HttpsClient, AsyncSynchronizer, Waiter, ShmTopicManager, ConfigProvider,
        DynamicConfig, UdpClient, Signal, ThreadedService,
        FiniteSetTheorems, SequenceTheorems, WellFoundedInduction, TLAPS

-----------------------------------------------------------------------------
(* AsyncSynchronizer.                                                      *)

LEMMA WaiterStepKeepsAnswer ==
  ASSUME AnswerStands, NEW w \in Waiters,
         FindAnswer(w) \/ BeginWait(w) \/ WakeBySelf(w) \/ EndWait(w)
  PROVE  AnswerStands'
<1>1. CASE FindAnswer(w)
  BY <1>1, SyncAssumption DEF AnswerStands, SyncTypeOK, FindAnswer, Leave, WaiterGoes
<1>2. CASE BeginWait(w)
  BY <1>2 DEF AnswerStands, SyncTypeOK, BeginWait, WaiterGoes
<1>3. CASE WakeBySelf(w)
  BY <1>3 DEF AnswerStands, SyncTypeOK, WakeBySelf, WaiterGoes
<1>4. CASE EndWait(w)
  BY <1>4, SyncAssumption
  DEF AnswerStands, SyncTypeOK, EndWait, Leave, WaiterGoes, GivenAnswer
<1>5. QED
  BY <1>1, <1>2, <1>3, <1>4

LEMMA CallbackKeepsAnswer ==
  ASSUME AnswerStands, NEW a \in Answers, OnCallback(a) \/ NotifyAll(a)
  PROVE  AnswerStands'
<1>1. CASE OnCallback(a)
  BY <1>1, SyncAssumption DEF AnswerStands, SyncTypeOK, OnCallback, CallbackGoes
<1>2. CASE NotifyAll(a)
  BY <1>2, SyncAssumption DEF AnswerStands, SyncTypeOK, NotifyAll, CallbackGoes, Blocked
<1>3. QED
  BY <1>1, <1>2

(***************************************************************************)
(* The first answer is the one everybody is given, for any number of       *)
(* waiters and of calls of the callback.                                   *)
(***************************************************************************)
THEOREM FirstAnswerStands == SyncSpec => []AnswerStands
<1>1. SyncInit => AnswerStands
  BY SyncAssumption DEF SyncInit, AnswerStands, SyncTypeOK
<1>2. AnswerStands /\ [SyncNext]_syncVars => AnswerStands'
  <2> SUFFICES ASSUME AnswerStands, [SyncNext]_syncVars PROVE AnswerStands'
    OBVIOUS
  <2>1. CASE UNCHANGED syncVars
    BY <2>1 DEF syncVars, AnswerStands, SyncTypeOK
  <2>2. QED
    BY <2>1, WaiterStepKeepsAnswer, CallbackKeepsAnswer DEF SyncNext
<1>3. QED
  BY <1>1, <1>2, PTL DEF SyncSpec

-----------------------------------------------------------------------------
(* Waiter.                                                                 *)

\* Threads that have left and notifications can be counted.
LEMMA Counts ==
  /\ IsFiniteSet(SleeperAt("left")) /\ Cardinality(SleeperAt("left")) \in Nat
  /\ IsFiniteSet(Notified) /\ Cardinality(Notified) \in Nat
<1>1. SleeperAt("left") \in SUBSET Sleepers /\ Notified \in SUBSET Notifiers
  BY DEF SleeperAt, Notified
<1>2. IsFiniteSet(SleeperAt("left"))
  BY <1>1, WaiterAssumption, FS_Subset
<1>3. IsFiniteSet(Notified)
  BY <1>1, WaiterAssumption, FS_Subset
<1>4. QED
  BY <1>2, <1>3, FS_CardinalityType

\* A step that lets nobody go and sets no flag.
LEMMA NobodyReleased ==
  ASSUME EachNotificationReleasesOne, flag' => flag,
         SleeperAt("left")' = SleeperAt("left"), Notified' = Notified
  PROVE  (Cardinality(SleeperAt("left")) + Owed <= Cardinality(Notified))'
<1>1. flag \in BOOLEAN /\ Cardinality(SleeperAt("left")) + Owed <= Cardinality(Notified)
  BY DEF EachNotificationReleasesOne, WaiterTypeOK
<1>2. Owed' <= Owed /\ Owed \in Nat /\ Owed' \in Nat
  BY DEF Owed
<1>3. QED
  BY <1>1, <1>2, Counts

LEMMA SleeperReleasesOne ==
  ASSUME EachNotificationReleasesOne, NEW s \in Sleepers,
         Go(s) \/ WakeSpuriously(s) \/ GiveUp(s)
  PROVE  EachNotificationReleasesOne'
<1>1. WaiterTypeOK'
  BY DEF EachNotificationReleasesOne, WaiterTypeOK, Go, TestFlag, Sleep, WakeSpuriously, GiveUp,
     SleeperGoes
<1>2. (\A q, r \in SleeperAt("tested") : q = r)'
  BY DEF EachNotificationReleasesOne, WaiterTypeOK, Go, TestFlag, Sleep, WakeSpuriously, GiveUp,
     SleeperGoes, SleeperAt, MutexFree
<1>3. Notified' = Notified
  BY DEF Go, TestFlag, Sleep, WakeSpuriously, GiveUp, Notified
<1>4. CASE flag /\ TestFlag(s)
  <2>1. /\ s \notin SleeperAt("left") /\ SleeperAt("left")' = SleeperAt("left") \cup {s}
        /\ ~flag'
    BY <1>4 DEF TestFlag, SleeperGoes, SleeperAt, EachNotificationReleasesOne, WaiterTypeOK
  <2>2. Cardinality(SleeperAt("left")') = Cardinality(SleeperAt("left")) + 1
    BY <2>1, Counts, FS_AddElement
  <2>3. Cardinality(SleeperAt("left")) + 1 <= Cardinality(Notified)
    BY <1>4 DEF EachNotificationReleasesOne, Owed
  <2>4. (Cardinality(SleeperAt("left")) + Owed <= Cardinality(Notified))'
    BY <1>3, <2>1, <2>2, <2>3, Counts DEF Owed
  <2>5. QED
    BY <1>1, <1>2, <2>4 DEF EachNotificationReleasesOne
<1>5. CASE ~(flag /\ TestFlag(s))
  <2>1. SleeperAt("left")' = SleeperAt("left") /\ (flag' => flag)
    BY <1>5 DEF Go, TestFlag, Sleep, WakeSpuriously, GiveUp, SleeperGoes, SleeperAt,
       EachNotificationReleasesOne, WaiterTypeOK
  <2>2. QED
    BY <1>1, <1>2, <1>3, <2>1, NobodyReleased DEF EachNotificationReleasesOne
<1>6. QED
  BY <1>4, <1>5

LEMMA NotifierReleasesOne ==
  ASSUME EachNotificationReleasesOne, NEW n \in Notifiers,
         NotifyResult(n) \/ NotifySetsFlag(n) \/ NotifyWakes(n)
  PROVE  EachNotificationReleasesOne'
<1>1. WaiterTypeOK'
  BY DEF EachNotificationReleasesOne, WaiterTypeOK, NotifyResult, NotifySetsFlag, NotifyWakes,
     NotifierGoes, WakeAll
<1>2. \A place \in {"left", "tested"} : SleeperAt(place)' = SleeperAt(place)
  BY DEF EachNotificationReleasesOne, WaiterTypeOK, NotifyResult, NotifySetsFlag, NotifyWakes,
     WakeAll, SleeperAt
<1>3. (\A q, r \in SleeperAt("tested") : q = r)'
  BY <1>2 DEF EachNotificationReleasesOne
<1>4. CASE NotifyResult(n) \/ NotifySetsFlag(n)
  <2>1. n \notin Notified /\ Notified' = Notified \cup {n} /\ flag'
    BY <1>4 DEF NotifyResult, NotifySetsFlag, NotifierGoes, Notified,
       EachNotificationReleasesOne, WaiterTypeOK
  <2>2. Cardinality(Notified') = Cardinality(Notified) + 1
    BY <2>1, Counts, FS_AddElement
  <2>3. Cardinality(SleeperAt("left")) <= Cardinality(Notified)
    BY Counts DEF EachNotificationReleasesOne, Owed
  <2>4. (Cardinality(SleeperAt("left")) + Owed <= Cardinality(Notified))'
    BY <1>2, <2>1, <2>2, <2>3, Counts DEF Owed
  <2>5. QED
    BY <1>1, <1>3, <2>4 DEF EachNotificationReleasesOne
<1>5. CASE NotifyWakes(n)
  <2>1. Notified' = Notified /\ flag' = flag
    BY <1>5 DEF NotifyWakes, NotifierGoes, Notified, EachNotificationReleasesOne, WaiterTypeOK
  <2>2. QED
    BY <1>1, <1>2, <1>3, <2>1, NobodyReleased DEF EachNotificationReleasesOne
<1>6. QED
  BY <1>4, <1>5

(***************************************************************************)
(* No more threads return from wait() than there were notifications, for   *)
(* any number of both.                                                     *)
(***************************************************************************)
THEOREM NotificationsAreCounted == WaiterSpec => []EachNotificationReleasesOne
<1>1. WaiterInit => EachNotificationReleasesOne
  <2> SUFFICES ASSUME WaiterInit PROVE EachNotificationReleasesOne
    OBVIOUS
  <2>1. SleeperAt("left") = {} /\ Owed = 0 /\ WaiterTypeOK /\ SleeperAt("tested") = {}
    BY DEF WaiterInit, SleeperAt, Owed, WaiterTypeOK
  <2>2. QED
    BY <2>1, Counts, FS_EmptySet DEF EachNotificationReleasesOne
<1>2. EachNotificationReleasesOne /\ [WaiterNext]_waiterVars => EachNotificationReleasesOne'
  <2> SUFFICES ASSUME EachNotificationReleasesOne, [WaiterNext]_waiterVars
               PROVE  EachNotificationReleasesOne'
    OBVIOUS
  <2>1. CASE UNCHANGED waiterVars
    BY <2>1
    DEF waiterVars, EachNotificationReleasesOne, WaiterTypeOK, SleeperAt, Owed, Notified
  <2>2. QED
    BY <2>1, SleeperReleasesOne, NotifierReleasesOne DEF WaiterNext
<1>3. QED
  BY <1>1, <1>2, PTL DEF WaiterSpec

-----------------------------------------------------------------------------
(* HttpsClient.                                                            *)

LEMMA SendHttpsIInv ==
  ASSUME HttpsIInv, NEW r \in Requests,
         MakeEasy(r) \/ NoEasy(r) \/ EnterContext(r) \/ AddHandle(r)
  PROVE  HttpsIInv'
<1>1. CASE MakeEasy(r)
  BY <1>1, HttpsAssumption DEF HttpsIInv, HttpsTypeOK, Open, MakeEasy, Stage, clientVars
<1>2. CASE NoEasy(r)
  BY <1>2, HttpsAssumption DEF HttpsIInv, HttpsTypeOK, Open, NoEasy, Stage, clientVars
<1>3. CASE EnterContext(r)
  BY <1>3, HttpsAssumption DEF HttpsIInv, HttpsTypeOK, Open, EnterContext, Stage, clientVars
<1>4. CASE AddHandle(r)
  BY <1>4, HttpsAssumption DEF HttpsIInv, HttpsTypeOK, Open, AddHandle, Stage, clientVars
<1>5. QED
  BY <1>1, <1>2, <1>3, <1>4

LEMMA OwnerHttpsIInv ==
  ASSUME HttpsIInv, HttpsStart \/ HttpsStop \/ HttpsJoin
  PROVE  HttpsIInv'
<1>1. CASE HttpsStart
  BY <1>1 DEF HttpsIInv, HttpsTypeOK, Open, HttpsStart, sendVars
<1>2. CASE HttpsStop
  BY <1>2 DEF HttpsIInv, HttpsTypeOK, Open, HttpsStop, sendVars
<1>3. CASE HttpsJoin
  BY <1>3 DEF HttpsIInv, HttpsTypeOK, Open, HttpsJoin, sendVars
<1>4. QED
  BY <1>1, <1>2, <1>3

\* A transfer that has ended leads to its request, which has not been answered.
LEMMA ReadMessageHttpsIInv == ASSUME HttpsIInv, ReadMessage PROVE HttpsIInv'
<1>1. PICK c \in Ended : current' = c /\ transfer' = [transfer EXCEPT ![c] = "no"]
                        /\ (contexts[c] # NoRequest =>
                              /\ Select("read", "handler")
                              /\ answers' = [answers EXCEPT ![contexts[c]] = @ + 1])
  BY DEF ReadMessage
<1>2. PICK r \in Requests : handle[r] = c /\ Open(r) /\ stage[r] = "sent"
  BY DEF Ended, HttpsIInv
<1>3. c \in Curls /\ c \in easy /\ contexts[c] = r /\ answers[r] = 0
  BY <1>2 DEF HttpsIInv, HttpsTypeOK, Open, Ended
<1>4. /\ selector = "read" /\ selector' = "handler"
      /\ answers' = [answers EXCEPT ![r] = 1]
  BY <1>1, <1>3, HttpsAssumption DEF Select, HttpsIInv, HttpsTypeOK
<1>5. UNCHANGED <<quit, multi, starts, stopper, stage, handle, easy, contexts>>
  BY DEF ReadMessage, clientVars, sendVars
<1>6. HttpsTypeOK'
  BY <1>1, <1>3, <1>4, <1>5 DEF HttpsIInv, HttpsTypeOK
<1>7. \A s \in Requests : Open(s)' <=> Open(s) /\ s # r
  BY <1>2, <1>4, <1>5 DEF Open, HttpsIInv, HttpsTypeOK
<1>8. QED
  BY <1>1, <1>2, <1>3, <1>4, <1>5, <1>6, <1>7 DEF HttpsIInv, HttpsTypeOK

LEMMA WorkerHttpsIInv ==
  ASSUME HttpsIInv, Perform \/ Worker
  PROVE  HttpsIInv'
<1>1. CASE Perform
  BY <1>1 DEF HttpsIInv, HttpsTypeOK, Open, Perform, Running, clientVars, sendVars
<1>2. CASE Wake \/ Performed \/ NoMessage
  BY <1>2 DEF HttpsIInv, HttpsTypeOK, Open, Wake, Performed, NoMessage, Select, clientVars, sendVars
<1>3. CASE HandlerReturns
  BY <1>3 DEF HttpsIInv, HttpsTypeOK, Open, HandlerReturns, Select, clientVars, sendVars
<1>4. CASE CleanupEasy
  BY <1>4, HttpsAssumption
  DEF HttpsIInv, HttpsTypeOK, Open, CleanupEasy, Select, clientVars, sendVars
<1>5. QED
  BY <1>1, <1>2, <1>3, <1>4, ReadMessageHttpsIInv DEF Worker

(***************************************************************************)
(* Each request is answered at most once, over a handle that is its own    *)
(* until then, for any requests, any addresses and any number of starts.   *)
(***************************************************************************)
THEOREM RequestsKeepTheirHandles == HttpsSpec => []HttpsIInv
<1>1. HttpsInit => HttpsIInv
  <2> SUFFICES ASSUME HttpsInit PROVE HttpsIInv
    OBVIOUS
  <2>1. HttpsTypeOK
    BY DEF HttpsInit, HttpsTypeOK
  <2>2. \A r \in Requests : ~Open(r) /\ answers[r] = 0
    BY DEF HttpsInit, Open
  <2>3. QED
    BY <2>1, <2>2 DEF HttpsInit, HttpsIInv
<1>2. HttpsIInv /\ [HttpsNext]_httpsVars => HttpsIInv'
  <2> SUFFICES ASSUME HttpsIInv, [HttpsNext]_httpsVars PROVE HttpsIInv'
    OBVIOUS
  <2>1. CASE UNCHANGED httpsVars
    BY <2>1 DEF httpsVars, clientVars, sendVars, HttpsIInv, HttpsTypeOK, Open
  <2>2. QED
    BY <2>1, SendHttpsIInv, OwnerHttpsIInv, WorkerHttpsIInv DEF HttpsNext
<1>3. QED
  BY <1>1, <1>2, PTL DEF HttpsSpec

-----------------------------------------------------------------------------
(* ShmTopicManager.                                                        *)

LEMMA GetKeepsReach ==
  ASSUME TopicsAreReached, NEW c \in Clients, NEW n \in Names,
         GetOrCreateTopic(c, n) \/ InsertThrows(c, n)
  PROVE  TopicsAreReached'
<1>1. CASE GetOrCreateTopic(c, n)
  <2>1. CASE topics[n] # NoTopic
    BY <1>1, <2>1, ManagerAssumption
    DEF TopicsAreReached, ManagerTypeOK, GetOrCreateTopic, mapVars, taskVars, Live, Deletes,
      MapLeadsToTopics, DeletedByOne, NoneIsForgotten
  <2>2. CASE topics[n] = NoTopic
    BY <1>1, <2>2, ManagerAssumption
    DEF TopicsAreReached, ManagerTypeOK, GetOrCreateTopic, Construct, taskVars, Live, Deletes,
      MapLeadsToTopics, DeletedByOne, NoneIsForgotten
  <2>3. QED
    BY <2>1, <2>2
<1>2. CASE InsertThrows(c, n)
  BY <1>2, ManagerAssumption
  DEF TopicsAreReached, ManagerTypeOK, InsertThrows, Construct, taskVars, Live, Deletes,
      MapLeadsToTopics, DeletedByOne, NoneIsForgotten
<1>3. QED
  BY <1>1, <1>2

LEMMA DeleteKeepsReach ==
  ASSUME TopicsAreReached, NEW c \in Clients,
         (\E n \in Names : DeleteByName(c, n)) \/ DeleteByPointer(c)
  PROVE  TopicsAreReached'
<1>1. ASSUME NEW n \in Names, DeleteByName(c, n) PROVE TopicsAreReached'
  BY <1>1, ManagerAssumption
  DEF TopicsAreReached, ManagerTypeOK, DeleteByName, Turn, Live, Deletes,
      MapLeadsToTopics, DeletedByOne, NoneIsForgotten
<1>2. CASE DeleteByPointer(c)
  BY <1>2, ManagerAssumption
  DEF TopicsAreReached, ManagerTypeOK, DeleteByPointer, Turn, mapVars, Live
<1>3. QED
  BY <1>1, <1>2

LEMMA DestroyKeepsReach ==
  ASSUME TopicsAreReached, NEW c \in Clients,
         Destroy(c) \/ DestroyFails(c) \/ Erase(c)
  PROVE  TopicsAreReached'
<1>1. CASE Destroy(c)
  <2>1. /\ nameOf' = [nameOf EXCEPT ![target[c]] = NoName]
        /\ target' = [target EXCEPT ![c] = NoTopic]
        /\ UNCHANGED <<topics, lost, hold, key, byPointer>>
        /\ \/ task[c] = "destroy" /\ task' = [task EXCEPT ![c] = "none"]
           \/ task[c] = "destroyIt" /\ task' = [task EXCEPT ![c] = "erase"]
    BY <1>1 DEF Destroy, DestroyReturns, Turn
  <2>2. ManagerTypeOK'
    BY <2>1 DEF TopicsAreReached, ManagerTypeOK
  <2>3. ASSUME ~byPointer
        PROVE  (MapLeadsToTopics /\ DeletedByOne /\ NoneIsForgotten /\ lost \subseteq Live)'
    <3>1. task[c] = "destroy" /\ task' = [task EXCEPT ![c] = "none"] /\ target[c] \in Live \ lost
      BY <2>1, <2>3 DEF TopicsAreReached, DeletedByOne
    <3>2. Live' = Live \ {target[c]}
      BY <2>1, <3>1, ManagerAssumption DEF TopicsAreReached, ManagerTypeOK, Live
    <3>3. \A p \in Places \ {target[c]} : nameOf'[p] = nameOf[p]
      BY <2>1 DEF TopicsAreReached, ManagerTypeOK
    <3>4. MapLeadsToTopics'
      BY <2>1, <2>3, <3>1, <3>2, <3>3
      DEF TopicsAreReached, ManagerTypeOK, MapLeadsToTopics, DeletedByOne
    <3>5. DeletedByOne'
      BY <2>1, <2>3, <3>1, <3>2
      DEF TopicsAreReached, ManagerTypeOK, DeletedByOne, Deletes
    <3>6. NoneIsForgotten'
      BY <2>1, <2>3, <3>1, <3>2, <3>3
      DEF TopicsAreReached, ManagerTypeOK, NoneIsForgotten, Deletes, Live
    <3>7. QED
      BY <2>1, <2>3, <3>1, <3>2, <3>4, <3>5, <3>6 DEF TopicsAreReached
  <2>4. QED
    BY <2>1, <2>2, <2>3 DEF TopicsAreReached
<1>2. CASE DestroyFails(c)
  <2>1. /\ lost' = lost \cup {target[c]}
        /\ target' = [target EXCEPT ![c] = NoTopic]
        /\ UNCHANGED <<topics, nameOf, hold, key, byPointer>>
        /\ \/ task[c] = "destroy" /\ task' = [task EXCEPT ![c] = "none"]
           \/ task[c] = "destroyIt" /\ task' = [task EXCEPT ![c] = "erase"]
    BY <1>2 DEF DestroyFails, DestroyReturns, Turn
  <2>2. ManagerTypeOK'
    BY <2>1 DEF TopicsAreReached, ManagerTypeOK
  <2>3. ASSUME ~byPointer
        PROVE  (MapLeadsToTopics /\ DeletedByOne /\ NoneIsForgotten /\ lost \subseteq Live)'
    <3>1. task[c] = "destroy" /\ task' = [task EXCEPT ![c] = "none"] /\ target[c] \in Live \ lost
      BY <2>1, <2>3 DEF TopicsAreReached, DeletedByOne
    <3>2. Live' = Live
      BY <2>1 DEF Live
    <3>3. QED
      BY <2>1, <2>3, <3>1, <3>2
      DEF TopicsAreReached, ManagerTypeOK, MapLeadsToTopics, DeletedByOne, NoneIsForgotten, Deletes
  <2>4. QED
    BY <2>1, <2>2, <2>3 DEF TopicsAreReached
<1>3. CASE Erase(c)
  BY <1>3, ManagerAssumption
  DEF TopicsAreReached, ManagerTypeOK, Erase, Turn, Live, Deletes,
      MapLeadsToTopics, DeletedByOne, NoneIsForgotten
<1>4. QED
  BY <1>1, <1>2, <1>3

\* Whoever finds, makes and deletes topics by their names, the map leads to
\* topics that are there, and none is forgotten unless something failed.
THEOREM TopicsStayReached == ManagerSpec => []TopicsAreReached
<1>1. ManagerInit => TopicsAreReached
  BY DEF ManagerInit, TopicsAreReached, ManagerTypeOK, Live, Deletes,
      MapLeadsToTopics, DeletedByOne, NoneIsForgotten
<1>2. TopicsAreReached /\ [ManagerNext]_managerVars => TopicsAreReached'
  <2> SUFFICES ASSUME TopicsAreReached, [ManagerNext]_managerVars PROVE TopicsAreReached'
    OBVIOUS
  <2>1. CASE ManagerNext
    <3>1. PICK c \in Clients :
            \/ \E n \in Names : GetOrCreateTopic(c, n) \/ InsertThrows(c, n) \/ DeleteByName(c, n)
            \/ DeleteByPointer(c) \/ Destroy(c) \/ DestroyFails(c) \/ Erase(c)
      BY <2>1 DEF ManagerNext
    <3>2. QED
      BY <3>1, GetKeepsReach, DeleteKeepsReach, DestroyKeepsReach
  <2>2. CASE UNCHANGED managerVars
    BY <2>2 DEF TopicsAreReached, ManagerTypeOK, managerVars, mapVars, taskVars, Live, Deletes,
        MapLeadsToTopics, DeletedByOne, NoneIsForgotten
  <2>3. QED
    BY <2>1, <2>2
<1>3. QED
  BY <1>1, <1>2, PTL DEF ManagerSpec

-----------------------------------------------------------------------------
(* ConfigProvider.                                                         *)

LEMMA ConfigStep == NoUpdateIsMissed /\ ConfigNext => NoUpdateIsMissed'
<1> SUFFICES ASSUME NoUpdateIsMissed, ConfigNext PROVE NoUpdateIsMissed'
  OBVIOUS
<1> USE ConfigAssumption DEF NoUpdateIsMissed, ConfigTypeOK
<1>1. CASE UpdateConfig
  BY <1>1 DEF UpdateConfig, readerVars
<1>2. CASE UpdateReturns
  BY <1>2 DEF UpdateReturns, readerVars
<1>3. ASSUME NEW l \in Listeners, BroadcastSignal(l) PROVE NoUpdateIsMissed'
  BY <1>3 DEF BroadcastSignal, readerVars
<1>4. ASSUME NEW l \in Listeners, NEW initSignalled \in BOOLEAN, AddListener(l, initSignalled)
      PROVE  NoUpdateIsMissed'
  BY <1>4 DEF AddListener, updateVars, readerVars
<1>5. ASSUME NEW l \in Listeners, TestSignal(l) PROVE NoUpdateIsMissed'
  BY <1>5 DEF TestSignal, Look, After, updateVars
<1>6. ASSUME NEW l \in Listeners, ResetSignal(l) PROVE NoUpdateIsMissed'
  BY <1>6 DEF ResetSignal, Look, After, updateVars
<1>7. ASSUME NEW l \in Listeners, GetConfig(l) PROVE NoUpdateIsMissed'
  BY <1>7 DEF GetConfig, Look, After, updateVars
<1>8. QED
  BY <1>1, <1>2, <1>3, <1>4, <1>5, <1>6, <1>7 DEF ConfigNext

\* A reader that resets its signal before it gets the configuration misses no
\* update, for any number of readers and updates.
THEOREM UpdatesAreNoticed == ConfigSpec => []NoUpdateIsMissed
<1>1. ConfigInit => NoUpdateIsMissed
  <2>1. ASSUME ConfigInit PROVE ConfigTypeOK
    <3>1. config \in Nat /\ updating \in BOOLEAN
      BY <2>1 DEF ConfigInit
    <3>2. untold \subseteq registered /\ registered \subseteq Listeners
      BY <2>1 DEF ConfigInit
    <3>3. signalled \in [Listeners -> BOOLEAN]
      BY <2>1 DEF ConfigInit
    <3>4. looking \in [Listeners -> {"test", "reset", "get"}]
      BY <2>1 DEF ConfigInit
    <3>5. seen \in [Listeners -> Nat] /\ known \in [Listeners -> Nat]
      BY <2>1 DEF ConfigInit
    <3>6. QED
      BY <3>1, <3>2, <3>3, <3>4, <3>5 DEF ConfigTypeOK
  <2>2. ConfigInit => registered = {} /\ untold = {}
    BY DEF ConfigInit
  <2>3. QED
    BY <2>1, <2>2 DEF NoUpdateIsMissed
<1>2. NoUpdateIsMissed /\ UNCHANGED configVars => NoUpdateIsMissed'
  BY DEF NoUpdateIsMissed, ConfigTypeOK, configVars, updateVars, readerVars
<1>3. QED
  BY <1>1, <1>2, ConfigStep, PTL DEF ConfigSpec

-----------------------------------------------------------------------------
(* DynamicConfig.                                                          *)

\* What the dispatcher has parsed stays in the second half until it parses
\* again, one thread at most copies it, and whoever is about to reset the
\* flag has copied it, or another is doing so.
Takeover ==
  /\ ~Writing => parsed.second = newest
  /\ \A t, u \in Copying : t = u
  /\ Copying = {} => parsed.first # HalfWay
  /\ dynamicAt["dispatcher"] \in {"parse", "flag"} \/ parsed.first = newest \/ Copying # {}
       \/ (writed /\ \A t \in Threads : dynamicAt[t] # "reset")

DynamicIInv ==
  /\ DynamicTypeOK
  /\ Writing => Sharing = {}
  /\ overtaken \/ garbled \/ torn \/ Takeover

\* Steps of dispatch() keep what has been parsed ahead of what is shown.
LEMMA DispatchKeepsTakeover ==
  ASSUME DynamicIInv, BeginParse \/ EndParse \/ ParseFails \/ SetWrited
  PROVE  DynamicIInv'
<1> USE DynamicAssumption DEF DynamicIInv, DynamicTypeOK, Takeover, Threads, Writing, Sharing, Copying, HalfWay, Step
<1>1. CASE BeginParse
  BY <1>1 DEF BeginParse
<1>2. CASE EndParse
  BY <1>2 DEF EndParse
<1>3. CASE ParseFails
  BY <1>3 DEF ParseFails
<1>4. CASE SetWrited
  BY <1>4 DEF SetWrited
<1>5. QED
  BY <1>1, <1>2, <1>3, <1>4

\* Steps of config() do, too.
LEMMA ReadKeepsTakeover ==
  ASSUME DynamicIInv, NEW t \in Threads,
         Config(t) \/ ReadLocked(t) \/ BeginCopy(t) \/ EndCopy(t) \/ ResetWrited(t)
  PROVE  DynamicIInv'
<1> USE DynamicAssumption DEF DynamicIInv, DynamicTypeOK, Takeover, Threads, Writing, Sharing, Copying, HalfWay, Step
<1>1. CASE Config(t)
  BY <1>1 DEF Config
<1>2. CASE ReadLocked(t)
  BY <1>2 DEF ReadLocked
<1>3. CASE BeginCopy(t)
  <2>1. /\ dynamicAt[t] = "copy" /\ dynamicAt'[t] = "copying"
        /\ \A u \in Threads \ {t} : dynamicAt'[u] = dynamicAt[u]
        /\ dynamicAt' \in [Threads -> {"out", "parse", "flag", "enter", "lock", "copy",
                                      "copying", "reset"}]
    BY <1>3 DEF BeginCopy
  <2>2. Copying' = Copying \cup {t} /\ Sharing' = Sharing /\ t \in Sharing /\ ~Writing /\ ~Writing'
    BY <2>1
  <2>3. /\ parsed' = [parsed EXCEPT !.first = HalfWay] /\ torn' = (torn \/ Copying # {})
        /\ UNCHANGED <<writed, dispatches, newest, overtaken, garbled>>
    BY <1>3 DEF BeginCopy
  <2>4. HalfWay \in 0..HalfWay /\ torn' \in BOOLEAN
    BY <2>3
  <2>5. DynamicTypeOK'
    BY <2>1, <2>3, <2>4
  <2>6. (overtaken \/ garbled \/ torn \/ Takeover)'
    <3>1. SUFFICES ASSUME ~overtaken, ~garbled, ~torn, Copying = {} PROVE Takeover'
      BY <2>3
    <3>2. parsed'.second = newest' /\ Copying' = {t}
      BY <2>2, <2>3, <3>1
    <3>3. QED
      BY <2>2, <3>2 DEF Copying
  <2>7. QED
    BY <2>2, <2>5, <2>6
<1>4. CASE EndCopy(t)
  BY <1>4 DEF EndCopy
<1>5. CASE ResetWrited(t)
  BY <1>5 DEF ResetWrited
<1>6. QED
  BY <1>1, <1>2, <1>3, <1>4, <1>5

\* While nobody copies, the half that readers are given is the newest
\* configuration, or the flag says that there is one, until a dispatch falls
\* between a copy and the reset of the flag, one cannot be parsed, or two
\* readers copy at once; for any number of readers and of calls of dispatch().
THEOREM NewestIsTakenOver == DynamicSpec => []NewestIsShown
<1>1. ASSUME DynamicInit PROVE DynamicIInv
  <2>1. parsed \in [first : 0..HalfWay, second : 0..HalfWay] /\ HalfWay # 0
    BY <1>1, DynamicAssumption DEF DynamicInit, HalfWay
  <2>2. /\ dynamicAt \in [Threads -> {"out", "parse", "flag", "enter", "lock", "copy", "copying", "reset"}]
        /\ \A t \in Threads : dynamicAt[t] = "out"
    BY <1>1 DEF DynamicInit
  <2>3. writed \in BOOLEAN /\ overtaken \in BOOLEAN /\ garbled \in BOOLEAN /\ torn \in BOOLEAN
    BY <1>1 DEF DynamicInit
  <2>4. dispatches \in 0..MaxDispatches /\ newest \in 0..MaxDispatches
    BY <1>1, DynamicAssumption DEF DynamicInit
  <2>5. DynamicTypeOK
    BY <2>1, <2>2, <2>3, <2>4 DEF DynamicTypeOK
  <2>6. QED
    BY <1>1, <2>1, <2>2, <2>5 DEF DynamicInit, DynamicIInv, Takeover, Threads, Writing, Sharing, Copying
<1>2. DynamicIInv /\ [DynamicNext]_dynamicVars => DynamicIInv'
  <2> SUFFICES ASSUME DynamicIInv, [DynamicNext]_dynamicVars PROVE DynamicIInv'
    OBVIOUS
  <2>1. CASE UNCHANGED dynamicVars
    BY <2>1 DEF dynamicVars, DynamicIInv, DynamicTypeOK, Takeover, Threads, Writing, Sharing, Copying, HalfWay
  <2>2. QED
    BY <2>1, DispatchKeepsTakeover, ReadKeepsTakeover DEF DynamicNext
<1>3. DynamicIInv => NewestIsShown
  BY DynamicAssumption DEF DynamicIInv, Takeover, NewestIsShown, DynamicTypeOK, Threads, Copying
<1>4. QED
  BY <1>1, <1>2, <1>3, PTL DEF DynamicSpec

-----------------------------------------------------------------------------
(* UdpClient.                                                              *)

UdpActors == UdpSenders \cup {"io"}

UdpTypeOK ==
  /\ udpSocket \in {"closed", "open", "connected"}
  /\ receiveOp \in {"none", "pending", "aborted"} /\ sendOp \in {"none", "pending", "aborted"}
  /\ sending \in BOOLEAN
  /\ udpAt \in [UdpActors -> {"none", "run", "done", "deliver", "idle", "start", "transmit", "reset"}]
  /\ txBuffer \in Seq(UdpBytes) /\ transferring \in Seq(UdpBytes)
  /\ accepted \in Seq(UdpBytes) /\ given \in Seq(UdpBytes)

\* Those who have set sending_ and not begun to send, or are about to reset it.
Handing == {a \in UdpActors : udpAt[a] \in {"transmit", "reset"}}

OneDatagram ==
  /\ Handing # {} \/ sendOp # "none" => sending
  /\ sendOp # "none" => Handing = {} /\ transferring # <<>>
  /\ \A a, b \in Handing : a = b
  /\ \A a \in UdpActors : udpAt[a] = "transmit" => txBuffer # <<>>
  /\ udpAt["io"] # "idle" /\ \A s \in UdpSenders : udpAt[s] \in {"idle", "start", "transmit"}

\* What is on its way to the socket, or was and has failed.
Outgoing == IF sending /\ Handing = {} THEN transferring ELSE <<>>

NothingBetween == accepted = (given \o Outgoing) \o txBuffer

UdpIInv == UdpTypeOK /\ OneDatagram /\ NothingBetween

\* The bytes that were kept become those on their way.
LEMMA KeptGoesOut ==
  ASSUME NEW g \in Seq(UdpBytes), NEW t \in Seq(UdpBytes)
  PROVE  (g \o <<>>) \o t = (g \o t) \o <<>>
<1>1. g \o t \in Seq(UdpBytes)
  BY ConcatProperties
<1> QED
  BY <1>1, ConcatEmptySeq

LEMMA OutgoingIsSeq == UdpTypeOK => Outgoing \in Seq(UdpBytes)
  BY DEF UdpTypeOK, Outgoing

LEMMA UdpSendStep ==
  ASSUME UdpIInv, NEW s \in UdpSenders, UdpSend(s)
  PROVE  UdpIInv'
<1>1. PICK m \in Payloads : txBuffer' = txBuffer \o m /\ accepted' = accepted \o m
  BY DEF UdpSend
<1>2. /\ udpAt' = [udpAt EXCEPT ![s] = "start"] /\ udpAt[s] = "idle"
      /\ UNCHANGED <<udpSocket, receiveOp, sendOp, receiving, sending, transferring, given>>
  BY DEF UdpSend, UdpGoes
<1>3. /\ m \in Seq(UdpBytes) /\ m # <<>>
      /\ accepted \in Seq(UdpBytes) /\ given \in Seq(UdpBytes)
      /\ txBuffer \in Seq(UdpBytes) /\ Outgoing \in Seq(UdpBytes)
  BY UdpAssumption, OutgoingIsSeq DEF UdpIInv, UdpTypeOK
<1>4. /\ txBuffer' \in Seq(UdpBytes) /\ accepted' \in Seq(UdpBytes)
      /\ txBuffer' # <<>>
  <2>1. txBuffer \o m \in Seq(UdpBytes) /\ accepted \o m \in Seq(UdpBytes)
        /\ Len(txBuffer \o m) = Len(txBuffer) + Len(m)
    BY <1>3, ConcatProperties
  <2>2. Len(m) \in Nat /\ Len(m) # 0 /\ Len(txBuffer) \in Nat
    BY <1>3, EmptySeq, LenProperties
  <2>3. Len(txBuffer \o m) # 0
    BY <2>1, <2>2
  <2> QED
    BY <1>1, <2>1, <2>3, EmptySeq
<1>5. UdpTypeOK'
  BY <1>2, <1>4, UdpAssumption DEF UdpIInv, UdpTypeOK, UdpActors
<1>6. Handing' = Handing
  BY <1>2, UdpAssumption DEF UdpIInv, UdpTypeOK, UdpActors, Handing
<1>7. OneDatagram'
  BY <1>2, <1>4, <1>6, UdpAssumption DEF UdpIInv, UdpTypeOK, OneDatagram, UdpActors
<1>8. NothingBetween'
  <2>1. Outgoing' = Outgoing
    BY <1>2, <1>6 DEF Outgoing
  <2> DEFINE f == Outgoing
  <2>2. accepted = (given \o f) \o txBuffer
    BY DEF UdpIInv, NothingBetween
  <2>3. f \in Seq(UdpBytes)
    BY <1>3
  <2> HIDE DEF f
  <2>4. given \in Seq(UdpBytes) /\ txBuffer \in Seq(UdpBytes) /\ m \in Seq(UdpBytes)
    BY <1>3
  <2>5. ((given \o f) \o txBuffer) \o m = (given \o f) \o (txBuffer \o m)
    <3>1. given \o f \in Seq(UdpBytes)
      BY <2>3, <2>4, ConcatProperties
    <3>2. \A g, t, n \in Seq(UdpBytes) : (g \o t) \o n = g \o (t \o n)
      BY ConcatAssociative
    <3> QED
      BY <3>1, <3>2, <2>4, Zenon
  <2>6. (given \o f) \o txBuffer' = accepted \o m
    BY <1>1, <2>2, <2>5
  <2> QED
    BY <1>1, <1>2, <2>1, <2>6 DEF NothingBetween, f
<1> QED
  BY <1>5, <1>7, <1>8 DEF UdpIInv

LEMMA UdpTransmitStep ==
  ASSUME UdpIInv, NEW a \in UdpActors, UdpTransmit(a)
  PROVE  UdpIInv'
<1>1. /\ udpAt' = [udpAt EXCEPT ![a] = UdpHome(a)] /\ udpAt[a] = "transmit"
      /\ transferring' = txBuffer /\ txBuffer' = <<>>
      /\ sendOp' \in {"aborted", "pending"}
      /\ UNCHANGED <<udpSocket, receiveOp, receiving, sending, accepted, given>>
  BY DEF UdpTransmit, UdpGoes, UdpBegun
<1>2. UdpHome(a) = IF a = "io" THEN "run" ELSE "idle"
  BY DEF UdpHome
<1>3. <<>> \in Seq(UdpBytes)
  OBVIOUS
<1>4. UdpTypeOK'
  BY <1>1, <1>2, <1>3 DEF UdpIInv, UdpTypeOK
<1>5. a \in Handing /\ Handing' = {} /\ sending /\ txBuffer # <<>>
  BY <1>1, <1>2 DEF UdpIInv, UdpTypeOK, OneDatagram, Handing
<1>6. OneDatagram'
  <2>1. \A b \in UdpActors : udpAt'[b] # "transmit"
    BY <1>5 DEF Handing
  <2>2. udpAt'["io"] # "idle" /\ \A s \in UdpSenders : udpAt'[s] \in {"idle", "start", "transmit"}
    BY <1>1, <1>2, UdpAssumption DEF UdpIInv, UdpTypeOK, OneDatagram, UdpActors
  <2>3. sending' /\ transferring' # <<>>
    BY <1>1, <1>5
  <2> QED
    BY <1>5, <2>1, <2>2, <2>3 DEF OneDatagram
<1>7. NothingBetween'
  <2>1. Outgoing = <<>> /\ Outgoing' = txBuffer
    BY <1>1, <1>5 DEF Outgoing
  <2>2. accepted = (given \o <<>>) \o txBuffer
    BY <2>1 DEF UdpIInv, NothingBetween
  <2>3. accepted = (given \o txBuffer) \o <<>>
    BY <2>2, KeptGoesOut DEF UdpIInv, UdpTypeOK
  <2> QED
    BY <1>1, <2>1, <2>3 DEF NothingBetween
<1> QED
  BY <1>4, <1>6, <1>7 DEF UdpIInv

LEMMA UdpSentStep ==
  ASSUME UdpIInv, UdpSent
  PROVE  UdpIInv'
<1>1. /\ udpAt' = [udpAt EXCEPT !["io"] = "reset"] /\ udpAt["io"] = "run"
      /\ sendOp = "pending" /\ sendOp' = "none"
      /\ given' = given \o transferring
      /\ UNCHANGED <<udpSocket, receiveOp, receiving, sending, txBuffer, transferring, accepted>>
  BY DEF UdpSent, UdpGoes
<1>2. /\ transferring \in Seq(UdpBytes) /\ given \in Seq(UdpBytes)
      /\ given \o transferring \in Seq(UdpBytes)
  BY ConcatProperties DEF UdpIInv, UdpTypeOK
<1>3. UdpTypeOK'
  BY <1>1, <1>2 DEF UdpIInv, UdpTypeOK, UdpActors
<1>4. Handing = {} /\ Handing' = {"io"} /\ sending
  BY <1>1 DEF UdpIInv, UdpTypeOK, OneDatagram, Handing, UdpActors
<1>5. OneDatagram'
  BY <1>1, <1>4, UdpAssumption DEF UdpIInv, UdpTypeOK, OneDatagram, UdpActors
<1>6. NothingBetween'
  <2>1. Outgoing = transferring /\ Outgoing' = <<>>
    BY <1>4 DEF Outgoing
  <2>2. (given \o transferring) \o <<>> = given \o transferring
    BY <1>2, ConcatEmptySeq
  <2> QED
    BY <1>1, <2>1, <2>2 DEF UdpIInv, NothingBetween
<1> QED
  BY <1>3, <1>5, <1>6 DEF UdpIInv

\* A thread that finds nobody sending becomes the one who does.
LEMMA UdpStartTransmitStep ==
  ASSUME UdpIInv, NEW a \in UdpActors, UdpStartTransmit(a)
  PROVE  UdpIInv'
<1>1. UNCHANGED <<udpSocket, receiveOp, sendOp, receiving, udpBuffers>>
  BY DEF UdpStartTransmit
<1>2. CASE sending \/ txBuffer = <<>>
  <2>1. /\ udpAt' = [udpAt EXCEPT ![a] = IF a = "io" THEN "run" ELSE "idle"]
        /\ udpAt[a] = "start" /\ sending' = sending
    BY <1>2 DEF UdpStartTransmit, UdpGoes, UdpHome
  <2>2. UdpTypeOK'
    BY <1>1, <2>1 DEF UdpIInv, UdpTypeOK, udpBuffers
  <2>3. Handing' = Handing
    BY <2>1 DEF UdpIInv, UdpTypeOK, Handing
  <2>4. OneDatagram'
    BY <1>1, <2>1, <2>3, UdpAssumption
    DEF UdpIInv, UdpTypeOK, OneDatagram, UdpActors, udpBuffers
  <2> QED
    BY <1>1, <2>1, <2>2, <2>3, <2>4 DEF UdpIInv, NothingBetween, Outgoing, udpBuffers
<1>3. CASE ~(sending \/ txBuffer = <<>>)
  <2>1. /\ udpAt' = [udpAt EXCEPT ![a] = "transmit"] /\ udpAt[a] = "start"
        /\ ~sending /\ sending' = TRUE /\ txBuffer # <<>>
    BY <1>3 DEF UdpStartTransmit, UdpGoes
  <2>2. UdpTypeOK'
    BY <1>1, <2>1 DEF UdpIInv, UdpTypeOK, udpBuffers
  <2>3. Handing = {} /\ sendOp = "none"
    BY <2>1 DEF UdpIInv, OneDatagram
  <2>4. Handing' = {a}
    BY <2>1, <2>3 DEF UdpIInv, UdpTypeOK, Handing
  <2>5. OneDatagram'
    BY <1>1, <2>1, <2>3, <2>4, UdpAssumption
    DEF UdpIInv, UdpTypeOK, OneDatagram, UdpActors, udpBuffers
  <2>6. Outgoing = <<>> /\ Outgoing' = <<>>
    BY <2>1, <2>4 DEF Outgoing
  <2> QED
    BY <1>1, <2>2, <2>5, <2>6 DEF UdpIInv, NothingBetween, udpBuffers
<1> QED
  BY <1>2, <1>3

LEMMA UdpResetStep ==
  ASSUME UdpIInv, UdpReset
  PROVE  UdpIInv'
<1>1. /\ udpAt' = [udpAt EXCEPT !["io"] = "start"] /\ udpAt["io"] = "reset"
      /\ sending' = FALSE
      /\ UNCHANGED <<udpSocket, receiveOp, sendOp, receiving, udpBuffers>>
  BY DEF UdpReset, UdpGoes
<1>2. UdpTypeOK'
  BY <1>1 DEF UdpIInv, UdpTypeOK, udpBuffers
<1>3. "io" \in Handing /\ Handing' = {} /\ sendOp = "none"
  <2>1. "io" \in Handing
    BY <1>1 DEF Handing, UdpActors
  <2>2. \A a \in Handing : a = "io"
    BY <2>1 DEF UdpIInv, OneDatagram
  <2>3. Handing' = {}
    BY <1>1, <2>2 DEF UdpIInv, UdpTypeOK, Handing
  <2> QED
    BY <2>1, <2>3 DEF UdpIInv, OneDatagram
<1>4. OneDatagram'
  BY <1>1, <1>3, UdpAssumption DEF UdpIInv, UdpTypeOK, OneDatagram, UdpActors, udpBuffers
<1>5. Outgoing = <<>> /\ Outgoing' = <<>>
  BY <1>1, <1>3 DEF Outgoing
<1> QED
  BY <1>1, <1>2, <1>4, <1>5 DEF UdpIInv, NothingBetween, udpBuffers

\* Steps that move no byte, and that leave Outgoing what it is.
LEMMA UdpOtherStep ==
  ASSUME UdpIInv,
         \/ UdpConnect \/ UdpConnectThrows \/ UdpStart \/ UdpStop
         \/ UdpReceiveNext \/ UdpWorkerEnds
         \/ UdpSendFails \/ UdpReceived \/ UdpReceiveFails
         \/ UNCHANGED udpVars
  PROVE  UdpIInv'
<1>1. UNCHANGED udpBuffers
  BY DEF UdpConnect, UdpConnectThrows, UdpStart, UdpStop,
         UdpReceiveNext, UdpWorkerEnds, UdpSendFails, UdpReceived, UdpReceiveFails, udpVars, udpBuffers
<1>2. UdpTypeOK' /\ OneDatagram' /\ Outgoing' = Outgoing
  <2> USE UdpAssumption
      DEF UdpIInv, UdpTypeOK, OneDatagram, Outgoing, Handing, UdpActors, UdpGoes, udpBuffers
  <2>1. CASE UdpConnect
    BY <2>1 DEF UdpConnect
  <2>2. CASE UdpConnectThrows
    BY <2>2 DEF UdpConnectThrows
  <2>3. CASE UdpStart
    BY <2>3 DEF UdpStart
  <2>4. CASE UdpStop
    BY <2>4 DEF UdpStop
  <2>5. CASE UdpReceiveNext
    BY <2>5 DEF UdpReceiveNext, UdpBegun
  <2>6. CASE UdpWorkerEnds
    BY <2>6 DEF UdpWorkerEnds
  <2>7. CASE UdpSendFails
    BY <2>7 DEF UdpSendFails
  <2>8. CASE UdpReceived
    BY <2>8 DEF UdpReceived
  <2>9. CASE UdpReceiveFails
    BY <2>9 DEF UdpReceiveFails
  <2>10. CASE UNCHANGED udpVars
    BY <2>10 DEF udpVars
  <2> QED
    BY <2>1, <2>2, <2>3, <2>4, <2>5, <2>6, <2>7, <2>8, <2>9, <2>10
<1> QED
  BY <1>1, <1>2 DEF UdpIInv, NothingBetween, udpBuffers
LEMMA UdpInitIInv == UdpInit => UdpIInv
<1> SUFFICES ASSUME UdpInit PROVE UdpIInv
  OBVIOUS
<1>1. <<>> \in Seq(UdpBytes)
  OBVIOUS
<1>2. UdpTypeOK
  BY <1>1 DEF UdpInit, UdpTypeOK, UdpActors
<1>3. Handing = {} /\ Outgoing = <<>>
  BY DEF UdpInit, Handing, UdpActors, Outgoing
<1>4. OneDatagram
  BY <1>3, UdpAssumption DEF UdpInit, OneDatagram, UdpActors
<1>5. (<<>> \o <<>>) \o <<>> = <<>>
  BY <1>1, ConcatEmptySeq
<1> QED
  BY <1>2, <1>3, <1>4, <1>5 DEF UdpInit, UdpIInv, NothingBetween

LEMMA UdpNextIInv == UdpIInv /\ [UdpNext]_udpVars => UdpIInv'
  BY UdpSendStep, UdpTransmitStep, UdpSentStep, UdpStartTransmitStep, UdpResetStep, UdpOtherStep
  DEF UdpNext, UdpSenderStep, UdpHandlerStep, UdpActors

\* The socket of a datagram client is given the bytes in the order in which they
\* were handed over, none twice and none left out, for any senders and messages.
THEOREM DatagramStream == UdpSpec => DatagramsInOrder
<1>1. UdpInit => Datagrams!Init
  BY DEF UdpInit, Datagrams!Init
<1>2. UdpIInv /\ [UdpNext]_udpVars => [Datagrams!Next]_(Datagrams!vars)
  <2> SUFFICES ASSUME UdpIInv, [UdpNext]_udpVars, ~(UNCHANGED <<accepted, given>>)
               PROVE  Datagrams!Next
    BY DEF Datagrams!vars
  <2>1. CASE \E s \in UdpSenders : UdpSend(s)
    BY <2>1 DEF UdpSend, Datagrams!Next, Datagrams!Send
  <2>2. CASE UdpSent
    <3>1. /\ given' = given \o transferring /\ UNCHANGED accepted
          /\ sendOp = "pending"
      BY <2>2 DEF UdpSent
    <3>2. /\ given \in Seq(UdpBytes) /\ transferring \in Seq(UdpBytes) /\ txBuffer \in Seq(UdpBytes)
          /\ transferring # <<>>
      BY <3>1 DEF UdpIInv, UdpTypeOK, OneDatagram
    <3>3. accepted = (given \o transferring) \o txBuffer
      BY <3>1 DEF UdpIInv, OneDatagram, NothingBetween, Outgoing
    <3> DEFINE g == given \o transferring
    <3>4. /\ g \in Seq(UdpBytes) /\ Len(g) = Len(given) + Len(transferring)
          /\ Len(g \o txBuffer) = Len(g) + Len(txBuffer)
      BY <3>2, ConcatProperties
    <3>5. /\ Len(given) \in Nat /\ Len(transferring) \in Nat /\ Len(transferring) # 0
          /\ Len(txBuffer) \in Nat
      BY <3>2, EmptySeq, LenProperties
    <3>6. Len(g) \in (Len(given) + 1)..Len(accepted)
      <4> HIDE DEF g
      <4> QED
        BY <3>3, <3>4, <3>5 DEF g
    <3>7. g = SubSeq(g \o txBuffer, 1, Len(g))
      <4> HIDE DEF g
      <4> QED
        BY <3>2, <3>4, ConcatSimplifications, SubSeqFull
    <3> QED
      BY <3>1, <3>3, <3>6, <3>7 DEF Datagrams!Next, Datagrams!Write
  <2>3. CASE ~UdpSent /\ ~\E s \in UdpSenders : UdpSend(s)
    BY <2>3 DEF UdpNext, UdpSenderStep, UdpHandlerStep, udpBuffers, udpVars, UdpConnect,
       UdpConnectThrows, UdpStart, UdpStop, UdpStartTransmit, UdpTransmit, UdpReset,
       UdpReceived, UdpReceiveNext, UdpReceiveFails, UdpWorkerEnds, UdpSendFails
  <2> QED
    BY <2>1, <2>2, <2>3
<1>3. QED
  BY <1>1, <1>2, UdpInitIInv, UdpNextIInv, PTL DEF UdpSpec, DatagramsInOrder, Datagrams!Spec

-----------------------------------------------------------------------------
(* ThreadedService.                                                        *)

\* The initial state satisfies the inductive invariant.
LEMMA InitServiceIInv == Init => IInv
  BY DEF Init, IInv, TypeOK, Inside, CallAt, StatusTellsWork, HalfWayIsUnmade, Unmade

\* A call that begins, or that gets no further than its first test, has
\* never been inside.
LEMMA OutsideServiceIInv ==
  ASSUME IInv, NEW c \in Callers, Calls(c) \/ AlreadySo(c) \/ Throws(c)
  PROVE  IInv'
<1>1. TypeOK'
  BY DEF IInv, TypeOK, Calls, AlreadySo, Throws, Return, Goto
<1>2. \A d \in Callers : CallAt(d)' /\ (d \in Inside' <=> d \in Inside)
  BY DEF IInv, TypeOK, Calls, AlreadySo, Throws, Return, Goto, CallAt, Inside
<1>3. Inside' = Inside
  BY <1>2 DEF Inside
<1>4. locked' = locked /\ status' = status /\ working' = working /\ worker' = worker
  BY DEF IInv, TypeOK, Calls, AlreadySo, Throws, Return, Goto
<1>5. thrown' = thrown \/ Unmade
  BY DEF IInv, Calls, AlreadySo, Throws, Return, Goto
<1>6. QED
  BY <1>1, <1>2, <1>3, <1>4, <1>5 DEF IInv, StatusTellsWork, HalfWayIsUnmade, Unmade

\* start() and stop() take the lock.
LEMMA EnterServiceIInv == ASSUME IInv, NEW c \in Callers, Start(c) \/ Stop(c) PROVE IInv'
<1>1. TypeOK'
  BY DEF IInv, TypeOK, Start, Stop, Goto
<1>2. Inside = {} /\ Inside' = {c}
  BY DEF IInv, TypeOK, Start, Stop, Goto, Inside
<1>3. \A d \in Callers : CallAt(d)'
  BY <1>2 DEF IInv, TypeOK, Start, Stop, Goto, CallAt, Inside, StatusTellsWork
<1>4. QED
  BY <1>1, <1>2, <1>3 DEF IInv, Start, Stop, StatusTellsWork, HalfWayIsUnmade, Unmade

\* The steps of the caller that has the lock and keeps it.
LEMMA InsideServiceIInv ==
  ASSUME IInv, NEW c \in Callers, OnStart(c) \/ (OnStop(c) /\ working) \/ Join(c)
  PROVE  IInv'
<1>1. CallAt(c) /\ c \in Inside
  BY DEF IInv, OnStart, OnStop, Join, Goto, Inside
<1>2. TypeOK'
  BY DEF IInv, TypeOK, OnStart, OnStop, Join, Goto
<1>3. Inside = {c} /\ Inside' = {c} /\ locked'
  <2>1. Inside = {c} /\ locked
    BY <1>1 DEF IInv
  <2>2. \A d \in Callers : d \in Inside' <=> d \in Inside
    BY <1>1 DEF IInv, TypeOK, OnStart, OnStop, Join, Goto, Inside
  <2>3. Inside' = Inside
    BY <2>2 DEF Inside
  <2>4. QED
    BY <2>1, <2>3 DEF OnStart, OnStop, Join
<1>4. \A d \in Callers : CallAt(d)'
  <2>1. CallAt(c)'
    BY <1>1 DEF IInv, TypeOK, OnStart, OnStop, Join, Goto, CallAt
  <2>2. \A d \in Callers \ {c} : CallAt(d)'
    BY <1>3 DEF CallAt, Inside
  <2>3. QED
    BY <2>1, <2>2
<1>5. thrown' = {}
  BY <1>1 DEF IInv, HalfWayIsUnmade, Unmade, CallAt, OnStart, OnStop, Join, Goto
<1>6. QED
  BY <1>2, <1>3, <1>4, <1>5 DEF IInv, StatusTellsWork, HalfWayIsUnmade

\* The steps with which the caller gives the lock back.
LEMMA LeaveServiceIInv ==
  ASSUME IInv, NEW c \in Callers,
         \/ OnStartFails(c) \/ OnStartThrows(c) \/ Started(c)
         \/ (OnStop(c) /\ ~working) \/ Stopped(c)
  PROVE  IInv'
<1>1. TypeOK'
  BY DEF IInv, TypeOK, OnStartFails, OnStartThrows, Started, OnStop, Stopped, Return, Goto
<1>2. Inside = {c} /\ Inside' = {} /\ ~locked'
  BY DEF IInv, TypeOK, OnStartFails, OnStartThrows, Started, OnStop, Stopped, Return, Goto,
         Inside
<1>3. \A d \in Callers : CallAt(d)'
  BY <1>2 DEF CallAt, Inside
<1>4. CallAt(c)
  BY DEF IInv
<1>5. StatusTellsWork'
  BY <1>4 DEF IInv, TypeOK, CallAt, OnStartFails, OnStartThrows, Started, OnStop, Stopped,
              Return, Goto, StatusTellsWork
<1>6. status' \in {"Stopped", "Running"} \/ Unmade'
  BY <1>4 DEF CallAt, OnStartFails, OnStartThrows, Started, OnStop, Stopped, Return, Goto, Unmade
<1>7. thrown = {} /\ thrown' = thrown
  BY <1>4 DEF IInv, HalfWayIsUnmade, Unmade, CallAt, OnStartFails, OnStartThrows, Started,
              OnStop, Stopped, Return, Goto
<1>8. QED
  BY <1>1, <1>2, <1>3, <1>5, <1>6, <1>7 DEF IInv, HalfWayIsUnmade

\* The steps of the work thread.
LEMMA WorkerServiceIInv == ASSUME IInv, GetId \/ WorkerStops \/ WorkerDone PROVE IInv'
<1>1. worker # "none" /\ worker' # "none" /\ TypeOK'
  BY DEF IInv, TypeOK, GetId, WorkerStops, WorkerDone, WorkerStep
<1>2. /\ locked' = locked /\ status' = status /\ working' = working /\ pc' = pc
      /\ thrown' = thrown /\ Inside' = Inside
  BY DEF GetId, WorkerStops, WorkerDone, WorkerStep, Inside
<1>3. \A c \in Callers : CallAt(c)'
  BY <1>1, <1>2 DEF IInv, CallAt
<1>4. QED
  BY <1>1, <1>2, <1>3 DEF IInv, StatusTellsWork, HalfWayIsUnmade, Unmade

(***************************************************************************)
(* ThreadedService: wherever start() and stop() stand, and whatever the work thread does:   *)
(* one call at a time is inside, and status, working_ and the thread are   *)
(* what this place asks for.                                               *)
(***************************************************************************)
THEOREM ServiceInvariance == Spec => []IInv
<1>1. IInv /\ [Next]_vars => IInv'
  <2> SUFFICES ASSUME IInv, [Next]_vars PROVE IInv'
    OBVIOUS
  <2>1. CASE UNCHANGED vars
    BY <2>1 DEF vars, IInv, TypeOK, Inside, CallAt, StatusTellsWork, HalfWayIsUnmade, Unmade
  <2>2. CASE GetId \/ WorkerStops \/ WorkerDone
    BY <2>2, WorkerServiceIInv
  <2>3. ASSUME NEW c \in Callers, Calls(c) \/ Call(c) PROVE IInv'
    BY <2>3, OutsideServiceIInv, EnterServiceIInv, InsideServiceIInv, LeaveServiceIInv DEF Call
  <2>4. QED
    BY <2>1, <2>2, <2>3 DEF Next
<1>2. QED
  BY InitServiceIInv, <1>1, PTL DEF Spec

(***************************************************************************)
(* Whenever no call is under way, a stopped service has no thread left and *)
(* a running one has been given its thread.                                *)
(***************************************************************************)
THEOREM ServiceStatusIsTrue == Spec => []StatusTellsWork
<1>1. IInv => StatusTellsWork
  BY DEF IInv
<1>2. QED
  BY <1>1, ServiceInvariance, PTL

(***************************************************************************)
(* The branches that "shouldn't be" taken are taken only in a service      *)
(* whose thread could not be made.                                         *)
(***************************************************************************)
THEOREM ServiceHalfWay == Spec => []HalfWayIsUnmade
<1>1. IInv => HalfWayIsUnmade
  BY DEF IInv
<1>2. QED
  BY <1>1, ServiceInvariance, PTL

-----------------------------------------------------------------------------
(* Signal.                                                                 *)

\* A set of numbers that is not empty has a least one: induction over data
\* below is by the least counterexample.
LEMMA LeastNat ==
  ASSUME NEW T \in SUBSET Nat, T # {}
  PROVE  \E n \in T : \A m \in T : n <= m
<1>1. \E n \in T : \A m \in T : ~(<<m, n>> \in OpToRel(<, Nat))
  BY NatLessThanWellFounded, WFMin
<1>2. \A m, n \in Nat : <<m, n>> \in OpToRel(<, Nat) <=> m < n
  BY DEF OpToRel
<1>3. \E R : /\ \E n \in T : \A m \in T : ~(<<m, n>> \in R)
             /\ \A m, n \in Nat : <<m, n>> \in R <=> m < n
  BY <1>1, <1>2, Zenon
<1>4. PICK n \in T : \A m \in T : ~(m < n)
  BY <1>3, Zenon
<1>5. \A m \in T : m \in Nat
  OBVIOUS
<1>6. \A m \in T : n <= m
  BY <1>4, <1>5
<1> QED
  BY <1>6

\* What a token and a change of the table may be.
Tokens == 1..MaxTokens
Change == [add : BOOLEAN, token : Tokens]

\* What the first k changes make of the table hs: the last one about a token
\* decides.
Decided(hs, changes, k) ==
  {t \in hs : \A j \in 1..k : changes[j].token # t}
    \cup {t \in Tokens : \E i \in 1..k : /\ changes[i] = [add |-> TRUE, token |-> t]
                                         /\ \A j \in (i + 1)..k : changes[j].token # t}

\* One change more decides about its own token, and leaves the others alone.
LEMMA DecidedNext ==
  ASSUME NEW hs \in SUBSET Tokens, NEW changes \in Seq(Change), NEW k \in 1..Len(changes)
  PROVE  Decided(hs, changes, k) = Modified(Decided(hs, changes, k - 1), changes[k])
<1> DEFINE new == Decided(hs, changes, k)
           old == Decided(hs, changes, k - 1)
           c == changes[k]
<1>1. /\ Len(changes) \in Nat /\ k \in Nat /\ k - 1 \in Nat
      /\ c \in Change /\ c.token \in Tokens /\ c.add \in BOOLEAN
  <2>1. Len(changes) \in Nat
    BY LenProperties
  <2>2. c \in Change
    BY <2>1, ElementOfSeq
  <2> QED
    BY <2>1, <2>2 DEF Change
<1>2. /\ \A j \in 1..k : j \in 1..(k - 1) \/ j = k
      /\ \A j \in 1..(k - 1) : j \in 1..k /\ j # k
      /\ k \in 1..k /\ \A i \in 1..k : \A j \in (i + 1)..k : j \in (i + 1)..(k - 1) \/ j = k
      /\ \A i \in 1..(k - 1) : \A j \in (i + 1)..(k - 1) : j \in (i + 1)..k
      /\ \A i \in 1..(k - 1) : k \in (i + 1)..k
      /\ \A j \in (k + 1)..k : FALSE
  BY <1>1
<1>3. ASSUME NEW t, t # c.token PROVE t \in new <=> t \in old
  <2>1. (\A j \in 1..k : changes[j].token # t) <=> (\A j \in 1..(k - 1) : changes[j].token # t)
    BY <1>2, <1>3
  <2> DEFINE Sets(i, m) == /\ changes[i] = [add |-> TRUE, token |-> t]
                           /\ \A j \in (i + 1)..m : changes[j].token # t
  <2>2. \A i \in 1..(k - 1) : Sets(i, k) <=> Sets(i, k - 1)
    BY <1>2, <1>3
  <2>3. ~Sets(k, k)
    BY <1>3
  <2>4. (\E i \in 1..k : Sets(i, k)) <=> (\E i \in 1..(k - 1) : Sets(i, k - 1))
    <3> HIDE DEF Sets
    <3> QED
      BY <1>2, <2>2, <2>3
  <2> QED
    BY <2>1, <2>4 DEF Decided
<1>4. c.token \in new <=> c.add
  <2>1. ~c.add => c.token \notin new
    BY <1>1, <1>2 DEF Decided
  <2>2. c.add => c = [add |-> TRUE, token |-> c.token]
    BY <1>1 DEF Change
  <2>3. c.add => c.token \in new
    BY <1>1, <1>2, <2>2 DEF Decided
  <2> QED
    BY <2>1, <2>3
<1> HIDE DEF new, old, c
<1>5. new = IF c.add THEN old \cup {c.token} ELSE old \ {c.token}
  BY <1>1, <1>3, <1>4
<1> QED
  BY <1>5 DEF Modified, new, old, c

\* The changes made one after the other come to the same.
LEMMA TablesDecided ==
  ASSUME NEW hs \in SUBSET Tokens, NEW changes \in Seq(Change), NEW k \in 0..Len(changes)
  PROVE  Tables(hs, changes)[k] = Decided(hs, changes, k)
<1> DEFINE n == Len(changes)
           Follows(f) ==
             f = [i \in 0..n |-> IF i = 0 THEN hs ELSE Modified(f[i - 1], changes[i])]
           d == [i \in 0..n |-> Decided(hs, changes, i)]
<1>1. n \in Nat
  BY LenProperties
<1>2. Decided(hs, changes, 0) = hs
  BY DEF Decided
<1>3. \A i \in 1..n : d[i] = Modified(d[i - 1], changes[i])
  <2> TAKE i \in 1..n
  <2>1. i - 1 \in 0..n /\ i \in 0..n
    BY <1>1
  <2> QED
    BY <2>1, DecidedNext
<1>4. Follows(d)
  <2>1. \A i \in 0..n : i # 0 => i \in 1..n
    BY <1>1
  <2>2. \A i \in 0..n : d[i] = IF i = 0 THEN hs ELSE Modified(d[i - 1], changes[i])
    BY <1>2, <1>3, <2>1
  <2> QED
    BY <2>2
<1> DEFINE f == Tables(hs, changes)
<1>5. Follows(f)
  <2>1. f = CHOOSE g : Follows(g)
    BY DEF Tables
  <2> HIDE DEF f, Follows, d
  <2> QED
    BY <1>4, <2>1, Zenon
<1> HIDE DEF f, d
<1>6. \A i \in 0..n : f[i] = IF i = 0 THEN hs ELSE Modified(f[i - 1], changes[i])
  BY <1>5
<1>7. \A i \in 0..n : d[i] = IF i = 0 THEN hs ELSE Modified(d[i - 1], changes[i])
  BY <1>4
<1>8. f[k] = d[k]
  <2> DEFINE T == {i \in 0..n : f[i] # d[i]}
  <2> SUFFICES ASSUME T # {} PROVE FALSE
    OBVIOUS
  <2>1. PICK i \in T : \A j \in T : i <= j
    <3>1. T \in SUBSET Nat
      BY <1>1
    <3> HIDE DEF T
    <3> QED
      BY <3>1, LeastNat
  <2>2. i # 0 /\ i - 1 \in 0..n /\ f[i - 1] = d[i - 1]
    BY <1>1, <1>6, <1>7, <2>1
  <2> QED
    BY <1>6, <1>7, <2>1, <2>2
<1> QED
  BY <1>8 DEF f, d

\* A change that is put off is one more change to what the others make.
LEMMA PutOff ==
  ASSUME NEW hs \in SUBSET Tokens, NEW changes \in Seq(Change), NEW c \in Change
  PROVE  LET more == Append(changes, c)
         IN  Tables(hs, more)[Len(more)] = Modified(Tables(hs, changes)[Len(changes)], c)
<1> DEFINE n == Len(changes)
           more == Append(changes, c)
<1>1. /\ n \in Nat /\ more \in Seq(Change) /\ Len(more) = n + 1
      /\ more[n + 1] = c /\ \A i \in 1..n : more[i] = changes[i]
  BY AppendProperties, LenProperties
<1> HIDE DEF more
<1>2. Decided(hs, more, n) = Decided(hs, changes, n)
  <2>1. \A i \in 1..n : \A j \in (i + 1)..n : j \in 1..n
    BY <1>1
  <2>2. ASSUME NEW t PROVE t \in Decided(hs, more, n) <=> t \in Decided(hs, changes, n)
    <3>1. (\A j \in 1..n : more[j].token # t) <=> (\A j \in 1..n : changes[j].token # t)
      BY <1>1
    <3>2. \A i \in 1..n : (\A j \in (i + 1)..n : more[j].token # t)
                             <=> (\A j \in (i + 1)..n : changes[j].token # t)
      BY <1>1, <2>1
    <3> QED
      BY <1>1, <3>1, <3>2 DEF Decided
  <2> QED
    BY <2>2
<1>3. Decided(hs, more, n + 1) = Modified(Decided(hs, more, n), c)
  <2>1. n + 1 \in 1..Len(more) /\ (n + 1) - 1 = n
    BY <1>1
  <2> QED
    BY <1>1, <2>1, DecidedNext
<1>4. /\ Tables(hs, more)[n + 1] = Decided(hs, more, n + 1)
      /\ Tables(hs, changes)[n] = Decided(hs, changes, n)
  <2>1. n + 1 \in 0..Len(more) /\ n \in 0..n
    BY <1>1
  <2> QED
    BY <1>1, <2>1, TablesDecided
<1>5. Tables(hs, more)[Len(more)] = Modified(Tables(hs, changes)[n], c)
  BY <1>1, <1>2, <1>3, <1>4
<1> QED
  BY <1>5 DEF more

\* Where nothing has been put off the table is what it is.
LEMMA NothingPutOff ==
  ASSUME NEW hs \in SUBSET Tokens
  PROVE  Tables(hs, <<>>)[Len(<<>>)] = hs
<1>1. <<>> \in Seq(Change) /\ Len(<<>>) = 0
  OBVIOUS
<1>2. Tables(hs, <<>>)[0] = Decided(hs, <<>>, 0)
  <2>1. 0 \in 0..Len(<<>>)
    BY <1>1
  <2> QED
    BY <1>1, <2>1, TablesDecided
<1>3. Decided(hs, <<>>, 0) = hs
  BY DEF Decided
<1> QED
  BY <1>1, <1>2, <1>3

\* Emissions under way, waiting ones included.
Emitting == {e \in Emitters : emitter[e] # "idle"}

\* One emission at a time; between its begin and its end handlers_ is what it
\* was, and what has been called is what comes first.
OneEmission ==
  /\ \A e, f \in Emitting : e = f
  /\ inSnapshotMode <=> \E e \in Emitters : emitter[e] \in {"calling", "stuck"}
  /\ inSnapshotMode => /\ handlers = due /\ called \subseteq due
                       /\ \A t \in due, c \in called : t < c => t \in called
  /\ \A e \in Emitters : emitter[e] = "unlock" => called = due

(***************************************************************************)
(* The inductive invariant of a signal: one emission at a time, the table  *)
(* and what has been put off come to those connected, and outside an       *)
(* emission nothing is put off.                                            *)
(***************************************************************************)
SignalIInv ==
  /\ SignalTypeOK
  /\ OneEmission
  /\ Applied = connected
  /\ ~inSnapshotMode => pendingActions = <<>>

\* A change is made, or put off while handlers are being called.
LEMMA ModifyKeeps ==
  ASSUME SignalIInv, NEW change \in Change, Modify(change),
         connected' = Modified(connected, change),
         peakToken' \in 1..(MaxTokens + 1),
         UNCHANGED <<inSnapshotMode, emitter, called, due>>
  PROVE  SignalIInv'
<1>1. /\ handlers \in SUBSET Tokens /\ connected \in SUBSET Tokens
      /\ pendingActions \in Seq(Change)
  BY DEF SignalIInv, SignalTypeOK, Tokens, Change
<1>2. /\ Modified(handlers, change) \in SUBSET Tokens
      /\ Modified(connected, change) \in SUBSET Tokens
  BY <1>1 DEF Modified, Change
<1>3. CASE inSnapshotMode
  <2>1. pendingActions' = Append(pendingActions, change) /\ handlers' = handlers
    BY <1>3 DEF Modify
  <2>2. pendingActions' \in Seq(Change)
    BY <1>1, <2>1
  <2>3. SignalTypeOK'
    BY <1>2, <2>1, <2>2 DEF SignalIInv, SignalTypeOK, Tokens, Change
  <2>4. Applied' = Modified(Applied, change)
    BY <1>1, <2>1, PutOff DEF Applied
  <2>5. OneEmission'
    BY <2>1 DEF SignalIInv, OneEmission, Emitting
  <2> QED
    BY <1>3, <2>3, <2>4, <2>5 DEF SignalIInv
<1>4. CASE ~inSnapshotMode
  <2>1. /\ pendingActions = <<>> /\ pendingActions' = <<>>
        /\ handlers' = Modified(handlers, change)
    BY <1>4 DEF Modify, SignalIInv
  <2>2. SignalTypeOK'
    BY <1>2, <2>1 DEF SignalIInv, SignalTypeOK, Tokens
  <2>3. Applied = handlers /\ Applied' = handlers'
    BY <1>1, <1>2, <2>1, NothingPutOff DEF Applied
  <2>4. OneEmission'
    BY <1>4 DEF SignalIInv, OneEmission, Emitting
  <2> QED
    BY <1>4, <2>1, <2>2, <2>3, <2>4 DEF SignalIInv
<1> QED
  BY <1>3, <1>4

\* connect() adds under a new token and dispose() takes a token away.
LEMMA ConnectKeeps == ASSUME SignalIInv, Connect PROVE SignalIInv'
<1> DEFINE change == [add |-> TRUE, token |-> peakToken]
<1>1. peakToken \in Tokens /\ peakToken' \in 1..(MaxTokens + 1)
  BY SignalAssumption DEF Connect, SignalIInv, SignalTypeOK, Tokens
<1>2. change \in Change /\ connected' = Modified(connected, change)
  BY <1>1 DEF Connect, Change, Modified
<1> QED
  BY <1>1, <1>2, ModifyKeeps DEF Connect

LEMMA DisposeKeeps ==
  ASSUME SignalIInv, NEW t \in 1..(peakToken - 1), Dispose(t)
  PROVE  SignalIInv'
<1> DEFINE change == [add |-> FALSE, token |-> t]
<1>1. t \in Tokens /\ peakToken' \in 1..(MaxTokens + 1)
  BY SignalAssumption DEF Dispose, SignalIInv, SignalTypeOK, Tokens
<1>2. change \in Change /\ connected' = Modified(connected, change)
  BY <1>1 DEF Dispose, Change, Modified
<1> QED
  BY <1>1, <1>2, ModifyKeeps DEF Dispose

\* The steps of an emission.
LEMMA EmissionKeeps ==
  ASSUME SignalIInv, NEW e \in Emitters,
         \/ LockSnapshot(e) \/ BeginSnapshot(e) \/ CallHandler(e) \/ EmitInHandler(e)
         \/ UnlockSnapshot(e)
  PROVE  SignalIInv'
<1>1. UNCHANGED tokenVars
  BY DEF LockSnapshot, BeginSnapshot, CallHandler, EmitInHandler, UnlockSnapshot
<1>2. Applied' = Applied
  BY <1>1 DEF Applied, tokenVars
<1> USE DEF SignalIInv, SignalTypeOK, OneEmission, Emitting, EmitterGoes, tokenVars
<1>3. CASE LockSnapshot(e)
  BY <1>1, <1>2, <1>3 DEF LockSnapshot
<1>4. CASE BeginSnapshot(e)
  BY <1>1, <1>2, <1>4 DEF BeginSnapshot
<1>5. CASE CallHandler(e)
  <2>1. PICK t \in Left : (\A u \in Left : t <= u) /\ called' = called \cup {t}
    BY <1>5 DEF CallHandler
  <2>2. /\ inSnapshotMode /\ inSnapshotMode' /\ due' = due /\ emitter[e] = "calling"
        /\ emitter' = emitter
    BY <1>5 DEF CallHandler
  <2>3. t \in due /\ \A c \in called : c < t
    BY <2>1, <2>2 DEF Left
  <2>4. ASSUME NEW u \in due, NEW c \in called', u < c
        PROVE  u \in called'
    <3>1. CASE c \in called
      BY <2>1, <2>2, <2>4, <3>1
    <3>2. CASE c = t /\ u \notin called
      <4>1. u \notin Left
        BY <2>1, <2>2, <2>4, <3>2
      <4>2. PICK d \in called : ~(d < u)
        BY <2>2, <4>1 DEF Left
      <4>3. u \in Int /\ d \in Int /\ u # d
        BY <2>2, <3>2, <4>2
      <4> QED
        BY <2>2, <3>2, <4>2, <4>3
    <3> QED
      BY <2>1, <3>1, <3>2
  <2>5. OneEmission'
    BY <1>1, <2>1, <2>2, <2>3, <2>4
  <2>6. SignalTypeOK'
    BY <1>1, <2>1, <2>2, <2>3
  <2> QED
    BY <1>1, <1>2, <2>2, <2>5, <2>6
<1>6. CASE EmitInHandler(e)
  BY <1>1, <1>2, <1>6 DEF EmitInHandler
<1>7. CASE UnlockSnapshot(e)
  BY <1>1, <1>2, <1>7 DEF UnlockSnapshot
<1> QED
  BY <1>3, <1>4, <1>5, <1>6, <1>7

\* At its end an emission has called everyone, and what was put off is done.
LEMMA EndingKeeps ==
  ASSUME SignalIInv, NEW e \in Emitters, EndSnapshot(e)
  PROVE  SignalIInv'
<1>1. /\ emitter[e] = "calling" /\ emitter' = [emitter EXCEPT ![e] = "unlock"]
      /\ Left = {} /\ inSnapshotMode' = FALSE
      /\ handlers' = connected /\ pendingActions' = <<>>
      /\ UNCHANGED <<peakToken, connected, called, due>>
  BY DEF EndSnapshot, EmitterGoes, SignalIInv
<1>2. inSnapshotMode
  BY <1>1 DEF SignalIInv, OneEmission
<1>3. called = due
  <2> SUFFICES ASSUME NEW t \in due, t \notin called PROVE FALSE
    BY <1>2 DEF SignalIInv, OneEmission
  <2>1. PICK c \in called : ~(c < t)
    BY <1>1, <1>2 DEF Left, SignalIInv, OneEmission
  <2>2. c \in Int /\ t \in Int /\ c # t
    BY <2>1 DEF SignalIInv, SignalTypeOK
  <2> QED
    BY <1>2, <2>1, <2>2 DEF SignalIInv, OneEmission
<1>4. SignalTypeOK'
  <2>1. pendingActions' \in Seq([add : BOOLEAN, token : 1..MaxTokens])
    BY <1>1
  <2>2. emitter' \in [Emitters -> {"idle", "locked", "calling", "stuck", "unlock"}]
    BY <1>1 DEF SignalIInv, SignalTypeOK
  <2> QED
    BY <1>1, <2>1, <2>2 DEF SignalIInv, SignalTypeOK
<1>5. Applied' = connected'
  BY <1>1, NothingPutOff DEF Applied, SignalIInv, SignalTypeOK, Tokens
<1>6. OneEmission'
  BY <1>1, <1>3 DEF SignalIInv, SignalTypeOK, OneEmission, Emitting
<1> QED
  BY <1>1, <1>4, <1>5, <1>6 DEF SignalIInv

\* So the invariant holds from the construction of the signal on.
LEMMA SignalInvariance == SignalSpec => []SignalIInv
<1>1. SignalInit => SignalIInv
  <2> SUFFICES ASSUME SignalInit PROVE SignalIInv
    OBVIOUS
  <2>1. SignalTypeOK
    <3>1. peakToken \in 1..(MaxTokens + 1)
      BY SignalAssumption DEF SignalInit
    <3>2. pendingActions \in Seq([add : BOOLEAN, token : 1..MaxTokens])
      BY DEF SignalInit
    <3> QED
      BY <3>1, <3>2 DEF SignalInit, SignalTypeOK
  <2>2. Applied = connected
    BY NothingPutOff DEF SignalInit, Applied
  <2> QED
    BY <2>1, <2>2 DEF SignalInit, SignalIInv, OneEmission, Emitting
<1>2. SignalIInv /\ [SignalNext]_signalVars => SignalIInv'
  <2> SUFFICES ASSUME SignalIInv, [SignalNext]_signalVars PROVE SignalIInv'
    OBVIOUS
  <2>1. CASE UNCHANGED signalVars
    BY <2>1 DEF signalVars, tokenVars, SignalIInv, SignalTypeOK, OneEmission, Emitting, Applied
  <2>2. CASE SignalNext
    BY <2>2, ConnectKeeps, DisposeKeeps, EmissionKeeps, EndingKeeps DEF SignalNext
  <2> QED
    BY <2>1, <2>2
<1> QED
  BY <1>1, <1>2, PTL DEF SignalSpec

(***************************************************************************)
(* Signal: whenever no emission is under way, the handlers in the table    *)
(* are those connected and not disposed of.  What endSnapshot makes of the *)
(* changes put off, in their order, is what connect() and dispose() would  *)
(* have made of the table one at a time, for any number of them.           *)
(***************************************************************************)
THEOREM ChangesPutOffAreMade == SignalSpec => []ChangesAreKept
<1>1. SignalIInv => ChangesAreKept
  <2> SUFFICES ASSUME SignalIInv, ~inSnapshotMode PROVE handlers = connected
    BY DEF SignalIInv, ChangesAreKept
  <2>1. handlers \in SUBSET Tokens
    BY DEF SignalIInv, SignalTypeOK, Tokens
  <2> QED
    BY <2>1, NothingPutOff DEF SignalIInv, Applied
<1> QED
  BY <1>1, SignalInvariance, PTL

(***************************************************************************)
(* Signal: an emission that has ended its snapshot has called just the     *)
(* handlers that were connected when it began, whoever connected or        *)
(* disposed meanwhile, inside a handler or in another thread.              *)
(***************************************************************************)
THEOREM EmissionsAreComplete == SignalSpec => []EmissionCallsThoseConnected
<1>1. SignalIInv => EmissionCallsThoseConnected
  BY DEF SignalIInv, OneEmission, EmissionCallsThoseConnected
<1> QED
  BY <1>1, SignalInvariance, PTL
=============================================================================

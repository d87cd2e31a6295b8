--------------------------- MODULE ShmTopicManager ---------------------------
(***************************************************************************)
(* The map from names to topics in the segment (ShmTopicManager), used by  *)
(* several processes.  The map's mutex guards sections that wait for       *)
(* nothing, each of them one step; destroy() of a topic is outside.        *)
(*                                                                         *)
(* A topic is the place of its ShmTopicData, which is given to another one *)
(* once it has been freed.  What is in a topic is the matter of ShmTopic.  *)
(* A client deletes by pointer only a topic that exists.                   *)
(***************************************************************************)
CONSTANTS
  Clients,       \* processes, each with one call of the manager at a time
  Names, Places, NoTopic, NoName

ASSUME ManagerAssumption == NoTopic \notin Places /\ NoName \notin Names

VARIABLES
  topics,        \* topics_
  nameOf,        \* name_ of the ShmTopicData at each place, NoName if there is none
  hold,          \* the data_ of the ShmTopic that each client has
  task,          \* what each client is about to do
  target,        \* data_ of the topic it is deleting
  key,           \* keyName of deleteTopic(shmTopic)
  lost,          \* history: topics that nobody can reach any more
  byPointer      \* history: the deleteTopic that is given a ShmTopic was used

mapVars == <<topics, nameOf, lost>>
taskVars == <<task, target, key, byPointer>>
managerVars == <<mapVars, hold, taskVars>>

Live == {p \in Places : nameOf[p] # NoName}

ManagerInit ==
  /\ topics = [n \in Names |-> NoTopic]
  /\ nameOf = [p \in Places |-> NoName] /\ lost = {}
  /\ hold = [c \in Clients |-> NoTopic]
  /\ task = [c \in Clients |-> "none"]
  /\ target = [c \in Clients |-> NoTopic]
  /\ key = [c \in Clients |-> NoName]
  /\ byPointer = FALSE

Turn(c, from, to) == task[c] = from /\ task' = [task EXCEPT ![c] = to]

-----------------------------------------------------------------------------
Construct(n, p) == p \notin Live /\ nameOf' = [nameOf EXCEPT ![p] = n]

GetOrCreateTopic(c, n) ==
  /\ task[c] = "none"
  /\ \/ /\ topics[n] # NoTopic
        /\ hold' = [hold EXCEPT ![c] = topics[n]]
        /\ UNCHANGED mapVars
     \/ /\ topics[n] = NoTopic
        /\ \E p \in Places :
             /\ Construct(n, p)
             /\ topics' = [topics EXCEPT ![n] = p]
             /\ hold' = [hold EXCEPT ![c] = p]
        /\ UNCHANGED lost
  /\ UNCHANGED taskVars

\* The segment has room for the topic but not for its entry in the map.
InsertThrows(c, n) ==
  /\ task[c] = "none" /\ topics[n] = NoTopic
  /\ \E p \in Places : Construct(n, p) /\ lost' = lost \cup {p}
  /\ UNCHANGED <<topics, hold, taskVars>>

-----------------------------------------------------------------------------
\* Slip: the entry is found but erased only when the topic is gone.
DeleteFound(c, n) ==
  /\ topics[n] # NoTopic
  /\ Turn(c, "none", "destroy")
  /\ target' = [target EXCEPT ![c] = topics[n]]
  /\ UNCHANGED <<mapVars, hold, key, byPointer>>

\* deleteTopic(name) takes the topic off the map, and then destroys it.
DeleteByName(c, n) ==
  /\ topics[n] # NoTopic
  /\ Turn(c, "none", "destroy")
  /\ target' = [target EXCEPT ![c] = topics[n]]
  /\ topics' = [topics EXCEPT ![n] = NoTopic]
  /\ UNCHANGED <<nameOf, lost, hold, key, byPointer>>

\* deleteTopic(shmTopic) destroys it first.
DeleteByPointer(c) ==
  /\ hold[c] \in Live
  /\ Turn(c, "none", "destroyIt")
  /\ target' = [target EXCEPT ![c] = hold[c]]
  /\ key' = [key EXCEPT ![c] = nameOf[hold[c]]]
  /\ byPointer' = TRUE
  /\ UNCHANGED <<mapVars, hold>>

DestroyReturns(c) ==
  /\ \/ Turn(c, "destroy", "none")
     \/ Turn(c, "destroyIt", "erase")
  /\ target' = [target EXCEPT ![c] = NoTopic]
  /\ UNCHANGED <<topics, hold, key, byPointer>>

\* destroy() has emptied the topic, and frees it.
Destroy(c) ==
  /\ DestroyReturns(c)
  /\ nameOf' = [nameOf EXCEPT ![target[c]] = NoName]
  /\ UNCHANGED lost

\* destroy() does not get the lock of the topic, and leaves it as it is.
DestroyFails(c) ==
  /\ DestroyReturns(c)
  /\ lost' = lost \cup {target[c]}
  /\ UNCHANGED nameOf

\* The entry goes by its name, whichever topic it leads to by now.
Erase(c) ==
  /\ Turn(c, "erase", "none")
  /\ topics' = [topics EXCEPT ![key[c]] = NoTopic]
  /\ key' = [key EXCEPT ![c] = NoName]
  /\ UNCHANGED <<nameOf, lost, hold, target, byPointer>>

ManagerNext ==
  \E c \in Clients :
    \/ \E n \in Names : GetOrCreateTopic(c, n) \/ InsertThrows(c, n) \/ DeleteByName(c, n)
    \/ DeleteByPointer(c) \/ Destroy(c) \/ DestroyFails(c) \/ Erase(c)

ManagerSpec == ManagerInit /\ [][ManagerNext]_managerVars

-----------------------------------------------------------------------------
ManagerTypeOK ==
  /\ topics \in [Names -> Places \cup {NoTopic}]
  /\ nameOf \in [Places -> Names \cup {NoName}]
  /\ lost \subseteq Places
  /\ hold \in [Clients -> Places \cup {NoTopic}]
  /\ task \in [Clients -> {"none", "destroy", "destroyIt", "erase"}]
  /\ target \in [Clients -> Places \cup {NoTopic}]
  /\ \A c \in Clients : task[c] \in {"destroy", "destroyIt"} => target[c] \in Places
  /\ key \in [Clients -> Names \cup {NoName}]
  /\ byPointer \in BOOLEAN

Deletes(c, p) == task[c] = "destroy" /\ target[c] = p

MapLeadsToTopics ==
  \A n \in Names : topics[n] # NoTopic => topics[n] \in Live \ lost /\ nameOf[topics[n]] = n

\* A topic that is being deleted has one client that does, and is off the map.
DeletedByOne ==
  \A c \in Clients :
    /\ task[c] \in {"none", "destroy"}
    /\ task[c] = "destroy" =>
         /\ target[c] \in Live \ lost
         /\ \A n \in Names : topics[n] # target[c]
         /\ \A d \in Clients : Deletes(d, target[c]) => d = c

NoneIsForgotten ==
  \A p \in Live \ lost : topics[nameOf[p]] = p \/ \E c \in Clients : Deletes(c, p)

(***************************************************************************)
(* As long as topics are deleted by their names, each topic is reached by  *)
(* its own name, or by the one client that is deleting it, or was lost by  *)
(* a failure; and neither the map nor such a client leads to a place where *)
(* there is no topic.                                                      *)
(***************************************************************************)
TopicsAreReached ==
  /\ ManagerTypeOK
  /\ ~byPointer => MapLeadsToTopics /\ DeletedByOne /\ NoneIsForgotten /\ lost \subseteq Live
=============================================================================

---------------------------- MODULE HttpsClient -----------------------------
(***************************************************************************)
(* A client for HTTPS requests (HttpsClient): any thread sends, one worker *)
(* lets libcurl transfer and calls the handler of each request that has    *)
(* ended, its owner starts and stops it.                                   *)
(*                                                                         *)
(* A request stands for its CurlContext; the address of an easy handle is  *)
(* given to another one once it has been cleaned up.  What libcurl does    *)
(* with a transfer is external: it goes on for as long as it likes, and    *)
(* adding one is taken to be atomic.  Names are made to be used beside     *)
(* those of other modules.                                                 *)
(***************************************************************************)
EXTENDS Naturals, FiniteSets

CONSTANTS
  Requests,     \* calls of send()
  Curls,        \* addresses of easy handles
  NoCurl, NoRequest,
  MaxStarts     \* bound on the calls of start()

ASSUME HttpsAssumption ==
  NoCurl \notin Curls /\ NoRequest \notin Requests /\ MaxStarts \in Nat

VARIABLES
  quit,         \* done_
  multi,        \* curl_m_: "none", "live" or "freed"
  starts,       \* calls of start() so far
  selector,     \* what selectThread_ does next, "none" if it is not joinable
  stopper,      \* progress of stop()
  stage,        \* progress of send() for each request
  handle,       \* the easy handle of each request
  easy,         \* the easy handles that exist
  contexts,     \* contexts_
  transfer,     \* what the multi handle knows of each easy handle
  current,      \* msg->easy_handle
  answers       \* history: calls of receiveComplete for each request

clientVars == <<quit, multi, starts, stopper>>
sendVars == <<stage, handle>>
httpsVars == <<clientVars, selector, sendVars, easy, contexts, transfer, current, answers>>

HttpsInit ==
  /\ quit = FALSE /\ multi = "none" /\ starts = 0
  /\ selector = "none" /\ stopper = "no"
  /\ stage = [r \in Requests |-> "new"]
  /\ handle = [r \in Requests |-> NoCurl]
  /\ easy = {}
  /\ contexts = [c \in Curls |-> NoRequest]
  /\ transfer = [c \in Curls |-> "no"]
  /\ current = NoCurl
  /\ answers = [r \in Requests |-> 0]

Stage(r, from, to) == stage[r] = from /\ stage' = [stage EXCEPT ![r] = to]

-----------------------------------------------------------------------------
(* send(): the easy handle is made, its context entered, the transfer      *)
(* added.                                                                  *)

\* Slip: the transfer is added before its context has been entered.
AddedFirst(r) ==
  /\ Stage(r, "new", "enter")
  /\ \E c \in Curls \ easy :
       /\ easy' = easy \cup {c} /\ handle' = [handle EXCEPT ![r] = c]
       /\ transfer' = IF multi = "live" THEN [transfer EXCEPT ![c] = "running"] ELSE transfer
  /\ UNCHANGED <<clientVars, selector, contexts, current, answers>>

MakeEasy(r) ==
  /\ Stage(r, "new", "enter")
  /\ \E c \in Curls \ easy :
       easy' = easy \cup {c} /\ handle' = [handle EXCEPT ![r] = c]
  /\ UNCHANGED <<clientVars, selector, contexts, transfer, current, answers>>

\* There is no easy handle to be had: send() returns, nobody is told.
NoEasy(r) ==
  /\ Stage(r, "new", "dropped")
  /\ UNCHANGED <<clientVars, selector, handle, easy, contexts, transfer, current, answers>>

EnterContext(r) ==
  /\ Stage(r, "enter", "add")
  /\ contexts' = [contexts EXCEPT ![handle[r]] = r]
  /\ UNCHANGED <<clientVars, selector, handle, easy, transfer, current, answers>>

\* Adding to a multi handle that is not there fails, unnoticed, at best.
AddHandle(r) ==
  /\ Stage(r, "add", "sent")
  /\ transfer' = IF multi = "live" THEN [transfer EXCEPT ![handle[r]] = "running"]
                 ELSE transfer
  /\ UNCHANGED <<clientVars, selector, handle, easy, contexts, current, answers>>

-----------------------------------------------------------------------------
(* The owner.                                                              *)

\* A new multi handle takes the place of the old one, with whatever the old
\* one was transferring; a thread is made unless there is one to be joined.
HttpsStart ==
  /\ starts < MaxStarts /\ stopper \in {"no", "returned"}
  /\ starts' = starts + 1
  /\ multi' = "live"
  /\ transfer' = [c \in Curls |-> "no"]
  /\ selector' = IF selector = "none" THEN "sleep" ELSE selector
  /\ UNCHANGED <<quit, stopper, sendVars, easy, contexts, current, answers>>

\* A second call returns at once.
HttpsStop ==
  /\ starts > 0 /\ ~quit
  /\ quit' = TRUE
  /\ stopper' = "join"
  /\ UNCHANGED <<multi, starts, selector, sendVars, easy, contexts, transfer,
                 current, answers>>

HttpsJoin ==
  /\ stopper = "join" /\ selector \in {"none", "ended"}
  /\ selector' = "none"
  /\ stopper' = "returned" /\ multi' = "freed"
  /\ transfer' = [c \in Curls |-> "no"]
  /\ UNCHANGED <<quit, starts, sendVars, easy, contexts, current, answers>>

-----------------------------------------------------------------------------
(* worker_().                                                              *)

Select(from, to) == selector = from /\ selector' = to

\* Slip: the worker does not look at done_.
WakeUnaware ==
  /\ Select("sleep", "perform")
  /\ UNCHANGED <<clientVars, sendVars, easy, contexts, transfer, current, answers>>

\* After 100 ms.
Wake ==
  /\ Select("sleep", IF quit THEN "ended" ELSE "perform")
  /\ UNCHANGED <<clientVars, sendVars, easy, contexts, transfer, current, answers>>

Running == {c \in Curls : transfer[c] = "running"}
Ended == {c \in Curls : transfer[c] = "ended"}

\* The inner loop is left when nothing runs any more.
Performed ==
  /\ Running = {}
  /\ Select("perform", "read")
  /\ UNCHANGED <<clientVars, sendVars, easy, contexts, transfer, current, answers>>

\* curl_multi_perform: some of the transfers end.
Perform ==
  /\ selector = "perform"
  /\ \E s \in SUBSET Running \ {{}} :
       transfer' = [c \in Curls |-> IF c \in s THEN "ended" ELSE transfer[c]]
  /\ UNCHANGED <<clientVars, selector, sendVars, easy, contexts, current, answers>>

\* A message is taken, and the handler of its request called.
ReadMessage ==
  /\ \E c \in Ended :
       /\ current' = c
       /\ transfer' = [transfer EXCEPT ![c] = "no"]
       /\ IF contexts[c] = NoRequest
          THEN Select("read", "cleanup") /\ UNCHANGED answers
          ELSE /\ Select("read", "handler")
               /\ answers' = [answers EXCEPT ![contexts[c]] = @ + 1]
  /\ UNCHANGED <<clientVars, sendVars, easy, contexts>>

NoMessage ==
  /\ Ended = {}
  /\ Select("read", "sleep")
  /\ UNCHANGED <<clientVars, sendVars, easy, contexts, transfer, current, answers>>

\* Slip: the easy handle is cleaned up before its entry is erased.
CleanupFirst ==
  /\ Select("handler", "cleanup")
  /\ easy' = easy \ {current}
  /\ UNCHANGED <<clientVars, sendVars, contexts, transfer, current, answers>>

\* The handler has returned: the entry is erased and the context deleted.
HandlerReturns ==
  /\ Select("handler", "cleanup")
  /\ contexts' = [contexts EXCEPT ![current] = NoRequest]
  /\ UNCHANGED <<clientVars, sendVars, easy, transfer, current, answers>>

CleanupEasy ==
  /\ Select("cleanup", "read")
  /\ easy' = easy \ {current}
  /\ current' = NoCurl
  /\ UNCHANGED <<clientVars, sendVars, contexts, transfer, answers>>

Worker == Wake \/ Performed \/ ReadMessage \/ NoMessage \/ HandlerReturns \/ CleanupEasy

HttpsNext ==
  \/ \E r \in Requests : MakeEasy(r) \/ NoEasy(r) \/ EnterContext(r) \/ AddHandle(r)
  \/ HttpsStart \/ HttpsStop \/ HttpsJoin
  \/ Perform
  \/ Worker

HttpsSpec == HttpsInit /\ [][HttpsNext]_httpsVars

\* The threads are scheduled and handlers return.  Nothing makes a transfer end.
HttpsFairness == WF_httpsVars(Worker) /\ WF_httpsVars(HttpsJoin)

-----------------------------------------------------------------------------
HttpsTypeOK ==
  /\ quit \in BOOLEAN /\ multi \in {"none", "live", "freed"} /\ starts \in Nat
  /\ selector \in {"none", "sleep", "perform", "read", "handler", "cleanup", "ended"}
  /\ stopper \in {"no", "join", "returned"}
  /\ stage \in [Requests -> {"new", "enter", "add", "sent", "dropped"}]
  /\ handle \in [Requests -> Curls \cup {NoCurl}]
  /\ easy \subseteq Curls
  /\ contexts \in [Curls -> Requests \cup {NoRequest}]
  /\ transfer \in [Curls -> {"no", "running", "ended"}]
  /\ current \in Curls \cup {NoCurl}
  /\ answers \in [Requests -> Nat]

\* A request has an easy handle from its making to its clean-up.
Open(r) == stage[r] \in {"enter", "add", "sent"} /\ answers[r] = 0

(***************************************************************************)
(* Each request is answered at most once, and while it is open its handle  *)
(* is its own and leads to it, however often addresses are given out       *)
(* again; what the multi handle transfers belongs to an open request; and  *)
(* the worker uses no multi handle that has been freed.                    *)
(***************************************************************************)
HttpsIInv ==
  /\ HttpsTypeOK
  /\ \A r \in Requests : answers[r] <= 1
  /\ \A r \in Requests : answers[r] # 0 => stage[r] = "sent"
  /\ \A r \in Requests : Open(r) =>
       /\ handle[r] \in easy \ {current}
       /\ stage[r] # "enter" => contexts[handle[r]] = r
  /\ \A r, s \in Requests : Open(r) /\ Open(s) /\ handle[r] = handle[s] => r = s
  /\ \A c \in Curls : transfer[c] # "no" =>
       \E r \in Requests : handle[r] = c /\ Open(r) /\ stage[r] = "sent"
  /\ IF selector \in {"handler", "cleanup"} THEN current \in easy ELSE current = NoCurl
  /\ selector \in {"none", "ended"} \/ multi = "live"

Busy == Running # {}

(***************************************************************************)
(* The handler of a request whose transfer has ended is called, unless     *)
(* some other transfer runs for ever (the worker waits until none does) or *)
(* start() has been called again and has cut off what was under way.       *)
(***************************************************************************)
EndedIsAnswered ==
  \A r \in Requests :
    \/ (Open(r) /\ handle[r] \in Ended) ~> (answers[r] = 1 \/ starts > 1)
    \/ <>[]Busy

\* stop() returns, unless some transfer runs for ever.
HttpsStopReturns == (stopper = "join" ~> stopper = "returned") \/ <>[]Busy
=============================================================================

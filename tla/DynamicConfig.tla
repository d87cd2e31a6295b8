---------------------------- MODULE DynamicConfig ----------------------------
(***************************************************************************)
(* A configuration that is parsed by the thread that dispatches it and     *)
(* taken over by whoever reads it next (DynamicConfig): the two halves of  *)
(* parsed_ and the flag writed_, which is outside the lock.                *)
(*                                                                         *)
(* A configuration is the number of the dispatch that brought it.  Parsing *)
(* writes into parsed_.second and may end half way.  A reader copies it to *)
(* parsed_.first, which takes it a while; the lock it holds is shared, so  *)
(* that another may do so at the same time, and config() hands out         *)
(* references to parsed_.first, which are used under no lock at all.       *)
(***************************************************************************)
EXTENDS Naturals

CONSTANTS
  DynReaders,       \* threads that read the configuration
  MaxDispatches     \* bound on the calls of dispatch()

ASSUME DynamicAssumption == MaxDispatches \in Nat /\ "dispatcher" \notin DynReaders

VARIABLES
  parsed,           \* parsed_
  writed,           \* writed_
  dispatches,       \* calls of dispatch() so far
  dynamicAt,        \* progress of the readers and of the dispatcher
  newest,           \* history: the last configuration that was parsed
  overtaken,        \* history: a dispatch between an old copy and the reset of the flag
  garbled,          \* history: a configuration that could not be parsed
  torn              \* history: two threads copying at once

dynamicVars == <<parsed, writed, dispatches, dynamicAt, newest, overtaken, garbled, torn>>

Threads == DynReaders \cup {"dispatcher"}
HalfWay == MaxDispatches + 1      \* a half of parsed_ that is being written

DynamicInit ==
  /\ parsed = [first |-> 0, second |-> 0] /\ writed = FALSE
  /\ dispatches = 0
  /\ dynamicAt = [t \in Threads |-> "out"]
  /\ newest = 0 /\ overtaken = FALSE /\ garbled = FALSE /\ torn = FALSE

Step(t, from, to) == dynamicAt[t] = from /\ dynamicAt' = [dynamicAt EXCEPT ![t] = to]

Copying == {t \in Threads : dynamicAt[t] = "copying"}
Sharing == {t \in Threads : dynamicAt[t] \in {"copy", "copying"}}
Writing == dynamicAt["dispatcher"] = "parse"

-----------------------------------------------------------------------------
(* dispatch().                                                             *)

BeginParse ==
  /\ Sharing = {} /\ dispatches < MaxDispatches
  /\ Step("dispatcher", "out", "parse")
  /\ dispatches' = dispatches + 1
  /\ parsed' = [parsed EXCEPT !.second = HalfWay]
  /\ UNCHANGED <<writed, newest, overtaken, garbled, torn>>

EndParse ==
  /\ Step("dispatcher", "parse", "flag")
  /\ parsed' = [parsed EXCEPT !.second = dispatches]
  /\ newest' = dispatches
  /\ UNCHANGED <<writed, dispatches, overtaken, garbled, torn>>

\* What has been parsed until then stays there.
ParseFails ==
  /\ Step("dispatcher", "parse", "out")
  /\ garbled' = TRUE
  /\ UNCHANGED <<parsed, writed, dispatches, newest, overtaken, torn>>

\* After that, onDynamicConfigUpdated is given what config() returns.
SetWrited ==
  /\ Step("dispatcher", "flag", "enter")
  /\ writed' = TRUE
  /\ overtaken' = (overtaken \/ (/\ parsed.first # newest /\ Copying = {}
                                 /\ \E t \in Threads : dynamicAt[t] = "reset"))
  /\ UNCHANGED <<parsed, dispatches, newest, garbled, torn>>

-----------------------------------------------------------------------------
(* config().                                                               *)

Config(t) ==
  /\ IF t = "dispatcher" THEN dynamicAt[t] = "enter" ELSE dynamicAt[t] = "out"
  /\ dynamicAt' = [dynamicAt EXCEPT ![t] = IF writed THEN "lock" ELSE "out"]
  /\ UNCHANGED <<parsed, writed, dispatches, newest, overtaken, garbled, torn>>

\* Slip: the lock is not taken.
ReadUnlocked(t) ==
  /\ Step(t, "lock", "copy")
  /\ UNCHANGED <<parsed, writed, dispatches, newest, overtaken, garbled, torn>>

ReadLocked(t) ==
  /\ ~Writing
  /\ Step(t, "lock", "copy")
  /\ UNCHANGED <<parsed, writed, dispatches, newest, overtaken, garbled, torn>>

BeginCopy(t) ==
  /\ Step(t, "copy", "copying")
  /\ parsed' = [parsed EXCEPT !.first = HalfWay]
  /\ torn' = (torn \/ Copying # {})
  /\ UNCHANGED <<writed, dispatches, newest, overtaken, garbled>>

\* Two that have written at once may leave it in any state.
EndCopy(t) ==
  /\ Step(t, "copying", "reset")
  /\ \E half \in {parsed.second} \cup (IF torn THEN {HalfWay} ELSE {}) :
       parsed' = [parsed EXCEPT !.first = half]
  /\ UNCHANGED <<writed, dispatches, newest, overtaken, garbled, torn>>

ResetWrited(t) ==
  /\ Step(t, "reset", "out")
  /\ writed' = FALSE
  /\ UNCHANGED <<parsed, dispatches, newest, overtaken, garbled, torn>>

DynamicNext ==
  \/ BeginParse \/ EndParse \/ ParseFails \/ SetWrited
  \/ \E t \in Threads : Config(t) \/ ReadLocked(t) \/ BeginCopy(t) \/ EndCopy(t) \/ ResetWrited(t)

DynamicSpec == DynamicInit /\ [][DynamicNext]_dynamicVars

-----------------------------------------------------------------------------
DynamicTypeOK ==
  /\ parsed \in [first : 0..HalfWay, second : 0..HalfWay]
  /\ writed \in BOOLEAN /\ overtaken \in BOOLEAN /\ garbled \in BOOLEAN /\ torn \in BOOLEAN
  /\ dispatches \in 0..MaxDispatches /\ newest \in 0..MaxDispatches
  /\ dynamicAt \in [Threads -> {"out", "parse", "flag", "enter", "lock", "copy", "copying", "reset"}]

(***************************************************************************)
(* While no reader is copying, parsed_.first, which all are given, is the  *)
(* newest configuration that could be parsed, or the flag tells the next   *)
(* reader to take that one over; it is never one half parsed.  This is so  *)
(* until a dispatch falls between a reader's copy and its reset of the     *)
(* flag, until one cannot be parsed, or until two readers copy at once.    *)
(* (While one copies, those that hold a reference, and those that find the *)
(* flag reset by another, see one half copied.)                            *)
(***************************************************************************)
NewestIsShown ==
  /\ DynamicTypeOK
  /\ overtaken \/ garbled \/ torn \/ Copying # {}
       \/ /\ parsed.first # HalfWay
          /\ ~writed /\ dynamicAt["dispatcher"] \notin {"parse", "flag"} => parsed.first = newest
=============================================================================

------------------------------- MODULE Signal -------------------------------
(***************************************************************************)
(* Signals and slots (Signal, Connection): any thread, and any handler,    *)
(* connects and disposes; an emission calls the handlers in the order of   *)
(* their tokens, under a lock of its own, while changes are put off.       *)
(*                                                                         *)
(* lock_ guards sections that wait for nothing, each of them one step.     *)
(* The counter of the tokens is never set in the code; it is taken to      *)
(* start low enough not to wrap.                                           *)
(***************************************************************************)
EXTENDS Naturals, Sequences, FiniteSets

CONSTANTS
  Emitters,      \* threads that emit
  MaxTokens,     \* bound on the calls of connect()
  MaxPending     \* bound on the changes that are put off at a time

ASSUME SignalAssumption == MaxTokens \in Nat /\ MaxPending \in Nat

VARIABLES
  peakToken,        \* peakToken_
  handlers,         \* handlers_, by their tokens
  inSnapshotMode,   \* inSnapshotMode_
  pendingActions,   \* pendingActions_
  emitter,          \* progress of each emission
  called,           \* handlers the emission under way has been through
  due,              \* history: handlers connected when it began
  connected         \* history: those that were connected and not disposed

tokenVars == <<peakToken, handlers, pendingActions, connected>>
signalVars == <<tokenVars, inSnapshotMode, emitter, called, due>>

SignalInit ==
  /\ peakToken = 1 /\ handlers = {} /\ pendingActions = <<>>
  /\ inSnapshotMode = FALSE
  /\ emitter = [e \in Emitters |-> "idle"]
  /\ called = {} /\ due = {} /\ connected = {}

EmitterGoes(e, from, to) == emitter[e] = from /\ emitter' = [emitter EXCEPT ![e] = to]

\* Add or remove one handler.
Modified(hs, change) ==
  IF change.add THEN hs \cup {change.token} ELSE hs \ {change.token}

\* Slip: a change is made at once.
ModifyAtOnce(change) ==
  handlers' = Modified(handlers, change) /\ UNCHANGED pendingActions

\* A change is put off during an emission.
Modify(change) ==
  IF inSnapshotMode
    THEN /\ Len(pendingActions) < MaxPending
         /\ pendingActions' = Append(pendingActions, change)
         /\ UNCHANGED handlers
    ELSE handlers' = Modified(handlers, change) /\ UNCHANGED pendingActions

Connect ==
  /\ peakToken <= MaxTokens
  /\ peakToken' = peakToken + 1
  /\ Modify([add |-> TRUE, token |-> peakToken])
  /\ connected' = connected \cup {peakToken}
  /\ UNCHANGED <<inSnapshotMode, emitter, called, due>>

\* A copy of a connection can be disposed after the connection has been.
Dispose(t) ==
  /\ Modify([add |-> FALSE, token |-> t])
  /\ connected' = connected \ {t}
  /\ UNCHANGED <<peakToken, inSnapshotMode, emitter, called, due>>

LockSnapshot(e) ==
  /\ \A o \in Emitters : emitter[o] = "idle"
  /\ EmitterGoes(e, "idle", "locked")
  /\ UNCHANGED <<tokenVars, inSnapshotMode, called, due>>

BeginSnapshot(e) ==
  /\ EmitterGoes(e, "locked", "calling")
  /\ inSnapshotMode' = TRUE
  /\ called' = {} /\ due' = handlers
  /\ UNCHANGED tokenVars

\* The iterator runs over handlers_ itself.
Left == {t \in handlers : \A c \in called : c < t}

CallHandler(e) ==
  /\ EmitterGoes(e, "calling", "calling")
  /\ \E t \in Left : (\A u \in Left : t <= u) /\ called' = called \cup {t}
  /\ UNCHANGED <<tokenVars, inSnapshotMode, due>>

\* A handler that emits the signal again waits for its own emission.
EmitInHandler(e) ==
  /\ called # {}
  /\ EmitterGoes(e, "calling", "stuck")
  /\ UNCHANGED <<tokenVars, inSnapshotMode, called, due>>

\* The table hs after each of the changes, in their order.
Tables(hs, changes) ==
  LET table[k \in 0..Len(changes)] ==
        IF k = 0 THEN hs ELSE Modified(table[k - 1], changes[k])
  IN  table

Applied == Tables(handlers, pendingActions)[Len(pendingActions)]

\* Slip: endSnapshot without pendingActions_.clear().
EndSnapshotKeeps(e) ==
  /\ Left = {}
  /\ EmitterGoes(e, "calling", "unlock")
  /\ inSnapshotMode' = FALSE
  /\ handlers' = Applied
  /\ UNCHANGED <<peakToken, pendingActions, connected, called, due>>

EndSnapshot(e) ==
  /\ Left = {}
  /\ EmitterGoes(e, "calling", "unlock")
  /\ inSnapshotMode' = FALSE
  /\ handlers' = Applied /\ pendingActions' = <<>>
  /\ UNCHANGED <<peakToken, connected, called, due>>

UnlockSnapshot(e) ==
  /\ EmitterGoes(e, "unlock", "idle")
  /\ UNCHANGED <<tokenVars, inSnapshotMode, called, due>>

SignalNext ==
  \/ Connect
  \/ \E t \in 1..(peakToken - 1) : Dispose(t)
  \/ \E e \in Emitters :
       \/ LockSnapshot(e) \/ BeginSnapshot(e) \/ CallHandler(e) \/ EmitInHandler(e)
       \/ EndSnapshot(e) \/ UnlockSnapshot(e)

SignalSpec == SignalInit /\ [][SignalNext]_signalVars

-----------------------------------------------------------------------------
SignalTypeOK ==
  /\ peakToken \in 1..(MaxTokens + 1)
  /\ handlers \subseteq 1..MaxTokens /\ connected \subseteq 1..MaxTokens
  /\ called \subseteq 1..MaxTokens /\ due \subseteq 1..MaxTokens
  /\ pendingActions \in Seq([add : BOOLEAN, token : 1..MaxTokens])
  /\ inSnapshotMode \in BOOLEAN
  /\ emitter \in [Emitters -> {"idle", "locked", "calling", "stuck", "unlock"}]

(***************************************************************************)
(* Whatever connects and disposes during an emission, and in which order,  *)
(* the handlers with what has been put off are those that are connected,   *)
(* and outside an emission nothing is put off.                             *)
(***************************************************************************)
ChangesAreKept ==
  /\ SignalTypeOK
  /\ Applied = connected
  /\ ~inSnapshotMode => handlers = connected

(***************************************************************************)
(* An emission goes through the handlers that were connected when it       *)
(* began: it skips none, also not one that is disposed meanwhile, and      *)
(* calls none that was connected later.                                    *)
(***************************************************************************)
EmissionCallsThoseConnected ==
  /\ \A e \in Emitters : emitter[e] = "unlock" => called = due
  /\ inSnapshotMode => called \subseteq due
=============================================================================

----------------------------- MODULE ByteStream -----------------------------
(***************************************************************************)
(* What send() of a connection promises to its callers: the bytes they     *)
(* hand over, from any thread, form one stream, and the socket is given    *)
(* that stream from its start, without a gap, a repetition or a change of  *)
(* order.  A connection may break and then gives nothing more, but never   *)
(* something else.                                                         *)
(*                                                                         *)
(* TcpServer and TcpClient are shown to implement it.  There are no        *)
(* buffers, partial writes or threads here.                                *)
(***************************************************************************)
EXTENDS Naturals, Sequences

CONSTANT Messages    \* what one call of send() hands over

VARIABLES sent,      \* the bytes handed over, in the order they were accepted
          written    \* the bytes the socket was given

vars == <<sent, written>>

Init == sent = <<>> /\ written = <<>>

Send == \E m \in Messages : sent' = sent \o m /\ UNCHANGED written

Write ==
  /\ \E n \in (Len(written) + 1)..Len(sent) : written' = SubSeq(sent, 1, n)
  /\ UNCHANGED sent

Next == Send \/ Write

Spec == Init /\ [][Next]_vars
=============================================================================

---------------------------- MODULE MCTcpServer -----------------------------
(* TcpServer with messages of two bytes, so that a write can take a part.  *)
EXTENDS TcpServer

CONSTANTS x, y

MCBytes == {x, y}
MCMessages == {<<x, y>>}
=============================================================================

---------------------------- MODULE MCTcpClient -----------------------------
(* TcpClient with messages of one and of two bytes.                        *)
EXTENDS TcpClient

CONSTANTS x, y

MCBytes == {x, y}
MCMessages == {<<x>>, <<y, x>>}
=============================================================================

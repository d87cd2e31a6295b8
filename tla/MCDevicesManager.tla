-------------------------- MODULE MCDevicesManager --------------------------
(* DevicesManager with a small set of clients.                             *)
EXTENDS DevicesManager
=============================================================================

------------------------------ MODULE MCHandle ------------------------------
(* Small handles for TLC.                                                   *)
EXTENDS Handle

OneCaller == {"t"}
OneReader == {"r"}
TwoCalls == {"a", "b"}
GrantClients == Callers \cup {"batch", "close"}
=============================================================================

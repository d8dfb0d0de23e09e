------------------------------ MODULE MCPeers ------------------------------
(* Instances of Peers: who calls what beside whom. *)
EXTENDS Peers, TLC

CONSTANTS p, q

BesideReader == (p :> {"write", "compact", "read"} @@ q :> {"read"})
BesideMaintenance == (p :> {"compact", "maintain", "die"} @@ q :> {"write", "close"})
BesideWaiter == (p :> {"write", "compact"} @@ q :> {"wait"})
DeathAndWaiter == (p :> {"write", "die"} @@ q :> {"wait", "close"})

MCPrograms == {BesideReader, BesideMaintenance, BesideWaiter, DeathAndWaiter}
=============================================================================

----------------------------- MODULE MCTxPager -----------------------------
(***************************************************************************)
(* The instance of TxPager for TLC: see TxPager.cfg.                       *)
(***************************************************************************)
EXTENDS TxPager
=============================================================================

-------------------------- MODULE MCMarketSession --------------------------
(***************************************************************************)
(* Instances of MarketSession for TLC.                                     *)
(***************************************************************************)
EXTENDS MarketSession
=============================================================================

----------------------------- MODULE MCBlocking -----------------------------
(***************************************************************************)
(* Instances of BlockingIOCometSupport for TLC.                            *)
(***************************************************************************)
EXTENDS BlockingIOCometSupport
===========================================================================

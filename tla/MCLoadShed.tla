----------------------------- MODULE MCLoadShed -----------------------------
(***************************************************************************)
(* A small instance of LoadShed, with its windows scaled down.             *)
(***************************************************************************)
EXTENDS LoadShed
=============================================================================

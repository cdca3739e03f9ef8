-------------------------- MODULE MCAccountManager --------------------------
(***************************************************************************)
(* Instances of AccountManager for TLC.  Service 1 allows one account and  *)
(* has a plugin that keeps its parameters itself; service 2 is created at  *)
(* start-up and may be used without limit.  The configurations give both   *)
(* a token unless a run is smaller on purpose.                             *)
(***************************************************************************)
EXTENDS AccountProperties, AccountRefinement

MCMaxCount == [s \in Service |-> IF s = 1 THEN 1 ELSE -1]
=============================================================================

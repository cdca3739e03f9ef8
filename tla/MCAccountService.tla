-------------------------- MODULE MCAccountService --------------------------
(***************************************************************************)
(* Instances of AccountService for TLC: a service with one plain parameter *)
(* that the provider presets, and protected ones that its plugin keeps in  *)
(* one dual_password secret.                                               *)
(***************************************************************************)
EXTENDS AccountService, TLC

CONSTANTS host, user, service, v1

MCRole == (user :> "user") @@ (service :> "service")
MCPreset == [k \in Param |-> IF k = host THEN v1 ELSE Missing]
=============================================================================

--------------------------- MODULE SecretManager ---------------------------
(***************************************************************************)
(* The secret service as SecretManager.cpp uses it: a store of items, of   *)
(* which the model keeps the attributes "account_id" and "service".  Every *)
(* request goes out on a thread the caller joins, so it has been applied   *)
(* or not when the caller goes on; under the fault "secret" it may be      *)
(* refused, and it may be applied while its answer is lost.                *)
(***************************************************************************)
EXTENDS AccountDefinitions

VARIABLE secrets

SecretTypeOK == secrets \subseteq Key \X Service

(* A request that turns the store into `new` and answers `ok`. *)
request(new, ok) ==
    \/ ok /\ secrets' = new
    \/ ~ok /\ "secret" \in Faults /\ secrets' = new
    \/ ~ok /\ "secret" \in Faults /\ secrets' = secrets

MutantSwapped(id, s, ok) == request(secrets \cup {<<s, id>>}, ok)
setSecret(id, s, ok) == request(secrets \cup {<<id, s>>}, ok)

removeService(id, s, ok) == request(secrets \ {<<id, s>>}, ok)

removeAccount(id, ok) == request({x \in secrets : x[1] # id}, ok)
=============================================================================

------------------------------ MODULE MCEngine ------------------------------
(***************************************************************************)
(* Two providers, one of which needs an endpoint, and the forms that tell  *)
(* the paths apart: the permission to relay, two providers, none, and an   *)
(* endpoint that the engine refuses.                                       *)
(***************************************************************************)
EXTENDS ManagedEngine

Form(relay, enabled, refused) ==
  [relay |-> relay, enabled |-> enabled, endpoint |-> {"pa"}, refused |-> refused]

MCForms == {Form(FALSE, {"pa", "pb"}, {}), Form(TRUE, {"pb"}, {}), Form(FALSE, {}, {}),
            Form(FALSE, {"pa"}, {"pa"})}
=============================================================================

------------------------------ MODULE MCWizard ------------------------------
(***************************************************************************)
(* A window with two providers and one client, on a machine that passes    *)
(* the checks and on one with a locked keyring and no engine, opened for   *)
(* the first time or on a saved setup.                                     *)
(***************************************************************************)
EXTENDS Wizard

Healthy == [root |-> FALSE, graphical |-> TRUE, keyring |-> "ready", engine |-> "answers",
            journal |-> "clean", audio |-> "ready"]

Troubled == [Healthy EXCEPT !.keyring = "locked", !.engine = "missing"]

MCMachines == {Healthy, Troubled}

MCSetups == {NotSaved,
             [NotSaved EXCEPT !.state = "saved", !.provider = CHOOSE p \in Providers : TRUE,
                !.keyed = TRUE]}
=============================================================================

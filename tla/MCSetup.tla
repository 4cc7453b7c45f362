------------------------------ MODULE MCSetup ------------------------------
(***************************************************************************)
(* Small installations for SetupTransaction: two providers, one of them    *)
(* asking for the relay, and as many keys as there can be new setups.      *)
(***************************************************************************)
EXTENDS SetupTransaction, TLC

CONSTANTS groq, elevenlabs

Intent(providers, c, r) == [providers |-> providers, client |-> c, relay |-> r]

\* The form configures one provider and one client at a time.
FormIntents == {Intent({groq}, TRUE, TRUE), Intent({elevenlabs}, TRUE, FALSE)}

OneIntent == {Intent({groq}, TRUE, TRUE)}

KeySymmetry == Permutations(Keys)
KeyAndWindowSymmetry == KeySymmetry \union Permutations(Windows)
=============================================================================

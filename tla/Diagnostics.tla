---------------------------- MODULE Diagnostics ----------------------------
(***************************************************************************)
(* run_diagnostics: the checks the window, its status page and the doctor  *)
(* command share, as a function of the machine and of the saved setup.     *)
(* A check is its identifier and its severity; texts are left out.         *)
(***************************************************************************)
EXTENDS Naturals, FiniteSets

CONSTANTS
  Providers,    \* providers the form offers
  Clients,      \* adapters of the packaged matrix, the manual path included
  None          \* no provider, no client, no key

Machine ==
  [root: BOOLEAN, graphical: BOOLEAN,
   keyring: {"ready", "locked", "missing"},     \* the session's Secret Service
   engine: {"answers", "silent", "missing"},    \* the packaged engine
   journal: {"clean", "unfinished", "unreadable"},
   audio: {"ready", "unclean", "unusable"}]     \* the temporary audio area

\* The managed configuration, with one provider as the form writes it.
\* `keyed`: its key is in the keyring.
Saved ==
  [state: {"missing", "unreadable", "saved"}, provider: Providers \union {None},
   keyed: BOOLEAN, tested: BOOLEAN, relay: BOOLEAN,
   client: Clients \union {None}, confirmed: BOOLEAN]

NotSaved == [state |-> "missing", provider |-> None, keyed |-> FALSE, tested |-> FALSE,
             relay |-> FALSE, client |-> None, confirmed |-> FALSE]

Check(id, severity) == [id |-> id, severity |-> severity]

\* A check that either passes or has the given severity.
Unless(ok, id, severity) == Check(id, IF ok THEN "ok" ELSE severity)

-----------------------------------------------------------------------------
PrivilegeCheck(m) == Unless(~m.root, "platform.privilege", "error")

SessionCheck(m) == Unless(m.graphical, "platform.session", "warning")

ConfigCheck(c) ==
  Unless(c.state = "saved", "config.load", IF c.state = "missing" THEN "info" ELSE "error")

\* Mutant of KeyringCheck: without a keyring there is only a warning.
KeyringCheckMild(m) == Unless(m.keyring # "missing", "keyring.backend", "warning")

\* The store is only constructed: a locked keyring passes.
KeyringCheck(m) == Unless(m.keyring # "missing", "keyring.backend", "error")

EngineInstalledCheck(m) == Unless(m.engine # "missing", "engine.installed", "error")

\* Without a keyring the keys are not looked up, and nothing is said of them.
ProviderChecks(m, c) ==
  {Unless(c.provider # None, "providers.enabled", "error")} \union
  IF c.provider = None \/ m.keyring = "missing" THEN {}
  ELSE {Unless(c.keyed, "providers.credentials", "error")}
         \union (IF c.tested THEN {} ELSE {Check("providers.verified", "info")})

\* The area is prepared and swept only where relaying is allowed.
TemporaryAudioCheck(m, c) ==
  Check("privacy.temporary_audio",
        CASE ~c.relay \/ m.audio = "ready" -> "ok"
          [] c.relay /\ m.audio = "unclean" -> "warning"
          [] c.relay /\ m.audio = "unusable" -> "error")

ClientCheck(c) == Unless(c.client # None /\ c.confirmed, "client.registration", "info")

JournalCheck(m) == Unless(m.journal = "clean", "journal.state", "warning")

HandshakeCheck(m) == Unless(m.engine = "answers", "engine.handshake", "error")

\* The lookup of a saved key in a locked keyring raises out of run_diagnostics.
Raises(m, c) == c.state = "saved" /\ c.provider # None /\ m.keyring = "locked"

Report(m, c, checkEngine) ==
  {PrivilegeCheck(m), SessionCheck(m), ConfigCheck(c), KeyringCheck(m),
   EngineInstalledCheck(m)} \union
  IF c.state # "saved" THEN {}
  ELSE ProviderChecks(m, c)
         \union {TemporaryAudioCheck(m, c), ClientCheck(c), JournalCheck(m)}
         \union (IF checkEngine THEN {HandshakeCheck(m)} ELSE {})

\* The report's worst severity decides the doctor's exit code.
Rank == [ok |-> 0, info |-> 1, warning |-> 2, error |-> 3]
Worst(report) ==
  CHOOSE s \in {c.severity : c \in report} : \A c \in report : Rank[c.severity] <= Rank[s]

\* ChecksStep.show_report: what keeps a first run on the checks page.
Blocking == {"keyring.backend", "engine.installed", "platform.privilege"}

Blocked(report) == \E c \in report : c.id \in Blocking /\ c.severity = "error"
=============================================================================

--------------------------- MODULE ManagedEngine ---------------------------
(***************************************************************************)
(* The engine a desktop client starts under the managed configuration:     *)
(* `serve --transport stdio --config <file>`, from the reading of the      *)
(* configuration, through the keyring and the temporary audio area, to the *)
(* served policy and the end of the pipe; the probe with which Setup and   *)
(* the doctor start an engine of their own; and the doctor's verdict.      *)
(*                                                                         *)
(* Setup, the user and the session change the configuration, the keyring   *)
(* and its lock meanwhile: the engine takes no lock and reads them one     *)
(* after the other.                                                        *)
(***************************************************************************)
EXTENDS Diagnostics

CONSTANTS
  Forms,          \* what Setup commits or an editor leaves: relay, enabled, refused
  NeedsEndpoint,  \* providers that are configured only with an endpoint
  Engines,        \* engine processes at a time
  MaxVersion,     \* bound: keys ever stored for a provider
  MaxChanges      \* bound: changes of the surroundings

ASSUME EngineAssumption ==
  /\ MaxVersion \in Nat \ {0}
  /\ MaxChanges \in Nat
  /\ NeedsEndpoint \subseteq Providers
  /\ Forms \subseteq [relay: BOOLEAN, enabled: SUBSET Providers, endpoint: SUBSET Providers,
                      refused: SUBSET Providers]

VARIABLES
  file,      \* the managed configuration on disk
  ring,      \* keys stored in the keyring, <<provider, version>>
  session,   \* what the user's session provides
  engine,    \* engine processes
  probe,     \* the probe that waits for an engine, and what the last one said
  changes    \* bounded count of changes of the surroundings

vars == <<file, ring, session, engine, probe, changes>>

\* A configuration: a form and, for every provider, the version of its key
\* reference (0: none).  "unreadable" stands for every refusal of the loader.
Blank == [relay |-> FALSE, enabled |-> {}, endpoint |-> {}, refused |-> {}]
NoFile == [state |-> "missing", form |-> Blank, version |-> [p \in Providers |-> 0]]

Session == [keyring: {"ready", "locked", "missing"}, runtimeDir: BOOLEAN, private: BOOLEAN,
            installed: BOOLEAN]

\* The part of the environment an engine is started with that it depends on:
\* the runtime directory, and the bus that leads to the keyring.
Minimal == [runtimeDir |-> FALSE, bus |-> FALSE]
Inherited == [runtimeDir |-> session.runtimeDir, bus |-> TRUE]

NoEngine == [phase |-> "off", by |-> None, env |-> Minimal, piped |-> FALSE, loaded |-> NoFile,
             store |-> FALSE, left |-> {}, keys |-> {}]

\* Mutant of Opened: every provider with a key reference is looked up.
OpenedAll(c) == {p \in Providers : c.version[p] > 0}

\* _provider_settings goes through the enabled providers, and no other.
Opened(c) == c.form.enabled

Refused(c, p) == p \in c.form.refused

\* _lazy_store: the backend is only reached for when a provider needs it.
Reachable(env) == env.bus /\ session.keyring # "missing"

\* get: a locked keyring, and an item that is gone, leave the role unresolved.
KeyIn(c, p) == session.keyring = "ready" /\ <<p, c.version[p]>> \in ring

\* for_runtime_dir and prepare, which only a permission to relay calls for.
AreaReady(c, env) == c.form.relay => env.runtimeDir /\ session.private

\* What the registry calls configured: the engine has the key and, where one
\* is needed, the endpoint.
Configured(e) ==
  {p \in Providers : /\ \E k \in engine[e].keys : k[1] = p
                     /\ p \in NeedsEndpoint => p \in engine[e].loaded.form.endpoint}

Init ==
  /\ session \in Session
  /\ file = NoFile
  /\ ring = {}
  /\ engine = [e \in Engines |-> NoEngine]
  /\ probe = [on |-> None, said |-> "nothing"]
  /\ changes = 0

-----------------------------------------------------------------------------
(***************************************************************************)
(* The surroundings.                                                       *)
(***************************************************************************)
Changed == changes < MaxChanges /\ changes' = changes + 1

\* Setup stores new keys for some of the enabled providers, the ones without a
\* key included, and commits; a replaced key is retired later.
Commit(form, S) ==
  LET version == [p \in Providers |-> IF p \in S THEN file.version[p] + 1 ELSE file.version[p]]
  IN  /\ Changed
      /\ file.state # "unreadable"
      /\ S \subseteq form.enabled
      /\ \A p \in S : version[p] <= MaxVersion
      /\ \A p \in form.enabled : version[p] > 0
      /\ file' = [state |-> "saved", form |-> form, version |-> version]
      /\ ring' = ring \union {<<p, version[p]>> : p \in S}
      /\ UNCHANGED <<session, engine, probe>>

\* A key is retired, erased, or removed with the desktop's own tool.
DropKey(k) ==
  /\ Changed
  /\ k \in ring
  /\ ring' = ring \ {k}
  /\ UNCHANGED <<file, session, engine, probe>>

\* An editor, or a newer build, leaves what this build does not read.
Spoil ==
  /\ Changed
  /\ file.state = "saved"
  /\ file' = [file EXCEPT !.state = "unreadable"]
  /\ UNCHANGED <<ring, session, engine, probe>>

Relock ==
  /\ Changed
  /\ \/ session.keyring = "ready" /\ session' = [session EXCEPT !.keyring = "locked"]
     \/ session.keyring = "locked" /\ session' = [session EXCEPT !.keyring = "ready"]
  /\ UNCHANGED <<file, ring, engine, probe>>

-----------------------------------------------------------------------------
(***************************************************************************)
(* The engine.                                                             *)
(***************************************************************************)
Set(e, r) == engine' = [engine EXCEPT ![e] = r]

\* The process ends by itself: a DesktopError, exit code 1.
Exit(e, c) == Set(e, [NoEngine EXCEPT !.phase = "exited", !.by = engine[e].by, !.loaded = c])

Started(by, env) == [NoEngine EXCEPT !.phase = "starting", !.by = by, !.env = env,
                                     !.piped = TRUE]

\* A client starts its engine with the session's environment or a minimal one.
Launch(e, env) ==
  /\ session.installed
  /\ engine[e].phase \in {"off", "exited"}
  /\ probe.on # e
  /\ Set(e, Started("client", env))
  /\ UNCHANGED <<file, ring, session, probe, changes>>

\* load_managed_config, then _lazy_store.
Load(e) ==
  /\ engine[e].phase = "starting"
  /\ IF file.state # "saved" THEN Exit(e, file)
     ELSE Set(e, [engine[e] EXCEPT !.phase = "resolving", !.loaded = file,
                                   !.left = Opened(file),
                                   !.store = Opened(file) # {} /\ Reachable(engine[e].env)])
  /\ UNCHANGED <<file, ring, session, probe, changes>>

\* One enabled provider: its endpoint is validated, then its key is looked up.
ResolveKey(e) ==
  \E p \in engine[e].left :
    LET c == engine[e].loaded
        found == engine[e].store /\ KeyIn(c, p)
    IN  /\ engine[e].phase = "resolving"
        /\ IF Refused(c, p) THEN Exit(e, c)
           ELSE Set(e, [engine[e] EXCEPT !.left = @ \ {p},
                          !.keys = @ \union (IF found THEN {<<p, c.version[p]>>} ELSE {})])
        /\ UNCHANGED <<file, ring, session, probe, changes>>

\* The temporary audio area where relaying is allowed, the settings and the
\* policy: all of it is fixed from here on.
Prepare(e) ==
  /\ engine[e].phase = "resolving" /\ engine[e].left = {}
  /\ IF AreaReady(engine[e].loaded, engine[e].env)
     THEN Set(e, [engine[e] EXCEPT !.phase = "serving"])
     ELSE Exit(e, engine[e].loaded)
  /\ UNCHANGED <<file, ring, session, probe, changes>>

\* The client closes the pipe; the engine sees it once it serves.
HangUp(e) ==
  /\ engine[e].piped /\ engine[e].by = "client"
  /\ Set(e, [engine[e] EXCEPT !.piped = FALSE])
  /\ UNCHANGED <<file, ring, session, probe, changes>>

\* Mutant of Stop: an engine that is still starting is left to itself.
StopWhenServing(e) ==
  /\ engine[e].phase = "serving" /\ ~engine[e].piped /\ engine[e].by = "client"
  /\ Set(e, NoEngine)
  /\ UNCHANGED <<file, ring, session, probe, changes>>

\* run_async returns, the sweeper ends, the last sweep runs (TempAudio).  The
\* probe's transport ends its process whatever it does.
Stop(e) ==
  /\ engine[e].phase \in {"starting", "resolving", "serving"} /\ ~engine[e].piped
  /\ engine[e].phase = "serving" \/ engine[e].by = "probe"
  /\ Set(e, NoEngine)
  /\ UNCHANGED <<file, ring, session, probe, changes>>

-----------------------------------------------------------------------------
(***************************************************************************)
(* The probe: an engine started with PATH and HOME only, an initialization *)
(* and a listing of the tools, thirty seconds at most.  The tools of an    *)
(* engine that serves are the expected ones.                               *)
(***************************************************************************)
BeginProbe(e) ==
  /\ probe.on = None
  /\ \/ /\ ~session.installed
        /\ probe' = [probe EXCEPT !.said = "missing"]
        /\ UNCHANGED engine
     \/ /\ session.installed
        /\ engine[e].phase \in {"off", "exited"}
        /\ Set(e, Started("probe", Minimal))
        /\ probe' = [on |-> e, said |-> "nothing"]
  /\ UNCHANGED <<file, ring, session, changes>>

\* The outcome, and the end of the pipe of the engine it started.
Concluded(said) ==
  /\ probe' = [on |-> None, said |-> said]
  /\ engine' = [engine EXCEPT ![probe.on].piped = FALSE]
  /\ UNCHANGED <<file, ring, session, changes>>

ProbeAnswered ==
  probe.on # None /\ engine[probe.on].phase = "serving" /\ Concluded("answers")

ProbeFailed ==
  probe.on # None /\ engine[probe.on].phase = "exited" /\ Concluded("failed")

\* asyncio.timeout around the handshake; the subprocess is ended with it.
ProbeTimeout == probe.on # None /\ Concluded("timeout")

-----------------------------------------------------------------------------
(***************************************************************************)
(* The doctor, run in the session, as a function of the state.             *)
(***************************************************************************)
Serves(env) ==
  /\ file.state = "saved"
  /\ AreaReady(file, env)
  /\ \A p \in Opened(file) : ~Refused(file, p)

Keyed(env) == {p \in Opened(file) : Reachable(env) /\ KeyIn(file, p)}

DoctorMachine ==
  [root |-> FALSE, graphical |-> TRUE, keyring |-> session.keyring, journal |-> "clean",
   engine |-> IF ~session.installed THEN "missing"
              ELSE IF Serves(Minimal) THEN "answers" ELSE "silent",
   audio |-> IF session.runtimeDir /\ session.private THEN "ready" ELSE "unusable"]

\* The checks ask whether some provider is enabled and whether all have their
\* key; which provider it is does not matter to them.
DoctorSaved ==
  [NotSaved EXCEPT !.state = file.state, !.relay = file.form.relay,
     !.provider = IF Opened(file) = {} THEN None ELSE CHOOSE p \in Opened(file) : TRUE,
     !.keyed = \A p \in Opened(file) : KeyIn(file, p)]

\* Exit code 0: no error among the checks, and none raised out of them.
DoctorPasses(checkEngine) ==
  /\ ~Raises(DoctorMachine, DoctorSaved)
  /\ Worst(Report(DoctorMachine, DoctorSaved, checkEngine)) # "error"

-----------------------------------------------------------------------------
Surroundings ==
  \/ \E form \in Forms, S \in SUBSET Providers : Commit(form, S)
  \/ \E k \in ring : DropKey(k)
  \/ Spoil
  \/ Relock

Probing == (\E e \in Engines : BeginProbe(e)) \/ ProbeAnswered \/ ProbeFailed \/ ProbeTimeout

EngineStep(e) == Load(e) \/ ResolveKey(e) \/ Prepare(e) \/ Stop(e)

Next ==
  \/ Surroundings
  \/ Probing
  \/ \E e \in Engines : HangUp(e) \/ EngineStep(e) \/ \E env \in {Minimal, Inherited} : Launch(e, env)

Spec == Init /\ [][Next]_vars

\* A started process runs, and the probe has a deadline.  Nothing obliges a
\* client to start an engine, to close its pipe, or Setup to change anything.
FairSpec == /\ Spec
            /\ \A e \in Engines : WF_vars(EngineStep(e))
            /\ WF_vars(ProbeTimeout)

-----------------------------------------------------------------------------
Keys == Providers \X (1..MaxVersion)

Configuration ==
  [state: {"missing", "unreadable", "saved"}, form: Forms \union {Blank},
   version: [Providers -> 0..MaxVersion]]

Process ==
  [phase: {"off", "starting", "resolving", "serving", "exited"},
   by: {"client", "probe", None},
   env: [runtimeDir: BOOLEAN, bus: BOOLEAN], piped: BOOLEAN, loaded: Configuration,
   store: BOOLEAN, left: SUBSET Providers, keys: SUBSET Keys]

TypeOK ==
  /\ file \in Configuration
  /\ ring \subseteq Keys
  /\ session \in Session
  /\ engine \in [Engines -> Process]
  /\ \A e \in Engines : engine[e].left # {} => engine[e].phase = "resolving"
  /\ probe \in [on: Engines \union {None},
                said: {"nothing", "answers", "failed", "timeout", "missing"}]
  /\ changes \in 0..MaxChanges

\* Whatever Setup commits while the engine starts, the keys it ends up with
\* are those its own configuration names, for providers it enables: never the
\* key of a provider the user only keeps, or of another configuration.
\* (runtime.py: "A stored key is not an authorization.")
KeysAreAuthorized ==
  \A e \in Engines :
    /\ Configured(e) \subseteq engine[e].loaded.form.enabled
    /\ \A k \in engine[e].keys : k[2] = engine[e].loaded.version[k[1]]

\* A doctor that finds no error in a saved setup is right: an engine started
\* in the session now would serve, with the key of every enabled provider,
\* and one is enabled.  Only an endpoint the engine refuses is seen by
\* nothing but the engine check.
DoctorTellsTheTruth ==
  \A checkEngine \in BOOLEAN :
    /\ file.state = "saved"
    /\ DoctorPasses(checkEngine)
    /\ checkEngine \/ \A p \in Opened(file) : ~Refused(file, p)
    => /\ session.installed /\ Serves(Inherited)
       /\ Opened(file) # {} /\ Keyed(Inherited) = Opened(file)

\* The probe ends, and so does the engine it started, whatever that does.
ProbeLeavesNothing ==
  \A e \in Engines :
    engine[e].by = "probe" /\ engine[e].phase # "exited"
      ~> engine[e].by # "probe" \/ engine[e].phase = "exited"

\* What engine_probe.py says of itself, verifying the engine "under the
\* committed configuration": when that configuration is still in place, it
\* does not report a failure of an engine that serves a client of this session.
ProbeSpeaksForTheEngine ==
  [][probe.on # None /\ probe'.said = "failed" /\ engine[probe.on].loaded = file
       => ~Serves(Inherited)]_vars
=============================================================================

------------------------- MODULE ManagedEngineProofs -------------------------
(***************************************************************************)
(* What holds of the managed engine for every set of providers, forms and  *)
(* processes: its types, the keys it may hold, and that the doctor, when   *)
(* it finds nothing wrong, is right.                                       *)
(***************************************************************************)
EXTENDS ManagedEngine, TLAPS

\* What is left to resolve, and what was resolved, are roles of providers that
\* the configuration the engine loaded enables.  This is KeysAreAuthorized made
\* inductive: an engine between Load and Prepare has keys still to come, and one
\* that has not loaded yet has none.
Authorized(r) ==
  /\ r.phase = "starting" => r.keys = {}
  /\ r.left \subseteq r.loaded.form.enabled
  /\ \A k \in r.keys : k[1] \in r.loaded.form.enabled /\ k[2] = r.loaded.version[k[1]]

\* One process is well-formed, as far as its own state says.
WellFormed(r) ==
  /\ r \in Process
  /\ r.left # {} => r.phase = "resolving"
  /\ Authorized(r)

Inv ==
  /\ TypeOK
  /\ \A e \in Engines : Authorized(engine[e])

-----------------------------------------------------------------------------
\* The values the steps assign have their types.
LEMMA BlankIsAForm ==
  /\ Blank \in [relay: BOOLEAN, enabled: SUBSET Providers, endpoint: SUBSET Providers,
                refused: SUBSET Providers]
  /\ NoFile \in Configuration
PROOF
<1>1. 0 \in 0..MaxVersion
  BY EngineAssumption
<1> QED BY <1>1 DEF Blank, NoFile, Configuration

LEMMA EnabledAreProviders ==
  ASSUME NEW c \in Configuration
  PROVE  c.form.enabled \subseteq Providers /\ c.version \in [Providers -> 0..MaxVersion]
PROOF BY EngineAssumption DEF Configuration, Blank

LEMMA NoEngineIsWellFormed == WellFormed(NoEngine)
PROOF
<1>1. NoEngine \in Process
  BY BlankIsAForm DEF NoEngine, Process, Minimal
<1> QED BY <1>1 DEF WellFormed, Authorized, NoEngine

LEMMA StartedIsWellFormed ==
  ASSUME NEW by \in {"client", "probe"}, NEW env \in [runtimeDir: BOOLEAN, bus: BOOLEAN]
  PROVE  /\ WellFormed(Started(by, env))
         /\ Started(by, env).phase = "starting"
PROOF
<1>1. Started(by, env) \in Process
  BY BlankIsAForm DEF Started, NoEngine, Process, Minimal
<1> QED BY <1>1 DEF WellFormed, Authorized, Started, NoEngine

\* A step that gives one process a well-formed state, and touches nothing else
\* the invariant speaks of, keeps it.
LEMMA OneProcess ==
  ASSUME Inv, NEW e \in Engines, NEW r, WellFormed(r), Set(e, r),
         UNCHANGED <<file, ring, session, changes>>,
         probe' \in [on: Engines \union {None},
                     said: {"nothing", "answers", "failed", "timeout", "missing"}]
  PROVE  Inv'
PROOF
<1>1. /\ engine' \in [Engines -> Process]
      /\ engine'[e] = r
      /\ \A d \in Engines \ {e} : engine'[d] = engine[d]
  BY DEF Inv, TypeOK, WellFormed, Set
<1>2. TypeOK'
  BY <1>1 DEF Inv, TypeOK, WellFormed
<1>3. ASSUME NEW d \in Engines
      PROVE  Authorized(engine'[d])
  BY <1>1, <1>3 DEF Inv, WellFormed, Authorized
<1> QED BY <1>2, <1>3 DEF Inv, Authorized

-----------------------------------------------------------------------------
LEMMA InitInv == Init => Inv
PROOF
<1> SUFFICES ASSUME Init PROVE Inv
  OBVIOUS
<1>1. TypeOK
  BY BlankIsAForm, NoEngineIsWellFormed, EngineAssumption
  DEF Init, TypeOK, WellFormed, NoEngine, Keys
<1>2. \A e \in Engines : Authorized(engine[e])
  BY NoEngineIsWellFormed DEF Init, WellFormed, NoEngine
<1> QED BY <1>1, <1>2 DEF Inv

\* The surroundings do not touch an engine.
LEMMA SurroundingsKeepInv == Inv /\ Surroundings => Inv'
PROOF
<1> SUFFICES ASSUME Inv, Surroundings PROVE Inv'
  OBVIOUS
<1>0. changes' \in 0..MaxChanges /\ UNCHANGED <<engine, probe>>
  BY EngineAssumption
  DEF Inv, TypeOK, Surroundings, Commit, DropKey, Spoil, Relock, Changed, Session
<1>1. file' \in Configuration /\ ring' \subseteq Keys
  <2>1. CASE \E form \in Forms, S \in SUBSET Providers : Commit(form, S)
    <3>1. PICK form \in Forms, S \in SUBSET Providers : Commit(form, S)
      BY <2>1
    <3> DEFINE version == [p \in Providers |-> IF p \in S THEN file.version[p] + 1
                                               ELSE file.version[p]]
    <3>2. file.version \in [Providers -> 0..MaxVersion]
      BY EnabledAreProviders DEF Inv, TypeOK
    <3>3. \A p \in S : version[p] \in 1..MaxVersion
      <4> SUFFICES ASSUME NEW p \in S PROVE version[p] \in 1..MaxVersion
        OBVIOUS
      <4>1. version[p] = file.version[p] + 1
        OBVIOUS
      <4>2. version[p] <= MaxVersion
        BY <3>1 DEF Commit
      <4>3. file.version[p] \in 0..MaxVersion
        BY <3>2
      <4> HIDE DEF version
      <4> QED BY <4>1, <4>2, <4>3, EngineAssumption
    <3>4. version \in [Providers -> 0..MaxVersion]
      <4>1. \A p \in Providers : version[p] \in 0..MaxVersion
        <5> SUFFICES ASSUME NEW p \in Providers PROVE version[p] \in 0..MaxVersion
          OBVIOUS
        <5>1. CASE p \in S
          <6>1. version[p] \in 1..MaxVersion
            BY <3>3, <5>1
          <6> HIDE DEF version
          <6> QED BY <6>1, EngineAssumption
        <5>2. CASE p \notin S
          BY <3>2, <5>2
        <5> QED BY <5>1, <5>2
      <4> QED BY <4>1
    <3>5. file' = [state |-> "saved", form |-> form, version |-> version]
          /\ ring' = ring \union {<<p, version[p]>> : p \in S}
      BY <3>1 DEF Commit
    <3> HIDE DEF version
    <3>6. file' \in Configuration
      BY <3>4, <3>5 DEF Configuration
    <3>7. ring' \subseteq Keys
      BY <3>3, <3>5 DEF Inv, TypeOK, Keys
    <3> QED BY <3>6, <3>7
  <2>2. CASE \E k \in ring : DropKey(k)
    BY <2>2 DEF DropKey, Inv, TypeOK
  <2>3. CASE Spoil
    BY <2>3 DEF Spoil, Inv, TypeOK, Configuration
  <2>4. CASE Relock
    BY <2>4 DEF Relock, Inv, TypeOK
  <2> QED BY <2>1, <2>2, <2>3, <2>4 DEF Surroundings
<1>2. session' \in Session
  BY DEF Inv, TypeOK, Surroundings, Commit, DropKey, Spoil, Relock, Session
<1>3. TypeOK'
  BY <1>0, <1>1, <1>2 DEF Inv, TypeOK
<1>4. \A e \in Engines : (Authorized(engine[e]))'
  BY <1>0 DEF Inv, Authorized
<1> QED BY <1>3, <1>4 DEF Inv

LEMMA ExitKeepsInv ==
  ASSUME Inv, NEW e \in Engines, NEW c \in Configuration, Exit(e, c),
         UNCHANGED <<file, ring, session, probe, changes>>
  PROVE  Inv'
PROOF
<1> DEFINE r == [NoEngine EXCEPT !.phase = "exited", !.by = engine[e].by, !.loaded = c]
<1>1. WellFormed(r)
  BY BlankIsAForm
  DEF Inv, TypeOK, WellFormed, Authorized, NoEngine, Process, Minimal
<1>2. Set(e, r)
  BY DEF Exit
<1> HIDE DEF r
<1> QED BY <1>1, <1>2, OneProcess DEF Inv, TypeOK

LEMMA LoadKeepsInv ==
  ASSUME Inv, NEW e \in Engines, Load(e)
  PROVE  Inv'
PROOF
<1>0. engine[e] \in Process /\ engine[e].left = {} /\ Authorized(engine[e])
  BY DEF Inv, TypeOK, Load
<1>1. CASE file.state # "saved"
  BY <1>1, ExitKeepsInv DEF Load, Inv, TypeOK
<1>2. CASE file.state = "saved"
  <2> DEFINE r == [engine[e] EXCEPT !.phase = "resolving", !.loaded = file,
                     !.left = Opened(file),
                     !.store = Opened(file) # {} /\ Reachable(engine[e].env)]
  <2>1. Set(e, r)
    BY <1>2 DEF Load
  <2>2. Opened(file) \subseteq Providers /\ file \in Configuration
    BY EnabledAreProviders DEF Inv, TypeOK, Opened
  <2>3. r \in Process
    BY <1>0, <2>2 DEF Process, Reachable
  <2>4. r.keys = engine[e].keys /\ r.left = file.form.enabled /\ r.loaded = file
        /\ r.phase = "resolving"
    BY <1>0 DEF Process, Opened
  <2>5. engine[e].keys = {}
    BY <1>0 DEF Load, Authorized
  <2> HIDE DEF r
  <2>6. WellFormed(r)
    BY <2>3, <2>4, <2>5 DEF WellFormed, Authorized
  <2> QED BY <2>1, <2>6, OneProcess DEF Load, Inv, TypeOK
<1> QED BY <1>1, <1>2

\* The key of a provider is found under the reference of the configuration
\* that the engine loaded, whatever the file says by now.
LEMMA ResolveKeyKeepsInv ==
  ASSUME Inv, NEW e \in Engines, ResolveKey(e)
  PROVE  Inv'
PROOF
<1>0. engine[e] \in Process /\ Authorized(engine[e]) /\ engine[e].phase = "resolving"
  BY DEF Inv, TypeOK, ResolveKey
<1> DEFINE c == engine[e].loaded
           found(p) == engine[e].store /\ KeyIn(c, p)
           r(p) == [engine[e] EXCEPT !.left = @ \ {p},
                      !.keys = @ \union (IF found(p) THEN {<<p, c.version[p]>>} ELSE {})]
<1>1. PICK p \in engine[e].left : /\ IF Refused(c, p) THEN Exit(e, c) ELSE Set(e, r(p))
                                  /\ UNCHANGED <<file, ring, session, probe, changes>>
  BY DEF ResolveKey
<1>2. CASE Refused(c, p)
  <2>1. c \in Configuration
    BY <1>0 DEF Process
  <2> QED BY <1>1, <1>2, <2>1, ExitKeepsInv
<1>3. CASE ~Refused(c, p)
  <2> DEFINE new == IF found(p) THEN {<<p, c.version[p]>>} ELSE {}
             q == [engine[e] EXCEPT !.left = @ \ {p}, !.keys = @ \union new]
  <2>1. new \subseteq Keys /\ \A k \in new : k[1] = p /\ k[2] = engine[e].loaded.version[p]
    BY DEF KeyIn, Inv, TypeOK
  <2>2. p \in engine[e].loaded.form.enabled
    BY <1>0 DEF Authorized
  <2>3. Set(e, q)
    BY <1>1, <1>3
  <2> HIDE DEF new
  <2>4. /\ q \in Process
        /\ q.left = engine[e].left \ {p}
        /\ q.keys = engine[e].keys \union new
        /\ q.loaded = engine[e].loaded
        /\ q.phase = "resolving"
    BY <1>0, <2>1 DEF Process
  <2> HIDE DEF q
  <2>5. WellFormed(q)
    BY <1>0, <2>1, <2>2, <2>4 DEF WellFormed, Authorized
  <2> QED BY <1>1, <2>3, <2>5, OneProcess DEF Inv, TypeOK
<1> QED BY <1>2, <1>3

LEMMA PrepareKeepsInv ==
  ASSUME Inv, NEW e \in Engines, Prepare(e)
  PROVE  Inv'
PROOF
<1>0. engine[e] \in Process /\ Authorized(engine[e]) /\ engine[e].phase = "resolving"
      /\ engine[e].left = {}
  BY DEF Inv, TypeOK, Prepare
<1>1. CASE AreaReady(engine[e].loaded, engine[e].env)
  <2> DEFINE r == [engine[e] EXCEPT !.phase = "serving"]
  <2>1. WellFormed(r)
    BY <1>0, <1>1 DEF WellFormed, Authorized, Process, AreaReady
  <2>2. Set(e, r)
    BY <1>1 DEF Prepare
  <2> HIDE DEF r
  <2> QED BY <2>1, <2>2, OneProcess DEF Prepare, Inv, TypeOK
<1>2. CASE ~AreaReady(engine[e].loaded, engine[e].env)
  BY <1>0, <1>2, ExitKeepsInv DEF Prepare, Process
<1> QED BY <1>1, <1>2

LEMMA UnpipedIsWellFormed ==
  ASSUME Inv, NEW e \in Engines
  PROVE  WellFormed([engine[e] EXCEPT !.piped = FALSE])
PROOF
<1> DEFINE r == [engine[e] EXCEPT !.piped = FALSE]
<1>1. /\ engine[e] \in Process
      /\ engine[e].left # {} => engine[e].phase = "resolving"
      /\ Authorized(engine[e])
  BY DEF Inv, TypeOK
<1>2. /\ r \in Process
      /\ r.left = engine[e].left /\ r.keys = engine[e].keys
      /\ r.loaded = engine[e].loaded /\ r.phase = engine[e].phase
  BY <1>1 DEF Process
<1> HIDE DEF r
<1>3. WellFormed(r)
  BY <1>1, <1>2 DEF WellFormed, Authorized
<1> QED BY <1>3 DEF r

\* Starting, hanging up and stopping, by a client or by the probe.
LEMMA LifeKeepsInv ==
  ASSUME Inv, NEW e \in Engines,
         \/ \E env \in {Minimal, Inherited} : Launch(e, env)
         \/ HangUp(e)
         \/ Stop(e)
  PROVE  Inv'
PROOF
<1>1. ASSUME NEW env \in {Minimal, Inherited}, Launch(e, env)
      PROVE  Inv'
  <2>1. env \in [runtimeDir: BOOLEAN, bus: BOOLEAN]
    <3>1. session.runtimeDir \in BOOLEAN
      BY DEF Inv, TypeOK, Session
    <3>2. Minimal \in [runtimeDir: BOOLEAN, bus: BOOLEAN]
      BY DEF Minimal
    <3>3. Inherited \in [runtimeDir: BOOLEAN, bus: BOOLEAN]
      BY <3>1 DEF Inherited
    <3> QED BY <3>2, <3>3
  <2>2. WellFormed(Started("client", env))
    BY <2>1, StartedIsWellFormed
  <2> QED BY <1>1, <2>2, OneProcess DEF Launch, Inv, TypeOK
<1>2. CASE HangUp(e)
  <2> DEFINE r == [engine[e] EXCEPT !.piped = FALSE]
  <2>1. WellFormed(r)
    BY UnpipedIsWellFormed
  <2>2. Set(e, r)
    BY <1>2 DEF HangUp
  <2> HIDE DEF r
  <2> QED BY <1>2, <2>1, <2>2, OneProcess DEF HangUp, Inv, TypeOK
<1>3. CASE Stop(e)
  BY <1>3, NoEngineIsWellFormed, OneProcess DEF Stop, Inv, TypeOK
<1> QED BY <1>1, <1>2, <1>3

LEMMA ProbingKeepsInv == Inv /\ Probing => Inv'
PROOF
<1> SUFFICES ASSUME Inv, Probing PROVE Inv'
  OBVIOUS
<1>1. ASSUME NEW e \in Engines, BeginProbe(e)
      PROVE  Inv'
  <2>1. CASE ~session.installed
    BY <1>1, <2>1 DEF BeginProbe, Inv, TypeOK, Authorized
  <2>2. CASE session.installed
    <3>1. Minimal \in [runtimeDir: BOOLEAN, bus: BOOLEAN]
      BY DEF Minimal
    <3>2. WellFormed(Started("probe", Minimal))
      BY <3>1, StartedIsWellFormed
    <3>3. Set(e, Started("probe", Minimal)) /\ probe' = [on |-> e, said |-> "nothing"]
          /\ UNCHANGED <<file, ring, session, changes>>
      BY <1>1, <2>2 DEF BeginProbe
    <3> QED BY <3>2, <3>3, OneProcess
  <2> QED BY <2>1, <2>2
<1>2. ASSUME NEW said \in {"answers", "failed", "timeout"}, probe.on # None, Concluded(said)
      PROVE  Inv'
  <2>1. probe.on \in Engines
    BY <1>2 DEF Inv, TypeOK
  <2> DEFINE r == [engine[probe.on] EXCEPT !.piped = FALSE]
  <2>2. WellFormed(r)
    BY <2>1, UnpipedIsWellFormed
  <2>3. Set(probe.on, r)
    BY <1>2 DEF Concluded, Set
  <2> HIDE DEF r
  <2>4. probe' \in [on: Engines \union {None},
                    said: {"nothing", "answers", "failed", "timeout", "missing"}]
        /\ UNCHANGED <<file, ring, session, changes>>
    BY <1>2 DEF Concluded
  <2> QED BY <2>1, <2>2, <2>3, <2>4, OneProcess
<1> QED BY <1>1, <1>2 DEF Probing, ProbeAnswered, ProbeFailed, ProbeTimeout

LEMMA NextKeepsInv == Inv /\ [Next]_vars => Inv'
PROOF
<1> SUFFICES ASSUME Inv, [Next]_vars PROVE Inv'
  OBVIOUS
<1>1. CASE Surroundings
  BY <1>1, SurroundingsKeepInv
<1>2. CASE Probing
  BY <1>2, ProbingKeepsInv
<1>3. ASSUME NEW e \in Engines,
             HangUp(e) \/ EngineStep(e) \/ \E env \in {Minimal, Inherited} : Launch(e, env)
      PROVE  Inv'
  BY <1>3, LoadKeepsInv, ResolveKeyKeepsInv, PrepareKeepsInv, LifeKeepsInv DEF EngineStep
<1>4. CASE UNCHANGED vars
  BY <1>4 DEF vars, Inv, TypeOK, Authorized
<1> QED BY <1>1, <1>2, <1>3, <1>4 DEF Next

-----------------------------------------------------------------------------
\* Every process stays in the states the program can be in.
THEOREM EngineTypes == Spec => []TypeOK
PROOF
<1>1. Inv => TypeOK
  BY DEF Inv
<1> QED BY <1>1, InitInv, NextKeepsInv, PTL DEF Spec

\* An engine holds keys of providers that its own configuration enables, and
\* under the references that configuration has: _provider_settings goes through
\* what was loaded, whatever Setup commits or retires while the engine starts.
THEOREM KeysStayAuthorized == Spec => []KeysAreAuthorized
PROOF
<1>1. Inv => KeysAreAuthorized
  BY DEF Inv, Authorized, KeysAreAuthorized, Configured
<1> QED BY <1>1, InitInv, NextKeepsInv, PTL DEF Spec

-----------------------------------------------------------------------------
\* A report's worst severity is "error" as soon as one check has it.
LEMMA AnErrorIsWorst ==
  ASSUME NEW report, \A c \in report : c.severity \in {"ok", "info", "warning", "error"},
         NEW d \in report, d.severity = "error"
  PROVE  Worst(report) = "error"
PROOF
<1> DEFINE Top(s) == \A c \in report : Rank[c.severity] <= Rank[s]
           S == {c.severity : c \in report}
<1>1. "error" \in S /\ Top("error")
  BY DEF Rank
<1>2. ASSUME NEW s \in S, Top(s)
      PROVE  s = "error"
  BY <1>2 DEF Rank
<1>3. Worst(report) = CHOOSE s \in S : Top(s)
  BY DEF Worst
<1> HIDE DEF S, Top
<1> QED BY <1>1, <1>2, <1>3

\* Every check of the report has one of the four severities.
LEMMA ReportIsTyped ==
  ASSUME NEW m, NEW c, NEW checkEngine \in BOOLEAN,
         NEW check \in Report(m, c, checkEngine), m.audio \in {"ready", "unclean", "unusable"}
  PROVE  check.severity \in {"ok", "info", "warning", "error"}
PROOF
BY DEF Report, ProviderChecks, Unless, Check, PrivilegeCheck, SessionCheck, ConfigCheck,
       KeyringCheck, EngineInstalledCheck, TemporaryAudioCheck, ClientCheck, JournalCheck,
       HandshakeCheck

\* A doctor that passes saw no error.
LEMMA PassingHasNoError ==
  ASSUME NEW checkEngine \in BOOLEAN, DoctorPasses(checkEngine),
         NEW check \in Report(DoctorMachine, DoctorSaved, checkEngine)
  PROVE  check.severity # "error"
PROOF
<1>1. DoctorMachine.audio \in {"ready", "unclean", "unusable"}
  BY DEF DoctorMachine
<1>2. \A d \in Report(DoctorMachine, DoctorSaved, checkEngine) :
        d.severity \in {"ok", "info", "warning", "error"}
  BY <1>1, ReportIsTyped
<1> QED BY <1>2, AnErrorIsWorst DEF DoctorPasses

\* The doctor's rules and the engine's agree, in every state: without an error
\* in the report, an engine started in the session serves with every key.
LEMMA DoctorAgrees == TypeOK => DoctorTellsTheTruth
PROOF
<1> SUFFICES ASSUME TypeOK, NEW checkEngine \in BOOLEAN, file.state = "saved",
                    DoctorPasses(checkEngine),
                    checkEngine \/ \A p \in Opened(file) : ~Refused(file, p)
             PROVE  /\ session.installed /\ Serves(Inherited)
                    /\ Opened(file) # {} /\ Keyed(Inherited) = Opened(file)
  BY DEF DoctorTellsTheTruth
<1> DEFINE m == DoctorMachine
           c == DoctorSaved
<1>0. /\ c.state = "saved" /\ c.relay = file.form.relay
      /\ c.keyed = \A p \in Opened(file) : KeyIn(file, p)
      /\ Opened(file) = {} => c.provider = None
      /\ m.keyring = session.keyring
      /\ session.keyring \in {"ready", "locked", "missing"}
      /\ Opened(file) \subseteq Providers
  BY EnabledAreProviders DEF DoctorSaved, DoctorMachine, NotSaved, TypeOK, Session, Opened
<1>1. session.installed
  <2>1. EngineInstalledCheck(m) \in Report(m, c, checkEngine)
    BY DEF Report
  <2>2. EngineInstalledCheck(m).severity # "error"
    BY <2>1, PassingHasNoError
  <2> QED BY <2>2 DEF EngineInstalledCheck, Unless, Check, DoctorMachine
<1>2. session.keyring # "missing"
  <2>1. KeyringCheck(m) \in Report(m, c, checkEngine)
    BY DEF Report
  <2>2. KeyringCheck(m).severity # "error"
    BY <2>1, PassingHasNoError
  <2> QED BY <1>0, <2>2 DEF KeyringCheck, Unless, Check
<1>3. c.provider # None /\ Opened(file) # {}
  <2>1. Unless(c.provider # None, "providers.enabled", "error") \in Report(m, c, checkEngine)
    BY <1>0 DEF Report, ProviderChecks
  <2>2. Unless(c.provider # None, "providers.enabled", "error").severity # "error"
    BY <2>1, PassingHasNoError
  <2> QED BY <1>0, <2>2 DEF Unless, Check
<1>4. session.keyring = "ready"
  BY <1>0, <1>2, <1>3 DEF DoctorPasses, Raises
<1>5. \A p \in Opened(file) : KeyIn(file, p)
  <2>1. Unless(c.keyed, "providers.credentials", "error") \in Report(m, c, checkEngine)
    BY <1>0, <1>2, <1>3 DEF Report, ProviderChecks
  <2>2. Unless(c.keyed, "providers.credentials", "error").severity # "error"
    BY <2>1, PassingHasNoError
  <2> QED BY <1>0, <2>2 DEF Unless, Check
<1>6. AreaReady(file, Inherited)
  <2>1. TemporaryAudioCheck(m, c) \in Report(m, c, checkEngine)
    BY <1>0 DEF Report
  <2>2. TemporaryAudioCheck(m, c).severity # "error"
    BY <2>1, PassingHasNoError
  <2>3. CASE file.form.relay /\ ~(session.runtimeDir /\ session.private)
    <3>1. m.audio = "unusable" /\ c.relay
      BY <1>0, <2>3 DEF DoctorMachine
    <3> QED BY <2>2, <3>1 DEF TemporaryAudioCheck, Check
  <2>4. CASE ~file.form.relay \/ (session.runtimeDir /\ session.private)
    BY <2>4 DEF AreaReady, Inherited
  <2> QED BY <2>3, <2>4
<1>7. \A p \in Opened(file) : ~Refused(file, p)
  <2>1. CASE checkEngine
    <3>1. HandshakeCheck(m) \in Report(m, c, checkEngine)
      BY <1>0, <2>1 DEF Report
    <3>2. HandshakeCheck(m).severity # "error"
      BY <3>1, PassingHasNoError
    <3>3. m.engine = "answers"
      BY <3>2 DEF HandshakeCheck, Unless, Check
    <3>4. Serves(Minimal)
      BY <3>3 DEF DoctorMachine
    <3> QED BY <3>4 DEF Serves
  <2> QED BY <2>1
<1>8. Serves(Inherited)
  BY <1>6, <1>7 DEF Serves
<1>9. Keyed(Inherited) = Opened(file)
  BY <1>0, <1>2, <1>5 DEF Keyed, Reachable, Inherited
<1> QED BY <1>1, <1>3, <1>8, <1>9

\* The doctor is right for every set of providers and every form.
THEOREM DoctorIsRight == Spec => []DoctorTellsTheTruth
PROOF
BY EngineTypes, DoctorAgrees, PTL
=============================================================================

----------------------- MODULE SetupTransactionProofs -----------------------
(***************************************************************************)
(* What the setup transaction keeps, for any number of windows, providers, *)
(* keys and intents, and whatever may fail.                                *)
(*                                                                         *)
(* Inv says how far a task that holds the lock has come, in terms of what  *)
(* the other stores hold: it is what makes "complete" true and keeps a     *)
(* client from an engine that was never probed.  Two more invariants, each *)
(* under the conditions the code needs for it, say what the journal knows  *)
(* of (Recorded) and which keys the committed configuration can rely on    *)
(* (Kept); a third, under none, whose keys a compensation deletes          *)
(* (Compensable).                                                          *)
(***************************************************************************)
EXTENDS SetupTransaction, TLAPS

Outside == {"idle", "disconnect", "reread", "erase"}

\* Where a task is, or goes once its journal is saved.
Point(s) == IF s.at = "save" THEN s.next ELSE s.at

\* A plan never retires a key it writes; a configuration has been read by those
\* who disconnect or erase, and by no one who applies.
Sound(s) ==
  /\ s.plan.retired \intersect KeysOf(s.plan.config) = {}
  /\ s.plan.registers => s.plan.config.client
  /\ s.at = "save" => s.next \in {"commit", "retire", "timer", "probe", "register", "done"}
  /\ s.at \in {"idle", "reread"} => ~s.read.present
  /\ s.at \in {"disconnect", "erase"} \union LifecyclePoints => s.read.present
  /\ Point(s) \in ApplyPoints =>
       ~s.read.present /\ s.plan.config.present /\ s.outcome = "running"

\* How far a task that applies its plan, and has not failed, has come.
Progress(s, cf, jn, kr, tm, cl) ==
  LET p == Point(s)
      new == s.plan.config
  IN  s.outcome = "running" /\ ~s.read.present =>
        /\ p = "put" => s.todo \subseteq KeysOf(new) /\ KeysOf(new) \ s.todo \subseteq kr
        /\ p \in {"commit", "retire", "timer", "probe", "register", "readback", "done"} =>
             KeysOf(new) \subseteq kr /\ KeysOf(new) \subseteq s.jm.keys
        /\ p \in {"retire", "timer", "probe", "register", "readback", "done"} => cf = new
        /\ p \in {"probe", "register", "readback", "done"} /\ new.relay =>
             tm /\ "timer" \in s.jm.things
        /\ p \in {"register", "readback", "done"} => s.probed = cf
        /\ p \in {"readback", "done"} /\ s.plan.registers => cl
        /\ p = "done" /\ new.client => "client" \in s.jm.things
        /\ s.at = "retire" => s.todo \subseteq s.plan.retired
        /\ s.at = "done" => jn = s.jm

Inv ==
  /\ TypeOK
  /\ \A w \in Windows : lock = w <=> window[w].at \notin Outside
  /\ \A w \in Windows : Sound(window[w])
  /\ \A w \in Windows : lock = w => Progress(window[w], config, journal, keyring, timer, client)

Globals == <<config, journal, keyring, timer, client>>

GlobalsTyped ==
  /\ config \in Config /\ journal \in Journal /\ keyring \subseteq Keys
  /\ timer \in BOOLEAN /\ client \in BOOLEAN

-----------------------------------------------------------------------------
(***************************************************************************)
(* What holds of the stores' contents, and what it takes for a step to keep *)
(* the invariant: the holder goes on, a task takes the lock, a task is over. *)
(***************************************************************************)
LEMMA KeysOfConfig ==
  ASSUME NEW c \in Config
  PROVE  KeysOf(c) \subseteq Keys
BY DEF KeysOf, Config

LEMMA Blank == NoConfig \in Config /\ NoJournal \in Journal /\ NoPlan \in Plan
               /\ KeysOf(NoConfig) = {} /\ ~NoConfig.present /\ Opened \in WindowState /\ Sound(Opened)
<1>1. NoConfig \in Config /\ NoJournal \in Journal
  BY DEF NoConfig, Config, NoJournal, Journal
<1>2. NoPlan \in Plan
  BY <1>1 DEF NoPlan, Plan
<1>3. KeysOf(NoConfig) = {} /\ ~NoConfig.present
  BY DEF KeysOf, NoConfig
<1>4. Opened \in WindowState
  <2> HIDE DEF Opened
  <2>1. /\ Opened = [at |-> "idle", next |-> "idle", plan |-> NoPlan, jm |-> NoJournal,
           todo |-> {}, written |-> {}, read |-> NoConfig, wipe |-> FALSE,
           probed |-> NoConfig, outcome |-> "none"]
    BY DEF Opened
  <2> QED BY <1>1, <1>2, <2>1 DEF WindowState, Points
<1>5. Sound(Opened)
  BY <1>3 DEF Sound, Opened, NoPlan, NoConfig, Point, ApplyPoints, LifecyclePoints
<1> QED BY <1>1, <1>2, <1>3, <1>4, <1>5

LEMMA RecordTyped ==
  ASSUME NEW jm \in Journal, NEW phase \in Phases, NEW state \in {"intended", "applied", "failed"}
  PROVE  LET r == Record(jm, phase, state)
         IN  r \in Journal /\ r.keys = jm.keys /\ r.things = jm.things /\ r.pending = jm.pending
BY DEF Record, Journal

\* A task of the lock's holder goes on.
LEMMA Works ==
  ASSUME Inv, NEW w \in Windows, lock = w, UNCHANGED lock,
         NEW s \in WindowState, Set(w, s), Sound(s), s.at \notin Outside,
         GlobalsTyped', Progress(s, config', journal', keyring', timer', client')
  PROVE  Inv'
<1>1. window \in [Windows -> WindowState] /\ window' = [window EXCEPT ![w] = s]
  BY DEF Inv, TypeOK, Set
<1>2. window'[w] = s /\ \A v \in Windows \ {w} : window'[v] = window[v]
  BY <1>1
<1>3. window' \in [Windows -> WindowState]
  BY <1>1
<1>4. TypeOK'
  BY <1>3 DEF Inv, TypeOK, GlobalsTyped
<1>5. \A v \in Windows : lock' = v <=> window'[v].at \notin Outside
  BY <1>2 DEF Inv
<1>6. \A v \in Windows : Sound(window'[v])
  BY <1>2 DEF Inv
<1>7. \A v \in Windows : lock' = v =>
        Progress(window'[v], config', journal', keyring', timer', client')
  BY <1>2
<1> QED BY <1>4, <1>5, <1>6, <1>7 DEF Inv

\* A task takes the lock.
LEMMA Enters ==
  ASSUME Inv, NEW w \in Windows, Acquire(w), UNCHANGED Globals,
         NEW s \in WindowState, Set(w, s), Sound(s), s.at \notin Outside,
         Progress(s, config, journal, keyring, timer, client)
  PROVE  Inv'
<1>1. window \in [Windows -> WindowState] /\ window' = [window EXCEPT ![w] = s]
      /\ lock = Nobody /\ lock' = w
  BY DEF Inv, TypeOK, Set, Acquire
<1>2. window'[w] = s /\ \A v \in Windows \ {w} : window'[v] = window[v]
  BY <1>1
<1>3. window' \in [Windows -> WindowState]
  BY <1>1
<1>4. TypeOK'
  BY <1>1, <1>3 DEF Inv, TypeOK, Globals
<1>5. \A v \in Windows : lock' = v <=> window'[v].at \notin Outside
  BY <1>1, <1>2, SetupAssumption DEF Inv
<1>6. \A v \in Windows : Sound(window'[v])
  BY <1>2 DEF Inv
<1>7. \A v \in Windows : lock' = v =>
        Progress(window'[v], config', journal', keyring', timer', client')
  BY <1>1, <1>2 DEF Globals
<1> QED BY <1>4, <1>5, <1>6, <1>7 DEF Inv

\* A task is over, or has not taken the lock.
LEMMA Stays ==
  ASSUME Inv, NEW w \in Windows, lock' = (IF lock = w THEN Nobody ELSE lock),
         NEW s \in WindowState, Set(w, s), Sound(s), s.at \in Outside,
         GlobalsTyped', lock = w \/ UNCHANGED Globals
  PROVE  Inv'
<1>1. window \in [Windows -> WindowState] /\ window' = [window EXCEPT ![w] = s]
  BY DEF Inv, TypeOK, Set
<1>2. window'[w] = s /\ \A v \in Windows \ {w} : window'[v] = window[v]
  BY <1>1
<1>3. window' \in [Windows -> WindowState]
  BY <1>1
<1>4. TypeOK'
  BY <1>3 DEF Inv, TypeOK, GlobalsTyped
<1>5. \A v \in Windows : lock' = v <=> window'[v].at \notin Outside
  BY <1>2, SetupAssumption DEF Inv
<1>6. \A v \in Windows : Sound(window'[v])
  BY <1>2 DEF Inv
<1>7. \A v \in Windows : lock' = v =>
        Progress(window'[v], config', journal', keyring', timer', client')
  BY <1>2, <1>5, SetupAssumption DEF Globals, Inv
<1> QED BY <1>4, <1>5, <1>6, <1>7 DEF Inv

LEMMA SavingIs ==
  ASSUME NEW w, window[w] \in WindowState, NEW jm \in Journal, NEW next \in Points
  PROVE  LET s == Saving(w, jm, next)
         IN  /\ s \in WindowState /\ s.at = "save" /\ s.next = next /\ s.jm = jm
             /\ s.plan = window[w].plan /\ s.todo = window[w].todo
             /\ s.written = window[w].written /\ s.read = window[w].read
             /\ s.probed = window[w].probed /\ s.outcome = window[w].outcome
BY DEF Saving, WindowState, Points

\* The failure of the holder's task.
LEMMA FailingWorks ==
  ASSUME Inv, NEW w \in Windows, lock = w, UNCHANGED lock,
         NEW phase \in Phases, Set(w, Failing(w, phase)), GlobalsTyped'
  PROVE  Inv'
<1> DEFINE o == window[w]
           s == Failing(w, phase)
<1>1. o \in WindowState /\ o.jm \in Journal /\ Sound(o)
  BY DEF Inv, TypeOK, WindowState
<1>2. Record(o.jm, phase, "failed") \in Journal
  BY <1>1, RecordTyped
<1>3. Saving(w, Record(o.jm, phase, "failed"), "done") \in WindowState
  BY <1>1, <1>2, SavingIs DEF Points
<1>4. /\ s \in WindowState /\ s.at = "save" /\ s.next = "done" /\ s.outcome = "failed"
      /\ s.plan = o.plan
  BY <1>1, <1>2, <1>3, SavingIs DEF Failing, WindowState, Points
<1> HIDE DEF s
<1>5. Sound(s)
  BY <1>1, <1>4 DEF Sound, Point, ApplyPoints, LifecyclePoints
<1>6. s.at \notin Outside /\ Progress(s, config', journal', keyring', timer', client')
  BY <1>4 DEF Outside, Progress
<1> QED BY <1>4, <1>5, <1>6, Works DEF s

LEMMA ReturnedIs ==
  ASSUME Inv, NEW w \in Windows,
         NEW outcome \in {"none", "running", "complete", "failed", "raised"}
  PROVE  LET s == Returned(w, outcome)
         IN  /\ s \in WindowState /\ Sound(s) /\ s.at = "idle" /\ s.plan = window[w].plan
             /\ s.read = NoConfig
<1> DEFINE s == Returned(w, outcome)
           p == window[w].plan
<1>1. p \in Plan /\ Sound(window[w])
  BY DEF Inv, TypeOK, WindowState
<1>2. Opened \in WindowState /\ Opened.at = "idle" /\ Opened.read = NoConfig
  BY Blank DEF Opened
<1>3. s \in WindowState /\ s.at = "idle" /\ s.read = NoConfig /\ s.plan = p
  BY <1>1, <1>2 DEF Returned, WindowState
<1> HIDE DEF s
<1>4. Sound(s)
  <2>1. Point(s) = "idle"
    BY <1>3 DEF Point
  <2> HIDE DEF p
  <2>2. p.retired \intersect KeysOf(p.config) = {} /\ (p.registers => p.config.client)
    BY <1>1 DEF Sound, p
  <2> QED BY <1>3, <2>1, <2>2, Blank DEF Sound, ApplyPoints, LifecyclePoints
<1> QED BY <1>3, <1>4 DEF s

LEMMA RaiseStays ==
  ASSUME Inv, NEW w \in Windows, lock = w, Raise(w), GlobalsTyped'
  PROVE  Inv'
<1>1. lock' = Nobody /\ Set(w, Returned(w, "raised"))
  BY DEF Raise
<1> QED BY <1>1, ReturnedIs, Stays DEF Outside

\* What is known of a window, and of the holder's.
LEMMA OwnFacts ==
  ASSUME Inv, NEW w \in Windows
  PROVE  /\ window[w] \in WindowState /\ window[w].jm \in Journal /\ window[w].plan \in Plan
         /\ window[w].read \in Config
         /\ window[w].todo \subseteq Keys
         /\ window[w].plan.config \in Config /\ window[w].plan.retired \subseteq Keys
         /\ KeysOf(window[w].plan.config) \subseteq Keys
         /\ Sound(window[w]) /\ GlobalsTyped
         /\ lock = w <=> window[w].at \notin Outside
         /\ lock = w => Progress(window[w], config, journal, keyring, timer, client)
BY KeysOfConfig DEF Inv, TypeOK, GlobalsTyped, WindowState, Plan

\* A task that goes on to save its journal.
LEMMA SavingGoes ==
  ASSUME Inv, NEW w \in Windows, NEW jm \in Journal,
         NEW next \in {"commit", "retire", "timer", "probe", "register", "done"},
         next # "done" => Point(window[w]) \in ApplyPoints
  PROVE  LET s == Saving(w, jm, next)
         IN  /\ s \in WindowState /\ s.at = "save" /\ s.next = next /\ s.jm = jm
             /\ s.plan = window[w].plan /\ s.read = window[w].read
             /\ s.probed = window[w].probed /\ s.outcome = window[w].outcome
             /\ Point(s) = next /\ Sound(s) /\ s.at \notin Outside
<1> DEFINE s == Saving(w, jm, next)
<1>1. next \in Points
  BY DEF Points, ApplyPoints
<1>2. /\ s \in WindowState /\ s.at = "save" /\ s.next = next /\ s.jm = jm
      /\ s.plan = window[w].plan /\ s.read = window[w].read
      /\ s.probed = window[w].probed /\ s.outcome = window[w].outcome
  BY <1>1, SavingIs, OwnFacts
<1> HIDE DEF s
<1>3. Point(s) = next /\ Sound(s)
  BY <1>2, OwnFacts DEF Sound, Point, LifecyclePoints, ApplyPoints
<1> QED BY <1>2, <1>3 DEF Outside, s

\* The file could not be committed, or what was committed not recorded.
LEMMA CompensatingWorks ==
  ASSUME Inv, NEW w \in Windows, lock = w, UNCHANGED lock, GlobalsTyped',
         Point(window[w]) \in ApplyPoints,
         Set(w, [window[w] EXCEPT !.at = "compensate", !.todo = window[w].written,
                   !.jm = Record(@, "config", "failed")])
  PROVE  Inv'
<1> DEFINE o == window[w]
           jm == Record(o.jm, "config", "failed")
           s == [o EXCEPT !.at = "compensate", !.todo = o.written, !.jm = jm]
<1>1. jm \in Journal
  BY OwnFacts, RecordTyped DEF Phases
<1>2. Set(w, s)
  BY OwnFacts DEF WindowState
<1> HIDE DEF jm
<1>3. /\ s \in WindowState /\ s.at = "compensate" /\ s.plan = o.plan /\ s.read = o.read
      /\ s.outcome = o.outcome
  BY <1>1, OwnFacts DEF WindowState, Points, ApplyPoints
<1> HIDE DEF s
<1>4. Sound(s)
  BY <1>3, OwnFacts DEF Sound, Point, LifecyclePoints, ApplyPoints
<1>5. Progress(s, config', journal', keyring', timer', client')
  BY <1>3 DEF Progress, Point
<1> QED BY <1>2, <1>3, <1>4, <1>5, Works DEF Outside

\* A new plan retires keys of the configuration and writes others.
LEMMA PlannedIs ==
  ASSUME Inv, NEW w \in Windows, NEW i \in Intents,
         NEW fresh \in [i.providers -> Keys \ Named(w)]
  PROVE  LET plan == Planned(i, fresh)
         IN  /\ plan \in Plan /\ plan.retired \intersect KeysOf(plan.config) = {}
             /\ plan.registers => plan.config.client
<1> DEFINE plan == Planned(i, fresh)
           cfg == plan.config
<1>1. i.providers \subseteq Providers /\ i.client \in BOOLEAN /\ i.relay \in BOOLEAN
  BY SetupAssumption
<1>2. config \in Config /\ client \in BOOLEAN
  BY DEF Inv, TypeOK
<1>3. cfg \in Config
  BY <1>1 DEF Config, Planned
<1>4. plan.retired \subseteq KeysOf(config) /\ KeysOf(config) \subseteq Keys
  BY <1>1, <1>2, KeysOfConfig DEF KeysOf, Planned
<1>5. KeysOf(cfg) \subseteq Keys \ Named(w)
  BY <1>1 DEF KeysOf, Planned
<1>6. KeysOf(config) \subseteq Named(w)
  BY Zenon DEF Named
<1>7. plan = [config |-> cfg, retired |-> plan.retired, registers |-> i.client /\ ~client]
      /\ cfg.client = i.client
  BY DEF Planned
<1>8. plan.registers = (i.client /\ ~client)
  BY DEF Planned
<1> HIDE DEF plan
<1> QED BY <1>1, <1>2, <1>3, <1>4, <1>5, <1>6, <1>7, <1>8 DEF Plan, plan

LEMMA ReviewKeeps ==
  ASSUME Inv, NEW w \in Windows, Review(w)
  PROVE  Inv'
<1>1. PICK i \in Intents : \E fresh \in [i.providers -> Keys \ Named(w)] :
        Set(w, [Opened EXCEPT !.plan = Planned(i, fresh)])
  BY DEF Review
<1>2. PICK fresh \in [i.providers -> Keys \ Named(w)] :
        Set(w, [Opened EXCEPT !.plan = Planned(i, fresh)])
  BY <1>1
<1> DEFINE plan == Planned(i, fresh)
           s == [Opened EXCEPT !.plan = plan]
<1>3. window[w].at = "idle" /\ UNCHANGED <<lock, Globals>>
  BY DEF Review, Globals
<1>4. /\ plan \in Plan /\ plan.retired \intersect KeysOf(plan.config) = {}
      /\ plan.registers => plan.config.client
  BY PlannedIs
<1> HIDE DEF plan
<1>5. s \in WindowState /\ s.at = "idle" /\ s.read = NoConfig /\ s.plan = plan
  <2>1. Opened \in WindowState /\ Opened.at = "idle" /\ Opened.read = NoConfig
    BY Blank DEF Opened
  <2> QED BY <1>4, <2>1 DEF WindowState
<1>6. Set(w, s)
  BY <1>2 DEF plan
<1> HIDE DEF s
<1>7. Sound(s)
  <2>1. Point(s) = "idle"
    BY <1>5 DEF Point
  <2> QED BY <1>4, <1>5, <2>1, Blank DEF Sound, ApplyPoints, LifecyclePoints
<1>8. lock # w /\ GlobalsTyped'
  BY <1>3, OwnFacts DEF Outside, GlobalsTyped, Globals
<1> QED BY <1>3, <1>5, <1>6, <1>7, <1>8, Stays DEF Outside

LEMMA EnableKeeps ==
  ASSUME Inv, NEW w \in Windows, Enable(w)
  PROVE  Inv'
<1> DEFINE o == window[w]
           jm == Record(journal, "credentials", "intended")
           s == [Called(w, "put", jm) EXCEPT !.todo = KeysOf(o.plan.config)]
<1>1. /\ o.at = "idle" /\ o.plan.config.present /\ Acquire(w) /\ Set(w, s) /\ UNCHANGED Globals
  BY DEF Enable, Globals
<1>2. jm \in Journal
  BY OwnFacts, RecordTyped DEF GlobalsTyped, Phases
<1> HIDE DEF jm
<1>3. /\ s \in WindowState /\ s.at = "put" /\ s.plan = o.plan /\ s.read = o.read
      /\ s.todo = KeysOf(o.plan.config) /\ s.outcome = "running"
  BY <1>2, OwnFacts DEF Called, WindowState, Points, ApplyPoints
<1> HIDE DEF s
<1>4. Sound(s)
  BY <1>1, <1>3, OwnFacts DEF Sound, Point, ApplyPoints, LifecyclePoints
<1>5. Progress(s, config, journal, keyring, timer, client)
  BY <1>3 DEF Progress, Point
<1> QED BY <1>1, <1>3, <1>4, <1>5, Enters DEF Outside

LEMMA PutKeeps ==
  ASSUME Inv, NEW w \in Windows, Put(w)
  PROVE  Inv'
<1> DEFINE o == window[w]
           all == KeysOf(o.plan.config)
<1>1. /\ lock = w /\ o.at = "put" /\ UNCHANGED <<lock, config, journal, timer, client>>
  BY DEF Put, Holds
<1>2. CASE Set(w, Failing(w, "credentials")) /\ UNCHANGED keyring
  BY <1>1, <1>2, OwnFacts, FailingWorks DEF Phases, GlobalsTyped
<1>3. ASSUME NEW k \in o.todo, keyring' = keyring \union {k}, o.todo \ {k} # {},
             Set(w, [o EXCEPT !.todo = o.todo \ {k}])
      PROVE  Inv'
  <2> DEFINE s == [o EXCEPT !.todo = o.todo \ {k}]
  <2>1. /\ s \in WindowState /\ s.at = "put" /\ s.plan = o.plan /\ s.read = o.read
        /\ s.todo = o.todo \ {k} /\ s.outcome = o.outcome
    BY <1>1, OwnFacts DEF WindowState
  <2> HIDE DEF s
  <2>2. Sound(s)
    BY <1>1, <2>1, OwnFacts DEF Sound, Point, ApplyPoints, LifecyclePoints
  <2>3. Progress(s, config', journal', keyring', timer', client')
    BY <1>1, <1>3, <2>1, OwnFacts DEF Progress, Point
  <2> QED BY <1>1, <1>3, <2>1, <2>2, <2>3, OwnFacts, Works DEF Outside, GlobalsTyped, s
<1>4. ASSUME NEW k \in o.todo, keyring' = keyring \union {k}, o.todo \ {k} = {},
             LET jm == [o.jm EXCEPT !.keys = @ \union all]
             IN  Set(w, [Saving(w, Record(jm, "credentials", "applied"), "commit")
                           EXCEPT !.todo = {}, !.written = all])
      PROVE  Inv'
  <2> DEFINE jm == [o.jm EXCEPT !.keys = @ \union all]
             rec == Record(jm, "credentials", "applied")
             base == Saving(w, rec, "commit")
             s == [base EXCEPT !.todo = {}, !.written = all]
  <2>1. jm \in Journal /\ all \subseteq jm.keys
    BY OwnFacts DEF Journal
  <2> HIDE DEF jm
  <2>2. rec \in Journal /\ all \subseteq rec.keys
    BY <2>1, RecordTyped DEF Phases
  <2>3. Set(w, s)
    BY <1>4 DEF jm
  <2> HIDE DEF rec
  <2>4. /\ base \in WindowState /\ base.at = "save" /\ base.next = "commit" /\ base.jm = rec
        /\ base.plan = o.plan /\ base.read = o.read /\ base.outcome = o.outcome
    BY <2>2, OwnFacts, SavingIs DEF Points, ApplyPoints
  <2> HIDE DEF base
  <2>5. /\ s \in WindowState /\ s.at = "save" /\ s.next = "commit" /\ s.jm = rec
        /\ s.plan = o.plan /\ s.read = o.read /\ s.outcome = o.outcome
    BY <2>4, OwnFacts DEF WindowState
  <2> HIDE DEF s
  <2>6. Sound(s)
    BY <1>1, <2>5, OwnFacts DEF Sound, Point, ApplyPoints, LifecyclePoints
  <2>7. Progress(s, config', journal', keyring', timer', client')
    BY <1>1, <1>4, <2>2, <2>5, OwnFacts DEF Progress, Point
  <2> QED BY <1>1, <1>4, <2>3, <2>5, <2>6, <2>7, OwnFacts, Works DEF Outside, GlobalsTyped
<1> QED BY <1>2, <1>3, <1>4 DEF Put

LEMMA SaveKeeps ==
  ASSUME Inv, NEW w \in Windows, Save(w)
  PROVE  Inv'
<1> DEFINE o == window[w]
<1>1. lock = w /\ o.at = "save" /\ UNCHANGED <<config, keyring, timer, client>>
  BY DEF Save, Holds
<1>2. journal' \in Journal
  BY OwnFacts DEF Save, GlobalsTyped
<1>3. GlobalsTyped'
  BY <1>1, <1>2, OwnFacts DEF GlobalsTyped
<1>4. CASE Raise(w)
  BY <1>1, <1>3, <1>4, RaiseStays
<1>5. ASSUME journal' = o.jm, UNCHANGED lock,
             Set(w, [o EXCEPT !.at = o.next,
                       !.todo = IF o.next = "retire" THEN o.plan.retired ELSE @])
      PROVE  Inv'
  <2> DEFINE t == IF o.next = "retire" THEN o.plan.retired ELSE o.todo
             s == [o EXCEPT !.at = o.next, !.todo = t]
  <2>1. t \subseteq Keys /\ (o.next = "retire" => t = o.plan.retired)
    BY OwnFacts
  <2>2. Set(w, s)
    BY <1>5, OwnFacts DEF WindowState
  <2> HIDE DEF t
  <2>3. /\ s \in WindowState /\ s.at = o.next /\ s.todo = t /\ s.plan = o.plan
        /\ s.read = o.read /\ s.outcome = o.outcome /\ s.jm = o.jm /\ s.probed = o.probed
    BY <2>1, OwnFacts DEF WindowState
  <2> HIDE DEF s
  <2>4. o.next \in {"commit", "retire", "timer", "probe", "register", "done"}
    BY <1>1, OwnFacts DEF Sound
  <2>5. Point(s) = o.next /\ Point(o) = o.next
    BY <1>1, <2>3, <2>4 DEF Point
  <2>6. Sound(s)
    BY <1>1, <2>3, <2>4, <2>5, OwnFacts DEF Sound, LifecyclePoints
  <2>7. Progress(s, config', journal', keyring', timer', client')
    BY <1>1, <1>5, <2>1, <2>3, <2>4, <2>5, OwnFacts DEF Progress
  <2> QED BY <1>1, <1>3, <1>5, <2>2, <2>3, <2>4, <2>6, <2>7, OwnFacts, Works DEF Outside
<1>6. ASSUME UNCHANGED lock, o.next = "retire",
             Set(w, [o EXCEPT !.at = "compensate", !.todo = o.written,
                       !.jm = Record(@, "config", "failed")])
      PROVE  Inv'
  BY <1>1, <1>3, <1>6, OwnFacts, CompensatingWorks DEF Sound, Point, ApplyPoints
<1> QED BY <1>4, <1>5, <1>6 DEF Save

LEMMA CommitKeeps ==
  ASSUME Inv, NEW w \in Windows, Commit(w)
  PROVE  Inv'
<1> DEFINE o == window[w]
           new == o.plan.config
<1>1. lock = w /\ o.at = "commit" /\ UNCHANGED <<lock, journal, keyring, timer, client>>
      /\ Point(o) = "commit"
  BY DEF Commit, Holds, Point
<1>2. config' \in Config
  BY OwnFacts DEF Commit, GlobalsTyped
<1>3. GlobalsTyped'
  BY <1>1, <1>2, OwnFacts DEF GlobalsTyped
<1>4. ASSUME config' = new,
             LET jm == [o.jm EXCEPT !.things = @ \union {"config"}]
             IN  Set(w, Saving(w, Record(jm, "config", "applied"), "retire"))
      PROVE  Inv'
  <2> DEFINE jm == [o.jm EXCEPT !.things = @ \union {"config"}]
             rec == Record(jm, "config", "applied")
             s == Saving(w, rec, "retire")
  <2>1. jm \in Journal /\ jm.keys = o.jm.keys
    BY OwnFacts DEF Journal
  <2> HIDE DEF jm
  <2>2. rec \in Journal /\ rec.keys = o.jm.keys
    BY <2>1, RecordTyped DEF Phases
  <2>3. Set(w, s)
    BY <1>4 DEF jm
  <2> HIDE DEF rec
  <2>4. /\ s \in WindowState /\ s.at = "save" /\ s.jm = rec /\ s.plan = o.plan
        /\ s.read = o.read /\ s.outcome = o.outcome
        /\ Point(s) = "retire" /\ Sound(s) /\ s.at \notin Outside
    BY <1>1, <2>2, OwnFacts, SavingGoes DEF Sound, ApplyPoints
  <2> HIDE DEF s
  <2>5. Progress(s, config', journal', keyring', timer', client')
    BY <1>1, <1>4, <2>2, <2>4, OwnFacts DEF Progress
  <2> QED BY <1>1, <1>3, <2>3, <2>4, <2>5, Works
<1>5. ASSUME Set(w, [o EXCEPT !.at = "compensate", !.todo = o.written,
                              !.jm = Record(@, "config", "failed")])
      PROVE  Inv'
  BY <1>1, <1>3, <1>5, OwnFacts, CompensatingWorks DEF Sound, ApplyPoints
<1> QED BY <1>4, <1>5 DEF Commit

\* A key goes, or is listed as still to go: the task is where it was, with a
\* key less to do.
LEMMA DeletingIs ==
  ASSUME Inv, NEW w \in Windows, NEW k \in window[w].todo,
         NEW deleted \in Journal, NEW kept \in Journal, DeleteKey(w, k, deleted, kept)
  PROVE  /\ keyring' \subseteq Keys /\ keyring \ {k} \subseteq keyring'
         /\ \E jm \in {deleted, kept} : \E s \in WindowState :
              /\ Set(w, s) /\ s.jm = jm /\ s.todo = window[w].todo \ {k}
              /\ s.at = window[w].at /\ s.next = window[w].next /\ s.plan = window[w].plan
              /\ s.read = window[w].read /\ s.probed = window[w].probed
              /\ s.outcome = window[w].outcome
<1> DEFINE o == window[w]
           S(jm) == [o EXCEPT !.todo = @ \ {k}, !.jm = jm]
<1>1. \A jm \in Journal :
        /\ S(jm) \in WindowState /\ S(jm).jm = jm /\ S(jm).todo = o.todo \ {k}
        /\ S(jm).at = o.at /\ S(jm).next = o.next /\ S(jm).plan = o.plan
        /\ S(jm).read = o.read /\ S(jm).probed = o.probed /\ S(jm).outcome = o.outcome
  BY OwnFacts DEF WindowState
<1>2. \E jm \in {deleted, kept} : Set(w, S(jm))
  BY DEF DeleteKey
<1>3. keyring' \subseteq Keys /\ keyring \ {k} \subseteq keyring'
  BY OwnFacts DEF DeleteKey, GlobalsTyped
<1> HIDE DEF S
<1> QED BY <1>1, <1>2, <1>3

LEMMA CompensateKeeps ==
  ASSUME Inv, NEW w \in Windows, Compensate(w)
  PROVE  Inv'
<1> DEFINE o == window[w]
<1>1. lock = w /\ o.at = "compensate" /\ UNCHANGED <<lock, config, journal, timer, client>>
  BY DEF Compensate, Holds
<1>2. ASSUME NEW k \in o.todo, DeleteKey(w, k, Disown(o.jm, k), Pending(o.jm, k))
      PROVE  Inv'
  <2>1. k \in Keys /\ Disown(o.jm, k) \in Journal /\ Pending(o.jm, k) \in Journal
    BY OwnFacts DEF Disown, Pending, Journal
  <2>2. PICK s \in WindowState : /\ Set(w, s) /\ s.at = o.at /\ s.plan = o.plan
                                 /\ s.read = o.read /\ s.outcome = o.outcome
    BY <1>2, <2>1, DeletingIs
  <2>3. keyring' \subseteq Keys
    BY <1>2, <2>1, DeletingIs
  <2>4. Sound(s)
    BY <1>1, <2>2, OwnFacts DEF Sound, Point, LifecyclePoints, ApplyPoints
  <2>5. Progress(s, config', journal', keyring', timer', client')
    BY <1>1, <2>2 DEF Progress, Point
  <2> QED BY <1>1, <2>2, <2>3, <2>4, <2>5, OwnFacts, Works DEF Outside, GlobalsTyped
<1>3. ASSUME Set(w, [Saving(w, o.jm, "done") EXCEPT !.outcome = "failed"]), UNCHANGED keyring
      PROVE  Inv'
  <2> DEFINE base == Saving(w, o.jm, "done")
             s == [base EXCEPT !.outcome = "failed"]
  <2>1. base \in WindowState /\ base.at = "save" /\ base.next = "done" /\ base.plan = o.plan
    BY OwnFacts, SavingIs DEF Points
  <2> HIDE DEF base
  <2>2. /\ s \in WindowState /\ s.at = "save" /\ s.next = "done" /\ s.plan = o.plan
        /\ s.outcome = "failed"
    BY <2>1 DEF WindowState
  <2>3. Set(w, s)
    BY <1>3 DEF base
  <2> HIDE DEF s
  <2>4. Sound(s)
    BY <2>2, OwnFacts DEF Sound, Point, LifecyclePoints, ApplyPoints
  <2>5. Progress(s, config', journal', keyring', timer', client')
    BY <2>2 DEF Progress
  <2> QED BY <1>1, <1>3, <2>2, <2>3, <2>4, <2>5, OwnFacts, Works DEF Outside, GlobalsTyped
<1> QED BY <1>2, <1>3 DEF Compensate

LEMMA RetireKeeps ==
  ASSUME Inv, NEW w \in Windows, Retire(w)
  PROVE  Inv'
<1> DEFINE o == window[w]
<1>1. lock = w /\ o.at = "retire" /\ UNCHANGED <<lock, config, journal, timer, client>>
      /\ Point(o) = "retire"
  BY DEF Retire, Holds, Point
<1>2. ASSUME NEW k \in o.todo, DeleteKey(w, k, o.jm, Pending(o.jm, k))
      PROVE  Inv'
  <2>1. k \in Keys /\ Pending(o.jm, k) \in Journal /\ Pending(o.jm, k).keys = o.jm.keys
    BY OwnFacts DEF Pending, Journal
  <2>2. PICK jm \in {o.jm, Pending(o.jm, k)}, s \in WindowState :
          /\ Set(w, s) /\ s.jm = jm /\ s.todo = o.todo \ {k} /\ s.at = o.at /\ s.plan = o.plan
          /\ s.read = o.read /\ s.outcome = o.outcome
    BY <1>2, <2>1, OwnFacts, DeletingIs
  <2>3. keyring' \subseteq Keys /\ keyring \ {k} \subseteq keyring'
    BY <1>2, <2>1, OwnFacts, DeletingIs
  <2>4. Point(s) = "retire"
    BY <1>1, <2>2 DEF Point
  <2>5. Sound(s)
    BY <1>1, <2>2, <2>4, OwnFacts DEF Sound, LifecyclePoints, ApplyPoints
  <2>6. Progress(s, config', journal', keyring', timer', client')
    <3>1. CASE o.outcome = "running" /\ ~o.read.present
      <4>1. k \notin KeysOf(o.plan.config)
        BY <1>1, <3>1, OwnFacts DEF Progress, Sound
      <4> QED BY <1>1, <2>1, <2>2, <2>3, <2>4, <3>1, <4>1, OwnFacts DEF Progress
    <3>2. CASE ~(o.outcome = "running" /\ ~o.read.present)
      BY <2>2, <3>2 DEF Progress
    <3> QED BY <3>1, <3>2
  <2> QED BY <1>1, <2>2, <2>3, <2>5, <2>6, OwnFacts, Works DEF Outside, GlobalsTyped
<1>3. ASSUME UNCHANGED keyring, Set(w, Saving(w, o.jm, "timer"))
      PROVE  Inv'
  <2> DEFINE s == Saving(w, o.jm, "timer")
  <2>1. /\ s \in WindowState /\ s.at = "save" /\ s.jm = o.jm /\ s.plan = o.plan
        /\ s.read = o.read /\ s.outcome = o.outcome
        /\ Point(s) = "timer" /\ Sound(s) /\ s.at \notin Outside
    BY <1>1, OwnFacts, SavingGoes DEF Sound, ApplyPoints
  <2> HIDE DEF s
  <2>2. Progress(s, config', journal', keyring', timer', client')
    BY <1>1, <1>3, <2>1, OwnFacts DEF Progress
  <2> QED BY <1>1, <1>3, <2>1, <2>2, OwnFacts, Works DEF GlobalsTyped, s
<1>4. ASSUME UNCHANGED keyring, Set(w, [o EXCEPT !.at = "timer"])
      PROVE  Inv'
  <2> DEFINE s == [o EXCEPT !.at = "timer"]
  <2>1. /\ s \in WindowState /\ s.at = "timer" /\ s.jm = o.jm
        /\ s.plan = o.plan /\ s.read = o.read /\ s.outcome = o.outcome
    BY OwnFacts DEF WindowState, Points, ApplyPoints
  <2> HIDE DEF s
  <2>2. Sound(s)
    BY <1>1, <2>1, OwnFacts DEF Sound, LifecyclePoints, ApplyPoints, Point
  <2>3. Progress(s, config', journal', keyring', timer', client')
    BY <1>1, <1>4, <2>1, OwnFacts DEF Progress, Point
  <2> QED BY <1>1, <1>4, <2>1, <2>2, <2>3, OwnFacts, Works DEF Outside, GlobalsTyped, s
<1> QED BY <1>2, <1>3, <1>4 DEF Retire

LEMMA ThingsTyped ==
  ASSUME NEW jm \in Journal, NEW thing \in {"config", "timer", "client"}
  PROVE  /\ Own(jm, thing) \in Journal /\ Own(jm, thing).keys = jm.keys
         /\ Own(jm, thing).pending = jm.pending
         /\ Own(jm, thing).things = jm.things \union {thing}
         /\ Release(jm, thing) \in Journal /\ Release(jm, thing).keys = jm.keys
         /\ Release(jm, thing).pending = jm.pending
         /\ Release(jm, thing).things = jm.things \ {thing}
BY DEF Own, Release, Journal

LEMMA ReconcileKeeps ==
  ASSUME Inv, NEW w \in Windows, Reconcile(w)
  PROVE  Inv'
<1> DEFINE o == window[w]
           owned == "timer" \in o.jm.things
           wanted == o.plan.config.relay
<1>1. /\ lock = w /\ o.at = "timer" /\ UNCHANGED <<config, journal, keyring, client>>
      /\ Point(o) = "timer"
  BY DEF Reconcile, Holds, Point
<1>2. timer' \in BOOLEAN /\ GlobalsTyped'
  <2>1. timer' \in BOOLEAN
    BY OwnFacts DEF Reconcile, GlobalsTyped, Config
  <2> QED BY <1>1, <2>1, OwnFacts DEF GlobalsTyped
<1>3. CASE Set(w, Failing(w, "cleanup_timer")) /\ UNCHANGED lock
  BY <1>1, <1>2, <1>3, FailingWorks DEF Phases
<1>4. ASSUME NEW j \in Journal, j.keys = o.jm.keys,
             wanted => timer' /\ "timer" \in j.things,
             Set(w, Saving(w, j, "probe")), UNCHANGED lock
      PROVE  Inv'
  <2> DEFINE s == Saving(w, j, "probe")
  <2>1. /\ s \in WindowState /\ s.at = "save" /\ s.jm = j /\ s.plan = o.plan
        /\ s.read = o.read /\ s.outcome = o.outcome
        /\ Point(s) = "probe" /\ Sound(s) /\ s.at \notin Outside
    BY <1>1, OwnFacts, SavingGoes DEF Sound, ApplyPoints
  <2> HIDE DEF s
  <2>2. Progress(s, config', journal', keyring', timer', client')
    BY <1>1, <1>4, <2>1, OwnFacts DEF Progress
  <2> QED BY <1>1, <1>2, <1>4, <2>1, <2>2, Works DEF s
<1>5. CASE /\ IF wanted THEN owned /\ timer ELSE ~owned
           /\ Set(w, [o EXCEPT !.at = "probe"]) /\ UNCHANGED <<lock, timer>>
  <2> DEFINE s == [o EXCEPT !.at = "probe"]
  <2>1. /\ s \in WindowState /\ s.at = "probe" /\ s.jm = o.jm /\ s.plan = o.plan
        /\ s.read = o.read /\ s.outcome = o.outcome
    BY OwnFacts DEF WindowState, Points, ApplyPoints
  <2> HIDE DEF s
  <2>2. Sound(s)
    BY <1>1, <2>1, OwnFacts DEF Sound, LifecyclePoints, ApplyPoints, Point
  <2>3. Progress(s, config', journal', keyring', timer', client')
    BY <1>1, <1>5, <2>1, OwnFacts DEF Progress, Point
  <2> QED BY <1>1, <1>2, <1>5, <2>1, <2>2, <2>3, Works DEF Outside, s
<1>6. CASE /\ wanted /\ timer' = TRUE /\ UNCHANGED lock
           /\ Set(w, Saving(w, Record(Own(o.jm, "timer"), "cleanup_timer", "applied"), "probe"))
  BY <1>4, <1>6, OwnFacts, ThingsTyped, RecordTyped DEF Phases
<1>7. CASE /\ ~wanted /\ UNCHANGED lock
           /\ Set(w, Saving(w, Record(Release(o.jm, "timer"), "cleanup_timer", "applied"), "probe"))
  BY <1>4, <1>7, OwnFacts, ThingsTyped, RecordTyped DEF Phases
<1>8. CASE /\ ~wanted /\ UNCHANGED lock
           /\ Set(w, Saving(w, Record(o.jm, "cleanup_timer", "failed"), "probe"))
  BY <1>4, <1>8, OwnFacts, RecordTyped DEF Phases
<1>9. CASE Raise(w)
  BY <1>1, <1>2, <1>9, RaiseStays
<1> QED BY <1>3, <1>5, <1>6, <1>7, <1>8, <1>9 DEF Reconcile

LEMMA ProbeKeeps ==
  ASSUME Inv, NEW w \in Windows, Probe(w)
  PROVE  Inv'
<1> DEFINE o == window[w]
           jm == Record(o.jm, "engine", "applied")
           next == IF o.plan.config.client THEN "register" ELSE "done"
           base == Saving(w, jm, next)
           s == [base EXCEPT !.probed = config]
<1>1. /\ lock = w /\ o.at = "probe" /\ UNCHANGED Globals /\ Point(o) = "probe"
  BY DEF Probe, Holds, Point, Globals
<1>2. GlobalsTyped'
  BY <1>1, OwnFacts DEF GlobalsTyped, Globals
<1>3. CASE Set(w, Failing(w, "engine")) /\ UNCHANGED lock
  BY <1>1, <1>2, <1>3, FailingWorks DEF Phases
<1>4. CASE Raise(w)
  BY <1>1, <1>2, <1>4, RaiseStays
<1>5. CASE Set(w, s) /\ UNCHANGED lock
  <2>1. jm \in Journal /\ jm.keys = o.jm.keys /\ jm.things = o.jm.things
    BY OwnFacts, RecordTyped DEF Phases
  <2>2. next \in {"register", "done"} /\ (next = "done" => ~o.plan.config.client)
    OBVIOUS
  <2> HIDE DEF jm, next
  <2>3. /\ base \in WindowState /\ base.at = "save" /\ base.next = next /\ base.jm = jm
        /\ base.plan = o.plan /\ base.read = o.read /\ base.outcome = o.outcome
        /\ Point(base) = next /\ Sound(base)
    BY <1>1, <2>1, <2>2, OwnFacts, SavingGoes DEF Sound, ApplyPoints
  <2> HIDE DEF base
  <2>4. /\ s \in WindowState /\ s.at = "save" /\ s.next = next /\ s.jm = jm /\ s.plan = o.plan
        /\ s.read = o.read /\ s.outcome = o.outcome /\ s.probed = config
    BY <2>3, OwnFacts DEF WindowState, GlobalsTyped
  <2> HIDE DEF s
  <2>5. Point(s) = next /\ Sound(s)
    BY <2>3, <2>4 DEF Sound, Point
  <2>6. Progress(s, config', journal', keyring', timer', client')
    <3>1. o.plan.registers => o.plan.config.client
      BY OwnFacts DEF Sound
    <3> QED BY <1>1, <2>1, <2>2, <2>4, <2>5, <3>1, OwnFacts DEF Progress, Globals
  <2> QED BY <1>1, <1>2, <1>5, <2>4, <2>5, <2>6, Works DEF Outside
<1> QED BY <1>3, <1>4, <1>5 DEF Probe

LEMMA RegisterKeeps ==
  ASSUME Inv, NEW w \in Windows, Register(w)
  PROVE  Inv'
<1> DEFINE o == window[w]
           jm == Record(o.jm, "client", "intended")
           s == [o EXCEPT !.at = "readback", !.jm = jm]
<1>1. /\ lock = w /\ o.at = "register" /\ UNCHANGED <<lock, config, journal, keyring, timer>>
      /\ Point(o) = "register"
  BY DEF Register, Holds, Point
<1>2. client' \in BOOLEAN /\ GlobalsTyped'
  <2>1. client' \in BOOLEAN
    BY OwnFacts DEF Register, GlobalsTyped, Plan
  <2> QED BY <1>1, <2>1, OwnFacts DEF GlobalsTyped
<1>3. CASE Set(w, Failing(w, "client"))
  BY <1>1, <1>2, <1>3, FailingWorks DEF Phases
<1>4. CASE /\ client' = (client \/ o.plan.registers)
           /\ Set(w, [o EXCEPT !.at = "readback", !.jm = Record(@, "client", "intended")])
  <2>1. jm \in Journal /\ jm.keys = o.jm.keys /\ jm.things = o.jm.things
    BY OwnFacts, RecordTyped DEF Phases
  <2>2. Set(w, s)
    BY <1>4, OwnFacts DEF WindowState
  <2> HIDE DEF jm
  <2>3. /\ s \in WindowState /\ s.at = "readback" /\ s.jm = jm /\ s.plan = o.plan
        /\ s.read = o.read /\ s.outcome = o.outcome /\ s.probed = o.probed
    BY <2>1, OwnFacts DEF WindowState, Points, ApplyPoints
  <2> HIDE DEF s
  <2>4. Sound(s)
    BY <1>1, <2>3, OwnFacts DEF Sound, LifecyclePoints, ApplyPoints, Point
  <2>5. Progress(s, config', journal', keyring', timer', client')
    BY <1>1, <1>4, <2>1, <2>3, OwnFacts DEF Progress, Point
  <2> QED BY <1>1, <1>2, <2>2, <2>3, <2>4, <2>5, Works DEF Outside
<1> QED BY <1>3, <1>4 DEF Register

LEMMA ReadbackKeeps ==
  ASSUME Inv, NEW w \in Windows, Readback(w)
  PROVE  Inv'
<1> DEFINE o == window[w]
           jm == Record(Own(o.jm, "client"), "client", "applied")
           s == Saving(w, jm, "done")
<1>1. /\ lock = w /\ o.at = "readback" /\ UNCHANGED Globals /\ Point(o) = "readback"
  BY DEF Readback, Holds, Point, Globals
<1>2. GlobalsTyped'
  BY <1>1, OwnFacts DEF GlobalsTyped, Globals
<1>3. CASE Raise(w)
  BY <1>1, <1>2, <1>3, RaiseStays
<1>4. CASE Set(w, s) /\ UNCHANGED lock
  <2>1. jm \in Journal /\ jm.keys = o.jm.keys /\ jm.things = o.jm.things \union {"client"}
    BY OwnFacts, RecordTyped, ThingsTyped DEF Phases
  <2> HIDE DEF jm
  <2>2. /\ s \in WindowState /\ s.at = "save" /\ s.jm = jm /\ s.plan = o.plan
        /\ s.read = o.read /\ s.outcome = o.outcome /\ s.probed = o.probed
        /\ Point(s) = "done" /\ Sound(s) /\ s.at \notin Outside
    BY <2>1, SavingGoes
  <2> HIDE DEF s
  <2>3. Progress(s, config', journal', keyring', timer', client')
    BY <1>1, <2>1, <2>2, OwnFacts DEF Progress, Globals
  <2> QED BY <1>1, <1>2, <1>4, <2>2, <2>3, Works
<1> QED BY <1>3, <1>4 DEF Readback

LEMMA FinishKeeps ==
  ASSUME Inv, NEW w \in Windows, Finish(w)
  PROVE  Inv'
<1> DEFINE o == window[w]
           v == IF o.outcome = "running" THEN "complete" ELSE "failed"
           base == Returned(w, v)
           at == IF o.wipe THEN "reread" ELSE "idle"
           s == [base EXCEPT !.at = at]
<1>1. lock = w /\ lock' = Nobody /\ UNCHANGED Globals /\ Set(w, s)
  BY DEF Finish, Holds, Globals
<1>2. v \in {"complete", "failed"} /\ at \in {"idle", "reread"}
  OBVIOUS
<1> HIDE DEF v, at
<1>3. base \in WindowState /\ Sound(base) /\ base.read = NoConfig /\ base.plan = o.plan
  BY <1>2, ReturnedIs
<1> HIDE DEF base
<1>4. s \in WindowState /\ s.at = at /\ s.read = NoConfig /\ s.plan = o.plan
  BY <1>2, <1>3 DEF WindowState, Points
<1> HIDE DEF s
<1>5. Sound(s)
  <2>1. Point(s) = at
    BY <1>2, <1>4 DEF Point
  <2> QED BY <1>2, <1>3, <1>4, <2>1, Blank DEF Sound, ApplyPoints, LifecyclePoints
<1>6. GlobalsTyped'
  BY <1>1, OwnFacts DEF GlobalsTyped, Globals
<1> QED BY <1>1, <1>2, <1>4, <1>5, <1>6, Stays DEF Outside

\* A task without the lock moves to a point where it needs none.
LEMMA WaitingStays ==
  ASSUME Inv, NEW w \in Windows, window[w].at \in Outside, UNCHANGED <<lock, Globals>>,
         NEW s \in WindowState, Set(w, s), s.plan = window[w].plan, s.at \in Outside,
         s.at \in {"idle", "reread"} => ~s.read.present,
         s.at \in {"disconnect", "erase"} => s.read.present
  PROVE  Inv'
<1>1. lock # w /\ GlobalsTyped'
  BY OwnFacts DEF GlobalsTyped, Globals
<1>2. Point(s) = s.at
  BY DEF Point, Outside
<1>3. Sound(s)
  BY <1>2, OwnFacts DEF Sound, Outside, ApplyPoints, LifecyclePoints
<1> QED BY <1>1, <1>3, Stays

\* A disconnection or an erasure that holds the lock goes on, or is saved.
LEMMA LifecycleWorks ==
  ASSUME Inv, NEW w \in Windows, lock = w, UNCHANGED lock, GlobalsTyped',
         NEW s \in WindowState, Set(w, s), s.plan = window[w].plan,
         s.read = window[w].read, window[w].read.present,
         s.at \in LifecyclePoints \/ (s.at = "save" /\ s.next = "done")
  PROVE  Inv'
<1>1. Sound(s) /\ s.at \notin Outside
  BY OwnFacts DEF Sound, Point, ApplyPoints, LifecyclePoints, Outside
<1>2. Progress(s, config', journal', keyring', timer', client')
  BY DEF Progress
<1> QED BY <1>1, <1>2, Works

LEMMA DisconnectKeeps ==
  ASSUME Inv, NEW w \in Windows, Disconnect(w)
  PROVE  Inv'
<1> DEFINE o == window[w]
<1>1. PICK wipe \in {FALSE, MayErase} :
        /\ o.at = "idle" /\ config.present /\ UNCHANGED <<lock, Globals>>
        /\ Set(w, [o EXCEPT !.at = "disconnect", !.read = config, !.wipe = wipe,
                            !.outcome = "none"])
  BY DEF Disconnect, Globals
<1> DEFINE s == [o EXCEPT !.at = "disconnect", !.read = config, !.wipe = wipe,
                          !.outcome = "none"]
<1>2. wipe \in BOOLEAN
  BY SetupAssumption
<1>3. s \in WindowState /\ s.at = "disconnect" /\ s.read = config /\ s.plan = o.plan
  BY <1>2, OwnFacts DEF WindowState, Points, GlobalsTyped
<1> HIDE DEF s
<1> QED BY <1>1, <1>3, WaitingStays DEF Outside, s

LEMMA RereadKeeps ==
  ASSUME Inv, NEW w \in Windows, Reread(w)
  PROVE  Inv'
<1> DEFINE o == window[w]
           a == [o EXCEPT !.at = "erase", !.read = config, !.wipe = FALSE]
           b == [o EXCEPT !.at = "idle", !.wipe = FALSE]
<1>1. o.at = "reread" /\ UNCHANGED <<lock, Globals>>
  BY DEF Reread, Globals
<1>2. /\ a \in WindowState /\ a.at = "erase" /\ a.read = config /\ a.plan = o.plan
      /\ b \in WindowState /\ b.at = "idle" /\ b.read = o.read /\ b.plan = o.plan
  BY OwnFacts DEF WindowState, Points, GlobalsTyped
<1>3. ~o.read.present
  BY <1>1, OwnFacts DEF Sound
<1>4. (config.present /\ Set(w, a)) \/ Set(w, b)
  BY DEF Reread
<1> HIDE DEF a, b
<1> QED BY <1>1, <1>2, <1>3, <1>4, WaitingStays DEF Outside

LEMMA GiveUpKeeps ==
  ASSUME Inv, NEW w \in Windows, GiveUp(w)
  PROVE  Inv'
<1>1. window[w].at \in Outside /\ UNCHANGED <<lock, Globals>> /\ Set(w, Returned(w, "raised"))
  BY DEF GiveUp, Globals, Outside
<1>2. LET s == Returned(w, "raised")
      IN  s \in WindowState /\ Sound(s) /\ s.at = "idle" /\ s.plan = window[w].plan
          /\ s.read = NoConfig
  BY ReturnedIs
<1> QED BY <1>1, <1>2, Blank, WaitingStays DEF Outside

LEMMA BeginsKeep ==
  ASSUME Inv, NEW w \in Windows, BeginDisconnect(w) \/ BeginErase(w)
  PROVE  Inv'
<1> DEFINE o == window[w]
<1>1. o.at \in {"disconnect", "erase"} /\ Acquire(w) /\ UNCHANGED Globals
  BY DEF BeginDisconnect, BeginErase, Globals
<1>2. o.read.present
  BY <1>1, OwnFacts DEF Sound
<1>3. ASSUME NEW s \in WindowState, Set(w, s), s.at \in LifecyclePoints, s.plan = o.plan,
             s.read = o.read
      PROVE  Inv'
  <2>1. Sound(s) /\ s.at \notin Outside
    BY <1>2, <1>3, OwnFacts DEF Sound, Point, ApplyPoints, LifecyclePoints, Outside
  <2>2. Progress(s, config, journal, keyring, timer, client)
    BY <1>2, <1>3 DEF Progress
  <2> QED BY <1>1, <1>3, <2>1, <2>2, Enters
<1>4. CASE BeginDisconnect(w)
  <2> DEFINE jm == Record(journal, "disconnect", "applied")
             S(at) == Called(w, at, jm)
  <2>1. jm \in Journal
    BY OwnFacts, RecordTyped DEF GlobalsTyped, Phases
  <2>2. \E at \in {"unregister", "detach"} : Set(w, S(at))
    BY <1>4 DEF BeginDisconnect
  <2> HIDE DEF jm
  <2>3. \A at \in {"unregister", "detach"} :
          /\ S(at) \in WindowState /\ S(at).at = at /\ S(at).plan = o.plan
          /\ S(at).read = o.read
    BY <2>1, OwnFacts DEF Called, WindowState, Points, LifecyclePoints
  <2> HIDE DEF S
  <2> QED BY <1>3, <2>2, <2>3 DEF LifecyclePoints
<1>5. CASE BeginErase(w)
  <2> DEFINE jm == Record(journal, "erase", "applied")
             s == [Called(w, "erase timer", jm) EXCEPT !.todo = KeysOf(o.read)]
  <2>1. jm \in Journal /\ KeysOf(o.read) \subseteq Keys
    BY OwnFacts, RecordTyped, KeysOfConfig DEF GlobalsTyped, Phases
  <2>2. Set(w, s)
    BY <1>5 DEF BeginErase
  <2> HIDE DEF jm
  <2>3. s \in WindowState /\ s.at = "erase timer" /\ s.plan = o.plan /\ s.read = o.read
    BY <2>1, OwnFacts DEF Called, WindowState, Points, LifecyclePoints
  <2> HIDE DEF s
  <2> QED BY <1>3, <2>2, <2>3 DEF LifecyclePoints
<1> QED BY <1>4, <1>5

\* A disconnection saves its journal and ends.
LEMMA LifecycleSaves ==
  ASSUME Inv, NEW w \in Windows, lock = w, UNCHANGED lock, GlobalsTyped',
         window[w].at \in LifecyclePoints, NEW jm \in Journal, Set(w, Saving(w, jm, "done"))
  PROVE  Inv'
<1>1. window[w].read.present
  BY OwnFacts DEF Sound
<1> DEFINE s == Saving(w, jm, "done")
<1>2. /\ s \in WindowState /\ s.at = "save" /\ s.next = "done" /\ s.plan = window[w].plan
      /\ s.read = window[w].read
  BY SavingGoes
<1> HIDE DEF s
<1> QED BY <1>1, <1>2, LifecycleWorks DEF s

LEMMA UnregisterKeeps ==
  ASSUME Inv, NEW w \in Windows, Unregister(w)
  PROVE  Inv'
<1> DEFINE o == window[w]
           S(jm) == [o EXCEPT !.at = "detach", !.jm = jm]
<1>1. /\ lock = w /\ o.at = "unregister" /\ UNCHANGED <<lock, config, journal, keyring, timer>>
  BY DEF Unregister, Holds
<1>2. client' \in BOOLEAN /\ GlobalsTyped'
  <2>1. client' \in BOOLEAN
    BY OwnFacts DEF Unregister, GlobalsTyped
  <2> QED BY <1>1, <2>1, OwnFacts DEF GlobalsTyped
<1>3. CASE Set(w, Failing(w, "disconnect"))
  BY <1>1, <1>2, <1>3, FailingWorks DEF Phases
<1>4. Release(o.jm, "client") \in Journal /\ Record(o.jm, "disconnect", "failed") \in Journal
  BY OwnFacts, ThingsTyped, RecordTyped DEF Phases
<1>5. \/ Set(w, Failing(w, "disconnect"))
      \/ Set(w, S(Release(o.jm, "client")))
      \/ Set(w, S(Record(o.jm, "disconnect", "failed")))
  BY OwnFacts DEF Unregister, WindowState
<1>6. \A jm \in Journal : /\ S(jm) \in WindowState /\ S(jm).at = "detach"
                          /\ S(jm).plan = o.plan /\ S(jm).read = o.read
  BY OwnFacts DEF WindowState, Points, LifecyclePoints
<1>7. o.read.present
  BY <1>1, OwnFacts DEF Sound, LifecyclePoints
<1> HIDE DEF S
<1> QED BY <1>1, <1>2, <1>3, <1>4, <1>5, <1>6, <1>7, LifecycleWorks DEF LifecyclePoints

LEMMA DetachKeeps ==
  ASSUME Inv, NEW w \in Windows, Detach(w)
  PROVE  Inv'
<1> DEFINE o == window[w]
           new == [o.read EXCEPT !.client = FALSE]
<1>1. lock = w /\ o.at = "detach" /\ UNCHANGED <<journal, keyring, timer, client>>
  BY DEF Detach, Holds
<1>2. config' \in Config /\ GlobalsTyped'
  <2>1. new \in Config
    BY OwnFacts DEF Config
  <2>2. config' \in Config
    BY <2>1, OwnFacts DEF Detach, GlobalsTyped
  <2> QED BY <1>1, <2>2, OwnFacts DEF GlobalsTyped
<1>3. CASE Raise(w)
  BY <1>1, <1>2, <1>3, RaiseStays
<1>4. CASE Set(w, Saving(w, o.jm, "done")) /\ UNCHANGED lock
  BY <1>1, <1>2, <1>4, OwnFacts, LifecycleSaves DEF LifecyclePoints
<1> QED BY <1>3, <1>4 DEF Detach

LEMMA EraseTimerKeeps ==
  ASSUME Inv, NEW w \in Windows, EraseTimer(w)
  PROVE  Inv'
<1> DEFINE o == window[w]
           S(jm) == [o EXCEPT !.at = "erase keys", !.jm = jm]
<1>1. lock = w /\ o.at = "erase timer" /\ UNCHANGED <<config, journal, keyring, client>>
  BY DEF EraseTimer, Holds
<1>2. timer' \in BOOLEAN /\ GlobalsTyped'
  <2>1. timer' \in BOOLEAN
    BY OwnFacts DEF EraseTimer, GlobalsTyped
  <2> QED BY <1>1, <2>1, OwnFacts DEF GlobalsTyped
<1>3. Release(o.jm, "timer") \in Journal /\ Record(o.jm, "erase", "failed") \in Journal
  BY OwnFacts, ThingsTyped, RecordTyped DEF Phases
<1>4. Raise(w) \/ (UNCHANGED lock /\ \E jm \in Journal : Set(w, S(jm)))
  BY <1>3 DEF EraseTimer
<1>5. \A jm \in Journal : /\ S(jm) \in WindowState /\ S(jm).at = "erase keys"
                          /\ S(jm).plan = o.plan /\ S(jm).read = o.read
  BY OwnFacts DEF WindowState, Points, LifecyclePoints
<1>6. o.read.present
  BY <1>1, OwnFacts DEF Sound, LifecyclePoints
<1> HIDE DEF S
<1>7. CASE Raise(w)
  BY <1>1, <1>2, <1>7, RaiseStays
<1> QED BY <1>1, <1>2, <1>4, <1>5, <1>6, <1>7, LifecycleWorks DEF LifecyclePoints

LEMMA EraseKeysKeeps ==
  ASSUME Inv, NEW w \in Windows, EraseKeys(w)
  PROVE  Inv'
<1> DEFINE o == window[w]
<1>1. lock = w /\ o.at = "erase keys" /\ UNCHANGED <<journal, timer, client>>
  BY DEF EraseKeys, Holds
<1>2. o.read.present
  BY <1>1, OwnFacts DEF Sound, LifecyclePoints
<1>3. ASSUME NEW k \in o.todo, DeleteKey(w, k, o.jm, Record(o.jm, "erase", "failed")),
             UNCHANGED <<lock, config>>
      PROVE  Inv'
  <2>1. Record(o.jm, "erase", "failed") \in Journal
    BY OwnFacts, RecordTyped DEF Phases
  <2>2. PICK s \in WindowState : /\ Set(w, s) /\ s.at = o.at /\ s.plan = o.plan
                                 /\ s.read = o.read
    BY <1>3, <2>1, OwnFacts, DeletingIs
  <2>3. keyring' \subseteq Keys
    BY <1>3, <2>1, OwnFacts, DeletingIs
  <2>4. GlobalsTyped'
    BY <1>1, <1>3, <2>3, OwnFacts DEF GlobalsTyped
  <2> QED BY <1>1, <1>2, <1>3, <2>2, <2>4, LifecycleWorks DEF LifecyclePoints
<1>4. CASE /\ config' = NoConfig /\ UNCHANGED <<lock, keyring>>
           /\ Set(w, Saving(w, Release(o.jm, "config"), "done"))
  <2>1. Release(o.jm, "config") \in Journal /\ GlobalsTyped'
    BY <1>1, <1>4, OwnFacts, ThingsTyped, Blank DEF GlobalsTyped
  <2> QED BY <1>1, <1>4, <2>1, LifecycleSaves DEF LifecyclePoints
<1>5. CASE Raise(w) /\ UNCHANGED <<config, keyring>>
  BY <1>1, <1>5, OwnFacts, RaiseStays DEF GlobalsTyped
<1> QED BY <1>3, <1>4, <1>5 DEF EraseKeys

LEMMA ReopenKeeps ==
  ASSUME Inv, NEW w \in Windows, Reopen(w)
  PROVE  Inv'
<1>1. /\ lock' = (IF lock = w THEN Nobody ELSE lock) /\ Set(w, Opened)
      /\ UNCHANGED Globals
  BY DEF Reopen, Globals
<1>2. Opened.at = "idle" /\ GlobalsTyped'
  BY <1>1, OwnFacts DEF Opened, GlobalsTyped, Globals
<1> QED BY <1>1, <1>2, Blank, Stays DEF Outside

LEMMA NextInv == Inv /\ [Next]_vars => Inv'
<1> SUFFICES ASSUME Inv, [Next]_vars PROVE Inv'
  OBVIOUS
<1>1. ASSUME NEW w \in Windows,
             Step(w) \/ Review(w) \/ Enable(w) \/ Disconnect(w) \/ Reopen(w)
      PROVE  Inv'
  <2>1. CASE Applying(w)
    BY <2>1, PutKeeps, CommitKeeps, CompensateKeeps, RetireKeeps, ReconcileKeeps, ProbeKeeps,
       RegisterKeeps, ReadbackKeeps DEF Applying
  <2>2. CASE Leaving(w)
    BY <2>2, RereadKeeps, GiveUpKeeps, BeginsKeep, UnregisterKeeps, DetachKeeps,
       EraseTimerKeeps, EraseKeysKeeps DEF Leaving
  <2> QED BY <1>1, <2>1, <2>2, SaveKeeps, FinishKeeps, ReviewKeeps, EnableKeeps,
             DisconnectKeeps, ReopenKeeps DEF Step
<1>2. CASE UNCHANGED vars
  BY <1>2 DEF vars, Inv, TypeOK
<1> QED BY <1>1, <1>2 DEF Next

LEMMA InitInv == Init => Inv
<1> SUFFICES ASSUME Init PROVE Inv
  OBVIOUS
<1>1. \A w \in Windows : window[w] = Opened /\ lock # w
  BY SetupAssumption DEF Init
<1>2. Opened.at \in Outside
  BY DEF Opened, Outside
<1>3. TypeOK
  BY Blank DEF Init, TypeOK
<1> QED BY <1>1, <1>2, <1>3, Blank DEF Inv

-----------------------------------------------------------------------------
(***************************************************************************)
(* What the invariant gives.                                               *)
(***************************************************************************)
\* What has been done when a task that has not failed gets to its end.
LEMMA CompleteMeans ==
  ASSUME Inv, NEW w \in Windows,
         window[w].at = "done", window[w].outcome = "running", ~window[w].read.present
  PROVE  LET plan == window[w].plan
         IN  /\ config = plan.config /\ window[w].probed = config
             /\ KeysOf(config) \subseteq keyring
             /\ KeysOf(config) \subseteq journal.keys
             /\ config.relay => timer /\ "timer" \in journal.things
             /\ config.client => "client" \in journal.things
             /\ plan.registers => client
<1>1. Progress(window[w], config, journal, keyring, timer, client)
  BY OwnFacts DEF Outside
<1>2. Point(window[w]) = "done"
  BY DEF Point
<1> QED BY <1>1, <1>2 DEF Progress

\* Only Register adds an entry, and it comes after the probe.
LEMMA OnlyRegisterAdds ==
  ASSUME Inv, [Next]_vars, client', ~client
  PROVE  \E w \in Windows : lock = w /\ window[w].probed = config /\ config.present
<1>1. PICK w \in Windows : Register(w)
  BY DEF Next, vars, Step, Applying, Leaving, Review, Enable, Put, Save, Commit, Compensate,
         Retire, Reconcile, Probe, Readback, Finish, Disconnect, Reread, GiveUp, BeginDisconnect,
         Unregister, Detach, BeginErase, EraseTimer, EraseKeys, Reopen
<1>2. lock = w /\ window[w].at = "register" /\ Point(window[w]) = "register"
  BY <1>1 DEF Register, Holds, Point
<1>3. Sound(window[w]) /\ Progress(window[w], config, journal, keyring, timer, client)
  BY <1>2, OwnFacts
<1> QED BY <1>2, <1>3 DEF Sound, Progress, ApplyPoints

\* The inductive invariant holds in every state of every behaviour.
THEOREM InvariantHolds == Spec => []Inv
BY InitInv, NextInv, PTL DEF Spec

\* Every variable keeps its type.
THEOREM TypesHold == Spec => []TypeOK
<1>1. Inv => TypeOK
  BY DEF Inv
<1> QED BY <1>1, InvariantHolds, PTL

\* SetupService.apply says "complete" only of a plan that is all there: committed,
\* its keys stored and owned, its timer installed, its engine probed, its planned
\* registration made; whatever failed before, and however many windows are open.
THEOREM CompletionIsTrue == Spec => CompleteIsTrue
<1> DEFINE True(w) ==
             Completes(w) /\ ~window[w].read.present =>
               LET plan == window[w].plan
               IN  /\ config = plan.config /\ window[w].probed = config
                   /\ KeysOf(config) \subseteq keyring
                   /\ KeysOf(config) \subseteq journal.keys
                   /\ config.relay => timer /\ "timer" \in journal.things
                   /\ config.client => "client" \in journal.things
                   /\ plan.registers => client
<1>1. Inv /\ [Next]_vars => [\A w \in Windows : True(w)]_vars
  BY CompleteMeans DEF Completes
<1>2. CompleteIsTrue <=> [][\A w \in Windows : True(w)]_vars
  BY DEF CompleteIsTrue
<1> QED BY <1>1, <1>2, InvariantHolds, PTL DEF Spec

\* The adapter adds a registration only under the lock, and only after the engine
\* has answered under the configuration that is committed then.
THEOREM ClientsMeetEngines == Spec => ClientMeetsEngine
<1>1. Inv /\ [Next]_vars =>
        [client' /\ ~client =>
           \E w \in Windows : lock = w /\ window[w].probed = config /\ config.present]_vars
  BY OnlyRegisterAdds
<1> QED BY <1>1, InvariantHolds, PTL DEF Spec, ClientMeetsEngine

-----------------------------------------------------------------------------
(***************************************************************************)
(* The journal.  A disk error that comes after the journal was replaced, or *)
(* before it was saved, loses the record of what was made; so does a crash. *)
(* Of several keys, those written before one fails are not recorded.       *)
(***************************************************************************)
\* Without disk errors and crashes, and if several keys that one setup writes do
\* not fail to be written, nothing Setup creates is ever off the record.
JournalIsKept ==
  /\ "disk" \notin Faults /\ "crash" \notin Faults
  /\ "keyring" \in Faults => \A i \in Intents : \A p, q \in i.providers : p = q

OnRecord(j, kr, tm) ==
  /\ kr \subseteq j.keys \union j.pending
  /\ tm => "timer" \in j.things

OneKey(s) == "keyring" \in Faults => \A j, k \in KeysOf(s.plan.config) : j = k

\* What the journal in memory of the lock's holder says, and from which points on
\* the file says it too.
Noted(s, jn, kr, tm) ==
  /\ s.at = "put" =>
       /\ kr \subseteq s.jm.keys \union s.jm.pending \union (KeysOf(s.plan.config) \ s.todo)
       /\ tm => "timer" \in s.jm.things
       /\ "keyring" \in Faults => s.todo = KeysOf(s.plan.config)
  /\ s.at # "put" => OnRecord(s.jm, kr, tm)
  /\ s.at \in {"retire", "timer", "probe", "register", "readback", "done"} =>
       OnRecord(jn, kr, tm)

Recorded ==
  /\ lock = Nobody => OnRecord(journal, keyring, timer)
  /\ \A w \in Windows : lock = w => Noted(window[w], journal, keyring, timer)
  /\ \A w \in Windows : OneKey(window[w])

\* The ways a step keeps what is recorded.
LEMMA HolderNotes ==
  ASSUME Inv, Recorded, NEW w \in Windows, lock = w, UNCHANGED lock, NEW s, Set(w, s),
         s.plan = window[w].plan, Noted(s, journal', keyring', timer')
  PROVE  Recorded'
<1>1. window' = [window EXCEPT ![w] = s] /\ window \in [Windows -> WindowState]
  BY DEF Set, Inv, TypeOK
<1>2. window'[w] = s /\ \A v \in Windows \ {w} : window'[v] = window[v]
  BY <1>1
<1>3. \A v \in Windows : OneKey(window'[v])
  BY <1>2 DEF Recorded, OneKey
<1>4. \A v \in Windows : lock' = v => Noted(window'[v], journal', keyring', timer')
  BY <1>2
<1> QED BY <1>3, <1>4, SetupAssumption DEF Recorded

LEMMA HolderLeaves ==
  ASSUME Inv, Recorded, NEW w \in Windows, lock = w, lock' = Nobody, NEW s, Set(w, s),
         s.plan = window[w].plan, OnRecord(journal', keyring', timer')
  PROVE  Recorded'
<1>1. window' = [window EXCEPT ![w] = s] /\ window \in [Windows -> WindowState]
  BY DEF Set, Inv, TypeOK
<1>2. window'[w] = s /\ \A v \in Windows \ {w} : window'[v] = window[v]
  BY <1>1
<1>3. \A v \in Windows : OneKey(window'[v])
  BY <1>2 DEF Recorded, OneKey
<1> QED BY <1>3, SetupAssumption DEF Recorded

LEMMA HolderEnters ==
  ASSUME Inv, Recorded, NEW w \in Windows, Acquire(w), UNCHANGED Globals, NEW s, Set(w, s),
         s.plan = window[w].plan,
         OnRecord(journal, keyring, timer) => Noted(s, journal, keyring, timer)
  PROVE  Recorded'
<1>1. window' = [window EXCEPT ![w] = s] /\ window \in [Windows -> WindowState]
  BY DEF Set, Inv, TypeOK
<1>2. window'[w] = s /\ \A v \in Windows \ {w} : window'[v] = window[v]
  BY <1>1
<1>3. \A v \in Windows : OneKey(window'[v])
  BY <1>2 DEF Recorded, OneKey
<1>4. lock = Nobody /\ lock' = w /\ OnRecord(journal, keyring, timer)
  BY DEF Acquire, Recorded
<1> QED BY <1>2, <1>3, <1>4, SetupAssumption DEF Recorded, Globals

LEMMA OthersNote ==
  ASSUME Inv, Recorded, NEW w \in Windows, lock # w, UNCHANGED <<lock, Globals>>, NEW s,
         Set(w, s), OneKey(s)
  PROVE  Recorded'
<1>1. window' = [window EXCEPT ![w] = s] /\ window \in [Windows -> WindowState]
  BY DEF Set, Inv, TypeOK
<1>2. window'[w] = s /\ \A v \in Windows \ {w} : window'[v] = window[v]
  BY <1>1
<1> QED BY <1>2 DEF Recorded, Globals

LEMMA FailingNotes ==
  ASSUME Inv, Recorded, NEW w \in Windows, lock = w, UNCHANGED lock,
         NEW phase \in Phases, Set(w, Failing(w, phase)),
         OnRecord(window[w].jm, keyring', timer')
  PROVE  Recorded'
<1> DEFINE o == window[w]
           jm == Record(o.jm, phase, "failed")
           s == Failing(w, phase)
<1>1. /\ jm \in Journal /\ jm.keys = o.jm.keys /\ jm.pending = o.jm.pending
      /\ jm.things = o.jm.things
  BY OwnFacts, RecordTyped
<1>2. s.at = "save" /\ s.jm = jm /\ s.plan = o.plan
  BY <1>1, OwnFacts, SavingGoes DEF Failing, WindowState
<1> HIDE DEF s, jm
<1>3. Noted(s, journal', keyring', timer')
  BY <1>1, <1>2 DEF Noted, OnRecord
<1> QED BY <1>2, <1>3, HolderNotes DEF s

LEMMA SavingNotes ==
  ASSUME Inv, Recorded, NEW w \in Windows, lock = w, UNCHANGED lock,
         NEW jm \in Journal,
         NEW next \in {"commit", "retire", "timer", "probe", "register", "done"},
         next # "done" => Point(window[w]) \in ApplyPoints,
         Set(w, Saving(w, jm, next)), OnRecord(jm, keyring', timer')
  PROVE  Recorded'
<1> DEFINE s == Saving(w, jm, next)
<1>1. s.at = "save" /\ s.jm = jm /\ s.plan = window[w].plan
  BY SavingGoes
<1> HIDE DEF s
<1>2. Noted(s, journal', keyring', timer')
  BY <1>1 DEF Noted
<1> QED BY <1>1, <1>2, HolderNotes DEF s

\* What a task that holds the lock, and is past "put", knows.
LEMMA HolderFacts ==
  ASSUME Inv, Recorded, NEW w \in Windows, lock = w
  PROVE  /\ Noted(window[w], journal, keyring, timer)
         /\ window[w].at # "put" => OnRecord(window[w].jm, keyring, timer)
         /\ window[w].jm \in Journal /\ window[w] \in WindowState
BY OwnFacts DEF Recorded, Noted

LEMMA PutNotes ==
  ASSUME Inv, Recorded, NEW w \in Windows, Put(w)
  PROVE  Recorded'
<1> DEFINE o == window[w]
           all == KeysOf(o.plan.config)
<1>1. lock = w /\ o.at = "put" /\ Point(o) = "put" /\ UNCHANGED <<lock, config, journal, timer, client>>
  BY DEF Put, Holds, Point
<1>2. /\ keyring \subseteq o.jm.keys \union o.jm.pending \union (all \ o.todo)
      /\ timer => "timer" \in o.jm.things
      /\ "keyring" \in Faults => o.todo = all
      /\ o.todo \subseteq all
  BY <1>1, HolderFacts, OwnFacts DEF Noted, Progress, Sound, ApplyPoints
<1>3. CASE "keyring" \in Faults /\ Set(w, Failing(w, "credentials")) /\ UNCHANGED keyring
  <2>1. OnRecord(o.jm, keyring', timer')
    BY <1>1, <1>2, <1>3 DEF OnRecord
  <2> QED BY <1>1, <1>3, <2>1, FailingNotes DEF Phases
<1>4. ASSUME NEW k \in o.todo, keyring' = keyring \union {k}, o.todo \ {k} # {},
             Set(w, [o EXCEPT !.todo = o.todo \ {k}])
      PROVE  Recorded'
  <2> DEFINE s == [o EXCEPT !.todo = o.todo \ {k}]
  <2>1. /\ s.at = "put" /\ s.plan = o.plan /\ s.todo = o.todo \ {k} /\ s.jm = o.jm
    BY <1>1, OwnFacts DEF WindowState
  <2> HIDE DEF s
  <2>2. "keyring" \notin Faults
    BY <1>2, <1>4 DEF Recorded, OneKey
  <2>3. Noted(s, journal', keyring', timer')
    BY <1>1, <1>2, <1>4, <2>1, <2>2 DEF Noted
  <2> QED BY <1>1, <1>4, <2>1, <2>3, HolderNotes DEF s
<1>5. ASSUME NEW k \in o.todo, keyring' = keyring \union {k}, o.todo \ {k} = {},
             LET jm == [o.jm EXCEPT !.keys = @ \union all]
             IN  Set(w, [Saving(w, Record(jm, "credentials", "applied"), "commit")
                           EXCEPT !.todo = {}, !.written = all])
      PROVE  Recorded'
  <2> DEFINE jm == [o.jm EXCEPT !.keys = @ \union all]
             rec == Record(jm, "credentials", "applied")
             base == Saving(w, rec, "commit")
             s == [base EXCEPT !.todo = {}, !.written = all]
  <2>1. /\ jm \in Journal /\ jm.keys = o.jm.keys \union all /\ jm.pending = o.jm.pending
        /\ jm.things = o.jm.things
    BY OwnFacts DEF Journal
  <2> HIDE DEF jm
  <2>2. /\ rec \in Journal /\ rec.keys = o.jm.keys \union all /\ rec.pending = o.jm.pending
        /\ rec.things = o.jm.things
    BY <2>1, RecordTyped DEF Phases
  <2>3. Set(w, s)
    BY <1>5 DEF jm
  <2> HIDE DEF rec
  <2>4. base \in WindowState /\ base.at = "save" /\ base.jm = rec /\ base.plan = o.plan
    BY <1>1, <2>2, SavingGoes DEF ApplyPoints
  <2> HIDE DEF base
  <2>5. s.at = "save" /\ s.jm = rec /\ s.plan = o.plan
    BY <2>4 DEF WindowState
  <2> HIDE DEF s
  <2>6. Noted(s, journal', keyring', timer')
    BY <1>1, <1>2, <1>5, <2>2, <2>5 DEF Noted, OnRecord
  <2> QED BY <1>1, <2>3, <2>5, <2>6, HolderNotes
<1> QED BY <1>3, <1>4, <1>5 DEF Put

LEMMA SaveNotes ==
  ASSUME Inv, Recorded, "disk" \notin Faults, NEW w \in Windows, Save(w)
  PROVE  Recorded'
<1> DEFINE o == window[w]
           t == IF o.next = "retire" THEN o.plan.retired ELSE o.todo
           s == [o EXCEPT !.at = o.next, !.todo = t]
<1>1. /\ lock = w /\ o.at = "save" /\ UNCHANGED <<lock, config, keyring, timer, client>>
      /\ journal' = o.jm /\ Set(w, s)
  BY OwnFacts DEF Save, Holds, WindowState
<1> HIDE DEF t
<1>2. s.at = o.next /\ s.jm = o.jm /\ s.plan = o.plan
  BY OwnFacts DEF WindowState
<1> HIDE DEF s
<1>3. o.next # "put" /\ OnRecord(o.jm, keyring, timer)
  BY <1>1, HolderFacts, OwnFacts DEF Sound
<1>4. Noted(s, journal', keyring', timer')
  BY <1>1, <1>2, <1>3 DEF Noted
<1> QED BY <1>1, <1>2, <1>4, HolderNotes

LEMMA CommitNotes ==
  ASSUME Inv, Recorded, "disk" \notin Faults, NEW w \in Windows, Commit(w)
  PROVE  Recorded'
<1> DEFINE o == window[w]
           jm == [o.jm EXCEPT !.things = @ \union {"config"}]
           rec == Record(jm, "config", "applied")
<1>1. /\ lock = w /\ o.at = "commit" /\ Point(o) = "commit"
      /\ UNCHANGED <<lock, journal, keyring, timer, client>>
      /\ Set(w, Saving(w, rec, "retire"))
  BY DEF Commit, Holds, Point
<1>2. /\ jm \in Journal /\ jm.keys = o.jm.keys /\ jm.pending = o.jm.pending
      /\ jm.things = o.jm.things \union {"config"}
  BY OwnFacts DEF Journal
<1> HIDE DEF jm
<1>3. /\ rec \in Journal /\ rec.keys = o.jm.keys /\ rec.pending = o.jm.pending
      /\ rec.things = o.jm.things \union {"config"}
  BY <1>2, RecordTyped DEF Phases
<1> HIDE DEF rec
<1>4. OnRecord(rec, keyring', timer')
  BY <1>1, <1>3, HolderFacts DEF OnRecord
<1> QED BY <1>1, <1>3, <1>4, SavingNotes DEF ApplyPoints

\* A key that is deleted need not be on record; one that is kept was.
LEMMA DeletingNotes ==
  ASSUME Inv, Recorded, NEW w \in Windows, lock = w, UNCHANGED <<lock, journal, timer>>,
         window[w].at \in {"compensate", "retire", "erase keys"}, NEW k \in window[w].todo,
         NEW deleted \in Journal, NEW kept \in Journal, DeleteKey(w, k, deleted, kept),
         window[w].jm.keys \union window[w].jm.pending
           \subseteq deleted.keys \union deleted.pending \union {k},
         window[w].jm.keys \union window[w].jm.pending \subseteq kept.keys \union kept.pending,
         deleted.things = window[w].jm.things, kept.things = window[w].jm.things
  PROVE  Recorded'
<1> DEFINE o == window[w]
           S(jm) == [o EXCEPT !.todo = @ \ {k}, !.jm = jm]
<1>1. \A jm \in Journal : S(jm).jm = jm /\ S(jm).at = o.at /\ S(jm).plan = o.plan
  BY OwnFacts DEF WindowState
<1>2. \/ Set(w, S(deleted)) /\ keyring' = keyring \ {k}
      \/ Set(w, S(kept)) /\ keyring' = keyring
  BY DEF DeleteKey
<1> HIDE DEF S
<1>3. CASE Set(w, S(deleted)) /\ keyring' = keyring \ {k}
  <2>1. Noted(S(deleted), journal', keyring', timer')
    BY <1>1, <1>3, HolderFacts DEF Noted, OnRecord
  <2> QED BY <1>1, <1>3, <2>1, HolderNotes
<1>4. CASE Set(w, S(kept)) /\ keyring' = keyring
  <2>1. Noted(S(kept), journal', keyring', timer')
    BY <1>1, <1>4, HolderFacts DEF Noted, OnRecord
  <2> QED BY <1>1, <1>4, <2>1, HolderNotes
<1> QED BY <1>2, <1>3, <1>4

LEMMA CompensateNotes ==
  ASSUME Inv, Recorded, NEW w \in Windows, Compensate(w)
  PROVE  Recorded'
<1> DEFINE o == window[w]
<1>1. lock = w /\ o.at = "compensate" /\ UNCHANGED <<lock, config, journal, timer, client>>
  BY DEF Compensate, Holds
<1>2. ASSUME NEW k \in o.todo, DeleteKey(w, k, Disown(o.jm, k), Pending(o.jm, k))
      PROVE  Recorded'
  <2>1. /\ Disown(o.jm, k) \in Journal /\ Pending(o.jm, k) \in Journal
        /\ Disown(o.jm, k).keys = o.jm.keys \ {k} /\ Disown(o.jm, k).pending = o.jm.pending
        /\ Pending(o.jm, k).keys = o.jm.keys /\ Pending(o.jm, k).pending = o.jm.pending \union {k}
        /\ Disown(o.jm, k).things = o.jm.things /\ Pending(o.jm, k).things = o.jm.things
    BY OwnFacts DEF Disown, Pending, Journal
  <2> QED BY <1>1, <1>2, <2>1, DeletingNotes
<1>3. ASSUME Set(w, [Saving(w, o.jm, "done") EXCEPT !.outcome = "failed"]), UNCHANGED keyring
      PROVE  Recorded'
  <2> DEFINE base == Saving(w, o.jm, "done")
             s == [base EXCEPT !.outcome = "failed"]
  <2>1. base \in WindowState /\ base.at = "save" /\ base.jm = o.jm /\ base.plan = o.plan
    BY OwnFacts, SavingGoes
  <2> HIDE DEF base
  <2>2. s.at = "save" /\ s.jm = o.jm /\ s.plan = o.plan
    BY <2>1 DEF WindowState
  <2>3. Set(w, s)
    BY <1>3 DEF base
  <2> HIDE DEF s
  <2>4. Noted(s, journal', keyring', timer')
    BY <1>1, <1>3, <2>2, HolderFacts DEF Noted
  <2> QED BY <1>1, <2>2, <2>3, <2>4, HolderNotes
<1> QED BY <1>2, <1>3 DEF Compensate

LEMMA RetireNotes ==
  ASSUME Inv, Recorded, NEW w \in Windows, Retire(w)
  PROVE  Recorded'
<1> DEFINE o == window[w]
<1>1. /\ lock = w /\ o.at = "retire" /\ UNCHANGED <<lock, config, journal, timer, client>>
      /\ Point(o) = "retire"
  BY DEF Retire, Holds, Point
<1>2. ASSUME NEW k \in o.todo, DeleteKey(w, k, o.jm, Pending(o.jm, k))
      PROVE  Recorded'
  <2>1. /\ Pending(o.jm, k) \in Journal /\ Pending(o.jm, k).keys = o.jm.keys
        /\ Pending(o.jm, k).pending = o.jm.pending \union {k}
        /\ Pending(o.jm, k).things = o.jm.things
    BY OwnFacts DEF Pending, Journal
  <2> QED BY <1>1, <1>2, <2>1, OwnFacts, DeletingNotes
<1>3. CASE Set(w, Saving(w, o.jm, "timer")) /\ UNCHANGED keyring
  <2>1. OnRecord(o.jm, keyring', timer')
    BY <1>1, <1>3, HolderFacts
  <2> QED BY <1>1, <1>3, <2>1, OwnFacts, SavingNotes DEF ApplyPoints
<1>4. CASE Set(w, [o EXCEPT !.at = "timer"]) /\ UNCHANGED keyring
  <2> DEFINE s == [o EXCEPT !.at = "timer"]
  <2>1. s.at = "timer" /\ s.jm = o.jm /\ s.plan = o.plan
    BY OwnFacts DEF WindowState
  <2> HIDE DEF s
  <2>2. Noted(s, journal', keyring', timer')
    BY <1>1, <1>4, <2>1, HolderFacts DEF Noted
  <2> QED BY <1>1, <1>4, <2>1, <2>2, HolderNotes DEF s
<1> QED BY <1>2, <1>3, <1>4 DEF Retire

LEMMA ReconcileNotes ==
  ASSUME Inv, Recorded, "disk" \notin Faults, NEW w \in Windows, Reconcile(w)
  PROVE  Recorded'
<1> DEFINE o == window[w]
           jm == o.jm
           wanted == o.plan.config.relay
<1>1. /\ lock = w /\ o.at = "timer" /\ UNCHANGED <<lock, config, journal, keyring, client>>
      /\ Point(o) = "timer" /\ OnRecord(jm, keyring, timer) /\ jm \in Journal
  BY HolderFacts DEF Reconcile, Holds, Point
<1>2. CASE Set(w, Failing(w, "cleanup_timer")) /\ UNCHANGED timer
  BY <1>1, <1>2, FailingNotes DEF Phases
<1>3. CASE UNCHANGED timer /\ Set(w, [o EXCEPT !.at = "probe"])
  <2> DEFINE s == [o EXCEPT !.at = "probe"]
  <2>1. s.at = "probe" /\ s.jm = o.jm /\ s.plan = o.plan
    BY OwnFacts DEF WindowState
  <2> HIDE DEF s
  <2>2. Noted(s, journal', keyring', timer')
    BY <1>1, <1>3, <2>1, HolderFacts DEF Noted
  <2> QED BY <1>1, <1>3, <2>1, <2>2, HolderNotes DEF s
<1>4. ASSUME NEW j \in Journal, Set(w, Saving(w, j, "probe")),
             j.keys = jm.keys, j.pending = jm.pending, timer' => "timer" \in j.things
      PROVE  Recorded'
  <2>1. OnRecord(j, keyring', timer')
    BY <1>1, <1>4 DEF OnRecord
  <2> QED BY <1>1, <1>4, <2>1, SavingNotes DEF ApplyPoints
<1>5. CASE timer' = TRUE
           /\ Set(w, Saving(w, Record(Own(jm, "timer"), "cleanup_timer", "applied"), "probe"))
  BY <1>1, <1>4, <1>5, ThingsTyped, RecordTyped DEF Phases
<1>6. CASE timer' = FALSE
           /\ \/ Set(w, Saving(w, Record(Release(jm, "timer"), "cleanup_timer", "applied"),
                               "probe"))
              \/ Set(w, Saving(w, Record(jm, "cleanup_timer", "failed"), "probe"))
  BY <1>1, <1>4, <1>6, ThingsTyped, RecordTyped DEF Phases
<1> QED BY <1>2, <1>3, <1>5, <1>6 DEF Reconcile

\* The points between the timer and the end change neither keys nor timer.
LEMMA LaterNotes ==
  ASSUME Inv, Recorded, NEW w \in Windows, Probe(w) \/ Register(w) \/ Readback(w)
  PROVE  Recorded'
<1> DEFINE o == window[w]
           jm == o.jm
<1>1. /\ lock = w /\ o.at \in {"probe", "register", "readback"}
      /\ UNCHANGED <<config, journal, keyring, timer>>
      /\ OnRecord(jm, keyring', timer') /\ OnRecord(journal', keyring', timer') /\ jm \in Journal
      /\ Point(o) \in ApplyPoints
  <2>1. /\ lock = w /\ o.at \in {"probe", "register", "readback"}
        /\ UNCHANGED <<config, journal, keyring, timer>>
    BY DEF Probe, Register, Readback, Holds
  <2> QED BY <2>1, HolderFacts DEF Noted, Point, ApplyPoints
<1>2. CASE Raise(w)
  <2>1. lock' = Nobody /\ Set(w, Returned(w, "raised")) /\ Returned(w, "raised").plan = o.plan
    BY <1>2, ReturnedIs DEF Raise
  <2> QED BY <1>1, <2>1, HolderLeaves
<1>3. ASSUME NEW phase \in Phases, Set(w, Failing(w, phase)), UNCHANGED lock
      PROVE  Recorded'
  BY <1>1, <1>3, FailingNotes
<1>4. ASSUME NEW s, Set(w, s), UNCHANGED lock, s.plan = o.plan, s.at \in {"save", "readback"},
             s.jm.keys = jm.keys, s.jm.pending = jm.pending, jm.things \subseteq s.jm.things
      PROVE  Recorded'
  <2>1. Noted(s, journal', keyring', timer')
    BY <1>1, <1>4 DEF Noted, OnRecord
  <2> QED BY <1>1, <1>4, <2>1, HolderNotes
<1>5. CASE Probe(w)
  <2> DEFINE rec == Record(jm, "engine", "applied")
             next == IF o.plan.config.client THEN "register" ELSE "done"
             base == Saving(w, rec, next)
             s == [base EXCEPT !.probed = config]
  <2>1. /\ rec \in Journal /\ rec.keys = jm.keys /\ rec.pending = jm.pending
        /\ rec.things = jm.things
    BY <1>1, RecordTyped DEF Phases
  <2>2. next \in {"register", "done"}
    OBVIOUS
  <2> HIDE DEF rec, next
  <2>3. base \in WindowState /\ base.at = "save" /\ base.jm = rec /\ base.plan = o.plan
    BY <1>1, <2>1, <2>2, SavingGoes
  <2> HIDE DEF base
  <2>4. s.at = "save" /\ s.jm = rec /\ s.plan = o.plan
    BY <2>3 DEF WindowState
  <2>5. \/ Set(w, s) /\ UNCHANGED lock
        \/ Set(w, Failing(w, "engine")) /\ UNCHANGED lock
        \/ Raise(w)
    BY <1>5 DEF Probe, base, rec, next
  <2> HIDE DEF s
  <2> QED BY <1>2, <1>3, <1>4, <2>1, <2>4, <2>5 DEF Phases
<1>6. CASE Register(w)
  <2> DEFINE rec == Record(jm, "client", "intended")
             s == [o EXCEPT !.at = "readback", !.jm = rec]
  <2>1. /\ rec \in Journal /\ rec.keys = jm.keys /\ rec.pending = jm.pending
        /\ rec.things = jm.things
    BY <1>1, RecordTyped DEF Phases
  <2>2. Set(w, s) \/ Set(w, Failing(w, "client"))
    BY <1>6, OwnFacts DEF Register, WindowState
  <2> HIDE DEF rec
  <2>3. s.at = "readback" /\ s.jm = rec /\ s.plan = o.plan
    BY OwnFacts DEF WindowState
  <2> HIDE DEF s
  <2> QED BY <1>3, <1>4, <1>6, <2>1, <2>2, <2>3 DEF Register, Phases
<1>7. CASE Readback(w)
  <2> DEFINE rec == Record(Own(jm, "client"), "client", "applied")
             s == Saving(w, rec, "done")
  <2>1. /\ rec \in Journal /\ rec.keys = jm.keys /\ rec.pending = jm.pending
        /\ rec.things = jm.things \union {"client"}
    BY <1>1, RecordTyped, ThingsTyped DEF Phases
  <2> HIDE DEF rec
  <2>2. s.at = "save" /\ s.jm = rec /\ s.plan = o.plan
    BY <2>1, SavingGoes
  <2>3. (Set(w, s) /\ UNCHANGED lock) \/ Raise(w)
    BY <1>7 DEF Readback, rec
  <2> HIDE DEF s
  <2> QED BY <1>2, <1>4, <2>1, <2>2, <2>3
<1> QED BY <1>5, <1>6, <1>7

LEMMA FinishNotes ==
  ASSUME Inv, Recorded, NEW w \in Windows, Finish(w)
  PROVE  Recorded'
<1> DEFINE t == IF window[w].outcome = "running" THEN "complete" ELSE "failed"
           base == Returned(w, t)
           s == [base EXCEPT !.at = IF window[w].wipe THEN "reread" ELSE "idle"]
<1>1. /\ lock = w /\ window[w].at = "done" /\ lock' = Nobody /\ Set(w, s)
      /\ UNCHANGED <<config, journal, keyring, timer, client>>
  BY DEF Finish, Holds
<1>2. t \in {"none", "running", "complete", "failed", "raised"}
  OBVIOUS
<1> HIDE DEF t
<1>3. base \in WindowState /\ base.plan = window[w].plan
  BY <1>2, ReturnedIs
<1> HIDE DEF base
<1>4. s.plan = window[w].plan
  BY <1>3 DEF WindowState
<1> HIDE DEF s
<1>5. OnRecord(journal', keyring', timer')
  BY <1>1, HolderFacts DEF Noted
<1> QED BY <1>1, <1>4, <1>5, HolderLeaves

LEMMA EnableNotes ==
  ASSUME Inv, Recorded, NEW w \in Windows, Enable(w)
  PROVE  Recorded'
<1> DEFINE o == window[w]
           jm == Record(journal, "credentials", "intended")
           base == Called(w, "put", jm)
           s == [base EXCEPT !.todo = KeysOf(o.plan.config)]
<1>1. Acquire(w) /\ UNCHANGED Globals /\ Set(w, s)
  BY DEF Enable, Globals
<1>2. /\ jm \in Journal /\ jm.keys = journal.keys /\ jm.pending = journal.pending
      /\ jm.things = journal.things
  BY OwnFacts, RecordTyped DEF GlobalsTyped, Phases
<1> HIDE DEF jm
<1>3. base \in WindowState /\ base.at = "put" /\ base.jm = jm /\ base.plan = o.plan
  BY <1>2, OwnFacts DEF Called, WindowState, Points, ApplyPoints
<1> HIDE DEF base
<1>4. /\ s.at = "put" /\ s.jm = jm /\ s.plan = o.plan /\ s.todo = KeysOf(o.plan.config)
  BY <1>3 DEF WindowState
<1> HIDE DEF s
<1>5. OnRecord(journal, keyring, timer) => Noted(s, journal, keyring, timer)
  BY <1>2, <1>4 DEF Noted, OnRecord
<1> QED BY <1>1, <1>4, <1>5, HolderEnters

LEMMA BeginsNote ==
  ASSUME Inv, Recorded, NEW w \in Windows, BeginDisconnect(w) \/ BeginErase(w)
  PROVE  Recorded'
<1> DEFINE o == window[w]
<1>1. Acquire(w) /\ UNCHANGED Globals
  BY DEF BeginDisconnect, BeginErase, Globals
<1>2. ASSUME NEW s, Set(w, s), s.at \in LifecyclePoints, s.plan = o.plan,
             s.jm.keys = journal.keys, s.jm.pending = journal.pending,
             s.jm.things = journal.things
      PROVE  Recorded'
  <2>1. OnRecord(journal, keyring, timer) => Noted(s, journal, keyring, timer)
    BY <1>2 DEF Noted, OnRecord, LifecyclePoints
  <2> QED BY <1>1, <1>2, <2>1, HolderEnters
<1>3. CASE BeginDisconnect(w)
  <2> DEFINE jm == Record(journal, "disconnect", "applied")
             S(at) == Called(w, at, jm)
  <2>1. /\ jm \in Journal /\ jm.keys = journal.keys /\ jm.pending = journal.pending
        /\ jm.things = journal.things
    BY OwnFacts, RecordTyped DEF GlobalsTyped, Phases
  <2>2. \E at \in {"unregister", "detach"} : Set(w, S(at))
    BY <1>3 DEF BeginDisconnect
  <2> HIDE DEF jm
  <2>3. \A at \in {"unregister", "detach"} :
          S(at).at = at /\ S(at).plan = o.plan /\ S(at).jm = jm
    BY <2>1, OwnFacts DEF Called, WindowState
  <2> HIDE DEF S
  <2> QED BY <1>2, <2>1, <2>2, <2>3 DEF LifecyclePoints
<1>4. CASE BeginErase(w)
  <2> DEFINE jm == Record(journal, "erase", "applied")
             s == [Called(w, "erase timer", jm) EXCEPT !.todo = KeysOf(o.read)]
  <2>1. /\ jm \in Journal /\ jm.keys = journal.keys /\ jm.pending = journal.pending
        /\ jm.things = journal.things
    BY OwnFacts, RecordTyped DEF GlobalsTyped, Phases
  <2>2. Set(w, s)
    BY <1>4 DEF BeginErase
  <2> HIDE DEF jm
  <2>3. s.at = "erase timer" /\ s.plan = o.plan /\ s.jm = jm
    BY <2>1, OwnFacts DEF Called, WindowState
  <2> HIDE DEF s
  <2> QED BY <1>2, <2>1, <2>2, <2>3 DEF LifecyclePoints
<1> QED BY <1>3, <1>4

\* Between the end of a disconnection's reading and its writing, keys stay.
LEMMA UnregisterNotes ==
  ASSUME Inv, Recorded, NEW w \in Windows, Unregister(w)
  PROVE  Recorded'
<1> DEFINE o == window[w]
           S(jm) == [o EXCEPT !.at = "detach", !.jm = jm]
           released == Release(o.jm, "client")
           failed == Record(o.jm, "disconnect", "failed")
<1>1. /\ lock = w /\ o.at = "unregister" /\ UNCHANGED <<lock, config, journal, keyring, timer>>
  BY DEF Unregister, Holds
<1>2. OnRecord(o.jm, keyring', timer')
  BY <1>1, HolderFacts
<1>3. \/ Set(w, Failing(w, "disconnect"))
      \/ Set(w, S(released))
      \/ Set(w, S(failed))
  BY OwnFacts DEF Unregister, WindowState
<1>4. /\ released \in Journal /\ released.keys = o.jm.keys
      /\ released.pending = o.jm.pending /\ ("timer" \in o.jm.things => "timer" \in released.things)
  BY OwnFacts DEF Release, Journal
<1>5. /\ failed \in Journal /\ failed.keys = o.jm.keys
      /\ failed.pending = o.jm.pending /\ failed.things = o.jm.things
  BY OwnFacts, RecordTyped DEF Phases
<1> HIDE DEF released, failed
<1>6. \A jm \in Journal : S(jm).at = "detach" /\ S(jm).plan = o.plan /\ S(jm).jm = jm
  BY OwnFacts DEF WindowState
<1> HIDE DEF S
<1>7. CASE Set(w, Failing(w, "disconnect"))
  BY <1>1, <1>2, <1>7, FailingNotes DEF Phases
<1>8. ASSUME NEW jm \in {released, failed}, Set(w, S(jm))
      PROVE  Recorded'
  <2>1. Noted(S(jm), journal', keyring', timer')
    BY <1>2, <1>4, <1>5, <1>6 DEF Noted, OnRecord
  <2> QED BY <1>1, <1>4, <1>5, <1>6, <1>8, <2>1, HolderNotes
<1> QED BY <1>3, <1>7, <1>8

LEMMA DetachNotes ==
  ASSUME Inv, Recorded, "disk" \notin Faults, NEW w \in Windows, Detach(w)
  PROVE  Recorded'
<1>1. /\ lock = w /\ window[w].at = "detach" /\ UNCHANGED <<lock, journal, keyring, timer, client>>
      /\ Set(w, Saving(w, window[w].jm, "done"))
  BY DEF Detach, Holds
<1>2. OnRecord(window[w].jm, keyring', timer')
  BY <1>1, HolderFacts
<1> QED BY <1>1, <1>2, OwnFacts, SavingNotes

\* If the timer was not on record, it was not installed.
LEMMA EraseTimerNotes ==
  ASSUME Inv, Recorded, "disk" \notin Faults, NEW w \in Windows, EraseTimer(w)
  PROVE  Recorded'
<1> DEFINE o == window[w]
           S(jm) == [o EXCEPT !.at = "erase keys", !.jm = jm]
           released == Release(o.jm, "timer")
           failed == Record(o.jm, "erase", "failed")
<1>1. /\ lock = w /\ o.at = "erase timer" /\ UNCHANGED <<lock, config, journal, keyring, client>>
      /\ timer' = (timer /\ ~("timer" \in o.jm.things))
  BY DEF EraseTimer, Holds
<1>2. OnRecord(o.jm, keyring, timer) /\ timer \in BOOLEAN
  BY <1>1, HolderFacts, OwnFacts DEF GlobalsTyped
<1>3. ~timer'
  BY <1>1, <1>2 DEF OnRecord
<1>4. Set(w, S(released)) \/ Set(w, S(failed))
  BY DEF EraseTimer
<1>5. /\ released \in Journal /\ released.keys = o.jm.keys /\ released.pending = o.jm.pending
  BY OwnFacts DEF Release, Journal
<1>6. /\ failed \in Journal /\ failed.keys = o.jm.keys /\ failed.pending = o.jm.pending
  BY OwnFacts, RecordTyped DEF Phases
<1> HIDE DEF released, failed
<1>7. \A jm \in Journal : S(jm).at = "erase keys" /\ S(jm).plan = o.plan /\ S(jm).jm = jm
  BY OwnFacts DEF WindowState
<1> HIDE DEF S
<1>8. ASSUME NEW jm \in {released, failed}, Set(w, S(jm))
      PROVE  Recorded'
  <2>1. Noted(S(jm), journal', keyring', timer')
    BY <1>1, <1>2, <1>3, <1>5, <1>6, <1>7 DEF Noted, OnRecord
  <2> QED BY <1>1, <1>5, <1>6, <1>7, <1>8, <2>1, HolderNotes
<1> QED BY <1>4, <1>8

LEMMA EraseKeysNotes ==
  ASSUME Inv, Recorded, "disk" \notin Faults, NEW w \in Windows, EraseKeys(w)
  PROVE  Recorded'
<1> DEFINE o == window[w]
<1>1. /\ lock = w /\ o.at = "erase keys" /\ UNCHANGED <<journal, timer, client>>
      /\ OnRecord(o.jm, keyring, timer)
  BY HolderFacts DEF EraseKeys, Holds
<1>2. ASSUME NEW k \in o.todo, UNCHANGED <<lock, config>>,
             DeleteKey(w, k, o.jm, Record(o.jm, "erase", "failed"))
      PROVE  Recorded'
  <2> DEFINE failed == Record(o.jm, "erase", "failed")
  <2>1. /\ failed \in Journal /\ failed.keys = o.jm.keys /\ failed.pending = o.jm.pending
        /\ failed.things = o.jm.things
    BY OwnFacts, RecordTyped DEF Phases
  <2>2. DeleteKey(w, k, o.jm, failed)
    BY <1>2
  <2> HIDE DEF failed
  <2> QED BY <1>1, <1>2, <2>1, <2>2, OwnFacts, DeletingNotes
<1>3. CASE /\ UNCHANGED <<lock, keyring>>
           /\ Set(w, Saving(w, Release(o.jm, "config"), "done"))
  <2> DEFINE released == Release(o.jm, "config")
  <2>1. /\ released \in Journal /\ released.keys = o.jm.keys
        /\ released.pending = o.jm.pending
        /\ "timer" \in o.jm.things => "timer" \in released.things
    BY OwnFacts DEF Release, Journal
  <2>2. Set(w, Saving(w, released, "done"))
    BY <1>3
  <2> HIDE DEF released
  <2>3. OnRecord(released, keyring', timer')
    BY <1>1, <1>3, <2>1 DEF OnRecord
  <2> QED BY <1>1, <1>3, <2>1, <2>2, <2>3, SavingNotes
<1> QED BY <1>2, <1>3 DEF EraseKeys

\* A task without the lock that writes nothing, with the plan it had.
LEMMA WaitingNotes ==
  ASSUME Inv, Recorded, NEW w \in Windows, Disconnect(w) \/ Reread(w) \/ GiveUp(w)
  PROVE  Recorded'
<1> DEFINE o == window[w]
<1>1. o.at \in Outside /\ lock # w /\ UNCHANGED <<lock, Globals>>
  <2>1. o.at \in Outside /\ UNCHANGED <<lock, Globals>>
    BY DEF Disconnect, Reread, GiveUp, Outside, Globals
  <2> QED BY <2>1, OwnFacts
<1>2. \E s : Set(w, s) /\ s.plan = o.plan
  <2>1. CASE Disconnect(w)
    <3>1. PICK wipe \in {FALSE, MayErase} :
            Set(w, [o EXCEPT !.at = "disconnect", !.read = config, !.wipe = wipe,
                             !.outcome = "none"])
      BY <2>1 DEF Disconnect
    <3>2. [o EXCEPT !.at = "disconnect", !.read = config, !.wipe = wipe,
                    !.outcome = "none"].plan = o.plan
      BY OwnFacts DEF WindowState
    <3> QED BY <3>1, <3>2
  <2>2. CASE Reread(w)
    <3> DEFINE a == [o EXCEPT !.at = "erase", !.read = config, !.wipe = FALSE]
               b == [o EXCEPT !.at = "idle", !.wipe = FALSE]
    <3>1. a.plan = o.plan /\ b.plan = o.plan
      BY OwnFacts DEF WindowState
    <3>2. Set(w, a) \/ Set(w, b)
      BY <2>2 DEF Reread
    <3> HIDE DEF a, b
    <3> QED BY <3>1, <3>2
  <2>3. CASE GiveUp(w)
    BY <2>3, ReturnedIs DEF GiveUp
  <2> QED BY <2>1, <2>2, <2>3
<1>3. PICK s : Set(w, s) /\ s.plan = o.plan
  BY <1>2
<1>4. OneKey(s)
  BY <1>3 DEF OneKey, Recorded
<1> QED BY <1>1, <1>3, <1>4, OthersNote

LEMMA ReviewNotes ==
  ASSUME Inv, Recorded, JournalIsKept, NEW w \in Windows, Review(w)
  PROVE  Recorded'
<1>1. PICK i \in Intents : \E fresh \in [i.providers -> Keys \ Named(w)] :
        Set(w, [Opened EXCEPT !.plan = Planned(i, fresh)])
  BY DEF Review
<1>2. PICK fresh \in [i.providers -> Keys \ Named(w)] :
        Set(w, [Opened EXCEPT !.plan = Planned(i, fresh)])
  BY <1>1
<1> DEFINE plan == Planned(i, fresh)
           s == [Opened EXCEPT !.plan = plan]
<1>3. window[w].at = "idle" /\ UNCHANGED <<lock, Globals>>
  BY DEF Review, Globals
<1>4. lock # w
  BY <1>3, OwnFacts DEF Outside
<1>5. KeysOf(plan.config) \subseteq {fresh[p] : p \in i.providers}
  BY DEF KeysOf, Planned
<1>6. "keyring" \in Faults => \A j, k \in KeysOf(plan.config) : j = k
  <2>1. "keyring" \in Faults => \A p, q \in i.providers : fresh[p] = fresh[q]
    BY DEF JournalIsKept
  <2> HIDE DEF plan
  <2> QED BY <1>5, <2>1
<1> HIDE DEF plan
<1>7. s.plan = plan
  BY DEF Opened
<1>8. Set(w, s)
  BY <1>2 DEF plan
<1> HIDE DEF s
<1>9. OneKey(s)
  BY <1>6, <1>7 DEF OneKey
<1> QED BY <1>3, <1>4, <1>8, <1>9, OthersNote

LEMMA ReopenNotes ==
  ASSUME Inv, Recorded, "crash" \notin Faults, NEW w \in Windows, Reopen(w)
  PROVE  Recorded'
<1>1. window[w].at = "idle" /\ Set(w, Opened) /\ UNCHANGED Globals
      /\ lock' = IF lock = w THEN Nobody ELSE lock
  BY DEF Reopen, Globals
<1>2. lock # w
  BY <1>1, OwnFacts DEF Outside
<1>3. OneKey(Opened)
  BY Blank DEF OneKey, Opened, NoPlan
<1> QED BY <1>1, <1>2, <1>3, OthersNote

LEMMA InitRecorded == Init => Recorded
<1> SUFFICES ASSUME Init PROVE Recorded
  OBVIOUS
<1>1. keyring = {} /\ ~timer /\ lock = Nobody /\ \A w \in Windows : window[w] = Opened
  BY DEF Init
<1>2. OneKey(Opened)
  BY Blank DEF OneKey, Opened, NoPlan
<1> QED BY <1>1, <1>2, SetupAssumption DEF Recorded, OnRecord

LEMMA NextRecorded == JournalIsKept /\ Inv /\ Recorded /\ [Next]_vars => Recorded'
<1> SUFFICES ASSUME JournalIsKept, Inv, Recorded, [Next]_vars PROVE Recorded'
  OBVIOUS
<1> USE DEF JournalIsKept
<1>1. ASSUME NEW w \in Windows,
             Step(w) \/ Review(w) \/ Enable(w) \/ Disconnect(w) \/ Reopen(w)
      PROVE  Recorded'
  <2>1. CASE Applying(w)
    BY <2>1, PutNotes, CommitNotes, CompensateNotes, RetireNotes, ReconcileNotes, LaterNotes
       DEF Applying
  <2>2. CASE Leaving(w)
    BY <2>2, WaitingNotes, BeginsNote, UnregisterNotes, DetachNotes, EraseTimerNotes,
       EraseKeysNotes DEF Leaving
  <2> QED BY <1>1, <2>1, <2>2, SaveNotes, FinishNotes, ReviewNotes, EnableNotes, WaitingNotes,
             ReopenNotes DEF Step
<1>2. CASE UNCHANGED vars
  BY <1>2 DEF vars, Recorded, Noted, OneKey
<1> QED BY <1>1, <1>2 DEF Next

\* Between transactions the journal lists every key that Setup wrote and the timer
\* that it installed, whatever the keyring, the engine, the client's adapter and
\* systemctl refused: a later disconnection or erasure can find them.
THEOREM CreatedStaysOnRecord == JournalIsKept => (Spec => []CreatedIsOnRecord)
<1> SUFFICES ASSUME JournalIsKept PROVE Spec => []CreatedIsOnRecord
  OBVIOUS
<1>1. Inv /\ Recorded /\ [Next]_vars => (Inv /\ Recorded)'
  BY NextInv, NextRecorded
<1>2. Init => Inv /\ Recorded
  BY InitInv, InitRecorded
<1>3. Inv /\ Recorded => CreatedIsOnRecord
  BY DEF Recorded, OnRecord, CreatedIsOnRecord
<1> QED BY <1>1, <1>2, <1>3, PTL DEF Spec

-----------------------------------------------------------------------------
(***************************************************************************)
(* The committed configuration.  A second window can write back a          *)
(* configuration that the first has replaced, keys and all; a commit whose *)
(* directory cannot be synced is compensated although it was made; and an  *)
(* erasure that dies has deleted keys of a file that is still there.       *)
(***************************************************************************)
\* One window, no disk error, and no erasure cut short by a crash.
KeysAreKept ==
  /\ \E w : Windows = {w}
  /\ "disk" \notin Faults
  /\ MayErase => "crash" \notin Faults

\* What the only window knows of the committed configuration: a disconnection
\* writes back the one that is there, and only a user who may erase gets to
\* where keys that are still referred to are deleted.
Committed(s, cf, kr) ==
  /\ s.at = "erase keys" \/ KeysOf(cf) \subseteq kr
  /\ Point(s) # "compensate"
  /\ s.at \in {"disconnect", "unregister", "detach"} => KeysOf(s.read) = KeysOf(cf)
  /\ s.at \in {"reread", "erase", "erase timer", "erase keys"} \/ s.wipe => MayErase

Kept == \A w \in Windows : Committed(window[w], config, keyring)

LEMMA OneWindow ==
  ASSUME Inv, KeysAreKept, NEW w \in Windows, NEW s, Set(w, s), Committed(s, config', keyring')
  PROVE  Kept'
<1>1. window' = [window EXCEPT ![w] = s] /\ window \in [Windows -> WindowState]
  BY DEF Set, Inv, TypeOK
<1>2. window'[w] = s /\ \A v \in Windows : v = w
  BY <1>1 DEF KeysAreKept
<1> QED BY <1>2 DEF Kept

\* A step that keeps every committed key, to a point other than those of a
\* disconnection or an erasure.
LEMMA PlainStep ==
  ASSUME Inv, KeysAreKept, NEW w \in Windows, NEW s, Set(w, s), KeysOf(config') \subseteq keyring',
         Point(s) # "compensate", s.wipe => MayErase,
         s.at \notin {"disconnect", "unregister", "detach", "reread", "erase", "erase timer",
                      "erase keys"}
  PROVE  Kept'
<1>1. Committed(s, config', keyring')
  BY DEF Committed
<1> QED BY <1>1, OneWindow

LEMMA KeptFacts ==
  ASSUME Inv, Kept, NEW w \in Windows
  PROVE  /\ Committed(window[w], config, keyring)
         /\ window[w].at # "erase keys" => KeysOf(config) \subseteq keyring
         /\ window[w].wipe => MayErase
         /\ Point(window[w]) # "compensate" /\ window[w].at # "compensate"
BY DEF Kept, Committed, Point

LEMMA SavingHeld ==
  ASSUME Inv, KeysAreKept, Kept, NEW w \in Windows, NEW jm \in Journal,
         NEW next \in {"commit", "retire", "timer", "probe", "register", "done"},
         NEW s, Set(w, s), s.at = "save", s.next = next, s.wipe = window[w].wipe,
         KeysOf(config') \subseteq keyring'
  PROVE  Kept'
<1>1. Point(s) # "compensate" /\ s.wipe => MayErase
  BY KeptFacts DEF Point
<1> QED BY <1>1, PlainStep, KeptFacts DEF Point

LEMMA SavingWipe ==
  ASSUME Inv, NEW w \in Windows, NEW jm \in Journal, NEW next \in Points
  PROVE  LET s == Saving(w, jm, next)
         IN  s \in WindowState /\ s.wipe = window[w].wipe /\ s.at = "save" /\ s.next = next
BY OwnFacts DEF Saving, WindowState, Points

LEMMA FailingHeld ==
  ASSUME Inv, KeysAreKept, Kept, NEW w \in Windows, NEW phase \in Phases,
         Set(w, Failing(w, phase)), KeysOf(config') \subseteq keyring'
  PROVE  Kept'
<1> DEFINE jm == Record(window[w].jm, phase, "failed")
           base == Saving(w, jm, "done")
           s == [base EXCEPT !.outcome = "failed"]
<1>1. jm \in Journal
  BY OwnFacts, RecordTyped
<1>2. Set(w, s)
  BY DEF Failing
<1> HIDE DEF jm
<1>3. base \in WindowState /\ base.wipe = window[w].wipe /\ base.at = "save" /\ base.next = "done"
  BY <1>1, SavingWipe DEF Points
<1> HIDE DEF base
<1>4. s.wipe = window[w].wipe /\ s.at = "save" /\ s.next = "done"
  BY <1>3 DEF WindowState
<1> HIDE DEF s
<1> QED BY <1>1, <1>2, <1>4, SavingHeld

LEMMA SavesHeld ==
  ASSUME Inv, KeysAreKept, Kept, NEW w \in Windows, NEW jm \in Journal,
         NEW next \in {"commit", "retire", "timer", "probe", "register", "done"},
         Set(w, Saving(w, jm, next)), KeysOf(config') \subseteq keyring'
  PROVE  Kept'
<1> DEFINE s == Saving(w, jm, next)
<1>1. next \in Points
  BY DEF Points, ApplyPoints
<1>2. s.wipe = window[w].wipe /\ s.at = "save" /\ s.next = next
  BY <1>1, SavingWipe
<1> HIDE DEF s
<1> QED BY <1>2, SavingHeld DEF s

\* The call ends: no locals.
LEMMA RaiseHeld ==
  ASSUME Inv, KeysAreKept, Kept, NEW w \in Windows,
         NEW outcome \in {"none", "running", "complete", "failed", "raised"},
         Set(w, Returned(w, outcome)), KeysOf(config') \subseteq keyring'
  PROVE  Kept'
<1> DEFINE s == Returned(w, outcome)
<1>1. s.at = "idle" /\ s.wipe = FALSE
  BY DEF Returned, Opened
<1> HIDE DEF s
<1> QED BY <1>1, PlainStep DEF s, Point

LEMMA ApplyHeld ==
  ASSUME Inv, KeysAreKept, Kept, NEW w \in Windows, Put(w) \/ Commit(w) \/ Reconcile(w)
  PROVE  Kept'
<1> DEFINE o == window[w]
           all == KeysOf(o.plan.config)
<1>1. lock = w /\ Point(o) = o.at /\ KeysOf(config) \subseteq keyring /\ "disk" \notin Faults
      /\ o.at \in {"put", "commit", "timer"}
  <2>1. lock = w /\ o.at \in {"put", "commit", "timer"}
    BY DEF Put, Commit, Reconcile, Holds
  <2> QED BY <2>1, KeptFacts DEF Point, KeysAreKept
<1>2. CASE Put(w)
  <2>1. KeysOf(config') \subseteq keyring'
    BY <1>1, <1>2 DEF Put
  <2>2. CASE Set(w, Failing(w, "credentials"))
    BY <2>1, <2>2, FailingHeld DEF Phases
  <2>3. ASSUME NEW k \in o.todo, Set(w, [o EXCEPT !.todo = o.todo \ {k}])
        PROVE  Kept'
    <3> DEFINE s == [o EXCEPT !.todo = o.todo \ {k}]
    <3>1. s.at = o.at /\ s.wipe = o.wipe
      BY OwnFacts DEF WindowState
    <3> HIDE DEF s
    <3>2. Set(w, s)
      BY <2>3 DEF s
    <3> QED BY <1>1, <2>1, <3>1, <3>2, KeptFacts, PlainStep DEF Point
  <2>4. ASSUME LET jm == [o.jm EXCEPT !.keys = @ \union all]
               IN  Set(w, [Saving(w, Record(jm, "credentials", "applied"), "commit")
                             EXCEPT !.todo = {}, !.written = all])
        PROVE  Kept'
    <3> DEFINE jm == [o.jm EXCEPT !.keys = @ \union all]
               rec == Record(jm, "credentials", "applied")
               base == Saving(w, rec, "commit")
               s == [base EXCEPT !.todo = {}, !.written = all]
    <3>1. jm \in Journal
      BY OwnFacts DEF Journal
    <3> HIDE DEF jm
    <3>2. rec \in Journal
      BY <3>1, RecordTyped DEF Phases
    <3>3. Set(w, s)
      BY <2>4 DEF jm
    <3> HIDE DEF rec
    <3>4. base \in WindowState /\ base.at = "save" /\ base.next = "commit" /\ base.wipe = o.wipe
      BY <3>2, SavingWipe DEF Points, ApplyPoints
    <3> HIDE DEF base
    <3>5. s.at = "save" /\ s.next = "commit" /\ s.wipe = o.wipe
      BY <3>4 DEF WindowState
    <3> HIDE DEF s
    <3> QED BY <2>1, <3>2, <3>3, <3>5, SavingHeld
  <2> QED BY <1>2, <2>2, <2>3, <2>4 DEF Put
<1>3. CASE Commit(w)
  <2> DEFINE jm == [o.jm EXCEPT !.things = @ \union {"config"}]
             rec == Record(jm, "config", "applied")
  <2>1. Set(w, Saving(w, rec, "retire")) /\ config' = o.plan.config /\ keyring' = keyring
        /\ o.at = "commit"
    BY <1>1, <1>3 DEF Commit, Holds
  <2>2. KeysOf(config') \subseteq keyring'
    BY <1>1, <2>1, OwnFacts DEF Progress, Sound, ApplyPoints
  <2>3. jm \in Journal
    BY OwnFacts DEF Journal
  <2> HIDE DEF jm
  <2>4. rec \in Journal
    BY <2>3, RecordTyped DEF Phases
  <2> HIDE DEF rec
  <2> QED BY <2>1, <2>2, <2>4, SavesHeld
<1>4. CASE Reconcile(w)
  <2>1. KeysOf(config') \subseteq keyring' /\ o.jm \in Journal
    BY <1>1, <1>4, OwnFacts DEF Reconcile
  <2>2. CASE Set(w, Failing(w, "cleanup_timer"))
    BY <2>1, <2>2, FailingHeld DEF Phases
  <2>3. CASE Set(w, [o EXCEPT !.at = "probe"])
    <3> DEFINE s == [o EXCEPT !.at = "probe"]
    <3>1. s.at = "probe" /\ s.wipe = o.wipe
      BY OwnFacts DEF WindowState
    <3> HIDE DEF s
    <3> QED BY <2>1, <2>3, <3>1, KeptFacts, PlainStep DEF Point, s
  <2>4. CASE Set(w, Saving(w, Record(Own(o.jm, "timer"), "cleanup_timer", "applied"), "probe"))
    <3>1. Record(Own(o.jm, "timer"), "cleanup_timer", "applied") \in Journal
      BY <2>1, ThingsTyped, RecordTyped DEF Phases
    <3> QED BY <2>1, <2>4, <3>1, SavesHeld
  <2>5. CASE Set(w, Saving(w, Record(Release(o.jm, "timer"), "cleanup_timer", "applied"),
                           "probe"))
    <3>1. Record(Release(o.jm, "timer"), "cleanup_timer", "applied") \in Journal
      BY <2>1, ThingsTyped, RecordTyped DEF Phases
    <3> QED BY <2>1, <2>5, <3>1, SavesHeld
  <2>6. CASE Set(w, Saving(w, Record(o.jm, "cleanup_timer", "failed"), "probe"))
    <3>1. Record(o.jm, "cleanup_timer", "failed") \in Journal
      BY <2>1, RecordTyped DEF Phases
    <3> QED BY <2>1, <2>6, <3>1, SavesHeld
  <2> QED BY <1>1, <1>4, <2>2, <2>3, <2>4, <2>5, <2>6 DEF Reconcile
<1> QED BY <1>2, <1>3, <1>4

\* The keys that are deleted are those the committed configuration replaced.
LEMMA RetireHeld ==
  ASSUME Inv, KeysAreKept, Kept, NEW w \in Windows, Retire(w)
  PROVE  Kept'
<1> DEFINE o == window[w]
<1>1. /\ lock = w /\ o.at = "retire" /\ Point(o) = "retire" /\ UNCHANGED config
      /\ KeysOf(config) \subseteq keyring
  BY KeptFacts DEF Retire, Holds, Point
<1>2. o.todo \intersect KeysOf(config) = {}
  BY <1>1, OwnFacts DEF Progress, Sound, ApplyPoints
<1>3. KeysOf(config') \subseteq keyring'
  BY <1>1, <1>2 DEF Retire, DeleteKey
<1>4. ASSUME NEW s, Set(w, s), s.at \in {"retire", "timer"}, s.wipe = o.wipe
      PROVE  Kept'
  BY <1>3, <1>4, KeptFacts, PlainStep DEF Point
<1>5. CASE Set(w, Saving(w, o.jm, "timer"))
  BY <1>3, <1>5, OwnFacts, SavesHeld
<1>6. CASE Set(w, [o EXCEPT !.at = "timer"])
  <2> DEFINE s == [o EXCEPT !.at = "timer"]
  <2>1. s.at = "timer" /\ s.wipe = o.wipe
    BY OwnFacts DEF WindowState
  <2> HIDE DEF s
  <2> QED BY <1>4, <1>6, <2>1 DEF s
<1>7. ASSUME NEW k \in o.todo, DeleteKey(w, k, o.jm, Pending(o.jm, k))
      PROVE  Kept'
  <2> DEFINE S(jm) == [o EXCEPT !.todo = @ \ {k}, !.jm = jm]
  <2>1. \A jm : S(jm).at = o.at /\ S(jm).wipe = o.wipe
    BY OwnFacts DEF WindowState
  <2>2. Set(w, S(o.jm)) \/ Set(w, S(Pending(o.jm, k)))
    BY <1>7 DEF DeleteKey
  <2> HIDE DEF S
  <2> QED BY <1>1, <1>4, <2>1, <2>2
<1> QED BY <1>5, <1>6, <1>7 DEF Retire

LEMMA LaterHeld ==
  ASSUME Inv, KeysAreKept, Kept, NEW w \in Windows, Probe(w) \/ Register(w) \/ Readback(w)
  PROVE  Kept'
<1> DEFINE o == window[w]
<1>1. KeysOf(config') \subseteq keyring' /\ o.jm \in Journal
  <2>1. o.at \in {"probe", "register", "readback"} /\ UNCHANGED <<config, keyring>>
    BY DEF Probe, Register, Readback, Holds
  <2> QED BY <2>1, KeptFacts, OwnFacts
<1>2. CASE Raise(w)
  BY <1>1, <1>2, RaiseHeld DEF Raise
<1>3. ASSUME NEW phase \in Phases, Set(w, Failing(w, phase))
      PROVE  Kept'
  BY <1>1, <1>3, FailingHeld
<1>4. CASE Probe(w)
  <2> DEFINE rec == Record(o.jm, "engine", "applied")
             next == IF o.plan.config.client THEN "register" ELSE "done"
             base == Saving(w, rec, next)
             s == [base EXCEPT !.probed = config]
  <2>1. rec \in Journal /\ next \in {"register", "done"}
    BY <1>1, RecordTyped DEF Phases
  <2> HIDE DEF rec, next
  <2>2. base \in WindowState /\ base.at = "save" /\ base.next = next /\ base.wipe = o.wipe
    BY <2>1, SavingWipe DEF Points, ApplyPoints
  <2> HIDE DEF base
  <2>3. s.at = "save" /\ s.next = next /\ s.wipe = o.wipe
    BY <2>2 DEF WindowState
  <2>4. Set(w, s) \/ Set(w, Failing(w, "engine")) \/ Raise(w)
    BY <1>4 DEF Probe, base, rec, next
  <2> HIDE DEF s
  <2>5. CASE Set(w, s)
    BY <1>1, <2>1, <2>3, <2>5, SavingHeld
  <2> QED BY <1>2, <1>3, <2>4, <2>5 DEF Phases
<1>5. CASE Register(w)
  <2> DEFINE rec == Record(o.jm, "client", "intended")
             s == [o EXCEPT !.at = "readback", !.jm = rec]
  <2>1. Set(w, s) \/ Set(w, Failing(w, "client"))
    BY <1>5, OwnFacts DEF Register, WindowState
  <2>2. s.at = "readback" /\ s.wipe = o.wipe
    BY OwnFacts DEF WindowState
  <2> HIDE DEF s
  <2>3. CASE Set(w, s)
    BY <1>1, <2>2, <2>3, KeptFacts, PlainStep DEF Point
  <2> QED BY <1>3, <2>1, <2>3 DEF Phases
<1>6. CASE Readback(w)
  <2> DEFINE rec == Record(Own(o.jm, "client"), "client", "applied")
  <2>1. rec \in Journal
    BY <1>1, ThingsTyped, RecordTyped DEF Phases
  <2>2. Set(w, Saving(w, rec, "done")) \/ Raise(w)
    BY <1>6 DEF Readback
  <2> HIDE DEF rec
  <2> QED BY <1>1, <1>2, <2>1, <2>2, SavesHeld
<1> QED BY <1>4, <1>5, <1>6

LEMMA EndsHeld ==
  ASSUME Inv, KeysAreKept, Kept, NEW w \in Windows, Save(w) \/ Finish(w)
  PROVE  Kept'
<1> DEFINE o == window[w]
<1>1. KeysOf(config') \subseteq keyring' /\ o.at \in {"save", "done"} /\ lock = w
  <2>1. o.at \in {"save", "done"} /\ UNCHANGED <<config, keyring>> /\ lock = w
    BY DEF Save, Finish, Holds
  <2> QED BY <2>1, KeptFacts
<1>2. CASE Save(w)
  <2> DEFINE t == IF o.next = "retire" THEN o.plan.retired ELSE o.todo
             s == [o EXCEPT !.at = o.next, !.todo = t]
  <2>1. Set(w, s) /\ o.at = "save"
    BY <1>2, OwnFacts DEF Save, Holds, KeysAreKept, WindowState
  <2> HIDE DEF t
  <2>2. s.at = o.next /\ s.wipe = o.wipe
    BY OwnFacts DEF WindowState
  <2> HIDE DEF s
  <2> QED BY <1>1, <2>1, <2>2, OwnFacts, KeptFacts, PlainStep DEF Point, Sound
<1>3. CASE Finish(w)
  <2> DEFINE t == IF o.outcome = "running" THEN "complete" ELSE "failed"
             base == Returned(w, t)
             at == IF o.wipe THEN "reread" ELSE "idle"
             s == [base EXCEPT !.at = at]
  <2>1. Set(w, s)
    BY <1>3 DEF Finish
  <2>2. base.wipe = FALSE /\ s.at = at /\ s.wipe = base.wipe
    BY DEF Returned, Opened
  <2> HIDE DEF s, base
  <2>3. Committed(s, config', keyring')
    BY <1>1, <2>2, KeptFacts DEF Committed, Point
  <2> QED BY <2>1, <2>3, OneWindow
<1> QED BY <1>2, <1>3

\* Between reading the configuration and writing it back, no one replaces it.
LEMMA DisconnectHeld ==
  ASSUME Inv, KeysAreKept, Kept, NEW w \in Windows,
         Disconnect(w) \/ GiveUp(w) \/ BeginDisconnect(w) \/ Unregister(w) \/ Detach(w)
  PROVE  Kept'
<1> DEFINE o == window[w]
<1>1. KeysOf(config) \subseteq keyring /\ UNCHANGED keyring
  <2>1. o.at # "erase keys" /\ UNCHANGED keyring
    BY DEF Disconnect, GiveUp, BeginDisconnect, Unregister, Detach, Holds
  <2> QED BY <2>1, KeptFacts
<1>2. ASSUME NEW s, Set(w, s), s.at \in {"disconnect", "unregister", "detach"},
             KeysOf(s.read) = KeysOf(config'), s.wipe => MayErase, KeysOf(config') \subseteq keyring'
      PROVE  Kept'
  <2>1. Committed(s, config', keyring')
    BY <1>2 DEF Committed, Point
  <2> QED BY <1>2, <2>1, OneWindow
<1>3. CASE Disconnect(w)
  <2>1. PICK wipe \in {FALSE, MayErase} :
          /\ UNCHANGED config
          /\ Set(w, [o EXCEPT !.at = "disconnect", !.read = config, !.wipe = wipe,
                              !.outcome = "none"])
    BY <1>3 DEF Disconnect
  <2> DEFINE s == [o EXCEPT !.at = "disconnect", !.read = config, !.wipe = wipe,
                            !.outcome = "none"]
  <2>2. s.at = "disconnect" /\ s.read = config /\ s.wipe = wipe
    BY OwnFacts DEF WindowState
  <2>3. wipe => MayErase
    OBVIOUS
  <2>4. KeysOf(config') = KeysOf(config)
    BY <2>1
  <2>5. Set(w, s)
    BY <2>1
  <2> HIDE DEF s
  <2> QED BY <1>1, <1>2, <2>2, <2>3, <2>4, <2>5
<1>4. CASE GiveUp(w)
  BY <1>1, <1>4, RaiseHeld DEF GiveUp
<1>5. CASE BeginDisconnect(w)
  <2> DEFINE jm == Record(journal, "disconnect", "applied")
             S(at) == Called(w, at, jm)
  <2>1. (\E at \in {"unregister", "detach"} : Set(w, S(at))) /\ UNCHANGED config
        /\ o.at = "disconnect"
    BY <1>5 DEF BeginDisconnect
  <2> HIDE DEF jm
  <2>2. \A at : S(at).at = at /\ S(at).read = o.read /\ S(at).wipe = o.wipe
    BY OwnFacts DEF Called, WindowState
  <2> HIDE DEF S
  <2>3. KeysOf(o.read) = KeysOf(config) /\ (o.wipe => MayErase)
    BY <2>1, KeptFacts DEF Committed
  <2> QED BY <1>1, <1>2, <2>1, <2>2, <2>3
<1>6. CASE Unregister(w)
  <2>1. CASE Set(w, Failing(w, "disconnect"))
    BY <1>1, <1>6, <2>1, FailingHeld DEF Unregister, Phases
  <2>2. ASSUME NEW jm, Set(w, [o EXCEPT !.at = "detach", !.jm = jm])
        PROVE  Kept'
    <3> DEFINE s == [o EXCEPT !.at = "detach", !.jm = jm]
    <3>1. s.at = "detach" /\ s.read = o.read /\ s.wipe = o.wipe
      BY OwnFacts DEF WindowState
    <3> HIDE DEF s
    <3>2. KeysOf(o.read) = KeysOf(config) /\ (o.wipe => MayErase) /\ UNCHANGED config
      BY <1>6, KeptFacts DEF Unregister, Holds, Committed
    <3> QED BY <1>1, <1>2, <2>2, <3>1, <3>2 DEF s
  <2>3. \/ Set(w, Failing(w, "disconnect"))
        \/ Set(w, [o EXCEPT !.at = "detach", !.jm = Release(o.jm, "client")])
        \/ Set(w, [o EXCEPT !.at = "detach", !.jm = Record(o.jm, "disconnect", "failed")])
    BY <1>6, OwnFacts DEF Unregister, WindowState
  <2> QED BY <2>1, <2>2, <2>3
<1>7. CASE Detach(w)
  <2>1. /\ config' = [o.read EXCEPT !.client = FALSE] /\ o.at = "detach"
        /\ Set(w, Saving(w, o.jm, "done"))
    BY <1>7 DEF Detach, KeysAreKept, Holds
  <2>2. config'.keys = o.read.keys
    BY <2>1, OwnFacts DEF Config
  <2>3. KeysOf(config') = KeysOf(o.read)
    BY <2>2 DEF KeysOf
  <2>4. KeysOf(o.read) = KeysOf(config)
    BY <2>1, KeptFacts DEF Committed
  <2> QED BY <1>1, <2>1, <2>3, <2>4, OwnFacts, SavesHeld
<1> QED BY <1>3, <1>4, <1>5, <1>6, <1>7

\* Keys go while their erasure holds the lock, and the file goes with them.
LEMMA EraseHeld ==
  ASSUME Inv, KeysAreKept, Kept, NEW w \in Windows,
         Reread(w) \/ BeginErase(w) \/ EraseTimer(w) \/ EraseKeys(w)
  PROVE  Kept'
<1> DEFINE o == window[w]
<1>1. MayErase /\ o.at \in {"reread", "erase", "erase timer", "erase keys"}
  <2>1. o.at \in {"reread", "erase", "erase timer", "erase keys"}
    BY DEF Reread, BeginErase, EraseTimer, EraseKeys, Holds
  <2> QED BY <2>1, KeptFacts DEF Committed
<1>2. ASSUME NEW s, Set(w, s), s.at \in {"idle", "erase", "erase timer", "erase keys"},
             s.at = "erase keys" \/ KeysOf(config') \subseteq keyring'
      PROVE  Kept'
  <2>1. Committed(s, config', keyring')
    BY <1>1, <1>2 DEF Committed, Point
  <2> QED BY <1>2, <2>1, OneWindow
<1>3. CASE Reread(w)
  <2> DEFINE a == [o EXCEPT !.at = "erase", !.read = config, !.wipe = FALSE]
             b == [o EXCEPT !.at = "idle", !.wipe = FALSE]
  <2>1. (Set(w, a) \/ Set(w, b)) /\ UNCHANGED <<config, keyring>> /\ o.at = "reread"
    BY <1>3 DEF Reread
  <2>2. a.at = "erase" /\ b.at = "idle"
    BY OwnFacts DEF WindowState
  <2> HIDE DEF a, b
  <2> QED BY <1>2, <2>1, <2>2, KeptFacts
<1>4. CASE BeginErase(w)
  <2> DEFINE s == [Called(w, "erase timer", Record(journal, "erase", "applied"))
                     EXCEPT !.todo = KeysOf(o.read)]
  <2>1. Set(w, s) /\ UNCHANGED <<config, keyring>> /\ o.at = "erase"
    BY <1>4 DEF BeginErase
  <2>2. s.at = "erase timer"
    BY OwnFacts DEF Called, WindowState
  <2> HIDE DEF s
  <2> QED BY <1>2, <2>1, <2>2, KeptFacts
<1>5. CASE EraseTimer(w)
  <2> DEFINE S(jm) == [o EXCEPT !.at = "erase keys", !.jm = jm]
  <2>1. \E jm : Set(w, S(jm))
    BY <1>5 DEF EraseTimer, KeysAreKept
  <2>2. \A jm : S(jm).at = "erase keys"
    BY OwnFacts DEF WindowState
  <2> HIDE DEF S
  <2> QED BY <1>2, <2>1, <2>2
<1>6. CASE EraseKeys(w)
  <2>1. CASE config' = NoConfig /\ Set(w, Saving(w, Release(o.jm, "config"), "done"))
    <3>1. Release(o.jm, "config") \in Journal /\ KeysOf(config') \subseteq keyring'
      BY <2>1, OwnFacts, ThingsTyped, Blank
    <3> QED BY <2>1, <3>1, SavesHeld
  <2>2. ASSUME NEW k \in o.todo, NEW jm, Set(w, [o EXCEPT !.todo = @ \ {k}, !.jm = jm])
        PROVE  Kept'
    <3> DEFINE s == [o EXCEPT !.todo = @ \ {k}, !.jm = jm]
    <3>1. s.at = o.at
      BY OwnFacts DEF WindowState
    <3>2. o.at = "erase keys"
      BY <1>6 DEF EraseKeys, Holds
    <3> HIDE DEF s
    <3> QED BY <1>2, <2>2, <3>1, <3>2 DEF s
  <2>3. \/ config' = NoConfig /\ Set(w, Saving(w, Release(o.jm, "config"), "done"))
        \/ \E k \in o.todo : DeleteKey(w, k, o.jm, Record(o.jm, "erase", "failed"))
    BY <1>6 DEF EraseKeys, KeysAreKept
  <2> QED BY <2>1, <2>2, <2>3 DEF DeleteKey
<1> QED BY <1>3, <1>4, <1>5, <1>6

\* A window that is opened, or plans, starts with no locals; so does a call.
LEMMA OpensHeld ==
  ASSUME Inv, KeysAreKept, Kept, NEW w \in Windows, Review(w) \/ Enable(w) \/ Reopen(w)
  PROVE  Kept'
<1> DEFINE o == window[w]
<1>1. UNCHANGED <<config, keyring>>
  BY DEF Review, Enable, Reopen
<1>2. KeysOf(config) \subseteq keyring
  <2>1. o.at = "idle" \/ "crash" \in Faults
    BY DEF Review, Enable, Reopen
  <2>2. o.at # "erase keys"
    BY <2>1, KeptFacts DEF Committed, KeysAreKept
  <2> QED BY <2>2, KeptFacts
<1>3. CASE Review(w)
  <2>1. PICK plan : Set(w, [Opened EXCEPT !.plan = plan])
    BY <1>3 DEF Review
  <2> DEFINE s == [Opened EXCEPT !.plan = plan]
  <2>2. s.at = "idle" /\ s.wipe = FALSE
    BY DEF Opened
  <2> HIDE DEF s
  <2> QED BY <1>1, <1>2, <2>1, <2>2, PlainStep DEF Point, s
<1>4. CASE Enable(w)
  <2> DEFINE base == Called(w, "put", Record(journal, "credentials", "intended"))
             s == [base EXCEPT !.todo = KeysOf(o.plan.config)]
  <2>1. Set(w, s)
    BY <1>4 DEF Enable
  <2>2. s.at = "put" /\ s.wipe = o.wipe
    BY OwnFacts DEF Called, WindowState
  <2> HIDE DEF s
  <2> QED BY <1>1, <1>2, <2>1, <2>2, KeptFacts, PlainStep DEF Point
<1>5. CASE Reopen(w)
  <2>1. Opened.at = "idle" /\ Opened.wipe = FALSE
    BY DEF Opened
  <2> QED BY <1>1, <1>2, <1>5, <2>1, PlainStep DEF Point, Reopen
<1> QED BY <1>3, <1>4, <1>5

LEMMA InitKept == Init => Kept
<1>1. KeysOf(NoConfig) \subseteq {}
  BY Blank
<1>2. Opened.at = "idle" /\ Opened.wipe = FALSE
  BY DEF Opened
<1>3. Committed(Opened, NoConfig, {})
  BY <1>1, <1>2 DEF Committed, Point
<1>4. Init => config = NoConfig /\ keyring = {} /\ \A w \in Windows : window[w] = Opened
  BY DEF Init
<1> QED BY <1>3, <1>4 DEF Kept

LEMMA NextKept == KeysAreKept /\ Inv /\ Kept /\ [Next]_vars => Kept'
<1> SUFFICES ASSUME KeysAreKept, Inv, Kept, [Next]_vars PROVE Kept'
  OBVIOUS
<1>1. ASSUME NEW w \in Windows,
             Step(w) \/ Review(w) \/ Enable(w) \/ Disconnect(w) \/ Reopen(w)
      PROVE  Kept'
  <2>1. CASE Applying(w)
    <3>1. ~Compensate(w)
      BY KeptFacts DEF Compensate, Holds
    <3> QED BY <2>1, <3>1, ApplyHeld, RetireHeld, LaterHeld DEF Applying
  <2>2. CASE Leaving(w)
    BY <2>2, DisconnectHeld, EraseHeld DEF Leaving
  <2> QED BY <1>1, <2>1, <2>2, EndsHeld, OpensHeld, DisconnectHeld DEF Step
<1>2. CASE UNCHANGED vars
  BY <1>2 DEF vars, Kept, Committed
<1> QED BY <1>1, <1>2 DEF Next

\* Under those conditions the keyring has every key the committed configuration
\* refers to, wherever Setup dies and whatever else fails, until they are erased.
THEOREM CommittedKeysStay == KeysAreKept => (Spec => []CommittedKeysExist)
<1> SUFFICES ASSUME KeysAreKept PROVE Spec => []CommittedKeysExist
  OBVIOUS
<1>1. Inv /\ Kept /\ [Next]_vars => (Inv /\ Kept)'
  BY NextInv, NextKept
<1>2. Init => Inv /\ Kept
  BY InitInv, InitKept
<1>3. Inv /\ Kept => CommittedKeysExist
  <2> SUFFICES ASSUME Inv, Kept PROVE CommittedKeysExist
    OBVIOUS
  <2>1. PICK w : w \in Windows
    BY DEF KeysAreKept
  <2> QED BY <2>1, KeptFacts, OwnFacts DEF CommittedKeysExist, Erasing, Outside
<1> QED BY <1>1, <1>2, <1>3, PTL DEF Spec

-----------------------------------------------------------------------------
(***************************************************************************)
(* How a working configuration can lose a key, whatever fails and whoever  *)
(* else is at work.  What a compensation deletes is what its own plan      *)
(* wrote; what a retirement deletes, its own plan replaced.                *)
(***************************************************************************)
\* The keys a task remembers to have written are those of its plan.
OwnKeys(s) ==
  /\ s.written \subseteq KeysOf(s.plan.config)
  /\ s.at = "compensate" => s.todo \subseteq KeysOf(s.plan.config)

Compensable == \A w \in Windows : OwnKeys(window[w])

\* A task in state s goes on as t: it forgets what it wrote, or remembers it, and
\* what it compensates is that.
Remembers(s, t) ==
  /\ t.plan = s.plan
  /\ t.written \in {s.written, {}}
  /\ t.at = "compensate" => t.todo = s.written \/ (s.at = "compensate" /\ t.todo \subseteq s.todo)

LEMMA OwnKeysSet ==
  ASSUME Inv, Compensable, NEW w \in Windows, NEW s, Set(w, s), OwnKeys(s)
  PROVE  Compensable'
BY DEF Set, Inv, TypeOK, Compensable

LEMMA RemembersOwn ==
  ASSUME Inv, Compensable, NEW w \in Windows, NEW s, Set(w, s), Remembers(window[w], s)
  PROVE  Compensable'
<1>1. OwnKeys(s)
  BY DEF Compensable, OwnKeys, Remembers
<1> QED BY <1>1, OwnKeysSet

LEMMA SavingRemembers ==
  ASSUME NEW w, window[w] \in WindowState, NEW jm, NEW next
  PROVE  /\ Remembers(window[w], Saving(w, jm, next))
         /\ \A v : Remembers(window[w], [Saving(w, jm, next) EXCEPT !.outcome = v])
         /\ \A v : Remembers(window[w], [Saving(w, jm, next) EXCEPT !.probed = v])
BY DEF Remembers, Saving, WindowState

LEMMA ReturnedRemembers ==
  ASSUME NEW w, window[w] \in WindowState, NEW outcome
  PROVE  /\ Remembers(window[w], Returned(w, outcome))
         /\ \A at \in {"idle", "reread"} :
              Remembers(window[w], [Returned(w, outcome) EXCEPT !.at = at])
BY DEF Remembers, Returned, Opened, WindowState

LEMMA ApplyOwns ==
  ASSUME Inv, Compensable, NEW w \in Windows, Applying(w)
  PROVE  Compensable'
<1> DEFINE o == window[w]
<1>1. o \in WindowState
  BY OwnFacts
<1>2. CASE Put(w)
  <2> DEFINE all == KeysOf(o.plan.config)
  <2>1. ASSUME NEW k \in o.todo, Set(w, [o EXCEPT !.todo = o.todo \ {k}])
        PROVE  Compensable'
    <3>1. o.at = "put"
      BY <1>2 DEF Put, Holds
    <3>2. Remembers(o, [o EXCEPT !.todo = o.todo \ {k}])
      BY <1>1, <3>1 DEF Remembers, WindowState
    <3> QED BY <2>1, <3>2, RemembersOwn
  <2>2. ASSUME NEW jm, Set(w, [Saving(w, jm, "commit") EXCEPT !.todo = {}, !.written = all])
        PROVE  Compensable'
    <3>1. OwnKeys([Saving(w, jm, "commit") EXCEPT !.todo = {}, !.written = all])
      BY <1>1 DEF OwnKeys, Saving, WindowState
    <3> QED BY <2>2, <3>1, OwnKeysSet
  <2>3. CASE Set(w, Failing(w, "credentials"))
    BY <1>1, <2>3, SavingRemembers, RemembersOwn DEF Failing
  <2> QED BY <1>2, <2>1, <2>2, <2>3 DEF Put
<1>3. CASE Commit(w)
  <2>1. ASSUME NEW jm, Set(w, Saving(w, jm, "retire"))
        PROVE  Compensable'
    BY <1>1, <2>1, SavingRemembers, RemembersOwn
  <2>2. CASE Set(w, [o EXCEPT !.at = "compensate", !.todo = o.written,
                       !.jm = Record(@, "config", "failed")])
    <3>1. Remembers(o, [o EXCEPT !.at = "compensate", !.todo = o.written,
                          !.jm = Record(@, "config", "failed")])
      BY <1>1 DEF Remembers, WindowState
    <3> QED BY <2>2, <3>1, RemembersOwn
  <2> QED BY <1>3, <2>1, <2>2 DEF Commit
<1>4. ASSUME NEW k, NEW jm, Set(w, [o EXCEPT !.todo = @ \ {k}, !.jm = jm])
      PROVE  Compensable'
  <2>1. Remembers(o, [o EXCEPT !.todo = @ \ {k}, !.jm = jm])
    BY <1>1 DEF Remembers, WindowState
  <2> QED BY <1>4, <2>1, RemembersOwn
<1>5. CASE Compensate(w)
  <2>1. CASE Set(w, [Saving(w, o.jm, "done") EXCEPT !.outcome = "failed"])
    BY <1>1, <2>1, SavingRemembers, RemembersOwn
  <2> QED BY <1>4, <1>5, <2>1 DEF Compensate, DeleteKey
<1>6. ASSUME NEW at \in {"timer", "probe"}, Set(w, [o EXCEPT !.at = at])
      PROVE  Compensable'
  <2>1. Remembers(o, [o EXCEPT !.at = at])
    BY <1>1, <1>6 DEF Remembers, WindowState
  <2> QED BY <1>6, <2>1, RemembersOwn
<1>7. CASE Retire(w)
  <2>1. CASE Set(w, Saving(w, o.jm, "timer"))
    BY <1>1, <2>1, SavingRemembers, RemembersOwn
  <2> QED BY <1>4, <1>6, <1>7, <2>1 DEF Retire, DeleteKey
<1>8. CASE Raise(w)
  BY <1>1, <1>8, ReturnedRemembers, RemembersOwn DEF Raise
<1>9. CASE Reconcile(w)
  <2>1. ASSUME NEW jm, Set(w, Saving(w, jm, "probe"))
        PROVE  Compensable'
    BY <1>1, <2>1, SavingRemembers, RemembersOwn
  <2>2. CASE Set(w, Failing(w, "cleanup_timer"))
    BY <1>1, <2>2, SavingRemembers, RemembersOwn DEF Failing
  <2> QED BY <1>6, <1>8, <1>9, <2>1, <2>2 DEF Reconcile
<1>10. CASE Probe(w)
  <2>1. ASSUME NEW jm, NEW next, Set(w, [Saving(w, jm, next) EXCEPT !.probed = config])
        PROVE  Compensable'
    BY <1>1, <2>1, SavingRemembers, RemembersOwn
  <2>2. CASE Set(w, Failing(w, "engine"))
    BY <1>1, <2>2, SavingRemembers, RemembersOwn DEF Failing
  <2> QED BY <1>8, <1>10, <2>1, <2>2 DEF Probe
<1>11. CASE Register(w)
  <2>1. CASE Set(w, Failing(w, "client"))
    BY <1>1, <2>1, SavingRemembers, RemembersOwn DEF Failing
  <2>2. CASE Set(w, [o EXCEPT !.at = "readback", !.jm = Record(@, "client", "intended")])
    <3>1. Remembers(o, [o EXCEPT !.at = "readback", !.jm = Record(@, "client", "intended")])
      BY <1>1 DEF Remembers, WindowState
    <3> QED BY <2>2, <3>1, RemembersOwn
  <2> QED BY <1>11, <2>1, <2>2 DEF Register
<1>12. CASE Readback(w)
  <2>1. ASSUME NEW jm, Set(w, Saving(w, jm, "done"))
        PROVE  Compensable'
    BY <1>1, <2>1, SavingRemembers, RemembersOwn
  <2> QED BY <1>8, <1>12, <2>1 DEF Readback
<1> QED BY <1>2, <1>3, <1>5, <1>7, <1>9, <1>10, <1>11, <1>12 DEF Applying

LEMMA LeaveOwns ==
  ASSUME Inv, Compensable, NEW w \in Windows, Leaving(w)
  PROVE  Compensable'
<1> DEFINE o == window[w]
<1>1. o \in WindowState
  BY OwnFacts
<1>2. ASSUME NEW at, at # "compensate", NEW s, Set(w, s), s.plan = o.plan,
             s.written = o.written, s.at = at
      PROVE  Compensable'
  <2>1. Remembers(o, s)
    BY <1>2 DEF Remembers
  <2> QED BY <1>2, <2>1, RemembersOwn
<1>3. CASE Raise(w) \/ Set(w, Returned(w, "raised"))
  BY <1>1, <1>3, ReturnedRemembers, RemembersOwn DEF Raise
<1>4. ASSUME NEW jm, NEW next, Set(w, Saving(w, jm, next))
      PROVE  Compensable'
  BY <1>1, <1>4, SavingRemembers, RemembersOwn
<1>5. CASE Reread(w) \/ BeginDisconnect(w) \/ BeginErase(w)
  <2>1. CASE Set(w, [o EXCEPT !.at = "erase", !.read = config, !.wipe = FALSE])
    BY <1>1, <1>2, <2>1 DEF WindowState
  <2>2. CASE Set(w, [o EXCEPT !.at = "idle", !.wipe = FALSE])
    BY <1>1, <1>2, <2>2 DEF WindowState
  <2>3. ASSUME NEW at \in {"unregister", "detach"}, NEW jm, Set(w, Called(w, at, jm))
        PROVE  Compensable'
    BY <1>1, <1>2, <2>3 DEF WindowState, Called
  <2>4. ASSUME NEW jm, NEW todo, Set(w, [Called(w, "erase timer", jm) EXCEPT !.todo = todo])
        PROVE  Compensable'
    BY <1>1, <1>2, <2>4 DEF WindowState, Called
  <2>5. CASE Reread(w)
    BY <2>1, <2>2, <2>5 DEF Reread
  <2>6. CASE BeginDisconnect(w)
    BY <2>3, <2>6 DEF BeginDisconnect
  <2>7. CASE BeginErase(w)
    BY <2>4, <2>7 DEF BeginErase
  <2> QED BY <1>5, <2>5, <2>6, <2>7
<1>6. CASE GiveUp(w)
  BY <1>3, <1>6 DEF GiveUp
<1>7. CASE Unregister(w)
  <2>1. ASSUME NEW jm, Set(w, [o EXCEPT !.at = "detach", !.jm = jm])
        PROVE  Compensable'
    BY <1>1, <1>2, <2>1 DEF WindowState
  <2>2. CASE Set(w, [o EXCEPT !.at = "detach", !.jm = Release(@, "client")])
    BY <1>1, <1>2, <2>2 DEF WindowState
  <2>3. CASE Set(w, [o EXCEPT !.at = "detach", !.jm = Record(@, "disconnect", "failed")])
    BY <1>1, <1>2, <2>3 DEF WindowState
  <2>4. CASE Set(w, Failing(w, "disconnect"))
    BY <1>1, <2>4, SavingRemembers, RemembersOwn DEF Failing
  <2> QED BY <1>7, <2>2, <2>3, <2>4 DEF Unregister
<1>8. CASE Detach(w)
  BY <1>3, <1>4, <1>8 DEF Detach
<1>9. CASE EraseTimer(w)
  <2>1. ASSUME NEW jm, Set(w, [o EXCEPT !.at = "erase keys", !.jm = jm])
        PROVE  Compensable'
    BY <1>1, <1>2, <2>1 DEF WindowState
  <2> QED BY <1>3, <1>9, <2>1 DEF EraseTimer
<1>10. CASE EraseKeys(w)
  <2>1. ASSUME NEW k, NEW jm, Set(w, [o EXCEPT !.todo = @ \ {k}, !.jm = jm])
        PROVE  Compensable'
    <3>1. Remembers(o, [o EXCEPT !.todo = @ \ {k}, !.jm = jm])
      BY <1>1 DEF Remembers, WindowState
    <3> QED BY <2>1, <3>1, RemembersOwn
  <2> QED BY <1>3, <1>4, <1>10, <2>1 DEF EraseKeys, DeleteKey
<1> QED BY <1>5, <1>6, <1>7, <1>8, <1>9, <1>10 DEF Leaving

LEMMA NextOwns == Inv /\ Compensable /\ [Next]_vars => Compensable'
<1> SUFFICES ASSUME Inv, Compensable, [Next]_vars PROVE Compensable'
  OBVIOUS
<1>1. ASSUME NEW w \in Windows,
             Step(w) \/ Review(w) \/ Enable(w) \/ Disconnect(w) \/ Reopen(w)
      PROVE  Compensable'
  <2> DEFINE o == window[w]
  <2>1. o \in WindowState
    BY OwnFacts
  <2>2. CASE Save(w)
    <3>1. ASSUME NEW todo, Set(w, [o EXCEPT !.at = o.next, !.todo = todo]), o.next # "compensate"
          PROVE  Compensable'
      <4>1. Remembers(o, [o EXCEPT !.at = o.next, !.todo = todo])
        BY <2>1, <3>1 DEF Remembers, WindowState
      <4> QED BY <3>1, <4>1, RemembersOwn
    <3>2. CASE Set(w, [o EXCEPT !.at = "compensate", !.todo = o.written,
                         !.jm = Record(@, "config", "failed")])
      <4>1. Remembers(o, [o EXCEPT !.at = "compensate", !.todo = o.written,
                            !.jm = Record(@, "config", "failed")])
        BY <2>1 DEF Remembers, WindowState
      <4> QED BY <3>2, <4>1, RemembersOwn
    <3>3. CASE Raise(w)
      BY <2>1, <3>3, ReturnedRemembers, RemembersOwn DEF Raise
    <3>4. o.next # "compensate"
      BY <2>2, OwnFacts DEF Sound, Save, Holds
    <3> QED BY <2>2, <3>1, <3>2, <3>3, <3>4 DEF Save
  <2>3. CASE Finish(w)
    <3>1. \E v, at : at \in {"idle", "reread"} /\ Set(w, [Returned(w, v) EXCEPT !.at = at])
      BY <2>3 DEF Finish
    <3> QED BY <2>1, <3>1, ReturnedRemembers, RemembersOwn
  <2>4. CASE Review(w)
    <3>1. PICK plan : Set(w, [Opened EXCEPT !.plan = plan])
      BY <2>4 DEF Review
    <3>2. OwnKeys([Opened EXCEPT !.plan = plan])
      BY DEF OwnKeys, Opened
    <3> QED BY <3>1, <3>2, OwnKeysSet
  <2>5. CASE Enable(w)
    <3>1. PICK jm, todo : Set(w, [Called(w, "put", jm) EXCEPT !.todo = todo])
      BY <2>5 DEF Enable
    <3>2. Remembers(o, [Called(w, "put", jm) EXCEPT !.todo = todo])
      BY <2>1 DEF Remembers, Called, WindowState
    <3> QED BY <3>1, <3>2, RemembersOwn
  <2>6. CASE Disconnect(w)
    <3>1. PICK wipe : Set(w, [o EXCEPT !.at = "disconnect", !.read = config, !.wipe = wipe,
                                !.outcome = "none"])
      BY <2>6 DEF Disconnect
    <3>2. Remembers(o, [o EXCEPT !.at = "disconnect", !.read = config, !.wipe = wipe,
                          !.outcome = "none"])
      BY <2>1 DEF Remembers, WindowState
    <3> QED BY <3>1, <3>2, RemembersOwn
  <2>7. CASE Reopen(w)
    <3>1. OwnKeys(Opened)
      BY DEF OwnKeys, Opened
    <3> QED BY <2>7, <3>1, OwnKeysSet DEF Reopen
  <2> QED BY <1>1, <2>2, <2>3, <2>4, <2>5, <2>6, <2>7, ApplyOwns, LeaveOwns DEF Step
<1>2. CASE UNCHANGED vars
  BY <1>2 DEF vars, Compensable
<1> QED BY <1>1, <1>2 DEF Next

Keyed(cf, kr) == KeysOf(cf) \subseteq kr

\* Of the steps that change the configuration or delete a key, those of a commit
\* and of a retirement leave it all its keys.
LEMMA LosesKnowingly ==
  ASSUME Inv, Compensable, [Next]_vars, Keyed(config, keyring), ~Keyed(config', keyring')
  PROVE  \E w \in Windows :
           \/ Holds(w, "erase keys")
           \/ Holds(w, "detach") /\ window[w].read # config
           \/ /\ Holds(w, "compensate")
              /\ KeysOf(config) \intersect KeysOf(window[w].plan.config) # {}
<1>1. ~(config' = config /\ keyring \subseteq keyring')
  BY DEF Keyed
<1>2. PICK w \in Windows :
        Commit(w) \/ Compensate(w) \/ Retire(w) \/ Detach(w) \/ EraseKeys(w)
  BY <1>1 DEF Next, vars, Step, Applying, Leaving, Put, Save, Reconcile, Probe, Register, Readback,
     Finish, Review, Enable, Disconnect, Reopen, Reread, GiveUp, BeginDisconnect, Unregister,
     BeginErase, EraseTimer
<1> DEFINE o == window[w]
<1>3. CASE Commit(w)
  <2>1. keyring' = keyring /\ config' = o.plan.config /\ lock = w /\ o.at = "commit"
    BY <1>1, <1>3 DEF Commit, Holds
  <2>2. KeysOf(o.plan.config) \subseteq keyring
    BY <2>1, OwnFacts DEF Progress, Sound, Point, ApplyPoints
  <2> QED BY <2>1, <2>2 DEF Keyed
<1>4. CASE Compensate(w)
  <2>1. PICK k \in o.todo : keyring' = keyring \ {k}
    BY <1>1, <1>4 DEF Compensate, DeleteKey
  <2>2. Holds(w, "compensate") /\ config' = config
    BY <1>4 DEF Compensate
  <2>3. k \in KeysOf(o.plan.config)
    BY <2>1, <2>2 DEF Compensable, OwnKeys, Holds
  <2>4. k \in KeysOf(config)
    BY <2>1, <2>2 DEF Keyed
  <2> QED BY <2>2, <2>3, <2>4
<1>5. CASE Retire(w)
  <2>1. PICK k \in o.todo : keyring' = keyring \ {k}
    BY <1>1, <1>5 DEF Retire, DeleteKey
  <2>2. lock = w /\ o.at = "retire" /\ config' = config
    BY <1>5 DEF Retire, Holds
  <2>3. config = o.plan.config /\ k \in o.plan.retired
    BY <2>1, <2>2, OwnFacts DEF Progress, Sound, Point, ApplyPoints
  <2>4. k \notin KeysOf(config)
    BY <2>3, OwnFacts DEF Sound
  <2> QED BY <2>1, <2>2, <2>4 DEF Keyed
<1>6. CASE Detach(w)
  <2>1. Holds(w, "detach") /\ keyring' = keyring
    BY <1>6 DEF Detach
  <2>2. CASE o.read = config
    <3>1. KeysOf(config') = KeysOf(config)
      BY <1>1, <1>6, <2>1, <2>2, OwnFacts DEF Detach, KeysOf, Config
    <3> QED BY <2>1, <3>1 DEF Keyed
  <2> QED BY <2>1, <2>2
<1>7. CASE EraseKeys(w)
  BY <1>7 DEF EraseKeys
<1> QED BY <1>2, <1>3, <1>4, <1>5, <1>6, <1>7

\* SetupService under any faults, with any number of windows: a configuration that
\* has its keys only loses one to an erasure, to a disconnection that read another
\* configuration, or to a compensation that deletes keys it already refers to.
THEOREM KeysLostKnowingly == Spec => WorkingKeysSurvive
<1>1. Init => Compensable
  BY DEF Init, Compensable, OwnKeys, Opened
<1>2. Inv /\ Compensable /\ [Next]_vars => (Inv /\ Compensable)'
  BY NextInv, NextOwns
<1>3. Inv /\ Compensable /\ [Next]_vars =>
        [KeysOf(config) \subseteq keyring /\ ~(KeysOf(config)' \subseteq keyring') =>
           \E w \in Windows :
             \/ Holds(w, "erase keys")
             \/ Holds(w, "detach") /\ window[w].read # config
             \/ /\ Holds(w, "compensate")
                /\ KeysOf(config) \intersect KeysOf(window[w].plan.config) # {}]_vars
  <2>1. KeysOf(config)' = KeysOf(config')
    BY DEF KeysOf
  <2> QED BY <2>1, LosesKnowingly DEF Keyed
<1> QED BY <1>1, <1>2, <1>3, InitInv, PTL DEF Spec, WorkingKeysSurvive
=============================================================================

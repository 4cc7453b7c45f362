-------------------------- MODULE SetupTransaction --------------------------
(***************************************************************************)
(* The setup transaction of the desktop assistant: SetupService.plan,      *)
(* apply, disconnect and erase over the managed configuration, the         *)
(* recovery journal, the session keyring, the cleanup timer and a client's *)
(* registration, none of which share a transaction manager.                *)
(*                                                                         *)
(* A window is one task of Setup's worker pool.  A step ends where a task  *)
(* has changed something another process, or a restart, can see.           *)
(***************************************************************************)
EXTENDS Naturals, FiniteSets

CONSTANTS
  Windows,      \* concurrent Setup tasks
  Providers,    \* providers the form offers
  Keys,         \* keyring items Setup can create: new_credential_ref
  Intents,      \* what a user may ask for
  Faults,       \* what may go wrong, of FaultKinds
  MayErase,     \* whether the user ever erases the saved setup
  Nobody, NoKey

FaultKinds == {"keyring", "disk", "engine", "client", "timer", "crash"}

ASSUME SetupAssumption ==
  /\ Intents \subseteq [providers: (SUBSET Providers) \ {{}}, client: BOOLEAN, relay: BOOLEAN]
  /\ Faults \subseteq FaultKinds
  /\ MayErase \in BOOLEAN
  /\ Nobody \notin Windows
  /\ NoKey \notin Keys

VARIABLES
  lock,         \* holder of the installation lock
  config,       \* the managed configuration file
  journal,      \* the recovery journal file
  keyring,      \* keys in the session keyring
  timer,        \* the cleanup timer's unit is installed: CleanupTimer.installed
  client,       \* the client's store holds our registration
  window        \* [Windows -> WindowState]: a task's position and locals

vars == <<lock, config, journal, keyring, timer, client, window>>

Config == [present: BOOLEAN, keys: [Providers -> Keys \union {NoKey}],
           client: BOOLEAN, relay: BOOLEAN]

NoConfig == [present |-> FALSE, keys |-> [p \in Providers |-> NoKey],
             client |-> FALSE, relay |-> FALSE]

Phases == {"credentials", "config", "cleanup_timer", "engine", "client",
           "disconnect", "erase"}

\* Only a phase's latest record matters: it is what `incomplete` reads.
Journal == [keys: SUBSET Keys, things: SUBSET {"config", "timer", "client"},
            pending: SUBSET Keys,
            phase: [Phases -> {"none", "intended", "applied", "failed"}]]

NoJournal == [keys |-> {}, things |-> {}, pending |-> {},
              phase |-> [f \in Phases |-> "none"]]

\* `registers`: the reviewed registration has an action, because the client had
\* no entry of ours when it was planned.
Plan == [config: Config, retired: SUBSET Keys, registers: BOOLEAN]
NoPlan == [config |-> NoConfig, retired |-> {}, registers |-> FALSE]

ApplyPoints == {"put", "commit", "compensate", "retire", "timer", "probe",
                "register", "readback"}
LifecyclePoints == {"detach", "unregister", "erase timer", "erase keys"}
Points == ApplyPoints \union LifecyclePoints
            \union {"idle", "disconnect", "reread", "erase", "save", "done"}

\* `jm` is the journal in memory; `next` where to go once it is saved.
WindowState ==
  [at: Points, next: Points, plan: Plan, jm: Journal, todo: SUBSET Keys,
   written: SUBSET Keys, read: Config, wipe: BOOLEAN, probed: Config,
   outcome: {"none", "running", "complete", "failed", "raised"}]

Opened == [at |-> "idle", next |-> "idle", plan |-> NoPlan, jm |-> NoJournal,
           todo |-> {}, written |-> {}, read |-> NoConfig, wipe |-> FALSE,
           probed |-> NoConfig, outcome |-> "none"]

KeysOf(c) == {c.keys[p] : p \in Providers} \ {NoKey}

Init ==
  /\ lock = Nobody
  /\ config = NoConfig
  /\ journal = NoJournal
  /\ keyring = {}
  /\ timer = FALSE
  /\ client = FALSE
  /\ window = [w \in Windows |-> Opened]

-----------------------------------------------------------------------------
(***************************************************************************)
(* What the steps share.                                                   *)
(***************************************************************************)
Holds(w, point) == lock = w /\ window[w].at = point

\* Mutant of Record: a status that no reader of the journal knows.
RecordDone(jm, phase, state) ==
  [jm EXCEPT !.phase[phase] = IF state = "applied" THEN "done" ELSE state]

Record(jm, phase, state) == [jm EXCEPT !.phase[phase] = state]

\* Mutant of Saving: the journal as it was loaded is the one saved.
SavingLoaded(w, jm, next) == [window[w] EXCEPT !.at = "save", !.next = next]

\* save_journal is a step of its own, after which the task goes on at `next`.
Saving(w, jm, next) == [window[w] EXCEPT !.at = "save", !.jm = jm, !.next = next]

\* Mutant of Failing: the failure is not part of the outcome.
FailingQuietly(w, phase) == Saving(w, Record(window[w].jm, phase, "failed"), "done")

\* A failure is recorded, and ends the transaction once the journal is saved.
Failing(w, phase) ==
  [Saving(w, Record(window[w].jm, phase, "failed"), "done") EXCEPT !.outcome = "failed"]

Set(w, state) == window' = [window EXCEPT ![w] = state]

\* A call has ended: its locals are gone, the reviewed plan is kept.
Returned(w, outcome) ==
  [Opened EXCEPT !.plan = window[w].plan, !.outcome = outcome]

\* Mutant of Raise: the lock is released on the ordinary way out only.
RaiseHolding(w) == UNCHANGED lock /\ Set(w, Returned(w, "raised"))

\* An exception that apply does not handle: the lock is released on the way
\* out, and the journal in memory is lost.
Raise(w) ==
  /\ lock' = Nobody
  /\ Set(w, Returned(w, "raised"))

Called(w, at, jm) ==
  [window[w] EXCEPT !.at = at, !.jm = jm, !.outcome = "running"]

Acquire(w) == lock = Nobody /\ lock' = w

-----------------------------------------------------------------------------
(***************************************************************************)
(* Planning: state is read without the lock, and nothing is written.  The  *)
(* form asks for a key for every provider it configures, and the           *)
(* configuration it produces holds those providers and no other.           *)
(***************************************************************************)
\* A new name is random: one that no file, keyring or other window knows.
Named(w) ==
  UNION ({keyring, journal.keys, journal.pending, KeysOf(config)}
         \union {KeysOf(window[v].plan.config) \union window[v].plan.retired
                   \union KeysOf(window[v].read) : v \in Windows \ {w}})

\* The reviewed changes for intent i, its keys under the names `fresh`.
Planned(i, fresh) ==
  [config |-> [present |-> TRUE, client |-> i.client, relay |-> i.relay,
               keys |-> [p \in Providers |-> IF p \in i.providers THEN fresh[p] ELSE NoKey]],
   retired |-> {config.keys[p] : p \in i.providers} \ {NoKey},
   registers |-> i.client /\ ~client]

Review(w) ==
  \E i \in Intents : \E fresh \in [i.providers -> Keys \ Named(w)] :
    /\ window[w].at = "idle"
    /\ \A p, q \in i.providers : fresh[p] = fresh[q] => p = q
    /\ Set(w, [Opened EXCEPT !.plan = Planned(i, fresh)])
    /\ UNCHANGED <<lock, config, journal, keyring, timer, client>>

\* Mutant of Enable: the configuration is committed before its keys.
EnableUnwritten(w) ==
  /\ window[w].at = "idle" /\ window[w].plan.config.present
  /\ Acquire(w)
  /\ Set(w, Called(w, "commit", journal))
  /\ UNCHANGED <<config, journal, keyring, timer, client>>

\* Enable connection, or Repair: the reviewed plan is applied, maybe again.
Enable(w) ==
  /\ window[w].at = "idle" /\ window[w].plan.config.present
  /\ Acquire(w)
  /\ Set(w, [Called(w, "put", Record(journal, "credentials", "intended"))
               EXCEPT !.todo = KeysOf(window[w].plan.config)])
  /\ UNCHANGED <<config, journal, keyring, timer, client>>

\* A key is written.  `written` is assigned when all of them are: after a
\* failure among several, the caller compensates none.
Put(w) ==
  /\ Holds(w, "put")
  /\ \/ \E k \in window[w].todo :
          LET rest == window[w].todo \ {k}
              all == KeysOf(window[w].plan.config)
              jm == [window[w].jm EXCEPT !.keys = @ \union all]
          IN  /\ keyring' = keyring \union {k}
              /\ Set(w, IF rest # {} THEN [window[w] EXCEPT !.todo = rest]
                        ELSE [Saving(w, Record(jm, "credentials", "applied"), "commit")
                                EXCEPT !.todo = {}, !.written = all])
     \/ /\ "keyring" \in Faults
        /\ Set(w, Failing(w, "credentials"))
        /\ UNCHANGED keyring
  /\ UNCHANGED <<lock, config, journal, timer, client>>

\* save_journal replaces the file, or fails before or after doing so.  A
\* failure is handled in the config phase alone.
Save(w) ==
  /\ Holds(w, "save")
  /\ \/ /\ journal' = window[w].jm
        /\ Set(w, [window[w] EXCEPT !.at = window[w].next,
                     !.todo = IF window[w].next = "retire" THEN window[w].plan.retired
                              ELSE @])
        /\ UNCHANGED lock
     \/ /\ "disk" \in Faults
        /\ journal' \in {journal, window[w].jm}
        /\ IF window[w].next = "retire"
           THEN /\ Set(w, [window[w] EXCEPT !.at = "compensate", !.todo = window[w].written,
                             !.jm = Record(@, "config", "failed")])
                /\ UNCHANGED lock
           ELSE Raise(w)
  /\ UNCHANGED <<config, keyring, timer, client>>

\* The new configuration is committed.  Replacing the file and syncing its
\* directory are two operations: the exception may come after the commit.
Commit(w) ==
  LET jm == [window[w].jm EXCEPT !.things = @ \union {"config"}]
      new == window[w].plan.config
  IN  /\ Holds(w, "commit")
      /\ \/ /\ config' = new
            /\ Set(w, Saving(w, Record(jm, "config", "applied"), "retire"))
         \/ /\ "disk" \in Faults
            /\ config' \in {config, new}
            /\ Set(w, [window[w] EXCEPT !.at = "compensate", !.todo = window[w].written,
                         !.jm = Record(@, "config", "failed")])
      /\ UNCHANGED <<lock, journal, keyring, timer, client>>

\* A key of the list is deleted, or deleting it fails; what the journal in
\* memory says then is `deleted` or `kept`.
DeleteKey(w, k, deleted, kept) ==
  \/ /\ keyring' = keyring \ {k}
     /\ Set(w, [window[w] EXCEPT !.todo = @ \ {k}, !.jm = deleted])
  \/ /\ "keyring" \in Faults
     /\ Set(w, [window[w] EXCEPT !.todo = @ \ {k}, !.jm = kept])
     /\ UNCHANGED keyring

Pending(jm, k) == [jm EXCEPT !.pending = @ \union {k}]
Disown(jm, k) == [jm EXCEPT !.keys = @ \ {k}]

Compensate(w) ==
  /\ Holds(w, "compensate")
  /\ \/ \E k \in window[w].todo :
          DeleteKey(w, k, Disown(window[w].jm, k), Pending(window[w].jm, k))
     \/ /\ window[w].todo = {}
        /\ Set(w, [Saving(w, window[w].jm, "done") EXCEPT !.outcome = "failed"])
        /\ UNCHANGED keyring
  /\ UNCHANGED <<lock, config, journal, timer, client>>

\* The keys the new configuration replaced.  The journal is saved if there
\* were any; they stay listed as owned.
Retire(w) ==
  /\ Holds(w, "retire")
  /\ \/ \E k \in window[w].todo :
          DeleteKey(w, k, window[w].jm, Pending(window[w].jm, k))
     \/ /\ window[w].todo = {}
        /\ Set(w, IF window[w].plan.retired # {} THEN Saving(w, window[w].jm, "timer")
                  ELSE [window[w] EXCEPT !.at = "timer"])
        /\ UNCHANGED keyring
  /\ UNCHANGED <<lock, config, journal, timer, client>>

Own(jm, thing) == [jm EXCEPT !.things = @ \union {thing}]
Release(jm, thing) == [jm EXCEPT !.things = @ \ {thing}]

\* _reconcile_cleanup_timer.  Installing writes the units and asks systemd to
\* start the timer, whose answer nobody looks at; an error of the file system is
\* not caught.  Removing deletes the units; when systemctl cannot disable the
\* timer it stays owned and the run goes on.
Reconcile(w) ==
  LET jm == window[w].jm
      owned == "timer" \in jm.things
      wanted == window[w].plan.config.relay
      Continue(j) == Set(w, Saving(w, j, "probe"))
  IN  /\ Holds(w, "timer")
      /\ \/ /\ IF wanted THEN owned /\ timer ELSE ~owned
            /\ Set(w, [window[w] EXCEPT !.at = "probe"])
            /\ UNCHANGED <<lock, timer>>
         \/ /\ wanted /\ ~(owned /\ timer)
            /\ \/ /\ timer' = TRUE
                  /\ Continue(Record(Own(jm, "timer"), "cleanup_timer", "applied"))
               \/ /\ "timer" \in Faults
                  /\ Set(w, Failing(w, "cleanup_timer"))
                  /\ UNCHANGED timer
            /\ UNCHANGED lock
         \/ /\ ~wanted /\ owned
            /\ timer' = FALSE
            /\ \/ Continue(Record(Release(jm, "timer"), "cleanup_timer", "applied"))
               \/ /\ timer /\ "timer" \in Faults
                  /\ Continue(Record(jm, "cleanup_timer", "failed"))
            /\ UNCHANGED lock
         \/ /\ IF wanted THEN ~(owned /\ timer) ELSE owned /\ timer
            /\ "disk" \in Faults
            /\ timer' \in {timer, wanted}
            /\ Raise(w)
      /\ UNCHANGED <<config, journal, keyring, client>>

\* Mutant of Probe: the client is registered whatever the engine answers.
ProbeUnheeded(w) ==
  /\ Holds(w, "probe")
  /\ Set(w, Saving(w, window[w].jm, "register"))
  /\ UNCHANGED <<lock, config, journal, keyring, timer, client>>

\* The packaged engine is started under the committed configuration and asked
\* for its tools.  A missing executable raises; a bad answer is an outcome.
Probe(w) ==
  LET jm == Record(window[w].jm, "engine", "applied")
  IN  /\ Holds(w, "probe")
      /\ \/ /\ Set(w, [Saving(w, jm, IF window[w].plan.config.client THEN "register"
                                     ELSE "done") EXCEPT !.probed = config])
            /\ UNCHANGED lock
         \/ "engine" \in Faults /\ Set(w, Failing(w, "engine")) /\ UNCHANGED lock
         \/ "engine" \in Faults /\ Raise(w)
      /\ UNCHANGED <<config, journal, keyring, timer, client>>

\* The adapter applies the reviewed registration, which does nothing at all if
\* it had nothing to change when it was planned.
Register(w) ==
  /\ Holds(w, "register")
  /\ \/ /\ client' = (client \/ window[w].plan.registers)
        /\ Set(w, [window[w] EXCEPT !.at = "readback",
                     !.jm = Record(@, "client", "intended")])
     \/ /\ "client" \in Faults /\ window[w].plan.registers
        /\ Set(w, Failing(w, "client"))
        /\ UNCHANGED client
  /\ UNCHANGED <<lock, config, journal, keyring, timer>>

\* The registration becomes owned whether or not it is read back.
Readback(w) ==
  /\ Holds(w, "readback")
  /\ \/ /\ Set(w, Saving(w, Record(Own(window[w].jm, "client"), "client", "applied"), "done"))
        /\ UNCHANGED lock
     \/ "client" \in Faults /\ Raise(w)
  /\ UNCHANGED <<config, journal, keyring, timer, client>>

\* The call returns and the lock is released; a disconnection the user asked
\* to erase goes on with the erasure, whatever it came to.
Finish(w) ==
  /\ Holds(w, "done")
  /\ lock' = Nobody
  /\ Set(w, [Returned(w, IF window[w].outcome = "running" THEN "complete" ELSE "failed")
               EXCEPT !.at = IF window[w].wipe THEN "reread" ELSE "idle"])
  /\ UNCHANGED <<config, journal, keyring, timer, client>>

-----------------------------------------------------------------------------
(***************************************************************************)
(* Disconnect and erase.  Both read the configuration before they take the *)
(* lock.                                                                   *)
(***************************************************************************)
Disconnect(w) ==
  \E wipe \in {FALSE, MayErase} :
    /\ window[w].at = "idle" /\ config.present
    /\ Set(w, [window[w] EXCEPT !.at = "disconnect", !.read = config, !.wipe = wipe,
                 !.outcome = "none"])
    /\ UNCHANGED <<lock, config, journal, keyring, timer, client>>

\* After a disconnection: erase reads the configuration again.
Reread(w) ==
  /\ window[w].at = "reread"
  /\ Set(w, IF config.present
            THEN [window[w] EXCEPT !.at = "erase", !.read = config, !.wipe = FALSE]
            ELSE [window[w] EXCEPT !.at = "idle", !.wipe = FALSE])
  /\ UNCHANGED <<lock, config, journal, keyring, timer, client>>

\* The lock does not wait: CONFIG_LOCKED ends a disconnection or an erasure.
\* (Enable is merely disabled then; the user presses the button again.)
GiveUp(w) ==
  /\ window[w].at \in {"disconnect", "erase"}
  /\ lock # Nobody
  /\ Set(w, Returned(w, "raised"))
  /\ UNCHANGED <<lock, config, journal, keyring, timer, client>>

\* The registration is removed if the window knows its client's adapter, which
\* a window that has planned nothing does not, and the journal owns it.
BeginDisconnect(w) ==
  LET known == /\ window[w].read.client /\ window[w].plan.config.client
               /\ "client" \in journal.things
  IN  /\ window[w].at = "disconnect"
      /\ Acquire(w)
      /\ Set(w, Called(w, IF known THEN "unregister" ELSE "detach",
                       Record(journal, "disconnect", "applied")))
      /\ UNCHANGED <<config, journal, keyring, timer, client>>

\* The adapter removes the entry, finds none or cannot, or raises.
Unregister(w) ==
  /\ Holds(w, "unregister")
  /\ \/ /\ client' = FALSE
        /\ Set(w, [window[w] EXCEPT !.at = "detach", !.jm = Release(@, "client")])
     \/ /\ "client" \in Faults
        /\ \/ Set(w, [window[w] EXCEPT !.at = "detach",
                        !.jm = Record(@, "disconnect", "failed")])
           \/ Set(w, Failing(w, "disconnect"))
        /\ UNCHANGED client
  /\ UNCHANGED <<lock, config, journal, keyring, timer>>

\* The configuration that was read is written back without its client.
Detach(w) ==
  LET new == [window[w].read EXCEPT !.client = FALSE]
  IN  /\ Holds(w, "detach")
      /\ \/ /\ config' = new
            /\ Set(w, Saving(w, window[w].jm, "done"))
            /\ UNCHANGED lock
         \/ /\ "disk" \in Faults
            /\ config' \in {config, new}
            /\ Raise(w)
      /\ UNCHANGED <<journal, keyring, timer, client>>

BeginErase(w) ==
  /\ window[w].at = "erase"
  /\ Acquire(w)
  /\ Set(w, [Called(w, "erase timer", Record(journal, "erase", "applied"))
               EXCEPT !.todo = KeysOf(window[w].read)])
  /\ UNCHANGED <<config, journal, keyring, timer, client>>

\* The temporary audio was purged first; then an owned timer goes.
EraseTimer(w) ==
  LET owned == "timer" \in window[w].jm.things
      Continue(jm) == /\ Set(w, [window[w] EXCEPT !.at = "erase keys", !.jm = jm])
                      /\ timer' = (timer /\ ~owned)
                      /\ UNCHANGED lock
  IN  /\ Holds(w, "erase timer")
      /\ \/ Continue(Release(window[w].jm, "timer"))
         \/ owned /\ timer /\ "timer" \in Faults
              /\ Continue(Record(window[w].jm, "erase", "failed"))
         \/ owned /\ timer /\ "disk" \in Faults /\ timer' \in BOOLEAN /\ Raise(w)
      /\ UNCHANGED <<config, journal, keyring, client>>

\* Each key of the configuration that was read, then the file itself.  Keys
\* are owned under another name than the one erase disowns: they stay listed.
EraseKeys(w) ==
  /\ Holds(w, "erase keys")
  /\ \/ /\ \E k \in window[w].todo :
             DeleteKey(w, k, window[w].jm, Record(window[w].jm, "erase", "failed"))
        /\ UNCHANGED <<lock, config>>
     \/ /\ window[w].todo = {}
        /\ config' = NoConfig
        /\ Set(w, Saving(w, Release(window[w].jm, "config"), "done"))
        /\ UNCHANGED <<lock, keyring>>
     \/ /\ window[w].todo = {} /\ "disk" \in Faults
        /\ Raise(w)
        /\ UNCHANGED <<config, keyring>>
  /\ UNCHANGED <<journal, timer, client>>

-----------------------------------------------------------------------------
\* The window is closed and opened again, or its process dies: the operating
\* system releases the lock.
Reopen(w) ==
  /\ window[w].at = "idle" \/ "crash" \in Faults
  /\ window[w] # Opened
  /\ lock' = IF lock = w THEN Nobody ELSE lock
  /\ Set(w, Opened)
  /\ UNCHANGED <<config, journal, keyring, timer, client>>

Applying(w) == \/ Put(w) \/ Commit(w) \/ Compensate(w) \/ Retire(w) \/ Reconcile(w)
               \/ Probe(w) \/ Register(w) \/ Readback(w)

Leaving(w) == \/ Reread(w) \/ GiveUp(w) \/ BeginDisconnect(w) \/ Unregister(w)
              \/ Detach(w) \/ BeginErase(w) \/ EraseTimer(w) \/ EraseKeys(w)

Step(w) == Applying(w) \/ Leaving(w) \/ Save(w) \/ Finish(w)

Next == \E w \in Windows :
          Step(w) \/ Review(w) \/ Enable(w) \/ Disconnect(w) \/ Reopen(w)

Spec == Init /\ [][Next]_vars

\* A task that has started goes on: the calls it makes are bounded in time, those
\* to the session keyring excepted, whose answer is assumed.  Users owe nothing.
FairSpec == Spec /\ \A w \in Windows : WF_vars(Step(w))

-----------------------------------------------------------------------------
(***************************************************************************)
(* Properties.                                                             *)
(***************************************************************************)
TypeOK ==
  /\ lock \in Windows \union {Nobody}
  /\ config \in Config
  /\ journal \in Journal
  /\ keyring \subseteq Keys
  /\ timer \in BOOLEAN
  /\ client \in BOOLEAN
  /\ window \in [Windows -> WindowState]

Erasing == \E w \in Windows : lock = w /\ window[w].at = "erase keys"

\* A replacement is written to a new item and the reference moved at commit: as
\* long as one window is open, the file system works and no erasure dies, the
\* committed configuration refers to keys the keyring has, whichever key is
\* refused and whatever else fails.
CommittedKeysExist == Erasing \/ KeysOf(config) \subseteq keyring

\* The committed configuration can lose a key it had in four ways, whatever fails,
\* dies or runs beside it: the user erases; a disconnection that waited for the
\* lock writes back a configuration of before; or a transaction that could not
\* record its commit deletes the keys it wrote, although the file already refers
\* to them, or did before it began, because the plan was applied a second time.
WorkingKeysSurvive ==
  [][KeysOf(config) \subseteq keyring /\ ~(KeysOf(config)' \subseteq keyring') =>
       \E w \in Windows :
         \/ Holds(w, "erase keys")
         \/ Holds(w, "detach") /\ window[w].read # config
         \/ /\ Holds(w, "compensate")
            /\ KeysOf(config) \intersect KeysOf(window[w].plan.config) # {}]_vars

\* What Setup created is on record between transactions, as long as the file
\* system works and no window dies, whatever else failed: a key the keyring still
\* has as owned or as waiting to be deleted, an installed timer as owned, so that
\* both can be removed.
CreatedIsOnRecord ==
  lock = Nobody => /\ keyring \subseteq journal.keys \union journal.pending
                   /\ timer => "timer" \in journal.things

Completes(w) == /\ window[w].at = "done" /\ window[w].outcome = "running"
                /\ window'[w].outcome = "complete"

\* "Complete" is never reported of a setup that is not: the plan is the
\* configuration, its keys are stored and owned, the sweeper's timer is installed
\* if relaying is allowed (whether systemd runs it, Setup does not ask), the
\* engine answered under it, and a planned registration was made (a plan that found
\* the entry there makes none, even if it is gone by now).
CompleteIsTrue ==
  [][\A w \in Windows :
       Completes(w) /\ ~window[w].read.present =>
         LET plan == window[w].plan
         IN  /\ config = plan.config /\ window[w].probed = config
             /\ KeysOf(config) \subseteq keyring
             /\ KeysOf(config) \subseteq journal.keys
             /\ config.relay => timer /\ "timer" \in journal.things
             /\ config.client => "client" \in journal.things
             /\ plan.registers => client]_vars

\* A client is never pointed at an engine that has not answered under the
\* configuration it will be started with.
ClientMeetsEngine ==
  [][client' /\ ~client =>
       \E w \in Windows : lock = w /\ window[w].probed = config /\ config.present]_vars

\* Every transaction ends and frees the lock, whatever fails.
TransactionsEnd == \A w \in Windows : lock = w ~> lock = Nobody
=============================================================================

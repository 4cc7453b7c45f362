# OpenTranscribe: TLA+ models and proofs

OpenTranscribe is an MCP server that transcribes audio through third-party
providers. An engine process routes a request to a provider, relays or passes
on the audio, retries, falls back, and delivers the transcript inline or
through a store. A desktop assistant ("Setup") configures that engine, keeps
its keys in the session keyring and registers it with a client. This directory
holds TLA+ modules translated from the Python sources, the TLC configurations
that check them on small instances, and proofs that `tlapm` checks.

Paths below are relative to `src/src/open_transcribe/`; `PROJECT.json` names the
lines every definition stands for.

## 1. Inventory

| Component | State it keeps | Operations | What is hard | What makes it correct |
| --- | --- | --- | --- | --- |
| Router, policy (`routing/router.py`, `policy.py`) | none: a function of request, settings, catalogue | `route`, `resolve_capabilities` | five policies, explicit models, downgrades, restricted fallback | only authorized models; one determined first candidate; no capability dropped unreported |
| Service and retry loop (`service.py`, `providers/base.py`) | the coroutine of each call; attempts, failures | `transcribe` up to delivery | retries inside fallbacks, cancellation at every await | audience within the policy, order, honest history, termination |
| Source broker (`sources/resolver.py`) | the relayed copy of a call | `resolve`, download, clean-up | exceptions and cancellation between creation and hand-over | no copy without permission; none left behind |
| Temporary audio (`desktop/tempaudio.py`) | a directory of `<token>.audio` / `<token>.meta` pairs | `create_file`, `sweep`, `purge`, `release` | several processes and threads without a lock, crashes, reboots, PID reuse | live files survive; what nobody owns is removed in the end |
| Setup transaction (`desktop/setup.py`, `journal.py`, `store.py`, `credentials.py`, `cleanup_timer.py`) | configuration file, recovery journal, keyring items, timer, client entry; one file lock | `plan`, `apply`, `disconnect`, `erase` | no common transaction manager; any call may fail; Setup may die; two windows | committed references have keys; nothing created is forgotten; "complete" is true |
| Client adapters (`desktop/clients/`) | the clients' own configuration files; our fingerprint in the journal | `detect`, `plan`, `apply`, `readback`, `remove` | foreign entries, text surgery on TOML, edits between a review and its application, a takeover in two commands | only our entry is touched; ours is owned; a takeover was agreed to |
| Result stores (`result_store/`) | transcripts with a time to live; chunk cursors | `put`, `get_chunk`, `delete` | expiry on access, gaps between S3 calls, threads that outlive their request, chunk boundaries | no answer from a state the transcript was not in; pieces join to the text |
| Wizard (`desktop/gui/`) | pages, the form, tasks, the last intent and plan | button handlers, worker tasks and their queued events | results that arrive after a cancel or a page change | keys stay where they were typed; what is applied was shown; work gives the window back |
| Managed runtime and engine probe (`desktop/runtime.py`, `stdio.py`, `engine_probe.py`) | an engine process: the configuration it read, the keys it resolved | load, resolve, prepare, serve; probe with a deadline | configuration, keyring and lock change while it starts; two environments | only authorized keys; the probe ends and speaks of the real engine |
| Diagnostics (`desktop/diagnostics.py`) | none: a function of machine and saved setup | `run_diagnostics` | its rules are not the engine's code | no error means an engine that serves |
| Sample, HTTP authentication, redaction, logging, translations, packaging | none, or presentation | - | data conversions | - |

How they interact. The engine's `TranscriptionService` calls the router, then for
each candidate the broker and the provider adapter, and last the store. The
broker asks `tempaudio` for a file, whose directory is shared with other engine
processes, with each engine's sweeper thread (`desktop/stdio.py`), and with the
cleanup timer that Setup installs. Setup changes the configuration that engines
read when a client starts them, so an engine under way keeps the deployment it
was started with: this is why `deployment` never changes in `Transcription`, and what
`ManagedEngine` shows is which configuration and which keys that is.

`PROJECT.json` lists every component with its status, and under "hazards" each
thing in this code that is hard to test, at its line, with the properties that
would catch it.

## 2. Modules

| Module | Role |
| --- | --- |
| `Routing` | pure operators: candidates, errors, ranking, bound capabilities |
| `Disclosure` | abstract promise: how the audience of a request's audio may grow, and when it may be answered |
| `Transcription` | concurrent calls through routing, broker, retry loop, fallback and delivery; extends `Routing`; implements `Disclosure` |
| `TempAudio` | the temporary-audio directory, its claims, sweepers, engines and reboots |
| `SetupTransaction` | plan, apply, disconnect, erase over all of Setup's state |
| `Chunks` | pure operators: the pieces of a transcript and their cursors |
| `Retention` | abstract promise: which answers a temporary store may give |
| `ResultStore` | memory, S3 and disabled stores under concurrent requests; extends `Chunks`; implements `Retention` |
| `ClientAdapters` | the four kinds of adapter, with registration and disconnection around them, over a client's configuration |
| `Diagnostics` | pure operators: the checks, their severities, what blocks a first run |
| `Wizard` | pages, form, tasks and events of the setup window; extends `Diagnostics` |
| `ManagedEngine` | engines of clients and of the probe, the keyring and the doctor; extends `Diagnostics` |
| `RoutingProofs` | the order of candidates, authorization and strictness of a route, for every catalogue |
| `TranscriptionProofs` | all invariants of `Transcription` and the refinement of `Disclosure`; extends `RoutingProofs` |
| `TempAudioProofs`, `SetupTransactionProofs`, `ResultStoreProofs`, `ClientAdaptersProofs`, `WizardProofs`, `ManagedEngineProofs` | the inductive invariant of the module they are named after and the theorems from it; `ResultStoreProofs` also has the refinement of `Retention` |
| `MCTranscription`, `MCTempAudio`, `MCSetup`, `MCResultStore`, `MCClients`, `MCWizard`, `MCEngine` | instances for TLC |

### Routing

`Candidates(dep, req)` is the set of the list `Router.route` returns and
`Precedes` its order: sort keys are tuples that end in the position of
"provider/model", so they are distinct, and list and ordered set carry the same
information. `FirstListed`, `Explicit` and `Firsts` are sets of at most one
model, the head of a list that may be empty. `RouteError` is the sequence of the
function's `raise` statements. The constant `Descriptor` is the catalogue; a
deployment is the part of the settings and of the policy the service reads.
Strings, confidence values and the text of errors are left out.

### Transcription

`call[c]` is a coroutine: its position (`phase`), its locals, and what it came
to (`verdict`). One action is the code between two awaits, with everything it
changes: `Submit` is routing, the preflight limits and the loop's first
iteration; `Validate` the source check, the choice of delivery and the creation
of the copy; `Download`; `Send` a submission by the retry loop;
`TransientFailure`, `FinalFailure`, `Transcribed` its answers; `Close` the exit
of the broker's context, which removes the copy, with the `continue` of the
fallback loop; `Deliver` the duration check and the store; `Cancel` at any await.
`sends` counts submissions of a call's audio (or of its URL) per model.

### TempAudio

Every system call that another process can see is an action: creating the
audio file, creating the claim, writing it, opening for writing, unlinking, and
the two listings of a sweep with each file's inspection and removal. `stamp`
is PID and start ticks, unique only within a boot; the clock and the boot
identifier a sweep uses are those it read first. Threads of an engine are actors
whose `Host` is that engine. `release` has no production caller and is no action.

### SetupTransaction

A window is one task of Setup's worker pool. `Review` is `plan`; `Enable`
begins `apply`; then `Put`, `Save`, `Commit`, `Retire`, `Reconcile`, `Probe`,
`Register`, `Readback` and `Finish` follow the code's phases, and `Compensate`
is what a failed commit leads to. `Disconnect` and `Reread` read the
configuration before `BeginDisconnect` and `BeginErase` take the lock, as the code
does. `jm` is the journal in memory, `journal` the file. `Raise` is an exception
that `apply` does not handle. `Reopen` closes the window, or kills it at any step
when "crash" is among the faults. A plan keeps `registers`, whether the reviewed
registration had anything to do, because a stale plan is applied as it was reviewed.
`timer` says that the unit files are installed and enabled as far as Setup knows: it does
not look at what `systemctl enable --now` answers, so whether systemd runs the timer is
not part of the state. "disk" stands for every `OSError` of a write, those of the unit
files included, which `apply` does not catch. `Planned` has no counterpart of the
`role not in item.secrets` of `plan`: the form puts the one role it has into the secrets,
filled or empty (`desktop/gui/main_window.py:336`).

### Chunks and ResultStore

A transcript is its number of characters and the sizes of its segments; an item
stands by its position, so that a piece is a sequence of positions and joining
pieces can be compared with the whole. A request is a client's `call`. The memory
store is touched by the event loop alone and answers in one step; every call of the
S3 client runs in a thread and is one of `Upload`, `Fetch`, `Check`,
`DropExpired`, `DeleteObject`, each of which may fail. `Cancel` is a client that goes
away while the thread goes on; `Restart` empties the memory store; `Lifecycle` is
the bucket's rule of `src/infra/scaleway/storage.tf`. `book` is what a reader has
put together, `said` the answer of a step and `seen` the stages its transcript was in
since the request: both are auxiliary and serve the refinement.

### ClientAdapters

A configuration is a sequence of blocks, as far as the TOML adapter's text search
tells them apart: tables under the searched header, other spellings, sub-tables,
notes, and a parent written inline, under which a parser accepts no header (`Valid`). `Review` is `plan`; `BeginApply`, `ReadFile`, `WriteFile`, `CommandRemove`,
`CommandAdd`, `Readback` a registration; `BeginRemove`, `StripRead`, `StripWrite`,
`CommandStrip`, `SaveConfig` a disconnection with the two saves that end it. `Edit` is
the user or the client, between any two of these; `Upgrade` is Setup started again,
maybe from another place, so that our own launch changes and nothing is reviewed: then a
disconnection may have no adapter; `Crash` is the end of Setup. `touched`, `altered` and
`broken` are history: what changed since the review and since the read and whether somebody
else did it, whether somebody edited since the registration on record, and whether a call
ended between an entry and its record.
A client is found with a file its parser accepts (`AdapterAssumption`). `Without` removes
named blocks by a recursive function, so that it can be reasoned about.

### Wizard

One action per signal handler, each with the page turn it ends in: `ShowPage` is
`show_step`, whose `deactivate` clears the key. A task runs (`End`), and its event is
handled in a later step (`Failed`, `Reported`, `ProviderChecked`, `ShowOutcome`,
`ShowState`, `Left`); a cancelled task ends without one. `busy` is "stuck" where
the bar was switched on again for a task that will never report. What `apply` and
`disconnect` do inside is in the two modules above.

### Diagnostics and ManagedEngine

`Report` is the set of checks as identifier and severity. An engine (`engine[e]`) goes
through `Load`, one `ResolveKey` per enabled provider, and `Prepare`; the configuration
it loaded stays in its state, while `Commit`, `DropKey`, `Spoil` and `Relock` change
the file, the keyring and the lock under it. An environment is what matters of it, the
runtime directory and the bus: `Inherited` from the session or `Minimal`. `BeginProbe`
starts an engine with `Minimal`, and `ProbeAnswered`, `ProbeFailed`, `ProbeTimeout` end
it. `DoctorPasses` is the doctor's exit code as a function of the state.

## 3. Runs

| Run | Question | Instance |
| --- | --- | --- |
| `calls` | who receives the audio, in which order, asked for what, what the answer says; do copies and calls end | three models of two providers, every family of request fields, seven deployments, and two relayed calls that share a full workspace in one deployment; fairness |
| `audio_claims` | what a claim says, what a sweep may take and what it must | one file, two engines with one PID in two boots, the timer, crashes, a reboot, fairness |
| `setup_faults` | is anything that was created forgotten; does the committed configuration keep its keys; is the lock freed | one window, two providers, two keys, erasure, every fault except disk and crash, fairness |
| `setup_two` | is "complete" true, do clients meet only engines that answered, and how can a configuration lose a key, when two windows work at once and die anywhere | two windows, one intent, two keys, disk and engine failures, crashes |
| `results` | do pieces join; is anything lost early; does each answer fit a state the transcript was in | three backends, a reader and another client, a transcript of three characters and three segments and an empty one |
| `clients` | what registration and removal leave in a client's configuration | four kinds, 11 configurations, 4 lists of candidate places, two package locations, three edits |
| `wizard` | where keys go, what is applied, does the window come back | two providers, one client, a healthy and a troubled machine, a first run and a saved setup, two tasks at a time, fairness |
| `engine` | which keys an engine holds, is the doctor right, does a probe leave a process | two providers, four forms, every session, three changes, fairness |
| `calls_cancelled`, `calls_hints`, `wizard_key`, `engine_probe` | each checks one sentence of a docstring or of the documentation that the code contradicts (section 7) | the smallest instance that shows it |

Why the bounds are enough. `MaxAttempts` is the code's 3. Three models are one
to start from, one of the same provider and one of another: each kind of
fallback, and a fallback of a fallback. A routing decision looks at one request
and one deployment, so `calls` enumerates the request's fields in families
that interact (naming and policy; capabilities and strictness; limits; delivery)
for the first call. Calls interact through the workspace only: the
second call makes one of two relayed requests, and `OnlyOverlap` lets it run
only beside a first call that makes one of them too. A claim's clock needs one
lifetime and one tick beyond (`MaxTime` 3 with `TTL` 1), and PID reuse two
boots; files are independent of each other but for the aggregate bound, so one
token suffices, and two engines are there for PID reuse. Setup's keys are names, and a
deleted one is new again: two let one be committed and another be pending, retired or
taken from the provider that was left, and a setup that runs out of keys is one that fails.
`KeyAndWindowSymmetry` permutes keys and windows, for safety only.
A store's transcript lives one tick (`TTL` 1) and the clock makes one (`Horizon` 1):
every request can see it kept, expired, and expired between two of its steps. Three
characters in pieces of one or two give an exact end, a rest and a cursor at the
end; of the segments one is larger than the smallest room (`Limit` is 3, so that a
request beyond it is refused too). Three edits (`MaxEdits`) fall before a review,
between review and application, and between read and write. Two task slots let one
task be cancelled or late while another runs. An engine shares nothing with another
but the files it reads, so one process is enough, and the probe competes with the
client for it; two keys per provider (`MaxVersion`) are one loaded and one newer, and
three changes (`MaxChanges`) commit, replace and retire. The guards that carry
`MaxTime`, `MaxBoot`, `Horizon`, `MaxEdits`, `Slots`, `MaxVersion` and `MaxChanges` are
the only bounds that are not the code's.

Deadlock is not checked: calls finish, keys run out, clocks stop, and users owe
nothing; what must go on is stated as liveness instead.

## 4. Properties

*Transcription.* `AuthorizedRecipients`: configured providers of the allow-list
only, one provider without permission to cross, one model without permission to
fall back. `TriedInOrder`: a model gets the audio only once every candidate
before it has spent its whole retry budget, and never more often than the budget.
`NoSilentDowngrade`: speakers, timestamps and style are only asked of a model that has
them; anything the caller stated and does not get is reported, and so are phrase hints
for a model that takes none, which is asked for them all the same; nothing of this
happens in a strict request. `OnlySupportedIsAsked` is the docstring's stronger claim,
which fails for the hints (section 7).
`RouteDecides`: a refusal or exactly one first model, the explicit one if named.
`HonestHistory`: the fallback history of an answer is exactly the other models
that got the audio. `CopyLifetime`, `EveryCallEnds`. `ImplementsDisclosure`.

*TempAudio.* `ClaimsTellTheTruth`: a complete claim protects its file exactly
while the very process that wrote it runs and the claim has not expired.
`SettledFilesSurvive`: no sweep takes a file whose claim was complete when the
sweep began and whose owner lives. `AudioHasAReason`: a file on disk belongs to
a request in progress, or will be reclaimed. `ResidueCollected`,
`ClaimsCollected`: both halves of a pair disappear in the end.

*SetupTransaction.* `CommittedKeysExist`: with one window, a working disk and no death
the committed configuration refers to keys the keyring has. `WorkingKeysSurvive`: with any
faults, deaths and windows it loses one in four ways only: an erasure, a disconnection that
read before it waited for the lock, and a compensation of a commit that happened or of a
plan applied twice. `CreatedIsOnRecord`: keys and timer that were created are in the
journal between transactions. `CompleteIsTrue`: the outcome "complete" is only
given to a setup that is, as far as Setup can tell: the timer is installed, and the
client has the entry if the plan made one. `ClientMeetsEngine`: a client is only pointed at an
engine that answered under the configuration it will load. `TransactionsEnd`.

*ResultStore.* `PiecesJoin`: the pieces along the cursors, of whatever sizes, are the
transcript without gap or repetition. `PiecesAdvance`: following the cursors ends.
`KeptUntilDeleted`: a live object leaves the bucket only by a requested deletion.
`KeepsItsPromise`: the refinement of `Retention`.

*ClientAdapters.* `OthersSurvive`: what Setup writes has the other servers as it read
them. `ReadableStaysReadable`: it makes no file unreadable that takes a table of ours
(`TakesOurTable`: no other spelling of it, no inline parent). `TakeoverIsAgreed`: a
registration takes a foreign entry only by an agreed takeover, after somebody edited, or
through a command that did not list it; a disconnection, which goes by the name, only
after somebody edited since the registration. `RegisteredIsThere`: a reported
registration is in the file and in the journal. `EntryHasAnOwner`: no table of ours is
forgotten, unless a call ended between the entry and its record.

*Wizard.* `SecretLeavesWithItsStep`: whatever turns the page, no key is in the form
elsewhere. `KeyGoesToItsProvider`: a key is checked with the provider it was typed for.
`AppliesWhatWasShown`: Enable and Repair apply the plan the review showed last.
`BusyEnds`: the busy bar does not stay for good on a step, unless a task was cancelled.

*ManagedEngine.* `KeysAreAuthorized`: an engine holds keys of providers its own
configuration enables, under that configuration's references, whatever is committed
meanwhile. `DoctorTellsTheTruth`: without an error in the report, an engine
started now serves with every key. `ProbeLeavesNothing`: the probe's engine ends.

Each module has one `TypeOK`, proved for all constants; a run checks it as well where
TLC's instance adds to that. For every property of a passing run, `PROJECT.json`
names a mutant of the model, an alternative definition standing before the one
it replaces, under which TLC finds the property violated.

## 5. Fairness

*Transcription*: weak fairness of each call's `Step`. Every await in a call is
bounded: the HTTP clients have timeouts, the retry waits are finite, the download
has a deadline. Submitting and cancelling are the caller's and are not fair.

*TempAudio*: the clock advances; a sweep that has begun takes its steps; the timer
and the engines' sweeper threads begin again after each pass (`desktop/stdio.py`
loops, the timer unit is periodic); `create_file` does not yield. Nothing obliges
a request to end, an engine to start or a user to purge.

*SetupTransaction*: a task that has begun takes its steps: subprocesses and the engine
probe have timeouts, and the lock does not wait. The keyring's calls have none
(`desktop/credentials.py`): that they return, with an answer or an error, is assumed of the
system's secret service. Users owe nothing.

*Wizard*: the pool runs its tasks, which are subprocesses and calls with timeouts, and
keyring calls that are assumed to return, and the event loop delivers their signals. The user owes nothing.

*ManagedEngine*: a started process runs, and the probe's deadline passes
(`engine_probe.py` wraps the handshake in `asyncio.timeout`). No client has to start an
engine or close its pipe.

*ResultStore* and *ClientAdapters* have safety properties only: a client may never ask
for the next piece, a user may never finish.

## 6. Proofs

`tlapm` proves every safety property and action property that a passing run checks, and
the two refinements, for all values of the constants. `PROJECT.json`, "theorems",
lists the results; each proof module begins with its argument in short.

Of constants the proofs assume only what the modules state by name. Descriptors are
well-formed, with some timestamp mode and some style (the adapters' all have), no provider
is called "auto", and registry positions and model names are distinct, being dictionary
keys (`CatalogueAssumption`). There is at least one attempt (`TranscriptionAssumption`),
one identifier (`StoreAssumption`), one engine to register (`AdapterAssumption`) and one
task slot (`WizardAssumption`). A piece may hold something, and `NoCursor` is no
cursor (`ChunksAssumption`). A file that a client is found with was written by the client: it
defines no table twice and has no header under an inline parent (`AdapterAssumption`). The others say where constants belong.

Three theorems have a hypothesis besides, because the property does not hold without:

- `CreatedStaysOnRecord` assumes `JournalIsKept`: neither disk errors nor crashes, and
  one provider per intent if the keyring can fail. A crash between the keys and the first
  save, a journal that cannot be written, or the second of two keys failing leaves
  something off the record (section 8). Any number of windows, keys and erasures is covered.
- `CommittedKeysStay` assumes `KeysAreKept`: one window, no disk errors, and no crash where
  the user may erase. A second window's disconnect can write back a stale file, a commit
  can raise after it replaced the file, an erasure can die after the keys (section 8). Crashes
  and all other faults are covered.
- `EntriesAreOwned` assumes `NotRegisteredYet`: the files a client is found with hold no
  table of ours that launches one of our engines. `Init` has an empty journal: it is Setup's
  first run, and such a table could only come from an earlier one.

The runs that check these properties satisfy their hypotheses; `setup_two` checks
`CompleteIsTrue`, `ClientMeetsEngine` and `WorkingKeysSurvive`, which need none, with disk
errors, deaths and two windows. `KeysLostKnowingly` is the counterpart of
`CommittedKeysStay` without hypotheses.

### The arguments

*Routing.* A sort key is four integers, the last of them the position of the name, so
the order is strict and every set of models has one first (`FirstIsUnique`, `RoutedHasCandidates`).
Candidates are models of configured, permitted providers even when the caller names one
(`OfferedAreReachable`, which needs that routing raised no error); two candidates of one
request differ only as far as fallback and crossing are permitted (`CandidatesNeedPermission`).

*Transcription.* `AuthorizedRecipients` speaks of what was sent and is not
inductive: a call waiting to send could hold anything. `Inv` adds that a call
in flight holds candidates of its own, successfully routed request (`InFlight`)
and that whatever was sent went to such a candidate (`SentToChosen`). Each
step that touches a call moves it to one well-formed state that keeps `InFlight`
(`Moves`, one lemma per action); only `Send` touches `sends`. `NoSilentDowngrade` and
`RouteDecides` follow from `Inv` and the routing lemmas. `TriedInOrder` and `HonestHistory`
need `History`: behind the model of a call are candidates ranked before it, each with all
its attempts spent and on record; before it those ranked after it, not asked yet; and the
number of submissions follows from phase and attempt. `CopyLifetime` is kept step by step.
The refinement needs `Asked`: a call that has an answer, or waits for one, names a model
that received the audio, and no call carries a delivered verdict before its last step. With
it every step is a `Disclose`, an `Answer`, a `Refuse` or a stutter.

*TempAudio.* A PID with its start ticks names one process of a boot, and the claim
names the boot: so a claim that looks alive is its writer's (`Booted`, `FileOK`). A sweep that
runs began in this boot, compares with a clock it read no later than now, and was told of no file in creation (`SweepOK`);
an engine creates one file at a time (`OneAtATime`). Hence a claim that a sweep found expired or
dead stays so until it unlinks. A reboot ends every process and with it every sweep.

*SetupTransaction.* `Inv` says how far the window that has the lock has come in terms of
the stores: before "commit" the new keys are in the keyring and the journal in memory, after
it the file is the new configuration, after the probe `probed` is that file (`Progress`), and who
is `Outside` has no lock. That makes `CompletionIsTrue` and `ClientsMeetEngines` hold under every
fault. `Recorded` adds what the journal in memory knows and from which point on the file
does; `Kept` that the only window writes back the keys it read. `KeysLostKnowingly` needs
that what a transaction remembers to have written, and so what it compensates, are keys of
its own plan (`Compensable`), under every fault: nothing else it does takes a key away from
the file as it stands.

*ResultStore.* What a request read in the bucket is the object that is there, or there is none,
because no identifier is put twice; what it found live was live while it was open (`CallOK`).
Sizes matter only in that a piece never ends before it began, so that `Max` over the ends is
taken of a nonempty bounded set (`MaxIs`); what a reader has joined is then a beginning of
the transcript whose length is its cursor's (`BookOK`). In the refinement each step is one
step of `Retention` for the client that took it, or changes the shelf, or stutters.

*ClientAdapters.* Over a file that others edit, what a call holds is the file's text unless
the file was touched since (`ReadOK`), and what the review saw still stands unless somebody
changed it (`ReviewOK`). For `TakeoverIsAgreed` two invariants more: until somebody edits, a
foreign entry in the file is one the review spoke of or the command did not list, and what
the journal owns is not foreign (`Consent`); a removal that writes a stale document does so
after an edit (`Noticed`). Below that are lemmas about documents: the table that the search
finds is the definition a parser sees (`FileOK` keeps files to what a parser accepts), and a document
with that table swapped, appended or cut has the other blocks as before, in their order
(`Swapped`, `Traced`). Which blocks remain is shown for documents of any length by a least
counterexample over their positions (`LeastNat`, `Reaches`).

*Wizard.* The pool's results arrive in any order and on any page, so the invariant is each
handler's: the form holds at most the key of the chosen provider, on its page (`FormOK`); the
plan kept is the plan shown (`BuiltOK`); a key being checked is its provider's (`TaskOK`).

*ManagedEngine.* `KeysAreAuthorized` is not inductive: an engine that is still resolving
has roles left whose keys are to come. `Authorized` adds that what is left is enabled by
the configuration it loaded, and that an engine that has not loaded has no key. Every
step of an engine or of the probe gives one process one well-formed state
(`OneProcess`, one lemma per action); the surroundings change the file, the keyring and the
lock, and none of these occurs in the invariant of a process: that is why replacing
the configuration while an engine starts does no harm. `DoctorIsRight` needs no
induction beyond the types: an error among the checks is the worst severity
(`AnErrorIsWorst`), so a doctor that passes saw none, and each condition of a
serving engine is the absence of one of the errors.

### What stays with TLC

Only liveness: `EveryCallEnds`, `ResidueCollected`, `ClaimsCollected`, `TransactionsEnd`,
`BusyEnds` and `ProbeLeavesNothing`. They rest on fairness and so on ENABLED, which the
prover does not handle. The counterexamples of section 7 are TLC's as well. What a recursive definition
computes is proved only as far as the theorems need it, by well-founded minimum instead
of the library's induction rules, whose operator parameters the provers cannot
instantiate: of `Total`, for instance, that one segment's total is its size, which keeps a
segmented piece from being empty, and not that it is the sum of any number of them.

## 7. Where the code and its documents disagree

Each is a run whose counterexample TLC finds; `PROJECT.json`, "findings", quotes both.

- `calls_cancelled`: a call cancelled while it downloads leaves the copy behind.
- `calls_hints`: with downgrades allowed, a model that takes no phrase hints is asked for
  them; the docstring of `_resolve` says that providers never receive a capability their
  model would ignore. Every adapter of today supports hints, so the instance has a model
  that does not.
- `wizard_key`: the key is cleared when its page is left and read when the review is
  prepared, so the intent that Enable applies has none, and the credential store refuses
  an empty key. `SetupTransaction` models the service given an intent with its key, as
  its tests use it.
- `engine_probe`: the probe starts its engine without `XDG_RUNTIME_DIR`, and an engine that
  may relay audio exits without it. With temporary audio allowed the probe always
  fails, though every client's engine serves; setup cannot complete, and
  `doctor --check-engine` reports an error. The tests probe without the permission.

## 8. Met while modelling, without a run

- The cost ceiling is checked for the first candidate only (`service.py:44`): a
  fallback candidate may cost more. `SPEC.md:1599` states the limit for the request.
- The engine's last sweep (`desktop/stdio.py:57-58`) runs while the engine is
  alive, so it keeps the engine's own unexpired files; the timer collects them later.
- A sweep between the creation of an audio file and of its claim
  (`desktop/tempaudio.py:92`, 94) removes it while its owner lives, against the docstring at
  109. `SettledFilesSurvive` starts with a complete claim.
- Intents are recorded in memory and the journal is first saved after the keys were
  written (`desktop/setup.py:255`, 262): a Setup that dies in between leaves a key that no
  record names, against the docstring at 4.
- `disconnect` writes back the configuration it read before it took the lock
  (`desktop/setup.py:427`, 445): a replacement of the key in another window is undone.
  `CommittedKeysExist` holds with one window and not with two; `WorkingKeysSurvive`
  names this way.
- `cleanup_timer.py:67-68` ignores the result of `systemctl enable --now`: a timer that
  does not run is recorded as applied, the outcome is complete, and a later apply finds
  the unit installed (`desktop/setup.py:360`) and tries no more. `CompleteIsTrue` asks
  for the installed unit only.
- An `OSError` of the timer's unit files is caught by nobody and leaves `apply`
  (`cleanup_timer.py:63-66`), after the commit: `Raise` in `Reconcile`.
- Disconnect after Setup was opened again has no adapter (`desktop/gui/main_window.py:497`):
  nothing is removed, and the phase is recorded as applied.
- `erase` deletes the keys the configuration names (`desktop/setup.py:473`): the key of a
  provider that was switched away from stays, recorded in the journal.
- The timer is reconciled after the configuration was committed
  (`desktop/setup.py:285`): when installing it fails, the relay permission stays
  committed without a sweeper. `CompleteIsTrue` holds, since the outcome is a failure.
- A plan whose registration had nothing to do is applied as such even if the client
  entry has gone meanwhile (`desktop/setup.py:331-346`): the outcome reports a
  registered client that is not. `CompleteIsTrue` therefore asks for the entry only
  of plans that register.
- A disk failure after the file was replaced (`desktop/paths.py:157`) is handled
  like one before: the compensation deletes keys that the committed configuration
  refers to (`desktop/setup.py:278-282`). So does the compensation of a plan that is applied
  a second time, whose keys the first time committed, against the docstring at 400 ("never
  a reused one"). The run that checks `CommittedKeysExist` therefore has no disk failures,
  and `WorkingKeysSurvive` names both.
- `written` is assigned when every key was stored (`desktop/setup.py:256`): if the
  second of two keys fails, the first is neither compensated nor recorded. The form
  (`desktop/gui/main_window.py:336`) configures one provider with one key at a time, so
  the instances do too; the action `Put` is written for any number.
- An erasure deletes keys before the configuration that names them
  (`desktop/setup.py:473-481`). One that dies in between leaves a configuration without
  its keys, until it is erased again; `setup_faults` has no deaths for this reason.
- A task cancelled after its effect reports nothing (`desktop/gui/workers.py:53`): what it
  committed is not shown. The intent is kept before its plan is made
  (`desktop/gui/main_window.py:356`): after a plan that failed, Repair applies the
  last good plan with the newer intent.
- Deleting an S3 object that another request read a moment ago ends in `INTERNAL_ERROR`
  for that request (`result_store/s3.py:69`, 100): the client's "no such key" is no
  `KeyError`. For an expired transcript the memory store answers `deleted` and S3 `absent`
  (`memory.py:39`, `s3.py:100`). The memory store forgets an expired transcript only when it
  is asked for (`memory.py:19`).
- The TOML adapter cuts from our header to the next one (`desktop/clients/toml_store.py:248`):
  comments in between are lost. Its search does not find a table of ours that is quoted,
  dotted or inside an inline parent, and does not see that `mcp_servers = {...}` takes no
  header (`toml_store.py:254-261`): another table is appended and the file becomes
  unreadable, which nobody notices before the readback raises. `ReadableStaysReadable` names
  both cases (`TakesOurTable`). The removal of such a spelling, and of a table with
  sub-tables, reports success and leaves them.
- Removal goes by name and not by ownership: an entry that somebody put in the place of
  ours is removed, against `docs/desktop.md:164` ("removes the registration OpenTranscribe
  created, and nothing else"). A plan reviewed earlier overwrites an entry that was added
  since. A client's command that fails to list shows no entry
  (`desktop/clients/command.py:62-66`), so "add" is planned and may replace a foreign one.
  `TakeoverIsAgreed` names these ways and shows that there is no other. An edit between our read
  and our write is lost, since no lock is shared with the clients; `OthersSurvive` speaks
  of what had not been touched since the read.
- A removal that did not happen is reported as one that did (`desktop/setup.py:443-449`), the
  client leaves the configuration, and another disconnection does nothing:
  `docs/desktop-acceptance.md:73` (CLI-06) expects a failure that is "visible and retryable".
  Only the journal says that it failed, and keeps the entry.
- A takeover through the client's command removes, then adds (`desktop/clients/command.py:106`):
  if adding fails there is neither entry. `remove` of a missing executable counts as not
  removed.
- `readback` raises outside of any handler (`desktop/setup.py:331`): the entry is written and
  not owned; so does a death there, or a client's command that adds and fails.
  `EntryHasAnOwner` has these three exceptions (`broken`).
- A check outcome that arrives after another provider was chosen is recorded for that
  provider (`desktop/gui/main_window.py:315`), and `_start`'s failure message is hidden by the
  page turn after it. Choosing no provider during a check leaves a Continue that does
  nothing.
- Setup accepts an endpoint by its `https://` prefix (`desktop/gui/steps.py:325`), the engine
  refuses local and private ones (`desktop/providers.py:142-174`), and a doctor without the engine
  check does not see it: `DoctorTellsTheTruth` has the exception.
- With a locked keyring the doctor ends in the exception of the lookup instead of a
  report (`desktop/diagnostics.py:205-217`; `Raises`).
- An engine started while a key is replaced may find it gone, and serves without it
  for its whole life (`desktop/runtime.py:64-116`): `KeysAreAuthorized` bounds what an engine
  holds from above only. An engine whose client passes a minimal environment has no keyring.

## 9. Not modelled

Audio and transcript contents, provider encodings, normalization, address checks,
redaction, logging, the parsing of settings, the HTTP transport's authentication, the
widgets' looks and translations, packaging and the tutorial: data conversion or
presentation without state of their own. The window's sample transcription starts
from a button that no sequence of events enables, and is left out. `TempAudio` has no
action for `release`, and `ManagedEngine` none for `refuse_root`, which only the graphical
program calls. A running engine's requests are `Transcription`, its sweeper `TempAudio`;
they are not composed with `ManagedEngine`, since they share only what it passes on,
the deployment, which is a constant there.

## 10. Plan

1. Done: all modules of section 2, and the proofs of section 6.
2. An abstract specification of the installation lock and of what a setup commits, with
   `SetupTransaction` shown to implement it; its safety half is `Progress`.
3. The same for a relayed copy's life, from `Inv` of `TempAudioProofs`.
4. The sample transcription and the diagnostic dialog, if the window ever enables them.

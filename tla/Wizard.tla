------------------------------- MODULE Wizard -------------------------------
(***************************************************************************)
(* The setup window: six steps and a status page, one primary action, and  *)
(* work on the thread pool whose results come back as queued events.  The  *)
(* user goes on pressing what is enabled while that work runs.             *)
(*                                                                         *)
(* What apply and disconnect do step by step is in SetupTransaction and    *)
(* ClientAdapters; here they are a task with an effect and an outcome.     *)
(***************************************************************************)
EXTENDS Diagnostics

CONSTANTS
  Machines,     \* what the machine may be whenever it is looked at
  Setups,       \* what a window may find saved
  Slots         \* bound: tasks at a time

ASSUME WizardAssumption ==
  /\ None \notin Providers \union Clients
  /\ Machines \subseteq Machine
  /\ Setups \subseteq Saved /\ NotSaved \in Setups
  /\ Slots \subseteq Nat /\ Slots # {}

Welcome == 0
Checks == 1
Provider == 2
Client == 3
Review == 4
Finish == 5
Status == 6             \* TOTAL_STEPS
Steps == Welcome..Finish

VARIABLES
  page,             \* the page shown
  primary,          \* the primary action is enabled
  provider, field,  \* the form: the provider, and whose key is in the key field
  intent, plan,     \* the last intent built, and the last plan made of one
  review,           \* what the review step shows
  checks,           \* what the checks step shows
  task,             \* [Slots -> Task \union {NoTask}]
  current, busy,    \* the task the busy bar can cancel, and whether it shows:
                    \* "stuck" is on for a task that will never report
  config            \* the saved setup

form == <<provider, field>>
built == <<intent, plan, review>>
bar == <<current, busy>>
vars == <<page, primary, form, built, checks, task, bar, config>>

\* What goes to a worker: a key check has no client.
Intent == [provider: Providers, key: Providers \union {None}, client: Clients \union {None}]
NoIntent == [provider |-> None, key |-> None, client |-> None]

Plan == [provider: Providers, client: Clients]
NoPlan == [provider |-> None, client |-> None]

Kinds == {"diagnose", "check", "apply", "status", "disconnect"}
Results == {"none", "clear", "blocked", "usable", "rejected", "read", "applied",
            "left"}

\* A task is with the pool, or over with its signal on the way to the window.
Task == [kind: Kinds, state: {"running", "finished", "failed"},
         cancelled: BOOLEAN, intent: Intent \union {NoIntent}, plan: Plan \union {NoPlan},
         result: Results]
NoTask == [kind |-> "none"]

Work(kind) == [kind |-> kind, state |-> "running", cancelled |-> FALSE, intent |-> NoIntent,
               plan |-> NoPlan, result |-> "none"]

Free(s) == task[s] = NoTask
In(s, states) == ~Free(s) /\ task[s].state \in states

-----------------------------------------------------------------------------
(***************************************************************************)
(* What the handlers share.  Each runs to its end on the window's thread.  *)
(***************************************************************************)
\* What a step has recorded of its readiness when the page is turned to it.
\* Every edit of the provider step validates it, show_report and show_plan record
\* their own; the rest are ready whenever shown.
IsReady(step, key) ==
  \/ step \in {Welcome, Client}
  \/ step = Checks /\ checks = "clear"
  \/ step = Provider /\ key # None
  \/ step = Review /\ review # NoPlan
  \/ step = Finish

\* Mutant of KeyLeft: the page that is left keeps its input.
KeyKept == field

\* Leaving a step deactivates it, and the provider step clears its key then.
KeyLeft == IF page = Provider THEN None ELSE field

\* _busy: the work is handed to the pool, and the bar now cancels this task.
Start(tasks, work) ==
  \E s \in {t \in Slots : tasks[t] = NoTask} :
    /\ \A t \in Slots : t < s => tasks[t] # NoTask
    /\ task' = [tasks EXCEPT ![s] = work]
    /\ current' = s /\ busy' = "on"

\* show_step, to a page that starts no work of its own.  The status page has no
\* primary action, but clearing a key on the way there disables it.
ShowPage(to) ==
  /\ page' = to /\ field' = KeyLeft
  /\ primary' = IF to \in Steps THEN IsReady(to, field') ELSE primary /\ field' = field

\* show_step with what it starts: the checks page runs the checks each time.
ShowStep(to, tasks) ==
  \/ to # Checks /\ ShowPage(to) /\ task' = tasks /\ UNCHANGED current
  \/ /\ to = Checks
     /\ Start(tasks, Work("diagnose"))
     /\ page' = to /\ field' = KeyLeft /\ primary' = FALSE

\* A window opens on what is saved: a restart resumes nothing else.
FirstPage == IF config.state = "saved" THEN Status ELSE Welcome

FirstSlot == CHOOSE s \in Slots : \A t \in Slots : s <= t
FirstTask(s) == IF s = FirstSlot /\ FirstPage = Status THEN Work("status") ELSE NoTask

Init ==
  /\ config \in Setups /\ current = FirstSlot
  /\ page = FirstPage
  /\ primary = (page = Welcome) /\ busy = IF page = Status THEN "on" ELSE "off"
  /\ provider = None /\ field = None
  /\ intent = NoIntent /\ plan = NoPlan /\ review = NoPlan
  /\ checks = "none"
  /\ task = [s \in Slots |-> FirstTask(s)]

-----------------------------------------------------------------------------
(***************************************************************************)
(* The user: the form.                                                     *)
(***************************************************************************)
\* Mutant of Choose: the key field stays as it is.
ChooseKeeping ==
  /\ page = Provider
  /\ \E p \in (Providers \union {None}) \ {provider} : provider' = p
  /\ primary' = (provider' # None /\ field # None)
  /\ UNCHANGED <<page, field, built, checks, task, bar, config>>

\* The button beside a check that did not pass.
RunChecks ==
  /\ page = Checks /\ checks # "none"
  /\ Start(task, Work("diagnose"))
  /\ primary' = FALSE
  /\ UNCHANGED <<page, form, built, checks, config>>

\* _provider_changed: a key belongs to the provider it was issued for.
Choose ==
  /\ page = Provider
  /\ \E p \in (Providers \union {None}) \ {provider} : provider' = p
  /\ field' = None
  /\ primary' = FALSE
  /\ UNCHANGED <<page, built, checks, task, bar, config>>

\* Every edit of the field validates the step, work or no work.
Type ==
  /\ page = Provider /\ provider # None
  /\ field' \in {None, provider} \ {field}
  /\ primary' = (field' # None)
  /\ UNCHANGED <<page, provider, built, checks, task, bar, config>>

\* Mutant of Back: there is a step before every step.
BackFromAny ==
  /\ page \in Steps
  /\ ShowStep(page - 1, task)
  /\ busy' = IF page - 1 = Checks THEN "on" ELSE busy
  /\ UNCHANGED <<provider, built, checks, config>>

Back ==
  /\ page \in Checks..Finish
  /\ ShowStep(page - 1, task)
  /\ busy' = IF page - 1 = Checks THEN "on" ELSE busy
  /\ UNCHANGED <<provider, built, checks, config>>

\* The busy bar's Cancel marks the task it was last connected to; one that is
\* over does not look any more.
CancelTask ==
  /\ busy = "on" /\ In(current, {"running"}) /\ ~task[current].cancelled
  /\ task' = [task EXCEPT ![current].cancelled = TRUE]
  /\ UNCHANGED <<page, primary, form, built, checks, bar, config>>

-----------------------------------------------------------------------------
(***************************************************************************)
(* The user: the primary action, by page.                                  *)
(***************************************************************************)
Proceed ==
  /\ primary /\ page \in {Welcome, Checks}
  /\ ShowStep(page + 1, task)
  /\ busy' = IF page + 1 = Checks THEN "on" ELSE busy
  /\ UNCHANGED <<provider, built, checks, config>>

Request(work) ==
  /\ Start(task, work)
  /\ primary' = FALSE

\* prepare_provider: the key as it is in the form goes to the provider.
CheckKey ==
  /\ primary /\ page = Provider
  /\ provider # None /\ field # None
  /\ Request([Work("check") EXCEPT !.intent =
                [NoIntent EXCEPT !.provider = provider, !.key = field]])
  /\ UNCHANGED <<page, form, built, checks, config>>

Reviewed(client) == [provider |-> provider, client |-> client]

\* The plan is shown, and the step left for the review.
ShowPlan(client) ==
  /\ review' = Reviewed(client)
  /\ page' = Review /\ field' = KeyLeft /\ primary' = TRUE

\* A conflict offers a takeover, and the step stays.
StayAtClient == UNCHANGED <<page, primary, field, review>>

\* The client is any of those the step lists: nothing but this reads the choice.
MakeIntent(client) ==
  /\ primary /\ page = Client /\ provider # None
  /\ intent' = [provider |-> provider, key |-> field, client |-> client]

\* What planning reads of the world can be read.
Plannable == config.state # "unreadable" /\ \E m \in Machines : m.journal # "unreadable"

\* Mutant of PrepareReview: the plan is kept before it is looked at.
PrepareReviewKeeping ==
  /\ \E client \in Clients :
       /\ MakeIntent(client)
       /\ \/ StayAtClient /\ UNCHANGED plan
          \/ Plannable /\ plan' = Reviewed(client) /\ StayAtClient
          \/ Plannable /\ plan' = Reviewed(client) /\ ShowPlan(client)
  /\ UNCHANGED <<provider, checks, task, bar, config>>

\* prepare_review.  The intent is kept before its plan is made; the plan only
\* if making it did not fail (on the keyring, the saved setup, the journal or
\* the client's configuration) and is free of conflicts.
PrepareReview ==
  /\ \E client \in Clients :
       /\ MakeIntent(client)
       /\ \/ StayAtClient /\ UNCHANGED plan
          \/ Plannable /\ plan' = Reviewed(client) /\ ShowPlan(client)
  /\ UNCHANGED <<provider, checks, task, bar, config>>

Applies ==
  /\ Request([Work("apply") EXCEPT !.intent = intent, !.plan = plan])
  /\ UNCHANGED <<page, form, built, checks, config>>

Enable == primary /\ page = Review /\ plan # NoPlan /\ Applies

\* The last step's action: the status page and a fresh look at the setup.
Leave ==
  /\ primary /\ page = Finish
  /\ page' = Status
  /\ Request(Work("status"))
  /\ UNCHANGED <<form, built, checks, config>>

-----------------------------------------------------------------------------
(***************************************************************************)
(* The user: the status page, whose buttons are always enabled.            *)
(***************************************************************************)
Recheck ==
  /\ page = Status
  /\ Request(Work("status"))
  /\ UNCHANGED <<page, form, built, checks, config>>

ManageProviders ==
  /\ page = Status
  /\ ShowPage(Provider)
  /\ UNCHANGED <<provider, built, checks, task, bar, config>>

\* Repair applies what was last reviewed; a window that reviewed nothing runs
\* the checks again, which is Recheck.
Repair == page = Status /\ plan # NoPlan /\ Applies

\* The confirmed dialog, whatever it says of erasing.  Which adapter it comes
\* with is in SetupTransaction.
Disconnect ==
  /\ page = Status
  /\ Request(Work("disconnect"))
  /\ UNCHANGED <<page, form, built, checks, config>>

-----------------------------------------------------------------------------
(***************************************************************************)
(* The pool.                                                               *)
(***************************************************************************)
\* The lock of the installation does not wait.
Contended(s) ==
  \E t \in Slots \ {s} : In(t, {"running"}) /\ task[t].kind \in {"apply", "disconnect"}

\* An end: what a task reports, and what it leaves of the saved setup.  What it
\* leaves in the journal is in SetupTransaction.
Ending(result, saved) == [result |-> result, config |-> saved]

Same(result) == Ending(result, config)

\* What apply may come to, of a plan and an intent that need not be of one
\* review: a provider the plan has not is no DesktopError, and an empty key is
\* refused before anything is stored.  Complete or not, the outcome is shown.
Applied(w, m) ==
  LET next == [NotSaved EXCEPT !.state = "saved", !.provider = w.plan.provider,
                 !.keyed = TRUE, !.client = w.plan.client]
  IN  IF m.journal = "unreadable" \/ w.intent.provider # w.plan.provider
      THEN {Same("raised")}
      ELSE IF w.intent.key = None
      THEN {Same("applied"), Same("raised")}
      ELSE {Ending("applied", next), Ending("raised", next)}

\* Disconnecting drops the client from the configuration, erasing all of it.
Disconnected(m) ==
  LET without == [config EXCEPT !.client = None]
  IN  CASE config.state = "missing" -> {Same("left")}
        [] config.state = "unreadable" -> {Same("raised")}
        [] config.state = "saved" ->
             IF m.journal = "unreadable" THEN {Same("raised")}
             ELSE {Same("raised"), Ending("raised", without), Ending("left", without),
                   Ending("left", NotSaved)}

\* The ends a task may come to.
Endings(s, m) ==
  LET w == task[s]
      contended == IF Contended(s) THEN {Same("raised")} ELSE {}
  IN  CASE w.kind = "diagnose" ->
             {Same(IF Raises(m, config) THEN "raised"
                   ELSE IF Blocked(Report(m, config, FALSE)) THEN "blocked" ELSE "clear")}
        [] w.kind = "check" ->
             {Same(r) : r \in {"usable", "rejected", "raised"}}
        [] w.kind = "status" ->
             {Same(IF config.state = "unreadable" \/ Raises(m, config) THEN "raised"
                   ELSE "read")}
        [] w.kind = "apply" -> Applied(w, m) \union contended
        [] w.kind = "disconnect" -> Disconnected(m) \union contended

\* A failure is signalled in any case; a result is not if Cancel came first.
\* The signal is all that is left of the work.
End(s) ==
  /\ In(s, {"running"})
  /\ \E m \in Machines : \E end \in Endings(s, m) :
       /\ config' = end.config
       /\ task' = [task EXCEPT ![s] =
            IF end.result = "raised" THEN [Work(@.kind) EXCEPT !.state = "failed"]
            ELSE IF @.cancelled THEN NoTask
            ELSE [Work(@.kind) EXCEPT !.state = "finished", !.result = end.result]]
       /\ busy' = IF task'[s] = NoTask /\ s = current /\ busy = "on" THEN "stuck" ELSE busy
  /\ UNCHANGED <<page, primary, form, built, checks, current>>

-----------------------------------------------------------------------------
(***************************************************************************)
(* Events: the window's handlers of what comes back.                       *)
(***************************************************************************)
Over(s) == [task EXCEPT ![s] = NoTask]

Arrived(s, kind) == In(s, {"finished"}) /\ task[s].kind = kind

\* Mutant of Failed: only a result stops the bar.
FailedSpinning(s) ==
  /\ In(s, {"failed"})
  /\ task' = Over(s)
  /\ primary' = TRUE
  /\ UNCHANGED <<page, form, built, checks, bar, config>>

\* _busy_failed: whatever page is shown now gets its action back.
Failed(s) ==
  /\ In(s, {"failed"})
  /\ task' = Over(s)
  /\ busy' = "off"
  /\ primary' = TRUE
  /\ UNCHANGED <<page, form, built, checks, current, config>>

\* ChecksStep.show_report: the readiness is announced on whatever page.
Reported(s) ==
  /\ Arrived(s, "diagnose")
  /\ task' = Over(s) /\ busy' = "off"
  /\ checks' = task[s].result
  /\ primary' = (checks' = "clear")
  /\ UNCHANGED <<page, form, built, current, config>>

\* _provider_checked: what passed or cannot be checked goes on to the client step,
\* from any page.  The outcome recorded for the key is left out.
ProviderChecked(s) ==
  /\ Arrived(s, "check")
  /\ busy' = "off"
  /\ \/ /\ task[s].result = "rejected"
        /\ primary' = TRUE /\ task' = Over(s)
        /\ UNCHANGED <<page, field, current>>
     \/ /\ task[s].result # "rejected"
        /\ ShowPage(Client) /\ task' = Over(s)
        /\ UNCHANGED current
  /\ UNCHANGED <<provider, intent, plan, review, checks, config>>

\* _applied: the key field is cleared and the last step shown, from any page.
ShowOutcome(s) ==
  /\ Arrived(s, "apply")
  /\ task' = Over(s) /\ busy' = "off"
  /\ page' = Finish /\ field' = None
  /\ primary' = TRUE
  /\ UNCHANGED <<provider, built, checks, current, config>>

ShowState(s) ==
  /\ Arrived(s, "status")
  /\ task' = Over(s) /\ busy' = "off"
  /\ UNCHANGED <<page, primary, form, built, checks, current, config>>

\* After a disconnection the status is read again, whatever page is shown.
Left(s) ==
  /\ Arrived(s, "disconnect")
  /\ Start(Over(s), Work("status"))
  /\ primary' = FALSE
  /\ UNCHANGED <<page, form, built, checks, config>>

-----------------------------------------------------------------------------
\* The window is closed; the pool is waited for, its signals are not.
Reopen ==
  /\ \A s \in Slots : ~In(s, {"running"})
  /\ page' = FirstPage
  /\ primary' = (page' = Welcome) /\ busy' = IF page' = Status THEN "on" ELSE "off"
  /\ provider' = None /\ field' = None
  /\ intent' = NoIntent /\ plan' = NoPlan /\ review' = NoPlan
  /\ checks' = "none"
  /\ task' = [s \in Slots |-> FirstTask(s)] /\ current' = FirstSlot
  /\ UNCHANGED config

Form == RunChecks \/ Choose \/ Type \/ Back \/ CancelTask
Primary == Proceed \/ CheckKey \/ PrepareReview \/ Enable \/ Leave
StatusPage == Recheck \/ ManageProviders \/ Repair \/ Disconnect
Pool == \E s \in Slots : End(s)
Events == \E s \in Slots : \/ Failed(s) \/ Reported(s) \/ ProviderChecked(s)
                           \/ ShowOutcome(s) \/ ShowState(s) \/ Left(s)

Next == Form \/ Primary \/ StatusPage \/ Pool \/ Events \/ Reopen

Spec == Init /\ [][Next]_vars

\* Every task is bounded in time, and the window's thread takes its events.
\* The user owes nothing.
FairSpec == Spec /\ WF_vars(Pool) /\ WF_vars(Events)

-----------------------------------------------------------------------------
(***************************************************************************)
(* Properties.                                                             *)
(***************************************************************************)
TypeOK ==
  /\ page \in Welcome..Status /\ primary \in BOOLEAN
  /\ provider \in Providers \union {None} /\ field \in Providers \union {None}
  /\ intent \in Intent \union {NoIntent}
  /\ plan \in Plan \union {NoPlan} /\ review \in Plan \union {NoPlan}
  /\ checks \in {"none", "blocked", "clear"}
  /\ \A s \in Slots : Free(s) \/ task[s] \in Task
  /\ current \in Slots /\ busy \in {"off", "on", "stuck"}
  /\ config \in Saved

\* "Sensitive input is kept only as long as the step that needs it": whichever
\* event turns the page, a key is in the form on the provider's page only.
SecretLeavesWithItsStep == field # None => page = Provider

\* "One provider's key can never be sent to another", whatever is chosen while
\* a check of the former choice still runs.
KeyGoesToItsProvider ==
  \A s \in Slots : ~Free(s) /\ task[s].kind = "check" =>
    task[s].intent.key = task[s].intent.provider

\* Enable and Repair apply the plan the review page showed last, and never one
\* that was found in conflict.
AppliesWhatWasShown ==
  [][\A s \in Slots :
       Free(s) /\ ~Free(s)' /\ task'[s].kind = "apply" =>
         task'[s].plan = review /\ review # NoPlan]_vars

Cancelling == \E s \in Slots : ~Free(s) /\ task[s].cancelled

\* The window gets back to the user: on a step, the bar does not stay for good
\* while nothing is cancelled.  (A cancelled task does not report, and on the
\* status page each answer to a disconnection starts another look.)
BusyEnds == busy = "on" /\ page \in Steps ~> busy # "on" \/ page = Status \/ Cancelling

\* setup.py: an intent is "one provider as the user left it in the form".
ReviewedIntentHasItsKey == page = Review => intent.key = intent.provider
=============================================================================

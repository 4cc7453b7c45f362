---------------------------- MODULE WizardProofs ----------------------------
(***************************************************************************)
(* What the setup window keeps, for any providers, clients and machines,   *)
(* and any number of tasks at a time.                                      *)
(*                                                                         *)
(* The invariant is one of the handlers alone: the pool's results arrive   *)
(* in any order and on any page, so each handler must leave the form, the  *)
(* plan and the page as the others expect them.  The plan kept for Enable  *)
(* and the plan on the review page are one, and the key in the field is    *)
(* empty or of the provider chosen.                                        *)
(***************************************************************************)
EXTENDS Wizard, WellFoundedInduction, TLAPS

\* A key that is being checked is its provider's; the checks end in a verdict.
TaskOK(w) ==
  /\ w.kind = "check" => w.intent.key = w.intent.provider
  /\ w.kind = "diagnose" /\ w.state = "finished" => w.result \in {"clear", "blocked"}

TasksOK(tasks) ==
  /\ tasks \in [Slots -> Task \union {NoTask}]
  /\ \A s \in Slots : TaskOK(tasks[s])

\* The form holds at most the key of the provider that is chosen, on its page.
FormOK(pg, pv, fd) ==
  /\ pg \in Welcome..Status /\ pv \in Providers \union {None}
  /\ fd \in {None, pv}
  /\ fd # None => pg = Provider

\* The plan that would be applied is the plan that was shown.
BuiltOK(it, pl, rv) ==
  /\ it \in Intent \union {NoIntent} /\ pl \in Plan \union {NoPlan}
  /\ pl = rv

Inv ==
  /\ FormOK(page, provider, field) /\ primary \in BOOLEAN
  /\ BuiltOK(intent, plan, review)
  /\ checks \in {"none", "blocked", "clear"}
  /\ TasksOK(task)
  /\ current \in Slots /\ busy \in {"off", "on", "stuck"}
  /\ config \in Saved

Pages == Welcome = 0 /\ Checks = 1 /\ Provider = 2 /\ Client = 3 /\ Review = 4 /\ Finish = 5
           /\ Status = 6 /\ Steps = 0..5

LEMMA PagesAre == Pages
BY DEF Pages, Welcome, Checks, Provider, Client, Review, Finish, Status, Steps

-----------------------------------------------------------------------------
(***************************************************************************)
(* What work carries, and what starting it or turning the page does.       *)
(***************************************************************************)
\* The order of the slots, which has a least one.
Before == {p \in Nat \X Nat : p[1] < p[2]}

LEMMA FirstSlotIs == FirstSlot \in Slots
<1>1. IsWellFoundedOn(Before, Nat)
  BY NatLessThanWellFounded, Zenon DEF Before, OpToRel
<1>2. PICK s \in Slots : \A t \in Slots : <<t, s>> \notin Before
  BY <1>1, WizardAssumption, WFMin, Zenon
<1>3. Slots \subseteq Nat
  BY WizardAssumption
<1>4. \A t \in Slots : ~(t < s)
  <2>1. SUFFICES ASSUME NEW t \in Slots, t < s PROVE FALSE
    OBVIOUS
  <2>2. <<t, s>> \in Before
    BY <1>3, <2>1 DEF Before
  <2> QED BY <1>2, <2>2
<1>5. \A t \in Slots : s <= t
  BY <1>3, <1>4
<1> QED BY <1>5 DEF FirstSlot

LEMMA WorkTyped ==
  ASSUME NEW kind \in Kinds
  PROVE  /\ Work(kind) \in Task /\ Work(kind).kind = kind /\ Work(kind).state = "running"
         /\ Work(kind).intent = NoIntent
         /\ kind # "check" => TaskOK(Work(kind))
BY DEF Work, Task, Results, TaskOK

LEMMA NoTaskOK == TaskOK(NoTask)
BY DEF NoTask, TaskOK

LEMMA TaskFacts ==
  ASSUME Inv, NEW s \in Slots, ~Free(s)
  PROVE  task[s] \in Task /\ TaskOK(task[s])
BY DEF Inv, TasksOK, Free

LEMMA OverOK ==
  ASSUME Inv, NEW s \in Slots
  PROVE  TasksOK(Over(s))
<1>1. Over(s) \in [Slots -> Task \union {NoTask}]
  BY DEF Over, Inv, TasksOK
<1>2. \A t \in Slots : Over(s)[t] = IF t = s THEN NoTask ELSE task[t]
  BY DEF Over, Inv, TasksOK
<1> QED BY <1>1, <1>2, NoTaskOK DEF TasksOK, Inv

LEMMA StartOK ==
  ASSUME NEW tasks, TasksOK(tasks), NEW work \in Task, TaskOK(work), Start(tasks, work)
  PROVE  /\ TasksOK(task') /\ current' \in Slots /\ busy' = "on"
         /\ \A s \in Slots : task'[s] = tasks[s] \/ task'[s] = work
<1>1. PICK s \in Slots : task' = [tasks EXCEPT ![s] = work] /\ current' = s /\ busy' = "on"
  BY DEF Start
<1>2. \A t \in Slots : task'[t] = IF t = s THEN work ELSE tasks[t]
  BY <1>1 DEF TasksOK
<1>3. task' \in [Slots -> Task \union {NoTask}]
  BY <1>1 DEF TasksOK
<1> QED BY <1>1, <1>2, <1>3 DEF TasksOK

LEMMA KeyLeftIs == Inv => KeyLeft = None
BY PagesAre DEF Inv, FormOK, KeyLeft

\* The page is turned, and the key field is empty then.
LEMMA PageTurns ==
  ASSUME Inv, NEW to \in Welcome..Status, ShowPage(to)
  PROVE  page' = to /\ field' = None /\ primary' \in BOOLEAN
<1>1. page' = to /\ field' = None
  BY KeyLeftIs DEF ShowPage
<1>2. primary' = IsReady(to, field') \/ primary' = (primary /\ field' = field)
  BY DEF ShowPage
<1>3. primary' \in BOOLEAN
  BY <1>2, Zenon DEF IsReady
<1> QED BY <1>1, <1>3

LEMMA StepTurns ==
  ASSUME Inv, NEW to \in Steps, NEW tasks, TasksOK(tasks), ShowStep(to, tasks)
  PROVE  /\ page' = to /\ field' = None /\ primary' \in BOOLEAN
         /\ TasksOK(task') /\ current' \in Slots
<1>1. CASE to # Checks /\ ShowPage(to) /\ task' = tasks /\ UNCHANGED current
  BY <1>1, PageTurns, PagesAre DEF Inv, Pages
<1>2. CASE Start(tasks, Work("diagnose")) /\ page' = to /\ field' = KeyLeft /\ primary' = FALSE
  BY <1>2, WorkTyped, StartOK, KeyLeftIs DEF Kinds
<1> QED BY <1>1, <1>2 DEF ShowStep

-----------------------------------------------------------------------------
(***************************************************************************)
(* The user's actions.                                                     *)
(***************************************************************************)
LEMMA FormKeeps ==
  ASSUME Inv, Form
  PROVE  Inv'
<1>1. CASE RunChecks
  <2>1. TasksOK(task') /\ current' \in Slots /\ busy' = "on"
    BY <1>1, WorkTyped, StartOK DEF RunChecks, Kinds, Inv
  <2> QED BY <1>1, <2>1 DEF RunChecks, Inv, form, built
<1>2. CASE Choose
  <2>1. FormOK(page', provider', field')
    BY <1>2 DEF Choose, Inv, FormOK
  <2> QED BY <1>2, <2>1 DEF Choose, Inv, built, bar
<1>3. CASE Type
  <2>1. FormOK(page', provider', field')
    BY <1>3 DEF Type, Inv, FormOK
  <2>2. primary' \in BOOLEAN
    BY <1>3 DEF Type
  <2> QED BY <1>3, <2>1, <2>2 DEF Type, Inv, built, bar
<1>4. CASE Back
  <2>1. page - 1 \in Steps
    BY <1>4, PagesAre DEF Back, Pages
  <2>2. /\ page' = page - 1 /\ field' = None /\ primary' \in BOOLEAN
        /\ TasksOK(task') /\ current' \in Slots
    BY <1>4, <2>1, StepTurns DEF Back, Inv
  <2>3. FormOK(page', provider', field')
    BY <1>4, <2>1, <2>2, PagesAre DEF Back, Inv, FormOK, Pages
  <2> QED BY <1>4, <2>2, <2>3 DEF Back, Inv, built
<1>5. CASE CancelTask
  <2> DEFINE w == [task[current] EXCEPT !.cancelled = TRUE]
  <2>1. task' = [task EXCEPT ![current] = w] /\ ~Free(current)
    BY <1>5 DEF CancelTask, In
  <2>2. task[current] \in Task /\ TaskOK(task[current])
    BY <2>1, TaskFacts DEF Inv
  <2>3. w \in Task /\ TaskOK(w)
    BY <2>2 DEF Task, TaskOK
  <2> HIDE DEF w
  <2>4. TasksOK(task')
    BY <2>1, <2>3 DEF TasksOK, Inv
  <2> QED BY <1>5, <2>4 DEF CancelTask, Inv, form, built, bar
<1> QED BY <1>1, <1>2, <1>3, <1>4, <1>5 DEF Form

\* A request: its work starts, and what the window shows stays.
LEMMA RequestKeeps ==
  ASSUME Inv, NEW work \in Task, TaskOK(work), Request(work),
         FormOK(page', provider', field'), UNCHANGED <<built, checks, config>>
  PROVE  Inv'
BY StartOK DEF Request, Inv, built

\* The work that applies a plan carries the plan that is shown.
LEMMA AppliesWork ==
  ASSUME Inv
  PROVE  LET w == [Work("apply") EXCEPT !.intent = intent, !.plan = plan]
         IN  w \in Task /\ TaskOK(w) /\ w.plan = plan /\ w.kind = "apply"
<1>1. /\ Work("apply") \in Task /\ Work("apply").kind = "apply" /\ Work("apply").state = "running"
  BY WorkTyped DEF Kinds
<1> QED BY <1>1 DEF Task, TaskOK, Inv, BuiltOK

LEMMA AppliesKeeps ==
  ASSUME Inv, Applies
  PROVE  Inv'
BY AppliesWork, RequestKeeps DEF Applies, form, Inv

LEMMA CheckKeyWork ==
  ASSUME Inv, field # None, provider # None
  PROVE  LET w == [Work("check") EXCEPT !.intent =
                     [NoIntent EXCEPT !.provider = provider, !.key = field]]
         IN  w \in Task /\ TaskOK(w) /\ w.kind = "check"
<1> DEFINE i == [NoIntent EXCEPT !.provider = provider, !.key = field]
<1>1. i \in Intent /\ i.key = i.provider
  BY DEF Inv, FormOK, NoIntent, Intent
<1> HIDE DEF i
<1>2. Work("check") \in Task /\ Work("check").kind = "check" /\ Work("check").state = "running"
  BY WorkTyped DEF Kinds
<1>3. LET w == [Work("check") EXCEPT !.intent = i]
      IN  w \in Task /\ TaskOK(w) /\ w.kind = "check"
  BY <1>1, <1>2 DEF Task, TaskOK
<1> QED BY <1>3 DEF i

LEMMA PrepareReviewKeeps ==
  ASSUME Inv, PrepareReview
  PROVE  Inv'
<1>1. PICK client \in Clients :
        /\ MakeIntent(client)
        /\ \/ StayAtClient /\ UNCHANGED plan
           \/ plan' = Reviewed(client) /\ ShowPlan(client)
  BY DEF PrepareReview
<1>2. provider \in Providers /\ intent' \in Intent
  BY <1>1 DEF MakeIntent, Inv, FormOK, Intent
<1>3. Reviewed(client) \in Plan
  BY <1>2 DEF Reviewed, Plan
<1>4. CASE StayAtClient /\ UNCHANGED plan
  BY <1>2, <1>4 DEF StayAtClient, PrepareReview, Inv, BuiltOK, bar
<1>5. CASE plan' = Reviewed(client) /\ ShowPlan(client)
  <2>1. FormOK(page', provider', field') /\ primary' = TRUE
    BY <1>5, KeyLeftIs, PagesAre DEF ShowPlan, PrepareReview, Inv, FormOK, Pages
  <2> QED BY <1>2, <1>3, <1>5, <2>1 DEF ShowPlan, PrepareReview, Inv, BuiltOK, bar
<1> QED BY <1>1, <1>4, <1>5

LEMMA PrimaryKeeps ==
  ASSUME Inv, Primary
  PROVE  Inv'
<1>1. CASE Proceed
  <2>1. page + 1 \in Steps
    BY <1>1, PagesAre DEF Proceed, Pages
  <2>2. /\ page' = page + 1 /\ field' = None /\ primary' \in BOOLEAN
        /\ TasksOK(task') /\ current' \in Slots
    BY <1>1, <2>1, StepTurns DEF Proceed, Inv
  <2>3. FormOK(page', provider', field')
    BY <1>1, <2>1, <2>2, PagesAre DEF Proceed, Inv, FormOK, Pages
  <2> QED BY <1>1, <2>2, <2>3 DEF Proceed, Inv, built
<1>2. CASE CheckKey
  BY <1>2, CheckKeyWork, RequestKeeps DEF CheckKey, form, Inv
<1>3. CASE Enable
  BY <1>3, AppliesKeeps DEF Enable
<1>4. CASE Leave
  <2>1. FormOK(page', provider', field')
    BY <1>4, PagesAre DEF Leave, form, Inv, FormOK, Pages
  <2> QED BY <1>4, <2>1, WorkTyped, RequestKeeps DEF Leave, Kinds
<1> QED BY <1>1, <1>2, <1>3, <1>4, PrepareReviewKeeps DEF Primary

LEMMA StatusPageKeeps ==
  ASSUME Inv, StatusPage
  PROVE  Inv'
<1>1. CASE Recheck \/ Disconnect
  BY <1>1, WorkTyped, RequestKeeps DEF Recheck, Disconnect, Kinds, form, Inv
<1>2. CASE ManageProviders
  <2>1. page' = Provider /\ field' = None /\ primary' \in BOOLEAN
    BY <1>2, PageTurns, PagesAre DEF ManageProviders, Pages
  <2>2. FormOK(page', provider', field')
    BY <1>2, <2>1, PagesAre DEF ManageProviders, Inv, FormOK, Pages
  <2> QED BY <1>2, <2>1, <2>2 DEF ManageProviders, Inv, built, bar
<1>3. CASE Repair
  BY <1>3, AppliesKeeps DEF Repair
<1> QED BY <1>1, <1>2, <1>3 DEF StatusPage

-----------------------------------------------------------------------------
(***************************************************************************)
(* The pool.                                                               *)
(***************************************************************************)
LEMMA AppliedSaves ==
  ASSUME Inv, NEW w \in Task, NEW m, NEW end \in Applied(w, m)
  PROVE  end.config \in Saved /\ end.result \in {"applied", "raised"}
<1> DEFINE next == [NotSaved EXCEPT !.state = "saved", !.provider = w.plan.provider,
                      !.keyed = TRUE, !.client = w.plan.client]
<1>1. w.plan.provider \in Providers \union {None} /\ w.plan.client \in Clients \union {None}
  BY DEF Task, Plan, NoPlan
<1>2. next \in Saved
  BY <1>1 DEF NotSaved, Saved
<1>3. end \in {Same("raised"), Same("applied"), Ending("applied", next), Ending("raised", next)}
  BY DEF Applied
<1> HIDE DEF next
<1> QED BY <1>2, <1>3 DEF Same, Ending, Inv

LEMMA DisconnectedSaves ==
  ASSUME Inv, NEW m, NEW end \in Disconnected(m)
  PROVE  end.config \in Saved /\ end.result \in {"left", "raised"}
<1> DEFINE without == [config EXCEPT !.client = None]
<1>1. without \in Saved /\ NotSaved \in Saved
  BY DEF Inv, Saved, NotSaved
<1>2. config.state \in {"missing", "unreadable", "saved"}
  BY DEF Inv, Saved
<1>3. end \in {Same("left"), Same("raised"), Ending("raised", without), Ending("left", without),
               Ending("left", NotSaved)}
  BY <1>2 DEF Disconnected
<1> HIDE DEF without
<1> QED BY <1>1, <1>3 DEF Same, Ending, Inv

\* What a task that is over reports is what its kind reports.
LEMMA EndingsAre ==
  ASSUME Inv, NEW s \in Slots, ~Free(s), NEW m, NEW end \in Endings(s, m)
  PROVE  /\ end.config \in Saved
         /\ end.result = "raised" \/
            [Work(task[s].kind) EXCEPT !.state = "finished", !.result = end.result] \in Task
         /\ task[s].kind = "diagnose" => end.result \in {"clear", "blocked", "raised"}
<1> DEFINE w == task[s]
<1>1. w \in Task /\ w.kind \in Kinds
  BY TaskFacts DEF Task
<1>2. /\ config \in Saved
      /\ \A r : Same(r).config = config /\ Same(r).result = r
  BY DEF Inv, Same, Ending
<1>3. /\ end.config \in Saved
      /\ end.result \in Results \union {"raised"}
      /\ w.kind = "diagnose" => end.result \in {"clear", "blocked", "raised"}
  <2>1. CASE w.kind = "diagnose"
    <3>1. end \in {Same("raised"), Same("blocked"), Same("clear")}
      BY <2>1 DEF Endings
    <3> QED BY <3>1, <1>2, <2>1 DEF Results
  <2>2. CASE w.kind = "check"
    <3>1. end \in {Same("usable"), Same("rejected"), Same("raised")}
      BY <2>2 DEF Endings
    <3> QED BY <3>1, <1>2, <2>2 DEF Results
  <2>3. CASE w.kind = "status"
    <3>1. end \in {Same("raised"), Same("read")}
      BY <2>3 DEF Endings
    <3> QED BY <3>1, <1>2, <2>3 DEF Results
  <2>4. CASE w.kind = "apply"
    <3>1. end \in Applied(w, m) \/ end = Same("raised")
      BY <2>4 DEF Endings
    <3> QED BY <3>1, <1>1, <1>2, <2>4, AppliedSaves DEF Results
  <2>5. CASE w.kind = "disconnect"
    <3>1. end \in Disconnected(m) \/ end = Same("raised")
      BY <2>5 DEF Endings
    <3> QED BY <3>1, <1>2, <2>5, DisconnectedSaves DEF Results
  <2> QED BY <1>1, <2>1, <2>2, <2>3, <2>4, <2>5 DEF Kinds
<1>4. CASE end.result \in Results
  BY <1>1, <1>3, <1>4 DEF Work, Task
<1> QED BY <1>3, <1>4

\* What is left of a task that is over still says of its kind what it must.
LEMMA EndKeeps ==
  ASSUME Inv, NEW s \in Slots, End(s)
  PROVE  Inv'
<1>1. PICK m \in Machines : \E end \in Endings(s, m) :
        /\ config' = end.config
        /\ task' = [task EXCEPT ![s] =
             IF end.result = "raised" THEN [Work(@.kind) EXCEPT !.state = "failed"]
             ELSE IF @.cancelled THEN NoTask
             ELSE [Work(@.kind) EXCEPT !.state = "finished", !.result = end.result]]
        /\ busy' = IF task'[s] = NoTask /\ s = current /\ busy = "on" THEN "stuck" ELSE busy
  BY DEF End
<1>2. PICK end \in Endings(s, m) :
        /\ config' = end.config
        /\ task' = [task EXCEPT ![s] =
             IF end.result = "raised" THEN [Work(@.kind) EXCEPT !.state = "failed"]
             ELSE IF @.cancelled THEN NoTask
             ELSE [Work(@.kind) EXCEPT !.state = "finished", !.result = end.result]]
        /\ busy' = IF task'[s] = NoTask /\ s = current /\ busy = "on" THEN "stuck" ELSE busy
  BY <1>1
<1> DEFINE failed == [Work(task[s].kind) EXCEPT !.state = "failed"]
           finished == [Work(task[s].kind) EXCEPT !.state = "finished", !.result = end.result]
           rest == IF end.result = "raised" THEN failed
                   ELSE IF task[s].cancelled THEN NoTask ELSE finished
<1>3. ~Free(s)
  BY DEF End, In
<1>4. task[s] \in Task /\ task[s].kind \in Kinds
  BY <1>3, TaskFacts DEF Task
<1>5. /\ Work(task[s].kind) \in Task /\ Work(task[s].kind).kind = task[s].kind
      /\ Work(task[s].kind).intent = NoIntent
  BY <1>4, WorkTyped
<1>6. failed \in Task /\ TaskOK(failed)
  BY <1>5 DEF Task, TaskOK, NoIntent
<1>7. end.result # "raised" => finished \in Task
  BY <1>3, EndingsAre
<1>8. end.result # "raised" => TaskOK(finished)
  <2>1. task[s].kind = "diagnose" => end.result \in {"clear", "blocked", "raised"}
    BY <1>3, EndingsAre
  <2>2. finished.kind = task[s].kind /\ finished.result = end.result
        /\ finished.intent = NoIntent
    BY <1>5 DEF Task, Work
  <2> QED BY <2>1, <2>2 DEF TaskOK, NoIntent
<1>9. task' = [task EXCEPT ![s] = rest]
  BY <1>2
<1> HIDE DEF failed, finished
<1>10. rest \in Task \union {NoTask} /\ TaskOK(rest)
  BY <1>6, <1>7, <1>8, NoTaskOK
<1>11. TasksOK(task')
  <2> HIDE DEF rest
  <2>1. task' \in [Slots -> Task \union {NoTask}]
    BY <1>9, <1>10 DEF Inv, TasksOK
  <2>2. \A t \in Slots : task'[t] = IF t = s THEN rest ELSE task[t]
    BY <1>9 DEF Inv, TasksOK
  <2> QED BY <1>10, <2>1, <2>2 DEF Inv, TasksOK
<1>12. config' \in Saved
  BY <1>2, <1>3, EndingsAre
<1>13. busy' \in {"off", "on", "stuck"}
  BY <1>2 DEF Inv
<1> QED BY <1>11, <1>12, <1>13 DEF End, Inv, form, built

-----------------------------------------------------------------------------
(***************************************************************************)
(* Events, and a window that opens.                                        *)
(***************************************************************************)
LEMMA EventsKeep ==
  ASSUME Inv, NEW s \in Slots,
         \/ Failed(s) \/ Reported(s) \/ ProviderChecked(s)
         \/ ShowOutcome(s) \/ ShowState(s) \/ Left(s)
  PROVE  Inv'
<1>1. TasksOK(Over(s))
  BY OverOK
<1>2. CASE Failed(s)
  BY <1>1, <1>2 DEF Failed, Inv, form, built
<1>3. CASE Reported(s)
  <2>1. ~Free(s) /\ task[s].kind = "diagnose" /\ task[s].state = "finished"
    BY <1>3 DEF Reported, Arrived, In
  <2>2. checks' \in {"clear", "blocked"}
    BY <1>3, <2>1, TaskFacts DEF Reported, TaskOK
  <2>3. primary' \in BOOLEAN
    BY <1>3 DEF Reported
  <2> QED BY <1>1, <1>3, <2>2, <2>3 DEF Reported, Inv, form, built
<1>4. CASE ProviderChecked(s)
  <2>1. task' = Over(s) /\ current' = current /\ busy' = "off"
    BY <1>4 DEF ProviderChecked
  <2>2. /\ FormOK(page', provider', field')
        /\ primary' \in BOOLEAN
    <3>1. CASE primary' = TRUE /\ UNCHANGED <<page, field>>
      BY <1>4, <3>1 DEF ProviderChecked, Inv
    <3>2. CASE ShowPage(Client)
      <4>1. page' = Client /\ field' = None /\ primary' \in BOOLEAN
        BY <3>2, PageTurns, PagesAre DEF Pages
      <4> QED BY <1>4, <4>1, PagesAre DEF ProviderChecked, Inv, FormOK, Pages
    <3> QED BY <1>4, <3>1, <3>2 DEF ProviderChecked
  <2> QED BY <1>1, <1>4, <2>1, <2>2 DEF ProviderChecked, Inv
<1>5. CASE ShowOutcome(s)
  <2>1. FormOK(page', provider', field')
    BY <1>5, PagesAre DEF ShowOutcome, Inv, FormOK, Pages
  <2> QED BY <1>1, <1>5, <2>1 DEF ShowOutcome, Inv, built
<1>6. CASE ShowState(s)
  BY <1>1, <1>6 DEF ShowState, Inv, form, built
<1>7. CASE Left(s)
  <2>1. TasksOK(task') /\ current' \in Slots /\ busy' = "on"
    BY <1>1, <1>7, WorkTyped, StartOK DEF Left, Kinds
  <2> QED BY <1>7, <2>1 DEF Left, Inv, form, built
<1> QED BY <1>2, <1>3, <1>4, <1>5, <1>6, <1>7

\* A window that opens.
LEMMA OpensTyped ==
  /\ FirstPage \in Welcome..Status
  /\ TasksOK([s \in Slots |-> FirstTask(s)])
<1>1. Work("status") \in Task /\ TaskOK(Work("status"))
  BY WorkTyped DEF Kinds
<1>2. \A s \in Slots : FirstTask(s) \in Task \union {NoTask} /\ TaskOK(FirstTask(s))
  BY <1>1, NoTaskOK DEF FirstTask
<1>3. FirstPage \in Welcome..Status
  BY PagesAre DEF FirstPage, Pages
<1> QED BY <1>2, <1>3 DEF TasksOK

LEMMA InitInv == Init => Inv
<1> SUFFICES ASSUME Init PROVE Inv
  OBVIOUS
<1>1. FormOK(page, provider, field) /\ primary \in BOOLEAN
  BY OpensTyped DEF Init, FormOK
<1>2. TasksOK(task) /\ current \in Slots
  BY OpensTyped, FirstSlotIs DEF Init
<1>3. config \in Saved
  BY WizardAssumption DEF Init
<1>4. busy \in {"off", "on", "stuck"}
  BY DEF Init
<1> QED BY <1>1, <1>2, <1>3, <1>4 DEF Init, Inv, BuiltOK

LEMMA ReopenKeeps ==
  ASSUME Inv, Reopen
  PROVE  Inv'
<1>1. page' \in Welcome..Status /\ TasksOK(task')
  BY OpensTyped DEF Reopen
<1>2. FormOK(page', provider', field')
  BY <1>1 DEF Reopen, FormOK
<1>3. current' \in Slots
  BY FirstSlotIs DEF Reopen
<1>4. primary' \in BOOLEAN /\ busy' \in {"off", "on", "stuck"}
  BY DEF Reopen
<1> QED BY <1>1, <1>2, <1>3, <1>4 DEF Reopen, Inv, BuiltOK

LEMMA NextInv == Inv /\ [Next]_vars => Inv'
<1> SUFFICES ASSUME Inv, [Next]_vars PROVE Inv'
  OBVIOUS
<1>1. CASE UNCHANGED vars
  BY <1>1 DEF vars, form, built, bar, Inv
<1>2. CASE Next
  BY <1>2, FormKeeps, PrimaryKeeps, StatusPageKeeps, EndKeeps, EventsKeep, ReopenKeeps
     DEF Next, Pool, Events
<1> QED BY <1>1, <1>2

\* The inductive invariant holds in every state of every behaviour.
THEOREM InvariantHolds == Spec => []Inv
BY InitInv, NextInv, PTL DEF Spec

\* Every variable keeps its type.
THEOREM TypesHold == Spec => []TypeOK
<1>1. Inv => TypeOK
  <2> SUFFICES ASSUME Inv PROVE TypeOK
    OBVIOUS
  <2>1. review \in Plan \union {NoPlan}
    BY DEF Inv, BuiltOK
  <2>2. \A s \in Slots : Free(s) \/ task[s] \in Task
    BY TaskFacts
  <2>3. field \in Providers \union {None}
    BY DEF Inv, FormOK
  <2> QED BY <2>1, <2>2, <2>3 DEF Inv, FormOK, BuiltOK, TypeOK
<1> QED BY <1>1, InvariantHolds, PTL

\* Whichever result turns the page, a key is in the form on the provider step only.
THEOREM SecretsLeave == Spec => []SecretLeavesWithItsStep
<1>1. Inv => SecretLeavesWithItsStep
  BY DEF Inv, FormOK, SecretLeavesWithItsStep
<1> QED BY <1>1, InvariantHolds, PTL

\* A key check in progress or on its way back is of the provider whose key it has,
\* whatever was chosen or typed since it began.
THEOREM KeysGoHome == Spec => []KeyGoesToItsProvider
<1>1. Inv => KeyGoesToItsProvider
  BY TaskFacts DEF KeyGoesToItsProvider, TaskOK
<1> QED BY <1>1, InvariantHolds, PTL

-----------------------------------------------------------------------------
(***************************************************************************)
(* What is applied.                                                        *)
(***************************************************************************)
\* No slot that was free holds work that applies.
NoApply(before, after) ==
  \A s \in Slots : before[s] = NoTask => after[s].kind # "apply"

LEMMA StartIsNoApply ==
  ASSUME Inv, NEW s \in Slots, NEW tasks, tasks = task \/ tasks = Over(s),
         NEW kind \in Kinds \ {"apply"}, NEW work \in Task, work.kind = kind,
         TaskOK(work), Start(tasks, work)
  PROVE  NoApply(task, task')
<1>1. TasksOK(tasks)
  BY OverOK DEF Inv
<1>2. \A t \in Slots : task'[t] = tasks[t] \/ task'[t] = work
  BY <1>1, StartOK
<1>3. \A t \in Slots : task[t] = NoTask => tasks[t] = NoTask
  BY DEF Over, Inv, TasksOK
<1> QED BY <1>2, <1>3 DEF NoApply, NoTask

\* The work of every request but these two is of another kind.
LEMMA OnlyAppliesApplies ==
  ASSUME Inv, Next, ~Enable, ~Repair
  PROVE  NoApply(task, task')
<1>0. PICK z \in Slots : TRUE
  BY WizardAssumption
<1>1. \A kind \in Kinds \ {"apply", "check"} : Start(task, Work(kind)) => NoApply(task, task')
  BY <1>0, WorkTyped, StartIsNoApply
<1>2. UNCHANGED task => NoApply(task, task')
  BY DEF NoApply, NoTask
<1>3. \A s \in Slots : task' = Over(s) => NoApply(task, task')
  BY DEF NoApply, NoTask, Over, Inv, TasksOK
<1>4. CASE Form
  <2>1. CASE CancelTask
    BY <2>1 DEF CancelTask, In, Free, NoApply, NoTask, Inv, TasksOK
  <2> QED BY <1>1, <1>2, <1>4, <2>1
     DEF Form, RunChecks, Choose, Type, Back, ShowStep, Kinds
<1>5. CASE Primary
  <2>1. CASE CheckKey
    <3> DEFINE w == [Work("check") EXCEPT !.intent =
                       [NoIntent EXCEPT !.provider = provider, !.key = field]]
    <3>1. w \in Task /\ TaskOK(w) /\ w.kind = "check"
      BY <2>1, CheckKeyWork DEF CheckKey
    <3>2. Start(task, w)
      BY <2>1 DEF CheckKey, Request
    <3> HIDE DEF w
    <3> QED BY <1>0, <3>1, <3>2, StartIsNoApply DEF Kinds
  <2> QED BY <1>1, <1>2, <1>5, <2>1
     DEF Primary, Proceed, PrepareReview, Leave, Request, ShowStep, Kinds
<1>6. CASE StatusPage
  BY <1>1, <1>2, <1>6 DEF StatusPage, Recheck, ManageProviders, Disconnect, Request, Kinds
<1>7. CASE Pool
  BY <1>7 DEF Pool, End, In, Free, NoApply, NoTask, Inv, TasksOK
<1>8. CASE Events
  <2>1. PICK s \in Slots : \/ Failed(s) \/ Reported(s) \/ ProviderChecked(s)
                           \/ ShowOutcome(s) \/ ShowState(s) \/ Left(s)
    BY <1>8 DEF Events
  <2>2. CASE Left(s)
    BY <2>2, WorkTyped, StartIsNoApply DEF Left, Kinds
  <2> QED BY <1>3, <2>1, <2>2 DEF Failed, Reported, ProviderChecked, ShowOutcome, ShowState
<1>9. CASE Reopen
  <2>1. \A s \in Slots : FirstTask(s).kind # "apply"
    BY DEF FirstTask, Work, NoTask
  <2> QED BY <1>9, <2>1 DEF Reopen, NoApply
<1> QED BY <1>4, <1>5, <1>6, <1>7, <1>8, <1>9 DEF Next

LEMMA AppliesPlan ==
  ASSUME Inv, plan # NoPlan, Applies, NEW s \in Slots, Free(s), task'[s].kind = "apply"
  PROVE  task'[s].plan = review /\ review # NoPlan
<1> DEFINE w == [Work("apply") EXCEPT !.intent = intent, !.plan = plan]
<1>1. w \in Task /\ TaskOK(w) /\ w.plan = plan /\ w.kind = "apply"
  BY AppliesWork
<1>2. Start(task, w) /\ TasksOK(task)
  BY DEF Applies, Request, Inv
<1> HIDE DEF w
<1>3. task'[s] = task[s] \/ task'[s] = w
  BY <1>1, <1>2, StartOK
<1>4. task'[s] = w
  BY <1>3 DEF Free, NoTask
<1> QED BY <1>1, <1>4 DEF Inv, BuiltOK

\* Enable and Repair apply the plan that the review page showed last.
THEOREM ShownPlansAreApplied == Spec => AppliesWhatWasShown
<1>1. Inv /\ [Next]_vars =>
        [\A s \in Slots :
           Free(s) /\ ~Free(s)' /\ task'[s].kind = "apply" =>
             task'[s].plan = review /\ review # NoPlan]_vars
  <2> SUFFICES ASSUME Inv, Next, NEW s \in Slots, Free(s), task'[s].kind = "apply"
               PROVE  task'[s].plan = review /\ review # NoPlan
    OBVIOUS
  <2>1. CASE Enable \/ Repair
    BY <2>1, AppliesPlan DEF Enable, Repair
  <2>2. CASE ~Enable /\ ~Repair
    BY <2>2, OnlyAppliesApplies DEF NoApply, Free
  <2> QED BY <2>1, <2>2
<1> QED BY <1>1, InvariantHolds, PTL DEF Spec, AppliesWhatWasShown
=============================================================================

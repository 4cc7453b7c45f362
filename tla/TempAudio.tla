----------------------------- MODULE TempAudio -----------------------------
(***************************************************************************)
(* The directory of relayed audio files shared by every engine process of  *)
(* a user session, with the processes that sweep it.                       *)
(*                                                                         *)
(* A file is a pair: "<token>.audio" and the claim "<token>.meta" that     *)
(* names its owner.  The two are created, read and removed by separate     *)
(* system calls, each of them one action here, while engines start, stop,  *)
(* crash and the machine reboots.                                          *)
(***************************************************************************)
EXTENDS Naturals, FiniteSets

CONSTANTS
  Tokens,        \* names of relayed files, each drawn once at random
  Engines,       \* engine processes, each started at most once
  Cleaners,      \* other threads and processes that sweep
  Host,          \* [Cleaners -> Engines \union {External}]
  External,      \* host of the cleanup timer, diagnostics and the setup window
  Stamp,         \* [Engines -> _]: PID and start ticks, unique within a boot
  TTL,           \* ttl_seconds
  MaxFiles,      \* aggregate bound, in downloaded files
  MaxTime, MaxBoot \* bounds of the instance

ASSUME TempAudioAssumption ==
  /\ Host \in [Cleaners -> Engines \union {External}] /\ External \notin Engines
  /\ Engines \intersect Cleaners = {}
  /\ TTL \in Nat \ {0} /\ MaxFiles \in Nat /\ MaxTime \in Nat /\ MaxBoot \in Nat

Actors == Engines \union Cleaners   \* an engine is its event loop's thread

VARIABLES
  now, boot,     \* the clock, the boot identifier
  alive,         \* running engines
  born,          \* [Engines -> boot each was started in; 0 before]
  audio,         \* [Tokens -> {"absent", "empty", "data"}]
  meta,          \* [Tokens -> MetaFile]
  use,           \* [Tokens -> what its owner is doing with it]
  owner,         \* [Tokens -> engine that created it, or External before]
  actor          \* [Actors -> ActorState]

vars == <<now, boot, alive, born, audio, meta, use, owner, actor>>

NoMeta == [kind |-> "none"]
MetaFile ==
  {NoMeta} \union [kind: {"partial"}, at: Nat]
           \union [kind: {"claim"}, stamp: {Stamp[e] : e \in Engines}, boot: Nat,
                   expires: Nat]

Uses == {"unused", "creating", "held", "writing", "ready", "done", "cancelled", "orphaned"}
InUse == {"held", "writing", "ready"}

Steps == {"idle", "scan", "unlink", "unlinkMeta", "scanMeta", "dropMeta",
          "bound", "claim", "write"}
Jobs == {"none", "sweep", "purge", "create", "exit"}

\* `since` and `boot` are read once, before the directory is listed; `settled`
\* is history: the files that carried a live owner's claim at that moment.
ActorState ==
  [job: Jobs, step: Steps, todo: SUBSET Tokens, target: SUBSET Tokens,
   since: Nat, boot: Nat, settled: SUBSET Tokens]
Resting == [job |-> "none", step |-> "idle", todo |-> {}, target |-> {},
            since |-> 0, boot |-> 0, settled |-> {}]

Init ==
  /\ now = 0 /\ boot = 1
  /\ alive = {} /\ born = [e \in Engines |-> 0]
  /\ audio = [t \in Tokens |-> "absent"]
  /\ meta = [t \in Tokens |-> NoMeta]
  /\ use = [t \in Tokens |-> "unused"]
  /\ owner = [t \in Tokens |-> External]
  /\ actor = [a \in Actors |-> Resting]

-----------------------------------------------------------------------------
(***************************************************************************)
(* Claims.                                                                 *)
(***************************************************************************)
\* A process with the claim's PID and start ticks is running.
OwnerAlive(claim) == \E e \in alive : Stamp[e] = claim.stamp

\* Mutants of Reclaimable: PIDs are compared across boots; the lifetime of a
\* claim is counted twice; a file without a claim is left alone.
ReclaimableAnyBoot(t, since, atBoot) ==
  CASE meta[t].kind = "none" -> TRUE
    [] meta[t].kind = "partial" -> since > meta[t].at + TTL
    [] meta[t].kind = "claim" -> since >= meta[t].expires \/ ~OwnerAlive(meta[t])

ReclaimableEarly(t, since, atBoot) ==
  CASE meta[t].kind = "none" -> TRUE
    [] meta[t].kind = "partial" -> since > meta[t].at
    [] meta[t].kind = "claim" -> since + TTL >= meta[t].expires

ReclaimableIfClaimed(t, since, atBoot) ==
  meta[t].kind = "claim" /\ (since >= meta[t].expires \/ ~OwnerAlive(meta[t]))

\* _is_reclaimable, for a sweep that read the clock and the boot id earlier.
Reclaimable(t, since, atBoot) ==
  CASE meta[t].kind = "none" -> TRUE
    [] meta[t].kind = "partial" -> since > meta[t].at + TTL
    [] meta[t].kind = "claim" -> \/ meta[t].boot # atBoot
                                 \/ since >= meta[t].expires
                                 \/ ~OwnerAlive(meta[t])

LiveClaim(t) == meta[t].kind = "claim" /\ owner[t] \in alive /\ now < meta[t].expires

Present == {t \in Tokens : audio[t] # "absent"}

\* The state in which an actor begins to sweep for a job.
Sweeping(job) ==
  [job |-> job, step |-> "scan", todo |-> Present, target |-> {},
   since |-> now, boot |-> boot, settled |-> {t \in Tokens : LiveClaim(t)}]

-----------------------------------------------------------------------------
(***************************************************************************)
(* One sweep, by any actor.                                                *)
(***************************************************************************)
Running(a) == IF a \in Engines THEN a \in alive
              ELSE Host[a] = External \/ Host[a] \in alive

Unchanged(S) == /\ UNCHANGED <<now, boot, alive, born, owner>>
                /\ "audio" \in S => UNCHANGED audio
                /\ "meta" \in S => UNCHANGED meta
                /\ "use" \in S => UNCHANGED use

Inspect(a, t) ==
  /\ actor[a].step = "scan" /\ t \in actor[a].todo
  /\ LET gone == audio[t] = "absent"     \* lstat fails: not reclaimable
         take == \/ actor[a].job = "purge"
                 \/ ~gone /\ Reclaimable(t, actor[a].since, actor[a].boot)
     IN  actor' = [actor EXCEPT ![a].todo = @ \ {t},
                                ![a].target = IF take THEN {t} ELSE {},
                                ![a].step = IF take THEN "unlink" ELSE "scan"]
  /\ Unchanged({"audio", "meta", "use"})

Unlink(a) ==
  /\ actor[a].step = "unlink"
  /\ audio' = [t \in Tokens |-> IF t \in actor[a].target THEN "absent" ELSE audio[t]]
  /\ actor' = [actor EXCEPT ![a].step = "unlinkMeta"]
  /\ Unchanged({"meta", "use"})

RemoveMeta(a, from, to) ==
  /\ actor[a].step = from
  /\ meta' = [t \in Tokens |-> IF t \in actor[a].target THEN NoMeta ELSE meta[t]]
  /\ actor' = [actor EXCEPT ![a].step = to, ![a].target = {}]
  /\ Unchanged({"audio", "use"})

UnlinkMeta(a) == RemoveMeta(a, "unlinkMeta", "scan")

\* Mutant of ListMetas: only the claims of files that are there.
ListMetasPaired(a) ==
  /\ actor[a].step = "scan" /\ actor[a].todo = {}
  /\ actor' = [actor EXCEPT ![a].step = "scanMeta",
                            ![a].todo = {t \in Present : meta[t] # NoMeta}]
  /\ Unchanged({"audio", "meta", "use"})

\* The second pass: claims whose audio is gone.
ListMetas(a) ==
  /\ actor[a].step = "scan" /\ actor[a].todo = {}
  /\ actor' = [actor EXCEPT ![a].step = "scanMeta",
                            ![a].todo = {t \in Tokens : meta[t] # NoMeta}]
  /\ Unchanged({"audio", "meta", "use"})

InspectMeta(a, t) ==
  /\ actor[a].step = "scanMeta" /\ t \in actor[a].todo
  /\ LET take == audio[t] = "absent"
     IN  actor' = [actor EXCEPT ![a].todo = @ \ {t},
                                ![a].target = IF take THEN {t} ELSE {},
                                ![a].step = IF take THEN "dropMeta" ELSE "scanMeta"]
  /\ Unchanged({"audio", "meta", "use"})

DropMeta(a) == RemoveMeta(a, "dropMeta", "scanMeta")

\* The sweep returns: to create_file, to the end of the process, or to rest.
\* A process ends only when its sweeper thread has finished.
EndSweep(a) ==
  /\ actor[a].step = "scanMeta" /\ actor[a].todo = {}
  /\ CASE actor[a].job = "create" ->
            /\ actor' = [actor EXCEPT ![a].step = "bound"]
            /\ UNCHANGED alive
       [] actor[a].job = "exit" ->
            /\ \A k \in Cleaners : Host[k] = a => actor[k] = Resting
            /\ actor' = [actor EXCEPT ![a] = Resting]
            /\ alive' = alive \ {a}
       [] OTHER -> /\ actor' = [actor EXCEPT ![a] = Resting]
                   /\ UNCHANGED alive
  /\ UNCHANGED <<now, boot, born, owner, audio, meta, use>>

SweepStep(a) ==
  /\ Running(a)
  /\ \/ \E t \in Tokens : Inspect(a, t) \/ InspectMeta(a, t)
     \/ Unlink(a) \/ UnlinkMeta(a) \/ ListMetas(a) \/ DropMeta(a) \/ EndSweep(a)

\* A background pass, or for a process other than an engine a purge.
BeginSweep(k) ==
  /\ k \in Cleaners /\ Running(k) /\ actor[k] = Resting
  /\ \E job \in {"sweep"} \union (IF Host[k] = External THEN {"purge"} ELSE {}) :
       actor' = [actor EXCEPT ![k] = Sweeping(job)]
  /\ Unchanged({"audio", "meta", "use"})

-----------------------------------------------------------------------------
(***************************************************************************)
(* create_file, which runs on the event loop without yielding.             *)
(***************************************************************************)
BeginCreate(e, t) ==
  /\ e \in alive /\ actor[e] = Resting /\ use[t] = "unused"
  /\ now + TTL < MaxTime                \* bound: the claim can expire
  /\ use' = [use EXCEPT ![t] = "creating"]
  /\ owner' = [owner EXCEPT ![t] = e]
  /\ actor' = [actor EXCEPT ![e] = Sweeping("create")]
  /\ UNCHANGED <<now, boot, alive, born, audio, meta>>

Creating(e, t, step) ==
  e \in alive /\ actor[e].step = step /\ use[t] = "creating" /\ owner[t] = e

CreateAudio(e, t) ==
  /\ Creating(e, t, "bound")
  /\ IF Cardinality({u \in Tokens : audio[u] = "data"}) >= MaxFiles
     THEN /\ use' = [use EXCEPT ![t] = "done"]     \* TEMP_AUDIO_UNAVAILABLE
          /\ actor' = [actor EXCEPT ![e] = Resting]
          /\ UNCHANGED audio
     ELSE /\ audio' = [audio EXCEPT ![t] = "empty"]
          /\ actor' = [actor EXCEPT ![e].step = "claim"]
          /\ UNCHANGED use
  /\ Unchanged({"meta"})

\* Mutant of CreateClaim: the claim is dated one lifetime back.
CreateClaimBackdated(e, t) ==
  /\ Creating(e, t, "claim")
  /\ meta' = [meta EXCEPT ![t] = [kind |-> "partial", at |-> now - TTL]]
  /\ actor' = [actor EXCEPT ![e].step = "write"]
  /\ Unchanged({"audio", "use"})

CreateClaim(e, t) ==
  /\ Creating(e, t, "claim")
  /\ meta' = [meta EXCEPT ![t] = [kind |-> "partial", at |-> now]]
  /\ actor' = [actor EXCEPT ![e].step = "write"]
  /\ Unchanged({"audio", "use"})

\* The claim's text reaches the file, unless a sweep has unlinked it since.
WriteClaim(e, t) ==
  /\ Creating(e, t, "write")
  /\ meta' = [meta EXCEPT ![t] =
       IF @ = NoMeta THEN NoMeta
       ELSE [kind |-> "claim", stamp |-> Stamp[e], boot |-> boot, expires |-> now + TTL]]
  /\ use' = [use EXCEPT ![t] = "held"]
  /\ actor' = [actor EXCEPT ![e] = Resting]
  /\ Unchanged({"audio"})

-----------------------------------------------------------------------------
(***************************************************************************)
(* The request that holds a file (SourceBroker and a provider adapter).    *)
(***************************************************************************)
\* The owner's event loop is free to run the request's next step.
Turn(t) == owner[t] \in alive /\ actor[owner[t]] = Resting

\* open(path, "wb"): truncates the file, or makes it again if it was removed.
OpenForWriting(t) ==
  /\ Turn(t) /\ use[t] = "held"
  /\ audio' = [audio EXCEPT ![t] = "empty"]
  /\ use' = [use EXCEPT ![t] = "writing"]
  /\ UNCHANGED actor /\ Unchanged({"meta"})

\* The download completes; a removed file keeps its handle but not its name.
Downloaded(t) ==
  /\ Turn(t) /\ use[t] = "writing"
  /\ audio' = [audio EXCEPT ![t] = IF @ = "absent" THEN @ ELSE "data"]
  /\ use' = [use EXCEPT ![t] = "ready"]
  /\ UNCHANGED actor /\ Unchanged({"meta"})

\* Mutant of Finish: the audio is left for the next sweep.
FinishLeaving(t) ==
  /\ Turn(t) /\ use[t] \in InUse
  /\ use' = [use EXCEPT ![t] = "done"]
  /\ UNCHANGED actor /\ Unchanged({"audio", "meta"})

\* The request ends in success, failure, or cancelled while a provider has the
\* audio: the broker unlinks the audio.  A failed download does the same.
Finish(t) ==
  /\ Turn(t) /\ use[t] \in InUse
  /\ audio' = [audio EXCEPT ![t] = "absent"]
  /\ use' = [use EXCEPT ![t] = "done"]
  /\ UNCHANGED actor /\ Unchanged({"meta"})

\* Cancelled while it downloads: nothing unlinks the audio.
CancelDownload(t) ==
  /\ Turn(t) /\ use[t] \in {"held", "writing"}
  /\ use' = [use EXCEPT ![t] = "cancelled"]
  /\ UNCHANGED actor /\ Unchanged({"audio", "meta"})

-----------------------------------------------------------------------------
(***************************************************************************)
(* Processes and time.                                                     *)
(***************************************************************************)
Start(e) ==
  /\ born[e] = 0
  /\ \A f \in Engines : Stamp[f] = Stamp[e] => born[f] # boot
  /\ alive' = alive \union {e}
  /\ born' = [born EXCEPT ![e] = boot]
  /\ UNCHANGED <<now, boot, audio, meta, use, owner, actor>>

\* The client closes the pipe: in-flight requests are cancelled, then the
\* engine sweeps once more and ends.
BeginExit(e) ==
  /\ e \in alive /\ actor[e] = Resting
  /\ use' = [t \in Tokens |->
       IF owner[t] = e /\ use[t] \in {"held", "writing"} THEN "cancelled"
       ELSE IF owner[t] = e /\ use[t] = "ready" THEN "done" ELSE use[t]]
  /\ audio' = [t \in Tokens |->
       IF owner[t] = e /\ use[t] = "ready" THEN "absent" ELSE audio[t]]
  /\ actor' = [actor EXCEPT ![e] =
       [Sweeping("exit") EXCEPT !.todo = {t \in Tokens : audio'[t] # "absent"}]]
  /\ Unchanged({"meta"})

\* Processes die wherever they are; the files stay as they are.
Die(dead) ==
  /\ alive' = alive \ dead
  /\ actor' = [a \in Actors |->
       IF (a \in Engines /\ a \in dead) \/ (a \in Cleaners /\ Host[a] \in dead)
       THEN Resting ELSE actor[a]]
  /\ use' = [t \in Tokens |->
       IF owner[t] \in dead /\ use[t] \in InUse \union {"creating"}
       THEN "orphaned" ELSE use[t]]
  /\ UNCHANGED <<now, born, audio, meta, owner>>

Crash(e) == e \in alive /\ Die({e}) /\ UNCHANGED boot

Reboot ==
  /\ boot < MaxBoot
  /\ boot' = boot + 1
  /\ Die(Engines \union {External})

\* create_file takes no time on this clock.
Tick ==
  /\ now < MaxTime /\ \A e \in Engines : actor[e].job # "create"
  /\ now' = now + 1
  /\ UNCHANGED <<boot, alive, born, audio, meta, use, owner, actor>>

Next ==
  \/ \E a \in Actors : SweepStep(a)
  \/ \E k \in Cleaners : BeginSweep(k)
  \/ \E e \in Engines : \/ Start(e) \/ BeginExit(e) \/ Crash(e)
                        \/ \E t \in Tokens : \/ BeginCreate(e, t) \/ CreateAudio(e, t)
                                             \/ CreateClaim(e, t) \/ WriteClaim(e, t)
  \/ \E t \in Tokens : OpenForWriting(t) \/ Downloaded(t) \/ Finish(t) \/ CancelDownload(t)
  \/ Reboot \/ Tick

Spec == Init /\ [][Next]_vars

\* Time passes; a sweep that runs makes progress; the timer and the engines'
\* sweepers run again and again.  Nothing obliges a request to end.
Fairness ==
  /\ WF_vars(Tick)
  /\ \A a \in Actors : WF_vars(SweepStep(a))
  /\ \A k \in Cleaners : WF_vars(BeginSweep(k))
  /\ \A e \in Engines : \A t \in Tokens :
       WF_vars(CreateAudio(e, t) \/ CreateClaim(e, t) \/ WriteClaim(e, t))
FairSpec == Spec /\ Fairness

-----------------------------------------------------------------------------
(***************************************************************************)
(* Properties.                                                             *)
(***************************************************************************)
TypeOK ==
  /\ now \in Nat /\ boot \in Nat
  /\ alive \subseteq Engines
  /\ born \in [Engines -> Nat]
  /\ audio \in [Tokens -> {"absent", "empty", "data"}]
  /\ meta \in [Tokens -> MetaFile]
  /\ use \in [Tokens -> Uses]
  /\ owner \in [Tokens -> Engines \union {External}]
  /\ actor \in [Actors -> ActorState]

\* A complete claim tells a sweep the truth about its owner: it protects the
\* file exactly as long as that very process runs and the claim has not
\* expired, whatever PIDs are reused in this boot or in another.
ClaimsTellTheTruth ==
  \A t \in Tokens :
    meta[t].kind = "claim" => (Reclaimable(t, now, boot) <=> ~LiveClaim(t))

\* A sweep does not take a file whose claim was complete when it began, while
\* the owner lives and the claim has not expired.
SettledFilesSurvive ==
  \A a \in Actors :
    actor[a].step = "unlink" /\ actor[a].job # "purge" =>
      \A t \in actor[a].target \intersect actor[a].settled : ~LiveClaim(t)

\* A finished request's audio never reappears, and no claim protects a file
\* that its owner no longer has: what is on disk belongs to a request in
\* progress, or will be reclaimed.
AudioHasAReason ==
  \A t \in Present :
    \/ use[t] \in InUse \union {"creating", "cancelled"}
    \/ use[t] = "orphaned" /\ (meta[t].kind # "partial" => Reclaimable(t, now, boot))

\* What a crash or a cancellation leaves behind is removed in the end.
ResidueCollected ==
  \A t \in Tokens : use[t] \in {"cancelled", "orphaned"} ~> audio[t] = "absent"

\* So is the claim of every file that was released.
ClaimsCollected ==
  \A t \in Tokens : use[t] = "done" ~> meta[t] = NoMeta
=============================================================================

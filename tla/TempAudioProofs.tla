--------------------------- MODULE TempAudioProofs ---------------------------
(***************************************************************************)
(* What the directory of relayed audio keeps, for any number of files,     *)
(* engines and sweepers, any reuse of PIDs, and any lifetime.              *)
(*                                                                         *)
(* The invariant relates a file's use, its pair on disk and its owner's    *)
(* process.  What makes it work is that a PID with its start ticks names   *)
(* one process of a boot, that the boot identifier is part of the claim,   *)
(* and that a sweep reads the clock and the boot before it lists files.    *)
(***************************************************************************)
EXTENDS TempAudio, TLAPS

\* An engine runs in the boot it was started in; a boot and a stamp name one.
Booted ==
  /\ boot # 0 /\ \A e \in alive : born[e] = boot
  /\ \A e \in Engines : born[e] <= boot
  /\ \A e, f \in Engines : born[e] # 0 /\ born[e] = born[f] /\ Stamp[e] = Stamp[f] => e = f

\* What a file's use says of its pair on disk and of its owner.
FileOK(t) ==
  /\ use[t] = "unused" => meta[t] = NoMeta /\ audio[t] = "absent"
  /\ use[t] # "unused" => owner[t] \in Engines /\ born[owner[t]] # 0
  /\ use[t] = "creating" =>
       /\ meta[t].kind # "claim" /\ owner[t] \in alive /\ actor[owner[t]].job = "create"
       /\ audio[t] # "absent" => actor[owner[t]].step \in {"claim", "write"}
  /\ use[t] = "orphaned" => owner[t] \notin alive
  /\ use[t] = "done" => audio[t] = "absent"
  /\ meta[t].kind = "claim" => meta[t].stamp = Stamp[owner[t]] /\ meta[t].boot = born[owner[t]]

\* An engine creates one file at a time.
OneAtATime ==
  \A t, u \in Tokens :
    use[t] = "creating" /\ use[u] = "creating" /\ owner[t] = owner[u] => t = u

\* A sweep that runs began in this boot, and was told of no file in creation.
SweepOK(a) ==
  /\ actor[a].step # "idle" => actor[a].boot = boot /\ actor[a].since <= now
  /\ \A t \in actor[a].settled : use[t] \notin {"unused", "creating"}

Inv ==
  /\ TypeOK /\ Booted /\ OneAtATime
  /\ \A t \in Tokens : FileOK(t)
  /\ \A a \in Actors : SweepOK(a)
  /\ SettledFilesSurvive

-----------------------------------------------------------------------------
(***************************************************************************)
(* What the invariant gives, and what every step keeps of the sweeps.      *)
(***************************************************************************)
LEMMA MetaFacts ==
  ASSUME NEW m \in MetaFile
  PROVE  /\ m.kind \in {"none", "partial", "claim"}
         /\ m.kind = "none" <=> m = NoMeta
         /\ m.kind = "partial" => m.at \in Nat
         /\ m.kind = "claim" => m.expires \in Nat /\ m.boot \in Nat
BY DEF MetaFile, NoMeta

LEMMA RestingIs ==
  /\ Resting \in ActorState /\ Resting.job = "none" /\ Resting.step = "idle"
  /\ Resting.settled = {} /\ Resting.target = {}
BY DEF Resting, ActorState, Jobs, Steps

\* The owner of a live claim runs, in this boot.
LEMMA LiveOwner ==
  ASSUME Inv, NEW t \in Tokens, LiveClaim(t)
  PROVE  /\ owner[t] \in alive /\ owner[t] \in Engines /\ meta[t].boot = boot
         /\ OwnerAlive(meta[t]) /\ now < meta[t].expires
         /\ use[t] \notin {"unused", "creating"}
<1>1. meta[t].kind = "claim" /\ owner[t] \in alive /\ now < meta[t].expires
  BY DEF LiveClaim
<1>2. owner[t] \in Engines /\ born[owner[t]] = boot
  BY <1>1 DEF Inv, TypeOK, Booted
<1>3. meta[t].stamp = Stamp[owner[t]] /\ meta[t].boot = boot
  BY <1>1, <1>2 DEF Inv, FileOK
<1>4. use[t] \notin {"unused", "creating"}
  BY <1>1 DEF Inv, FileOK, NoMeta
<1> QED BY <1>1, <1>2, <1>3, <1>4 DEF OwnerAlive

\* No sweep that began before now takes a file with a live claim.
LEMMA LiveIsKept ==
  ASSUME Inv, NEW t \in Tokens, LiveClaim(t), NEW since \in Nat, since <= now
  PROVE  ~Reclaimable(t, since, boot)
<1>1. meta[t].kind = "claim" /\ meta[t].expires \in Nat /\ now \in Nat
  BY MetaFacts DEF Inv, TypeOK, LiveClaim
<1> QED BY <1>1, LiveOwner DEF Reclaimable

\* A claim that is not live is reclaimed, whoever has its owner's PID now.
LEMMA StaleIsTaken ==
  ASSUME Inv, NEW t \in Tokens, meta[t].kind = "claim", ~LiveClaim(t)
  PROVE  Reclaimable(t, now, boot)
<1>1. meta[t].expires \in Nat /\ now \in Nat
  BY MetaFacts DEF Inv, TypeOK
<1>2. CASE now >= meta[t].expires
  BY <1>2 DEF Reclaimable
<1>3. CASE owner[t] \notin alive
  <2>1. /\ owner[t] \in Engines /\ born[owner[t]] # 0
        /\ meta[t].stamp = Stamp[owner[t]] /\ meta[t].boot = born[owner[t]]
    BY DEF Inv, FileOK, NoMeta
  <2>2. ASSUME meta[t].boot = boot PROVE ~OwnerAlive(meta[t])
    <3>1. \A e \in alive : e \in Engines /\ born[e] = boot
      BY DEF Inv, TypeOK, Booted
    <3> QED BY <1>3, <2>1, <2>2, <3>1 DEF OwnerAlive, Inv, Booted
  <2> QED BY <2>2 DEF Reclaimable
<1> QED BY <1>1, <1>2, <1>3 DEF LiveClaim

LEMMA ClaimsAreTrue == Inv => ClaimsTellTheTruth
<1> SUFFICES ASSUME Inv, NEW t \in Tokens, meta[t].kind = "claim"
             PROVE  Reclaimable(t, now, boot) <=> ~LiveClaim(t)
  BY DEF ClaimsTellTheTruth
<1> QED BY LiveIsKept, StaleIsTaken DEF Inv, TypeOK

LEMMA ReasonOfAudio == Inv => AudioHasAReason
<1> SUFFICES ASSUME Inv, NEW t \in Present,
                    use[t] \notin InUse \union {"creating", "cancelled"}
             PROVE  use[t] = "orphaned" /\ (meta[t].kind # "partial" => Reclaimable(t, now, boot))
  BY DEF AudioHasAReason
<1>1. t \in Tokens /\ audio[t] # "absent"
  BY DEF Present
<1>2. use[t] = "orphaned" /\ owner[t] \notin alive
  BY <1>1 DEF Inv, FileOK, TypeOK, Uses, InUse
<1>3. meta[t].kind = "claim" => Reclaimable(t, now, boot)
  BY <1>1, <1>2, StaleIsTaken DEF LiveClaim
<1>4. meta[t].kind \in {"none", "partial", "claim"}
  BY <1>1, MetaFacts DEF Inv, TypeOK
<1> QED BY <1>2, <1>3, <1>4 DEF Reclaimable

\* What no step may do to the files of a sweep: bring a claim to life.
Lives(t) == /\ use[t] \notin {"unused", "creating"} => use'[t] \notin {"unused", "creating"}
            /\ use[t] \notin {"unused", "creating"} /\ LiveClaim(t)' => LiveClaim(t)

\* A step after which every actor is where it was, rests, or is not about to
\* unlink what it was told to leave.
LEMMA SweepsStay ==
  ASSUME Inv, now' \in Nat, now <= now', \A t \in Tokens : Lives(t),
         \A a \in Actors :
           \/ actor'[a] = Resting
           \/ actor'[a] = actor[a] /\ boot' = boot
           \/ actor'[a].step # "unlink" /\ SweepOK(a)'
  PROVE  (\A a \in Actors : SweepOK(a)') /\ SettledFilesSurvive'
<1>1. \A a \in Actors : actor[a].settled \subseteq Tokens /\ actor[a].since \in Nat /\ now \in Nat
  BY DEF Inv, TypeOK, ActorState
<1>2. ASSUME NEW a \in Actors PROVE SweepOK(a)'
  <2>1. CASE actor'[a] = Resting
    BY <2>1, RestingIs DEF SweepOK
  <2>2. CASE actor'[a] = actor[a] /\ boot' = boot
    BY <1>1, <2>2 DEF SweepOK, Lives, Inv
  <2> QED BY <2>1, <2>2
<1>3. ASSUME NEW a \in Actors, actor'[a].step = "unlink", actor'[a].job # "purge",
             NEW t \in actor'[a].target \intersect actor'[a].settled
      PROVE  ~LiveClaim(t)'
  <2>1. actor'[a] = actor[a]
    BY <1>3, RestingIs
  <2>2. t \in Tokens /\ use[t] \notin {"unused", "creating"}
    BY <1>1, <1>3, <2>1 DEF Inv, SweepOK
  <2>3. ~LiveClaim(t)
    BY <1>3, <2>1 DEF Inv, SettledFilesSurvive
  <2> QED BY <2>2, <2>3 DEF Lives
<1> QED BY <1>2, <1>3 DEF SettledFilesSurvive

\* A step of a sweep: it may remove files and claims, and is told nothing new.
LEMMA SweepKeeps ==
  ASSUME Inv, NEW a \in Actors, UNCHANGED <<now, boot, alive, born, owner, use>>,
         NEW s \in ActorState, actor' = [actor EXCEPT ![a] = s],
         audio' \in [Tokens -> {"absent", "empty", "data"}], meta' \in [Tokens -> MetaFile],
         \A t \in Tokens : audio'[t] \in {audio[t], "absent"} /\ meta'[t] \in {meta[t], NoMeta},
         actor[a].step \notin {"idle", "claim", "write"},
         s.job = actor[a].job, s.since = actor[a].since, s.boot = actor[a].boot,
         s.settled = actor[a].settled,
         s.step = "unlink" /\ s.job # "purge" =>
           \A t \in s.target \intersect s.settled : ~LiveClaim(t)
  PROVE  Inv'
<1>1. actor \in [Actors -> ActorState]
  BY DEF Inv, TypeOK
<1>2. actor'[a] = s /\ \A b \in Actors \ {a} : actor'[b] = actor[b]
  BY <1>1
<1>3. TypeOK'
  BY <1>1 DEF Inv, TypeOK
<1>4. Booted' /\ OneAtATime'
  BY DEF Inv, Booted, OneAtATime
<1>5. NoMeta.kind = "none"
  BY DEF NoMeta
<1>6. ASSUME NEW t \in Tokens PROVE FileOK(t)'
  <2>1. FileOK(t)
    BY DEF Inv
  <2>2. use[t] = "creating" =>
          /\ actor'[owner[t]].job = "create"
          /\ audio'[t] # "absent" => actor'[owner[t]].step \in {"claim", "write"}
    <3>1. owner[t] \in Engines => owner[t] \in Actors
      BY DEF Actors
    <3> QED BY <1>2, <2>1, <3>1 DEF FileOK
  <2> QED BY <1>5, <2>1, <2>2 DEF FileOK
<1>7. \A b \in Actors : SweepOK(b)'
  BY <1>2 DEF Inv, SweepOK
<1>8. SettledFilesSurvive'
  <2>1. \A t \in Tokens : LiveClaim(t)' => LiveClaim(t)
    BY <1>5 DEF LiveClaim
  <2>2. \A b \in Actors : actor[b].settled \subseteq Tokens
    BY <1>1 DEF ActorState
  <2>3. ASSUME NEW b \in Actors, actor'[b].step = "unlink", actor'[b].job # "purge",
               NEW t \in actor'[b].target \intersect actor'[b].settled
        PROVE  ~LiveClaim(t)'
    BY <1>2, <2>1, <2>2, <2>3 DEF Inv, SettledFilesSurvive
  <2> QED BY <2>3 DEF SettledFilesSurvive
<1> QED BY <1>3, <1>4, <1>6, <1>7, <1>8 DEF Inv

-----------------------------------------------------------------------------
(***************************************************************************)
(* Sweeps.                                                                 *)
(***************************************************************************)
\* What is known of an actor's state.
LEMMA ActorFacts ==
  ASSUME Inv, NEW a \in Actors
  PROVE  /\ actor \in [Actors -> ActorState] /\ actor[a] \in ActorState /\ SweepOK(a)
         /\ actor[a].todo \subseteq Tokens /\ actor[a].settled \subseteq Tokens
         /\ actor[a].target \subseteq Tokens /\ actor[a].since \in Nat /\ actor[a].boot \in Nat
         /\ actor[a].step \in Steps /\ actor[a].job \in Jobs
BY DEF Inv, TypeOK, ActorState

\* A sweep does not decide to take a file that was settled when it began.
LEMMA InspectKeeps ==
  ASSUME Inv, NEW a \in Actors, NEW t \in Tokens, Inspect(a, t)
  PROVE  Inv'
<1> DEFINE gone == audio[t] = "absent"
           take == \/ actor[a].job = "purge"
                   \/ ~gone /\ Reclaimable(t, actor[a].since, actor[a].boot)
           s == [actor[a] EXCEPT !.todo = @ \ {t}, !.target = IF take THEN {t} ELSE {},
                                 !.step = IF take THEN "unlink" ELSE "scan"]
<1>1. actor[a].step = "scan" /\ UNCHANGED <<now, boot, alive, born, owner, use, audio, meta>>
  BY DEF Inspect, Unchanged
<1>2. actor' = [actor EXCEPT ![a] = s]
  BY ActorFacts DEF Inspect, ActorState
<1>3. take /\ actor[a].job # "purge" /\ t \in actor[a].settled => ~LiveClaim(t)
  BY <1>1, ActorFacts, LiveIsKept DEF SweepOK
<1> HIDE DEF take
<1>4. /\ s \in ActorState /\ s.job = actor[a].job /\ s.since = actor[a].since
      /\ s.boot = actor[a].boot /\ s.settled = actor[a].settled
      /\ s.target = (IF take THEN {t} ELSE {}) /\ s.step = (IF take THEN "unlink" ELSE "scan")
  BY ActorFacts DEF ActorState, Steps
<1> HIDE DEF s
<1>5. s.step = "unlink" /\ s.job # "purge" =>
        \A u \in s.target \intersect s.settled : ~LiveClaim(u)
  BY <1>3, <1>4
<1> QED BY <1>1, <1>2, <1>4, <1>5, SweepKeeps DEF Inv, TypeOK

LEMMA UnlinkKeeps ==
  ASSUME Inv, NEW a \in Actors, Unlink(a)
  PROVE  Inv'
<1> DEFINE s == [actor[a] EXCEPT !.step = "unlinkMeta"]
<1>1. /\ actor[a].step = "unlink" /\ UNCHANGED <<now, boot, alive, born, owner, use, meta>>
      /\ actor' = [actor EXCEPT ![a] = s]
  BY ActorFacts DEF Unlink, Unchanged
<1>2. /\ s \in ActorState /\ s.job = actor[a].job /\ s.since = actor[a].since
      /\ s.boot = actor[a].boot /\ s.settled = actor[a].settled /\ s.step = "unlinkMeta"
  BY ActorFacts DEF ActorState, Steps
<1> HIDE DEF s
<1>3. /\ audio' \in [Tokens -> {"absent", "empty", "data"}]
      /\ \A t \in Tokens : audio'[t] \in {audio[t], "absent"}
  BY DEF Unlink, Inv, TypeOK
<1> QED BY <1>1, <1>2, <1>3, SweepKeeps DEF Inv, TypeOK

LEMMA RemoveMetaKeeps ==
  ASSUME Inv, NEW a \in Actors,
         \/ RemoveMeta(a, "unlinkMeta", "scan")
         \/ RemoveMeta(a, "dropMeta", "scanMeta")
  PROVE  Inv'
<1>1. ASSUME NEW from \in {"unlinkMeta", "dropMeta"}, NEW to \in {"scan", "scanMeta"},
             RemoveMeta(a, from, to)
      PROVE  Inv'
  <2> DEFINE s == [actor[a] EXCEPT !.step = to, !.target = {}]
  <2>1. /\ actor[a].step = from /\ UNCHANGED <<now, boot, alive, born, owner, use, audio>>
        /\ actor' = [actor EXCEPT ![a] = s]
    BY <1>1, ActorFacts DEF RemoveMeta, Unchanged, ActorState
  <2>2. /\ s \in ActorState /\ s.job = actor[a].job /\ s.since = actor[a].since
        /\ s.boot = actor[a].boot /\ s.settled = actor[a].settled /\ s.step = to
    BY ActorFacts DEF ActorState, Steps
  <2> HIDE DEF s
  <2>3. NoMeta \in MetaFile
    BY DEF MetaFile
  <2>4. meta' \in [Tokens -> MetaFile] /\ \A t \in Tokens : meta'[t] \in {meta[t], NoMeta}
    BY <1>1, <2>3 DEF RemoveMeta, Inv, TypeOK
  <2> QED BY <2>1, <2>2, <2>4, SweepKeeps DEF Inv, TypeOK
<1> QED BY <1>1

LEMMA SecondPassKeeps ==
  ASSUME Inv, NEW a \in Actors, ListMetas(a) \/ \E t \in Tokens : InspectMeta(a, t)
  PROVE  Inv'
<1>1. ASSUME NEW s \in ActorState, actor' = [actor EXCEPT ![a] = s],
             UNCHANGED <<now, boot, alive, born, owner, use, audio, meta>>,
             actor[a].step \in {"scan", "scanMeta"}, s.step \in {"scanMeta", "dropMeta"},
             s.job = actor[a].job, s.since = actor[a].since, s.boot = actor[a].boot,
             s.settled = actor[a].settled
      PROVE  Inv'
  BY <1>1, SweepKeeps DEF Inv, TypeOK
<1>2. CASE ListMetas(a)
  <2> DEFINE list == {t \in Tokens : meta[t] # NoMeta}
             s == [actor[a] EXCEPT !.step = "scanMeta", !.todo = list]
  <2>1. /\ actor[a].step = "scan" /\ actor' = [actor EXCEPT ![a] = s]
        /\ UNCHANGED <<now, boot, alive, born, owner, use, audio, meta>>
    BY <1>2, ActorFacts DEF ListMetas, Unchanged, ActorState
  <2>2. list \subseteq Tokens
    OBVIOUS
  <2> HIDE DEF list
  <2>3. /\ s \in ActorState /\ s.job = actor[a].job /\ s.since = actor[a].since
        /\ s.boot = actor[a].boot /\ s.settled = actor[a].settled /\ s.step = "scanMeta"
    BY <2>2, ActorFacts DEF ActorState, Steps
  <2> HIDE DEF s
  <2> QED BY <1>1, <2>1, <2>3
<1>3. ASSUME NEW t \in Tokens, InspectMeta(a, t)
      PROVE  Inv'
  <2> DEFINE take == audio[t] = "absent"
             s == [actor[a] EXCEPT !.todo = @ \ {t}, !.target = IF take THEN {t} ELSE {},
                                   !.step = IF take THEN "dropMeta" ELSE "scanMeta"]
  <2>1. /\ actor[a].step = "scanMeta" /\ actor' = [actor EXCEPT ![a] = s]
        /\ UNCHANGED <<now, boot, alive, born, owner, use, audio, meta>>
    BY <1>3, ActorFacts DEF InspectMeta, Unchanged, ActorState
  <2> HIDE DEF take
  <2>2. /\ s \in ActorState /\ s.job = actor[a].job /\ s.since = actor[a].since
        /\ s.boot = actor[a].boot /\ s.settled = actor[a].settled
        /\ s.step \in {"dropMeta", "scanMeta"}
    BY ActorFacts DEF ActorState, Steps
  <2> HIDE DEF s
  <2> QED BY <1>1, <2>1, <2>2
<1> QED BY <1>2, <1>3

\* An actor's sweep is over, or an actor begins one: no file changes.
LEMMA ActorTurns ==
  ASSUME Inv, NEW a \in Actors, UNCHANGED <<now, boot, born, owner, use, audio, meta>>,
         NEW s \in ActorState, actor' = [actor EXCEPT ![a] = s],
         alive' \subseteq alive, alive \ {a} \subseteq alive', actor[a].job # "create",
         s.step # "unlink", s = Resting \/ (s.boot = boot /\ s.since <= now
           /\ \A t \in s.settled : use[t] \notin {"unused", "creating"})
  PROVE  Inv'
<1>1. actor \in [Actors -> ActorState] /\ now \in Nat
  BY DEF Inv, TypeOK
<1>2. actor'[a] = s /\ \A b \in Actors \ {a} : actor'[b] = actor[b]
  BY <1>1
<1>3. TypeOK' /\ Booted' /\ OneAtATime'
  BY <1>1 DEF Inv, TypeOK, Booted, OneAtATime
<1>4. ASSUME NEW t \in Tokens PROVE FileOK(t)'
  <2>1. FileOK(t)
    BY DEF Inv
  <2>2. owner[t] \in Engines => owner[t] \in Actors
    BY DEF Actors
  <2> QED BY <1>2, <2>1, <2>2 DEF FileOK
<1>5. \A t \in Tokens : Lives(t)
  BY DEF Lives, LiveClaim
<1>6. SweepOK(a)' \/ s = Resting
  BY <1>2 DEF SweepOK
<1>7. (\A b \in Actors : SweepOK(b)') /\ SettledFilesSurvive'
  BY <1>1, <1>2, <1>5, <1>6, SweepsStay
<1> QED BY <1>3, <1>4, <1>7 DEF Inv

LEMMA EndSweepKeeps ==
  ASSUME Inv, NEW a \in Actors, EndSweep(a)
  PROVE  Inv'
<1>1. /\ actor[a].step = "scanMeta" /\ UNCHANGED <<now, boot, born, owner, use, audio, meta>>
      /\ actor[a].boot = boot /\ actor[a].since <= now
      /\ \A t \in actor[a].settled : use[t] \notin {"unused", "creating"}
  BY ActorFacts DEF EndSweep, SweepOK
<1>2. CASE actor[a].job = "create"
  <2> DEFINE s == [actor[a] EXCEPT !.step = "bound"]
  <2>1. actor' = [actor EXCEPT ![a] = s] /\ UNCHANGED alive
    BY <1>2, ActorFacts DEF EndSweep
  <2>2. /\ s \in ActorState /\ s.job = "create" /\ s.since = actor[a].since
        /\ s.boot = actor[a].boot /\ s.settled = actor[a].settled /\ s.step = "bound"
    BY <1>2, ActorFacts DEF ActorState, Steps
  <2> HIDE DEF s
  <2>3. ASSUME NEW t \in Tokens PROVE FileOK(t)'
    <3>1. FileOK(t)
      BY DEF Inv
    <3>2. owner[t] \in Engines => owner[t] \in Actors
      BY DEF Actors
    <3> QED BY <1>1, <2>1, <2>2, <3>1, <3>2, ActorFacts DEF FileOK
  <2>4. TypeOK' /\ Booted' /\ OneAtATime'
    BY <1>1, <2>1, <2>2 DEF Inv, TypeOK, Booted, OneAtATime
  <2>5. \A t \in Tokens : Lives(t)
    BY <1>1, <2>1 DEF Lives, LiveClaim
  <2>6. SweepOK(a)'
    BY <1>1, <2>1, <2>2, ActorFacts DEF SweepOK
  <2>7. (\A b \in Actors : SweepOK(b)') /\ SettledFilesSurvive'
    <3>1. now' \in Nat /\ now <= now'
      BY <1>1 DEF Inv, TypeOK
    <3>2. \A b \in Actors : actor'[b] = actor[b] \/ (actor'[b].step # "unlink" /\ b = a)
      BY <2>1, <2>2, ActorFacts
    <3> QED BY <1>1, <2>5, <2>6, <3>1, <3>2, SweepsStay
  <2> QED BY <2>3, <2>4, <2>7 DEF Inv
<1>3. CASE actor[a].job # "create"
  <2>1. /\ actor' = [actor EXCEPT ![a] = Resting]
        /\ alive' \subseteq alive /\ alive \ {a} \subseteq alive'
    BY <1>3 DEF EndSweep
  <2> QED BY <1>1, <1>3, <2>1, RestingIs, ActorTurns
<1> QED BY <1>2, <1>3

LEMMA SweepStepKeeps ==
  ASSUME Inv, NEW a \in Actors, SweepStep(a)
  PROVE  Inv'
BY InspectKeeps, UnlinkKeeps, RemoveMetaKeeps, SecondPassKeeps, EndSweepKeeps
   DEF SweepStep, UnlinkMeta, DropMeta

\* A sweep begins with the clock, the boot and the live claims of the moment.
LEMMA SweepingIs ==
  ASSUME Inv, NEW job \in Jobs
  PROVE  LET s == Sweeping(job)
         IN  /\ s \in ActorState /\ s.job = job /\ s.step = "scan" /\ s.boot = boot
             /\ s.since = now
             /\ \A t \in s.settled : use[t] \notin {"unused", "creating"}
<1> DEFINE live == {t \in Tokens : LiveClaim(t)}
<1>1. live \subseteq Tokens /\ Present \subseteq Tokens /\ now \in Nat /\ boot \in Nat
  BY DEF Present, Inv, TypeOK
<1>2. \A t \in live : use[t] \notin {"unused", "creating"}
  BY LiveOwner
<1>3. Sweeping(job) = [job |-> job, step |-> "scan", todo |-> Present, target |-> {},
                       since |-> now, boot |-> boot, settled |-> live]
  BY DEF Sweeping
<1> HIDE DEF live
<1> QED BY <1>1, <1>2, <1>3 DEF ActorState, Steps

LEMMA BeginSweepKeeps ==
  ASSUME Inv, NEW k \in Cleaners, BeginSweep(k)
  PROVE  Inv'
<1>1. PICK job \in {"sweep", "purge"} : actor' = [actor EXCEPT ![k] = Sweeping(job)]
  BY DEF BeginSweep
<1>2. /\ actor[k] = Resting /\ UNCHANGED <<now, boot, alive, born, owner, audio, meta, use>>
      /\ k \in Actors /\ job \in Jobs /\ now \in Nat
  BY DEF BeginSweep, Unchanged, Actors, Jobs, Inv, TypeOK
<1>3. LET s == Sweeping(job)
      IN  /\ s \in ActorState /\ s.job = job /\ s.step = "scan" /\ s.boot = boot
          /\ s.since = now
          /\ \A t \in s.settled : use[t] \notin {"unused", "creating"}
  BY <1>2, SweepingIs
<1> DEFINE s == Sweeping(job)
<1>4. /\ s \in ActorState /\ s.step = "scan" /\ s.boot = boot /\ s.since = now
      /\ \A t \in s.settled : use[t] \notin {"unused", "creating"}
      /\ actor' = [actor EXCEPT ![k] = s]
  BY <1>1, <1>3
<1> HIDE DEF s
<1>5. s.since <= now /\ actor[k].job # "create"
  BY <1>2, <1>4, RestingIs
<1> QED BY <1>2, <1>4, <1>5, ActorTurns

-----------------------------------------------------------------------------
(***************************************************************************)
(* create_file, and the request that holds the file.                       *)
(***************************************************************************)
\* The files an engine creates: this one, and only while it is at it.
LEMMA CreatingFacts ==
  ASSUME Inv, NEW e \in Engines, NEW t \in Tokens, NEW step \in {"bound", "claim", "write"},
         Creating(e, t, step)
  PROVE  /\ e \in Actors /\ e \in alive /\ born[e] = boot /\ boot # 0
         /\ actor[e].step = step /\ use[t] = "creating" /\ owner[t] = e
         /\ actor[e].job = "create" /\ meta[t].kind # "claim"
         /\ step = "bound" => audio[t] = "absent"
         /\ \A u \in Tokens \ {t} : use[u] = "creating" => owner[u] # e
         /\ actor[e].boot = boot /\ actor[e].since <= now
<1>1. e \in Actors /\ e \in alive /\ actor[e].step = step /\ use[t] = "creating" /\ owner[t] = e
  BY DEF Creating, Actors
<1>2. FileOK(t) /\ SweepOK(e) /\ born[e] = boot /\ boot # 0
  BY <1>1 DEF Inv, Booted
<1>3. \A u \in Tokens \ {t} : use[u] = "creating" => owner[u] # e
  BY <1>1 DEF Inv, OneAtATime
<1> QED BY <1>1, <1>2, <1>3 DEF FileOK, SweepOK

LEMMA BeginCreateKeeps ==
  ASSUME Inv, NEW e \in Engines, NEW t \in Tokens, BeginCreate(e, t)
  PROVE  Inv'
<1> DEFINE s == Sweeping("create")
<1>1. /\ e \in alive /\ actor[e] = Resting /\ use[t] = "unused" /\ e \in Actors
      /\ use' = [use EXCEPT ![t] = "creating"] /\ owner' = [owner EXCEPT ![t] = e]
      /\ actor' = [actor EXCEPT ![e] = s]
      /\ UNCHANGED <<now, boot, alive, born, audio, meta>>
  BY DEF BeginCreate, Actors
<1>2. /\ s \in ActorState /\ s.job = "create" /\ s.step = "scan" /\ s.boot = boot
      /\ s.since = now /\ \A u \in s.settled : use[u] \notin {"unused", "creating"}
  BY SweepingIs DEF Jobs
<1> HIDE DEF s
<1>3. TypeOK' /\ Booted' /\ now \in Nat
  BY <1>1, <1>2 DEF Inv, TypeOK, Booted, Uses
<1>4. /\ use'[t] = "creating" /\ owner'[t] = e
      /\ \A u \in Tokens \ {t} : use'[u] = use[u] /\ owner'[u] = owner[u]
      /\ actor'[e] = s /\ \A a \in Actors \ {e} : actor'[a] = actor[a]
  BY <1>1 DEF Inv, TypeOK
<1>5. \A u \in Tokens \ {t} : use[u] = "creating" => owner[u] # e
  BY <1>1, RestingIs DEF Inv, FileOK
<1>6. OneAtATime'
  BY <1>4, <1>5 DEF Inv, OneAtATime
<1>7. ASSUME NEW u \in Tokens PROVE FileOK(u)'
  <2>1. FileOK(u)
    BY DEF Inv
  <2>2. CASE u = t
    BY <1>1, <1>2, <1>4, <2>1, <2>2 DEF FileOK, NoMeta, Inv, Booted
  <2>3. CASE u # t
    <3>1. owner[u] \in Engines => owner[u] \in Actors
      BY DEF Actors
    <3> QED BY <1>1, <1>4, <1>5, <2>1, <2>3, <3>1 DEF FileOK
  <2> QED BY <2>2, <2>3
<1>8. \A u \in Tokens : Lives(u)
  BY <1>1, <1>4 DEF Lives, LiveClaim
<1>9. SweepOK(e)'
  <2>1. s.settled \subseteq Tokens
    BY <1>2 DEF ActorState
  <2> QED BY <1>1, <1>2, <1>3, <1>4, <2>1 DEF SweepOK
<1>10. (\A a \in Actors : SweepOK(a)') /\ SettledFilesSurvive'
  BY <1>1, <1>2, <1>3, <1>4, <1>8, <1>9, SweepsStay
<1> QED BY <1>3, <1>6, <1>7, <1>10 DEF Inv

\* A step of create_file: of the files and actors only its own change, to these.
Creates(e, t, step, s, x, m, u) ==
  /\ Creating(e, t, step) /\ UNCHANGED <<now, boot, alive, born, owner>>
  /\ actor' = [actor EXCEPT ![e] = s] /\ audio' = [audio EXCEPT ![t] = x]
  /\ meta' = [meta EXCEPT ![t] = m] /\ use' = [use EXCEPT ![t] = u]
  /\ u = "creating" => /\ m.kind # "claim" /\ s.job = "create"
                       /\ x # "absent" => s.step \in {"claim", "write"}
  /\ u = "done" => x = "absent"
  /\ m.kind = "claim" => m.stamp = Stamp[e] /\ m.boot = boot
  /\ \/ s = Resting
     \/ /\ s.step \in {"claim", "write"} /\ s.boot = boot
        /\ s.since = actor[e].since /\ s.settled = actor[e].settled

LEMMA CreateStep ==
  ASSUME Inv, NEW e \in Engines, NEW t \in Tokens, NEW step \in {"bound", "claim", "write"},
         NEW s \in ActorState, NEW x \in {"absent", "empty", "data"}, NEW m \in MetaFile,
         NEW u \in {"creating", "held", "done"}, Creates(e, t, step, s, x, m, u)
  PROVE  Inv'
<1> USE DEF Creates
<1>1. TypeOK' /\ Booted' /\ now \in Nat
  BY DEF Inv, TypeOK, Booted, Uses
<1>2. /\ use'[t] = u /\ \A v \in Tokens \ {t} : use'[v] = use[v]
      /\ audio'[t] = x /\ \A v \in Tokens \ {t} : audio'[v] = audio[v]
      /\ meta'[t] = m /\ \A v \in Tokens \ {t} : meta'[v] = meta[v]
      /\ actor'[e] = s /\ \A a \in Actors \ {e} : actor'[a] = actor[a]
      /\ e \in Actors
  BY DEF Inv, TypeOK, Actors
<1>3. OneAtATime'
  BY <1>2, CreatingFacts DEF Inv, OneAtATime
<1>4. ASSUME NEW v \in Tokens PROVE FileOK(v)'
  <2>1. FileOK(v)
    BY DEF Inv
  <2>2. CASE v = t
    BY <1>2, <2>2, CreatingFacts DEF FileOK
  <2>3. CASE v # t
    <3>1. owner[v] \in Engines => owner[v] \in Actors
      BY DEF Actors
    <3>2. use[v] = "creating" => owner[v] # e
      BY <2>3, CreatingFacts
    <3> QED BY <1>2, <2>1, <2>3, <3>1, <3>2 DEF FileOK
  <2> QED BY <2>2, <2>3
<1>5. \A v \in Tokens : Lives(v)
  BY <1>2, CreatingFacts DEF Lives, LiveClaim
<1>6. s = Resting \/ SweepOK(e)'
  <2>1. actor[e].settled \subseteq Tokens /\ SweepOK(e)
    BY <1>2, ActorFacts
  <2>2. t \notin actor[e].settled
    BY <2>1, CreatingFacts DEF SweepOK
  <2> QED BY <1>2, <2>1, <2>2, CreatingFacts DEF SweepOK
<1>7. (\A a \in Actors : SweepOK(a)') /\ SettledFilesSurvive'
  BY <1>1, <1>2, <1>5, <1>6, SweepsStay
<1> QED BY <1>1, <1>3, <1>4, <1>7 DEF Inv

LEMMA CreateAudioKeeps ==
  ASSUME Inv, NEW e \in Engines, NEW t \in Tokens, CreateAudio(e, t)
  PROVE  Inv'
<1> DEFINE s == [actor[e] EXCEPT !.step = "claim"]
<1>1. /\ Creating(e, t, "bound") /\ UNCHANGED <<now, boot, alive, born, owner, meta>>
      /\ e \in Actors /\ meta[t] \in MetaFile /\ use[t] = "creating" /\ audio[t] = "absent"
      /\ actor[e].job = "create" /\ actor[e].boot = boot /\ meta[t].kind # "claim"
  BY CreatingFacts DEF CreateAudio, Unchanged, Inv, TypeOK
<1>2. /\ s \in ActorState /\ s.job = "create" /\ s.step = "claim" /\ s.boot = boot
      /\ s.since = actor[e].since /\ s.settled = actor[e].settled
  BY <1>1, ActorFacts DEF ActorState, Steps
<1>3. meta' = [meta EXCEPT ![t] = meta[t]]
  BY <1>1 DEF Inv, TypeOK
<1>4. \/ /\ use' = [use EXCEPT ![t] = "done"] /\ actor' = [actor EXCEPT ![e] = Resting]
         /\ audio' = [audio EXCEPT ![t] = "absent"]
      \/ /\ use' = [use EXCEPT ![t] = "creating"] /\ actor' = [actor EXCEPT ![e] = s]
         /\ audio' = [audio EXCEPT ![t] = "empty"]
  BY <1>1, ActorFacts DEF CreateAudio, Inv, TypeOK
<1> HIDE DEF s
<1>5. \/ Creates(e, t, "bound", Resting, "absent", meta[t], "done")
      \/ Creates(e, t, "bound", s, "empty", meta[t], "creating")
  BY <1>1, <1>2, <1>3, <1>4 DEF Creates
<1> QED BY <1>1, <1>2, <1>5, RestingIs, CreateStep

LEMMA CreateClaimKeeps ==
  ASSUME Inv, NEW e \in Engines, NEW t \in Tokens, CreateClaim(e, t)
  PROVE  Inv'
<1> DEFINE s == [actor[e] EXCEPT !.step = "write"]
           m == [kind |-> "partial", at |-> now]
<1>1. /\ Creating(e, t, "claim") /\ UNCHANGED <<now, boot, alive, born, owner, audio, use>>
      /\ meta' = [meta EXCEPT ![t] = m]
      /\ e \in Actors /\ use[t] = "creating"
      /\ actor[e].job = "create" /\ actor[e].boot = boot
      /\ audio[t] \in {"absent", "empty", "data"}
  BY CreatingFacts DEF CreateClaim, Unchanged, Inv, TypeOK
<1>2. /\ s \in ActorState /\ s.job = "create" /\ s.step = "write" /\ s.boot = boot
      /\ s.since = actor[e].since /\ s.settled = actor[e].settled
      /\ actor' = [actor EXCEPT ![e] = s]
  BY <1>1, ActorFacts DEF ActorState, Steps, CreateClaim
<1>3. use' = [use EXCEPT ![t] = "creating"] /\ audio' = [audio EXCEPT ![t] = audio[t]]
  BY <1>1 DEF Inv, TypeOK
<1>4. m \in MetaFile /\ m.kind # "claim"
  BY DEF Inv, TypeOK, MetaFile
<1> HIDE DEF s, m
<1>5. Creates(e, t, "claim", s, audio[t], m, "creating")
  BY <1>1, <1>2, <1>3, <1>4 DEF Creates
<1> QED BY <1>1, <1>2, <1>4, <1>5, CreateStep

LEMMA WriteClaimKeeps ==
  ASSUME Inv, NEW e \in Engines, NEW t \in Tokens, WriteClaim(e, t)
  PROVE  Inv'
<1> DEFINE c == [kind |-> "claim", stamp |-> Stamp[e], boot |-> boot, expires |-> now + TTL]
           m == IF meta[t] = NoMeta THEN NoMeta ELSE c
<1>1. /\ Creating(e, t, "write") /\ UNCHANGED <<now, boot, alive, born, owner, audio>>
      /\ use' = [use EXCEPT ![t] = "held"] /\ actor' = [actor EXCEPT ![e] = Resting]
      /\ audio[t] \in {"absent", "empty", "data"}
  BY DEF WriteClaim, Unchanged, Inv, TypeOK
<1>2. meta' = [meta EXCEPT ![t] = m]
  BY DEF WriteClaim, Inv, TypeOK
<1>3. c \in MetaFile /\ c.kind = "claim" /\ c.stamp = Stamp[e] /\ c.boot = boot
  BY TempAudioAssumption DEF Inv, TypeOK, MetaFile
<1>4. NoMeta \in MetaFile /\ NoMeta.kind = "none"
  BY DEF MetaFile, NoMeta
<1>5. audio' = [audio EXCEPT ![t] = audio[t]]
  BY <1>1 DEF Inv, TypeOK
<1> HIDE DEF c
<1>6. m \in MetaFile /\ (m.kind = "claim" => m.stamp = Stamp[e] /\ m.boot = boot)
  BY <1>3, <1>4
<1> HIDE DEF m
<1>7. Creates(e, t, "write", Resting, audio[t], m, "held")
  BY <1>1, <1>2, <1>5, <1>6 DEF Creates
<1> QED BY <1>1, <1>6, <1>7, RestingIs, CreateStep

\* A step of the request that holds a file.
LEMMA RequestKeeps ==
  ASSUME Inv, NEW t \in Tokens,
         OpenForWriting(t) \/ Downloaded(t) \/ Finish(t) \/ CancelDownload(t)
  PROVE  Inv'
<1>1. /\ UNCHANGED <<now, boot, alive, born, owner, meta, actor>> /\ use[t] \in InUse
  BY DEF OpenForWriting, Downloaded, Finish, CancelDownload, Unchanged, InUse
<1>2. \E u \in {"writing", "ready", "done", "cancelled"}, x \in {"absent", "empty", "data"} :
        /\ use' = [use EXCEPT ![t] = u] /\ audio' = [audio EXCEPT ![t] = x]
        /\ u = "done" => x = "absent"
  <2>1. audio = [audio EXCEPT ![t] = audio[t]] /\ audio[t] \in {"absent", "empty", "data"}
    BY DEF Inv, TypeOK
  <2>2. CASE OpenForWriting(t)
    BY <2>2 DEF OpenForWriting
  <2>3. CASE Downloaded(t)
    BY <2>1, <2>3 DEF Downloaded, Inv, TypeOK
  <2>4. CASE Finish(t)
    BY <2>4 DEF Finish
  <2>5. CASE CancelDownload(t)
    BY <2>1, <2>5 DEF CancelDownload, Unchanged
  <2> QED BY <2>2, <2>3, <2>4, <2>5
<1>3. PICK u \in {"writing", "ready", "done", "cancelled"} :
        \E x \in {"absent", "empty", "data"} :
          /\ use' = [use EXCEPT ![t] = u] /\ audio' = [audio EXCEPT ![t] = x]
          /\ u = "done" => x = "absent"
  BY <1>2
<1>4. PICK x \in {"absent", "empty", "data"} :
        /\ use' = [use EXCEPT ![t] = u] /\ audio' = [audio EXCEPT ![t] = x]
        /\ u = "done" => x = "absent"
  BY <1>3
<1>5. /\ use'[t] = u /\ \A v \in Tokens \ {t} : use'[v] = use[v]
      /\ audio'[t] = x /\ \A v \in Tokens \ {t} : audio'[v] = audio[v]
  BY <1>4 DEF Inv, TypeOK
<1>6. TypeOK' /\ Booted' /\ now \in Nat
  BY <1>1, <1>4 DEF Inv, TypeOK, Booted, Uses
<1>7. OneAtATime'
  BY <1>1, <1>5 DEF Inv, OneAtATime
<1>8. \A v \in Tokens : FileOK(v)'
  BY <1>1, <1>4, <1>5 DEF Inv, FileOK, InUse
<1>9. \A v \in Tokens : Lives(v)
  BY <1>1, <1>5 DEF Lives, LiveClaim, InUse
<1>10. (\A a \in Actors : SweepOK(a)') /\ SettledFilesSurvive'
  BY <1>1, <1>6, <1>9, SweepsStay
<1> QED BY <1>6, <1>7, <1>8, <1>10 DEF Inv

-----------------------------------------------------------------------------
(***************************************************************************)
(* Processes, time, and the theorems.                                      *)
(***************************************************************************)
\* An engine that starts owns no file yet: no claim speaks of it.
LEMMA StartKeeps ==
  ASSUME Inv, NEW e \in Engines, Start(e)
  PROVE  Inv'
<1>1. /\ born[e] = 0 /\ \A f \in Engines : Stamp[f] = Stamp[e] => born[f] # boot
      /\ alive' = alive \union {e} /\ born' = [born EXCEPT ![e] = boot]
      /\ UNCHANGED <<now, boot, audio, meta, use, owner, actor>>
  BY DEF Start
<1>2. born'[e] = boot /\ \A f \in Engines \ {e} : born'[f] = born[f]
  BY <1>1 DEF Inv, TypeOK
<1>3. TypeOK' /\ now \in Nat /\ boot \in Nat
  BY <1>1 DEF Inv, TypeOK
<1>4. Booted' /\ OneAtATime'
  <2>1. \A f \in Engines : born[f] \in Nat
    BY DEF Inv, TypeOK
  <2>2. \A f \in alive' : born'[f] = boot
    BY <1>1, <1>2 DEF Inv, Booted, TypeOK
  <2>3. \A f \in Engines : born'[f] <= boot
    BY <1>2, <1>3 DEF Inv, Booted
  <2>4. \A f, g \in Engines : born'[f] # 0 /\ born'[f] = born'[g] /\ Stamp[f] = Stamp[g] => f = g
    BY <1>1, <1>2 DEF Inv, Booted
  <2> QED BY <1>1, <2>2, <2>3, <2>4 DEF Inv, Booted, OneAtATime
<1>5. ASSUME NEW t \in Tokens, use[t] # "unused"
      PROVE  owner[t] # e /\ born'[owner[t]] = born[owner[t]]
  BY <1>1, <1>2, <1>5 DEF Inv, FileOK
<1>6. \A t \in Tokens : FileOK(t)'
  BY <1>1, <1>5 DEF Inv, FileOK, NoMeta
<1>7. \A t \in Tokens : Lives(t)
  BY <1>1, <1>5 DEF Lives, LiveClaim
<1>8. (\A a \in Actors : SweepOK(a)') /\ SettledFilesSurvive'
  BY <1>1, <1>3, <1>7, SweepsStay
<1> QED BY <1>3, <1>4, <1>6, <1>8 DEF Inv

LEMMA BeginExitKeeps ==
  ASSUME Inv, NEW e \in Engines, BeginExit(e)
  PROVE  Inv'
<1> DEFINE list == {t \in Tokens : audio'[t] # "absent"}
           s == [Sweeping("exit") EXCEPT !.todo = list]
<1>1. /\ e \in alive /\ actor[e] = Resting /\ e \in Actors
      /\ UNCHANGED <<now, boot, alive, born, owner, meta>>
      /\ actor' = [actor EXCEPT ![e] = s]
      /\ use' = [t \in Tokens |->
           IF owner[t] = e /\ use[t] \in {"held", "writing"} THEN "cancelled"
           ELSE IF owner[t] = e /\ use[t] = "ready" THEN "done" ELSE use[t]]
      /\ audio' = [t \in Tokens |->
           IF owner[t] = e /\ use[t] = "ready" THEN "absent" ELSE audio[t]]
  BY DEF BeginExit, Unchanged, Actors
<1>2. list \subseteq Tokens
  OBVIOUS
<1> HIDE DEF list
<1>3. /\ s \in ActorState /\ s.job = "exit" /\ s.step = "scan" /\ s.boot = boot
      /\ s.since = now /\ \A t \in s.settled : use[t] \notin {"unused", "creating"}
  <2>1. LET p == Sweeping("exit")
        IN  /\ p \in ActorState /\ p.job = "exit" /\ p.step = "scan" /\ p.boot = boot
            /\ p.since = now /\ \A t \in p.settled : use[t] \notin {"unused", "creating"}
    BY SweepingIs DEF Jobs
  <2> QED BY <1>2, <2>1 DEF ActorState
<1> HIDE DEF s
<1>4. \A t \in Tokens :
        /\ \/ use'[t] = use[t] /\ audio'[t] = audio[t]
           \/ use[t] \in {"held", "writing"} /\ use'[t] = "cancelled" /\ audio'[t] = audio[t]
           \/ use[t] = "ready" /\ use'[t] = "done" /\ audio'[t] = "absent"
  BY <1>1
<1>5. TypeOK' /\ Booted' /\ now \in Nat
  <2>1. use' \in [Tokens -> Uses]
    BY <1>1 DEF Inv, TypeOK, Uses
  <2>2. audio' \in [Tokens -> {"absent", "empty", "data"}]
    BY <1>1 DEF Inv, TypeOK
  <2> QED BY <1>1, <1>3, <2>1, <2>2 DEF Inv, TypeOK, Booted
<1>6. OneAtATime'
  BY <1>1, <1>4 DEF Inv, OneAtATime
<1>7. actor'[e] = s /\ \A a \in Actors \ {e} : actor'[a] = actor[a]
  BY <1>1 DEF Inv, TypeOK
<1>8. ASSUME NEW t \in Tokens PROVE FileOK(t)'
  <2>1. FileOK(t)
    BY DEF Inv
  <2>2. use[t] = "creating" => owner[t] # e
    BY <1>1, <2>1, RestingIs DEF FileOK
  <2>3. owner[t] \in Engines => owner[t] \in Actors
    BY DEF Actors
  <2> QED BY <1>1, <1>4, <1>7, <2>1, <2>2, <2>3 DEF FileOK
<1>9. \A t \in Tokens : Lives(t)
  BY <1>1, <1>4 DEF Lives, LiveClaim
<1>10. SweepOK(e)'
  <2>1. s.settled \subseteq Tokens
    BY <1>3 DEF ActorState
  <2> QED BY <1>1, <1>3, <1>4, <1>5, <1>7, <2>1 DEF SweepOK
<1>11. (\A a \in Actors : SweepOK(a)') /\ SettledFilesSurvive'
  BY <1>1, <1>3, <1>5, <1>7, <1>9, <1>10, SweepsStay
<1> QED BY <1>5, <1>6, <1>8, <1>11 DEF Inv

\* Processes that die leave their files to no one, in this boot or the next.
LEMMA DieKeeps ==
  ASSUME Inv, NEW dead, Die(dead), boot' \in Nat, boot' >= boot,
         boot' = boot \/ (alive \subseteq dead /\ \A a \in Actors : actor'[a] = Resting)
  PROVE  Inv'
<1>1. /\ alive' = alive \ dead /\ UNCHANGED <<now, born, audio, meta, owner>>
      /\ \A a \in Actors : actor'[a] \in {actor[a], Resting}
      /\ \A a \in Engines \ dead : actor'[a] = actor[a]
      /\ \A t \in Tokens :
           use'[t] = IF owner[t] \in dead /\ use[t] \in InUse \union {"creating"}
                     THEN "orphaned" ELSE use[t]
  BY TempAudioAssumption DEF Die, Actors
<1>2. TypeOK' /\ now \in Nat /\ boot \in Nat
  <2>1. actor' \in [Actors -> ActorState]
    BY RestingIs DEF Die, Inv, TypeOK
  <2>2. use' \in [Tokens -> Uses]
    BY DEF Die, Inv, TypeOK, Uses
  <2> QED BY <1>1, <2>1, <2>2 DEF Inv, TypeOK
<1>3. Booted'
  <2>1. \A e \in Engines : born[e] \in Nat
    BY DEF Inv, TypeOK
  <2> QED BY <1>1, <1>2, <2>1 DEF Inv, Booted, TypeOK
<1>4. OneAtATime'
  BY <1>1 DEF Inv, OneAtATime
<1>5. ASSUME NEW t \in Tokens PROVE FileOK(t)'
  <2>1. FileOK(t)
    BY DEF Inv
  <2> QED BY <1>1, <2>1 DEF FileOK, InUse
<1>6. \A t \in Tokens : Lives(t)
  BY <1>1 DEF Lives, LiveClaim
<1>7. (\A a \in Actors : SweepOK(a)') /\ SettledFilesSurvive'
  BY <1>1, <1>2, <1>6, SweepsStay
<1> QED BY <1>2, <1>3, <1>4, <1>5, <1>7 DEF Inv

LEMMA DeathKeeps ==
  ASSUME Inv, Reboot \/ \E e \in Engines : Crash(e)
  PROVE  Inv'
<1>1. boot \in Nat /\ alive \subseteq Engines
  BY DEF Inv, TypeOK
<1>2. CASE Reboot
  <2>1. Die(Engines \union {External}) /\ boot' = boot + 1
    BY <1>2 DEF Reboot
  <2>2. \A a \in Actors : actor'[a] = Resting
    BY <2>1, TempAudioAssumption DEF Die, Actors
  <2> QED BY <1>1, <2>1, <2>2, DieKeeps
<1>3. ASSUME NEW e \in Engines, Crash(e) PROVE Inv'
  BY <1>1, <1>3, DieKeeps DEF Crash
<1> QED BY <1>2, <1>3

LEMMA TickKeeps ==
  ASSUME Inv, Tick
  PROVE  Inv'
<1>1. now' = now + 1 /\ now \in Nat
      /\ UNCHANGED <<boot, alive, born, audio, meta, use, owner, actor>>
  BY DEF Tick, Inv, TypeOK
<1>2. TypeOK' /\ Booted' /\ OneAtATime' /\ \A t \in Tokens : FileOK(t)'
  BY <1>1 DEF Inv, TypeOK, Booted, OneAtATime, FileOK
<1>3. \A t \in Tokens : Lives(t)
  <2>1. \A t \in Tokens : meta[t].kind = "claim" => meta[t].expires \in Nat
    BY MetaFacts DEF Inv, TypeOK
  <2> QED BY <1>1, <2>1 DEF Lives, LiveClaim
<1>4. (\A a \in Actors : SweepOK(a)') /\ SettledFilesSurvive'
  BY <1>1, <1>3, SweepsStay
<1> QED BY <1>2, <1>4 DEF Inv

LEMMA NextInv == Inv /\ [Next]_vars => Inv'
<1> SUFFICES ASSUME Inv, [Next]_vars PROVE Inv'
  OBVIOUS
<1>1. CASE Next
  BY <1>1, SweepStepKeeps, BeginSweepKeeps, StartKeeps, BeginExitKeeps, BeginCreateKeeps,
     CreateAudioKeeps, CreateClaimKeeps, WriteClaimKeeps, RequestKeeps, DeathKeeps, TickKeeps
     DEF Next
<1>2. CASE UNCHANGED vars
  BY <1>2 DEF vars, Inv, TypeOK, Booted, OneAtATime, FileOK, SweepOK, SettledFilesSurvive,
              LiveClaim
<1> QED BY <1>1, <1>2

LEMMA InitInv == Init => Inv
<1> SUFFICES ASSUME Init PROVE Inv
  OBVIOUS
<1>1. NoMeta \in MetaFile /\ NoMeta.kind = "none"
  BY DEF MetaFile, NoMeta
<1>2. TypeOK
  BY <1>1, RestingIs DEF Init, TypeOK, Uses
<1>3. Booted /\ OneAtATime /\ \A t \in Tokens : FileOK(t)
  BY <1>1 DEF Init, Booted, OneAtATime, FileOK
<1>4. (\A a \in Actors : SweepOK(a)) /\ SettledFilesSurvive
  BY RestingIs DEF Init, SweepOK, SettledFilesSurvive
<1> QED BY <1>2, <1>3, <1>4 DEF Inv

\* The inductive invariant holds in every state of every behaviour.
THEOREM InvariantHolds == Spec => []Inv
BY InitInv, NextInv, PTL DEF Spec

\* Every variable keeps its type.
THEOREM TypesHold == Spec => []TypeOK
<1>1. Inv => TypeOK
  BY DEF Inv
<1> QED BY <1>1, InvariantHolds, PTL

\* _is_reclaimable says of a complete claim exactly whether the process that wrote
\* it is gone or the claim has expired, however PIDs are reused across boots.
THEOREM ClaimsAreTheTruth == Spec => []ClaimsTellTheTruth
BY ClaimsAreTrue, InvariantHolds, PTL

\* No sweep, of an engine, of a thread or of the timer, is about to unlink a file
\* whose live claim it could have read, whatever happened since it began.
THEOREM SettledFilesStay == Spec => []SettledFilesSurvive
<1>1. Inv => SettledFilesSurvive
  BY DEF Inv
<1> QED BY <1>1, InvariantHolds, PTL

\* Every audio file on disk belongs to a request in progress or cancelled, or the
\* next sweep may take it: nothing that create_file left is protected for good.
THEOREM NoAudioIsForgotten == Spec => []AudioHasAReason
BY ReasonOfAudio, InvariantHolds, PTL
=============================================================================

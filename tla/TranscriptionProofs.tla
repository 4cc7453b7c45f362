------------------------ MODULE TranscriptionProofs -------------------------
(***************************************************************************)
(* What Transcription guarantees for every catalogue, every deployment and *)
(* any number of concurrent calls, and that it implements Disclosure.      *)
(***************************************************************************)
EXTENDS Transcription, RoutingProofs

-----------------------------------------------------------------------------
(***************************************************************************)
(* The inductive invariant.  AuthorizedRecipients speaks of what was sent; *)
(* to keep it, a call in flight must hold only candidates of its request,  *)
(* and whatever was sent must have gone to one.                            *)
(***************************************************************************)
Active == {"validating", "downloading", "calling", "sent", "closing"}

Chosen(c) == {m \in Candidates(deployment, request[c]) :
                RouteError(deployment, request[c]) = "none"}

\* A call in phase Active holds candidates of its routed request only.
Holds(c, s) ==
  s.phase \in Active => s.model \in Chosen(c) /\ s.remaining \subseteq Chosen(c)

InFlight == \A c \in Calls : Holds(c, call[c])

SentToChosen == \A c \in Calls : Received(c) \subseteq Chosen(c)

Inv == TypeOK /\ InFlight /\ SentToChosen

\* What every step of call c does to the calls: one well-formed state for c.
Moves(c) ==
  \E s \in CallState : Holds(c, s) /\ call' = [call EXCEPT ![c] = s]

LEMMA ChosenAreModels ==
  ASSUME NEW c PROVE Chosen(c) \subseteq Models
<1> SUFFICES ASSUME NEW m \in Chosen(c) PROVE m \in Models
  OBVIOUS
<1>1. RouteError(deployment, request[c]) = "none" /\ m \in Candidates(deployment, request[c])
  BY DEF Chosen
<1> QED BY <1>1, CandidatesAreReachable

LEMMA EndedIsWellFormed ==
  ASSUME TypeOK, NEW c \in Calls, NEW v \in Verdicts
  PROVE  Ended(c, v) \in CallState /\ Holds(c, Ended(c, v))
<1>1. call[c] \in CallState
  BY DEF TypeOK
<1>2. Ended(c, v) \in CallState
  BY <1>1 DEF Ended, CallState, Phases
<1>3. Ended(c, v).phase = "done"
  BY <1>1 DEF Ended, CallState
<1> QED BY <1>2, <1>3 DEF Holds, Active

\* Enter begins a candidate of the set it is given, or ends the call.
LEMMA EnterMoves ==
  ASSUME TypeOK, NEW c \in Calls, NEW S, S \subseteq Chosen(c), Enter(c, S)
  PROVE  Moves(c)
<1>1. PICK m \in S : call' = [call EXCEPT ![c] =
         IF Permits(deployment, ProviderOf(m)) THEN Attempting(c, m, S \ {m})
         ELSE [Ended(c, "PROVIDER_NOT_ENABLED") EXCEPT !.model = m]]
  BY DEF Enter
<1>2. call[c] \in CallState /\ m \in Models /\ S \subseteq Models
  BY ChosenAreModels DEF TypeOK
<1>3. Attempting(c, m, S \ {m}) \in CallState
  BY <1>2 DEF Attempting, CallState, Phases, Verdicts
<1>4. Holds(c, Attempting(c, m, S \ {m}))
  <2>1. Attempting(c, m, S \ {m}).model = m /\ Attempting(c, m, S \ {m}).remaining = S \ {m}
    BY <1>2 DEF Attempting, CallState
  <2> QED BY <2>1 DEF Holds
<1> DEFINE refused == [Ended(c, "PROVIDER_NOT_ENABLED") EXCEPT !.model = m]
<1>5. "PROVIDER_NOT_ENABLED" \in Verdicts
  BY DEF Verdicts, Errors
<1>6. refused \in CallState
  BY <1>2, <1>5, EndedIsWellFormed DEF CallState
<1>7. Holds(c, refused)
  <2>1. refused.phase = "done"
    BY <1>2 DEF Ended, CallState
  <2> QED BY <2>1 DEF Holds, Active
<1> HIDE DEF refused
<1>8. CASE Permits(deployment, ProviderOf(m))
  BY <1>1, <1>3, <1>4, <1>8 DEF Moves
<1>9. CASE ~Permits(deployment, ProviderOf(m))
  BY <1>1, <1>6, <1>7, <1>9 DEF Moves, refused
<1> QED BY <1>8, <1>9

\* A step that moves one call keeps the calls well formed.
LEMMA MovesPreserves ==
  ASSUME Inv, NEW c \in Calls, Moves(c), UNCHANGED <<deployment, request>>
  PROVE  call' \in [Calls -> CallState] /\ InFlight'
<1>1. PICK s \in CallState : Holds(c, s) /\ call' = [call EXCEPT ![c] = s]
  BY DEF Moves
<1>2. call \in [Calls -> CallState]
  BY DEF Inv, TypeOK
<1>3. call' \in [Calls -> CallState]
  BY <1>1, <1>2
<1>4. ASSUME NEW d \in Calls PROVE Holds(d, call[d])'
  <2>1. Holds(d, call'[d])
    BY <1>1, <1>2 DEF Inv, InFlight
  <2>2. Chosen(d)' = Chosen(d)
    BY DEF Chosen
  <2> QED BY <2>1, <2>2 DEF Holds
<1> QED BY <1>3, <1>4 DEF InFlight

-----------------------------------------------------------------------------
(***************************************************************************)
(* One lemma per kind of step.                                             *)
(***************************************************************************)
\* Candidates holds every first candidate and nothing beyond the offer.
LEMMA SubmitMoves ==
  ASSUME TypeOK, NEW c \in Calls, Submit(c)
  PROVE  Moves(c)
<1> DEFINE candidates == Candidates(deployment, request[c])
           routed == RouteError(deployment, request[c])
<1>1. CASE routed # "none" /\ call' = [call EXCEPT ![c] = Ended(c, routed)]
  <2>1. routed \in Verdicts
    BY DEF RouteError, Verdicts, Errors
  <2> QED BY <1>1, <2>1, EndedIsWellFormed DEF Moves
<1>2. CASE /\ routed = "none"
           /\ \E m \in Firsts(deployment, request[c], candidates) :
                LET refused == PreflightError(deployment, request[c], m)
                IN  IF refused # "none"
                    THEN call' = [call EXCEPT ![c] = Ended(c, refused)]
                    ELSE Enter(c, candidates)
  <2>1. PICK m : IF PreflightError(deployment, request[c], m) # "none"
                 THEN call' = [call EXCEPT ![c] =
                                 Ended(c, PreflightError(deployment, request[c], m))]
                 ELSE Enter(c, candidates)
    BY <1>2
  <2>2. PreflightError(deployment, request[c], m) \in Verdicts
    BY DEF PreflightError, Verdicts, Errors, SourceErrors
  <2>3. candidates = Chosen(c)
    BY <1>2 DEF Chosen
  <2>4. CASE Enter(c, candidates)
    BY <2>3, <2>4, EnterMoves
  <2>5. CASE call' = [call EXCEPT ![c] = Ended(c, PreflightError(deployment, request[c], m))]
    BY <2>2, <2>5, EndedIsWellFormed DEF Moves
  <2> QED BY <2>1, <2>4, <2>5
<1> QED BY <1>1, <1>2 DEF Submit

\* A change of phase, attempt, verdict or history alone keeps the candidates.
LEMMA SameCandidates ==
  ASSUME Inv, NEW c \in Calls, NEW s \in CallState,
         call[c].phase \in Active,
         s.model = call[c].model, s.remaining = call[c].remaining,
         call' = [call EXCEPT ![c] = s]
  PROVE  Moves(c)
<1>1. Holds(c, call[c])
  BY DEF Inv, InFlight
<1> QED BY <1>1 DEF Moves, Holds

LEMMA PhaseMoves ==
  ASSUME Inv, NEW c \in Calls, NEW p \in Phases,
         call[c].phase \in Active, call' = [call EXCEPT ![c].phase = p]
  PROVE  Moves(c)
<1> DEFINE s == [call[c] EXCEPT !.phase = p]
<1>1. call[c] \in CallState /\ call \in [Calls -> CallState]
  BY DEF Inv, TypeOK
<1>2. s \in CallState /\ s.model = call[c].model /\ s.remaining = call[c].remaining
  BY <1>1 DEF CallState
<1>3. call' = [call EXCEPT ![c] = s]
  BY <1>1
<1> HIDE DEF s
<1> QED BY <1>2, <1>3, SameCandidates

LEMMA ClosingMoves ==
  ASSUME Inv, NEW c \in Calls, NEW v \in Verdicts, call[c].phase \in Active,
         call' = [call EXCEPT ![c].phase = "closing", ![c].verdict = v]
  PROVE  Moves(c)
<1> DEFINE s == [call[c] EXCEPT !.phase = "closing", !.verdict = v]
<1>1. call[c] \in CallState /\ call \in [Calls -> CallState]
  BY DEF Inv, TypeOK
<1>2. s \in CallState /\ s.model = call[c].model /\ s.remaining = call[c].remaining
  BY <1>1 DEF CallState, Phases
<1>3. call' = [call EXCEPT ![c] = s]
  BY <1>1
<1> HIDE DEF s
<1> QED BY <1>2, <1>3, SameCandidates

LEMMA ValidateMoves ==
  ASSUME Inv, NEW c \in Calls, Validate(c)
  PROVE  Moves(c)
<1> DEFINE refusals == {"SOURCE_URL_REJECTED", "UNSUPPORTED_CAPABILITY",
                        "TEMPORARY_AUDIO_NOT_PERMITTED", "TEMP_AUDIO_UNAVAILABLE"}
<1>1. call[c].phase \in Active
  BY DEF Validate, Active
<1>2. \/ \E v \in refusals : call' = [call EXCEPT ![c] = Ended(c, v)]
      \/ \E p \in {"calling", "downloading"} : call' = [call EXCEPT ![c].phase = p]
  BY Zenon DEF Validate
<1>3. ASSUME NEW v \in refusals, call' = [call EXCEPT ![c] = Ended(c, v)]
      PROVE  Moves(c)
  <2>1. v \in Verdicts
    BY DEF Verdicts, Errors, SourceErrors
  <2> QED BY <1>3, <2>1, EndedIsWellFormed DEF Moves, Inv
<1>4. ASSUME NEW p \in {"calling", "downloading"}, call' = [call EXCEPT ![c].phase = p]
      PROVE  Moves(c)
  BY <1>1, <1>4, PhaseMoves DEF Phases
<1> QED BY <1>2, <1>3, <1>4

LEMMA DownloadMoves ==
  ASSUME Inv, NEW c \in Calls, Download(c)
  PROVE  Moves(c)
<1>1. call[c].phase \in Active
  BY DEF Download, Active
<1>2. ASSUME NEW e \in SourceErrors,
             call' = [call EXCEPT ![c].phase = "closing", ![c].verdict = e]
      PROVE  Moves(c)
  <2>1. e \in Verdicts
    BY DEF Verdicts, Errors
  <2> QED BY <1>1, <1>2, <2>1, ClosingMoves
<1>3. CASE call' = [call EXCEPT ![c].phase = "calling"]
  BY <1>1, <1>3, PhaseMoves DEF Phases
<1> QED BY <1>2, <1>3 DEF Download

LEMMA SendMoves ==
  ASSUME Inv, NEW c \in Calls, Send(c)
  PROVE  Moves(c)
<1>1. call[c].phase \in Active
  BY DEF Send, Active
<1>2. call' = [call EXCEPT ![c].phase = "sent"]
  BY DEF Send
<1> QED BY <1>1, <1>2, PhaseMoves DEF Phases

LEMMA TransientFailureMoves ==
  ASSUME Inv, NEW c \in Calls, TransientFailure(c)
  PROVE  Moves(c)
<1>1. call[c] \in CallState /\ call \in [Calls -> CallState]
  BY DEF Inv, TypeOK
<1>2. call[c].phase \in Active
  BY DEF TransientFailure, Active
<1>3. CASE call[c].attempt < MaxAttempts
  <2> DEFINE n == call[c].attempt + 1
             s == [call[c] EXCEPT !.phase = "calling", !.attempt = n]
  <2>1. call' = [call EXCEPT ![c] = s]
    BY <1>1, <1>3 DEF TransientFailure
  <2>2. n \in Nat
    BY <1>1 DEF CallState
  <2> HIDE DEF n
  <2>3. s \in CallState /\ s.model = call[c].model /\ s.remaining = call[c].remaining
    BY <1>1, <2>2 DEF CallState, Phases
  <2> HIDE DEF s
  <2> QED BY <1>2, <2>1, <2>3, SameCandidates
<1>4. CASE ~(call[c].attempt < MaxAttempts)
  <2> DEFINE v == IF request[c].allowFallback THEN "fallback" ELSE "PROVIDER_UNAVAILABLE"
             f == IF request[c].allowFallback
                  THEN Append(call[c].failures, call[c].model) ELSE call[c].failures
             s == [call[c] EXCEPT !.phase = "closing", !.verdict = v, !.failures = f]
  <2>1. v \in Verdicts
    BY DEF Verdicts, Errors
  <2>2. call[c].model \in Models
    BY <1>2, ChosenAreModels DEF Inv, InFlight, Holds
  <2>3. f \in Seq(Models)
    BY <1>1, <2>2 DEF CallState
  <2>4. call' = [call EXCEPT ![c] = s]
    BY <1>1, <1>4 DEF TransientFailure
  <2> HIDE DEF v, f
  <2>5. s \in CallState /\ s.model = call[c].model /\ s.remaining = call[c].remaining
    BY <1>1, <2>1, <2>3 DEF CallState, Phases
  <2> HIDE DEF s
  <2> QED BY <1>2, <2>4, <2>5, SameCandidates
<1> QED BY <1>3, <1>4

\* FinalFailure and Transcribed: the attempt is over, with or without an answer.
LEMMA OutcomeMoves ==
  ASSUME Inv, NEW c \in Calls, FinalFailure(c) \/ Transcribed(c)
  PROVE  Moves(c)
<1>1. call[c].phase \in Active
  BY DEF FinalFailure, Transcribed, Active
<1>2. PICK v \in {"PROVIDER_REJECTED", "INTERNAL", "transcript"} :
        call' = [call EXCEPT ![c].phase = "closing", ![c].verdict = v]
  BY Zenon DEF FinalFailure, Transcribed
<1>3. v \in Verdicts
  BY DEF Verdicts, Errors, SourceErrors
<1> QED BY <1>1, <1>2, <1>3, ClosingMoves

\* The broker's exit: an answer, the next candidate, or the end.
LEMMA CloseMoves ==
  ASSUME Inv, NEW c \in Calls, Close(c)
  PROVE  Moves(c)
<1>1. call[c] \in CallState /\ call[c].phase \in Active
  BY DEF Inv, TypeOK, Close, Active
<1>2. \/ call' = [call EXCEPT ![c].phase = "delivering"]
      \/ Enter(c, call[c].remaining)
      \/ \E v \in {"PROVIDER_UNAVAILABLE", call[c].verdict} :
           call' = [call EXCEPT ![c] = Ended(c, v)]
  BY DEF Close
<1>3. CASE call' = [call EXCEPT ![c].phase = "delivering"]
  BY <1>1, <1>3, PhaseMoves DEF Phases
<1>4. CASE Enter(c, call[c].remaining)
  <2>1. call[c].remaining \subseteq Chosen(c)
    BY <1>1 DEF Inv, InFlight, Holds
  <2> QED BY <1>4, <2>1, EnterMoves DEF Inv
<1>5. ASSUME NEW v \in {"PROVIDER_UNAVAILABLE", call[c].verdict},
             call' = [call EXCEPT ![c] = Ended(c, v)]
      PROVE  Moves(c)
  <2>1. v \in Verdicts
    BY <1>1 DEF CallState, Verdicts, Errors
  <2> QED BY <1>5, <2>1, EndedIsWellFormed DEF Moves, Inv
<1> QED BY <1>2, <1>3, <1>4, <1>5

LEMMA DeliverMoves ==
  ASSUME Inv, NEW c \in Calls, Deliver(c)
  PROVE  Moves(c) /\ stored' \subseteq Calls
<1> DEFINE verdicts == {"SOURCE_DURATION_EXCEEDED", "RESULT_STORE_DISABLED", "INTERNAL",
                        "stored", "inline"}
<1>1. \E v \in verdicts : call' = [call EXCEPT ![c] = Ended(c, v)]
  BY DEF Deliver
<1>2. ASSUME NEW v \in verdicts, call' = [call EXCEPT ![c] = Ended(c, v)]
      PROVE  Moves(c)
  <2>1. v \in Verdicts
    BY DEF Verdicts, Errors, SourceErrors, Delivered
  <2> QED BY <1>2, <2>1, EndedIsWellFormed DEF Moves, Inv
<1>3. stored' \subseteq Calls
  BY DEF Deliver, Inv, TypeOK
<1> QED BY <1>1, <1>2, <1>3

LEMMA CancelMoves ==
  ASSUME Inv, NEW c \in Calls, Cancel(c)
  PROVE  Moves(c)
<1>1. "cancelled" \in Verdicts
  BY DEF Verdicts
<1>2. CASE call[c].phase \in {"calling", "sent", "closing"}
  <2>1. call[c].phase \in Active
    BY <1>2 DEF Active
  <2>2. call' = [call EXCEPT ![c].phase = "closing", ![c].verdict = "cancelled"]
    BY <1>2 DEF Cancel, Inv, TypeOK
  <2> QED BY <1>1, <2>1, <2>2, ClosingMoves
<1>3. CASE call[c].phase \notin {"calling", "sent", "closing"}
  <2>1. call' = [call EXCEPT ![c] = Ended(c, "cancelled")]
    BY <1>3 DEF Cancel
  <2> QED BY <1>1, <2>1, EndedIsWellFormed DEF Moves, Inv
<1> QED BY <1>2, <1>3

-----------------------------------------------------------------------------
(***************************************************************************)
(* The invariant is inductive.                                             *)
(***************************************************************************)
LEMMA InitInv == Init => Inv
<1> SUFFICES ASSUME Init PROVE Inv
  OBVIOUS
<1>1. Idle \in CallState
  BY DEF Idle, CallState, Phases, Verdicts
<1>2. TypeOK
  BY <1>1 DEF Init, TypeOK
<1>3. InFlight
  BY DEF Init, InFlight, Holds, Idle, Active
<1>4. SentToChosen
  BY DEF Init, SentToChosen, Received
<1> QED BY <1>2, <1>3, <1>4 DEF Inv

\* What every step leaves alone, and what all but Send leave alone.
LEMMA StepMoves ==
  ASSUME Inv, NEW c \in Calls, Submit(c) \/ Step(c) \/ Cancel(c)
  PROVE  /\ Moves(c)
         /\ UNCHANGED <<deployment, request>>
         /\ copies' \subseteq Calls /\ stored' \subseteq Calls
         /\ Send(c) \/ UNCHANGED sends
<1> USE DEF Inv, TypeOK
<1>1. CASE Submit(c)
  BY <1>1, SubmitMoves DEF Submit
<1>2. CASE Validate(c)
  BY <1>2, ValidateMoves DEF Validate
<1>3. CASE Download(c)
  BY <1>3, DownloadMoves DEF Download
<1>4. CASE Send(c)
  BY <1>4, SendMoves DEF Send
<1>5. CASE TransientFailure(c)
  BY <1>5, TransientFailureMoves DEF TransientFailure
<1>6. CASE FinalFailure(c) \/ Transcribed(c)
  BY <1>6, OutcomeMoves DEF FinalFailure, Transcribed
<1>7. CASE Close(c)
  BY <1>7, CloseMoves DEF Close
<1>8. CASE Deliver(c)
  BY <1>8, DeliverMoves DEF Deliver
<1>9. CASE Cancel(c)
  BY <1>9, CancelMoves DEF Cancel
<1> QED BY <1>1, <1>2, <1>3, <1>4, <1>5, <1>6, <1>7, <1>8, <1>9 DEF Step

\* Only Send reaches a provider, and it reaches the candidate it holds.
LEMMA SendKeepsRecipients ==
  ASSUME Inv, NEW c \in Calls, Send(c)
  PROVE  /\ sends' \in [Calls -> [Models -> Nat]]
         /\ SentToChosen'
<1>1. call[c].model \in Chosen(c)
  BY DEF Send, Inv, InFlight, Holds, Active
<1>2. call[c].model \in Models
  BY <1>1, ChosenAreModels
<1>3. /\ sends' = [sends EXCEPT ![c][call[c].model] = @ + 1]
      /\ UNCHANGED <<deployment, request>>
      /\ sends \in [Calls -> [Models -> Nat]]
  BY DEF Send, Inv, TypeOK
<1>4. sends' \in [Calls -> [Models -> Nat]]
  BY <1>2, <1>3
<1>5. ASSUME NEW d \in Calls, NEW m \in Models, sends'[d][m] > 0
      PROVE  m \in Chosen(d)'
  <2>1. Chosen(d)' = Chosen(d)
    BY <1>3 DEF Chosen
  <2>2. CASE d = c /\ m = call[c].model
    BY <1>1, <2>1, <2>2
  <2>3. CASE ~(d = c /\ m = call[c].model)
    <3>1. sends[d][m] > 0
      BY <1>2, <1>3, <1>5, <2>3
    <3> QED BY <2>1, <3>1 DEF Inv, SentToChosen, Received
  <2> QED BY <2>2, <2>3
<1> QED BY <1>4, <1>5 DEF SentToChosen, Received

LEMMA NextInv == Inv /\ [Next]_vars => Inv'
<1> SUFFICES ASSUME Inv, [Next]_vars PROVE Inv'
  OBVIOUS
<1>1. ASSUME NEW c \in Calls, Submit(c) \/ Step(c) \/ Cancel(c)
      PROVE  Inv'
  <2>1. call' \in [Calls -> CallState] /\ InFlight'
    BY <1>1, StepMoves, MovesPreserves
  <2>2. sends' \in [Calls -> [Models -> Nat]] /\ SentToChosen'
    <3>1. CASE Send(c)
      BY <3>1, SendKeepsRecipients
    <3>2. CASE UNCHANGED sends
      BY <1>1, <3>2, StepMoves DEF Inv, TypeOK, SentToChosen, Received, Chosen
    <3> QED BY <1>1, <3>1, <3>2, StepMoves
  <2> QED BY <1>1, <2>1, <2>2, StepMoves DEF Inv, TypeOK
<1>2. ASSUME NEW c \in Calls, Discard(c)
      PROVE  Inv'
  BY <1>2 DEF Discard, Inv, TypeOK, InFlight, SentToChosen, Holds, Received, Chosen
<1>3. CASE UNCHANGED vars
  BY <1>3 DEF vars, Inv, TypeOK, InFlight, SentToChosen, Holds, Received, Chosen
<1> QED BY <1>1, <1>2, <1>3 DEF Next

\* Whatever was sent went to candidates, and the candidates of one routed
\* request are authorized together.
LEMMA InvGivesRecipients == Inv => AuthorizedRecipients
<1> SUFFICES ASSUME Inv, NEW c \in Calls, NEW m \in Received(c)
             PROVE  /\ ProviderOf(m) \in deployment.enabled \intersect deployment.configured
                    /\ \A n \in Received(c) :
                         /\ deployment.cross \/ ProviderOf(n) = ProviderOf(m)
                         /\ request[c].allowFallback \/ n = m
  BY DEF AuthorizedRecipients
<1>1. /\ Received(c) \subseteq Candidates(deployment, request[c])
      /\ RouteError(deployment, request[c]) = "none"
  BY DEF Inv, SentToChosen, Chosen
<1>2. m \in Reachable(deployment)
  BY <1>1, CandidatesAreReachable
<1>3. ProviderOf(m) \in deployment.enabled \intersect deployment.configured
  BY <1>2 DEF Reachable, Permits
<1> QED BY <1>1, <1>3, CandidatesNeedPermission

\* A step of one call leaves the others as they are.
LEMMA StepOfOne ==
  ASSUME Inv, NEW c \in Calls, Submit(c) \/ Step(c) \/ Cancel(c)
  PROVE  \A d \in Calls \ {c} : call'[d] = call[d] /\ sends'[d] = sends[d]
<1>1. PICK s : call' = [call EXCEPT ![c] = s]
  BY StepMoves DEF Moves
<1>2. Send(c) \/ UNCHANGED sends
  BY StepMoves
<1> QED BY <1>1, <1>2 DEF Send, Inv, TypeOK

LEMMA InvGivesNoDowngrade == Inv => NoSilentDowngrade
<1> SUFFICES ASSUME Inv, NEW c \in Calls, NEW m \in Received(c)
             PROVE  LET req == request[c]
                        bound == Resolve(req, m)
                        reported == Missing(req, m)
                    IN  /\ bound.diarization => Descriptor[m].diarization
                        /\ bound.timestamps \in Descriptor[m].timestamps
                        /\ bound.style \in Descriptor[m].styles
                        /\ req.diarization = "yes" /\ ~bound.diarization =>
                             "diarization" \in reported
                        /\ req.diarization = "no" => ~bound.diarization
                        /\ req.timestamps \notin {Unset, bound.timestamps} =>
                             "timestamps" \in reported
                        /\ req.style \notin {Unset, bound.style} =>
                             "transcript_style" \in reported
                        /\ bound.hints /\ ~Descriptor[m].hints => "phrase_hints" \in reported
                        /\ req.strict => reported = {}
  BY DEF NoSilentDowngrade
<1> DEFINE req == request[c]
<1>1. m \in Models /\ RouteError(deployment, req) = "none" /\ m \in Candidates(deployment, req)
  BY DEF Inv, SentToChosen, Chosen, Received
<1>2. req.strict => Missing(req, m) = {}
  BY <1>1, StrictLacksNothing
<1>3. /\ req.diarization = "yes" /\ ~Descriptor[m].diarization => "diarization" \in Missing(req, m)
      /\ req.timestamps \notin Descriptor[m].timestamps \union {Unset} =>
           "timestamps" \in Missing(req, m)
      /\ req.style \notin Descriptor[m].styles \union {Unset} =>
           "transcript_style" \in Missing(req, m)
      /\ req.hints /\ ~Descriptor[m].hints => "phrase_hints" \in Missing(req, m)
  BY DEF Missing
<1> QED BY <1>1, <1>2, <1>3, ResolveIsSupported

\* Routing is a decision.
LEMMA RoutingDecides == TypeOK => RouteDecides
<1> SUFFICES ASSUME NEW c \in Calls, RouteError(deployment, request[c]) = "none"
             PROVE  LET req == request[c]
                        first == Firsts(deployment, req, Candidates(deployment, req))
                    IN  /\ \E m \in first : first = {m}
                        /\ req.provider # AutoProvider => first = Explicit(deployment, req)
  BY DEF RouteDecides
<1> QED BY RoutedHasCandidates, ExplicitIsFirst

-----------------------------------------------------------------------------
(***************************************************************************)
(* The history of a call.  TriedInOrder and HonestHistory speak of calls   *)
(* that have moved on; to keep them, the proof follows the submissions and *)
(* the history through the phases of every attempt.                        *)
(***************************************************************************)
Failed(s) == {s.failures[i] : i \in DOMAIN s.failures}

\* The candidates of a call in flight that are behind it.
Spent(c, s) == Chosen(c) \ (s.remaining \union {s.model})

\* Behind the model of a call in state s that sent its audio sd[m] times to each
\* model m: the candidates ranked before it, each given up and recorded.  Before
\* it: those ranked after it, not yet asked.
Ranked(c, s, sd) ==
  /\ s.model \notin s.remaining
  /\ \A n \in Spent(c, s) :
       sd[n] = MaxAttempts /\ \A r \in s.remaining \union {s.model} :
                                Precedes(deployment, request[c], n, r)
  /\ \A r \in s.remaining : sd[r] = 0 /\ Precedes(deployment, request[c], s.model, r)

\* How often the model of the attempt was given the audio, by phase.
Counted(s, sd) ==
  /\ s.attempt \in 1..MaxAttempts
  /\ s.phase \in {"validating", "downloading"} => sd[s.model] = 0 /\ s.attempt = 1
  /\ s.phase = "calling" => sd[s.model] = s.attempt - 1
  /\ s.phase = "sent" => sd[s.model] = s.attempt
  /\ s.phase = "closing" => sd[s.model] <= MaxAttempts
  /\ s.phase = "closing" /\ s.verdict = "transcript" => sd[s.model] > 0
  /\ s.phase = "closing" /\ s.verdict = "fallback" => sd[s.model] = MaxAttempts

\* The history is the candidates given up; the model of a failing attempt joins
\* it before the next one is chosen.
Recorded(c, s) ==
  /\ Spent(c, s) \subseteq Failed(s)
  /\ \/ s.phase = "closing" /\ s.verdict \in {"fallback", "cancelled"}
     \/ Failed(s) = Spent(c, s)
  /\ s.phase = "closing" /\ s.verdict = "fallback" =>
       Failed(s) = Spent(c, s) \union {s.model}

\* TriedInOrder and HonestHistory, of one call.
Ordered(c, s, sd) ==
  \A m \in Models : sd[m] > 0 =>
    /\ sd[m] <= MaxAttempts
    /\ \A n \in Candidates(deployment, request[c]) :
         Precedes(deployment, request[c], n, m) => sd[n] = MaxAttempts /\ n \in Failed(s)

Told(s, sd) ==
  /\ s.model \in Models /\ sd[s.model] > 0 /\ s.model \notin Failed(s)
  /\ {m \in Models : sd[m] > 0} \ {s.model} = Failed(s) \ {s.model}

Truthful(c, s, sd) ==
  /\ s.phase = "idle" => s.failures = <<>> /\ \A m \in Models : sd[m] = 0
  /\ s.phase \in Active => Ranked(c, s, sd) /\ Counted(s, sd) /\ Recorded(c, s)
  /\ s.phase \in {"delivering", "done"} => Ordered(c, s, sd)
  /\ s.phase = "delivering" \/ s.verdict \in Delivered => Told(s, sd)
  /\ s.verdict \in Delivered => s.phase = "done"

History == \A c \in Calls : Truthful(c, call[c], sends[c])

LEMMA InitHistory == Init => History
BY DEF Init, History, Truthful, Idle, Active, Delivered

\* In flight, the order holds already.
LEMMA RankedIsOrdered ==
  ASSUME Inv, NEW c \in Calls, call[c].phase \in Active, Truthful(c, call[c], sends[c])
  PROVE  Ordered(c, call[c], sends[c])
<1> DEFINE s == call[c]
           sd == sends[c]
<1> SUFFICES ASSUME NEW m \in Models, sd[m] > 0
             PROVE  /\ sd[m] <= MaxAttempts
                    /\ \A n \in Candidates(deployment, request[c]) :
                         Precedes(deployment, request[c], n, m) =>
                           sd[n] = MaxAttempts /\ n \in Failed(s)
  BY DEF Ordered
<1>1. m \in Chosen(c)
  BY DEF Inv, SentToChosen, Received
<1>2. /\ Chosen(c) = Candidates(deployment, request[c])
      /\ Chosen(c) \subseteq Models
  BY <1>1, ChosenAreModels DEF Chosen
<1>3. Ranked(c, s, sd) /\ Counted(s, sd) /\ Recorded(c, s)
  BY DEF Truthful
<1>4. s.model \in Models /\ s.remaining \subseteq Models
  BY <1>2 DEF Inv, InFlight, Holds
<1>5. m \notin s.remaining
  BY <1>3, <1>1 DEF Ranked
<1>6. sd[s.model] <= MaxAttempts /\ sd[s.model] \in Nat /\ MaxAttempts \in Nat \ {0}
  BY <1>3, <1>4, TranscriptionAssumption DEF Counted, Active, Inv, TypeOK
<1>7. sd[m] <= MaxAttempts
  BY <1>1, <1>3, <1>5, <1>6 DEF Spent, Ranked
<1>8. ASSUME NEW n \in Candidates(deployment, request[c]),
             Precedes(deployment, request[c], n, m)
      PROVE  n \in Spent(c, s)
  <2>1. n \in Models
    BY <1>2
  <2>2. ~Precedes(deployment, request[c], m, n)
    BY <1>8, <2>1, PrecedesAsymmetric
  <2>3. m = s.model \/ m \in Spent(c, s)
    BY <1>1, <1>5 DEF Spent
  <2>4. n \notin s.remaining \union {s.model}
    BY <1>8, <2>1, <2>2, <2>3, <1>3, PrecedesAsymmetric DEF Ranked
  <2> QED BY <1>2, <2>4 DEF Spent
<1> QED BY <1>3, <1>7, <1>8 DEF Ranked, Recorded

-----------------------------------------------------------------------------
(***************************************************************************)
(* Every kind of step keeps the history truthful.                          *)
(***************************************************************************)
\* A call that ends, in whatever way but with an answer.
LEMMA EndedIsTruthful ==
  ASSUME Inv, History, NEW c \in Calls, NEW v, v \notin Delivered
  PROVE  Truthful(c, Ended(c, v), sends[c])
<1> DEFINE s == Ended(c, v)
<1>1. call[c] \in CallState /\ Truthful(c, call[c], sends[c])
  BY DEF Inv, TypeOK, History
<1>2. s.phase = "done" /\ s.verdict = v /\ s.model = call[c].model /\ s.failures = call[c].failures
  BY <1>1 DEF Ended, CallState
<1>3. Ordered(c, call[c], sends[c])
  <2>1. CASE call[c].phase = "idle"
    BY <1>1, <2>1 DEF Truthful, Ordered
  <2>2. CASE call[c].phase \in Active
    BY <1>1, <2>2, RankedIsOrdered
  <2>3. CASE call[c].phase \in {"delivering", "done"}
    BY <1>1, <2>3 DEF Truthful
  <2> QED BY <1>1, <2>1, <2>2, <2>3 DEF CallState, Phases, Active
<1>4. Ordered(c, s, sends[c])
  BY <1>2, <1>3 DEF Ordered, Failed
<1> HIDE DEF s
<1> QED BY <1>2, <1>4 DEF Truthful, Active, s

\* The next candidate, or the refusal of it: it is ranked before the rest, and
\* what the call has behind it is ranked before it and recorded.
LEMMA EnterIsTruthful ==
  ASSUME Inv, History, NEW c \in Calls, NEW S, Enter(c, S), S \subseteq Chosen(c),
         \A n \in Chosen(c) \ S :
           sends[c][n] = MaxAttempts /\ \A r \in S : Precedes(deployment, request[c], n, r),
         \A r \in S : sends[c][r] = 0,
         Failed(call[c]) = Chosen(c) \ S
  PROVE  Truthful(c, call'[c], sends[c])
<1>1. PICK m \in S :
        /\ IsLeast(deployment, request[c], m, S)
        /\ call' = [call EXCEPT ![c] =
             IF Permits(deployment, ProviderOf(m)) THEN Attempting(c, m, S \ {m})
             ELSE [Ended(c, "PROVIDER_NOT_ENABLED") EXCEPT !.model = m]]
  BY DEF Enter
<1>2. call[c] \in CallState /\ call \in [Calls -> CallState] /\ S \subseteq Models
  BY ChosenAreModels DEF Inv, TypeOK
<1>3. Truthful(c, Ended(c, "PROVIDER_NOT_ENABLED"), sends[c])
  BY EndedIsTruthful DEF Delivered
<1>4. CASE ~Permits(deployment, ProviderOf(m))
  <2> DEFINE e == Ended(c, "PROVIDER_NOT_ENABLED")
             s == [e EXCEPT !.model = m]
  <2>1. /\ s.phase = "done" /\ s.verdict = "PROVIDER_NOT_ENABLED"
        /\ e.phase = "done" /\ s.failures = e.failures
    BY <1>2 DEF Ended, CallState
  <2>2. Ordered(c, s, sends[c])
    BY <1>3, <2>1 DEF Truthful, Ordered, Failed
  <2>3. Truthful(c, s, sends[c])
    BY <2>1, <2>2 DEF Truthful, Active, Delivered
  <2>4. call'[c] = s
    BY <1>1, <1>2, <1>4
  <2> QED BY <2>3, <2>4
<1>5. CASE Permits(deployment, ProviderOf(m))
  <2> DEFINE s == Attempting(c, m, S \ {m})
  <2>1. /\ s.phase = "validating" /\ s.verdict = "none" /\ s.attempt = 1 /\ s.model = m
        /\ s.remaining = S \ {m} /\ s.failures = call[c].failures
    BY <1>2 DEF Attempting, CallState
  <2>2. call'[c] = s
    BY <1>1, <1>2, <1>5
  <2> HIDE DEF s
  <2>3. Spent(c, s) = Chosen(c) \ S /\ Failed(s) = Failed(call[c])
    BY <2>1 DEF Spent, Failed
  <2>4. Ranked(c, s, sends[c])
    BY <1>1, <2>1, <2>3 DEF Ranked, IsLeast
  <2>5. Counted(s, sends[c])
    BY <2>1, TranscriptionAssumption DEF Counted
  <2>6. Recorded(c, s)
    BY <2>1, <2>3 DEF Recorded
  <2>7. Truthful(c, s, sends[c])
    BY <2>1, <2>4, <2>5, <2>6 DEF Truthful, Active, Delivered
  <2> QED BY <2>2, <2>7
<1> QED BY <1>4, <1>5

LEMMA SubmitIsTruthful ==
  ASSUME Inv, History, NEW c \in Calls, Submit(c)
  PROVE  Truthful(c, call'[c], sends'[c])
<1> DEFINE routed == RouteError(deployment, request[c])
           C == Candidates(deployment, request[c])
<1>1. /\ call[c].phase = "idle" /\ UNCHANGED sends /\ call \in [Calls -> CallState]
      /\ call[c].failures = <<>> /\ \A m \in Models : sends[c][m] = 0
  BY DEF Submit, History, Truthful, Inv, TypeOK
<1>2. ASSUME NEW v, v \notin Delivered, call' = [call EXCEPT ![c] = Ended(c, v)]
      PROVE  Truthful(c, call'[c], sends[c])
  <2>1. call'[c] = Ended(c, v)
    BY <1>1, <1>2
  <2> QED BY <1>2, <2>1, EndedIsTruthful
<1>3. CASE routed # "none" /\ call' = [call EXCEPT ![c] = Ended(c, routed)]
  <2>1. routed \notin Delivered
    BY DEF RouteError, Delivered
  <2> QED BY <1>1, <1>2, <1>3, <2>1
<1>4. CASE routed = "none" /\ Enter(c, C)
  <2>1. C = Chosen(c) /\ Chosen(c) \subseteq Models
    BY <1>4, ChosenAreModels DEF Chosen
  <2>2. Failed(call[c]) = {}
    BY <1>1 DEF Failed
  <2> QED BY <1>1, <1>4, <2>1, <2>2, EnterIsTruthful
<1>5. ASSUME NEW m, call' = [call EXCEPT ![c] = Ended(c, PreflightError(deployment, request[c], m))]
      PROVE  Truthful(c, call'[c], sends[c])
  <2>1. PreflightError(deployment, request[c], m) \notin Delivered
    BY DEF PreflightError, Delivered
  <2> QED BY <1>2, <1>5, <2>1
<1> QED BY <1>1, <1>3, <1>4, <1>5 DEF Submit

\* What is known of a call in flight.
LEMMA InFlightFacts ==
  ASSUME Inv, History, NEW c \in Calls, call[c].phase \in Active
  PROVE  /\ call \in [Calls -> CallState] /\ call[c] \in CallState
         /\ Ranked(c, call[c], sends[c]) /\ Counted(call[c], sends[c]) /\ Recorded(c, call[c])
         /\ call[c].verdict \notin Delivered
         /\ call[c].model \in Chosen(c) /\ call[c].remaining \subseteq Chosen(c)
         /\ Chosen(c) \subseteq Models
         /\ sends \in [Calls -> [Models -> Nat]] /\ MaxAttempts \in Nat \ {0}
BY ChosenAreModels, TranscriptionAssumption
   DEF Inv, TypeOK, InFlight, Holds, History, Truthful, Active

\* A step that keeps the candidates and the history of an attempt not yet over.
LEMMA Continues ==
  ASSUME Inv, History, NEW c \in Calls, call[c].phase \in Active \ {"closing"},
         NEW t, t.model = call[c].model, t.remaining = call[c].remaining,
         t.failures = call[c].failures, t.phase \in Active, t.verdict \notin Delivered,
         t.phase = "closing" => t.verdict # "fallback",
         NEW sd, Ranked(c, call[c], sd), Counted(t, sd)
  PROVE  Truthful(c, t, sd)
<1> DEFINE s == call[c]
<1>1. Spent(c, t) = Spent(c, s) /\ Failed(t) = Failed(s)
  BY DEF Spent, Failed
<1>2. Failed(s) = Spent(c, s)
  BY InFlightFacts DEF Recorded
<1>3. Recorded(c, t)
  BY <1>1, <1>2 DEF Recorded
<1>4. Ranked(c, t, sd)
  BY <1>1 DEF Ranked
<1>5. t.phase \notin {"idle", "delivering", "done"}
  BY DEF Active
<1> QED BY <1>3, <1>4, <1>5 DEF Truthful

LEMMA ValidateIsTruthful ==
  ASSUME Inv, History, NEW c \in Calls, Validate(c)
  PROVE  Truthful(c, call'[c], sends'[c])
<1> DEFINE refusals == {"SOURCE_URL_REJECTED", "UNSUPPORTED_CAPABILITY",
                        "TEMPORARY_AUDIO_NOT_PERMITTED", "TEMP_AUDIO_UNAVAILABLE"}
<1>1. /\ call[c].phase = "validating" /\ call[c].phase \in Active \ {"closing"}
      /\ UNCHANGED sends
  BY DEF Validate, Active
<1>2. \/ \E v \in refusals : call' = [call EXCEPT ![c] = Ended(c, v)]
      \/ \E p \in {"calling", "downloading"} : call' = [call EXCEPT ![c].phase = p]
  BY Zenon DEF Validate
<1>3. ASSUME NEW v \in refusals, call' = [call EXCEPT ![c] = Ended(c, v)]
      PROVE  Truthful(c, call'[c], sends[c])
  <2>1. v \notin Delivered /\ call'[c] = Ended(c, v)
    BY <1>1, <1>3, InFlightFacts DEF Delivered
  <2> QED BY <2>1, EndedIsTruthful
<1>4. ASSUME NEW p \in {"calling", "downloading"}, call' = [call EXCEPT ![c].phase = p]
      PROVE  Truthful(c, call'[c], sends[c])
  <2> DEFINE s == call[c]
             t == call'[c]
  <2>1. /\ t.phase = p /\ t.model = s.model /\ t.remaining = s.remaining
        /\ t.attempt = s.attempt /\ t.failures = s.failures /\ t.verdict = s.verdict
    BY <1>1, <1>4, InFlightFacts DEF CallState
  <2> HIDE DEF t
  <2>2. Counted(t, sends[c])
    BY <1>1, <2>1, InFlightFacts DEF Counted
  <2> QED BY <1>1, <2>1, <2>2, InFlightFacts, Continues DEF Active, t
<1> QED BY <1>1, <1>2, <1>3, <1>4

LEMMA DownloadIsTruthful ==
  ASSUME Inv, History, NEW c \in Calls, Download(c)
  PROVE  Truthful(c, call'[c], sends'[c])
<1> DEFINE s == call[c]
           t == call'[c]
<1>1. /\ call[c].phase = "downloading" /\ call[c].phase \in Active \ {"closing"}
      /\ UNCHANGED sends
  BY DEF Download, Active
<1>2. /\ t.model = s.model /\ t.remaining = s.remaining
      /\ t.attempt = s.attempt /\ t.failures = s.failures
      /\ \/ t.phase = "calling" /\ t.verdict = s.verdict
         \/ t.phase = "closing" /\ t.verdict \in SourceErrors
  BY <1>1, InFlightFacts DEF CallState, Download
<1> HIDE DEF t
<1>3. /\ t.phase = "closing" => t.verdict \notin {"fallback", "transcript"}
      /\ t.verdict \notin Delivered
  BY <1>1, <1>2, InFlightFacts DEF SourceErrors, Delivered
<1>4. Counted(t, sends[c])
  BY <1>1, <1>2, <1>3, InFlightFacts DEF Counted
<1> QED BY <1>1, <1>2, <1>3, <1>4, InFlightFacts, Continues DEF Active, t

LEMMA SendIsTruthful ==
  ASSUME Inv, History, NEW c \in Calls, Send(c)
  PROVE  Truthful(c, call'[c], sends'[c])
<1> DEFINE s == call[c]
           t == call'[c]
           sd == sends[c]
           td == sends'[c]
<1>1. call[c].phase = "calling" /\ call[c].phase \in Active \ {"closing"}
  BY DEF Send, Active
<1>2. /\ t.phase = "sent" /\ t.model = s.model /\ t.remaining = s.remaining
      /\ t.attempt = s.attempt /\ t.failures = s.failures /\ t.verdict = s.verdict
  BY <1>1, InFlightFacts DEF CallState, Send
<1>3. /\ td[s.model] = sd[s.model] + 1
      /\ \A m \in Models \ {s.model} : td[m] = sd[m]
  BY <1>1, InFlightFacts DEF Send
<1> HIDE DEF t, td
<1>4. s.model \notin Spent(c, s) /\ s.model \notin s.remaining /\ Spent(c, s) \subseteq Models
  BY <1>1, InFlightFacts DEF Ranked, Spent
<1>5. Ranked(c, s, td)
  BY <1>1, <1>3, <1>4, InFlightFacts DEF Ranked
<1>6. Counted(t, td)
  BY <1>1, <1>2, <1>3, InFlightFacts DEF Counted
<1> QED BY <1>1, <1>2, <1>5, <1>6, InFlightFacts, Continues DEF Active, t, td

\* FinalFailure and Transcribed.
LEMMA OutcomeIsTruthful ==
  ASSUME Inv, History, NEW c \in Calls, FinalFailure(c) \/ Transcribed(c)
  PROVE  Truthful(c, call'[c], sends'[c])
<1> DEFINE s == call[c]
           t == call'[c]
<1>1. call[c].phase = "sent" /\ call[c].phase \in Active \ {"closing"} /\ UNCHANGED sends
  BY DEF FinalFailure, Transcribed, Active
<1>2. PICK v \in {"PROVIDER_REJECTED", "INTERNAL", "transcript"} :
        call' = [call EXCEPT ![c].phase = "closing", ![c].verdict = v]
  BY Zenon DEF FinalFailure, Transcribed
<1>3. /\ t.phase = "closing" /\ t.model = s.model /\ t.remaining = s.remaining
      /\ t.attempt = s.attempt /\ t.failures = s.failures /\ t.verdict = v
  BY <1>1, <1>2, InFlightFacts DEF CallState
<1> HIDE DEF t
<1>4. Counted(t, sends[c])
  BY <1>1, <1>3, InFlightFacts DEF Counted
<1> QED BY <1>1, <1>3, <1>4, InFlightFacts, Continues DEF Active, Delivered, t

\* The models of a history that gets one more.
LEMMA FailedAppend ==
  ASSUME NEW s, NEW t, NEW m, s.failures \in Seq(Models), t.failures = Append(s.failures, m)
  PROVE  Failed(t) = Failed(s) \union {m}
<1> DEFINE f == s.failures
           g == Append(f, m)
<1>1. Len(f) \in Nat /\ DOMAIN f = 1..Len(f) /\ DOMAIN g = 1..(Len(f) + 1)
  OBVIOUS
<1>2. g[Len(f) + 1] = m /\ \A i \in 1..Len(f) : g[i] = f[i]
  OBVIOUS
<1>3. Failed(t) = {g[i] : i \in DOMAIN g} /\ Failed(s) = {f[i] : i \in DOMAIN f}
  BY DEF Failed
<1> HIDE DEF f, g
<1> QED BY <1>1, <1>2, <1>3

LEMMA TransientFailureIsTruthful ==
  ASSUME Inv, History, NEW c \in Calls, TransientFailure(c)
  PROVE  Truthful(c, call'[c], sends'[c])
<1> DEFINE s == call[c]
           t == call'[c]
<1>1. call[c].phase = "sent" /\ call[c].phase \in Active \ {"closing"} /\ UNCHANGED sends
  BY DEF TransientFailure, Active
<1>5. /\ s.attempt \in 1..MaxAttempts /\ sends[c][s.model] = s.attempt
      /\ MaxAttempts \in Nat \ {0}
  BY <1>1, InFlightFacts DEF Counted
<1>2. CASE s.attempt < MaxAttempts
  <2>1. /\ t.phase = "calling" /\ t.model = s.model /\ t.remaining = s.remaining
        /\ t.attempt = s.attempt + 1 /\ t.failures = s.failures /\ t.verdict = s.verdict
    BY <1>1, <1>2, InFlightFacts DEF CallState, TransientFailure
  <2> HIDE DEF t
  <2>2. Counted(t, sends[c])
    BY <1>1, <1>2, <1>5, <2>1 DEF Counted
  <2> QED BY <1>1, <2>1, <2>2, InFlightFacts, Continues DEF Active, t
<1>3. CASE ~(s.attempt < MaxAttempts) /\ ~request[c].allowFallback
  <2>1. /\ t.phase = "closing" /\ t.model = s.model /\ t.remaining = s.remaining
        /\ t.attempt = s.attempt /\ t.failures = s.failures
        /\ t.verdict = "PROVIDER_UNAVAILABLE"
    BY <1>1, <1>3, InFlightFacts DEF CallState, TransientFailure
  <2> HIDE DEF t
  <2>2. Counted(t, sends[c])
    BY <1>5, <2>1 DEF Counted
  <2> QED BY <1>1, <2>1, <2>2, InFlightFacts, Continues DEF Active, Delivered, t
<1>4. CASE ~(s.attempt < MaxAttempts) /\ request[c].allowFallback
  <2>1. /\ t.phase = "closing" /\ t.model = s.model /\ t.remaining = s.remaining
        /\ t.attempt = s.attempt /\ t.failures = Append(s.failures, s.model)
        /\ t.verdict = "fallback"
    BY <1>1, <1>4, InFlightFacts DEF CallState, TransientFailure
  <2> HIDE DEF t
  <2>2. Spent(c, t) = Spent(c, s) /\ Ranked(c, t, sends[c])
    BY <1>1, <2>1, InFlightFacts DEF Ranked, Spent
  <2>3. Failed(t) = Failed(s) \union {s.model}
    <3>1. s.failures \in Seq(Models)
      BY <1>1, InFlightFacts DEF CallState
    <3> QED BY <2>1, <3>1, FailedAppend
  <2>4. s.attempt = MaxAttempts
    BY <1>4, <1>5
  <2>5. Counted(t, sends[c])
    BY <1>5, <2>1, <2>4 DEF Counted
  <2>6. Failed(s) = Spent(c, s)
    BY <1>1, InFlightFacts DEF Recorded
  <2>7. Recorded(c, t)
    BY <2>1, <2>2, <2>3, <2>6 DEF Recorded
  <2> QED BY <1>1, <2>1, <2>2, <2>5, <2>7 DEF Truthful, Active, Delivered, t
<1> QED BY <1>2, <1>3, <1>4

\* The broker's exit: the transcript is on its way, the next candidate is
\* entered with this one behind it, or the call ends.
LEMMA CloseIsTruthful ==
  ASSUME Inv, History, NEW c \in Calls, Close(c)
  PROVE  Truthful(c, call'[c], sends'[c])
<1> DEFINE s == call[c]
           t == call'[c]
           sd == sends[c]
<1>1. s.phase = "closing" /\ call[c].phase \in Active /\ UNCHANGED sends
  BY DEF Close, Active
<1>2. CASE s.verdict = "transcript"
  <2>1. /\ t.phase = "delivering" /\ t.model = s.model /\ t.remaining = s.remaining
        /\ t.failures = s.failures /\ t.verdict = s.verdict
    BY <1>1, <1>2, InFlightFacts DEF CallState, Close
  <2> HIDE DEF t
  <2>2. Failed(t) = Failed(s) /\ Failed(s) = Spent(c, s)
    <3>1. Failed(t) = Failed(s)
      BY <2>1 DEF Failed
    <3>2. Recorded(c, s)
      BY <1>1, InFlightFacts
    <3>3. Failed(s) = Spent(c, s)
      BY <1>2, <3>2 DEF Recorded
    <3> QED BY <3>1, <3>3
  <2>3. Ordered(c, t, sd)
    BY <1>1, <2>2, RankedIsOrdered DEF History, Ordered
  <2>4. \A m \in Models : sd[m] > 0 => m \in Chosen(c)
    BY DEF Inv, SentToChosen, Received
  <2>5. Told(t, sd)
    <3>1. s.model \in Models /\ sd[s.model] > 0
      BY <1>1, <1>2, InFlightFacts DEF Counted
    <3>2. s.model \notin Spent(c, s) /\ Spent(c, s) \subseteq Models
      BY <1>1, InFlightFacts DEF Spent
    <3>3. \A m \in Spent(c, s) : sd[m] > 0
      BY <1>1, InFlightFacts DEF Ranked
    <3>4. \A m \in Models : sd[m] > 0 /\ m # s.model => m \in Spent(c, s)
      BY <1>1, <2>4, InFlightFacts DEF Ranked, Spent
    <3> QED BY <2>1, <2>2, <3>1, <3>2, <3>3, <3>4 DEF Told
  <2> QED BY <1>1, <1>2, <2>1, <2>3, <2>5 DEF Truthful, Active, Delivered, t
<1>3. CASE s.verdict = "fallback" /\ Enter(c, s.remaining)
  <2> DEFINE S == s.remaining
  <2>1. S \subseteq Chosen(c) /\ Chosen(c) \ S = Spent(c, s) \union {s.model}
    BY <1>1, InFlightFacts DEF Ranked, Spent
  <2>2. Failed(s) = Spent(c, s) \union {s.model} /\ sd[s.model] = MaxAttempts
    BY <1>1, <1>3, InFlightFacts DEF Recorded, Counted
  <2>3. \A n \in Chosen(c) \ S :
           sd[n] = MaxAttempts /\ \A r \in S : Precedes(deployment, request[c], n, r)
    BY <1>1, <2>1, <2>2, InFlightFacts DEF Ranked
  <2>4. \A r \in S : sd[r] = 0
    BY <1>1, InFlightFacts DEF Ranked
  <2> QED BY <1>1, <1>3, <2>1, <2>2, <2>3, <2>4, EnterIsTruthful
<1>4. ASSUME NEW v \in {"PROVIDER_UNAVAILABLE", s.verdict}, call' = [call EXCEPT ![c] = Ended(c, v)]
      PROVE  Truthful(c, call'[c], sends[c])
  <2>1. v \notin Delivered /\ call'[c] = Ended(c, v)
    BY <1>1, <1>4, InFlightFacts DEF Delivered
  <2> QED BY <2>1, EndedIsTruthful
<1> QED BY <1>1, <1>2, <1>3, <1>4 DEF Close

LEMMA DeliverIsTruthful ==
  ASSUME Inv, History, NEW c \in Calls, Deliver(c)
  PROVE  Truthful(c, call'[c], sends'[c])
<1> DEFINE s == call[c]
           t == call'[c]
<1>1. s.phase = "delivering" /\ s \in CallState /\ Truthful(c, s, sends[c]) /\ UNCHANGED sends
  BY DEF Deliver, Inv, TypeOK, History
<1>2. \E v : call' = [call EXCEPT ![c] = Ended(c, v)]
  BY DEF Deliver
<1>3. t.phase = "done" /\ t.model = s.model /\ t.failures = s.failures
  BY <1>1, <1>2 DEF Ended, CallState, Inv, TypeOK
<1> HIDE DEF t
<1>4. Failed(t) = Failed(s)
  BY <1>3 DEF Failed
<1>5. Ordered(c, t, sends[c]) /\ Told(t, sends[c])
  BY <1>1, <1>3, <1>4 DEF Truthful, Ordered, Told
<1> QED BY <1>1, <1>3, <1>5 DEF Truthful, Active, t

\* Cancelled in the broker's context the call still closes; elsewhere it ends.
LEMMA CancelIsTruthful ==
  ASSUME Inv, History, NEW c \in Calls, Cancel(c)
  PROVE  Truthful(c, call'[c], sends'[c])
<1> DEFINE s == call[c]
           t == call'[c]
<1>1. call \in [Calls -> CallState] /\ s \in CallState /\ UNCHANGED sends
  BY DEF Cancel, Inv, TypeOK
<1>2. CASE s.phase \notin {"calling", "sent", "closing"}
  <2>1. t = Ended(c, "cancelled") /\ "cancelled" \notin Delivered
    BY <1>1, <1>2 DEF Cancel, Delivered
  <2> QED BY <1>1, <2>1, EndedIsTruthful
<1>3. CASE s.phase \in {"calling", "sent", "closing"}
  <2>1. call[c].phase \in Active
    BY <1>3 DEF Active
  <2>2. /\ t.phase = "closing" /\ t.model = s.model /\ t.remaining = s.remaining
        /\ t.attempt = s.attempt /\ t.failures = s.failures /\ t.verdict = "cancelled"
    BY <1>1, <1>3 DEF Cancel, CallState
  <2> HIDE DEF t
  <2>3. Spent(c, t) = Spent(c, s) /\ Failed(t) = Failed(s) /\ Ranked(c, t, sends[c])
    BY <2>1, <2>2, InFlightFacts DEF Spent, Failed, Ranked
  <2>4. Counted(t, sends[c])
    BY <1>3, <2>1, <2>2, InFlightFacts DEF Counted
  <2>5. Recorded(c, t)
    BY <2>1, <2>2, <2>3, InFlightFacts DEF Recorded
  <2> QED BY <1>1, <2>2, <2>3, <2>4, <2>5 DEF Truthful, Active, Delivered, t
<1> QED BY <1>2, <1>3

LEMMA NextHistory == Inv /\ History /\ [Next]_vars => History'
<1> SUFFICES ASSUME Inv, History, [Next]_vars PROVE History'
  OBVIOUS
<1>1. ASSUME NEW c \in Calls, Submit(c) \/ Step(c) \/ Cancel(c)
      PROVE  History'
  <2>1. UNCHANGED <<deployment, request>>
    BY <1>1, StepMoves
  <2>2. Truthful(c, call'[c], sends'[c])
    BY <1>1, SubmitIsTruthful, ValidateIsTruthful, DownloadIsTruthful, SendIsTruthful,
       TransientFailureIsTruthful, OutcomeIsTruthful, CloseIsTruthful, DeliverIsTruthful,
       CancelIsTruthful DEF Step
  <2>3. \A d \in Calls : Truthful(d, call'[d], sends'[d])
    BY <1>1, <2>2, StepOfOne DEF History
  <2>4. \A d \in Calls : Chosen(d)' = Chosen(d)
    BY <2>1 DEF Chosen
  <2>5. ASSUME NEW d \in Calls PROVE Truthful(d, call[d], sends[d])'
    BY <2>1, <2>3, <2>4 DEF Truthful, Ranked, Counted, Recorded, Ordered, Told, Spent, Failed
  <2> QED BY <2>5 DEF History
<1>2. CASE UNCHANGED <<deployment, request, call, sends>>
  <2>1. \A d \in Calls : Chosen(d)' = Chosen(d)
    BY <1>2 DEF Chosen
  <2> QED BY <1>2, <2>1 DEF History, Truthful, Ranked, Counted, Recorded, Ordered, Told,
                            Spent, Failed
<1> QED BY <1>1, <1>2 DEF Next, Discard, vars

LEMMA HistoryGivesOrder == Inv /\ History => TriedInOrder
<1> SUFFICES ASSUME Inv, History, NEW c \in Calls, NEW m \in Received(c)
             PROVE  /\ sends[c][m] <= MaxAttempts
                    /\ \A n \in Candidates(deployment, request[c]) :
                         Precedes(deployment, request[c], n, m) =>
                           /\ sends[c][n] = MaxAttempts
                           /\ \E i \in DOMAIN call[c].failures : call[c].failures[i] = n
  BY DEF TriedInOrder
<1>1. call[c] \in CallState /\ Truthful(c, call[c], sends[c])
  BY DEF Inv, TypeOK, History
<1>2. m \in Models /\ sends[c][m] > 0
  BY DEF Received
<1>3. call[c].phase # "idle"
  BY <1>1, <1>2 DEF Truthful
<1>4. Ordered(c, call[c], sends[c])
  BY <1>1, <1>3, RankedIsOrdered DEF CallState, Phases, Active, Truthful
<1> QED BY <1>2, <1>4 DEF Ordered, Failed

LEMMA HistoryGivesHonesty == Inv /\ History => HonestHistory
<1> SUFFICES ASSUME Inv, History, NEW c \in Calls, call[c].verdict \in Delivered
             PROVE  /\ call[c].model \in Received(c)
                    /\ Received(c) \ {call[c].model} =
                         {call[c].failures[i] : i \in DOMAIN call[c].failures} \ {call[c].model}
                    /\ \A i \in DOMAIN call[c].failures : call[c].failures[i] # call[c].model
  BY DEF HonestHistory
<1>1. Told(call[c], sends[c])
  BY DEF History, Truthful
<1> QED BY <1>1 DEF Told, Failed, Received

-----------------------------------------------------------------------------
(***************************************************************************)
(* Copies: who made one is in the broker's context, or was cancelled.      *)
(***************************************************************************)
LEMMA StepsKeepCopies == Inv /\ CopyLifetime /\ [Next]_vars => CopyLifetime'
<1> SUFFICES ASSUME Inv, CopyLifetime, [Next]_vars PROVE CopyLifetime'
  OBVIOUS
<1>1. ASSUME NEW c \in Calls, Submit(c) \/ Step(c) \/ Cancel(c)
      PROVE  CopyLifetime'
  <2> DEFINE s == call[c]
             t == call'[c]
             open == {"downloading", "calling", "sent", "closing"}
  <2>1. /\ UNCHANGED deployment /\ call \in [Calls -> CallState]
        /\ \A d \in Calls \ {c} : call'[d] = call[d]
    BY <1>1, StepMoves, StepOfOne DEF Inv, TypeOK
  <2>2. /\ copies' \subseteq copies \union {c} /\ copies' \subseteq Calls
        /\ c \in copies' => deployment.tempAudio
    <3>1. copies \subseteq Calls /\ (c \in copies => deployment.tempAudio)
      BY DEF Inv, TypeOK, CopyLifetime
    <3>2. CASE Validate(c)
      BY <3>1, <3>2 DEF Validate
    <3>3. CASE Close(c)
      BY <3>1, <3>3 DEF Close
    <3>4. CASE ~(Validate(c) \/ Close(c))
      BY <1>1, <3>1, <3>4 DEF Submit, Step, Download, Send, TransientFailure, FinalFailure,
                              Transcribed, Deliver, Cancel
    <3> QED BY <3>2, <3>3, <3>4
  <2>3. c \in copies' => t.phase \in open \/ (t.phase = "done" /\ t.verdict = "cancelled")
    <3>1. c \in copies => s.phase \in open \/ (s.phase = "done" /\ s.verdict = "cancelled")
      BY DEF CopyLifetime
    <3>2. s \in CallState
      BY <2>1
    <3>3. CASE Submit(c)
      BY <3>1, <3>3 DEF Submit
    <3>4. CASE Validate(c)
      <4>1. \/ t.phase = "done" /\ c \notin copies' 
            \/ t.phase = "calling" /\ c \notin copies'
            \/ t.phase = "downloading"
        <5>1. c \notin copies
          BY <3>1, <3>4 DEF Validate
        <5>2. \/ (\E v : call' = [call EXCEPT ![c] = Ended(c, v)]) /\ UNCHANGED copies
              \/ call' = [call EXCEPT ![c].phase = "calling"] /\ UNCHANGED copies
              \/ call' = [call EXCEPT ![c].phase = "downloading"]
          BY <3>4, Zenon DEF Validate
        <5> QED BY <2>1, <3>2, <5>1, <5>2 DEF Ended, CallState
      <4> QED BY <4>1
    <3>5. CASE Download(c) \/ Send(c)
      BY <2>1, <3>1, <3>5 DEF Download, Send, CallState
    <3>6. CASE TransientFailure(c)
      <4>1. t.phase \in {"calling", "closing"}
        BY <2>1, <3>2, <3>6 DEF TransientFailure, CallState
      <4> QED BY <4>1
    <3>7. CASE FinalFailure(c) \/ Transcribed(c)
      BY <2>1, <3>1, <3>7 DEF FinalFailure, Transcribed, CallState
    <3>8. CASE Close(c)
      BY <3>8 DEF Close
    <3>9. CASE Deliver(c)
      BY <3>1, <3>9 DEF Deliver
    <3>10. CASE Cancel(c)
      BY <2>1, <3>1, <3>10 DEF Cancel, CallState, Ended
    <3> QED BY <1>1, <3>3, <3>4, <3>5, <3>6, <3>7, <3>8, <3>9, <3>10 DEF Step
  <2> QED BY <2>1, <2>2, <2>3 DEF CopyLifetime
<1>2. CASE UNCHANGED <<deployment, request, call, sends, copies>>
  BY <1>2 DEF CopyLifetime
<1> QED BY <1>1, <1>2 DEF Next, Discard, vars

-----------------------------------------------------------------------------
(***************************************************************************)
(* Every step is a step of Disclosure, or changes nothing it speaks of.    *)
(***************************************************************************)
\* A state of call c that has an answer, or waits for one, names a model that
\* received the audio.
Tells(c, s) ==
  /\ s.phase = "delivering" => s.model \in Received(c)
  /\ s.verdict \in Delivered => s.phase = "done" /\ s.model \in Received(c)

Asked == \A c \in Calls : Tells(c, call[c])

LEMMA HistoryGivesAsked == History => Asked
BY DEF History, Truthful, Told, Asked, Tells, Received

\* A call that goes on changes no status; one that ends is refused or, when it
\* tells an answer, answered by a provider of its audience.
LEMMA QuietStep ==
  ASSUME Inv, Asked, Asked', NEW c \in Calls, Moves(c),
         call[c].phase # "done", UNCHANGED <<deployment, request, sends>>
  PROVE  [Disclosure!Next]_(Disclosure!vars)
<1>1. PICK s \in CallState : call' = [call EXCEPT ![c] = s]
  BY DEF Moves
<1>2. call \in [Calls -> CallState]
  BY DEF Inv, TypeOK
<1>3. call'[c] = s /\ \A d \in Calls : d # c => call'[d] = call[d]
  BY <1>1, <1>2
<1>4. Audience' = Audience /\ \A d : Received(d)' = Received(d)
  BY DEF Audience, Received
<1>5. Status[c] = "open" /\ Status \in [Calls -> {"open", "answered", "refused"}]
  BY DEF Status
<1> DEFINE v == IF s.phase # "done" THEN "open"
                ELSE IF s.verdict \in Delivered THEN "answered" ELSE "refused"
<1>6. Status' = [Status EXCEPT ![c] = v]
  BY <1>3 DEF Status
<1>7. CASE s.phase # "done"
  <2>1. Status' = Status
    BY <1>5, <1>6, <1>7
  <2> QED BY <1>4, <2>1 DEF Disclosure!vars
<1>8. CASE s.phase = "done" /\ s.verdict \notin Delivered
  <2>1. Disclosure!Refuse(c)
    BY <1>4, <1>5, <1>6, <1>8 DEF Disclosure!Refuse
  <2> QED BY <2>1 DEF Disclosure!Next
<1>9. CASE s.phase = "done" /\ s.verdict \in Delivered
  <2>1. s.model \in Received(c)
    BY <1>3, <1>4, <1>9 DEF Asked, Tells
  <2>2. Audience[c] # {}
    BY <2>1 DEF Audience
  <2>3. Disclosure!Answer(c)
    BY <1>4, <1>5, <1>6, <1>9, <2>2 DEF Disclosure!Answer
  <2> QED BY <2>3 DEF Disclosure!Next
<1> QED BY <1>7, <1>8, <1>9

\* A submission adds the provider of the candidate in hand to the audience.
LEMMA SendDiscloses ==
  ASSUME Inv, NEW c \in Calls, Send(c)
  PROVE  [Disclosure!Next]_(Disclosure!vars)
<1> DEFINE m == call[c].model
           p == ProviderOf(m)
<1>1. m \in Chosen(c) /\ Received(c) \subseteq Chosen(c)
  BY DEF Send, Inv, InFlight, SentToChosen, Holds, Active
<1>2. m \in Models
  BY <1>1, ChosenAreModels
<1>3. /\ m \in Candidates(deployment, request[c])
      /\ Received(c) \subseteq Candidates(deployment, request[c])
      /\ RouteError(deployment, request[c]) = "none"
  BY <1>1 DEF Chosen
<1>4. m \in Reachable(deployment)
  BY <1>3, CandidatesAreReachable
<1>5. p \in Providers /\ Disclosure!Authorized(p)
  <2>1. p \in Providers
    BY <1>2, CatalogueAssumption DEF ProviderOf, ModelRecord
  <2> QED BY <1>4, <2>1 DEF Disclosure!Authorized, Reachable, Permits
<1>6. deployment.cross \/ Audience[c] \subseteq {p}
  <2>1. \A n \in Received(c) : deployment.cross \/ ProviderOf(n) = p
    BY <1>3, CandidatesNeedPermission
  <2> QED BY <2>1 DEF Audience
<1>7. /\ sends \in [Calls -> [Models -> Nat]]
      /\ sends' = [sends EXCEPT ![c][m] = @ + 1]
      /\ call \in [Calls -> CallState]
      /\ call' = [call EXCEPT ![c].phase = "sent"]
      /\ deployment' = deployment /\ call[c].phase = "calling"
  BY DEF Send, Inv, TypeOK
<1>8. Received(c)' = Received(c) \union {m}
  <2>1. \A n \in Models : sends'[c][n] = IF n = m THEN sends[c][n] + 1 ELSE sends[c][n]
    BY <1>2, <1>7
  <2>2. \A n \in Models : sends[c][n] \in Nat
    BY <1>7
  <2>3. \A n \in Models : sends'[c][n] > 0 <=> (n = m \/ sends[c][n] > 0)
    BY <2>1, <2>2
  <2> HIDE DEF m
  <2> QED BY <1>2, <2>3 DEF Received
<1>9. \A d \in Calls : d # c => Received(d)' = Received(d)
  <2>1. \A d \in Calls : d # c => sends'[d] = sends[d]
    BY <1>7
  <2> QED BY <2>1 DEF Received
<1>10. Audience' = [Audience EXCEPT ![c] = @ \union {p}]
  <2> DEFINE Of(S) == {ProviderOf(n) : n \in S}
  <2>1. Of(Received(c)') = Of(Received(c)) \union {p}
    BY <1>8
  <2>2. \A d \in Calls : d # c => Of(Received(d)') = Of(Received(d))
    BY <1>9
  <2>3. /\ Audience = [d \in Calls |-> Of(Received(d))]
        /\ Audience' = [d \in Calls |-> Of(Received(d)')]
    BY DEF Audience
  <2> HIDE DEF Of, p
  <2> QED BY <2>1, <2>2, <2>3
<1>11. Status' = Status /\ Status[c] = "open"
  BY <1>7 DEF Status, CallState
<1>12. Disclosure!Disclose(c, p)
  BY <1>5, <1>6, <1>7, <1>10, <1>11 DEF Disclosure!Disclose
<1> QED BY <1>5, <1>12 DEF Disclosure!Next

LEMMA InitDiscloses == Init => Disclosure!Init
<1> SUFFICES ASSUME Init PROVE Disclosure!Init
  OBVIOUS
<1>1. \A c \in Calls : Received(c) = {}
  BY DEF Init, Received
<1>2. \A c \in Calls : call[c].phase # "done"
  BY DEF Init, Idle
<1> QED BY <1>1, <1>2 DEF Disclosure!Init, Audience, Status

LEMMA StepDiscloses ==
  Inv /\ Asked /\ Asked' /\ [Next]_vars => [Disclosure!Next]_(Disclosure!vars)
<1> SUFFICES ASSUME Inv, Asked, Asked', [Next]_vars
             PROVE  [Disclosure!Next]_(Disclosure!vars)
  OBVIOUS
<1>1. ASSUME NEW c \in Calls, Submit(c) \/ Step(c) \/ Cancel(c)
      PROVE  [Disclosure!Next]_(Disclosure!vars)
  <2>1. call[c].phase # "done"
    BY <1>1 DEF Submit, Step, Validate, Download, Send, TransientFailure,
                FinalFailure, Transcribed, Close, Deliver, Cancel
  <2>2. CASE Send(c)
    BY <2>2, SendDiscloses
  <2>3. CASE UNCHANGED sends
    BY <1>1, <2>1, <2>3, StepMoves, QuietStep
  <2> QED BY <1>1, <2>2, <2>3, StepMoves
<1>2. CASE UNCHANGED <<deployment, call, sends>>
  <2>1. Audience' = Audience /\ Status' = Status
    BY <1>2 DEF Audience, Received, Status
  <2> QED BY <1>2, <2>1 DEF Disclosure!vars
<1>3. \/ \E c \in Calls : Submit(c) \/ Step(c) \/ Cancel(c)
      \/ UNCHANGED <<deployment, call, sends>>
  BY DEF Next, Discard, vars
<1> QED BY <1>1, <1>2, <1>3

-----------------------------------------------------------------------------
(***************************************************************************)
(* The theorems.                                                           *)
(***************************************************************************)
\* The inductive invariant holds: candidates in hand and recipients are chosen ones.
THEOREM InvariantHolds == Spec => []Inv
<1> QED BY InitInv, NextInv, PTL DEF Spec

\* With it, the history of every call (see above).
THEOREM HistoryKept == Spec => [](Inv /\ History)
<1>1. Spec => []Inv
  BY InvariantHolds
<1> QED BY <1>1, InitHistory, NextHistory, PTL DEF Spec

\* Every call of TranscriptionService.transcribe stays in the states its code
\* can be in, for every catalogue and any number of calls.
THEOREM TypesHold == Spec => []TypeOK
<1>1. Inv => TypeOK
  BY DEF Inv
<1> QED BY <1>1, InvariantHolds, PTL

\* Router.route with the service's fallback loop: audio only ever reaches
\* configured providers of the allow-list, one provider without permission to
\* cross providers, one model without permission to fall back.
THEOREM RecipientsAreAuthorized == Spec => []AuthorizedRecipients
<1> QED BY InvGivesRecipients, InvariantHolds, PTL

\* Router._resolve and Router.route: speakers, timestamps and style are only asked
\* of models that support them, no stated wish goes unhonoured and unreported,
\* phrase hints for a model that takes none included, and a strict request is only
\* sent to models that honour all of it.
THEOREM NothingDowngraded == Spec => []NoSilentDowngrade
BY InvariantHolds, InvGivesNoDowngrade, PTL

\* Router.route: a request is refused, or exactly one model comes first, the one
\* the caller named if a model or a provider was named.
THEOREM RoutingIsDecided == Spec => []RouteDecides
<1>1. TypeOK => RouteDecides
  BY RoutingDecides
<1> QED BY <1>1, TypesHold, PTL

\* The fallback loop and the retry loop: a model is given the audio only once
\* every candidate before it has spent its attempts and is on record, and never
\* more often than the attempts allowed.
THEOREM OrderKept == Spec => []TriedInOrder
BY HistoryKept, HistoryGivesOrder, PTL

\* The result of TranscriptionService.transcribe names the model that made it, and
\* its history exactly the others that were given the audio.
THEOREM HonestyKept == Spec => []HonestHistory
BY HistoryKept, HistoryGivesHonesty, PTL

\* SourceBroker.acquire: a copy is only made where temporary audio is permitted,
\* and only a cancelled call leaves one behind.
THEOREM CopiesAccounted == Spec => []CopyLifetime
<1>1. Init => CopyLifetime
  BY DEF Init, CopyLifetime
<1>2. Spec => []Inv
  BY InvariantHolds
<1> QED BY <1>1, <1>2, StepsKeepCopies, PTL DEF Spec

\* Whatever the routing, the retries and the fallbacks do, the service only
\* discloses audio as the policy allows and answers from a provider it asked:
\* Router.route, the fallback loop and the retry loop implement Disclosure.
THEOREM ImplementsTheDisclosure == Spec => ImplementsDisclosure
<1>1. Inv /\ Asked /\ Asked' /\ [Next]_vars => [Disclosure!Next]_(Disclosure!vars)
  BY StepDiscloses
<1>2. Inv /\ History => Inv /\ Asked
  BY HistoryGivesAsked
<1> QED BY <1>1, <1>2, InitDiscloses, HistoryKept, PTL
        DEF Spec, ImplementsDisclosure, Disclosure!Spec
=============================================================================

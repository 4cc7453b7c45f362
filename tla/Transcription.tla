--------------------------- MODULE Transcription ---------------------------
(***************************************************************************)
(* Transcription requests in flight: TranscriptionService.transcribe with  *)
(* the router, the source broker, a provider's retry loop and the          *)
(* temporary copy of the audio, for several concurrent calls.              *)
(*                                                                         *)
(* A step is what the event loop runs between two awaits.  The network,    *)
(* the source server, the providers and the caller (who may cancel at any  *)
(* await) are nondeterministic.                                            *)
(***************************************************************************)
EXTENDS Routing, Sequences

CONSTANTS
  Calls,         \* transcribe_audio invocations
  Requests,      \* the requests they may carry
  Deployments,   \* settings and policy the engine may have been started with
  MaxAttempts    \* stop_after_attempt of the retry loop: 3 in the code

ASSUME TranscriptionAssumption ==
  /\ Requests \subseteq {req \in Request : ValidRequest(req)}
  /\ Deployments \subseteq Deployment
  /\ MaxAttempts \in Nat \ {0}

VARIABLES
  deployment,    \* fixed for the life of the process
  request,       \* [Calls -> Requests]
  call,          \* [Calls -> CallState]: the coroutine's position and locals
  sends,         \* [Calls -> [Models -> Nat]]: submissions of the audio made
  copies,        \* calls with a local copy of their audio on disk
  stored         \* calls whose transcript is in the result store

vars == <<deployment, request, call, sends, copies, stored>>

SourceErrors == {"SOURCE_URL_REJECTED", "SOURCE_UNAVAILABLE", "SOURCE_TOO_LARGE",
                 "INVALID_AUDIO", "INTERNAL"}
Errors == SourceErrors \union
  {"PROVIDER_UNAVAILABLE", "PROVIDER_NOT_ENABLED", "UNSUPPORTED_MODEL",
   "UNSUPPORTED_CAPABILITY", "SOURCE_DURATION_EXCEEDED", "COST_LIMIT_EXCEEDED",
   "TEMPORARY_AUDIO_NOT_PERMITTED", "TEMP_AUDIO_UNAVAILABLE", "PROVIDER_REJECTED",
   "RESULT_STORE_DISABLED"}
Delivered == {"inline", "stored"}
Verdicts == Errors \union Delivered \union {"none", "fallback", "transcript", "cancelled"}
Phases == {"idle", "validating", "downloading", "calling", "sent", "closing",
           "delivering", "done"}

\* `verdict` is what the attempt, and in phase "done" the call, came to.
CallState == [phase: Phases, remaining: SUBSET Models, model: Models \union {NoModel},
              attempt: Nat, failures: Seq(Models), verdict: Verdicts]

Idle == [phase |-> "idle", remaining |-> {}, model |-> NoModel, attempt |-> 0,
         failures |-> <<>>, verdict |-> "none"]

Init ==
  /\ deployment \in Deployments
  /\ request \in [Calls -> Requests]
  /\ call = [c \in Calls |-> Idle]
  /\ sends = [c \in Calls |-> [m \in Models |-> 0]]
  /\ copies = {}
  /\ stored = {}

-----------------------------------------------------------------------------
(***************************************************************************)
(* Limits and delivery.                                                    *)
(***************************************************************************)
\* estimate_cost: hourly price times duration; only its order matters here.
Estimate(m, seconds) == Descriptor[m].price * seconds

PreflightError(dep, req, m) ==
  IF req.seconds = 0 THEN "none"
  ELSE IF req.seconds > dep.maxSeconds THEN "SOURCE_DURATION_EXCEEDED"
  ELSE IF dep.ceiling = 0 THEN "none"
  ELSE IF Descriptor[m].price = Unpriced THEN "COST_LIMIT_EXCEEDED"
  ELSE IF Estimate(m, req.seconds) > dep.ceiling THEN "COST_LIMIT_EXCEEDED"
  ELSE "none"

Delivery(req, m) ==
  IF req.delivery # "auto" THEN req.delivery
  ELSE IF Descriptor[m].urlInput THEN "passthrough" ELSE "proxy"

\* The temporary workspace refuses a new file only when it holds others.
WorkspaceFull(held) == held # {}

\* The state of a call that ends now with verdict v.
Ended(c, v) == [call[c] EXCEPT !.phase = "done", !.verdict = v]

\* The state of a call that begins the next candidate: the policy is checked
\* once more before anything about the source is resolved.
Attempting(c, m, rest) ==
  [call[c] EXCEPT !.model = m, !.remaining = rest, !.attempt = 1, !.verdict = "none",
                  !.phase = "validating"]

Enter(c, S) ==
  \E m \in S :
    /\ IsLeast(deployment, request[c], m, S)
    /\ call' = [call EXCEPT ![c] =
         IF Permits(deployment, ProviderOf(m)) THEN Attempting(c, m, S \ {m})
         ELSE [Ended(c, "PROVIDER_NOT_ENABLED") EXCEPT !.model = m]]

-----------------------------------------------------------------------------
(***************************************************************************)
(* The steps of a call.                                                    *)
(***************************************************************************)
\* The call up to its first await: routing, then the preflight limits of the
\* first candidate, then the loop's first iteration.
Submit(c) ==
  LET req == request[c]
      candidates == Candidates(deployment, req)
      routed == RouteError(deployment, req)
  IN  /\ call[c].phase = "idle"
      /\ \/ /\ routed # "none"
            /\ call' = [call EXCEPT ![c] = Ended(c, routed)]
         \/ /\ routed = "none"
            /\ \E m \in Firsts(deployment, req, candidates) :
                 LET refused == PreflightError(deployment, req, m)
                 IN  IF refused # "none"
                     THEN call' = [call EXCEPT ![c] = Ended(c, refused)]
                     ELSE Enter(c, candidates)
      /\ UNCHANGED <<deployment, request, sends, copies, stored>>

\* The source URL was validated: choose the delivery, and for a relay create
\* the temporary file.
Validate(c) ==
  LET delivery == Delivery(request[c], call[c].model)
      End(v) == call' = [call EXCEPT ![c] = Ended(c, v)] /\ UNCHANGED copies
  IN  /\ call[c].phase = "validating"
      /\ \/ End("SOURCE_URL_REJECTED")
         \/ /\ delivery = "passthrough"
            /\ IF Descriptor[call[c].model].urlInput
               THEN /\ call' = [call EXCEPT ![c].phase = "calling"]
                    /\ UNCHANGED copies
               ELSE End("UNSUPPORTED_CAPABILITY")
         \/ delivery = "proxy" /\ ~deployment.tempAudio
              /\ End("TEMPORARY_AUDIO_NOT_PERMITTED")
         \/ delivery = "proxy" /\ deployment.tempAudio /\ WorkspaceFull(copies)
              /\ End("TEMP_AUDIO_UNAVAILABLE")
         \/ /\ delivery = "proxy" /\ deployment.tempAudio
            /\ call' = [call EXCEPT ![c].phase = "downloading"]
            /\ copies' = copies \union {c}
      /\ UNCHANGED <<deployment, request, sends, stored>>

\* Mutant of Download: a failure leaves the broker without its clean-up.
DownloadAbandoned(c) ==
  /\ call[c].phase = "downloading"
  /\ \/ call' = [call EXCEPT ![c] = Ended(c, "SOURCE_UNAVAILABLE")]
     \/ call' = [call EXCEPT ![c].phase = "calling"]
  /\ UNCHANGED <<deployment, request, sends, copies, stored>>

\* The relay download ends.  Any exception removes the file; so does a copy
\* larger than the engine or the selected model accepts, SOURCE_TOO_LARGE, which
\* ends the request even if another candidate would take it.
Download(c) ==
  /\ call[c].phase = "downloading"
  /\ \/ \E e \in SourceErrors :
          call' = [call EXCEPT ![c].phase = "closing", ![c].verdict = e]
     \/ call' = [call EXCEPT ![c].phase = "calling"]
  /\ UNCHANGED <<deployment, request, sends, copies, stored>>

\* One attempt of the retry loop submits the audio, or its URL.
Send(c) ==
  /\ call[c].phase = "calling"
  /\ call' = [call EXCEPT ![c].phase = "sent"]
  /\ sends' = [sends EXCEPT ![c][call[c].model] = @ + 1]
  /\ UNCHANGED <<deployment, request, copies, stored>>

\* Mutants of TransientFailure: one attempt too many, and a fallback that is
\* not recorded.
OneMoreAttempt(c) ==
  /\ call[c].phase = "sent"
  /\ call' = [call EXCEPT ![c] =
       IF @.attempt <= MaxAttempts THEN [@ EXCEPT !.phase = "calling", !.attempt = @ + 1]
       ELSE [@ EXCEPT !.phase = "closing", !.verdict = "fallback",
                      !.failures = Append(@, call[c].model)]]
  /\ UNCHANGED <<deployment, request, sends, copies, stored>>

FallbackUnrecorded(c) ==
  /\ call[c].phase = "sent"
  /\ call' = [call EXCEPT ![c] =
       IF @.attempt < MaxAttempts THEN [@ EXCEPT !.phase = "calling", !.attempt = @ + 1]
       ELSE [@ EXCEPT !.phase = "closing", !.verdict = "fallback"]]
  /\ UNCHANGED <<deployment, request, sends, copies, stored>>

\* A timeout, a network failure, 429 or 5xx: wait and try again, until the
\* attempts are spent and the error becomes retryable for the service.
TransientFailure(c) ==
  /\ call[c].phase = "sent"
  /\ IF call[c].attempt < MaxAttempts
     THEN call' = [call EXCEPT ![c].phase = "calling", ![c].attempt = @ + 1]
     ELSE call' = [call EXCEPT
            ![c].phase = "closing",
            ![c].verdict = IF request[c].allowFallback THEN "fallback"
                           ELSE "PROVIDER_UNAVAILABLE",
            ![c].failures = IF request[c].allowFallback
                            THEN Append(@, call[c].model) ELSE @]
  /\ UNCHANGED <<deployment, request, sends, copies, stored>>

\* Any other error status, an unusable response, or an exception the loop
\* does not know: never retried.
FinalFailure(c) ==
  /\ call[c].phase = "sent"
  /\ \E e \in {"PROVIDER_REJECTED", "INTERNAL"} :
       call' = [call EXCEPT ![c].phase = "closing", ![c].verdict = e]
  /\ UNCHANGED <<deployment, request, sends, copies, stored>>

Transcribed(c) ==
  /\ call[c].phase = "sent"
  /\ call' = [call EXCEPT ![c].phase = "closing", ![c].verdict = "transcript"]
  /\ UNCHANGED <<deployment, request, sends, copies, stored>>

\* Mutant of Close: nothing is raised when the candidates are spent.
CloseUnfinished(c) ==
  /\ call[c].phase = "closing"
  /\ copies' = copies \ {c}
  /\ CASE call[c].verdict = "transcript" ->
            call' = [call EXCEPT ![c].phase = "delivering"]
       [] call[c].verdict = "fallback" -> Enter(c, call[c].remaining)
       [] OTHER -> call' = [call EXCEPT ![c] = Ended(c, call[c].verdict)]
  /\ UNCHANGED <<deployment, request, sends, stored>>

\* The broker's context exits: the copy is removed, then the loop goes on.
Close(c) ==
  /\ call[c].phase = "closing"
  /\ copies' = copies \ {c}
  /\ CASE call[c].verdict = "transcript" ->
            call' = [call EXCEPT ![c].phase = "delivering"]
       [] call[c].verdict = "fallback" /\ call[c].remaining # {} ->
            Enter(c, call[c].remaining)
       [] call[c].verdict = "fallback" /\ call[c].remaining = {} ->
            call' = [call EXCEPT ![c] = Ended(c, "PROVIDER_UNAVAILABLE")]
       [] OTHER -> call' = [call EXCEPT ![c] = Ended(c, call[c].verdict)]
  /\ UNCHANGED <<deployment, request, sends, stored>>

\* The transcript is checked against the duration limit and delivered inline
\* or through the store.  `large` exceeds one of the inline limits, `huge`
\* the byte limit among them.  The store may be disabled, or fail to write.
Deliver(c) ==
  /\ call[c].phase = "delivering"
  /\ \E long, large, huge \in BOOLEAN,
        failure \in {"none", "RESULT_STORE_DISABLED", "INTERNAL"} :
       LET store == \/ request[c].result = "stored"
                    \/ request[c].result = "auto" /\ large
           v == IF long THEN "SOURCE_DURATION_EXCEEDED"
                ELSE IF request[c].result = "inline" /\ huge
                  THEN "RESULT_STORE_DISABLED"
                ELSE IF store /\ failure # "none" THEN failure
                ELSE IF store THEN "stored" ELSE "inline"
       IN  /\ huge => large
           /\ call' = [call EXCEPT ![c] = Ended(c, v)]
           /\ stored' = IF v = "stored" THEN stored \union {c} ELSE stored
  /\ UNCHANGED <<deployment, request, sends, copies>>

\* The caller cancels.  Inside the broker's context the copy is removed on the
\* way out; during the download its path is not yet known to `finally`, and
\* `except Exception` does not see the cancellation, so the file stays.  A
\* write to the store that is under way completes.
Cancel(c) ==
  /\ call[c].phase \notin {"idle", "done"}
  /\ call' = [call EXCEPT ![c] =
       IF call[c].phase \in {"calling", "sent", "closing"}
       THEN [call[c] EXCEPT !.phase = "closing", !.verdict = "cancelled"]
       ELSE Ended(c, "cancelled")]
  /\ \/ UNCHANGED stored
     \/ /\ call[c].phase = "delivering" /\ request[c].result # "inline"
        /\ stored' = stored \union {c}
  /\ UNCHANGED <<deployment, request, sends, copies>>

\* A transcript leaves the store: delete_transcript, or its time to live.
Discard(c) ==
  /\ c \in stored
  /\ stored' = stored \ {c}
  /\ UNCHANGED <<deployment, request, call, sends, copies>>

Step(c) == \/ Validate(c) \/ Download(c) \/ Send(c) \/ TransientFailure(c)
           \/ FinalFailure(c) \/ Transcribed(c) \/ Close(c) \/ Deliver(c)

Next == \E c \in Calls : Submit(c) \/ Step(c) \/ Cancel(c) \/ Discard(c)

Spec == Init /\ [][Next]_vars

\* Every await of a call has a timeout, so a call in flight takes its steps.
\* Nothing obliges a caller to submit or to cancel.
Fairness == \A c \in Calls : WF_vars(Step(c))
FairSpec == Spec /\ Fairness

-----------------------------------------------------------------------------
(***************************************************************************)
(* Properties.                                                             *)
(***************************************************************************)
TypeOK ==
  /\ deployment \in Deployments
  /\ request \in [Calls -> Requests]
  /\ call \in [Calls -> CallState]
  /\ sends \in [Calls -> [Models -> Nat]]
  /\ copies \subseteq Calls
  /\ stored \subseteq Calls

Received(c) == {m \in Models : sends[c][m] > 0}

\* The audio of a request, or its URL, reaches configured providers of the
\* allow-list only; without permission to cross providers they are one
\* provider, and without the caller's permission to fall back, one model.
\* (router.py filters before ranking, service.py checks every attempt again.)
AuthorizedRecipients ==
  \A c \in Calls : \A m \in Received(c) :
    /\ ProviderOf(m) \in deployment.enabled \intersect deployment.configured
    /\ \A n \in Received(c) :
         /\ deployment.cross \/ ProviderOf(n) = ProviderOf(m)
         /\ request[c].allowFallback \/ n = m

\* A model is given the audio only once every candidate ranked before it has
\* spent the whole retry budget on transient failures and is in the fallback
\* history; no model is given it more often than the budget.
TriedInOrder ==
  \A c \in Calls : \A m \in Received(c) :
    /\ sends[c][m] <= MaxAttempts
    /\ \A n \in Candidates(deployment, request[c]) :
         Precedes(deployment, request[c], n, m) =>
           /\ sends[c][n] = MaxAttempts
           /\ \E i \in DOMAIN call[c].failures : call[c].failures[i] = n

\* Speakers, timestamps and style are only asked of a model that supports them,
\* and every value the caller stated that it does not honour is one of the
\* reported missing capabilities, which a strict request never has.  Phrase hints
\* are asked of any model: of one that takes none, they are reported as missing.
NoSilentDowngrade ==
  \A c \in Calls : \A m \in Received(c) :
    LET req == request[c]
        bound == Resolve(req, m)
        reported == Missing(req, m)
    IN  /\ bound.diarization => Descriptor[m].diarization
        /\ bound.timestamps \in Descriptor[m].timestamps
        /\ bound.style \in Descriptor[m].styles
        /\ req.diarization = "yes" /\ ~bound.diarization => "diarization" \in reported
        /\ req.diarization = "no" => ~bound.diarization
        /\ req.timestamps \notin {Unset, bound.timestamps} => "timestamps" \in reported
        /\ req.style \notin {Unset, bound.style} => "transcript_style" \in reported
        /\ bound.hints /\ ~Descriptor[m].hints => "phrase_hints" \in reported
        /\ req.strict => reported = {}

\* Routing is a decision: a request is refused, or exactly one model is first.
RouteDecides ==
  \A c \in Calls :
    LET req == request[c]
        first == Firsts(deployment, req, Candidates(deployment, req))
    IN  RouteError(deployment, req) = "none" =>
          /\ \E m \in first : first = {m}
          /\ req.provider # AutoProvider => first = Explicit(deployment, req)

\* A delivered transcript names the model that produced it, and its fallback
\* history lists exactly the other models that were given the audio.
HonestHistory ==
  \A c \in Calls :
    call[c].verdict \in Delivered =>
      /\ call[c].model \in Received(c)
      /\ Received(c) \ {call[c].model} =
           {call[c].failures[i] : i \in DOMAIN call[c].failures} \ {call[c].model}
      /\ \A i \in DOMAIN call[c].failures : call[c].failures[i] # call[c].model

\* A local copy exists only where temporary audio is permitted, and outlives
\* its call only if the call was cancelled.
CopyLifetime ==
  \A c \in copies :
    /\ deployment.tempAudio
    /\ \/ call[c].phase \in {"downloading", "calling", "sent", "closing"}
       \/ call[c].phase = "done" /\ call[c].verdict = "cancelled"

\* Every call that is submitted ends, whatever the providers answer.
EveryCallEnds == \A c \in Calls : call[c].phase # "idle" ~> call[c].phase = "done"

\* What router.py says of a downgrade: a provider is never asked for a capability
\* that the model it is asked for does not have.
OnlySupportedIsAsked ==
  \A c \in Calls : \A m \in Received(c) :
    LET bound == Resolve(request[c], m)
    IN  /\ bound.diarization => Descriptor[m].diarization
        /\ bound.timestamps \in Descriptor[m].timestamps
        /\ bound.style \in Descriptor[m].styles
        /\ bound.hints => Descriptor[m].hints

\* What tempaudio.py says of completion, failure or cancellation: a finished
\* call leaves no copy behind.
NothingLeftBehind == \A c \in copies : call[c].phase # "done"

(***************************************************************************)
(* The abstract promise.                                                   *)
(***************************************************************************)
Audience == [c \in Calls |-> {ProviderOf(m) : m \in Received(c)}]

Status ==
  [c \in Calls |->
     IF call[c].phase # "done" THEN "open"
     ELSE IF call[c].verdict \in Delivered THEN "answered" ELSE "refused"]

Disclosure == INSTANCE Disclosure WITH audience <- Audience, status <- Status

\* Whatever the routing, the retries and the fallbacks do, the service only
\* discloses audio as the policy allows and answers from a provider it asked.
ImplementsDisclosure == Disclosure!Spec
=============================================================================

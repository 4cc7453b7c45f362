------------------------------ MODULE Routing ------------------------------
(***************************************************************************)
(* Which models a transcription request may reach, and in which order.     *)
(*                                                                         *)
(* The operators are Router.route and what it calls.  A model is a member  *)
(* of Models with a descriptor; a request and a deployment (the settings   *)
(* and the authorization policy an engine was started with) are records.   *)
(* The list of candidates the code sorts is the set Candidates together    *)
(* with the strict order Precedes: its keys are distinct, so the list and  *)
(* the ordered set carry the same information.                             *)
(***************************************************************************)
EXTENDS Integers, FiniteSets

CONSTANTS
  Providers,     \* provider identifiers
  Models,        \* models in the registry
  Descriptor     \* [Models -> ModelRecord]

AutoProvider == "auto"             \* ProviderId.AUTO; no provider has this name
Unset == "unset"           \* a request field left to its default of None
Unpriced == -1             \* pricing is None
NoModel == "no model"

Modes == {"none", "segment", "word"}
Styles == {"clean", "verbatim"}
Policies == {"default", "quality", "cost", "latency", "fixed"}

ModelRecord ==
  [provider: Providers, listed: Nat, key: Nat, preview: BOOLEAN,
   diarization: BOOLEAN, timestamps: (SUBSET Modes) \ {{}},
   styles: (SUBSET Styles) \ {{}}, detection: BOOLEAN, hints: BOOLEAN, maxSeconds: Nat,
   urlInput: BOOLEAN, price: Nat \union {Unpriced}, quality: Nat, latency: Nat]

\* `listed` is the position in the registry, `key` the alphabetical rank of
\* "provider/model"; both are positions of distinct dictionary keys.  Every
\* descriptor of the adapters has a timestamp mode and a transcript style.
ASSUME CatalogueAssumption ==
  /\ Descriptor \in [Models -> ModelRecord]
  /\ AutoProvider \notin Providers
  /\ NoModel \notin Models /\ Unset \notin Models
  /\ \A m, n \in Models :
       m # n => /\ Descriptor[m].listed # Descriptor[n].listed
                /\ Descriptor[m].key # Descriptor[n].key

ProviderOf(m) == Descriptor[m].provider

Request ==
  [provider: Providers \union {AutoProvider}, model: Models \union {Unset},
   policy: Policies, diarization: {Unset, "yes", "no"},
   timestamps: Modes \union {Unset}, style: Styles \union {Unset},
   language: BOOLEAN, hints: BOOLEAN, strict: BOOLEAN, allowFallback: BOOLEAN,
   allowPreview: BOOLEAN, delivery: {"auto", "passthrough", "proxy"},
   result: {"auto", "inline", "stored"}, seconds: Nat]

\* The model validator: what a request may combine.
ValidRequest(req) ==
  /\ req.policy = "fixed" => req.provider # AutoProvider
  /\ req.provider = AutoProvider => req.model = Unset

\* `enabled` is the allow-list (Providers itself when there is none); `ceiling`
\* is 0 when no request cost limit is set; `seconds` of a request is 0 when it
\* gives no duration hint.
Deployment ==
  [configured: SUBSET Providers, enabled: SUBSET Providers, cross: BOOLEAN,
   tempAudio: BOOLEAN, default: Models \union {NoModel}, ceiling: Nat,
   maxSeconds: Nat]

(***************************************************************************)
(* The candidate set.                                                      *)
(***************************************************************************)
\* Mutant of Permits: an empty allow-list is taken for none at all.
PermitsAllIfEmpty(dep, p) == dep.enabled = {} \/ p \in dep.enabled

Permits(dep, p) == p \in dep.enabled

Reachable(dep) ==
  {m \in Models : ProviderOf(m) \in dep.configured /\ Permits(dep, ProviderOf(m))}

ModelsOf(dep, p) == {m \in Reachable(dep) : ProviderOf(m) = p}

\* The head of a list, as a set: empty or one model.
FirstListed(S) ==
  {m \in S : \A n \in S : Descriptor[m].listed <= Descriptor[n].listed}

\* The model the request names, directly or through its provider: none or one.
Explicit(dep, req) ==
  IF req.provider = AutoProvider THEN {}
  ELSE IF req.model # Unset THEN {req.model}
  ELSE FirstListed(ModelsOf(dep, req.provider))

Missing(req, m) ==
  LET d == Descriptor[m]
  IN  {c \in {"preview_model", "diarization", "timestamps", "transcript_style",
              "language_detection", "phrase_hints", "max_audio_seconds"} :
        \/ c = "preview_model" /\ d.preview /\ ~req.allowPreview
        \/ c = "diarization" /\ req.diarization = "yes" /\ ~d.diarization
        \/ c = "timestamps" /\ req.timestamps \notin d.timestamps \union {Unset}
        \/ c = "transcript_style" /\ req.style \notin d.styles \union {Unset}
        \/ c = "language_detection" /\ ~req.language /\ ~d.detection
        \/ c = "phrase_hints" /\ req.hints /\ ~d.hints
        \/ c = "max_audio_seconds" /\ req.seconds > 0 /\ d.maxSeconds > 0
             /\ req.seconds > d.maxSeconds}

Compatible(dep, req) == {m \in Reachable(dep) : Missing(req, m) = {}}

\* Every model that may be offered, before fallback is restricted.
Offered(dep, req) ==
  IF Compatible(dep, req) \union Explicit(dep, req) = {} /\ ~req.strict
  THEN Reachable(dep)
  ELSE Compatible(dep, req) \union Explicit(dep, req)

RouteError(dep, req) ==
  IF Reachable(dep) = {} THEN "PROVIDER_UNAVAILABLE"
  ELSE IF req.provider # AutoProvider /\ ~Permits(dep, req.provider)
    THEN "PROVIDER_NOT_ENABLED"
  ELSE IF req.provider # AutoProvider /\ ModelsOf(dep, req.provider) = {}
    THEN "PROVIDER_UNAVAILABLE"
  ELSE IF req.model # Unset /\ req.model \notin ModelsOf(dep, req.provider)
    THEN "UNSUPPORTED_MODEL"
  ELSE IF req.strict /\ \/ Offered(dep, req) = {}
                        \/ \E m \in Explicit(dep, req) : Missing(req, m) # {}
    THEN "UNSUPPORTED_CAPABILITY"
  ELSE "none"

(***************************************************************************)
(* The order.                                                              *)
(***************************************************************************)
\* _order's sort key, with the explicit model moved to the front as route
\* does for every policy.
Rank(dep, req, m) ==
  LET d == Descriptor[m]
      named == IF m \in Explicit(dep, req) THEN 0 ELSE 1
  IN  CASE req.policy = "cost" ->
             <<named, IF d.price = Unpriced THEN 1 ELSE 0, d.price, d.key>>
        [] req.policy = "quality" -> <<named, 0, d.quality, d.key>>
        [] req.policy = "latency" -> <<named, 0, d.latency, d.key>>
        [] OTHER -> <<named, 0, IF m = dep.default THEN 0 ELSE 1, d.key>>

Precedes(dep, req, m, n) ==
  LET a == Rank(dep, req, m)
      b == Rank(dep, req, n)
  IN  \E i \in 1..4 : a[i] < b[i] /\ \A j \in 1..(i - 1) : a[j] = b[j]

IsLeast(dep, req, m, S) ==
  m \in S /\ \A n \in S \ {m} : Precedes(dep, req, m, n)

\* Mutant of Firsts: the registry's order instead of the policy's.
FirstsListed(dep, req, S) == FirstListed(S)

\* The first candidate, as a set: the order is strict and total, so one of them.
Firsts(dep, req, S) == {m \in S : IsLeast(dep, req, m, S)}

\* Mutant of Candidates: the restriction to one provider is forgotten.
CandidatesAcross(dep, req) ==
  LET offered == Offered(dep, req)
  IN  IF req.policy = "fixed" \/ ~req.allowFallback
      THEN Firsts(dep, req, offered) ELSE offered

\* The candidates: one without fallback, those of the first one's provider
\* without permission to cross providers, every offered model otherwise.
Candidates(dep, req) ==
  LET offered == Offered(dep, req)
      firsts == Firsts(dep, req, offered)
  IN  IF req.policy = "fixed" \/ ~req.allowFallback THEN firsts
      ELSE IF ~dep.cross
           THEN {m \in offered : \E f \in firsts : ProviderOf(m) = ProviderOf(f)}
           ELSE offered

(***************************************************************************)
(* Capabilities bound to one model: what a provider is asked for.          *)
(***************************************************************************)
Preferred(order, S, default) ==
  IF \E i \in DOMAIN order : order[i] \in S
  THEN order[CHOOSE i \in DOMAIN order :
               order[i] \in S /\ \A j \in 1..(i - 1) : order[j] \notin S]
  ELSE default

\* Mutant of Resolve: what the caller asked for, whatever the model supports.
ResolveAsAsked(req, m) ==
  [diarization |-> req.diarization = "yes",
   timestamps |-> IF req.timestamps = Unset THEN "none" ELSE req.timestamps,
   style |-> IF req.style = Unset THEN "verbatim" ELSE req.style,
   hints |-> req.hints]

\* The phrase hints are the request's own, whether or not the model takes any.
Resolve(req, m) ==
  LET d == Descriptor[m]
  IN  [diarization |-> req.diarization # "no" /\ d.diarization,
       timestamps |-> IF req.timestamps \in d.timestamps THEN req.timestamps
                      ELSE Preferred(<<"segment", "word", "none">>,
                                     d.timestamps, "none"),
       style |-> IF req.style \in d.styles THEN req.style
                 ELSE Preferred(<<"clean", "verbatim">>, d.styles, "verbatim"),
       hints |-> req.hints]
=============================================================================

-------------------------- MODULE MCTranscription --------------------------
(***************************************************************************)
(* Two providers, three models: `a1` is a preview model with every         *)
(* capability, `a2` a cheaper one of the same provider that cannot take a  *)
(* URL or tell speakers apart, `b1` the only unpriced one.                 *)
(***************************************************************************)
EXTENDS Transcription

CONSTANTS c1, c2

MCProviders == {"pa", "pb"}
MCModels == {"a1", "a2", "b1"}

Base == [provider |-> "pa", listed |-> 1, key |-> 2, preview |-> TRUE,
         diarization |-> TRUE, timestamps |-> Modes, styles |-> Styles,
         detection |-> TRUE, hints |-> TRUE, maxSeconds |-> 0,
         urlInput |-> TRUE, price |-> 3, quality |-> 0, latency |-> 10000]

MCDescriptor ==
  [m \in MCModels |->
     CASE m = "a1" -> Base
       [] m = "a2" -> [Base EXCEPT !.listed = 2, !.key = 3, !.preview = FALSE,
                         !.diarization = FALSE, !.styles = {"verbatim"},
                         !.timestamps = {"none", "segment"}, !.urlInput = FALSE,
                         !.price = 1, !.quality = 10000, !.latency = 0]
       [] m = "b1" -> [Base EXCEPT !.provider = "pb", !.listed = 3, !.key = 1,
                         !.preview = FALSE, !.price = Unpriced, !.quality = 1,
                         !.detection = FALSE, !.hints = FALSE, !.maxSeconds = 1]]

Ask == [provider |-> AutoProvider, model |-> Unset, policy |-> "default",
        diarization |-> Unset, timestamps |-> Unset, style |-> Unset,
        language |-> TRUE, hints |-> FALSE, strict |-> TRUE,
        allowFallback |-> TRUE, allowPreview |-> TRUE, delivery |-> "auto",
        result |-> "auto", seconds |-> 0]

\* Every routing input, one family of fields at a time.
Named == {[Ask EXCEPT !.provider = p, !.model = m, !.policy = q, !.allowFallback = f] :
            p \in MCProviders \union {AutoProvider}, m \in {Unset, "a2"}, q \in Policies,
            f \in BOOLEAN}
Stated == {[Ask EXCEPT !.diarization = d, !.timestamps = t, !.style = s, !.strict = x,
                       !.allowPreview = v] :
             d \in {Unset, "yes", "no"}, t \in {Unset, "word"}, s \in {Unset, "clean"},
             x \in BOOLEAN, v \in BOOLEAN}
Spoken == {[Ask EXCEPT !.language = l, !.hints = h, !.strict = x, !.provider = p] :
             l \in BOOLEAN, h \in BOOLEAN, x \in BOOLEAN, p \in {AutoProvider, "pb"}}
Timed == {[Ask EXCEPT !.seconds = n, !.policy = q] : n \in 0..3, q \in {"cost", "quality"}}
Handled == {[Ask EXCEPT !.provider = p, !.delivery = d, !.result = r] :
              p \in {AutoProvider, "pa"}, d \in {"auto", "passthrough", "proxy"},
              r \in {"auto", "inline", "stored"}}
Unnamed == {[Ask EXCEPT !.provider = "pb", !.model = "a1", !.strict = FALSE]}

WideRequests == {r \in Named \union Stated \union Spoken \union Timed \union Handled \union Unnamed :
                   ValidRequest(r)}

Open == [configured |-> MCProviders, enabled |-> MCProviders, cross |-> TRUE,
         tempAudio |-> TRUE, default |-> "a2", ceiling |-> 0, maxSeconds |-> 2]

WideDeployments ==
  {Open, [Open EXCEPT !.cross = FALSE],
   [Open EXCEPT !.enabled = {"pa"}, !.default = NoModel],
   [Open EXCEPT !.enabled = {"pb"}, !.tempAudio = FALSE],
   [Open EXCEPT !.enabled = {}],
   [Open EXCEPT !.configured = {"pa"}, !.cross = FALSE, !.tempAudio = FALSE],
   [Open EXCEPT !.ceiling = 3]}

\* Two relayed requests at once, one that may fall back and one that may not.
PairRequests == {[Ask EXCEPT !.delivery = "proxy", !.result = "stored"],
                 [Ask EXCEPT !.provider = "pa", !.policy = "fixed",
                             !.allowFallback = FALSE, !.delivery = "proxy"]}
PairDeployments == {[Open EXCEPT !.cross = FALSE]}

\* Hints for the one provider whose model takes none, a downgrade allowed.
HintedRequests == {r \in Spoken : r.provider = "pb" /\ r.hints /\ ~r.strict}
HintedDeployments == {Open}

OneCall == {c1}
TwoCalls == {c1, c2}

\* c1 makes any request; c2 makes a paired one, and only runs beside a paired
\* request of c1: the overlap that matters is that of two relayed copies.
AllRequests == WideRequests \union PairRequests
Relayed == CHOOSE r \in PairRequests : r.allowFallback
Overlapping == /\ deployment \in PairDeployments
               /\ request[c1] \in PairRequests
               /\ request[c2] = Relayed => request[c1] = Relayed
CallsInit == /\ Init
             /\ request[c2] \in PairRequests
             /\ Overlapping \/ request[c2] = Relayed
CallsSpec == CallsInit /\ [][Next]_vars /\ Fairness
OnlyOverlap == call[c2].phase = "idle" \/ Overlapping
=============================================================================

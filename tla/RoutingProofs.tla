--------------------------- MODULE RoutingProofs ----------------------------
(***************************************************************************)
(* What routing guarantees for every catalogue, deployment and request: the *)
(* order of the candidates is strict and has a head, what is offered is    *)
(* authorized, and what a strict request is routed to lacks nothing.       *)
(***************************************************************************)
EXTENDS Routing, TLAPS, WellFoundedInduction

-----------------------------------------------------------------------------
(***************************************************************************)
(* The order of the candidates is strict, and every set has a first.       *)
(***************************************************************************)
\* A sort key is a tuple of four integers, whatever the policy (Router._order):
\* the named model first, and last a key that tells all models apart.
LEMMA RankShape ==
  ASSUME NEW dep, NEW req, NEW m \in Models
  PROVE  \E u \in Nat, v \in Nat \union {-1} :
           Rank(dep, req, m) =
             <<IF m \in Explicit(dep, req) THEN 0 ELSE 1, u, v, Descriptor[m].key>>
<1> DEFINE d == Descriptor[m]
<1>1. /\ d.price \in Nat \union {-1} /\ d.quality \in Nat /\ d.latency \in Nat
      /\ d.key \in Nat
  BY CatalogueAssumption DEF ModelRecord, Unpriced
<1>2. CASE req.policy = "cost"
  BY <1>1, <1>2 DEF Rank
<1>3. CASE req.policy = "quality"
  BY <1>1, <1>3 DEF Rank
<1>4. CASE req.policy = "latency"
  BY <1>1, <1>4 DEF Rank
<1>5. CASE req.policy \notin {"cost", "quality", "latency"}
  BY <1>1, <1>5 DEF Rank
<1> QED BY <1>2, <1>3, <1>4, <1>5

\* What is read off the shape.
LEMMA RankFacts ==
  ASSUME NEW dep, NEW req, NEW m \in Models
  PROVE  LET a == Rank(dep, req, m)
         IN  /\ \A i \in 1..4 : a[i] \in Nat \union {-1}
             /\ a[1] = (IF m \in Explicit(dep, req) THEN 0 ELSE 1)
             /\ a[4] = Descriptor[m].key
<1>1. Descriptor[m].key \in Nat
  BY CatalogueAssumption DEF ModelRecord
<1>2. PICK u \in Nat, v \in Nat \union {-1} :
        Rank(dep, req, m) =
          <<IF m \in Explicit(dep, req) THEN 0 ELSE 1, u, v, Descriptor[m].key>>
  BY RankShape
<1> QED BY <1>1, <1>2

\* The order is strict: no two models come each before the other.
LEMMA PrecedesAsymmetric ==
  ASSUME NEW dep, NEW req, NEW m \in Models, NEW n \in Models,
         Precedes(dep, req, m, n), Precedes(dep, req, n, m)
  PROVE  FALSE
<1> DEFINE a == Rank(dep, req, m)
           b == Rank(dep, req, n)
<1>1. \A i \in 1..4 : a[i] \in Int /\ b[i] \in Int
  BY RankFacts
<1>2. PICK i \in 1..4 : a[i] < b[i] /\ \A j \in 1..(i - 1) : a[j] = b[j]
  BY DEF Precedes
<1>3. PICK k \in 1..4 : b[k] < a[k] /\ \A j \in 1..(k - 1) : b[j] = a[j]
  BY DEF Precedes
<1> HIDE DEF a, b
<1>4. CASE i < k
  <2>1. i \in 1..(k - 1)
    BY <1>4
  <2> QED BY <1>2, <1>3, <1>1, <2>1
<1>5. CASE k < i
  <2>1. k \in 1..(i - 1)
    BY <1>5
  <2> QED BY <1>2, <1>3, <1>1, <2>1
<1>6. CASE i = k
  BY <1>2, <1>3, <1>1, <1>6
<1> QED BY <1>4, <1>5, <1>6

\* So at most one candidate is first (candidates[0] of Router.route).
LEMMA FirstIsUnique ==
  ASSUME NEW dep, NEW req, NEW S, S \subseteq Models,
         NEW m \in Firsts(dep, req, S), NEW n \in Firsts(dep, req, S)
  PROVE  m = n
<1> SUFFICES ASSUME m # n PROVE FALSE
  OBVIOUS
<1>1. Precedes(dep, req, m, n) /\ Precedes(dep, req, n, m)
  BY DEF Firsts, IsLeast
<1>2. m \in Models /\ n \in Models
  BY DEF Firsts
<1> QED BY <1>1, <1>2, PrecedesAsymmetric

\* The order of the natural numbers, as a relation.
Below == {p \in Nat \X Nat : p[1] < p[2]}

\* Every nonempty set of positions has a least one.
LEMMA LeastNat ==
  ASSUME NEW S, S \subseteq Nat, S # {}
  PROVE  \E n \in S : \A k \in S : n <= k
<1>1. IsWellFoundedOn(Below, Nat)
  BY NatLessThanWellFounded, Zenon DEF Below, OpToRel
<1>2. PICK n \in S : \A k \in S : <<k, n>> \notin Below
  BY <1>1, WFMin, Zenon
<1>3. \A k \in S : ~(k < n)
  BY <1>2 DEF Below
<1> QED BY <1>3

\* The models of S with the least f.
Lowest(f, S) == {m \in S : \A n \in S : f[m] <= f[n]}

LEMMA LowestExists ==
  ASSUME NEW f \in [Models -> Nat], NEW S, S \subseteq Models, S # {}
  PROVE  /\ Lowest(f, S) # {}
         /\ Lowest(f, S) \subseteq S
         /\ \A m \in Lowest(f, S) : \A n \in S :
              f[m] < f[n] \/ (f[m] = f[n] /\ n \in Lowest(f, S))
<1> DEFINE T == {f[m] : m \in S}
<1>1. T \subseteq Nat /\ T # {}
  OBVIOUS
<1>2. PICK n \in T : \A k \in T : n <= k
  <2> HIDE DEF T
  <2> QED BY <1>1, LeastNat
<1>3. PICK m \in S : f[m] = n
  OBVIOUS
<1>4. m \in Lowest(f, S)
  BY <1>2, <1>3 DEF Lowest
<1> QED BY <1>4 DEF Lowest

LEMMA FirstListedExists ==
  ASSUME NEW S, S \subseteq Models, S # {}
  PROVE  \E m \in S : FirstListed(S) = {m}
<1> DEFINE f == [m \in Models |-> Descriptor[m].listed]
<1>1. f \in [Models -> Nat]
  BY CatalogueAssumption DEF ModelRecord
<1>2. FirstListed(S) = Lowest(f, S)
  BY DEF FirstListed, Lowest
<1>3. \A m, n \in Lowest(f, S) : m = n
  <2>1. \A m, n \in Lowest(f, S) : m \in Models /\ n \in Models /\ f[m] <= f[n] /\ f[n] <= f[m]
    BY DEF Lowest
  <2>2. \A m, n \in Models : m # n => f[m] # f[n]
    BY CatalogueAssumption
  <2> HIDE DEF f
  <2> QED BY <1>1, <2>1, <2>2
<1> HIDE DEF f
<1>4. PICK m \in Lowest(f, S) : TRUE
  BY <1>1, LowestExists
<1>5. FirstListed(S) = {m} /\ m \in S
  BY <1>2, <1>3, <1>4 DEF Lowest
<1> QED BY <1>5

\* The i-th component of the sort key, from 0 up.
Component(dep, req, i) == [m \in Models |-> Rank(dep, req, m)[i] + 1]

LEMMA ComponentIsNat ==
  ASSUME NEW dep, NEW req, NEW i \in 1..4
  PROVE  Component(dep, req, i) \in [Models -> Nat]
BY RankFacts DEF Component

\* The last component tells any two models apart.
LEMMA KeysDiffer ==
  ASSUME NEW dep, NEW req, NEW m \in Models, NEW n \in Models,
         Rank(dep, req, m)[4] = Rank(dep, req, n)[4]
  PROVE  m = n
BY RankFacts, CatalogueAssumption

\* The sort has a head: the least by the first component, of those the least by
\* the second, and so on to the last, which tells all models apart.
LEMMA FirstExists ==
  ASSUME NEW dep, NEW req, NEW S, S \subseteq Models, S # {}
  PROVE  Firsts(dep, req, S) # {}
<1> DEFINE C(i) == Component(dep, req, i)
           S1 == Lowest(C(1), S)
           S2 == Lowest(C(2), S1)
           S3 == Lowest(C(3), S2)
           S4 == Lowest(C(4), S3)
<1>1. \A i \in 1..4 : C(i) \in [Models -> Nat]
  BY ComponentIsNat
<1>2. /\ S1 # {} /\ S1 \subseteq S
      /\ \A m \in S1 : \A n \in S : C(1)[m] < C(1)[n] \/ (C(1)[m] = C(1)[n] /\ n \in S1)
  <2> HIDE DEF C
  <2> QED BY <1>1, LowestExists
<1>3. /\ S2 # {} /\ S2 \subseteq S1
      /\ \A m \in S2 : \A n \in S1 : C(2)[m] < C(2)[n] \/ (C(2)[m] = C(2)[n] /\ n \in S2)
  <2> HIDE DEF C, S1
  <2> QED BY <1>1, <1>2, LowestExists
<1>4. /\ S3 # {} /\ S3 \subseteq S2
      /\ \A m \in S3 : \A n \in S2 : C(3)[m] < C(3)[n] \/ (C(3)[m] = C(3)[n] /\ n \in S3)
  <2> HIDE DEF C, S1, S2
  <2> QED BY <1>1, <1>2, <1>3, LowestExists
<1>5. /\ S4 # {} /\ S4 \subseteq S3
      /\ \A m \in S4 : \A n \in S3 : C(4)[m] < C(4)[n] \/ (C(4)[m] = C(4)[n] /\ n \in S4)
  <2> HIDE DEF C, S1, S2, S3
  <2> QED BY <1>1, <1>2, <1>3, <1>4, LowestExists
<1> HIDE DEF S1, S2, S3, S4
<1>6. PICK m \in S4 : TRUE
  BY <1>5
<1>7. m \in S /\ m \in S1 /\ m \in S2 /\ m \in S3
  BY <1>2, <1>3, <1>4, <1>5, <1>6
<1>8. ASSUME NEW n \in S \ {m} PROVE Precedes(dep, req, m, n)
  <2> DEFINE a == Rank(dep, req, m)
             b == Rank(dep, req, n)
  <2>1. /\ \A i \in 1..4 : a[i] \in Int /\ b[i] \in Int
        /\ \A i \in 1..4 : C(i)[m] = a[i] + 1 /\ C(i)[n] = b[i] + 1
    <3>1. \A i \in 1..4 : a[i] \in Int /\ b[i] \in Int
      BY <1>7, RankFacts
    <3>2. \A i \in 1..4 : C(i)[m] = a[i] + 1 /\ C(i)[n] = b[i] + 1
      BY <1>7 DEF Component
    <3> HIDE DEF a, b
    <3> QED BY <3>1, <3>2
  <2>2. a[4] # b[4]
    BY <1>7, KeysDiffer
  <2> SUFFICES \E i \in 1..4 : a[i] < b[i] /\ \A j \in 1..(i - 1) : a[j] = b[j]
    BY DEF Precedes
  <2> HIDE DEF a, b
  <2>3. CASE n \notin S1
    <3>1. a[1] < b[1] /\ 1 \in 1..4 /\ \A j \in 1..(1 - 1) : a[j] = b[j]
      BY <1>2, <1>7, <2>1, <2>3
    <3> QED BY <3>1
  <2>4. CASE n \in S1 \ S2
    <3>1. a[1] = b[1] /\ a[2] < b[2]
      BY <1>2, <1>3, <1>7, <2>1, <2>4
    <3>2. 2 \in 1..4 /\ \A j \in 1..(2 - 1) : j = 1
      OBVIOUS
    <3> QED BY <3>1, <3>2
  <2>5. CASE n \in S2 \ S3
    <3>1. a[1] = b[1] /\ a[2] = b[2] /\ a[3] < b[3]
      BY <1>2, <1>3, <1>4, <1>7, <2>1, <2>5
    <3>2. 3 \in 1..4 /\ \A j \in 1..(3 - 1) : j = 1 \/ j = 2
      OBVIOUS
    <3> QED BY <3>1, <3>2
  <2>6. CASE n \in S3
    <3>1. a[1] = b[1] /\ a[2] = b[2] /\ a[3] = b[3] /\ a[4] < b[4]
      BY <1>2, <1>3, <1>4, <1>5, <1>6, <1>7, <2>1, <2>2, <2>6
    <3>2. 4 \in 1..4 /\ \A j \in 1..(4 - 1) : j = 1 \/ j = 2 \/ j = 3
      OBVIOUS
    <3> QED BY <3>1, <3>2
  <2> QED BY <1>2, <1>3, <1>4, <2>3, <2>4, <2>5, <2>6
<1> QED BY <1>7, <1>8 DEF Firsts, IsLeast

-----------------------------------------------------------------------------
(***************************************************************************)
(* What a request is offered.                                              *)
(***************************************************************************)
\* A routed request is only ever offered models of configured providers of the
\* allow-list: what the caller names is checked like everything else.
LEMMA OfferedAreReachable ==
  ASSUME NEW dep, NEW req, RouteError(dep, req) = "none"
  PROVE  Offered(dep, req) \subseteq Reachable(dep)
<1>1. Compatible(dep, req) \subseteq Reachable(dep)
  BY DEF Compatible
<1>2. Explicit(dep, req) \subseteq Reachable(dep)
  <2>1. CASE req.provider = AutoProvider
    <3>1. Explicit(dep, req) = {}
      BY <2>1 DEF Explicit
    <3> QED BY <3>1
  <2>2. CASE req.provider # AutoProvider /\ req.model # Unset
    <3>1. req.model \in ModelsOf(dep, req.provider)
      BY <2>2 DEF RouteError
    <3> QED BY <2>2, <3>1 DEF Explicit, ModelsOf
  <2>3. CASE req.provider # AutoProvider /\ req.model = Unset
    BY <2>3 DEF Explicit, FirstListed, ModelsOf
  <2> QED BY <2>1, <2>2, <2>3
<1> QED BY <1>1, <1>2 DEF Offered

LEMMA CandidatesAreReachable ==
  ASSUME NEW dep, NEW req, RouteError(dep, req) = "none"
  PROVE  /\ Candidates(dep, req) \subseteq Reachable(dep)
         /\ Candidates(dep, req) \subseteq Models
<1>1. Candidates(dep, req) \subseteq Offered(dep, req)
  BY DEF Candidates, Firsts
<1> QED BY <1>1, OfferedAreReachable DEF Reachable

\* Two candidates of one request: fallback and the crossing of providers are
\* each a permission.
LEMMA CandidatesNeedPermission ==
  ASSUME NEW dep, NEW req, RouteError(dep, req) = "none",
         NEW m \in Candidates(dep, req), NEW n \in Candidates(dep, req)
  PROVE  /\ req.allowFallback \/ n = m
         /\ dep.cross \/ ProviderOf(n) = ProviderOf(m)
<1> DEFINE offered == Offered(dep, req)
           firsts == Firsts(dep, req, offered)
<1>1. offered \subseteq Models
  BY OfferedAreReachable DEF Reachable
<1>2. \A f, g \in firsts : f = g
  BY <1>1, FirstIsUnique
<1> HIDE DEF firsts
<1>3. CASE req.policy = "fixed" \/ ~req.allowFallback
  <2>1. m \in firsts /\ n \in firsts
    BY <1>3 DEF Candidates, firsts
  <2> QED BY <1>2, <2>1
<1>4. CASE ~(req.policy = "fixed" \/ ~req.allowFallback) /\ ~dep.cross
  <2>1. /\ \E f \in firsts : ProviderOf(m) = ProviderOf(f)
        /\ \E f \in firsts : ProviderOf(n) = ProviderOf(f)
    BY <1>4 DEF Candidates, firsts
  <2> QED BY <1>2, <1>4, <2>1
<1>5. CASE ~(req.policy = "fixed" \/ ~req.allowFallback) /\ dep.cross
  BY <1>5
<1> QED BY <1>3, <1>4, <1>5

\* Router.route never returns an empty list: a request that is not refused has
\* candidates, one of which is ranked before all others, for every catalogue.
THEOREM RoutedHasCandidates ==
  ASSUME NEW dep, NEW req, RouteError(dep, req) = "none"
  PROVE  /\ Offered(dep, req) # {} /\ Offered(dep, req) \subseteq Models
         /\ \E m \in Candidates(dep, req) : Firsts(dep, req, Candidates(dep, req)) = {m}
<1>1. Offered(dep, req) \subseteq Models
  BY OfferedAreReachable DEF Reachable
<1>2. Offered(dep, req) # {}
  BY DEF RouteError, Offered
<1> DEFINE offered == Offered(dep, req)
           C == Candidates(dep, req)
<1>3. Firsts(dep, req, offered) # {} /\ Firsts(dep, req, offered) \subseteq C
  BY <1>1, <1>2, FirstExists DEF Candidates, Firsts
<1>4. C \subseteq Models /\ C # {}
  BY <1>1, <1>3 DEF Candidates, Firsts
<1>5. PICK m \in Firsts(dep, req, C) : TRUE
  BY <1>4, FirstExists
<1>6. \A n \in Firsts(dep, req, C) : n = m
  BY <1>4, <1>5, FirstIsUnique
<1> QED BY <1>1, <1>2, <1>5, <1>6 DEF Firsts

\* What a request names is one model, offered and ranked before the others.
LEMMA ExplicitIsFirst ==
  ASSUME NEW dep, NEW req, RouteError(dep, req) = "none", req.provider # AutoProvider
  PROVE  Firsts(dep, req, Candidates(dep, req)) = Explicit(dep, req)
<1> DEFINE offered == Offered(dep, req)
           C == Candidates(dep, req)
<1>1. \E x \in Models : Explicit(dep, req) = {x}
  <2>1. CASE req.model # Unset
    BY <2>1 DEF Explicit, RouteError, ModelsOf, Reachable
  <2>2. CASE req.model = Unset
    <3>1. ModelsOf(dep, req.provider) # {} /\ ModelsOf(dep, req.provider) \subseteq Models
      BY DEF RouteError, ModelsOf, Reachable
    <3>2. Explicit(dep, req) = FirstListed(ModelsOf(dep, req.provider))
      BY <2>2 DEF Explicit
    <3> QED BY <3>1, <3>2, FirstListedExists
  <2> QED BY <2>1, <2>2
<1>2. PICK x \in Models : Explicit(dep, req) = {x}
  BY <1>1
<1>3. x \in offered
  BY <1>2 DEF Offered
<1>4. offered \subseteq Models
  BY RoutedHasCandidates
<1>5. \A n \in Models \ {x} : Precedes(dep, req, x, n)
  <2> TAKE n \in Models \ {x}
  <2>1. Rank(dep, req, x)[1] = 0 /\ Rank(dep, req, n)[1] = 1
    BY <1>2, RankFacts
  <2>2. 1 \in 1..4 /\ \A j \in 1..(1 - 1) : FALSE
    OBVIOUS
  <2> QED BY <2>1, <2>2 DEF Precedes
<1>6. x \in Firsts(dep, req, offered)
  BY <1>3, <1>4, <1>5 DEF Firsts, IsLeast
<1>7. x \in C /\ C \subseteq offered
  BY <1>6 DEF Candidates, Firsts
<1>8. x \in Firsts(dep, req, C)
  BY <1>4, <1>5, <1>7 DEF Firsts, IsLeast
<1> QED BY <1>2, <1>8, RoutedHasCandidates

-----------------------------------------------------------------------------
(***************************************************************************)
(* What a model is asked for.                                              *)
(***************************************************************************)
\* Of the values a preference names, the first that is in S; one is, here.
LEMMA PreferredIsMember ==
  ASSUME NEW order, NEW S, NEW default, DOMAIN order = 1..3 \/ DOMAIN order = 1..2,
         \E i \in DOMAIN order : order[i] \in S
  PROVE  Preferred(order, S, default) \in S
<1> DEFINE First(i) == order[i] \in S /\ \A j \in 1..(i - 1) : order[j] \notin S
<1>1. \E i \in DOMAIN order : First(i)
  <2>1. PICK i \in DOMAIN order : order[i] \in S
    OBVIOUS
  <2>2. i \in {1, 2, 3}
    BY <2>1
  <2>3. CASE order[1] \in S
    BY <2>3
  <2>4. CASE order[1] \notin S /\ order[2] \in S
    <3>1. 2 \in DOMAIN order /\ \A j \in 1..(2 - 1) : j = 1
      OBVIOUS
    <3> QED BY <2>4, <3>1
  <2>5. CASE order[1] \notin S /\ order[2] \notin S
    <3>1. i = 3 /\ \A j \in 1..(3 - 1) : j = 1 \/ j = 2
      BY <2>1, <2>2, <2>5
    <3> QED BY <2>1, <2>5, <3>1
  <2> QED BY <2>3, <2>4, <2>5
<1>2. First(CHOOSE i \in DOMAIN order : First(i))
  BY <1>1
<1> QED BY <1>1, <1>2 DEF Preferred

\* Router._resolve binds speakers, timestamps and style to what the model has, and
\* keeps the caller's wherever the model has it; phrase hints it leaves alone.
LEMMA ResolveIsSupported ==
  ASSUME NEW req, NEW m \in Models
  PROVE  LET bound == Resolve(req, m)
         IN  /\ bound.diarization = (req.diarization # "no" /\ Descriptor[m].diarization)
             /\ bound.timestamps \in Descriptor[m].timestamps
             /\ bound.style \in Descriptor[m].styles
             /\ req.timestamps \in Descriptor[m].timestamps => bound.timestamps = req.timestamps
             /\ req.style \in Descriptor[m].styles => bound.style = req.style
             /\ bound.hints = req.hints
<1> DEFINE d == Descriptor[m]
           modes == <<"segment", "word", "none">>
           styles == <<"clean", "verbatim">>
<1>1. /\ d.timestamps \subseteq Modes /\ d.timestamps # {}
      /\ d.styles \subseteq Styles /\ d.styles # {}
  BY CatalogueAssumption DEF ModelRecord
<1> HIDE DEF d
<1>2. Preferred(modes, d.timestamps, "none") \in d.timestamps
  <2>1. DOMAIN modes = 1..3 /\ \E i \in DOMAIN modes : modes[i] \in d.timestamps
    <3>1. PICK v \in d.timestamps : v \in Modes
      BY <1>1
    <3>2. DOMAIN modes = 1..3 /\ modes[1] = "segment" /\ modes[2] = "word" /\ modes[3] = "none"
      OBVIOUS
    <3> QED BY <3>1, <3>2 DEF Modes
  <2> HIDE DEF modes
  <2> QED BY <2>1, PreferredIsMember
<1>3. Preferred(styles, d.styles, "verbatim") \in d.styles
  <2>1. DOMAIN styles = 1..2 /\ \E i \in DOMAIN styles : styles[i] \in d.styles
    <3>1. PICK v \in d.styles : v \in Styles
      BY <1>1
    <3>2. DOMAIN styles = 1..2 /\ styles[1] = "clean" /\ styles[2] = "verbatim"
      OBVIOUS
    <3> QED BY <3>1, <3>2 DEF Styles
  <2> HIDE DEF styles
  <2> QED BY <2>1, PreferredIsMember
<1> QED BY <1>2, <1>3 DEF Resolve, d

\* What a strict request is routed to lacks nothing it asked for.
LEMMA StrictLacksNothing ==
  ASSUME NEW dep, NEW req, req.strict, RouteError(dep, req) = "none",
         NEW m \in Candidates(dep, req)
  PROVE  Missing(req, m) = {}
<1>1. m \in Offered(dep, req)
  BY DEF Candidates, Firsts
<1>2. m \in Compatible(dep, req) \/ m \in Explicit(dep, req)
  BY <1>1 DEF Offered
<1>3. \A n \in Explicit(dep, req) : Missing(req, n) = {}
  BY DEF RouteError
<1> QED BY <1>2, <1>3 DEF Compatible
=============================================================================

------------------------- MODULE ResultStoreProofs -------------------------
(***************************************************************************)
(* What the result stores promise, for any transcripts, clients, sizes of  *)
(* pieces and lifetimes, and that they implement Retention.                *)
(*                                                                         *)
(* The invariant says what a request may rely on between two calls of the  *)
(* S3 client, whatever the others did meanwhile: an object that was read   *)
(* is the one that is there or there is none, because no identifier is     *)
(* ever put twice; one that was found live was live while the request was  *)
(* open.  The sizes play a part only in that a piece is never empty.       *)
(***************************************************************************)
EXTENDS ResultStore, WellFoundedInduction, SequenceTheorems, TLAPS

-----------------------------------------------------------------------------
(***************************************************************************)
(* Where a piece ends.                                                     *)
(***************************************************************************)
\* The order of the positions, in which every nonempty set has a least one.
Below == {p \in Nat \X Nat : p[1] < p[2]}

LEMMA LeastNat ==
  ASSUME NEW S, S \subseteq Nat, S # {}
  PROVE  \E n \in S : \A k \in S : n <= k
<1>1. IsWellFoundedOn(Below, Nat)
  BY NatLessThanWellFounded, Zenon DEF Below, OpToRel
<1>2. PICK n \in S : \A k \in S : <<k, n>> \notin Below
  BY <1>1, WFMin, Zenon
<1>3. \A k \in S : ~(k < n)
  BY <1>2 DEF Below
<1> QED BY <1>3

\* A nonempty set of positions with a bound has a greatest one.
LEMMA MaxIs ==
  ASSUME NEW S, S \subseteq Nat, S # {}, NEW N \in Nat, \A k \in S : k <= N
  PROVE  Max(S) \in S /\ \A k \in S : k <= Max(S)
<1> DEFINE U == {u \in Nat : \A k \in S : k <= u}
<1>1. U \subseteq Nat /\ N \in U
  OBVIOUS
<1>2. PICK m \in U : \A u \in U : m <= u
  <2> HIDE DEF U
  <2> QED BY <1>1, LeastNat
<1>3. m \in Nat /\ \A k \in S : k \in Nat /\ k <= m
  BY <1>2
<1>4. m \in S
  <2>1. SUFFICES ASSUME m \notin S PROVE FALSE
    OBVIOUS
  <2>2. \A k \in S : k # m
    BY <2>1
  <2>3. \A k \in S : k <= m - 1
    BY <1>3, <2>2
  <2>4. PICK k \in S : TRUE
    OBVIOUS
  <2>5. m - 1 \in Nat
    BY <1>3, <2>3, <2>4
  <2>6. m - 1 \in U
    BY <2>3, <2>5
  <2> QED BY <1>2, <1>3, <2>6
<1>5. \A k \in S : m >= k
  BY <1>3
<1> QED BY <1>4, <1>5, <1>3 DEF Max

\* Max and Min of two.
LEMMA MaxOfTwo ==
  ASSUME NEW a \in Nat, NEW b \in Nat
  PROVE  Max({a, b}) = IF a <= b THEN b ELSE a
<1>1. \A k \in {a, b} : k <= (IF a <= b THEN b ELSE a)
  OBVIOUS
<1>2. Max({a, b}) \in {a, b} /\ \A k \in {a, b} : k <= Max({a, b})
  <2> DEFINE S == {a, b}
  <2>1. S \subseteq Nat /\ S # {} /\ (IF a <= b THEN b ELSE a) \in Nat
    OBVIOUS
  <2> QED BY <1>1, <2>1, MaxIs
<1> QED BY <1>2

LEMMA MinOfTwo ==
  ASSUME NEW a \in Nat, NEW b \in Nat
  PROVE  Min({a, b}) = IF a <= b THEN a ELSE b
<1> DEFINE m == IF a <= b THEN a ELSE b
<1>1. m \in {a, b} /\ \A y \in {a, b} : m =< y
  OBVIOUS
<1>2. Min({a, b}) \in {a, b} /\ \A y \in {a, b} : Min({a, b}) =< y
  BY <1>1, Zenon DEF Min
<1> QED BY <1>2

\* The first segment of a sum is that segment.
LEMMA TotalOfOne ==
  ASSUME NEW sizes \in Seq(Nat \ {0}), NEW from \in Nat, from < Len(sizes)
  PROVE  Total(sizes, from, from + 1) = sizes[from + 1]
<1> DEFINE f == [i \in from..(from + 1) |-> IF i = from THEN 0 ELSE sizes[i]]
           Sums(g) == g = [i \in from..(from + 1) |->
                             IF i = from THEN 0 ELSE g[i - 1] + sizes[i]]
<1>1. sizes[from + 1] \in Nat
  OBVIOUS
<1>2. from..(from + 1) = {from, from + 1}
  OBVIOUS
<1>3. f[from] = 0 /\ f[from + 1] = sizes[from + 1]
  BY <1>2
<1>4. Sums(f)
  <2>1. \A i \in {from, from + 1} :
          f[i] = IF i = from THEN 0 ELSE f[i - 1] + sizes[i]
    BY <1>1, <1>3
  <2> QED BY <1>2, <2>1
<1>5. Total(sizes, from, from + 1) = (CHOOSE g : Sums(g))[from + 1]
  BY DEF Total
<1>6. Sums(CHOOSE g : Sums(g))
  <2> HIDE DEF Sums, f
  <2> QED BY <1>4, Zenon
<1> DEFINE c == CHOOSE g : Sums(g)
<1>7. c = [i \in from..(from + 1) |-> IF i = from THEN 0 ELSE c[i - 1] + sizes[i]]
  BY <1>6
<1>8. c[from] = 0 /\ c[from + 1] = c[from] + sizes[from + 1]
  <2> HIDE DEF c
  <2> QED BY <1>2, <1>7
<1> QED BY <1>1, <1>5, <1>8

\* A piece ends where it starts or further on, and not past the transcript.
LEMMA EndIsWithin ==
  ASSUME NEW t \in Transcript, NEW format \in Formats, NEW room \in Nat,
         NEW from \in Nat, from <= Items(t, format)
  PROVE  End(t, format, from, room) \in from..Items(t, format)
<1>1. t.chars \in Nat /\ t.sizes \in Seq(Nat \ {0})
  BY DEF Transcript
<1>2. CASE format = "text"
  <2>1. Min({t.chars, from + room}) = IF t.chars <= from + room THEN t.chars ELSE from + room
    BY <1>1, MinOfTwo
  <2>2. Min({t.chars, from + room}) \in Nat
    BY <1>1, <2>1
  <2>3. TextEnd(t, from, room) = IF from <= Min({t.chars, from + room})
                                 THEN Min({t.chars, from + room}) ELSE from
    BY <2>2, MaxOfTwo DEF TextEnd
  <2> QED BY <1>1, <1>2, <2>1, <2>3 DEF End, Items
<1>3. CASE format # "text"
  <2> DEFINE S == {from} \union
                    {to \in from..Len(t.sizes) : Total(t.sizes, from, to) <= room}
  <2>1. from <= Len(t.sizes) /\ Len(t.sizes) \in Nat
    BY <1>1, <1>3 DEF Items
  <2>2. S \subseteq Nat /\ S # {} /\ S \subseteq from..Len(t.sizes)
        /\ \A k \in S : k <= Len(t.sizes)
    BY <2>1
  <2>3. Max(S) \in S
    <3> HIDE DEF S
    <3> QED BY <2>1, <2>2, MaxIs
  <2>4. End(t, format, from, room) = Max(S)
    BY <1>3 DEF End, SegmentsEnd
  <2> QED BY <1>3, <2>2, <2>3, <2>4 DEF Items
<1> QED BY <1>2, <1>3

\* A piece that is not refused and not the last has something in it.
LEMMA EndAdvances ==
  ASSUME NEW t \in Transcript, NEW format \in Formats, NEW room \in Nat \ {0},
         NEW from \in Nat, from <= Items(t, format),
         ~(format = "segments" /\ Oversized(t, from, room)),
         End(t, format, from, room) < Items(t, format)
  PROVE  End(t, format, from, room) > from
<1>1. t.chars \in Nat /\ t.sizes \in Seq(Nat \ {0})
  BY DEF Transcript
<1>2. CASE format = "text"
  <2>1. Min({t.chars, from + room}) = IF t.chars <= from + room THEN t.chars ELSE from + room
    BY <1>1, MinOfTwo
  <2>2. Min({t.chars, from + room}) \in Nat
    BY <1>1, <2>1
  <2>3. TextEnd(t, from, room) = IF from <= Min({t.chars, from + room})
                                 THEN Min({t.chars, from + room}) ELSE from
    BY <2>2, MaxOfTwo DEF TextEnd
  <2> QED BY <1>1, <1>2, <2>1, <2>3 DEF End, Items
<1>3. CASE format = "segments"
  <2> DEFINE S == {from} \union
                    {to \in from..Len(t.sizes) : Total(t.sizes, from, to) <= room}
  <2>1. from <= Len(t.sizes) /\ Len(t.sizes) \in Nat
    BY <1>1, <1>3 DEF Items
  <2>2. S \subseteq Nat /\ S # {} /\ S \subseteq from..Len(t.sizes)
        /\ \A k \in S : k <= Len(t.sizes)
    BY <2>1
  <2>3. Max(S) \in S /\ \A k \in S : k <= Max(S)
    <3> HIDE DEF S
    <3> QED BY <2>1, <2>2, MaxIs
  <2>4. End(t, format, from, room) = Max(S)
    BY <1>3 DEF End, SegmentsEnd
  <2>5. Max(S) < Len(t.sizes) /\ Max(S) \in Nat
    BY <1>3, <2>2, <2>3, <2>4 DEF Items
  <2>6. from < Len(t.sizes)
    BY <2>1, <2>2, <2>3, <2>5
  <2>7. t.sizes[from + 1] <= room
    BY <1>1, <1>3, <2>6 DEF Oversized
  <2>8. Total(t.sizes, from, from + 1) <= room
    BY <1>1, <2>6, <2>7, TotalOfOne
  <2>9. from + 1 \in S
    BY <2>1, <2>6, <2>8
  <2> HIDE DEF S
  <2> QED BY <2>3, <2>4, <2>5, <2>9
<1> QED BY <1>2, <1>3 DEF Formats

-----------------------------------------------------------------------------
(***************************************************************************)
(* The invariant.                                                          *)
(***************************************************************************)
\* A request in flight, and what it may rely on.
CallOK(c, k, st, now, b, sn) ==
  /\ k.ask.cursor = NoCursor \/ k.ask.cursor = b.next \/ ~k.ask.cursor.signed
  /\ k.op = "get" => c \in Readers
  /\ k.op = "put" => k.at \in {"start", "put"} /\ st[k.id] = Unborn
  /\ k.at = "put" => k.op = "put"
  /\ k.at \in {"fetch", "check", "drop", "delete"} => st[k.id] # Unborn
  /\ k.at \in {"check", "drop", "delete"} /\ st[k.id].is = "kept" => st[k.id].until = k.until
  /\ k.at = "drop" => k.until <= now
  /\ k.at = "delete" => k.op = "delete"
  /\ k.at = "check" /\ k.heard /\ now < k.until => "kept" \in sn

Puts(k) == k.at # "idle" /\ k.op = "put"

CallsOK(calls, st, now, books, sns) ==
  /\ \A c \in Clients : calls[c].at # "idle" => CallOK(c, calls[c], st, now, books[c], sns[c])
  /\ \A c, d \in Clients :
       c # d /\ Puts(calls[c]) /\ Puts(calls[d]) => calls[c].id # calls[d].id

\* What a reader has is a beginning of the transcript, and its cursor is signed for the rest.
BookOK(b) ==
  LET n == Items(Content[b.id], b.format)
  IN  /\ b.got = Upto(Len(b.got)) /\ Len(b.got) <= n
      /\ b.done => Len(b.got) = n
      /\ b.next # NoCursor =>
           b.next = [id |-> b.id, format |-> b.format, index |-> Len(b.got), signed |-> TRUE]

Stages == {"unborn", "kept", "gone"}

StoredOK(st) ==
  /\ st \in [Ids -> Slot]
  /\ \A id \in Ids : st[id].until <= Horizon + TTL

CallsTyped(calls) ==
  /\ calls \in [Clients -> Call]
  /\ \A c \in Clients : calls[c].until <= Horizon + TTL

BooksOK(books) ==
  /\ books \in [Clients -> Book]
  /\ \A c \in Readers : BookOK(books[c])

Inv ==
  /\ backend \in Backends /\ clock \in 0..Horizon
  /\ StoredOK(stored) /\ CallsTyped(call) /\ BooksOK(book)
  /\ said \in {<<>>} \union (Clients \X Replies)
  /\ seen \in [Clients -> SUBSET Stages]
  /\ CallsOK(call, stored, clock, book, seen)

-----------------------------------------------------------------------------
(***************************************************************************)
(* What a reader puts together.                                            *)
(***************************************************************************)
\* What the stores are given.
LEMMA ConstantsAre ==
  /\ Content \in [Ids -> Transcript] /\ Readers \subseteq Clients
  /\ Ids \subseteq STRING /\ NoId \in Ids
  /\ TTL \in Nat \ {0} /\ Horizon \in Nat /\ NoCursor \notin Cursor
BY StoreAssumption, ChunksAssumption DEF NoId

\* No request.
LEMMA IdleIs ==
  /\ Idle \in Call /\ Idle.at = "idle" /\ Idle.until = 0 /\ Idle.heard = TRUE
  /\ Idle.ask = NoAsk /\ NoAsk.cursor = NoCursor
  /\ Idle.until <= Horizon + TTL
BY ConstantsAre DEF Idle, Call, NoAsk, Points, Formats

\* A transcript has so many characters or segments.
LEMMA ItemsAre ==
  ASSUME NEW id \in Ids, NEW format \in Formats
  PROVE  Items(Content[id], format) \in Nat
BY ConstantsAre DEF Transcript, Items

\* A beginning, and what comes after it.
LEMMA UptoJoins ==
  ASSUME NEW n \in Nat, NEW m \in Nat, NEW s \in Seq(Nat), s = Upto(n),
         NEW t, t = [i \in 1..m |-> n + i]
  PROVE  /\ s \o t = Upto(n + m) /\ Len(s \o t) = n + m
<1>1. t \in Seq(Nat) /\ Len(t) = m /\ Len(s) = n
  BY DEF Upto
<1>2. s \o t \in Seq(Nat) /\ Len(s \o t) = n + m
  BY <1>1
<1>3. \A i \in 1..(n + m) : (s \o t)[i] = i
  BY <1>1 DEF Upto
<1> QED BY <1>2, <1>3 DEF Upto

\* A beginning has its length.
LEMMA UptoIs ==
  ASSUME NEW n \in Nat
  PROVE  Upto(n) \in Seq(Nat) /\ Len(Upto(n)) = n
BY DEF Upto

\* The piece that is not refused is the next of what the reader has, or the first.
LEMMA PieceJoins ==
  ASSUME Inv, NEW c \in Readers, NEW id \in Ids,
         NEW ask \in [format: Formats \union {"other"}, room: Nat,
                      cursor: Cursor \union {NoCursor}],
         ask.cursor = NoCursor \/ ask.cursor = book[c].next \/ ~ask.cursor.signed,
         ~Refuses(Content[id], id, ask)
  PROVE  LET b == Joined(c, id, ask, Piece(Content[id], id, ask))
         IN  /\ b \in Book /\ BookOK(b)
             /\ ~b.done => b.next \in Cursor /\ b.next.index > Start(ask.cursor)
<1> DEFINE t == Content[id]
           n == Items(t, ask.format)
           from == Start(ask.cursor)
           to == End(t, ask.format, from, ask.room)
           b == Joined(c, id, ask, Piece(t, id, ask))
<1>1. /\ c \in Clients /\ book[c] \in Book /\ BookOK(book[c])
      /\ t \in Transcript /\ id \in STRING
  BY ConstantsAre DEF Inv, BooksOK
<1>2. /\ ask.format \in Formats /\ ask.room \in Nat \ {0}
      /\ Belongs(ask.cursor, id, ask.format)
      /\ ~(ask.format = "segments" /\ Oversized(t, from, ask.room))
  BY ChunksAssumption DEF Refuses
<1>3. n \in Nat
  BY <1>2, ItemsAre
<1> DEFINE goesOn == ask.cursor # NoCursor /\ ask.cursor = book[c].next
                       /\ book[c].id = id /\ book[c].format = ask.format
<1>6. /\ from \in Nat /\ from <= n
      /\ goesOn => from = Len(book[c].got) /\ book[c].got = Upto(from)
      /\ ~goesOn => from = 0
  <2>1. CASE ask.cursor = NoCursor
    BY <2>1, <1>3 DEF Start
  <2>2. CASE ask.cursor # NoCursor
    <3>1. ask.cursor.signed /\ ask.cursor.id = id /\ ask.cursor.format = ask.format
      BY <1>2, <2>2 DEF Belongs, Decodes
    <3>2. ask.cursor = book[c].next
      BY <2>2, <3>1
    <3>3. ask.cursor = [id |-> book[c].id, format |-> book[c].format,
                        index |-> Len(book[c].got), signed |-> TRUE]
      BY <1>1, <2>2, <3>2 DEF BookOK
    <3>4. goesOn /\ from = Len(book[c].got)
      BY <2>2, <3>1, <3>2, <3>3 DEF Start
    <3>5. Len(book[c].got) \in Nat /\ Len(book[c].got) <= n /\ book[c].got = Upto(Len(book[c].got))
      BY <1>1, <3>4 DEF BookOK, Book
    <3> QED BY <3>4, <3>5
  <2> QED BY <2>1, <2>2
<1>7. to \in from..n
  BY <1>1, <1>2, <1>6, EndIsWithin
<1>8. to < n => to > from
  BY <1>1, <1>2, <1>6, <1>7, EndAdvances
<1> DEFINE items == [i \in 1..(to - from) |-> from + i]
           done == to >= n
           next == IF done THEN NoCursor ELSE Encode(id, ask.format, to)
<1>9. /\ Piece(t, id, ask).items = items /\ Piece(t, id, ask).done = done
      /\ Piece(t, id, ask).next = next
  BY DEF Piece
<1>10. b = [id |-> id, format |-> ask.format, next |-> next, done |-> done,
            got |-> IF goesOn THEN book[c].got \o items ELSE items]
  BY <1>9 DEF Joined
<1> DEFINE got == IF goesOn THEN book[c].got \o items ELSE items
<1>11. got = Upto(to) /\ got \in Seq(Nat) /\ Len(got) = to /\ to \in Nat
  <2>1. to - from \in Nat /\ to \in Nat /\ from + (to - from) = to
    BY <1>6, <1>7
  <2>2. CASE goesOn
    <3>1. book[c].got \in Seq(Nat)
      BY <1>1 DEF Book
    <3> DEFINE m == to - from
    <3>2. book[c].got \o items = Upto(from + m) /\ Len(book[c].got \o items) = from + m
      <4>1. m \in Nat /\ from \in Nat /\ items = [i \in 1..m |-> from + i]
        BY <1>6, <2>1
      <4>2. book[c].got = Upto(from)
        BY <1>6, <2>2
      <4> HIDE DEF from, to, m, items, goesOn
      <4> QED BY <3>1, <4>1, <4>2, UptoJoins
    <3> HIDE DEF from, to, items, goesOn
    <3> QED BY <2>1, <2>2, <3>2, UptoIs
  <2>3. CASE ~goesOn
    <3>1. from = 0
      BY <1>6, <2>3
    <3>2. items = Upto(to)
      <4> HIDE DEF to, from
      <4> QED BY <2>1, <3>1 DEF Upto
    <3> HIDE DEF to, items, goesOn
    <3> QED BY <2>1, <2>3, <3>2, UptoIs
  <2> QED BY <2>2, <2>3
<1>12. next \in Cursor \union {NoCursor} /\ (~done => next \in Cursor /\ next.index = to)
  BY <1>1, <1>2, <1>11, ConstantsAre DEF Encode, Cursor
<1>13. b.id = id /\ b.format = ask.format /\ b.next = next /\ b.done = done /\ b.got = got
  BY <1>10
<1>14. b \in Book
  <2> HIDE DEF got, next, done
  <2>1. done \in BOOLEAN
    BY DEF done
  <2> QED BY <1>2, <1>10, <1>11, <1>12, <2>1 DEF Book, got
<1>15. BookOK(b)
  <2>1. done => to = n
    BY <1>3, <1>7
  <2>2. next # NoCursor => next = [id |-> id, format |-> ask.format, index |-> to, signed |-> TRUE]
    BY DEF Encode
  <2> HIDE DEF b, got, next, done, to
  <2> QED BY <1>3, <1>7, <1>11, <1>13, <2>1, <2>2 DEF BookOK
<1>16. ~b.done => b.next \in Cursor /\ b.next.index > from
  <2>1. ~done => to < n
    BY <1>3, <1>7
  <2> HIDE DEF b, got, next, done, to, from
  <2> QED BY <1>8, <1>12, <1>13, <2>1
<1> QED BY <1>14, <1>15, <1>16

-----------------------------------------------------------------------------
(***************************************************************************)
(* A step of a client.                                                     *)
(***************************************************************************)
\* Where a transcript stands in a given store at a given time.
Stand(st, now, id) == IF st[id].is = "kept" /\ st[id].until <= now THEN "gone" ELSE st[id].is

\* What a client's step may do to the store.
Moves(c) ==
  \A id \in Ids :
    \/ stored'[id] = stored[id]
    \/ stored[id].is = "kept" /\ stored'[id] = Gone
    \/ /\ stored[id] = Unborn /\ stored'[id].is = "kept"
       /\ Puts(call[c]) /\ call[c].id = id

\* What it may say: nothing, or an honest answer to a client that waits for it.
Told(c, k) ==
  \/ /\ said' = <<>>
     /\ Open(c) /\ k.at # "idle" /\ k.heard => k.op = call[c].op /\ k.id = call[c].id
  \/ \E r \in Replies :
       LET now == Stand(stored', clock', call[c].id)
       IN  /\ said' = <<c, r>> /\ Open(c) /\ k = Idle
           /\ Promise!Honest(call[c].op, r, seen[c] \union {now}, now)

\* A step of a client, whose request is k afterwards.
ClientStep(c, k) ==
  /\ call' = [call EXCEPT ![c] = k] /\ k \in Call /\ k.until <= Horizon + TTL
  /\ k.at # "idle" => CallOK(c, k, stored', clock', book'[c], seen'[c])
  /\ Puts(k) => \/ Puts(call[c]) /\ k.id = call[c].id
                \/ \A d \in Clients : Puts(call[d]) => call[d].id # k.id
  /\ backend' = backend /\ clock' = clock
  /\ StoredOK(stored') /\ Moves(c)
  /\ BooksOK(book') /\ \A d \in Clients \ {c} : book'[d] = book[d]
  /\ Told(c, k)

\* A request that is open has seen where its transcript stands.
LEMMA ObserveIs ==
  ASSUME Inv, Observe, NEW c \in Clients, NEW k, call'[c] = k, k.at # "idle", k.heard
  PROVE  Stand(stored', clock', k.id) \in seen'[c] /\ (Open(c) => seen[c] \subseteq seen'[c])
<1>1. seen'[c] = IF ~Open(c)' THEN {}
                 ELSE (IF Open(c) THEN seen[c] ELSE {}) \union {Stage(c)'}
  BY DEF Observe
<1>2. Open(c)'
  BY DEF Open
<1>3. Stage(c)' = Stand(stored', clock', k.id)
  BY DEF Stage, Shelf, Expired, Stand
<1> QED BY <1>1, <1>2, <1>3

\* Stages are seen, whatever step is taken.
LEMMA SeenTyped ==
  ASSUME Inv, Observe, StoredOK(stored'), CallsTyped(call')
  PROVE  seen' \in [Clients -> SUBSET Stages]
<1>1. \A c \in Clients : Stage(c)' \in Stages
  BY DEF Stage, Shelf, StoredOK, CallsTyped, Call, Slot, Stages
<1>2. \A c \in Clients : (IF ~Open(c)' THEN {}
                 ELSE (IF Open(c) THEN seen[c] ELSE {}) \union {Stage(c)'}) \in SUBSET Stages
  BY <1>1 DEF Inv
<1> QED BY <1>2 DEF Observe

\* What another client relies on stays.
LEMMA OthersKeep ==
  ASSUME Inv, Observe, NEW c \in Clients, NEW k, ClientStep(c, k),
         NEW d \in Clients, d # c, call[d].at # "idle"
  PROVE  CallOK(d, call'[d], stored', clock', book'[d], seen'[d])
<1>1. CallOK(d, call[d], stored, clock, book[d], seen[d])
  BY DEF Inv, CallsOK
<1>2. call'[d] = call[d] /\ book'[d] = book[d] /\ clock' = clock
  BY DEF ClientStep, Inv, CallsTyped
<1>3. call[d] \in Call /\ call[d].id \in Ids
  BY DEF Inv, CallsTyped, Call
<1>4. call[d].op = "put" => stored'[call[d].id] = Unborn
  <2>1. SUFFICES ASSUME call[d].op = "put" PROVE stored'[call[d].id] = Unborn
    OBVIOUS
  <2>2. stored[call[d].id] = Unborn
    BY <1>1, <2>1 DEF CallOK
  <2>3. ~(Puts(call[c]) /\ call[c].id = call[d].id)
    BY <2>1 DEF Inv, CallsOK, Puts
  <2> QED BY <1>3, <2>2, <2>3 DEF ClientStep, Moves, Unborn
<1>5. stored[call[d].id] # Unborn => stored'[call[d].id] # Unborn
                                      /\ (stored'[call[d].id].is = "kept" =>
                                            stored'[call[d].id] = stored[call[d].id])
  BY <1>3 DEF ClientStep, Moves, Unborn, Gone
<1>6. call[d].at = "check" /\ call[d].heard => seen[d] \subseteq seen'[d]
  BY <1>2, ObserveIs DEF Open
<1> QED BY <1>1, <1>2, <1>4, <1>5, <1>6 DEF CallOK

\* A step of a client keeps the invariant.
LEMMA ClientStepKeeps ==
  ASSUME Inv, Observe, NEW c \in Clients, NEW k, ClientStep(c, k)
  PROVE  Inv'
<1>1. CallsTyped(call')
  BY DEF ClientStep, Inv, CallsTyped
<1>2. \A d \in Clients : call'[d] = IF d = c THEN k ELSE call[d]
  BY DEF ClientStep, Inv, CallsTyped
<1>3. seen' \in [Clients -> SUBSET Stages]
  BY <1>1, SeenTyped DEF ClientStep
<1>4. \A d \in Clients : call'[d].at # "idle" =>
        CallOK(d, call'[d], stored', clock', book'[d], seen'[d])
  <2>1. SUFFICES ASSUME NEW d \in Clients, call'[d].at # "idle"
                 PROVE  CallOK(d, call'[d], stored', clock', book'[d], seen'[d])
    OBVIOUS
  <2>2. CASE d = c
    BY <1>2, <2>1, <2>2 DEF ClientStep
  <2>3. CASE d # c
    <3>1. call[d].at # "idle"
      BY <1>2, <2>1, <2>3
    <3> QED BY <2>3, <3>1, OthersKeep
  <2> QED BY <2>2, <2>3
<1>5. \A d, e \in Clients :
        d # e /\ Puts(call'[d]) /\ Puts(call'[e]) => call'[d].id # call'[e].id
  <2>1. SUFFICES ASSUME NEW d \in Clients, NEW e \in Clients, d # e,
                        Puts(call'[d]), Puts(call'[e])
                 PROVE  call'[d].id # call'[e].id
    OBVIOUS
  <2>2. \A x, y \in Clients : x # y /\ Puts(call[x]) /\ Puts(call[y]) => call[x].id # call[y].id
    BY DEF Inv, CallsOK
  <2>3. \A x \in Clients \ {c} : Puts(k) /\ Puts(call[x]) => k.id # call[x].id
    BY <2>2 DEF ClientStep
  <2>4. CASE d = c
    <3>1. call'[d] = k /\ call'[e] = call[e]
      BY <1>2, <2>1, <2>4
    <3> QED BY <2>1, <2>3, <2>4, <3>1
  <2>5. CASE e = c
    <3>1. call'[e] = k /\ call'[d] = call[d]
      BY <1>2, <2>1, <2>5
    <3> QED BY <2>1, <2>3, <2>5, <3>1
  <2>6. CASE d # c /\ e # c
    <3>1. call'[e] = call[e] /\ call'[d] = call[d]
      BY <1>2, <2>6
    <3> QED BY <2>1, <2>2, <3>1
  <2> QED BY <2>4, <2>5, <2>6
<1>6. said' \in {<<>>} \union (Clients \X Replies)
  BY DEF ClientStep, Told
<1>7. CallsOK(call', stored', clock', book', seen')
  BY <1>4, <1>5 DEF CallsOK
<1> QED BY <1>1, <1>3, <1>6, <1>7 DEF ClientStep, Inv

-----------------------------------------------------------------------------
(***************************************************************************)
(* The two ends of a step: an answer, and a request that goes on.          *)
(***************************************************************************)
Same(c) ==
  /\ backend' = backend /\ clock' = clock
  /\ \A d \in Clients \ {c} : book'[d] = book[d]

\* An answer ends a request.
LEMMA Answered ==
  ASSUME Inv, NEW c \in Clients, call[c].at # "idle", NEW r \in Replies, Reply(c, r),
         Same(c), StoredOK(stored'), Moves(c), BooksOK(book'),
         call[c].heard =>
           LET now == Stand(stored', clock', call[c].id)
           IN  Promise!Honest(call[c].op, r, seen[c] \union {now}, now)
  PROVE  ClientStep(c, Idle)
<1>1. Told(c, Idle)
  <2>1. CASE call[c].heard
    BY <2>1 DEF Reply, Told, Open
  <2>2. CASE ~call[c].heard
    BY <2>2 DEF Reply, Told, Open
  <2> QED BY <2>1, <2>2
<1> QED BY <1>1, IdleIs DEF ClientStep, Reply, Same, Puts

\* A request that goes on.
LEMMA GoesOn ==
  ASSUME Inv, Observe, NEW c \in Clients, call[c].at # "idle", NEW k \in Call,
         k.until <= Horizon + TTL, k.op = call[c].op, k.id = call[c].id,
         call' = [call EXCEPT ![c] = k], said' = <<>>, UNCHANGED <<backend, clock, stored, book>>,
         CallOK(c, k, stored, clock, book[c], seen'[c])
  PROVE  ClientStep(c, k)
<1>1. StoredOK(stored') /\ Moves(c) /\ BooksOK(book')
  BY DEF Inv, Moves
<1> QED BY <1>1 DEF ClientStep, Told, Puts

-----------------------------------------------------------------------------
(***************************************************************************)
(* Requests, and what they do to the store.                                *)
(***************************************************************************)
\* A request that is asked: the reader is one, and its cursor is its own or unsigned.
LEMMA Asks ==
  ASSUME Inv, Observe, NEW c \in Clients, AskPut(c) \/ AskGet(c) \/ AskDelete(c)
  PROVE  \E k \in Call : ClientStep(c, k)
<1>1. CASE AskPut(c)
  <2>1. PICK id \in Ids :
          /\ stored[id] = Unborn
          /\ \A d \in Clients : ~(call[d].at # "idle" /\ call[d].op = "put" /\ call[d].id = id)
          /\ Ask(c, "put", id, NoAsk)
    BY <1>1 DEF AskPut
  <2> DEFINE k == [Idle EXCEPT !.op = "put", !.id = id, !.at = "start", !.ask = NoAsk]
  <2>2. /\ k \in Call /\ k.op = "put" /\ k.id = id /\ k.at = "start" /\ k.until = 0
        /\ k.ask = NoAsk /\ k.until <= Horizon + TTL
    BY IdleIs, ConstantsAre DEF Call, Points
  <2>3. call' = [call EXCEPT ![c] = k] /\ said' = <<>> /\ call[c].at = "idle"
        /\ UNCHANGED <<backend, clock, stored, book>>
    BY <2>1 DEF Ask
  <2> HIDE DEF k
  <2>4. CallOK(c, k, stored', clock', book'[c], seen'[c])
    BY <2>1, <2>2, <2>3, IdleIs DEF CallOK
  <2>5. StoredOK(stored') /\ Moves(c) /\ BooksOK(book')
    BY <2>3 DEF Inv, Moves
  <2>6. Told(c, k)
    BY <2>3 DEF Told, Open
  <2>7. \A d \in Clients : Puts(call[d]) => call[d].id # k.id
    BY <2>1, <2>2 DEF Puts
  <2>8. ClientStep(c, k)
    BY <2>2, <2>3, <2>4, <2>5, <2>6, <2>7 DEF ClientStep
  <2> QED BY <2>2, <2>8
<1>2. CASE AskGet(c)
  <2>1. PICK id \in Ids, a \in Asked :
          \E cur \in {NoCursor, book[c].next}
                     \union {[x EXCEPT !.signed = FALSE, !.index = 1] :
                               x \in {book[c].next} \ {NoCursor}} :
            Ask(c, "get", id, [format |-> a.format, room |-> a.room, cursor |-> cur])
    BY <1>2 DEF AskGet
  <2>2. PICK cur \in {NoCursor, book[c].next}
                     \union {[x EXCEPT !.signed = FALSE, !.index = 1] :
                               x \in {book[c].next} \ {NoCursor}} :
            Ask(c, "get", id, [format |-> a.format, room |-> a.room, cursor |-> cur])
    BY <2>1
  <2>3. book[c].next \in Cursor \union {NoCursor} /\ c \in Readers
    BY <1>2 DEF Inv, BooksOK, Book, AskGet
  <2>4. /\ cur \in Cursor \union {NoCursor}
        /\ cur = NoCursor \/ cur = book[c].next \/ ~cur.signed
    <3>1. CASE cur \in {NoCursor, book[c].next}
      BY <2>3, <3>1
    <3>2. CASE cur \in {[x EXCEPT !.signed = FALSE, !.index = 1] :
                          x \in {book[c].next} \ {NoCursor}}
      <4>1. PICK x \in {book[c].next} \ {NoCursor} : cur = [x EXCEPT !.signed = FALSE, !.index = 1]
        BY <3>2
      <4>2. x \in Cursor
        BY <2>3, <4>1
      <4>3. cur \in Cursor /\ cur.signed = FALSE
        BY <4>1, <4>2 DEF Cursor
      <4> QED BY <4>3
    <3> QED BY <3>1, <3>2
  <2> DEFINE ask == [format |-> a.format, room |-> a.room, cursor |-> cur]
             k == [Idle EXCEPT !.op = "get", !.id = id, !.at = "start", !.ask = ask]
  <2>5. ask \in [format: Formats \union {"other"}, room: Nat, cursor: Cursor \union {NoCursor}]
        /\ ask.cursor = cur
    BY <2>4, StoreAssumption
  <2>6. call' = [call EXCEPT ![c] = k] /\ said' = <<>> /\ call[c].at = "idle"
        /\ UNCHANGED <<backend, clock, stored, book>>
    BY <2>2 DEF Ask
  <2> HIDE DEF ask
  <2>7. /\ k \in Call /\ k.op = "get" /\ k.id = id /\ k.at = "start" /\ k.until = 0
        /\ k.ask = ask /\ k.until <= Horizon + TTL
    BY <2>5, IdleIs, ConstantsAre DEF Call, Points
  <2> HIDE DEF k
  <2>8. CallOK(c, k, stored', clock', book'[c], seen'[c])
    BY <2>3, <2>4, <2>5, <2>6, <2>7 DEF CallOK
  <2>9. StoredOK(stored') /\ Moves(c) /\ BooksOK(book')
    BY <2>6 DEF Inv, Moves
  <2>10. Told(c, k)
    BY <2>6 DEF Told, Open
  <2>11. ClientStep(c, k)
    BY <2>6, <2>7, <2>8, <2>9, <2>10 DEF ClientStep, Puts
  <2> QED BY <2>7, <2>11
<1>3. CASE AskDelete(c)
  <2>1. PICK id \in Ids : Ask(c, "delete", id, NoAsk)
    BY <1>3 DEF AskDelete
  <2> DEFINE k == [Idle EXCEPT !.op = "delete", !.id = id, !.at = "start", !.ask = NoAsk]
  <2>2. /\ k \in Call /\ k.op = "delete" /\ k.id = id /\ k.at = "start" /\ k.until = 0
        /\ k.ask = NoAsk /\ k.until <= Horizon + TTL
    BY IdleIs, ConstantsAre DEF Call, Points
  <2>3. call' = [call EXCEPT ![c] = k] /\ said' = <<>> /\ call[c].at = "idle"
        /\ UNCHANGED <<backend, clock, stored, book>>
    BY <2>1 DEF Ask
  <2> HIDE DEF k
  <2>4. CallOK(c, k, stored', clock', book'[c], seen'[c])
    BY <2>2, <2>3, IdleIs DEF CallOK
  <2>5. StoredOK(stored') /\ Moves(c) /\ BooksOK(book')
    BY <2>3 DEF Inv, Moves
  <2>6. Told(c, k)
    BY <2>3 DEF Told, Open
  <2>7. ClientStep(c, k)
    BY <2>2, <2>3, <2>4, <2>5, <2>6 DEF ClientStep, Puts
  <2> QED BY <2>2, <2>7
<1> QED BY <1>1, <1>2, <1>3

\* What the invariant says of the request a step is about.
LEMMA CallFacts ==
  ASSUME Inv, NEW c \in Clients, call[c].at # "idle"
  PROVE  /\ call[c] \in Call /\ call[c].id \in Ids /\ call[c].until \in Nat
         /\ call[c].until <= Horizon + TTL
         /\ CallOK(c, call[c], stored, clock, book[c], seen[c])
         /\ stored[call[c].id] \in Slot
         /\ clock \in Nat /\ clock <= Horizon /\ Horizon \in Nat /\ TTL \in Nat
<1>1. call[c] \in Call /\ call[c].until <= Horizon + TTL
  BY DEF Inv, CallsTyped
<1>2. call[c].id \in Ids /\ call[c].until \in Nat
  BY <1>1 DEF Call
<1>3. CallOK(c, call[c], stored, clock, book[c], seen[c])
  BY DEF Inv, CallsOK
<1>4. stored[call[c].id] \in Slot
  BY <1>2 DEF Inv, StoredOK
<1>5. clock \in Nat /\ clock <= Horizon /\ Horizon \in Nat /\ TTL \in Nat
  BY ConstantsAre DEF Inv
<1> QED BY <1>1, <1>2, <1>3, <1>4, <1>5

\* Most steps leave the store alone.
LEMMA StoresKept ==
  ASSUME Inv, NEW c \in Clients, UNCHANGED stored
  PROVE  StoredOK(stored') /\ Moves(c)
BY DEF Inv, Moves

\* What was kept is gone.
LEMMA PoppedIs ==
  ASSUME Inv, NEW c \in Clients, call[c].at # "idle", stored' = Popped(call[c].id)
  PROVE  /\ StoredOK(stored') /\ Moves(c)
         /\ stored'[call[c].id] = IF stored[call[c].id].is = "kept" THEN Gone
                                  ELSE stored[call[c].id]
<1>1. \A id \in Ids : stored'[id] = IF id = call[c].id /\ stored[id].is = "kept" THEN Gone
                                    ELSE stored[id]
  BY DEF Popped, Inv, StoredOK
<1>2. Gone \in Slot /\ Gone.until = 0
  BY DEF Gone, Slot
<1>3. StoredOK(stored')
  <2>1. stored' \in [Ids -> Slot]
    BY <1>2 DEF Popped, Inv, StoredOK
  <2> QED BY <1>1, <1>2, <2>1, ConstantsAre DEF Inv, StoredOK
<1> QED BY <1>1, <1>3, CallFacts DEF Moves

\* A put brings up what was unborn.
LEMMA PutIs ==
  ASSUME Inv, NEW c \in Clients, Puts(call[c]), NEW until \in Nat, until <= Horizon + TTL,
         stored' = [stored EXCEPT ![call[c].id] = Kept(until)]
  PROVE  /\ StoredOK(stored') /\ Moves(c)
         /\ stored'[call[c].id] = Kept(until)
<1>1. \A id \in Ids : stored'[id] = IF id = call[c].id THEN Kept(until) ELSE stored[id]
  BY DEF Inv, StoredOK
<1>2. Kept(until) \in Slot /\ Kept(until).until = until /\ Kept(until).is = "kept"
  BY DEF Kept, Slot
<1>3. StoredOK(stored')
  <2>1. stored' \in [Ids -> Slot]
    BY <1>2 DEF Inv, StoredOK
  <2> QED BY <1>1, <1>2, <2>1 DEF Inv, StoredOK
<1>4. stored[call[c].id] = Unborn /\ call[c].id \in Ids
  BY CallFacts DEF Puts, CallOK
<1> QED BY <1>1, <1>2, <1>3, <1>4 DEF Moves

\* A reader's request that finds its transcript is answered with the next piece.
LEMMA CutIs ==
  ASSUME Inv, NEW c \in Clients, call[c].at # "idle", call[c].op = "get", Cut(c)
  PROVE  /\ BooksOK(book') /\ \A d \in Clients \ {c} : book'[d] = book[d]
         /\ \E r \in {"chunk", "refused"} : Reply(c, r)
         /\ said' = <<c, "chunk">> =>
              book'[c].done \/ book'[c].next.index > Start(call[c].ask.cursor)
<1>1. CASE Refuses(Content[call[c].id], call[c].id, call[c].ask)
  <2>1. Reply(c, "refused") /\ UNCHANGED book
    BY <1>1 DEF Cut
  <2>2. said' # <<c, "chunk">>
    <3>1. said' = <<c, "refused">> \/ said' = <<>>
      BY <2>1 DEF Reply
    <3>2. <<c, "refused">> # <<c, "chunk">> /\ <<>> # <<c, "chunk">>
      OBVIOUS
    <3> QED BY <3>1, <3>2
  <2>3. BooksOK(book')
    BY <2>1 DEF Inv
  <2> QED BY <2>1, <2>2, <2>3
<1>2. CASE ~Refuses(Content[call[c].id], call[c].id, call[c].ask)
  <2> DEFINE b == Joined(c, call[c].id, call[c].ask, Piece(Content[call[c].id], call[c].id, call[c].ask))
  <2>1. /\ c \in Readers /\ call[c].id \in Ids
        /\ call[c].ask \in [format: Formats \union {"other"}, room: Nat,
                            cursor: Cursor \union {NoCursor}]
        /\ \/ call[c].ask.cursor = NoCursor \/ call[c].ask.cursor = book[c].next
           \/ ~call[c].ask.cursor.signed
    BY CallFacts DEF CallOK, Call
  <2>2. b \in Book /\ BookOK(b)
        /\ (~b.done => b.next \in Cursor /\ b.next.index > Start(call[c].ask.cursor))
    BY <1>2, <2>1, PieceJoins
  <2>3. Reply(c, "chunk") /\ book' = [book EXCEPT ![c] = b]
    BY <1>2 DEF Cut
  <2> HIDE DEF b
  <2>4. \A d \in Clients : book'[d] = IF d = c THEN b ELSE book[d]
    BY <2>3 DEF Inv, BooksOK
  <2>5. book' \in [Clients -> Book]
    BY <2>2, <2>3 DEF Inv, BooksOK
  <2>6. BooksOK(book')
    BY <2>2, <2>4, <2>5, ConstantsAre DEF Inv, BooksOK
  <2> QED BY <2>1, <2>2, <2>3, <2>4, <2>6
<1> QED BY <1>1, <1>2

-----------------------------------------------------------------------------
(***************************************************************************)
(* Answers.                                                                *)
(***************************************************************************)
\* Every answer of the memory store is honest.
LEMMA MemoryAnswers ==
  ASSUME Inv, Observe, NEW c \in Clients, Memory(c)
  PROVE  ClientStep(c, Idle)
<1>1. CASE Disabled(c)
  <2>1. call[c].at # "idle" /\ Reply(c, "disabled") /\ UNCHANGED <<backend, clock, stored, book>>
    BY <1>1 DEF Disabled
  <2>2. BooksOK(book') /\ Same(c)
    BY <2>1 DEF Inv, Same
  <2> QED BY <2>1, <2>2, StoresKept, Answered DEF Replies, Promise!Honest
<1>2. CASE MemoryPut(c)
  <2>1. /\ call[c].at = "start" /\ call[c].op = "put" /\ Reply(c, "stored")
        /\ stored' = [stored EXCEPT ![call[c].id] = Kept(clock + TTL)]
        /\ UNCHANGED <<backend, clock, book>>
    BY <1>2 DEF MemoryPut
  <2>2. /\ StoredOK(stored') /\ Moves(c) /\ stored'[call[c].id] = Kept(clock + TTL)
    <3>1. clock + TTL \in Nat /\ clock + TTL <= Horizon + TTL /\ Puts(call[c])
      BY <2>1, CallFacts DEF Puts
    <3> DEFINE until == clock + TTL
    <3>2. stored' = [stored EXCEPT ![call[c].id] = Kept(until)]
      BY <2>1
    <3> HIDE DEF until
    <3>3. until \in Nat /\ until <= Horizon + TTL
      BY <3>1 DEF until
    <3>4. StoredOK(stored') /\ Moves(c) /\ stored'[call[c].id] = Kept(until)
      BY <3>1, <3>2, <3>3, PutIs
    <3> QED BY <3>4 DEF until
  <2>3. Stand(stored', clock', call[c].id) # "unborn"
    BY <2>2 DEF Stand, Kept
  <2>4. BooksOK(book') /\ Same(c)
    BY <2>1 DEF Inv, Same
  <2> QED BY <2>1, <2>2, <2>3, <2>4, Answered DEF Replies, Promise!Honest
<1>3. CASE MemoryGet(c)
  <2>1. call[c].at = "start" /\ call[c].op = "get" /\ UNCHANGED <<backend, clock>>
    BY <1>3 DEF MemoryGet
  <2>2. CASE Shelf(call[c].id) = "kept"
    <3>1. Cut(c) /\ UNCHANGED stored
      BY <1>3, <2>2 DEF MemoryGet
    <3>2. /\ BooksOK(book') /\ \A d \in Clients \ {c} : book'[d] = book[d]
          /\ \E r \in {"chunk", "refused"} : Reply(c, r)
      BY <2>1, <3>1, CutIs
    <3>3. PICK r \in {"chunk", "refused"} : Reply(c, r)
      BY <3>2
    <3>4. Stand(stored', clock', call[c].id) = "kept"
      BY <2>1, <2>2, <3>1 DEF Stand, Shelf, Expired
    <3>5. Promise!Honest(call[c].op, r, seen[c] \union {"kept"}, "kept")
      BY <2>1 DEF Promise!Honest
    <3> QED BY <2>1, <3>1, <3>2, <3>3, <3>4, <3>5, StoresKept, Answered DEF Replies, Same
  <2>3. CASE Shelf(call[c].id) # "kept"
    <3>1. stored' = Popped(call[c].id) /\ Reply(c, "not_found") /\ UNCHANGED book
      BY <1>3, <2>3 DEF MemoryGet
    <3>2. /\ StoredOK(stored') /\ Moves(c)
          /\ stored'[call[c].id] = IF stored[call[c].id].is = "kept" THEN Gone
                                   ELSE stored[call[c].id]
      BY <2>1, <3>1, PoppedIs
    <3>3. Stand(stored', clock', call[c].id) # "kept"
      BY <3>2 DEF Stand, Gone
    <3>4. BooksOK(book') /\ Same(c)
      BY <2>1, <3>1 DEF Inv, Same
    <3> QED BY <2>1, <3>1, <3>2, <3>3, <3>4, Answered DEF Replies, Promise!Honest
  <2> QED BY <2>2, <2>3
<1>4. CASE MemoryDelete(c)
  <2>1. /\ call[c].at = "start" /\ call[c].op = "delete" /\ UNCHANGED <<backend, clock, book>>
        /\ stored' = Popped(call[c].id)
        /\ Reply(c, IF stored[call[c].id].is = "kept" THEN "deleted" ELSE "absent")
    BY <1>4 DEF MemoryDelete
  <2>2. /\ StoredOK(stored') /\ Moves(c)
        /\ stored'[call[c].id] = IF stored[call[c].id].is = "kept" THEN Gone
                                 ELSE stored[call[c].id]
    BY <2>1, PoppedIs
  <2>3. BooksOK(book') /\ Same(c)
    BY <2>1 DEF Inv, Same
  <2>4. CASE stored[call[c].id].is = "kept"
    <3>1. Stand(stored', clock', call[c].id) = "gone"
      BY <2>2, <2>4 DEF Stand, Gone
    <3> QED BY <2>1, <2>2, <2>3, <2>4, <3>1, Answered DEF Replies, Promise!Honest
  <2>5. CASE stored[call[c].id].is # "kept"
    <3>1. Stand(stored', clock', call[c].id) # "kept"
      BY <2>2, <2>5 DEF Stand
    <3> QED BY <2>1, <2>2, <2>3, <2>5, <3>1, Answered DEF Replies, Promise!Honest
  <2> QED BY <2>4, <2>5
<1> QED BY <1>1, <1>2, <1>3, <1>4 DEF Memory

\* An error answers anything.
LEMMA ErrorAnswers ==
  ASSUME Inv, NEW c \in Clients, call[c].at # "idle", Reply(c, "error"),
         UNCHANGED <<backend, clock, book>>, StoredOK(stored'), Moves(c)
  PROVE  ClientStep(c, Idle)
<1>1. BooksOK(book') /\ Same(c)
  BY DEF Inv, Same
<1> QED BY <1>1, Answered DEF Replies, Promise!Honest

\* "Not found" is honest of a transcript that is not there now.
LEMMA MissingAnswers ==
  ASSUME Inv, NEW c \in Clients, call[c].at # "idle", call[c].op \in {"get", "delete"}, Missing(c),
         UNCHANGED <<backend, clock, book>>, StoredOK(stored'), Moves(c),
         Stand(stored', clock', call[c].id) # "kept"
  PROVE  ClientStep(c, Idle)
<1>1. BooksOK(book') /\ Same(c)
  BY DEF Inv, Same
<1>2. CASE call[c].op = "get"
  BY <1>1, <1>2, Answered DEF Missing, Replies, Promise!Honest
<1>3. CASE call[c].op = "delete"
  BY <1>1, <1>3, Answered DEF Missing, Replies, Promise!Honest
<1> QED BY <1>2, <1>3

-----------------------------------------------------------------------------
(***************************************************************************)
(* The bucket, call by call.                                               *)
(***************************************************************************)
\* A request that goes on to a point where it may.
LEMMA GoGoes ==
  ASSUME Inv, Observe, NEW c \in Clients, call[c].at # "idle", NEW at \in Points \ {"idle"},
         Go(c, at), UNCHANGED <<backend, clock, stored, book>>,
         call[c].heard => CallOK(c, [call[c] EXCEPT !.at = at], stored, clock, book[c], seen'[c])
  PROVE  \E k \in Call : ClientStep(c, k)
<1>1. CASE call[c].heard
  <2> DEFINE k == [call[c] EXCEPT !.at = at]
  <2>1. k \in Call /\ k.op = call[c].op /\ k.id = call[c].id /\ k.until = call[c].until
    BY CallFacts DEF Call
  <2>2. call' = [call EXCEPT ![c] = k] /\ said' = <<>>
    BY <1>1 DEF Go
  <2>3. CallOK(c, k, stored, clock, book[c], seen'[c])
    BY <1>1
  <2> HIDE DEF k
  <2>4. ClientStep(c, k)
    BY <2>1, <2>2, <2>3, CallFacts, GoesOn
  <2> QED BY <2>1, <2>4
<1>2. CASE ~call[c].heard
  <2>1. call' = [call EXCEPT ![c] = Idle] /\ said' = <<>>
    BY <1>2 DEF Go
  <2>2. BooksOK(book')
    BY DEF Inv
  <2>3. ClientStep(c, Idle)
    BY <2>1, <2>2, StoresKept, IdleIs DEF ClientStep, Told, Puts
  <2> QED BY <2>3, IdleIs
<1> QED BY <1>1, <1>2

\* put, in its two calls.
LEMMA PutsInTheBucket ==
  ASSUME Inv, Observe, NEW c \in Clients, Stamp(c) \/ Upload(c)
  PROVE  \E k \in Call : ClientStep(c, k)
<1>1. CASE Stamp(c)
  <2> DEFINE k == [call[c] EXCEPT !.at = "put", !.until = clock + TTL]
  <2>1. call[c].at = "start" /\ call[c].op = "put" /\ said' = <<>>
        /\ call' = [call EXCEPT ![c] = k] /\ UNCHANGED <<backend, clock, stored, book>>
    BY <1>1 DEF Stamp, At, Inv, CallsTyped
  <2>2. /\ k \in Call /\ k.op = "put" /\ k.id = call[c].id /\ k.until = clock + TTL
        /\ k.at = "put" /\ k.ask = call[c].ask
    <3>1. clock + TTL \in Nat /\ call[c] \in Call
      BY <2>1, CallFacts
    <3> QED BY <2>1, <3>1 DEF Call, Points
  <2> HIDE DEF k
  <2>3. CallOK(c, k, stored, clock, book[c], seen'[c])
    BY <2>1, <2>2, CallFacts DEF CallOK
  <2>4. k.until <= Horizon + TTL
    BY <2>1, <2>2, CallFacts
  <2>5. ClientStep(c, k)
    BY <2>1, <2>2, <2>3, <2>4, GoesOn
  <2> QED BY <2>2, <2>5
<1>2. CASE Upload(c)
  <2>1. call[c].at = "put" /\ call[c].op = "put" /\ UNCHANGED <<backend, clock, book>>
    BY <1>2, CallFacts DEF Upload, At, CallOK
  <2>2. CASE Reply(c, "error") /\ UNCHANGED stored
    BY <2>1, <2>2, StoresKept, ErrorAnswers, IdleIs
  <2>3. CASE /\ stored' = [stored EXCEPT ![call[c].id] = Kept(call[c].until)]
             /\ \E reply \in {"stored", "error"} : Reply(c, reply)
    <3>1. StoredOK(stored') /\ Moves(c) /\ stored'[call[c].id] = Kept(call[c].until)
      BY <2>1, <2>3, CallFacts, PutIs DEF Puts
    <3>2. Stand(stored', clock', call[c].id) # "unborn"
      BY <3>1 DEF Stand, Kept
    <3>3. CASE Reply(c, "error")
      BY <2>1, <3>1, <3>3, ErrorAnswers, IdleIs
    <3>4. CASE Reply(c, "stored")
      <4>1. BooksOK(book') /\ Same(c)
        BY <2>1 DEF Inv, Same
      <4>2. ClientStep(c, Idle)
        BY <2>1, <3>1, <3>2, <3>4, <4>1, Answered DEF Replies, Promise!Honest
      <4> QED BY <4>2, IdleIs
    <3> QED BY <2>3, <3>3, <3>4
  <2> QED BY <1>2, <2>2, <2>3 DEF Upload
<1> QED BY <1>1, <1>2

\* The listing, the reading of the object, and its check.
LEMMA LooksInTheBucket ==
  ASSUME Inv, Observe, NEW c \in Clients, List(c) \/ Fetch(c) \/ Check(c)
  PROVE  \E k \in Call : ClientStep(c, k)
<1>1. CASE List(c)
  <2>1. call[c].at = "start" /\ call[c].op \in {"get", "delete"}
        /\ UNCHANGED <<backend, clock, stored, book>>
    BY <1>1 DEF List, At
  <2>2. CASE Reply(c, "error")
    BY <2>1, <2>2, StoresKept, ErrorAnswers, IdleIs
  <2>3. CASE stored[call[c].id].is # "kept" /\ Missing(c)
    <3>1. Stand(stored', clock', call[c].id) # "kept"
      BY <2>1, <2>3 DEF Stand
    <3> QED BY <2>1, <2>3, <3>1, StoresKept, MissingAnswers, IdleIs
  <2>4. CASE stored[call[c].id].is = "kept" /\ Go(c, "fetch")
    <3> DEFINE k == [call[c] EXCEPT !.at = "fetch"]
    <3>1. k.at = "fetch" /\ k.op = call[c].op /\ k.id = call[c].id /\ k.ask = call[c].ask
          /\ k.until = call[c].until
      BY CallFacts, <2>1 DEF Call
    <3> HIDE DEF k
    <3>2. CallOK(c, k, stored, clock, book[c], seen'[c])
      BY <2>1, <2>4, <3>1, CallFacts DEF CallOK, Unborn
    <3> QED BY <2>1, <2>4, <3>2, GoGoes DEF k, Points
  <2> QED BY <1>1, <2>2, <2>3, <2>4 DEF List
<1>2. CASE Fetch(c)
  <2>1. call[c].at = "fetch" /\ UNCHANGED <<backend, clock, stored, book>>
    BY <1>2 DEF Fetch, At
  <2>2. CASE Reply(c, "error")
    BY <2>1, <2>2, StoresKept, ErrorAnswers, IdleIs
  <2>3. CASE /\ stored[call[c].id].is = "kept"
             /\ call' = [call EXCEPT ![c].at = "check", ![c].until = stored[call[c].id].until]
             /\ said' = <<>>
    <3> DEFINE k == [call[c] EXCEPT !.at = "check", !.until = stored[call[c].id].until]
    <3>1. stored[call[c].id].until \in Nat /\ stored[call[c].id].until <= Horizon + TTL
      BY <2>1, <2>3, CallFacts DEF Slot, Inv, StoredOK
    <3>2. /\ k \in Call /\ k.op = call[c].op /\ k.id = call[c].id /\ k.at = "check"
          /\ k.ask = call[c].ask /\ k.until = stored[call[c].id].until /\ k.heard = call[c].heard
      BY <2>1, <3>1, CallFacts DEF Call, Points
    <3>3. call' = [call EXCEPT ![c] = k] /\ call'[c] = k
      BY <2>3 DEF Inv, CallsTyped
    <3> HIDE DEF k
    <3>4. k.heard /\ clock < k.until => "kept" \in seen'[c]
      <4>1. SUFFICES ASSUME k.heard, clock < k.until PROVE "kept" \in seen'[c]
        OBVIOUS
      <4>2. Stand(stored', clock', k.id) \in seen'[c]
        BY <3>2, <3>3, <4>1, ObserveIs
      <4>3. Stand(stored', clock', k.id) = "kept"
        BY <2>1, <2>3, <3>1, <3>2, <4>1, CallFacts DEF Stand
      <4> QED BY <4>2, <4>3
    <3>5. CallOK(c, k, stored, clock, book[c], seen'[c])
      BY <2>1, <2>3, <3>2, <3>4, CallFacts DEF CallOK, Unborn
    <3>6. ClientStep(c, k)
      BY <2>1, <2>3, <3>1, <3>2, <3>3, <3>5, GoesOn
    <3> QED BY <3>2, <3>6
  <2> QED BY <1>2, <2>2, <2>3 DEF Fetch
<1>3. CASE Check(c)
  <2>1. call[c].at = "check" /\ UNCHANGED <<backend, clock, stored>>
    BY <1>3 DEF Check, At
  <2>2. ASSUME NEW at \in {"drop", "delete"},
               at = "drop" => Expired(call[c].until),
               at = "delete" => call[c].op = "delete",
               Go(c, at), UNCHANGED book
        PROVE  \E k \in Call : ClientStep(c, k)
    <3> DEFINE k == [call[c] EXCEPT !.at = at]
    <3>1. k.at = at /\ k.op = call[c].op /\ k.id = call[c].id /\ k.ask = call[c].ask
          /\ k.until = call[c].until
      BY CallFacts, <2>1 DEF Call
    <3> HIDE DEF k
    <3>2. CallOK(c, k, stored, clock, book[c], seen'[c])
      BY <2>1, <2>2, <3>1, CallFacts DEF CallOK, Expired
    <3> QED BY <2>1, <2>2, <3>2, GoGoes DEF k, Points
  <2>3. CASE ~Expired(call[c].until) /\ call[c].op = "get" /\ Cut(c)
    <3>1. /\ BooksOK(book') /\ \A d \in Clients \ {c} : book'[d] = book[d]
          /\ \E r \in {"chunk", "refused"} : Reply(c, r)
      BY <2>1, <2>3, CutIs
    <3>2. PICK r \in {"chunk", "refused"} : Reply(c, r)
      BY <3>1
    <3>3. call[c].heard => "kept" \in seen[c]
      BY <2>1, <2>3, CallFacts DEF CallOK, Expired
    <3>4. ClientStep(c, Idle)
      BY <2>1, <2>3, <3>1, <3>2, <3>3, StoresKept, Answered DEF Replies, Same, Promise!Honest
    <3> QED BY <3>4, IdleIs
  <2> QED BY <1>3, <2>2, <2>3 DEF Check
<1> QED BY <1>1, <1>2, <1>3

\* The two removals.
LEMMA TakesFromTheBucket ==
  ASSUME Inv, Observe, NEW c \in Clients, DropExpired(c) \/ DeleteObject(c)
  PROVE  ClientStep(c, Idle)
<1>1. CASE DropExpired(c)
  <2>1. call[c].at = "drop" /\ UNCHANGED <<backend, clock, book>>
    BY <1>1 DEF DropExpired, At
  <2>2. CASE Reply(c, "error") /\ UNCHANGED stored
    BY <2>1, <2>2, StoresKept, ErrorAnswers
  <2>3. CASE stored' = Popped(call[c].id) /\ (Missing(c) \/ Reply(c, "error"))
    <3>1. /\ StoredOK(stored') /\ Moves(c)
          /\ stored'[call[c].id] = IF stored[call[c].id].is = "kept" THEN Gone
                                   ELSE stored[call[c].id]
      BY <2>1, <2>3, PoppedIs
    <3>2. Stand(stored', clock', call[c].id) # "kept"
      BY <3>1 DEF Stand, Gone
    <3>3. call[c].op \in {"get", "delete"}
      BY <2>1, CallFacts DEF CallOK, Call
    <3> QED BY <2>1, <2>3, <3>1, <3>2, <3>3, MissingAnswers, ErrorAnswers
  <2> QED BY <1>1, <2>2, <2>3 DEF DropExpired
<1>2. CASE DeleteObject(c)
  <2>1. call[c].at = "delete" /\ UNCHANGED <<backend, clock, book>> /\ call[c].op = "delete"
        /\ stored[call[c].id] # Unborn
    BY <1>2, CallFacts DEF DeleteObject, At, CallOK
  <2>2. CASE Reply(c, "error") /\ UNCHANGED stored
    BY <2>1, <2>2, StoresKept, ErrorAnswers
  <2>3. CASE stored' = Popped(call[c].id) /\ (Reply(c, "deleted") \/ Reply(c, "error"))
    <3>1. /\ StoredOK(stored') /\ Moves(c)
          /\ stored'[call[c].id] = IF stored[call[c].id].is = "kept" THEN Gone
                                   ELSE stored[call[c].id]
      BY <2>1, <2>3, PoppedIs
    <3>2. stored[call[c].id].is \in {"kept", "gone"}
      BY <2>1, CallFacts DEF Slot, Unborn
    <3>3. Stand(stored', clock', call[c].id) = "gone"
      BY <3>1, <3>2 DEF Stand, Gone
    <3>4. BooksOK(book') /\ Same(c)
      BY <2>1 DEF Inv, Same
    <3>5. CASE Reply(c, "deleted")
      BY <2>1, <3>1, <3>3, <3>4, <3>5, Answered DEF Replies, Promise!Honest
    <3> QED BY <2>1, <2>3, <3>1, <3>5, ErrorAnswers
  <2> QED BY <1>2, <2>2, <2>3 DEF DeleteObject
<1> QED BY <1>1, <1>2

\* A client that goes away.
LEMMA CancelIs ==
  ASSUME Inv, Observe, NEW c \in Clients, Cancel(c)
  PROVE  \E k \in Call : ClientStep(c, k)
<1>1. call[c].at # "idle" /\ said' = <<>> /\ UNCHANGED <<backend, clock, stored, book>>
  BY DEF Cancel, Open
<1>2. BooksOK(book') /\ StoredOK(stored') /\ Moves(c)
  BY <1>1, StoresKept DEF Inv
<1>3. CASE call[c].at \in {"put", "drop", "delete"}
  <2> DEFINE k == [call[c] EXCEPT !.heard = FALSE]
  <2>1. call' = [call EXCEPT ![c] = k]
    BY <1>3 DEF Cancel
  <2>2. /\ k \in Call /\ k.op = call[c].op /\ k.id = call[c].id /\ k.at = call[c].at
        /\ k.ask = call[c].ask /\ k.until = call[c].until /\ k.heard = FALSE
    BY <1>1, CallFacts DEF Call
  <2> HIDE DEF k
  <2>3. CallOK(c, k, stored', clock', book'[c], seen'[c])
    BY <1>1, <1>3, <2>2, CallFacts DEF CallOK
  <2>4. ClientStep(c, k)
    BY <1>1, <1>2, <2>1, <2>2, <2>3, CallFacts DEF ClientStep, Told, Puts
  <2> QED BY <2>2, <2>4
<1>4. CASE call[c].at \notin {"put", "drop", "delete"}
  <2>1. call' = [call EXCEPT ![c] = Idle]
    BY <1>4 DEF Cancel
  <2>2. ClientStep(c, Idle)
    BY <1>1, <1>2, <2>1, IdleIs DEF ClientStep, Told, Puts
  <2> QED BY <2>2, IdleIs
<1> QED BY <1>3, <1>4

\* Whatever a client does is one of its steps.
LEMMA ClientsStep ==
  ASSUME Inv, Observe, NEW c \in Clients,
         \/ AskPut(c) \/ AskGet(c) \/ AskDelete(c) \/ Memory(c) \/ S3(c) \/ Cancel(c)
  PROVE  \E k \in Call : ClientStep(c, k)
BY Asks, MemoryAnswers, PutsInTheBucket, LooksInTheBucket, TakesFromTheBucket, CancelIs, IdleIs
   DEF S3

-----------------------------------------------------------------------------
(***************************************************************************)
(* The world.                                                              *)
(***************************************************************************)
\* A step of the world: time, the lifecycle rule, a restart.
World ==
  /\ backend' = backend /\ clock' \in 0..Horizon /\ clock' >= clock
  /\ book' = book /\ said' = <<>>
  /\ StoredOK(stored')
  /\ \A id \in Ids : stored'[id] = stored[id] \/ (stored[id].is = "kept" /\ stored'[id] = Gone)
  /\ call' = call \/ call' = [c \in Clients |-> Idle]

\* Time, the lifecycle rule and a restart.
LEMMA WorldIs ==
  ASSUME Inv, Tick \/ Lifecycle \/ Restart
  PROVE  World
<1>1. clock \in 0..Horizon /\ Horizon \in Nat /\ StoredOK(stored)
  BY ConstantsAre DEF Inv
<1>2. Gone \in Slot /\ Gone.until = 0
  BY DEF Gone, Slot
<1>3. CASE Tick
  BY <1>1, <1>3 DEF Tick, World
<1>4. CASE Lifecycle
  <2>1. PICK i \in Ids : stored' = Popped(i) /\ said' = <<>>
          /\ UNCHANGED <<backend, clock, call, book>>
    BY <1>4 DEF Lifecycle
  <2>2. \A id \in Ids : stored'[id] = IF id = i /\ stored[id].is = "kept" THEN Gone ELSE stored[id]
    BY <1>1, <2>1 DEF Popped, StoredOK
  <2>3. stored' \in [Ids -> Slot]
    BY <1>1, <1>2, <2>1 DEF Popped, StoredOK
  <2>4. StoredOK(stored')
    BY <1>1, <1>2, <2>2, <2>3, ConstantsAre DEF StoredOK
  <2> QED BY <1>1, <2>1, <2>2, <2>4 DEF World
<1>5. CASE Restart
  <2>1. /\ call' = [c \in Clients |-> Idle] /\ said' = <<>> /\ UNCHANGED <<backend, clock, book>>
        /\ stored' = stored \/
           stored' = [id \in Ids |-> IF stored[id].is = "kept" THEN Gone ELSE stored[id]]
    BY <1>5 DEF Restart
  <2>2. \A id \in Ids : stored'[id] = stored[id] \/ (stored[id].is = "kept" /\ stored'[id] = Gone)
    BY <2>1
  <2>3. stored' \in [Ids -> Slot]
    BY <1>1, <1>2, <2>1 DEF StoredOK
  <2>4. StoredOK(stored')
    BY <1>1, <1>2, <2>2, <2>3, ConstantsAre DEF StoredOK
  <2> QED BY <1>1, <2>1, <2>2, <2>4 DEF World
<1> QED BY <1>3, <1>4, <1>5

\* The world keeps the invariant.
LEMMA WorldKeeps ==
  ASSUME Inv, Observe, World
  PROVE  Inv'
<1>1. CallsTyped(call')
  BY IdleIs DEF World, Inv, CallsTyped
<1>2. seen' \in [Clients -> SUBSET Stages]
  BY <1>1, SeenTyped DEF World
<1>3. CASE call' = [c \in Clients |-> Idle]
  <2>1. \A c \in Clients : call'[c].at = "idle"
    BY <1>3, IdleIs
  <2>2. CallsOK(call', stored', clock', book', seen')
    BY <2>1 DEF CallsOK, Puts
  <2> QED BY <1>1, <1>2, <2>2 DEF World, Inv
<1>4. CASE call' = call
  <2>1. ASSUME NEW c \in Clients, call[c].at # "idle"
        PROVE  CallOK(c, call'[c], stored', clock', book'[c], seen'[c])
    <3>1. CallOK(c, call[c], stored, clock, book[c], seen[c])
          /\ call[c].id \in Ids /\ call[c].until \in Nat /\ clock \in Nat
      BY <2>1, CallFacts
    <3>2. clock' \in Nat /\ clock' >= clock
      BY ConstantsAre DEF World
    <3>3. stored[call[c].id] = Unborn => stored'[call[c].id] = Unborn
      BY <3>1 DEF World, Unborn
    <3>4. stored[call[c].id] # Unborn =>
            /\ stored'[call[c].id] # Unborn
            /\ stored'[call[c].id].is = "kept" => stored'[call[c].id] = stored[call[c].id]
      BY <3>1 DEF World, Unborn, Gone
    <3>5. call[c].heard => seen[c] \subseteq seen'[c]
      BY <1>4, <2>1, ObserveIs DEF Open
    <3>6. book'[c] = book[c] /\ call'[c] = call[c]
      BY <1>4 DEF World
    <3> QED BY <3>1, <3>2, <3>3, <3>4, <3>5, <3>6 DEF CallOK
  <2>2. CallsOK(call', stored', clock', book', seen')
    <3>1. \A c, d \in Clients :
            c # d /\ Puts(call'[c]) /\ Puts(call'[d]) => call'[c].id # call'[d].id
      BY <1>4 DEF Inv, CallsOK
    <3>2. \A c \in Clients : call'[c].at # "idle" =>
            CallOK(c, call'[c], stored', clock', book'[c], seen'[c])
      BY <1>4, <2>1
    <3> QED BY <3>1, <3>2 DEF CallsOK
  <2> QED BY <1>1, <1>2, <2>2 DEF World, Inv
<1> QED BY <1>3, <1>4 DEF World

\* Every step is one of a client or one of the world.
LEMMA StepIs ==
  ASSUME Inv, Next
  PROVE  Observe /\ (World \/ \E c \in Clients : \E k \in Call : ClientStep(c, k))
<1>1. Observe
  BY DEF Next
<1>2. CASE Tick \/ Lifecycle \/ Restart
  BY <1>1, <1>2, WorldIs
<1>3. CASE \E c \in Clients : \/ AskPut(c) \/ AskGet(c) \/ AskDelete(c)
                              \/ Memory(c) \/ S3(c) \/ Cancel(c)
  BY <1>1, <1>3, ClientsStep
<1> QED BY <1>1, <1>2, <1>3 DEF Next, Step

\* The invariant holds at first, and every step keeps it.
LEMMA InitInv == Init => Inv
<1> SUFFICES ASSUME Init PROVE Inv
  OBVIOUS
<1>1. backend \in Backends /\ clock \in 0..Horizon
  BY ConstantsAre DEF Init
<1>2. StoredOK(stored)
  BY ConstantsAre DEF Init, StoredOK, Unborn, Slot
<1>3. CallsTyped(call)
  BY IdleIs DEF Init, CallsTyped
<1>4. BooksOK(book)
  <2> DEFINE b == [id |-> NoId, format |-> "text", got |-> <<>>, next |-> NoCursor, done |-> FALSE]
  <2>1. \A c \in Clients : book[c] = b
    BY DEF Init
  <2>2. b \in Book
    BY ConstantsAre DEF Book, Formats
  <2>3. <<>> = Upto(0) /\ Len(<<>>) = 0
    BY DEF Upto
  <2>4. BookOK(b)
    BY <2>3, ItemsAre, ConstantsAre DEF BookOK, Formats
  <2> HIDE DEF b
  <2>5. book \in [Clients -> Book]
    BY <2>2 DEF Init, b
  <2> QED BY <2>1, <2>4, <2>5, ConstantsAre DEF BooksOK
<1>5. CallsOK(call, stored, clock, book, seen)
  <2>1. \A c \in Clients : call[c].at = "idle"
    BY IdleIs DEF Init
  <2> QED BY <2>1 DEF CallsOK, Puts
<1>6. seen \in [Clients -> SUBSET Stages] /\ said = <<>>
  BY DEF Init
<1> QED BY <1>1, <1>2, <1>3, <1>4, <1>5, <1>6 DEF Inv

LEMMA NextInv == Inv /\ [Next]_vars => Inv'
<1> SUFFICES ASSUME Inv, [Next]_vars PROVE Inv'
  OBVIOUS
<1>1. CASE UNCHANGED vars
  <2>1. CallsOK(call', stored', clock', book', seen')
    BY <1>1 DEF vars, Inv
  <2> QED BY <1>1, <2>1 DEF vars, Inv
<1>2. CASE Next
  BY <1>2, StepIs, WorldKeeps, ClientStepKeeps
<1> QED BY <1>1, <1>2

\* The inductive invariant holds in every state of every behaviour.
THEOREM InvariantHolds == Spec => []Inv
BY InitInv, NextInv, PTL DEF Spec

\* Every variable keeps its type, and no expiry lies further ahead than a lifetime.
THEOREM TypesHold == Spec => []TypeOK
<1>1. Inv => TypeOK
  BY DEF Inv, TypeOK, StoredOK, CallsTyped, BooksOK, Stages
<1> QED BY <1>1, InvariantHolds, PTL

\* get_transcript_chunk: the pieces read along the cursors are the transcript from its
\* beginning, without a gap or a repetition, and the last one ends it.
THEOREM PiecesMakeTheWhole == Spec => []PiecesJoin
<1>1. Inv => PiecesJoin
  <2> SUFFICES ASSUME Inv, NEW c \in Readers
               PROVE  LET n == Items(Content[book[c].id], book[c].format)
                      IN  /\ book[c].got = Upto(Len(book[c].got))
                          /\ Len(book[c].got) <= n
                          /\ book[c].done => Len(book[c].got) = n
                          /\ book[c].next # NoCursor => book[c].next.index = Len(book[c].got)
    BY DEF PiecesJoin
  <2>1. BookOK(book[c])
    BY DEF Inv, BooksOK
  <2> QED BY <2>1 DEF BookOK
<1> QED BY <1>1, InvariantHolds, PTL

-----------------------------------------------------------------------------
(***************************************************************************)
(* Pieces go on.                                                           *)
(***************************************************************************)
\* A piece is given by a reader's request that is cut.
LEMMA OnlyCut ==
  ASSUME Inv, Next, NEW c \in Clients, said' = <<c, "chunk">>
  PROVE  call[c].at # "idle" /\ call[c].op = "get" /\ Cut(c)
<1>1. \A d \in Clients, r \in Replies : Reply(d, r) => d = c /\ r = "chunk"
  <2>1. \A d \in Clients, r \in Replies : Reply(d, r) => said' = <<d, r>> \/ said' = <<>>
    BY DEF Reply
  <2>2. <<>> # <<c, "chunk">>
    OBVIOUS
  <2> QED BY <2>1, <2>2
<1>2. said' # <<>>
  OBVIOUS
<1>3. PICK d \in Clients : \/ AskPut(d) \/ AskGet(d) \/ AskDelete(d)
                           \/ Memory(d) \/ S3(d) \/ Cancel(d)
  BY <1>2 DEF Next, Step, Tick, Lifecycle, Restart
<1>4. ~Missing(d) /\ ~\E at : Go(d, at)
  BY <1>1, <1>2 DEF Missing, Go, Replies
<1>5. ~Reply(d, "error") /\ ~Reply(d, "stored") /\ ~Reply(d, "not_found") /\ ~Reply(d, "deleted")
        /\ ~Reply(d, "absent") /\ ~Reply(d, "disabled")
  BY <1>1 DEF Replies
<1>6. CASE AskPut(d) \/ AskGet(d) \/ AskDelete(d) \/ Cancel(d)
  BY <1>2, <1>6 DEF AskPut, AskGet, AskDelete, Ask, Cancel
<1>7. CASE Memory(d)
  <2>1. MemoryGet(d) /\ Shelf(call[d].id) = "kept"
    BY <1>5, <1>7 DEF Memory, Disabled, MemoryPut, MemoryDelete, MemoryGet
  <2>2. Cut(d) /\ call[d].at = "start" /\ call[d].op = "get"
    BY <2>1 DEF MemoryGet
  <2>3. d = c
    BY <1>1, <2>2 DEF Cut, Replies
  <2> QED BY <2>2, <2>3
<1>8. CASE S3(d)
  <2>1. Check(d)
    BY <1>2, <1>4, <1>5, <1>8
       DEF S3, Stamp, Upload, List, Fetch, DropExpired, DeleteObject
  <2>2. Cut(d) /\ call[d].at = "check" /\ call[d].op = "get"
    BY <1>4, <2>1 DEF Check, At
  <2>3. d = c
    BY <1>1, <2>2 DEF Cut, Replies
  <2> QED BY <2>2, <2>3
<1> QED BY <1>3, <1>6, <1>7, <1>8

\* A piece that is not the last takes the reader further than its cursor did.
THEOREM PiecesGoOn == Spec => PiecesAdvance
<1>1. Inv /\ [Next]_vars =>
        [\A c \in Readers :
           said' = <<c, "chunk">> =>
             book'[c].done \/ book'[c].next.index > Start(call[c].ask.cursor)]_vars
  <2> SUFFICES ASSUME Inv, Next, NEW c \in Readers, said' = <<c, "chunk">>
               PROVE  book'[c].done \/ book'[c].next.index > Start(call[c].ask.cursor)
    OBVIOUS
  <2>1. c \in Clients
    BY ConstantsAre
  <2>2. call[c].at # "idle" /\ call[c].op = "get" /\ Cut(c)
    BY <2>1, OnlyCut
  <2> QED BY <2>1, <2>2, CutIs
<1> QED BY <1>1, InvariantHolds, PTL DEF Spec, PiecesAdvance

-----------------------------------------------------------------------------
(***************************************************************************)
(* What leaves the bucket.                                                 *)
(***************************************************************************)
\* A transcript that leaves the bucket before its time was asked to.
LEMMA OnlyDeleted ==
  ASSUME Inv, Next, backend = "s3", NEW id \in Ids,
         Shelf(id) = "kept", Shelf(id)' = "gone", clock' = clock
  PROVE  \E c \in Clients : call[c].op = "delete" /\ call[c].id = id /\ call[c].at = "delete"
<1>1. stored[id].is = "kept" /\ ~(stored[id].until <= clock)
  BY DEF Shelf, Expired
<1>2. stored'[id] # stored[id]
  BY <1>1 DEF Shelf, Expired
<1>3. ASSUME NEW i \in Ids, stored' = Popped(i)
      PROVE  i = id
  <2>1. \A j \in Ids : j # i => stored'[j] = stored[j]
    BY <1>3 DEF Popped, Inv, StoredOK
  <2> QED BY <1>2, <2>1
<1>4. ~Tick /\ ~Restart
  BY <1>2 DEF Tick, Restart
<1>5. ~Lifecycle
  BY <1>1, <1>3 DEF Lifecycle, Expired
<1>6. PICK c \in Clients : \/ AskPut(c) \/ AskGet(c) \/ AskDelete(c)
                           \/ Memory(c) \/ S3(c) \/ Cancel(c)
  BY <1>4, <1>5 DEF Next, Step
<1>7. ~(AskPut(c) \/ AskGet(c) \/ AskDelete(c) \/ Cancel(c) \/ Memory(c))
  BY <1>2 DEF AskPut, AskGet, AskDelete, Ask, Cancel, Memory, Disabled, MemoryPut, MemoryGet,
              MemoryDelete
<1>8. Upload(c) \/ DropExpired(c) \/ DeleteObject(c)
  BY <1>2, <1>6, <1>7 DEF S3, Stamp, List, Fetch, Check
<1>9. call[c].at # "idle"
  BY <1>8 DEF Upload, DropExpired, DeleteObject, At
<1>10. CASE Upload(c)
  <2>1. call[c].at = "put" /\ (stored' = stored \/
          stored' = [stored EXCEPT ![call[c].id] = Kept(call[c].until)])
    BY <1>10 DEF Upload, At
  <2>2. stored[call[c].id] = Unborn /\ call[c].id \in Ids
    BY <1>9, <2>1, CallFacts DEF CallOK
  <2>3. call[c].id # id
    BY <1>1, <2>2 DEF Unborn
  <2> QED BY <1>2, <2>1, <2>3 DEF Inv, StoredOK
<1>11. CASE DropExpired(c)
  <2>1. call[c].at = "drop" /\ (stored' = stored \/ stored' = Popped(call[c].id))
    BY <1>11 DEF DropExpired, At
  <2>2. call[c].id \in Ids /\ call[c].until <= clock
        /\ (stored[call[c].id].is = "kept" => stored[call[c].id].until = call[c].until)
    BY <1>9, <2>1, CallFacts DEF CallOK
  <2>3. call[c].id = id
    BY <1>2, <1>3, <2>1, <2>2
  <2> QED BY <1>1, <2>2, <2>3
<1>12. CASE DeleteObject(c)
  <2>1. call[c].at = "delete" /\ (stored' = stored \/ stored' = Popped(call[c].id))
    BY <1>12 DEF DeleteObject, At
  <2>2. call[c].id \in Ids /\ call[c].op = "delete"
    BY <1>9, <2>1, CallFacts DEF CallOK
  <2>3. call[c].id = id
    BY <1>2, <1>3, <2>1, <2>2
  <2> QED BY <2>1, <2>2, <2>3
<1> QED BY <1>8, <1>10, <1>11, <1>12

\* The bucket loses a transcript before its time only to a request for its deletion.
THEOREM NothingGoesUnasked == Spec => KeptUntilDeleted
<1>1. Inv /\ [Next]_vars =>
        [backend = "s3" =>
           \A id \in Ids : Shelf(id) = "kept" /\ Shelf(id)' = "gone" /\ clock' = clock =>
             \E c \in Clients :
               call[c].op = "delete" /\ call[c].id = id /\ call[c].at = "delete"]_vars
  BY OnlyDeleted
<1> QED BY <1>1, InvariantHolds, PTL DEF Spec, KeptUntilDeleted

-----------------------------------------------------------------------------
(***************************************************************************)
(* The promise.                                                            *)
(***************************************************************************)
\* Nothing comes back.
LEMMA GoesForward ==
  ASSUME Inv, StoredOK(stored'), clock' \in Nat, clock' >= clock,
         \A id \in Ids : \/ stored'[id] = stored[id]
                         \/ stored[id].is = "kept" /\ stored'[id] = Gone
                         \/ stored[id] = Unborn
  PROVE  Promise!Forward
<1>1. ASSUME NEW id \in Ids
      PROVE  /\ Shelf(id)' \in Promise!Stages
             /\ Promise!Age(Shelf(id)') >= Promise!Age(Shelf(id))
  <2>1. stored[id] \in Slot /\ stored'[id] \in Slot /\ clock \in Nat
    BY <1>1, ConstantsAre DEF Inv, StoredOK
  <2>2. stored[id].until \in Nat /\ stored'[id].until \in Nat
        /\ stored[id].is \in Promise!Stages /\ stored'[id].is \in Promise!Stages
    BY <2>1 DEF Slot, Promise!Stages
  <2>3. /\ Shelf(id) = IF stored[id].is = "kept" /\ stored[id].until <= clock THEN "gone"
                       ELSE stored[id].is
        /\ Shelf(id)' = IF stored'[id].is = "kept" /\ stored'[id].until <= clock' THEN "gone"
                        ELSE stored'[id].is
    BY DEF Shelf, Expired
  <2>4. Promise!Age("unborn") = 0 /\ Promise!Age("kept") = 1 /\ Promise!Age("gone") = 2
    BY DEF Promise!Age
  <2>5. Shelf(id) \in Promise!Stages /\ Shelf(id)' \in Promise!Stages
    BY <2>2, <2>3 DEF Promise!Stages
  <2>6. \/ Shelf(id) = "unborn" \/ Shelf(id)' = "gone" \/ Shelf(id)' = Shelf(id)
    <3>1. CASE stored'[id] = stored[id]
      BY <2>1, <2>2, <2>3, <3>1
    <3>2. CASE stored[id].is = "kept" /\ stored'[id] = Gone
      BY <2>3, <3>2 DEF Gone
    <3>3. CASE stored[id] = Unborn
      BY <2>3, <3>3 DEF Unborn
    <3> QED BY <3>1, <3>2, <3>3
  <2> QED BY <2>4, <2>5, <2>6 DEF Promise!Stages
<1>2. \A id \in Ids : /\ [i \in Ids |-> Shelf(i)]'[id] = Shelf(id)'
                      /\ [i \in Ids |-> Shelf(i)][id] = Shelf(id)
  OBVIOUS
<1> QED BY <1>1, <1>2 DEF Promise!Forward

\* The stages seen are those the promise speaks of.
LEMMA Watches ==
  ASSUME Inv', Observe, NEW c \in Clients
  PROVE  Promise!Watch(c)
<1>1. call'[c].id \in Ids
  BY DEF Inv, CallsTyped, Call
<1>2. seen'[c] = IF ~Open(c)' THEN {}
                 ELSE (IF Open(c) THEN seen[c] ELSE {}) \union {Stage(c)'}
  BY DEF Observe
<1>3. Stage(c)' = Stand(stored', clock', call'[c].id)
  BY DEF Stage, Shelf, Expired, Stand
<1>4. \A i \in Ids : [j \in Ids |-> Shelf(j)]'[i] = Stand(stored', clock', i)
  BY DEF Shelf, Expired, Stand
<1>5. LET ask == [d \in Clients |-> [op |-> call[d].op, id |-> call[d].id, open |-> Open(d)]]
      IN  /\ ask[c].open = Open(c) /\ ask'[c].open = Open(c)' /\ ask'[c].id = call'[c].id
  OBVIOUS
<1> QED BY <1>1, <1>2, <1>3, <1>4, <1>5 DEF Promise!Watch

\* At first nothing is kept and nobody asks.
LEMMA PromiseInit == Init => Promise!Init
<1> SUFFICES ASSUME Init PROVE Promise!Init
  OBVIOUS
<1>1. \A c \in Clients : ~Open(c)
  BY IdleIs DEF Init, Open
<1>2. \A id \in Ids : Shelf(id) = "unborn"
  BY DEF Init, Shelf, Unborn
<1> QED BY <1>1, <1>2 DEF Init, Promise!Init

\* A client that was not answered goes on, asks, or goes away.
LEMMA Unanswered ==
  ASSUME NEW c \in Clients,
         \/ ~Open(c)'
         \/ ~Open(c)
         \/ call'[c].op = call[c].op /\ call'[c].id = call[c].id /\ Open(c)' = Open(c)
  PROVE  LET ask == [d \in Clients |-> [op |-> call[d].op, id |-> call[d].id, open |-> Open(d)]]
         IN  ask'[c] = ask[c] \/ Promise!Asks(c) \/ Promise!Drops(c)
<1> DEFINE ask == [d \in Clients |-> [op |-> call[d].op, id |-> call[d].id, open |-> Open(d)]]
<1>1. /\ ask[c] = [op |-> call[c].op, id |-> call[c].id, open |-> Open(c)]
      /\ ask'[c] = [op |-> call'[c].op, id |-> call'[c].id, open |-> Open(c)']
  OBVIOUS
<1>2. CASE ~Open(c)'
  BY <1>1, <1>2 DEF Promise!Drops
<1>3. CASE ~Open(c) /\ Open(c)'
  BY <1>1, <1>3 DEF Promise!Asks
<1>4. CASE call'[c].op = call[c].op /\ call'[c].id = call[c].id /\ Open(c)' = Open(c)
  BY <1>1, <1>4
<1> QED BY <1>2, <1>3, <1>4

\* The world keeps the promise.
LEMMA WorldPromises ==
  ASSUME Inv, Inv', Observe, World
  PROVE  Promise!Next
<1>1. clock' \in Nat /\ clock' >= clock /\ StoredOK(stored')
  BY ConstantsAre DEF World
<1>2. Promise!Forward
  BY <1>1, GoesForward DEF World
<1>3. \A c \in Clients : Promise!Watch(c)
  BY Watches
<1>4. ASSUME NEW c \in Clients
      PROVE  \/ ~Open(c)'
             \/ call'[c].op = call[c].op /\ call'[c].id = call[c].id /\ Open(c)' = Open(c)
  <2>1. CASE call' = call
    BY <2>1 DEF Open
  <2>2. CASE call' = [d \in Clients |-> Idle]
    BY <2>2, IdleIs DEF Open
  <2> QED BY <2>1, <2>2 DEF World
<1>5. said' = <<>>
  BY DEF World
<1> QED BY <1>2, <1>3, <1>4, <1>5, Unanswered DEF Promise!Next

\* Each client keeps it, for its own request and for the others'.
LEMMA ClientPromises ==
  ASSUME Inv, Inv', Observe, NEW c \in Clients, NEW k \in Call, ClientStep(c, k)
  PROVE  Promise!Next
<1>1. clock' \in Nat /\ clock' >= clock /\ StoredOK(stored')
  BY ConstantsAre DEF ClientStep, Inv
<1>2. Promise!Forward
  BY <1>1, GoesForward DEF ClientStep, Moves
<1>3. \A d \in Clients : Promise!Watch(d)
  BY Watches
<1>4. \A d \in Clients : call'[d] = IF d = c THEN k ELSE call[d]
  BY DEF ClientStep, Inv, CallsTyped
<1>5. \A d \in Clients \ {c} : call'[d].op = call[d].op /\ call'[d].id = call[d].id /\ Open(d)' = Open(d)
  BY <1>4 DEF Open
<1>6. Open(c)' = (k.at # "idle" /\ k.heard) /\ call'[c] = k
  BY <1>4 DEF Open
<1>7. CASE /\ said' = <<>>
           /\ Open(c) /\ k.at # "idle" /\ k.heard => k.op = call[c].op /\ k.id = call[c].id
  <2>1. \/ ~Open(c)' \/ ~Open(c)
        \/ call'[c].op = call[c].op /\ call'[c].id = call[c].id /\ Open(c)' = Open(c)
    BY <1>6, <1>7
  <2> QED BY <1>2, <1>3, <1>5, <1>7, <2>1, Unanswered DEF Promise!Next
<1>8. CASE \E r \in Replies :
             LET now == Stand(stored', clock', call[c].id)
             IN  /\ said' = <<c, r>> /\ Open(c) /\ k = Idle
                 /\ Promise!Honest(call[c].op, r, seen[c] \union {now}, now)
  <2>1. PICK r \in Replies :
             LET now == Stand(stored', clock', call[c].id)
             IN  /\ said' = <<c, r>> /\ Open(c) /\ k = Idle
                 /\ Promise!Honest(call[c].op, r, seen[c] \union {now}, now)
    BY <1>8
  <2>2. ~Open(c)' /\ said'[1] = c /\ said'[2] = r /\ said' # <<>>
    BY <1>6, <2>1, IdleIs
  <2>3. call[c].id \in Ids
    BY DEF Inv, CallsTyped, Call
  <2>4. \A i \in Ids : [j \in Ids |-> Shelf(j)]'[i] = Stand(stored', clock', i)
    BY DEF Shelf, Expired, Stand
  <2> DEFINE ask == [d \in Clients |-> [op |-> call[d].op, id |-> call[d].id, open |-> Open(d)]]
  <2>5. /\ ask[c].open = Open(c) /\ ask[c].id = call[c].id /\ ask[c].op = call[c].op
        /\ ask'[c].open = Open(c)'
    OBVIOUS
  <2>6. Promise!Answers(c)
    BY <2>1, <2>2, <2>3, <2>4, <2>5 DEF Promise!Answers
  <2> QED BY <1>2, <1>3, <1>5, <2>2, <2>6, Unanswered DEF Promise!Next
<1> QED BY <1>7, <1>8 DEF ClientStep, Told

\* Memory, S3 and disabled keep the promise of Retention, step by step.
THEOREM ImplementsThePromise == Spec => KeepsItsPromise
<1>1. Inv /\ Inv' /\ [Next]_vars => [Promise!Next]_Promise!vars
  <2> SUFFICES ASSUME Inv, Inv', [Next]_vars PROVE [Promise!Next]_Promise!vars
    OBVIOUS
  <2>1. CASE UNCHANGED vars
    BY <2>1 DEF vars, Promise!vars, Shelf, Expired, Open
  <2>2. CASE Next
    BY <2>2, StepIs, WorldPromises, ClientPromises
  <2> QED BY <2>1, <2>2
<1> QED BY <1>1, PromiseInit, InvariantHolds, PTL DEF Spec, KeepsItsPromise, Promise!Spec
=============================================================================

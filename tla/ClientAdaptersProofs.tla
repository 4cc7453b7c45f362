----------------------- MODULE ClientAdaptersProofs -----------------------
(***************************************************************************)
(* What registration keeps, for any configuration a client may be found    *)
(* with, any places for it, any engines and any number of edits.           *)
(*                                                                         *)
(* The invariant follows a document across the gap between reading and     *)
(* writing: what a call holds is what the file says, unless somebody has   *)
(* edited it since, and what it holds is what a parser accepts.  Two more  *)
(* invariants stand on it: what was said of a foreign entry (Consent), and *)
(* whose an engine's entry is (OwnOK).  The rest is about the text: that   *)
(* the table the search finds is the definition a parser sees, and that    *)
(* swapping it leaves the blocks of others alone.                          *)
(***************************************************************************)
EXTENDS ClientAdapters, WellFoundedInduction, SequenceTheorems, TLAPS

-----------------------------------------------------------------------------
(***************************************************************************)
(* Least positions, and reaching all of them.                              *)
(***************************************************************************)
\* The order of the positions, in which every nonempty set has a least one.
Below == {p \in Nat \X Nat : p[1] < p[2]}

\* A nonempty set of positions has a least one.
LEMMA LeastNat ==
  ASSUME NEW S, S \subseteq Nat, S # {}
  PROVE  \E n \in S : \A k \in S : n <= k
<1>1. IsWellFoundedOn(Below, Nat)
  BY NatLessThanWellFounded, Zenon DEF Below, OpToRel
<1>2. PICK n \in S : \A k \in S : <<k, n>> \notin Below
  BY <1>1, WFMin, Zenon
<1>3. \A k \in S : ~(k < n)
  BY <1>2 DEF Below
<1> QED BY <1>3

\* Min is it.
LEMMA MinIs ==
  ASSUME NEW S, S \subseteq Nat, S # {}
  PROVE  Min(S) \in S /\ \A k \in S : Min(S) <= k
<1>1. PICK n \in S : \A k \in S : n =< k
  BY LeastNat
<1> QED BY <1>1, Zenon DEF Min

\* Induction up to a bound, over a set.
LEMMA Reaches ==
  ASSUME NEW N \in Nat, NEW S, 0 \in S, \A n \in 0..N : n \in S /\ n < N => n + 1 \in S
  PROVE  \A n \in 0..N : n \in S
<1> DEFINE Missed == {n \in 0..N : n \notin S}
<1>1. SUFFICES ASSUME Missed # {} PROVE FALSE
  OBVIOUS
<1>2. PICK m \in Missed : \A k \in Missed : m <= k
  <2>1. Missed \subseteq Nat
    OBVIOUS
  <2> HIDE DEF Missed
  <2> QED BY <1>1, <2>1, LeastNat
<1>3. m \in Nat /\ m # 0 /\ m <= N /\ m \notin S
  BY <1>2
<1>4. m - 1 \in 0..N /\ m - 1 < N /\ m - 1 \notin Missed
  BY <1>2, <1>3
<1>5. m - 1 \in S
  BY <1>4
<1> QED BY <1>3, <1>4, <1>5

-----------------------------------------------------------------------------
(***************************************************************************)
(* What is left of a document.                                             *)
(***************************************************************************)
\* What has been kept when so many blocks were looked at.
Keeps(g, m, blocks, names) ==
  g = [i \in 0..m |->
         IF i = 0 THEN <<>>
         ELSE IF blocks[i].name \in names THEN g[i - 1] ELSE Append(g[i - 1], blocks[i])]

Kept(blocks, names) == CHOOSE g : Keeps(g, Len(blocks), blocks, names)

\* There is such a function, for any length.
LEMMA KeptExists ==
  ASSUME NEW blocks, NEW N \in Nat, NEW names
  PROVE  \E g : Keeps(g, N, blocks, names)
<1> DEFINE S == {m \in Nat : \E g : Keeps(g, m, blocks, names)}
<1>1. 0 \in S
  <2> DEFINE g == [i \in 0..0 |-> <<>>]
  <2>1. Keeps(g, 0, blocks, names)
    BY DEF Keeps
  <2> QED BY <2>1
<1>2. ASSUME NEW m \in Nat, m \in S
      PROVE  m + 1 \in S
  <2>1. PICK g : Keeps(g, m, blocks, names)
    BY <1>2
  <2> DEFINE last == IF blocks[m + 1].name \in names THEN g[m] ELSE Append(g[m], blocks[m + 1])
             h == [i \in 0..(m + 1) |-> IF i = m + 1 THEN last ELSE g[i]]
  <2>2. \A i \in 0..m : g[i] = IF i = 0 THEN <<>>
                               ELSE IF blocks[i].name \in names THEN g[i - 1]
                                    ELSE Append(g[i - 1], blocks[i])
    BY <2>1 DEF Keeps
  <2>3. \A i \in 0..(m + 1) :
          h[i] = IF i = 0 THEN <<>>
                 ELSE IF blocks[i].name \in names THEN h[i - 1] ELSE Append(h[i - 1], blocks[i])
    <3>1. ASSUME NEW i \in 0..(m + 1)
          PROVE  h[i] = IF i = 0 THEN <<>>
                 ELSE IF blocks[i].name \in names THEN h[i - 1] ELSE Append(h[i - 1], blocks[i])
      <4>1. CASE i = m + 1
        <5>1. i - 1 = m /\ i # 0 /\ m \in 0..(m + 1) /\ m # m + 1
          BY <4>1
        <5>2. h[m] = g[m] /\ h[i] = last
          BY <4>1, <5>1
        <5> QED BY <4>1, <5>1, <5>2
      <4>2. CASE i # m + 1
        <5>1. i \in 0..m /\ h[i] = g[i]
          BY <3>1, <4>2
        <5>2. i # 0 => i - 1 \in 0..(m + 1) /\ i - 1 # m + 1 /\ h[i - 1] = g[i - 1]
          BY <5>1
        <5> QED BY <2>2, <5>1, <5>2
      <4> QED BY <4>1, <4>2
    <3> QED BY <3>1
  <2>4. Keeps(h, m + 1, blocks, names)
    <3>1. h = [i \in 0..(m + 1) |-> h[i]]
      OBVIOUS
    <3> HIDE DEF h
    <3> QED BY <2>3, <3>1 DEF Keeps
  <2> QED BY <2>4
<1>3. \A n \in 0..N : n \in S
  <2> HIDE DEF S
  <2> QED BY <1>1, <1>2, Reaches
<1> QED BY <1>3

\* Without, block by block.
LEMMA KeptIs ==
  ASSUME NEW blocks \in Seq(Block), NEW names
  PROVE  /\ Without(blocks, names) = Kept(blocks, names)[Len(blocks)]
         /\ Kept(blocks, names)[0] = <<>>
         /\ \A i \in 1..Len(blocks) :
              Kept(blocks, names)[i] =
                IF blocks[i].name \in names THEN Kept(blocks, names)[i - 1]
                ELSE Append(Kept(blocks, names)[i - 1], blocks[i])
<1> DEFINE K == Kept(blocks, names)
<1>1. Len(blocks) \in Nat
  OBVIOUS
<1>2. Keeps(K, Len(blocks), blocks, names)
  BY <1>1, KeptExists, Zenon DEF Kept
<1>3. \A i \in 0..Len(blocks) :
        K[i] = IF i = 0 THEN <<>>
               ELSE IF blocks[i].name \in names THEN K[i - 1] ELSE Append(K[i - 1], blocks[i])
  <2> HIDE DEF K
  <2> QED BY <1>2 DEF Keeps
<1>4. Without(blocks, names) = K[Len(blocks)]
  BY DEF Without, Kept, Keeps
<1> HIDE DEF K
<1>5. K[0] = <<>>
  BY <1>1, <1>3
<1>6. \A i \in 1..Len(blocks) :
        K[i] = IF blocks[i].name \in names THEN K[i - 1] ELSE Append(K[i - 1], blocks[i])
  BY <1>1, <1>3
<1> QED BY <1>4, <1>5, <1>6 DEF K

\* What is kept are blocks of the document, in their order.
Picks(part, blocks, n, h) ==
  /\ part \in Seq(Block)
  /\ h \in [1..Len(part) -> 1..n]
  /\ \A p \in 1..Len(part) : part[p] = blocks[h[p]]
  /\ \A p, q \in 1..Len(part) : p < q => h[p] < h[q]

\* What is kept is picked from the document.
LEMMA KeptPicks ==
  ASSUME NEW blocks \in Seq(Block), NEW names
  PROVE  \E h : Picks(Without(blocks, names), blocks, Len(blocks), h)
<1> DEFINE K == Kept(blocks, names)
           S == {i \in 0..Len(blocks) : \E h : Picks(K[i], blocks, i, h)}
<1>1. Len(blocks) \in Nat
  OBVIOUS
<1>2. 0 \in S
  <2>1. K[0] = <<>>
    BY KeptIs
  <2>2. Picks(<<>>, blocks, 0, [p \in 1..0 |-> 0])
    BY DEF Picks
  <2> QED BY <1>1, <2>1, <2>2
<1>3. ASSUME NEW i \in 0..Len(blocks), i \in S, i < Len(blocks)
      PROVE  i + 1 \in S
  <2>1. PICK h : Picks(K[i], blocks, i, h)
    BY <1>3
  <2>2. i + 1 \in 1..Len(blocks) /\ (i + 1) - 1 = i /\ i \in Nat
    BY <1>1, <1>3
  <2>3. K[i + 1] = IF blocks[i + 1].name \in names THEN K[i] ELSE Append(K[i], blocks[i + 1])
    BY <2>2, KeptIs
  <2> HIDE DEF K
  <2>4. CASE blocks[i + 1].name \in names
    <3>1. Picks(K[i + 1], blocks, i + 1, h)
      BY <2>1, <2>2, <2>3, <2>4 DEF Picks
    <3> QED BY <2>2, <3>1
  <2>5. CASE blocks[i + 1].name \notin names
    <3> DEFINE n == Len(K[i]) + 1
               g == [p \in 1..n |-> IF p = n THEN i + 1 ELSE h[p]]
    <3>1. K[i] \in Seq(Block) /\ Len(K[i]) \in Nat /\ blocks[i + 1] \in Block
      BY <2>1, <2>2 DEF Picks
    <3>2. K[i + 1] \in Seq(Block) /\ Len(K[i + 1]) = n
          /\ K[i + 1][n] = blocks[i + 1] /\ \A p \in 1..Len(K[i]) : K[i + 1][p] = K[i][p]
      BY <2>3, <2>5, <3>1
    <3>3. \A p \in 1..Len(K[i]) : h[p] \in 1..i /\ K[i][p] = blocks[h[p]]
      BY <2>1 DEF Picks
    <3>4. \A p \in 1..n : g[p] = (IF p = n THEN i + 1 ELSE h[p])
      OBVIOUS
    <3>5. \A p \in 1..n : p # n => p \in 1..Len(K[i])
      BY <3>1
    <3>6. \A p \in 1..n : g[p] \in 1..(i + 1)
      BY <2>2, <3>3, <3>4, <3>5
    <3>7. \A p \in 1..n : K[i + 1][p] = blocks[g[p]]
      BY <3>2, <3>3, <3>4, <3>5
    <3>8. \A p, q \in 1..n : p < q => g[p] < g[q]
      <4>1. SUFFICES ASSUME NEW p \in 1..n, NEW q \in 1..n, p < q PROVE g[p] < g[q]
        OBVIOUS
      <4>2. p \in 1..Len(K[i]) /\ g[p] = h[p] /\ h[p] \in 1..i
        BY <3>1, <3>3, <3>4, <4>1
      <4>3. CASE q = n
        BY <2>2, <3>4, <4>2, <4>3
      <4>4. CASE q # n
        BY <2>1, <3>4, <3>5, <4>1, <4>2, <4>4 DEF Picks
      <4> QED BY <4>3, <4>4
    <3>9. g \in [1..n -> 1..(i + 1)]
      BY <3>6
    <3> HIDE DEF g, n
    <3>10. Picks(K[i + 1], blocks, i + 1, g)
      BY <3>2, <3>7, <3>8, <3>9 DEF Picks
    <3> QED BY <2>2, <3>10
  <2> QED BY <2>4, <2>5
<1>4. \A i \in 0..Len(blocks) : i \in S
  <2> HIDE DEF S
  <2> QED BY <1>1, <1>2, <1>3, Reaches
<1>5. Len(blocks) \in S
  BY <1>1, <1>4
<1>6. Without(blocks, names) = K[Len(blocks)]
  BY KeptIs
<1> QED BY <1>5, <1>6

\* Two documents that go on alike, from a and b.
Alike(s, r, a, b, N) ==
  /\ s \in Seq(Block) /\ r \in Seq(Block) /\ N \in Nat
  /\ a \in 0..Len(s) /\ b \in 0..Len(r) /\ a + N <= Len(s) /\ b + N <= Len(r)
  /\ \A j \in 1..N : s[a + j] = r[b + j]

\* What they keep goes on alike.
LEMMA KeptAgree ==
  ASSUME NEW s, NEW r, NEW names, NEW a, NEW b, NEW N, Alike(s, r, a, b, N),
         Kept(s, names)[a] = Kept(r, names)[b]
  PROVE  Kept(s, names)[a + N] = Kept(r, names)[b + N]
<1> USE DEF Alike
<1> DEFINE F == Kept(s, names)
           G == Kept(r, names)
           S == {m \in 0..N : F[a + m] = G[b + m]}
<1>1. 0 \in S
  OBVIOUS
<1>2. ASSUME NEW m \in 0..N, m \in S, m < N
      PROVE  m + 1 \in S
  <2>1. /\ a + (m + 1) \in 1..Len(s) /\ b + (m + 1) \in 1..Len(r) /\ m + 1 \in 1..N
        /\ (a + (m + 1)) - 1 = a + m /\ (b + (m + 1)) - 1 = b + m
    BY <1>2
  <2>2. s[a + (m + 1)] = r[b + (m + 1)]
    BY <2>1
  <2>3. /\ F[a + (m + 1)] = IF s[a + (m + 1)].name \in names THEN F[a + m]
                            ELSE Append(F[a + m], s[a + (m + 1)])
        /\ G[b + (m + 1)] = IF r[b + (m + 1)].name \in names THEN G[b + m]
                            ELSE Append(G[b + m], r[b + (m + 1)])
    BY <2>1, KeptIs
  <2> HIDE DEF F, G
  <2>4. F[a + m] = G[b + m]
    BY <1>2
  <2> QED BY <2>1, <2>2, <2>3, <2>4
<1>3. \A m \in 0..N : m \in S
  <2> HIDE DEF S
  <2> QED BY <1>1, <1>2, Reaches
<1> QED BY <1>3

\* Blocks of the names left out do not show.
LEMMA KeptSkips ==
  ASSUME NEW s \in Seq(Block), NEW names, NEW a \in 0..Len(s), NEW N \in Nat, a + N <= Len(s),
         \A j \in 1..N : s[a + j].name \in names
  PROVE  Kept(s, names)[a + N] = Kept(s, names)[a]
<1> DEFINE F == Kept(s, names)
           S == {m \in 0..N : F[a + m] = F[a]}
<1>1. 0 \in S
  OBVIOUS
<1>2. ASSUME NEW m \in 0..N, m \in S, m < N
      PROVE  m + 1 \in S
  <2>1. /\ a + (m + 1) \in 1..Len(s) /\ m + 1 \in 1..N
        /\ (a + (m + 1)) - 1 = a + m
    BY <1>2
  <2>2. F[a + (m + 1)] = IF s[a + (m + 1)].name \in names THEN F[a + m]
                            ELSE Append(F[a + m], s[a + (m + 1)])
    BY <2>1, KeptIs
  <2> HIDE DEF F
  <2>3. F[a + m] = F[a]
    BY <1>2
  <2> QED BY <2>1, <2>2, <2>3
<1>3. \A m \in 0..N : m \in S
  <2> HIDE DEF S
  <2> QED BY <1>1, <1>2, Reaches
<1> QED BY <1>3

-----------------------------------------------------------------------------
(***************************************************************************)
(* Our table in the text.                                                  *)
(***************************************************************************)
\* The header that is searched for.
OurTable(b) == b.is = "table" /\ b.name = Ours
NoTable(blocks) == \A i \in 1..Len(blocks) : ~OurTable(blocks[i])

\* The search finds the first of our tables, if there is one.
LEMMA TableStartIs ==
  ASSUME NEW s \in Seq(Block)
  PROVE  /\ TableStart(s) = 0 <=> NoTable(s)
         /\ TableStart(s) # 0 =>
              /\ TableStart(s) \in 1..Len(s) /\ OurTable(s[TableStart(s)])
              /\ \A i \in 1..(TableStart(s) - 1) : ~OurTable(s[i])
<1> DEFINE I == {i \in 1..Len(s) : OurTable(s[i])}
<1>1. TableStart(s) = IF I # {} THEN Min(I) ELSE 0
  BY DEF TableStart, SelectInSeq, OurTable
<1>2. CASE I = {}
  BY <1>1, <1>2 DEF NoTable
<1>3. CASE I # {}
  <2>1. I \subseteq Nat
    OBVIOUS
  <2>2. Min(I) \in I /\ \A k \in I : Min(I) <= k
    <3> HIDE DEF I
    <3> QED BY <1>3, <2>1, MinIs
  <2>3. Min(I) \in 1..Len(s) /\ OurTable(s[Min(I)])
    BY <2>2
  <2>4. \A i \in 1..(Min(I) - 1) : i \in 1..Len(s) /\ i \notin I
    BY <2>2, <2>3
  <2> QED BY <1>1, <1>3, <2>3, <2>4 DEF NoTable
<1> QED BY <1>2, <1>3

\* After our table, only notes go with it.
LEMMA TableEndIs ==
  ASSUME NEW s \in Seq(Block), NEW start \in 1..Len(s)
  PROVE  /\ TableEnd(s, start) \in start..Len(s)
         /\ \A i \in (start + 1)..TableEnd(s, start) : s[i].is = "note"
<1> DEFINE H == {i \in (start + 1)..Len(s) : s[i].is # "note"}
<1>1. TableEnd(s, start) = IF H = {} THEN Len(s) ELSE Min(H) - 1
  BY DEF TableEnd
<1>2. CASE H = {}
  BY <1>1, <1>2
<1>3. CASE H # {}
  <2>1. H \subseteq Nat
    OBVIOUS
  <2>2. Min(H) \in H /\ \A k \in H : Min(H) <= k
    <3> HIDE DEF H
    <3> QED BY <1>3, <2>1, MinIs
  <2>3. Min(H) \in (start + 1)..Len(s)
    BY <2>2
  <2>4. \A i \in (start + 1)..(Min(H) - 1) : i \in (start + 1)..Len(s) /\ i \notin H
    BY <2>2, <2>3
  <2> QED BY <1>1, <1>3, <2>3, <2>4
<1> QED BY <1>2, <1>3

\* r is s with the blocks after a and up to z swapped for new.
Swapped(s, r, new, a, z) ==
  /\ a \in 0..Len(s) /\ z \in a..Len(s)
  /\ r \in Seq(Block) /\ Len(r) = a + Len(new) + (Len(s) - z)
  /\ \A i \in 1..a : r[i] = s[i]
  /\ \A i \in 1..Len(new) : r[a + i] = new[i]
  /\ \A j \in 1..(Len(s) - z) : r[a + Len(new) + j] = s[z + j]

\* What goes is our table, with the notes after it, or nothing.
Ceded(s, a, z) ==
  /\ \A i \in 1..a : ~OurTable(s[i])
  /\ a < z => OurTable(s[a + 1]) /\ \A i \in (a + 2)..z : s[i].is = "note"
  /\ a = z => NoTable(s)

\* Replaced swaps our table, or adds at the end.
LEMMA ReplacedIs ==
  ASSUME NEW s \in Seq(Block), NEW new \in Seq(Block)
  PROVE  \E a, z \in 0..Len(s) : Swapped(s, Replaced(s, new), new, a, z) /\ Ceded(s, a, z)
<1> DEFINE start == TableStart(s)
           r == Replaced(s, new)
<1>1. CASE start = 0
  <2>1. r = s \o new
    BY <1>1 DEF Replaced
  <2>2. r \in Seq(Block) /\ Len(r) = Len(s) + Len(new)
        /\ \A i \in 1..(Len(s) + Len(new)) : r[i] = IF i <= Len(s) THEN s[i] ELSE new[i - Len(s)]
    BY <2>1, ConcatProperties
  <2>3. Len(s) \in Nat /\ Len(new) \in Nat
    OBVIOUS
  <2> HIDE DEF r
  <2>4. Swapped(s, r, new, Len(s), Len(s))
    <3>1. \A i \in 1..Len(s) : r[i] = s[i]
      BY <2>2, <2>3
    <3>2. \A i \in 1..Len(new) : r[Len(s) + i] = new[i]
      BY <2>2, <2>3
    <3>3. Len(r) = Len(s) + Len(new) + (Len(s) - Len(s))
      BY <2>2, <2>3
    <3> QED BY <2>2, <2>3, <3>1, <3>2, <3>3 DEF Swapped
  <2>5. NoTable(s)
    BY <1>1, TableStartIs
  <2>6. Ceded(s, Len(s), Len(s))
    BY <2>3, <2>5 DEF Ceded, NoTable
  <2> QED BY <2>3, <2>4, <2>6 DEF r
<1>2. CASE start # 0
  <2>1. /\ start \in 1..Len(s) /\ OurTable(s[start])
        /\ \A i \in 1..(start - 1) : ~OurTable(s[i])
    BY <1>2, TableStartIs
  <2> DEFINE end == TableEnd(s, start)
             head == SubSeq(s, 1, start - 1)
             tail == SubSeq(s, end + 1, Len(s))
  <2>2. end \in start..Len(s) /\ \A i \in (start + 1)..end : s[i].is = "note"
    BY <2>1, TableEndIs
  <2>3. r = head \o new \o tail
    BY <1>2 DEF Replaced
  <2> HIDE DEF start, end, r
  <2>4. head \in Seq(Block) /\ Len(head) = start - 1 /\ \A i \in 1..(start - 1) : head[i] = s[i]
    <3>1. \A i \in 1..(start - 1) : s[i] \in Block
      BY <2>1
    <3>2. start - 1 \in Int /\ 1 \in Int
      BY <2>1
    <3>3. /\ SubSeq(s, 1, start - 1) \in Seq(Block)
          /\ Len(SubSeq(s, 1, start - 1)) = IF 1 <= start - 1 THEN (start - 1) - 1 + 1 ELSE 0
          /\ \A i \in 1..((start - 1) - 1 + 1) : SubSeq(s, 1, start - 1)[i] = s[1 + i - 1]
      BY <3>1, <3>2, SubSeqProperties
    <3> QED BY <2>1, <3>3
  <2>5. tail \in Seq(Block) /\ Len(tail) = Len(s) - end
        /\ \A j \in 1..(Len(s) - end) : tail[j] = s[end + j]
    <3>1. \A i \in (end + 1)..Len(s) : s[i] \in Block
      BY <2>1, <2>2
    <3>2. end + 1 \in Int /\ Len(s) \in Int
      BY <2>2
    <3>3. /\ SubSeq(s, end + 1, Len(s)) \in Seq(Block)
          /\ Len(SubSeq(s, end + 1, Len(s))) = IF end + 1 <= Len(s) THEN Len(s) - (end + 1) + 1 ELSE 0
          /\ \A i \in 1..(Len(s) - (end + 1) + 1) :
               SubSeq(s, end + 1, Len(s))[i] = s[(end + 1) + i - 1]
      BY <3>1, <3>2, SubSeqProperties
    <3> QED BY <2>1, <2>2, <3>3
  <2> HIDE DEF head, tail
  <2> DEFINE front == head \o new
  <2>6. front \in Seq(Block) /\ Len(front) = start - 1 + Len(new)
        /\ \A i \in 1..(start - 1 + Len(new)) :
             front[i] = IF i <= start - 1 THEN head[i] ELSE new[i - (start - 1)]
    <3>1. /\ front \in Seq(Block) /\ Len(front) = Len(head) + Len(new)
          /\ \A i \in 1..(Len(head) + Len(new)) :
               front[i] = IF i <= Len(head) THEN head[i] ELSE new[i - Len(head)]
      <4>1. head \in Seq(Block)
        BY <2>4
      <4> QED BY <4>1, ConcatProperties
    <3>2. Len(head) = start - 1
      BY <2>4
    <3> HIDE DEF front
    <3> QED BY <3>1, <3>2
  <2>7. r = front \o tail
    BY <2>3
  <2> HIDE DEF front
  <2>8. r \in Seq(Block) /\ Len(r) = Len(front) + Len(tail)
        /\ \A i \in 1..(Len(front) + Len(tail)) :
             r[i] = IF i <= Len(front) THEN front[i] ELSE tail[i - Len(front)]
    BY <2>5, <2>6, <2>7, ConcatProperties
  <2>9. Len(new) \in Nat /\ Len(s) \in Nat /\ start \in Nat /\ end \in Nat
    BY <2>1, <2>2
  <2>10. Swapped(s, r, new, start - 1, end)
    <3>1. \A i \in 1..(start - 1) : r[i] = s[i]
      <4>1. SUFFICES ASSUME NEW i \in 1..(start - 1) PROVE r[i] = s[i]
        OBVIOUS
      <4>2. i \in 1..(Len(front) + Len(tail)) /\ i <= Len(front) /\ i \in 1..(start - 1 + Len(new))
            /\ i <= start - 1
        BY <2>1, <2>2, <2>4, <2>5, <2>6, <2>9, <4>1
      <4>3. r[i] = front[i] /\ front[i] = head[i] /\ head[i] = s[i]
        BY <2>4, <2>6, <2>8, <4>1, <4>2
      <4> QED BY <4>3
    <3>2. \A i \in 1..Len(new) : r[(start - 1) + i] = new[i]
      <4>1. SUFFICES ASSUME NEW i \in 1..Len(new) PROVE r[(start - 1) + i] = new[i]
        OBVIOUS
      <4> DEFINE k == (start - 1) + i
      <4>2. k \in 1..(Len(front) + Len(tail)) /\ k <= Len(front) /\ k \in 1..(start - 1 + Len(new))
            /\ ~(k <= start - 1) /\ k - (start - 1) = i
        BY <2>1, <2>2, <2>4, <2>5, <2>6, <2>9, <4>1
      <4> HIDE DEF k
      <4>3. r[k] = front[k] /\ front[k] = new[i]
        BY <2>6, <2>8, <4>2
      <4> QED BY <4>3 DEF k
    <3>3. \A j \in 1..(Len(s) - end) : r[(start - 1) + Len(new) + j] = s[end + j]
      <4>1. SUFFICES ASSUME NEW j \in 1..(Len(s) - end)
                     PROVE  r[(start - 1) + Len(new) + j] = s[end + j]
        OBVIOUS
      <4> DEFINE k == (start - 1) + Len(new) + j
      <4>2. k \in 1..(Len(front) + Len(tail)) /\ ~(k <= Len(front)) /\ k - Len(front) = j
        BY <2>1, <2>2, <2>4, <2>5, <2>6, <2>9, <4>1
      <4> HIDE DEF k
      <4>3. r[k] = tail[j] /\ tail[j] = s[end + j]
        BY <2>5, <2>8, <4>1, <4>2
      <4> QED BY <4>3 DEF k
    <3>4. start - 1 \in 0..Len(s) /\ end \in (start - 1)..Len(s)
      BY <2>1, <2>2, <2>9
    <3>5. Len(r) = (start - 1) + Len(new) + (Len(s) - end)
      BY <2>5, <2>6, <2>8, <2>9
    <3> QED BY <2>8, <3>1, <3>2, <3>3, <3>4, <3>5 DEF Swapped
  <2>11. Ceded(s, start - 1, end)
    <3>1. (start - 1) + 1 = start /\ (start - 1) + 2 = start + 1 /\ ~(start - 1 = end)
      BY <2>2, <2>9
    <3> QED BY <2>1, <2>2, <3>1 DEF Ceded
  <2>12. start - 1 \in 0..Len(s) /\ end \in 0..Len(s)
    BY <2>1, <2>2, <2>9
  <2> QED BY <2>10, <2>11, <2>12 DEF r
<1> QED BY <1>1, <1>2

\* A document as JSON has it.
Plain(blocks) == \A i \in 1..Len(blocks) : blocks[i].is = "table"
\* A table of ours with a launch Setup writes.
EngineTable(blocks) == \E i \in 1..Len(blocks) : OurTable(blocks[i]) /\ blocks[i].launch \in Engines

\* In a document a parser accepts, any definition of a name is the one.
LEMMA LaunchIs ==
  ASSUME NEW s \in Seq(Block), NEW name, NEW i \in 1..Len(s), Defines(s[i], name), Valid(s)
  PROVE  Launch(s, name) = s[i].launch
<1> DEFINE j == CHOOSE j \in 1..Len(s) : Defines(s[j], name)
<1>1. j \in 1..Len(s) /\ Defines(s[j], name)
  OBVIOUS
<1>2. Launch(s, name) = s[j].launch
  BY DEF Launch
<1> HIDE DEF j
<1>3. s[j].name = name
  BY <1>1 DEF Defines
<1>4. i = j
  BY <1>1, <1>3 DEF Valid
<1> QED BY <1>2, <1>4

\* Where a block of the new document comes from.
Origin(k, a, z, n) == IF k <= a THEN k ELSE k - n + z - a

Traced(s, r, new, a, z) ==
  /\ \A k \in 1..Len(r) :
       \/ k \in (a + 1)..(a + Len(new)) /\ r[k] = new[k - a]
       \/ /\ ~(k \in (a + 1)..(a + Len(new)))
          /\ Origin(k, a, z, Len(new)) \in 1..Len(s)
          /\ ~(Origin(k, a, z, Len(new)) \in (a + 1)..z)
          /\ r[k] = s[Origin(k, a, z, Len(new))]
  /\ \A k, m \in 1..Len(r) :
       ~(k \in (a + 1)..(a + Len(new))) /\ ~(m \in (a + 1)..(a + Len(new)))
         /\ Origin(k, a, z, Len(new)) = Origin(m, a, z, Len(new)) => k = m

\* Every block of the new document is a new one, or comes from one place of the old.
LEMMA OriginIs ==
  ASSUME NEW s \in Seq(Block), NEW r, NEW new \in Seq(Block), NEW a, NEW z, Swapped(s, r, new, a, z)
  PROVE  Traced(s, r, new, a, z)
<1>1. Len(s) \in Nat /\ Len(new) \in Nat /\ a \in Nat /\ z \in Nat /\ a <= z /\ z <= Len(s)
      /\ Len(r) = a + Len(new) + (Len(s) - z)
  BY DEF Swapped
<1>2. ASSUME NEW k \in 1..Len(r)
      PROVE  \/ k \in (a + 1)..(a + Len(new)) /\ r[k] = new[k - a]
             \/ /\ ~(k \in (a + 1)..(a + Len(new)))
                /\ Origin(k, a, z, Len(new)) \in 1..Len(s)
                /\ ~(Origin(k, a, z, Len(new)) \in (a + 1)..z)
                /\ r[k] = s[Origin(k, a, z, Len(new))]
  <2>1. k \in Nat /\ k >= 1 /\ k <= Len(r)
    BY <1>1
  <2>2. CASE k <= a
    <3>1. Origin(k, a, z, Len(new)) = k
      BY <2>2 DEF Origin
    <3>2. k \in 1..a /\ r[k] = s[k]
      BY <1>1, <2>1, <2>2 DEF Swapped
    <3> QED BY <1>1, <2>1, <2>2, <3>1, <3>2
  <2>3. CASE k \in (a + 1)..(a + Len(new))
    <3>1. k - a \in 1..Len(new) /\ a + (k - a) = k
      BY <1>1, <2>1, <2>3
    <3>2. r[a + (k - a)] = new[k - a]
      BY <3>1 DEF Swapped
    <3> QED BY <2>3, <3>1, <3>2
  <2>4. CASE k > a + Len(new)
    <3> DEFINE j == k - a - Len(new)
    <3>1. j \in 1..(Len(s) - z) /\ a + Len(new) + j = k
      BY <1>1, <2>1, <2>4
    <3>2. r[a + Len(new) + j] = s[z + j]
      <4> HIDE DEF j
      <4> QED BY <3>1 DEF Swapped
    <3>3. Origin(k, a, z, Len(new)) = z + j
      BY <1>1, <2>1, <2>4 DEF Origin
    <3>4. z + j \in 1..Len(s) /\ ~(z + j \in (a + 1)..z) /\ ~(k \in (a + 1)..(a + Len(new)))
      BY <1>1, <2>1, <2>4, <3>1
    <3> HIDE DEF j
    <3> QED BY <3>1, <3>2, <3>3, <3>4
  <2> QED BY <1>1, <2>1, <2>2, <2>3, <2>4
<1>3. ASSUME NEW k \in 1..Len(r), NEW m \in 1..Len(r),
             ~(k \in (a + 1)..(a + Len(new))), ~(m \in (a + 1)..(a + Len(new))),
             Origin(k, a, z, Len(new)) = Origin(m, a, z, Len(new))
      PROVE  k = m
  BY <1>1, <1>3 DEF Origin
<1> QED BY <1>2, <1>3 DEF Traced

-----------------------------------------------------------------------------
(***************************************************************************)
(* What a change makes of a document.                                      *)
(***************************************************************************)
\* The servers of others stay as they are.
LEMMA OthersKept ==
  ASSUME NEW s \in Seq(Block), NEW new \in Seq(Block),
         \A i \in 1..Len(new) : new[i].name \in {Ours, "-"}
  PROVE  Others(Replaced(s, new)) = Others(s)
<1> DEFINE r == Replaced(s, new)
           dropped == {Ours, "-"}
<1>1. PICK a, z \in 0..Len(s) : Swapped(s, r, new, a, z) /\ Ceded(s, a, z)
  BY ReplacedIs
<1> HIDE DEF r, dropped
<1>2. /\ r \in Seq(Block) /\ Len(s) \in Nat /\ Len(new) \in Nat /\ a \in Nat /\ z \in Nat
      /\ a <= z /\ z <= Len(s) /\ Len(r) = a + Len(new) + (Len(s) - z)
  BY <1>1 DEF Swapped
<1>3. Kept(s, dropped)[0 + a] = Kept(r, dropped)[0 + a]
  <2> DEFINE o == 0
  <2>1. Kept(s, dropped)[o] = Kept(r, dropped)[o]
    BY <1>2, KeptIs
  <2>2. \A j \in 1..a : s[o + j] = r[o + j]
    BY <1>1, <1>2 DEF Swapped
  <2>3. o \in 0..Len(s) /\ o \in 0..Len(r) /\ o + a <= Len(s) /\ o + a <= Len(r)
    BY <1>2
  <2> HIDE DEF o
  <2>4. Alike(s, r, o, o, a)
    BY <1>2, <2>2, <2>3 DEF Alike
  <2>5. Kept(s, dropped)[o + a] = Kept(r, dropped)[o + a]
    BY <2>1, <2>4, KeptAgree
  <2> QED BY <2>5 DEF o
<1>4. Kept(s, dropped)[a + (z - a)] = Kept(s, dropped)[a]
  <2>1. \A j \in 1..(z - a) : s[a + j].name \in dropped
    <3>1. SUFFICES ASSUME NEW j \in 1..(z - a) PROVE s[a + j].name \in dropped
      OBVIOUS
    <3>2. a < z /\ a + j \in 1..Len(s) /\ (j # 1 => a + j \in (a + 2)..z)
      BY <1>2, <3>1
    <3>3. OurTable(s[a + 1]) /\ \A i \in (a + 2)..z : s[i].is = "note"
      BY <1>1, <3>2 DEF Ceded
    <3>4. CASE j = 1
      BY <3>3, <3>4 DEF OurTable, dropped
    <3>5. CASE j # 1
      <4>1. s[a + j] \in Block /\ s[a + j].is = "note"
        BY <3>2, <3>3, <3>5
      <4>2. s[a + j].name = "-"
        BY <4>1 DEF Block
      <4> QED BY <4>2 DEF dropped
    <3> QED BY <3>4, <3>5
  <2>2. z - a \in Nat /\ a + (z - a) <= Len(s)
    BY <1>2
  <2> QED BY <1>2, <2>1, <2>2, KeptSkips
<1>5. Kept(r, dropped)[a + Len(new)] = Kept(r, dropped)[a]
  <2>1. \A j \in 1..Len(new) : r[a + j].name \in dropped
    <3>1. SUFFICES ASSUME NEW j \in 1..Len(new) PROVE r[a + j].name \in dropped
      OBVIOUS
    <3>2. r[a + j] = new[j]
      BY <1>1 DEF Swapped
    <3> QED BY <3>2 DEF dropped
  <2>2. a \in 0..Len(r) /\ a + Len(new) <= Len(r)
    BY <1>2
  <2> QED BY <1>2, <2>1, <2>2, KeptSkips
<1>6. Kept(s, dropped)[z + (Len(s) - z)] = Kept(r, dropped)[(a + Len(new)) + (Len(s) - z)]
  <2> DEFINE c == a + Len(new)
             d == Len(s) - z
  <2>1. Kept(s, dropped)[z] = Kept(r, dropped)[c]
    <3>1. a + (z - a) = z /\ 0 + a = a
      BY <1>2
    <3> QED BY <1>3, <1>4, <1>5, <3>1
  <2>2. \A j \in 1..d : s[z + j] = r[c + j]
    BY <1>1 DEF Swapped
  <2>3. z \in 0..Len(s) /\ c \in 0..Len(r) /\ d \in Nat
        /\ z + d <= Len(s) /\ c + d <= Len(r)
    BY <1>2
  <2> HIDE DEF c, d
  <2>4. Alike(s, r, z, c, d)
    BY <1>2, <2>2, <2>3 DEF Alike
  <2>5. Kept(s, dropped)[z + d] = Kept(r, dropped)[c + d]
    BY <2>1, <2>4, KeptAgree
  <2> QED BY <2>5 DEF c, d
<1>7. Kept(s, dropped)[Len(s)] = Kept(r, dropped)[Len(r)]
  <2>1. z + (Len(s) - z) = Len(s) /\ (a + Len(new)) + (Len(s) - z) = Len(r)
    BY <1>2
  <2> QED BY <1>6, <2>1
<1>8. Others(r) = Kept(r, dropped)[Len(r)] /\ Others(s) = Kept(s, dropped)[Len(s)]
  BY <1>2, KeptIs DEF Others, dropped
<1> QED BY <1>7, <1>8 DEF r

\* A document without our table.
LEMMA StrippedIs ==
  ASSUME NEW s \in Seq(Block)
  PROVE  /\ Replaced(s, <<>>) \in Seq(Block)
         /\ Others(Replaced(s, <<>>)) = Others(s)
         /\ Plain(s) => Plain(Replaced(s, <<>>))
         /\ Valid(s) => /\ Valid(Replaced(s, <<>>)) /\ NoTable(Replaced(s, <<>>))
                        /\ Launch(Replaced(s, <<>>), Ours) \in {Launch(s, Ours), NoLaunch}
<1> DEFINE r == Replaced(s, <<>>)
<1>1. <<>> \in Seq(Block) /\ Len(<<>>) = 0
  OBVIOUS
<1>2. PICK a, z \in 0..Len(s) : Swapped(s, r, <<>>, a, z) /\ Ceded(s, a, z)
  BY <1>1, ReplacedIs
<1> HIDE DEF r
<1> DEFINE o(k) == Origin(k, a, z, 0)
<1>3. /\ \A k \in 1..Len(r) : o(k) \in 1..Len(s) /\ ~(o(k) \in (a + 1)..z) /\ r[k] = s[o(k)]
      /\ \A k, m \in 1..Len(r) : o(k) = o(m) => k = m
  <2>1. \A k \in 1..Len(r) : ~(k \in (a + 1)..(a + Len(<<>>)))
    BY <1>1, <1>2
  <2>2. Traced(s, r, <<>>, a, z)
    BY <1>1, <1>2, OriginIs
  <2> QED BY <1>1, <2>1, <2>2 DEF Traced
<1> HIDE DEF o
<1>4. r \in Seq(Block)
  BY <1>2 DEF Swapped
<1>5. Others(r) = Others(s)
  <2>1. \A i \in 1..Len(<<>>) : <<>>[i].name \in {Ours, "-"}
    BY <1>1
  <2> QED BY <1>1, <2>1, OthersKept DEF r
<1>6. Plain(s) => Plain(r)
  BY <1>3 DEF Plain
<1>7. ASSUME Valid(s) PROVE Valid(r)
  <2>1. ASSUME NEW k \in 1..Len(r), NEW m \in 1..Len(r),
               Defines(r[k], r[k].name), Defines(r[m], r[k].name)
        PROVE  k = m
    <3>1. o(k) \in 1..Len(s) /\ o(m) \in 1..Len(s) /\ r[k] = s[o(k)] /\ r[m] = s[o(m)]
      BY <1>3
    <3>2. o(k) = o(m)
      BY <1>7, <2>1, <3>1 DEF Valid
    <3> QED BY <1>3, <3>2
  <2>2. ASSUME NEW k \in 1..Len(r), NEW m \in 1..Len(r), r[k].is = "inline"
        PROVE  r[m].is \notin {"table", "sub"}
    <3>1. o(k) \in 1..Len(s) /\ o(m) \in 1..Len(s) /\ r[k] = s[o(k)] /\ r[m] = s[o(m)]
      BY <1>3
    <3>2. Inline(s)
      BY <2>2, <3>1 DEF Inline
    <3> QED BY <1>7, <3>1, <3>2 DEF Valid
  <2> QED BY <2>1, <2>2 DEF Valid, Inline
<1>9. ASSUME Valid(s) PROVE Launch(r, Ours) \in {Launch(s, Ours), NoLaunch}
  <2>1. CASE \E k \in 1..Len(r) : Defines(r[k], Ours)
    <3>1. PICK k \in 1..Len(r) : Defines(r[k], Ours)
      BY <2>1
    <3>2. o(k) \in 1..Len(s) /\ r[k] = s[o(k)]
      BY <1>3
    <3>3. Launch(r, Ours) = r[k].launch
      BY <1>4, <1>7, <1>9, <3>1, LaunchIs
    <3>4. Launch(s, Ours) = s[o(k)].launch
      BY <1>9, <3>1, <3>2, LaunchIs
    <3> QED BY <3>2, <3>3, <3>4
  <2>2. CASE ~\E k \in 1..Len(r) : Defines(r[k], Ours)
    BY <2>2 DEF Launch
  <2> QED BY <2>1, <2>2
<1>8. ASSUME Valid(s) PROVE NoTable(r)
  <2>1. SUFFICES ASSUME NEW k \in 1..Len(r), OurTable(r[k]) PROVE FALSE
    BY DEF NoTable
  <2>2. o(k) \in 1..Len(s) /\ ~(o(k) \in (a + 1)..z) /\ OurTable(s[o(k)])
    BY <1>3, <2>1
  <2>3. CASE a < z
    <3>1. a + 1 \in 1..Len(s) /\ a + 1 \in (a + 1)..z
      BY <1>2, <2>3
    <3>2. OurTable(s[a + 1])
      BY <1>2, <2>3 DEF Ceded
    <3>3. a + 1 = o(k)
      BY <1>8, <2>2, <3>1, <3>2 DEF Valid, Defines, OurTable
    <3> QED BY <2>2, <3>1, <3>3
  <2>4. CASE a = z
    BY <1>2, <2>2, <2>4 DEF Ceded, NoTable
  <2>5. a <= z
    BY <1>2 DEF Swapped
  <2> QED BY <2>3, <2>4, <2>5
<1> QED BY <1>4, <1>5, <1>6, <1>7, <1>8, <1>9 DEF r

\* A document with a new table of ours.
LEMMA AddedIs ==
  ASSUME NEW s \in Seq(Block), NEW l \in Launches
  PROVE  LET r == Replaced(s, <<Table(Ours, l)>>)
         IN  /\ r \in Seq(Block)
             /\ Others(r) = Others(s)
             /\ Plain(s) => Plain(r)
             /\ Valid(s) /\ TakesOurTable(s) => Valid(r)
             /\ Valid(r) => Launch(r, Ours) = l
<1> DEFINE new == <<Table(Ours, l)>>
           r == Replaced(s, new)
<1>1. new \in Seq(Block) /\ Len(new) = 1 /\ new[1] = Table(Ours, l)
  BY DEF Block, Table, Names
<1> HIDE DEF new
<1>2. PICK a, z \in 0..Len(s) : Swapped(s, r, new, a, z) /\ Ceded(s, a, z)
  BY <1>1, ReplacedIs
<1> HIDE DEF r
<1> DEFINE o(k) == Origin(k, a, z, 1)
<1>3. /\ \A k \in 1..Len(r) :
           \/ k = a + 1
           \/ o(k) \in 1..Len(s) /\ ~(o(k) \in (a + 1)..z) /\ r[k] = s[o(k)]
      /\ \A k, m \in 1..Len(r) : k # a + 1 /\ m # a + 1 /\ o(k) = o(m) => k = m
  <2>1. \A k \in 1..Len(r) : k \in (a + 1)..(a + Len(new)) <=> k = a + 1
    BY <1>1, <1>2
  <2>2. Traced(s, r, new, a, z)
    BY <1>1, <1>2, OriginIs
  <2> QED BY <1>1, <2>1, <2>2 DEF Traced
<1> HIDE DEF o
<1>4. r \in Seq(Block) /\ a + 1 \in 1..Len(r) /\ r[a + 1] = Table(Ours, l)
  <2>1. r \in Seq(Block) /\ Len(r) = a + 1 + (Len(s) - z) /\ z <= Len(s) /\ r[a + 1] = new[1]
    BY <1>1, <1>2 DEF Swapped
  <2>2. Len(s) \in Nat
    OBVIOUS
  <2> QED BY <1>1, <1>2, <2>1, <2>2
<1>5. Others(r) = Others(s)
  <2>1. \A i \in 1..Len(new) : new[i].name \in {Ours, "-"}
    BY <1>1 DEF Table
  <2> QED BY <1>1, <2>1, OthersKept DEF r
<1>6. Plain(s) => Plain(r)
  BY <1>3, <1>4 DEF Plain, Table
<1>7. ASSUME Valid(s), TakesOurTable(s) PROVE Valid(r)
  <2>1. ASSUME NEW k \in 1..Len(r), Defines(r[k], Ours), k # a + 1
        PROVE  FALSE
    <3>1. o(k) \in 1..Len(s) /\ ~(o(k) \in (a + 1)..z) /\ OurTable(s[o(k)])
      BY <1>3, <1>7, <2>1 DEF TakesOurTable, OurTable, Defines
    <3>2. CASE a < z
      <4>1. a + 1 \in 1..Len(s) /\ a + 1 \in (a + 1)..z
        BY <1>2, <3>2
      <4>2. OurTable(s[a + 1])
        BY <1>2, <3>2 DEF Ceded
      <4>3. a + 1 = o(k)
        BY <1>7, <3>1, <4>1, <4>2 DEF Valid, Defines, OurTable
      <4> QED BY <3>1, <4>1, <4>3
    <3>3. CASE a = z
      BY <1>2, <3>1, <3>3 DEF Ceded, NoTable
    <3>4. a <= z
      BY <1>2 DEF Swapped
    <3> QED BY <3>2, <3>3, <3>4
  <2>2. ASSUME NEW k \in 1..Len(r), NEW m \in 1..Len(r),
               Defines(r[k], r[k].name), Defines(r[m], r[k].name)
        PROVE  k = m
    <3>1. CASE k = a + 1
      <4>1. Defines(r[m], Ours)
        BY <1>4, <2>2, <3>1 DEF Table
      <4> QED BY <2>1, <3>1, <4>1
    <3>2. CASE m = a + 1
      <4>1. r[k].name = Ours
        BY <1>4, <2>2, <3>2 DEF Table, Defines
      <4> QED BY <2>1, <2>2, <3>2, <4>1
    <3>3. CASE k # a + 1 /\ m # a + 1
      <4>1. o(k) = o(m)
        BY <1>3, <1>7, <2>2, <3>3 DEF Valid
      <4> QED BY <1>3, <3>3, <4>1
    <3> QED BY <3>1, <3>2, <3>3
  <2>3. ASSUME NEW k \in 1..Len(r)
        PROVE  r[k].is # "inline"
    <3>1. CASE k = a + 1
      BY <1>4, <3>1 DEF Table
    <3>2. CASE k # a + 1
      <4>1. o(k) \in 1..Len(s) /\ r[k] = s[o(k)]
        BY <1>3, <3>2
      <4> QED BY <1>7, <4>1 DEF TakesOurTable
    <3> QED BY <3>1, <3>2
  <2> QED BY <2>2, <2>3 DEF Valid, Inline
<1>8. ASSUME Valid(r) PROVE Launch(r, Ours) = l
  <2>1. Defines(r[a + 1], Ours) /\ r[a + 1].launch = l
    BY <1>4 DEF Table, Defines
  <2> QED BY <1>4, <1>8, <2>1, LaunchIs
<1> QED BY <1>4, <1>5, <1>6, <1>7, <1>8 DEF r, new

\* A document that other hands have made of s.
Remade(s, e) ==
  /\ e \in Seq(Block)
  /\ Valid(s) => Valid(e)
  /\ EngineTable(e) => EngineTable(s)

\* Blocks of some name dropped.
LEMMA ThinnedIs ==
  ASSUME NEW s \in Seq(Block), NEW names
  PROVE  Remade(s, Without(s, names)) /\ (Plain(s) => Plain(Without(s, names)))
<1> DEFINE e == Without(s, names)
<1>1. PICK h : Picks(e, s, Len(s), h)
  BY KeptPicks
<1> HIDE DEF e
<1>2. /\ e \in Seq(Block)
      /\ \A p \in 1..Len(e) : h[p] \in 1..Len(s) /\ e[p] = s[h[p]]
      /\ \A p, q \in 1..Len(e) : p < q => h[p] < h[q]
  BY <1>1 DEF Picks
<1>3. ASSUME NEW p \in 1..Len(e), NEW q \in 1..Len(e), h[p] = h[q]
      PROVE  p = q
  <2>1. p \in Nat /\ q \in Nat /\ h[p] \in Nat
    BY <1>2
  <2> QED BY <1>2, <1>3, <2>1
<1>4. ASSUME Valid(s) PROVE Valid(e)
  <2>1. ASSUME NEW p \in 1..Len(e), NEW q \in 1..Len(e)
        PROVE  h[p] \in 1..Len(s) /\ h[q] \in 1..Len(s) /\ e[p] = s[h[p]] /\ e[q] = s[h[q]]
    BY <1>2
  <2>2. ASSUME NEW p \in 1..Len(e), NEW q \in 1..Len(e),
               Defines(e[p], e[p].name), Defines(e[q], e[p].name)
        PROVE  p = q
    <3>1. h[p] = h[q]
      BY <1>4, <2>1, <2>2 DEF Valid
    <3> QED BY <1>3, <3>1
  <2>3. ASSUME NEW p \in 1..Len(e), NEW q \in 1..Len(e), e[p].is = "inline"
        PROVE  e[q].is \notin {"table", "sub"}
    <3>1. Inline(s)
      BY <2>1, <2>3 DEF Inline
    <3> QED BY <1>4, <2>1, <3>1 DEF Valid
  <2> QED BY <2>2, <2>3 DEF Valid, Inline
<1>5. EngineTable(e) => EngineTable(s)
  BY <1>2 DEF EngineTable
<1>6. Plain(s) => Plain(e)
  BY <1>2 DEF Plain
<1> QED BY <1>2, <1>4, <1>5, <1>6 DEF e, Remade

\* A block added, whose name is new, and that is no header under an inline parent.
LEMMA ExtendedIs ==
  ASSUME NEW s \in Seq(Block), NEW b \in Block, b.launch \notin Engines,
         b.is = "note" \/ ~Listed(s, b.name),
         b.is \in {"note", "spelled"} \/ (b.is = "table" /\ ~Inline(s))
  PROVE  Remade(s, Append(s, b)) /\ (Plain(s) /\ b.is = "table" => Plain(Append(s, b)))
<1> DEFINE e == Append(s, b)
<1>1. /\ e \in Seq(Block) /\ Len(e) = Len(s) + 1 /\ Len(s) \in Nat /\ e[Len(s) + 1] = b
      /\ \A i \in 1..Len(s) : e[i] = s[i]
  OBVIOUS
<1> HIDE DEF e
<1>2. \A i \in 1..Len(e) : i = Len(s) + 1 \/ i \in 1..Len(s)
  BY <1>1
<1>3. ASSUME NEW i \in 1..Len(s) PROVE ~Defines(b, s[i].name) /\ ~Defines(s[i], b.name)
  <2>1. b.is = "note" => ~Defines(b, s[i].name)
    BY DEF Defines
  <2>2. b.is = "note" => b.name = "-"
    BY DEF Block
  <2>3. s[i].name = "-" => ~Defines(s[i], "-")
    <3>1. s[i] \in Block
      OBVIOUS
    <3> QED BY <3>1 DEF Block, Defines, Names, Ours
  <2>4. s[i].name # "-" => ~Defines(s[i], "-")
    BY DEF Defines
  <2>5. ~Listed(s, b.name) => s[i].name # b.name
    BY DEF Listed
  <2> QED BY <2>1, <2>2, <2>3, <2>4, <2>5 DEF Defines
<1>4. ASSUME Valid(s) PROVE Valid(e)
  <2>1. ASSUME NEW i \in 1..Len(e), NEW j \in 1..Len(e),
               Defines(e[i], e[i].name), Defines(e[j], e[i].name)
        PROVE  i = j
    BY <1>1, <1>2, <1>3, <1>4, <2>1 DEF Valid
  <2>2. ASSUME Inline(e), NEW j \in 1..Len(e)
        PROVE  e[j].is \notin {"table", "sub"}
    <3>1. Inline(s)
      BY <1>1, <1>2, <2>2 DEF Inline
    <3> QED BY <1>1, <1>2, <1>4, <3>1 DEF Valid
  <2> QED BY <2>1, <2>2 DEF Valid
<1>5. EngineTable(e) => EngineTable(s)
  BY <1>1, <1>2 DEF EngineTable
<1>6. Plain(s) /\ b.is = "table" => Plain(e)
  BY <1>1, <1>2 DEF Plain
<1> QED BY <1>1, <1>4, <1>5, <1>6 DEF e, Remade

\* Our entries changed in place.
LEMMA ChangedIs ==
  ASSUME NEW s \in Seq(Block), NEW e, e \in Seq(Block), Len(e) = Len(s),
         \A i \in 1..Len(s) :
           \/ e[i] = s[i]
           \/ /\ Defines(s[i], Ours) /\ Defines(e[i], Ours)
              /\ e[i].is \in {s[i].is, "spelled"}
              /\ e[i].is = "spelled" \/ e[i].launch \notin Engines
  PROVE  Remade(s, e)
<1>1. \A i \in 1..Len(s) : \A n : Defines(s[i], n) <=> Defines(e[i], n)
  BY DEF Defines
<1>2. \A i \in 1..Len(s) : s[i].name = e[i].name
  BY DEF Defines
<1>3. ASSUME Valid(s) PROVE Valid(e)
  <2>1. ASSUME NEW i \in 1..Len(e), NEW j \in 1..Len(e),
               Defines(e[i], e[i].name), Defines(e[j], e[i].name)
        PROVE  i = j
    BY <1>1, <1>2, <1>3, <2>1 DEF Valid
  <2>2. \A i \in 1..Len(s) : e[i].is \in {s[i].is, "spelled"}
    OBVIOUS
  <2>3. ASSUME Inline(e), NEW j \in 1..Len(e)
        PROVE  e[j].is \notin {"table", "sub"}
    <3>1. Inline(s)
      BY <2>2, <2>3 DEF Inline
    <3> QED BY <1>3, <2>2, <3>1 DEF Valid
  <2> QED BY <2>1, <2>3 DEF Valid
<1>4. EngineTable(e) => EngineTable(s)
  <2>1. ASSUME NEW i \in 1..Len(e), OurTable(e[i]), e[i].launch \in Engines
        PROVE  EngineTable(s)
    <3>1. e[i] = s[i] /\ i \in 1..Len(s)
      BY <2>1 DEF OurTable
    <3> QED BY <2>1, <3>1 DEF EngineTable
  <2> QED BY <2>1 DEF EngineTable
<1> QED BY <1>3, <1>4 DEF Remade

\* All that users and clients do to a document.
LEMMA EditedIs ==
  ASSUME NEW s \in Seq(Block), NEW e \in Edited(s)
  PROVE  Remade(s, e) /\ (kind # "toml" /\ Plain(s) => Plain(e))
<1> USE AdapterAssumption
<1> DEFINE Foreigner == [i \in 1..Len(s) |-> IF Defines(s[i], Ours)
                                             THEN [s[i] EXCEPT !.launch = Foreign] ELSE s[i]]
           Respelled == [i \in 1..Len(s) |-> IF Defines(s[i], Ours)
                                             THEN [s[i] EXCEPT !.is = "spelled"] ELSE s[i]]
           Note == [is |-> "note", name |-> "-", launch |-> NoLaunch]
<1>1. \/ \E n \in Names : e = Without(s, {n})
      \/ \E n \in Names : ~Listed(s, n) /\ e = Append(s, Entry(s, n))
      \/ e = Foreigner
      \/ kind = "toml" /\ e = Respelled
      \/ kind = "toml" /\ e = Append(s, Note)
  BY DEF Edited
<1>2. CASE \E n \in Names : e = Without(s, {n})
  BY <1>2, ThinnedIs
<1>3. CASE \E n \in Names : ~Listed(s, n) /\ e = Append(s, Entry(s, n))
  <2>1. PICK n \in Names : ~Listed(s, n) /\ e = Append(s, Entry(s, n))
    BY <1>3
  <2>2. Entry(s, n) \in Block /\ Entry(s, n).launch \notin Engines /\ Entry(s, n).name = n
        /\ Entry(s, n).is = IF Inline(s) THEN "spelled" ELSE "table"
    BY DEF Entry, Table, Block, Launches
  <2>3. Plain(s) => ~Inline(s)
    BY DEF Plain, Inline
  <2> QED BY <2>1, <2>2, <2>3, ExtendedIs
<1>4. ASSUME NEW i \in 1..Len(s), Defines(s[i], Ours)
      PROVE  /\ [s[i] EXCEPT !.launch = Foreign] \in Block
             /\ [s[i] EXCEPT !.is = "spelled"] \in Block
             /\ [s[i] EXCEPT !.launch = Foreign].is = s[i].is
             /\ [s[i] EXCEPT !.launch = Foreign].name = s[i].name
             /\ [s[i] EXCEPT !.launch = Foreign].launch = Foreign
             /\ [s[i] EXCEPT !.is = "spelled"].is = "spelled"
             /\ [s[i] EXCEPT !.is = "spelled"].name = s[i].name
  <2>1. s[i] \in Block
    OBVIOUS
  <2>2. s[i] \in [is: {"table", "spelled", "sub"}, name: Names, launch: Launches \union {NoLaunch}]
    BY <1>4, <2>1 DEF Block, Defines
  <2> QED BY <2>2 DEF Block, Launches
<1>5. CASE e = Foreigner
  <2>1. \A i \in 1..Len(s) : Foreigner[i] \in Block
    <3>1. SUFFICES ASSUME NEW i \in 1..Len(s) PROVE Foreigner[i] \in Block
      OBVIOUS
    <3>2. s[i] \in Block
      OBVIOUS
    <3>3. CASE Defines(s[i], Ours)
      BY <1>4, <3>3
    <3>4. CASE ~Defines(s[i], Ours)
      BY <3>2, <3>4
    <3> QED BY <3>3, <3>4
  <2>2. Foreigner \in Seq(Block) /\ Len(Foreigner) = Len(s)
    BY <2>1
  <2>3. \A i \in 1..Len(s) :
          \/ Foreigner[i] = s[i]
          \/ /\ Defines(s[i], Ours) /\ Defines(Foreigner[i], Ours)
             /\ Foreigner[i].is = s[i].is /\ Foreigner[i].launch \notin Engines
    BY <1>4 DEF Defines
  <2>4. Plain(s) => Plain(Foreigner)
    BY <1>4, <2>2 DEF Plain
  <2> HIDE DEF Foreigner
  <2>5. Remade(s, Foreigner)
    BY <2>2, <2>3, ChangedIs
  <2> QED BY <1>5, <2>4, <2>5
<1>6. CASE kind = "toml" /\ e = Respelled
  <2>1. \A i \in 1..Len(s) : Respelled[i] \in Block
    <3>1. SUFFICES ASSUME NEW i \in 1..Len(s) PROVE Respelled[i] \in Block
      OBVIOUS
    <3>2. s[i] \in Block
      OBVIOUS
    <3>3. CASE Defines(s[i], Ours)
      BY <1>4, <3>3
    <3>4. CASE ~Defines(s[i], Ours)
      BY <3>2, <3>4
    <3> QED BY <3>3, <3>4
  <2>2. Respelled \in Seq(Block) /\ Len(Respelled) = Len(s)
    BY <2>1
  <2>3. \A i \in 1..Len(s) :
          \/ Respelled[i] = s[i]
          \/ Defines(s[i], Ours) /\ Defines(Respelled[i], Ours) /\ Respelled[i].is = "spelled"
    BY <1>4 DEF Defines
  <2> HIDE DEF Respelled
  <2>5. Remade(s, Respelled)
    BY <2>2, <2>3, ChangedIs
  <2> QED BY <1>6, <2>5
<1>7. CASE kind = "toml" /\ e = Append(s, Note)
  <2>1. Note \in Block /\ Note.launch \notin Engines /\ Note.is = "note"
    BY DEF Block
  <2> QED BY <1>7, <2>1, ExtendedIs
<1> QED BY <1>1, <1>2, <1>3, <1>5, <1>6, <1>7

-----------------------------------------------------------------------------
(***************************************************************************)
(* The invariant.                                                          *)
(***************************************************************************)
\* The adapters that write a file themselves.
InFiles == kind \in {"json", "toml"}
Changes == plan.action \in {"add", "update", "replace"}

Outcomes == {"none", "registered", "failed", "raised", "disconnected", "cut short"}

\* The types, with those of whole documents.
Typed ==
  /\ kind \in Kinds
  /\ file \in File
  /\ here \in Engines
  /\ owned \in Engines \union {NoLaunch}
  /\ plan \in Plan \union {NoPlan}
  /\ at \in Points
  /\ read \in Seq(Block)
  /\ read # <<>> => at \in {"write", "readback", "strip write", "save removed"}
  /\ outcome \in Outcomes
  /\ touched \subseteq {"review", "read", "edit"}
  /\ edits \in 0..MaxEdits

\* The flags.
Flags == removable \in BOOLEAN /\ connected \in BOOLEAN /\ altered \in BOOLEAN /\ broken \in BOOLEAN

\* The file defines each name once, or a TOML parser refuses it.
FileOK ==
  /\ kind # "toml" => Plain(file.blocks)
  /\ Valid(file.blocks) \/ (kind = "toml" /\ file.state = "unreadable")

\* What is held is what the file says, if nobody touched it since.
ReadOK ==
  at \in {"write", "strip write"} =>
    /\ Valid(read)
    /\ kind # "toml" => Plain(read)
    /\ "read" \notin touched => read = file.blocks

\* Which adapter makes which calls, and why.
CallOK ==
  /\ kind = "manual" => plan.action = "none"
  /\ at \in {"read", "write"} => InFiles /\ Changes
  /\ at \in {"cli remove", "cli add"} => kind = "command" /\ Changes
  /\ at = "readback" => plan # NoPlan
  /\ at \in {"strip read", "strip write"} => InFiles
  /\ at = "cli strip" => kind = "command"
  /\ at \in {"strip read", "strip write", "cli strip"} => "review" \in touched
  /\ at # "idle" => outcome = "none"

\* What the client launches under our name, in a file f.
Launched(f) == Launch(IF f.state = "document" THEN f.blocks ELSE <<>>, Ours)

\* The plan says of the entry what is there, until somebody changes it.
ReviewOK ==
  kind # "manual" /\ plan # NoPlan /\ "review" \notin touched =>
    /\ plan.action = "none" => Launched(file) = plan.launch
    /\ InFiles /\ plan.action \in {"add", "update"} => Launched(file) # Foreign

\* What a write leaves is what was planned.
MadeOK ==
  kind # "manual" /\ touched = {} =>
    /\ at = "readback" => Launched(file) = plan.launch
                          \/ (InFiles /\ file.state \notin {"absent", "document", "misused"})
    /\ outcome = "registered" => owned = plan.launch /\ Launched(file) = owned

\* An engine's table is recorded, or about to be.
OwnOK ==
  /\ EngineTable(file.blocks) => owned # NoLaunch \/ broken \/ at = "readback"
  /\ at = "save removed" => ~EngineTable(file.blocks)

Inv == Typed /\ FileOK /\ ReadOK /\ CallOK /\ ReviewOK /\ MadeOK

\* No document in memory.
LEMMA NothingHeld == <<>> \in Seq(Block)
OBVIOUS

\* Where there is no document there is no entry.
LEMMA NothingLaunched == \A f : f.state # "document" => Launched(f) = NoLaunch
BY DEF Launched, Launch

\* A plan that was reviewed is for an engine.
LEMMA PlanIs ==
  ASSUME Typed
  PROVE  /\ plan # NoPlan => plan.launch \in Engines /\ plan.launch \in Launches
                             /\ plan.launch # Foreign /\ plan.launch # NoLaunch
         /\ plan = NoPlan => plan.action = "none" /\ plan.launch = NoLaunch
         /\ Changes => plan # NoPlan
<1>1. plan \in Plan \union {NoPlan}
  BY DEF Typed
<1>2. plan # NoPlan => plan.launch \in Engines
  BY <1>1 DEF Plan
<1>3. \A l \in Engines : l # Foreign /\ l # NoLaunch /\ l \in Launches
  BY AdapterAssumption DEF Launches
<1>4. NoPlan.action = "none" /\ NoPlan.launch = NoLaunch
  BY DEF NoPlan
<1> QED BY <1>2, <1>3, <1>4 DEF Changes

\* Writing the entry, over a document s that the parser accepts.
LEMMA WrittenIs ==
  ASSUME NEW s \in Seq(Block), NEW l \in Launches, Typed, Valid(s), kind # "toml" => Plain(s)
  PROVE  LET w == Written(Replaced(s, <<Table(Ours, l)>>))
         IN  /\ w \in File /\ w.state \in {"document", "unreadable"}
             /\ kind # "toml" => Plain(w.blocks)
             /\ Valid(w.blocks) \/ (kind = "toml" /\ w.state = "unreadable")
             /\ w.state = "document" => Launched(w) = l
             /\ TakesOurTable(s) /\ file.state # "misused" => w.state = "document"
             /\ Others(w.blocks) = Others(s)
<1> DEFINE r == Replaced(s, <<Table(Ours, l)>>)
           w == Written(r)
<1>1. /\ r \in Seq(Block)
      /\ Others(r) = Others(s)
      /\ Plain(s) => Plain(r)
      /\ Valid(s) /\ TakesOurTable(s) => Valid(r)
      /\ Valid(r) => Launch(r, Ours) = l
  BY AddedIs
<1>2. Plain(s) => TakesOurTable(s)
  BY DEF Plain, TakesOurTable
<1> HIDE DEF r
<1>3. /\ w.blocks = r /\ w.state = IF Valid(r) /\ file.state # "misused" THEN "document" ELSE "unreadable"
      /\ w \in File
  BY <1>1 DEF Written, File, States
<1> HIDE DEF w
<1>4. w.state = "document" => Launched(w) = l
  BY <1>1, <1>3 DEF Launched
<1>5. Valid(w.blocks) \/ (kind = "toml" /\ w.state = "unreadable")
  BY <1>1, <1>2, <1>3
<1> QED BY <1>1, <1>3, <1>4, <1>5 DEF r, w

\* Taking the entry out.
LEMMA StruckIs ==
  ASSUME NEW s \in Seq(Block), Typed, Valid(s), kind # "toml" => Plain(s)
  PROVE  LET w == Written(Replaced(s, <<>>))
         IN  /\ w \in File /\ w.state \in {"document", "unreadable"}
             /\ kind # "toml" => Plain(w.blocks)
             /\ Valid(w.blocks) /\ NoTable(w.blocks)
             /\ file.state # "misused" => w.state = "document"
             /\ Others(w.blocks) = Others(s)
             /\ Launched(w) \in {Launch(s, Ours), NoLaunch}
<1> DEFINE r == Replaced(s, <<>>)
           w == Written(r)
<1>1. /\ r \in Seq(Block)
      /\ Others(r) = Others(s)
      /\ Plain(s) => Plain(r)
      /\ Valid(r) /\ NoTable(r)
      /\ Launch(r, Ours) \in {Launch(s, Ours), NoLaunch}
  BY StrippedIs
<1> HIDE DEF r
<1>3. /\ w.blocks = r /\ w.state = IF Valid(r) /\ file.state # "misused" THEN "document" ELSE "unreadable"
      /\ w \in File
  BY <1>1 DEF Written, File, States
<1> HIDE DEF w
<1>4. Launched(w) \in {Launch(s, Ours), NoLaunch}
  BY <1>1, <1>3, NothingLaunched DEF Launched
<1> QED BY <1>1, <1>3, <1>4 DEF r, w

\* What the client's command makes of its file.
LEMMA CommandIs ==
  ASSUME Typed, FileOK, kind = "command"
  PROVE  /\ plan # NoPlan =>
              /\ Done \in File /\ Done.state = "document"
              /\ Plain(Done.blocks) /\ Valid(Done.blocks)
              /\ Launched(Done) = plan.launch /\ Others(Done.blocks) = Others(file.blocks)
         /\ Stripped \in File /\ Stripped.state = file.state
         /\ Plain(Stripped.blocks) /\ Valid(Stripped.blocks) /\ NoTable(Stripped.blocks)
         /\ Others(Stripped.blocks) = Others(file.blocks)
         /\ Launched(Stripped) \in {Launched(file), NoLaunch}
<1>1. file \in File /\ file.blocks \in Seq(Block) /\ Plain(file.blocks) /\ Valid(file.blocks)
      /\ TakesOurTable(file.blocks)
  BY DEF Typed, FileOK, File, TakesOurTable, Plain
<1>2. ASSUME plan # NoPlan
      PROVE  /\ Done \in File /\ Done.state = "document"
             /\ Plain(Done.blocks) /\ Valid(Done.blocks)
             /\ Launched(Done) = plan.launch /\ Others(Done.blocks) = Others(file.blocks)
  <2> DEFINE r == Replaced(file.blocks, <<Table(Ours, plan.launch)>>)
  <2>1. plan.launch \in Launches
    BY <1>2, PlanIs
  <2>2. /\ r \in Seq(Block) /\ Others(r) = Others(file.blocks) /\ Plain(r) /\ Valid(r)
        /\ Launch(r, Ours) = plan.launch
    BY <1>1, <2>1, AddedIs
  <2>3. Done = [file EXCEPT !.state = "document", !.blocks = r]
    BY DEF Done
  <2> HIDE DEF r
  <2>4. Done \in File /\ Done.state = "document" /\ Done.blocks = r
    BY <1>1, <2>2, <2>3 DEF File, States
  <2> QED BY <2>2, <2>4 DEF Launched
<1>3. /\ Stripped \in File /\ Stripped.state = file.state
      /\ Plain(Stripped.blocks) /\ Valid(Stripped.blocks) /\ NoTable(Stripped.blocks)
      /\ Others(Stripped.blocks) = Others(file.blocks)
      /\ Launched(Stripped) \in {Launched(file), NoLaunch}
  <2> DEFINE r == Replaced(file.blocks, <<>>)
  <2>2. /\ r \in Seq(Block) /\ Others(r) = Others(file.blocks) /\ Plain(r) /\ Valid(r) /\ NoTable(r)
        /\ Launch(r, Ours) \in {Launch(file.blocks, Ours), NoLaunch}
    BY <1>1, StrippedIs
  <2>3. Stripped = [file EXCEPT !.blocks = r]
    BY DEF Stripped
  <2> HIDE DEF r
  <2>4. Stripped \in File /\ Stripped.state = file.state /\ Stripped.blocks = r
    BY <1>1, <2>2, <2>3 DEF File
  <2>5. Launched(Stripped) \in {Launched(file), NoLaunch}
    BY <2>2, <2>4, NothingLaunched DEF Launched
  <2> QED BY <2>2, <2>4, <2>5
<1> QED BY <1>2, <1>3

-----------------------------------------------------------------------------
(***************************************************************************)
(* Registering.                                                            *)
(***************************************************************************)
\* A review looks at what is there.
LEMMA ReviewKeeps ==
  ASSUME Inv, Review PROVE Inv'
<1> USE DEF Inv
<1>1. /\ at = "idle" /\ at' = at /\ outcome' = "none" /\ touched' = {}
      /\ kind' = kind /\ removable' = removable /\ here' = here /\ edits' = edits
      /\ file' = file /\ owned' = owned /\ connected' = connected /\ read' = read
      /\ broken' = broken
  BY DEF Review, world
<1>2. PICK takeover \in BOOLEAN,
           seen \in {Servers} \union (IF kind = "command" THEN {<<>>} ELSE {}) :
        plan' = [action |-> PlannedAction(seen, takeover), launch |-> here]
  BY DEF Review
<1>3. plan'.launch = here /\ plan'.action = PlannedAction(seen, takeover)
  BY <1>2
<1>4. Launch(Servers, Ours) = Launched(file)
  BY DEF Servers, Launched
<1>5. PlannedAction(seen, takeover) \in Actions
  <2>1. Classify(Launch(seen, Ours)) = "ours" \/ Classify(Launch(seen, Ours)) # "ours"
    OBVIOUS
  <2> QED BY DEF PlannedAction, Actions
<1>6. here \in Engines
  BY DEF Typed, Outcomes
<1>7. Typed'
  <2>1. plan' \in Plan
    BY <1>2, <1>5, <1>6 DEF Plan
  <2> QED BY <1>1, <2>1 DEF Typed, Outcomes
<1>8. ASSUME kind # "manual", plan'.action = "none"
      PROVE  Launched(file) = here
  <2>1. Listed(seen, Ours) /\ Launch(seen, Ours) = here
    <3>1. Listed(seen, Ours)
      BY <1>3, <1>8 DEF PlannedAction
    <3>2. Classify(Launch(seen, Ours)) = "ours" /\ Launch(seen, Ours) = here
      BY <1>3, <1>8, <3>1 DEF PlannedAction
    <3> QED BY <3>1, <3>2
  <2>2. seen = Servers
    <3>1. ~Listed(<<>>, Ours)
      BY DEF Listed
    <3> QED BY <2>1, <3>1
  <2> QED BY <1>4, <2>1, <2>2
<1>9. ASSUME InFiles, plan'.action \in {"add", "update"}
      PROVE  Launched(file) # Foreign
  <2>1. seen = Servers /\ kind # "manual"
    BY <1>9 DEF InFiles
  <2>2. CASE ~Listed(Servers, Ours)
    <3>1. ~\E i \in 1..Len(Servers) : Defines(Servers[i], Ours)
      BY <2>2 DEF Listed, Defines
    <3>2. Launch(Servers, Ours) = NoLaunch
      BY <3>1 DEF Launch
    <3> QED BY <1>4, <3>2 DEF NoLaunch, Foreign
  <2>3. CASE Listed(Servers, Ours)
    <3>1. Classify(Launch(Servers, Ours)) = "ours"
      BY <1>3, <1>9, <2>1, <2>3 DEF PlannedAction
    <3>2. Foreign # NoLaunch /\ Foreign # owned /\ Foreign # here
      BY AdapterAssumption DEF Typed, Outcomes, NoLaunch, Foreign
    <3>3. Classify(Foreign) = "foreign"
      BY <3>2 DEF Classify
    <3> QED BY <1>4, <3>1, <3>3
  <2> QED BY <2>2, <2>3
<1>10. kind = "manual" => plan'.action = "none"
  BY <1>3 DEF PlannedAction
<1> QED BY <1>1, <1>3, <1>7, <1>8, <1>9, <1>10
     DEF FileOK, ReadOK, CallOK, ReviewOK, MadeOK, InFiles, Changes

\* The call begins.
LEMMA BeginApplyKeeps ==
  ASSUME Inv, BeginApply PROVE Inv'
<1> USE DEF Inv
<1>1. /\ at = "idle" /\ plan # NoPlan /\ connected' = TRUE
      /\ kind' = kind /\ removable' = removable /\ here' = here /\ edits' = edits
      /\ file' = file /\ owned' = owned /\ plan' = plan /\ touched' = touched
  BY DEF BeginApply, world
<1>2. plan.action \in Actions /\ read = <<>> /\ kind \in {"json", "toml", "command", "manual"}
  BY <1>1, AdapterAssumption DEF Typed, Outcomes, Plan, NoPlan, Actions
<1>3. \/ plan.action = "conflict" /\ Ends("failed")
      \/ plan.action = "none" /\ Goes("readback")
      \/ Changes /\ kind # "command" /\ Goes("read")
      \/ plan.action = "replace" /\ kind = "command" /\ Goes("cli remove")
      \/ plan.action \in {"add", "update"} /\ kind = "command" /\ Goes("cli add")
  BY <1>1, <1>2 DEF BeginApply, Actions, Changes
<1>4. Typed'
  BY <1>1, <1>2, <1>3 DEF Typed, Ends, Goes, Points, Outcomes
<1>5. at' \in {"idle", "readback", "read", "cli remove", "cli add"} /\ outcome' \in {"none", "failed"}
      /\ (at' = "readback" => plan.action = "none")
  BY <1>3 DEF Ends, Goes
<1>6. FileOK' /\ ReadOK'
  BY <1>1, <1>5 DEF FileOK, ReadOK
<1>7. CallOK'
  BY <1>1, <1>2, <1>3 DEF CallOK, InFiles, Changes, Ends, Goes
<1>8. ReviewOK' /\ MadeOK'
  BY <1>1, <1>5 DEF ReviewOK, MadeOK, InFiles, Typed, Outcomes
<1> QED BY <1>4, <1>6, <1>7, <1>8

\* apply reads again.
LEMMA ReadFileKeeps ==
  ASSUME Inv, ReadFile PROVE Inv'
<1> USE DEF Inv
<1>1. /\ at = "read" /\ kind' = kind /\ removable' = removable /\ here' = here /\ edits' = edits
      /\ file' = file /\ owned' = owned /\ connected' = connected /\ plan' = plan
      /\ read = <<>> /\ outcome = "none"
  BY DEF ReadFile, world, Typed, Outcomes, CallOK
<1>2. \/ /\ Readable /\ read' = file.blocks /\ touched' = touched \ {"read"}
         /\ at' = "write" /\ outcome' = outcome /\ broken' = broken
      \/ /\ at' = "idle" /\ outcome' = "failed" /\ read' = <<>> /\ touched' = touched
        
  BY DEF ReadFile, Reads, Ends, Typed, Outcomes
<1>3. Typed'
  <2>1. at' \in Points /\ outcome' \in Outcomes
    BY <1>1, <1>2 DEF Points, Outcomes
  <2>2. kind' \in Kinds /\ here' \in Engines /\ edits' \in 0..MaxEdits
        /\ owned' \in Engines \union {NoLaunch} /\ plan' \in Plan \union {NoPlan}
    BY <1>1, <1>2 DEF Typed
  <2>3. file' \in File /\ touched' \subseteq {"review", "read", "edit"}
    BY <1>1, <1>2 DEF Typed
  <2>4. read' \in Seq(Block)
    BY <1>1, <1>2 DEF Typed, File
  <2>5. read' # <<>> => at' \in {"write", "readback", "strip write", "save removed"}
    BY <1>1, <1>2 DEF Typed, File
  <2> QED BY <2>1, <2>2, <2>3, <2>4, <2>5 DEF Typed
<1>4. FileOK' /\ ReadOK'
  BY <1>1, <1>2 DEF FileOK, ReadOK, Readable
<1>5. CallOK'
  BY <1>1, <1>2 DEF CallOK, InFiles, Changes
<1>6. ReviewOK' /\ MadeOK'
  BY <1>1, <1>2 DEF ReviewOK, MadeOK, InFiles
<1> QED BY <1>3, <1>4, <1>5, <1>6

\* What was read is written over what is there.
LEMMA WriteFileKeeps ==
  ASSUME Inv, WriteFile PROVE Inv'
<1> USE DEF Inv
<1>1. /\ at = "write" /\ kind' = kind /\ removable' = removable /\ here' = here /\ edits' = edits
      /\ owned' = owned /\ connected' = connected /\ plan' = plan /\ touched' = touched
      /\ InFiles /\ Changes /\ plan # NoPlan
  BY PlanIs DEF WriteFile, world, CallOK
<1> DEFINE w == Written(Replaced(read, <<Table(Ours, plan.launch)>>))
<1>2. /\ w \in File /\ w.state \in {"document", "unreadable"}
      /\ kind # "toml" => Plain(w.blocks)
      /\ Valid(w.blocks) \/ (kind = "toml" /\ w.state = "unreadable")
      /\ w.state = "document" => Launched(w) = plan.launch
  <2>1. read \in Seq(Block) /\ Valid(read) /\ (kind # "toml" => Plain(read)) /\ plan.launch \in Launches
    BY <1>1, PlanIs DEF ReadOK, Typed
  <2> QED BY <2>1, WrittenIs
<1>3. \/ /\ file' = w /\ at' = "readback" /\ outcome' = "none" /\ read' = read
      \/ /\ file' = file /\ at' = "idle" /\ outcome' = "raised" /\ read' = <<>>
  BY DEF WriteFile, Goes, Ends, Typed, Outcomes
<1> HIDE DEF w
<1>4. Launched(w) = plan.launch \/ w.state = "unreadable"
  BY <1>2
<1>5. plan.launch # Foreign /\ plan.launch # NoLaunch
  BY <1>1, PlanIs
<1>6. w.state # "document" => Launched(w) = NoLaunch
  BY DEF Launched, Launch
<1>7. Typed'
  <2>1. at' \in Points /\ outcome' \in Outcomes
    BY <1>1, <1>2, <1>3 DEF Points, Outcomes
  <2>2. kind' \in Kinds /\ here' \in Engines /\ edits' \in 0..MaxEdits
        /\ owned' \in Engines \union {NoLaunch} /\ plan' \in Plan \union {NoPlan}
    BY <1>1, <1>2, <1>3 DEF Typed
  <2>3. file' \in File /\ touched' \subseteq {"review", "read", "edit"}
    BY <1>1, <1>2, <1>3 DEF Typed
  <2>4. read' \in Seq(Block)
    <3>1. read \in Seq(Block)
      BY DEF Typed
    <3> QED BY <3>1, <1>1, <1>3, NothingHeld, Zenon
  <2>5. read' # <<>> => at' \in {"write", "readback", "strip write", "save removed"}
    <3>1. read \in Seq(Block)
      BY DEF Typed
    <3> QED BY <3>1, <1>1, <1>3
  <2> QED BY <2>1, <2>2, <2>3, <2>4, <2>5 DEF Typed
<1>8. FileOK' /\ ReadOK'
  BY <1>1, <1>2, <1>3 DEF FileOK, ReadOK
<1>9. CallOK'
  BY <1>1, <1>3 DEF CallOK, InFiles, Changes
<1>10. ReviewOK'
  <2>1. plan.action # "none" /\ Foreign # NoLaunch
    BY <1>1 DEF Changes, Foreign, NoLaunch
  <2> QED BY <1>1, <1>3, <1>4, <1>5, <1>6, <2>1, <1>2 DEF ReviewOK, InFiles
<1>11. MadeOK'
  BY <1>1, <1>3, <1>4 DEF MadeOK, InFiles
<1> QED BY <1>7, <1>8, <1>9, <1>10, <1>11

\* The client's command, first half.
LEMMA CommandRemoveKeeps ==
  ASSUME Inv, CommandRemove PROVE Inv'
<1> USE DEF Inv
<1>1. /\ at = "cli remove" /\ kind' = kind /\ removable' = removable /\ here' = here /\ edits' = edits
      /\ owned' = owned /\ connected' = connected /\ plan' = plan /\ touched' = touched
      /\ kind = "command" /\ Changes /\ plan # NoPlan /\ file' \in {file, Stripped}
      /\ at' = "cli add" /\ outcome' = "none" /\ read' = read /\ broken' = broken /\ read = <<>>
  BY PlanIs DEF CommandRemove, world, CallOK, Goes, Typed, Outcomes
<1>2. /\ Stripped \in File
      /\ Plain(Stripped.blocks) /\ Valid(Stripped.blocks)
  BY <1>1, CommandIs
<1> HIDE DEF Inv
<1>3. Typed'
  BY <1>1, <1>2 DEF Inv, Typed, Points, Outcomes
<1>4. FileOK' /\ ReadOK' /\ CallOK'
  BY <1>1, <1>2 DEF Inv, FileOK, ReadOK, CallOK, InFiles, Changes
<1>5. ReviewOK' /\ MadeOK'
  BY <1>1 DEF ReviewOK, MadeOK, InFiles, Changes
<1> QED BY <1>3, <1>4, <1>5 DEF Inv

\* The client's command, second half.
LEMMA CommandAddKeeps ==
  ASSUME Inv, CommandAdd PROVE Inv'
<1> USE DEF Inv
<1>1. /\ at = "cli add" /\ kind' = kind /\ removable' = removable /\ here' = here /\ edits' = edits
      /\ owned' = owned /\ connected' = connected /\ plan' = plan /\ touched' = touched
      /\ kind = "command" /\ Changes /\ plan # NoPlan /\ read = <<>>
  BY PlanIs DEF CommandAdd, world, CallOK, Typed, Outcomes
<1>2. /\ Done \in File /\ Plain(Done.blocks) /\ Valid(Done.blocks) /\ Launched(Done) = plan.launch
  BY <1>1, CommandIs
<1>3. \/ file' = Done /\ at' = "readback" /\ outcome' = "none" /\ read' = <<>> /\ broken' = broken
      \/ /\ file' \in {file, Done} /\ at' = "idle" /\ outcome' = "failed" /\ read' = <<>>
        
  BY <1>1 DEF CommandAdd, Goes, Ends, Typed, Outcomes
<1> HIDE DEF Inv
<1>4. Typed'
  BY <1>1, <1>2, <1>3 DEF Inv, Typed, Points, Outcomes
<1>5. FileOK' /\ ReadOK' /\ CallOK'
  BY <1>1, <1>2, <1>3 DEF Inv, FileOK, ReadOK, CallOK, InFiles, Changes
<1>6. ReviewOK' /\ MadeOK'
  BY <1>1, <1>2, <1>3 DEF ReviewOK, MadeOK, InFiles, Changes
<1> QED BY <1>4, <1>5, <1>6 DEF Inv

\* What was asked for is recorded.
LEMMA ReadbackKeeps ==
  ASSUME Inv, Readback PROVE Inv'
<1> USE DEF Inv
<1>1. /\ at = "readback" /\ kind' = kind /\ removable' = removable /\ here' = here /\ edits' = edits
      /\ file' = file /\ connected' = connected /\ plan' = plan /\ touched' = touched
      /\ plan # NoPlan /\ plan.launch \in Engines
      /\ at' = "idle" /\ read' = <<>>
  BY PlanIs DEF Readback, world, CallOK, Ends
<1>2. \/ InFiles /\ ~Readable /\ outcome' = "raised" /\ owned' = owned
      \/ ~(InFiles /\ ~Readable) /\ outcome' = "registered" /\ owned' = plan.launch
  BY DEF Readback, Ends, InFiles, Typed, Outcomes
<1>3. Typed'
  <2>1. at' \in Points /\ outcome' \in Outcomes
    BY <1>1, <1>2 DEF Points, Outcomes
  <2>2. kind' \in Kinds /\ here' \in Engines /\ edits' \in 0..MaxEdits
        /\ owned' \in Engines \union {NoLaunch} /\ plan' \in Plan \union {NoPlan}
    BY <1>1, <1>2 DEF Typed
  <2>3. file' \in File /\ touched' \subseteq {"review", "read", "edit"}
    BY <1>1, <1>2 DEF Typed
  <2>4. read' \in Seq(Block)
    BY <1>1, <1>2 DEF Typed
  <2>5. read' # <<>> => at' \in {"write", "readback", "strip write", "save removed"}
    BY <1>1, <1>2 DEF Typed
  <2> QED BY <2>1, <2>2, <2>3, <2>4, <2>5 DEF Typed
<1>4. FileOK' /\ ReadOK' /\ CallOK'
  BY <1>1, <1>2 DEF FileOK, ReadOK, CallOK
<1>5. ReviewOK'
  BY <1>1 DEF ReviewOK, InFiles
<1>6. MadeOK'
  BY <1>1, <1>2 DEF MadeOK, Readable
<1> QED BY <1>3, <1>4, <1>5, <1>6

-----------------------------------------------------------------------------
(***************************************************************************)
(* Disconnecting, and the world.                                           *)
(***************************************************************************)
\* A disconnection begins.
LEMMA BeginRemoveKeeps ==
  ASSUME Inv, BeginRemove PROVE Inv'
<1> USE DEF Inv
<1>1. /\ at = "idle" /\ kind' = kind /\ removable' = removable /\ here' = here /\ edits' = edits
      /\ file' = file /\ owned' = owned /\ connected' = connected /\ plan' = plan
      /\ read' = read /\ read = <<>> /\ broken' = broken /\ outcome' = "none"
      /\ touched' = (touched \ {"read"}) \union {"review"}
      /\ \/ at' = "save"
         \/ InFiles /\ at' = "strip read"
         \/ kind = "command" /\ at' = "cli strip"
         \/ at' = "save kept"
  BY AdapterAssumption DEF BeginRemove, world, Goes, Typed, InFiles
<1>2. Typed'
  BY <1>1 DEF Typed, Points, Outcomes
<1>3. FileOK' /\ ReadOK' /\ CallOK'
  BY <1>1 DEF FileOK, ReadOK, CallOK, InFiles
<1>4. ReviewOK' /\ MadeOK'
  BY <1>1 DEF ReviewOK, MadeOK
<1> QED BY <1>2, <1>3, <1>4

\* It reads.
LEMMA StripReadKeeps ==
  ASSUME Inv, StripRead PROVE Inv'
<1> USE DEF Inv
<1>1. /\ at = "strip read" /\ kind' = kind /\ removable' = removable /\ here' = here /\ edits' = edits
      /\ file' = file /\ owned' = owned /\ connected' = connected /\ plan' = plan
      /\ InFiles /\ "review" \in touched /\ read = <<>> /\ outcome = "none"
  BY DEF StripRead, world, CallOK, Typed
<1>2. \/ /\ at' = "idle" /\ outcome' = "failed" /\ read' = <<>> /\ touched' = touched
      \/ /\ Readable /\ at' = "strip write" /\ outcome' = "none" /\ read' = file.blocks
         /\ touched' = touched \ {"read"}
      \/ /\ at' = "save kept" /\ outcome' = "none" /\ read' = <<>> /\ touched' = touched
  BY <1>1 DEF StripRead, Reads, Ends, Goes
<1>3. Typed'
  <2>1. at' \in Points /\ outcome' \in Outcomes
    BY <1>1, <1>2 DEF Points, Outcomes
  <2>2. kind' \in Kinds /\ here' \in Engines /\ edits' \in 0..MaxEdits
        /\ owned' \in Engines \union {NoLaunch} /\ plan' \in Plan \union {NoPlan}
    BY <1>1, <1>2 DEF Typed
  <2>3. file' \in File /\ touched' \subseteq {"review", "read", "edit"}
    BY <1>1, <1>2 DEF Typed
  <2>4. read' \in Seq(Block)
    BY <1>1, <1>2 DEF Typed, File
  <2>5. read' # <<>> => at' \in {"write", "readback", "strip write", "save removed"}
    BY <1>1, <1>2 DEF Typed, File
  <2> QED BY <2>1, <2>2, <2>3, <2>4, <2>5 DEF Typed
<1>4. FileOK' /\ ReadOK'
  BY <1>1, <1>2 DEF FileOK, ReadOK, Readable
<1>5. CallOK' /\ ReviewOK' /\ MadeOK'
  BY <1>1, <1>2 DEF CallOK, ReviewOK, MadeOK, InFiles, Changes
<1> QED BY <1>3, <1>4, <1>5

\* It writes.
LEMMA StripWriteKeeps ==
  ASSUME Inv, StripWrite PROVE Inv'
<1> USE DEF Inv
<1>1. /\ at = "strip write" /\ kind' = kind /\ removable' = removable /\ here' = here /\ edits' = edits
      /\ owned' = owned /\ connected' = connected /\ plan' = plan /\ touched' = touched
      /\ InFiles /\ "review" \in touched
  BY DEF StripWrite, world, CallOK
<1> DEFINE w == Written(Replaced(read, <<>>))
<1>2. w \in File /\ (kind # "toml" => Plain(w.blocks)) /\ Valid(w.blocks) /\ NoTable(w.blocks)
  <2>1. read \in Seq(Block) /\ Valid(read) /\ (kind # "toml" => Plain(read))
    BY <1>1 DEF ReadOK, Typed
  <2> QED BY <2>1, StruckIs
<1>3. \/ file' = w /\ at' = "save removed" /\ outcome' = "none" /\ read' = read
      \/ file' = file /\ at' = "idle" /\ outcome' = "raised" /\ read' = <<>>
  BY DEF StripWrite, Goes, Ends
<1> HIDE DEF w
<1>4. Typed'
  <2>1. at' \in Points /\ outcome' \in Outcomes
    BY <1>1, <1>2, <1>3 DEF Points, Outcomes
  <2>2. kind' \in Kinds /\ here' \in Engines /\ edits' \in 0..MaxEdits
        /\ owned' \in Engines \union {NoLaunch} /\ plan' \in Plan \union {NoPlan}
    BY <1>1, <1>2, <1>3 DEF Typed
  <2>3. file' \in File /\ touched' \subseteq {"review", "read", "edit"}
    BY <1>1, <1>2, <1>3 DEF Typed
  <2>4. read' \in Seq(Block)
    <3>1. read \in Seq(Block)
      BY DEF Typed
    <3> QED BY <3>1, <1>1, <1>3, NothingHeld, Zenon
  <2>5. read' # <<>> => at' \in {"write", "readback", "strip write", "save removed"}
    <3>1. read \in Seq(Block)
      BY DEF Typed
    <3> QED BY <3>1, <1>1, <1>3
  <2> QED BY <2>1, <2>2, <2>3, <2>4, <2>5 DEF Typed
<1>5. FileOK' /\ ReadOK'
  BY <1>1, <1>2, <1>3 DEF FileOK, ReadOK
<1>6. CallOK' /\ ReviewOK' /\ MadeOK'
  BY <1>1, <1>3 DEF CallOK, ReviewOK, MadeOK, InFiles, Changes
<1> QED BY <1>4, <1>5, <1>6

\* The client's command takes the entry out.
LEMMA CommandStripKeeps ==
  ASSUME Inv, CommandStrip PROVE Inv'
<1> USE DEF Inv
<1>1. /\ at = "cli strip" /\ kind' = kind /\ removable' = removable /\ here' = here /\ edits' = edits
      /\ owned' = owned /\ connected' = connected /\ plan' = plan /\ touched' = touched
      /\ kind = "command" /\ "review" \in touched /\ read = <<>>
  BY DEF CommandStrip, world, CallOK, Typed
<1>2. Stripped \in File /\ Plain(Stripped.blocks) /\ Valid(Stripped.blocks) /\ NoTable(Stripped.blocks)
  BY <1>1, CommandIs
<1>3. \/ file' = file /\ at' = "idle" /\ outcome' = "failed" /\ read' = <<>>
      \/ file' = Stripped /\ at' = "save removed" /\ outcome' = "none" /\ read' = <<>>
      \/ file' \in {file, Stripped} /\ at' = "save kept" /\ outcome' = "none" /\ read' = <<>>
  BY <1>1 DEF CommandStrip, Goes, Ends
<1>4. Typed'
  <2>1. at' \in Points /\ outcome' \in Outcomes
    BY <1>1, <1>2, <1>3 DEF Points, Outcomes
  <2>2. kind' \in Kinds /\ here' \in Engines /\ edits' \in 0..MaxEdits
        /\ owned' \in Engines \union {NoLaunch} /\ plan' \in Plan \union {NoPlan}
    BY <1>1, <1>2, <1>3 DEF Typed
  <2>3. file' \in File /\ touched' \subseteq {"review", "read", "edit"}
    BY <1>1, <1>2, <1>3 DEF Typed
  <2>4. read' \in Seq(Block)
    BY <1>1, <1>2, <1>3 DEF Typed
  <2>5. read' # <<>> => at' \in {"write", "readback", "strip write", "save removed"}
    BY <1>1, <1>2, <1>3 DEF Typed
  <2> QED BY <2>1, <2>2, <2>3, <2>4, <2>5 DEF Typed
<1>5. FileOK' /\ ReadOK'
  BY <1>1, <1>2, <1>3 DEF FileOK, ReadOK
<1>6. CallOK' /\ ReviewOK' /\ MadeOK'
  BY <1>1, <1>3 DEF CallOK, ReviewOK, MadeOK, InFiles, Changes
<1> QED BY <1>4, <1>5, <1>6

\* The client leaves the configuration.
LEMMA SaveConfigKeeps ==
  ASSUME Inv, SaveConfig PROVE Inv'
<1> USE DEF Inv
<1>1. /\ at \in {"save", "save removed", "save kept"} /\ at' = "idle" /\ read' = <<>>
      /\ kind' = kind /\ removable' = removable /\ here' = here /\ edits' = edits
      /\ file' = file /\ plan' = plan /\ touched' = touched /\ connected' = FALSE
      /\ owned' = IF at = "save removed" THEN NoLaunch ELSE owned
      /\ outcome' = "disconnected"
  BY DEF SaveConfig, world, Ends
<1>2. Typed'
  <2>1. at' \in Points /\ outcome' \in Outcomes
    BY <1>1 DEF Points, Outcomes
  <2>2. kind' \in Kinds /\ here' \in Engines /\ edits' \in 0..MaxEdits
        /\ owned' \in Engines \union {NoLaunch} /\ plan' \in Plan \union {NoPlan}
    BY <1>1 DEF Typed
  <2>3. file' \in File /\ touched' \subseteq {"review", "read", "edit"}
    BY <1>1 DEF Typed
  <2>4. read' \in Seq(Block)
    BY <1>1, NothingHeld, Zenon
  <2>5. read' # <<>> => at' \in {"write", "readback", "strip write", "save removed"}
    BY <1>1
  <2> QED BY <2>1, <2>2, <2>3, <2>4, <2>5 DEF Typed
<1>3. FileOK' /\ ReadOK' /\ CallOK' /\ ReviewOK' /\ MadeOK'
  BY <1>1 DEF FileOK, ReadOK, CallOK, ReviewOK, MadeOK, InFiles, Changes
<1> QED BY <1>2, <1>3

\* Somebody edits the file.
LEMMA EditKeeps ==
  ASSUME Inv, Edit PROVE Inv'
<1> USE DEF Inv
<1>1. /\ kind' = kind /\ removable' = removable /\ here' = here /\ edits' = edits + 1
      /\ edits < MaxEdits /\ owned' = owned /\ connected' = connected /\ plan' = plan
      /\ at' = at /\ read' = read /\ outcome' = outcome /\ broken' = broken
      /\ touched' = {"review", "read", "edit"}
  BY DEF Edit
<1>2. /\ file \in File /\ file.blocks \in Seq(Block) /\ file.state \in {"absent", "document"}
      /\ Valid(file.blocks) /\ (kind # "toml" => Plain(file.blocks))
  BY DEF Typed, File, FileOK, Edit
<1>3. /\ file' \in File /\ Valid(file'.blocks) /\ (kind # "toml" => Plain(file'.blocks))
  <2>1. CASE \E blocks \in Edited(file.blocks) \ {file.blocks} :
               file' = [state |-> "document", blocks |-> blocks]
    <3>1. PICK blocks \in Edited(file.blocks) : file' = [state |-> "document", blocks |-> blocks]
      BY <2>1
    <3>2. Remade(file.blocks, blocks) /\ (kind # "toml" => Plain(blocks))
      BY <1>2, EditedIs
    <3> QED BY <1>2, <3>1, <3>2 DEF Remade, File, States
  <2>2. CASE file' = [file EXCEPT !.state = "unreadable"]
    BY <1>2, <2>2 DEF File, States
  <2> QED BY <2>1, <2>2 DEF Edit
<1>4. Typed'
  <2>1. edits + 1 \in 0..MaxEdits
    <3>1. edits \in 0..MaxEdits /\ MaxEdits \in Nat
      BY AdapterAssumption DEF Typed
    <3> QED BY <1>1, <3>1
  <2> QED BY <1>1, <1>3, <2>1 DEF Typed
<1>5. FileOK' /\ ReadOK'
  BY <1>1, <1>3 DEF FileOK, ReadOK
<1>6. CallOK' /\ ReviewOK' /\ MadeOK'
  BY <1>1 DEF CallOK, ReviewOK, MadeOK, InFiles, Changes
<1> QED BY <1>4, <1>5, <1>6

\* The package moves.
LEMMA UpgradeKeeps ==
  ASSUME Inv, Upgrade PROVE Inv'
<1> USE DEF Inv
<1>1. /\ at = "idle" /\ kind' = kind /\ removable' = removable /\ here' \in Engines
      /\ edits' = edits + 1 /\ edits < MaxEdits /\ plan' = NoPlan /\ outcome' = "none"
      /\ file' = file /\ owned' = owned /\ connected' = connected /\ at' = at /\ read' = read
      /\ touched' = touched /\ broken' = broken
  BY DEF Upgrade
<1>2. Typed'
  <2>1. edits + 1 \in 0..MaxEdits
    <3>1. edits \in 0..MaxEdits /\ MaxEdits \in Nat
      BY AdapterAssumption DEF Typed
    <3> QED BY <1>1, <3>1
  <2> QED BY <1>1, <2>1 DEF Typed, Outcomes
<1>3. FileOK' /\ ReadOK' /\ ReviewOK' /\ MadeOK'
  BY <1>1 DEF FileOK, ReadOK, ReviewOK, MadeOK
<1>4. CallOK'
  BY <1>1 DEF CallOK, NoPlan
<1> QED BY <1>2, <1>3, <1>4

\* Setup dies.
LEMMA CrashKeeps ==
  ASSUME Inv, Crash PROVE Inv'
<1> USE DEF Inv
<1>1. /\ kind' = kind /\ removable' = removable /\ here' = here /\ edits' = edits
      /\ at' = "idle" /\ outcome' = "cut short" /\ read' = <<>> /\ plan' = NoPlan
      /\ file' = file /\ owned' = owned /\ touched' = touched
  BY DEF Crash, world, Ends
<1>2. Typed'
  <2>1. at' \in Points /\ outcome' \in Outcomes
    BY <1>1 DEF Points, Outcomes
  <2>2. kind' \in Kinds /\ here' \in Engines /\ edits' \in 0..MaxEdits
        /\ owned' \in Engines \union {NoLaunch} /\ plan' \in Plan \union {NoPlan}
    BY <1>1 DEF Typed
  <2>3. file' \in File /\ touched' \subseteq {"review", "read", "edit"}
    BY <1>1 DEF Typed
  <2>4. read' \in Seq(Block)
    BY <1>1, NothingHeld, Zenon
  <2>5. read' # <<>> => at' \in {"write", "readback", "strip write", "save removed"}
    BY <1>1
  <2> QED BY <2>1, <2>2, <2>3, <2>4, <2>5 DEF Typed
<1>3. FileOK' /\ ReadOK' /\ ReviewOK' /\ MadeOK'
  BY <1>1 DEF FileOK, ReadOK, ReviewOK, MadeOK
<1>4. CallOK'
  BY <1>1 DEF CallOK, NoPlan
<1> QED BY <1>2, <1>3, <1>4

-----------------------------------------------------------------------------
(***************************************************************************)
(* The theorems.                                                           *)
(***************************************************************************)
\* The invariant holds at first.
LEMMA InitHolds == Init => Inv
<1> SUFFICES ASSUME Init PROVE Inv
  OBVIOUS
<1>1. /\ kind \in Kinds /\ file \in Starts /\ here \in Engines /\ owned = NoLaunch /\ plan = NoPlan
      /\ at = "idle" /\ read = <<>> /\ outcome = "none" /\ touched = {} /\ edits = 0
      /\ kind # "toml" => Plain(file.blocks)
  BY DEF Init, Plain
<1>2. file \in File /\ Valid(file.blocks) /\ MaxEdits \in Nat
  BY <1>1, AdapterAssumption
<1>3. Typed
  BY <1>1, <1>2, NothingHeld DEF Typed, Points, Outcomes
<1>4. CallOK
  BY <1>1 DEF CallOK, NoPlan
<1>5. FileOK /\ ReadOK /\ ReviewOK /\ MadeOK
  BY <1>1, <1>2 DEF FileOK, ReadOK, ReviewOK, MadeOK
<1> QED BY <1>3, <1>4, <1>5 DEF Inv

\* Nothing happens.
LEMMA StutterKeeps ==
  ASSUME Inv, UNCHANGED vars PROVE Inv'
<1>1. /\ kind' = kind /\ file' = file /\ here' = here /\ owned' = owned /\ plan' = plan /\ at' = at
      /\ read' = read /\ outcome' = outcome /\ touched' = touched /\ edits' = edits
  BY DEF vars
<1>2. Typed'
  BY <1>1 DEF Inv, Typed
<1>3. FileOK' /\ ReadOK' /\ CallOK'
  BY <1>1 DEF Inv, FileOK, ReadOK, CallOK, InFiles, Changes
<1>4. ReviewOK' /\ MadeOK'
  BY <1>1 DEF Inv, ReviewOK, MadeOK, InFiles
<1> QED BY <1>2, <1>3, <1>4 DEF Inv

\* Every step keeps the invariant.
LEMMA NextKeeps == Inv /\ [Next]_vars => Inv'
<1> SUFFICES ASSUME Inv, [Next]_vars PROVE Inv'
  OBVIOUS
<1>1. CASE Review       BY <1>1, ReviewKeeps
<1>2. CASE BeginApply   BY <1>2, BeginApplyKeeps
<1>3. CASE ReadFile     BY <1>3, ReadFileKeeps
<1>4. CASE WriteFile    BY <1>4, WriteFileKeeps
<1>5. CASE CommandRemove BY <1>5, CommandRemoveKeeps
<1>6. CASE CommandAdd   BY <1>6, CommandAddKeeps
<1>7. CASE Readback     BY <1>7, ReadbackKeeps
<1>8. CASE BeginRemove  BY <1>8, BeginRemoveKeeps
<1>9. CASE StripRead    BY <1>9, StripReadKeeps
<1>10. CASE StripWrite  BY <1>10, StripWriteKeeps
<1>11. CASE CommandStrip BY <1>11, CommandStripKeeps
<1>12. CASE SaveConfig  BY <1>12, SaveConfigKeeps
<1>13. CASE Edit        BY <1>13, EditKeeps
<1>14. CASE Upgrade     BY <1>14, UpgradeKeeps
<1>15. CASE Crash       BY <1>15, CrashKeeps
<1>16. CASE UNCHANGED vars BY <1>16, StutterKeeps
<1> QED BY <1>1, <1>2, <1>3, <1>4, <1>5, <1>6, <1>7, <1>8, <1>9, <1>10, <1>11, <1>12, <1>13,
           <1>14, <1>15, <1>16 DEF Next, Registering, Removing

\* The inductive invariant holds in every state of every behaviour.
THEOREM InvariantHolds == Spec => []Inv
<1>1. Init => Inv
  BY InitHolds
<1>2. Inv /\ [Next]_vars => Inv'
  BY NextKeeps
<1> QED BY <1>1, <1>2, PTL DEF Spec

\* The flags stay flags.
LEMMA FlagsKeep == Inv /\ Flags /\ [Next]_vars => Flags'
<1> SUFFICES ASSUME Inv, Flags, [Next]_vars PROVE Flags'
  OBVIOUS
<1>1. removable' = removable
  BY DEF Next, Registering, Removing, vars, Review, BeginApply, ReadFile, WriteFile, CommandRemove,
         CommandAdd, Readback, BeginRemove, StripRead, StripWrite, CommandStrip, SaveConfig, Edit,
         Upgrade, Crash, world
<1>2. \/ connected' = connected \/ connected' = TRUE \/ connected' = FALSE
  BY DEF Next, Registering, Removing, vars, Review, BeginApply, ReadFile, WriteFile, CommandRemove,
         CommandAdd, Readback, BeginRemove, StripRead, StripWrite, CommandStrip, SaveConfig, Edit,
         Upgrade, Crash
<1>3. broken' = broken \/ \E how : Ends(how)
  <2>1. Readback \/ SaveConfig \/ Crash => \E how : Ends(how)
    BY DEF Readback, SaveConfig, Crash
  <2>2. ReadFile \/ WriteFile \/ CommandAdd \/ StripRead \/ StripWrite \/ CommandStrip =>
          broken' = broken \/ \E how : Ends(how)
    BY DEF ReadFile, WriteFile, CommandAdd, StripRead, StripWrite, CommandStrip, Goes
  <2>3. BeginApply => broken' = broken \/ \E how : Ends(how)
    <3>1. BeginApply => plan.action \in Actions /\ kind \in {"json", "toml", "command", "manual"}
      BY AdapterAssumption DEF BeginApply, Inv, Typed, Plan, NoPlan, Actions
    <3> QED BY <3>1 DEF BeginApply, Goes, Actions
  <2>4. Review \/ CommandRemove \/ Edit \/ Upgrade \/ UNCHANGED vars => broken' = broken
    BY DEF Review, CommandRemove, Edit, Upgrade, vars, Goes
  <2>5. BeginRemove => broken' = broken
    <3>1. kind \in {"json", "toml", "command", "manual"}
      BY AdapterAssumption DEF Inv, Typed
    <3> QED BY <3>1 DEF BeginRemove, Goes
  <2> QED BY <2>1, <2>2, <2>3, <2>4, <2>5 DEF Next, Registering, Removing
<1>4. broken' \in BOOLEAN
  BY <1>3 DEF Ends, Flags
<1>5. altered' = altered \/ altered' = TRUE \/ altered' = ("edit" \in touched)
  BY DEF Next, Registering, Removing, vars, Review, BeginApply, ReadFile, WriteFile, CommandRemove,
         CommandAdd, Readback, BeginRemove, StripRead, StripWrite, CommandStrip, SaveConfig, Edit,
         Upgrade, Crash, world
<1>6. altered' \in BOOLEAN
  <2>1. ("edit" \in touched) \in BOOLEAN
    OBVIOUS
  <2> QED BY <1>5, <2>1, Zenon DEF Flags
<1> QED BY <1>1, <1>2, <1>4, <1>6 DEF Flags

\* Every variable keeps its type, and a document is held only across a write.
THEOREM TypesHold == Spec => []TypeOK
<1>1. Init => Flags
  <2>1. Init => removable \in BOOLEAN
    BY DEF Init
  <2> QED BY <2>1 DEF Init, Flags
<1>2. Inv /\ Flags /\ [Next]_vars => Flags'
  BY FlagsKeep
<1>3. Inv /\ Flags => TypeOK
  <2> SUFFICES ASSUME Inv, Flags PROVE TypeOK
    OBVIOUS
  <2>1. file.state \in States /\ file.blocks \in Seq(Block)
    BY DEF Inv, Typed, File
  <2>2. \A i \in 1..Len(file.blocks) : file.blocks[i] \in Block
    BY <2>1
  <2> QED BY <2>1, <2>2 DEF Inv, Typed, Flags, TypeOK, Outcomes
<1> QED BY <1>1, <1>2, <1>3, InvariantHolds, PTL DEF Spec

\* SetupService._register: a completed registration is in the configuration, with
\* the planned launch, and in the journal.
THEOREM RegistrationsLaunch == Spec => []RegisteredIsThere
<1>1. Inv => RegisteredIsThere
  BY DEF Inv, MadeOK, RegisteredIsThere, Launched, Servers
<1> QED BY <1>1, InvariantHolds, PTL

\* A step of Setup that changes the file.
LEMMA OurSteps ==
  ASSUME Inv, [Next]_vars, Ourselves
  PROVE  \/ /\ at = "write" /\ file' = Written(Replaced(read, <<Table(Ours, plan.launch)>>))
            /\ InFiles /\ Changes
         \/ at = "strip write" /\ file' = Written(Replaced(read, <<>>)) /\ InFiles
         \/ at = "cli add" /\ kind = "command" /\ plan # NoPlan /\ file' = Done
         \/ at \in {"cli remove", "cli strip"} /\ kind = "command" /\ file' = Stripped
<1> USE DEF Ourselves
<1>1. ~Review /\ ~BeginApply /\ ~ReadFile /\ ~Readback /\ ~BeginRemove /\ ~StripRead /\ ~SaveConfig
      /\ ~Upgrade /\ ~Crash /\ ~UNCHANGED vars
  BY DEF Review, BeginApply, ReadFile, Readback, BeginRemove, StripRead, SaveConfig, Upgrade, Crash, vars
<1>2. ~Edit
  <2>1. edits \in Nat
    <3>1. edits \in 0..MaxEdits
      BY DEF Inv, Typed
    <3>2. MaxEdits \in Nat
      BY AdapterAssumption
    <3> QED BY <3>1, <3>2
  <2> QED BY <2>1 DEF Edit
<1>3. WriteFile \/ StripWrite \/ CommandRemove \/ CommandAdd \/ CommandStrip
  BY <1>1, <1>2 DEF Next, Registering, Removing
<1>4. CASE WriteFile
  BY <1>4 DEF WriteFile, Inv, CallOK
<1>5. CASE StripWrite
  BY <1>5 DEF StripWrite, Inv, CallOK
<1>6. Typed
  BY DEF Inv
<1>7. CASE CommandRemove
  BY <1>6, <1>7, PlanIs DEF CommandRemove, Inv, CallOK
<1>8. CASE CommandAdd
  BY <1>6, <1>8, PlanIs DEF CommandAdd, Inv, CallOK
<1>9. CASE CommandStrip
  BY <1>9 DEF CommandStrip, Inv, CallOK
<1> QED BY <1>3, <1>4, <1>5, <1>7, <1>8, <1>9
\* apply and remove: whatever Setup writes, the servers of others are as they were
\* read, in their order.
THEOREM OthersAreKept == Spec => OthersSurvive
<1>1. Inv /\ [Next]_vars =>
        (Ourselves /\ "read" \notin touched => Others(file'.blocks) = Others(file.blocks))
  <2> SUFFICES ASSUME Inv, [Next]_vars, Ourselves, "read" \notin touched
               PROVE  Others(file'.blocks) = Others(file.blocks)
    OBVIOUS
  <2>1. Typed /\ FileOK /\ ReadOK
    BY DEF Inv
  <2>2. CASE /\ at = "write" /\ file' = Written(Replaced(read, <<Table(Ours, plan.launch)>>))
             /\ InFiles /\ Changes
    <3>1. read = file.blocks /\ read \in Seq(Block) /\ Valid(read) /\ (kind # "toml" => Plain(read))
          /\ plan.launch \in Launches
      BY <2>1, <2>2, PlanIs DEF ReadOK, Typed
    <3> QED BY <2>1, <2>2, <3>1, WrittenIs
  <2>3. CASE at = "strip write" /\ file' = Written(Replaced(read, <<>>)) /\ InFiles
    <3>1. read = file.blocks /\ read \in Seq(Block) /\ Valid(read) /\ (kind # "toml" => Plain(read))
      BY <2>1, <2>3 DEF ReadOK, Typed
    <3> QED BY <2>1, <2>3, <3>1, StruckIs
  <2>4. CASE at = "cli add" /\ kind = "command" /\ plan # NoPlan /\ file' = Done
    BY <2>1, <2>4, CommandIs
  <2>5. CASE at \in {"cli remove", "cli strip"} /\ kind = "command" /\ file' = Stripped
    BY <2>1, <2>5, CommandIs
  <2> QED BY <2>2, <2>3, <2>4, <2>5, OurSteps
<1> QED BY <1>1, InvariantHolds, PTL DEF Spec, OthersSurvive

\* Setup makes no file unreadable that it could read and that takes a table of ours:
\* one in which our server is not spelled otherwise and whose parent is not inline.
THEOREM FilesStayReadable == Spec => ReadableStaysReadable
<1>1. Inv /\ [Next]_vars =>
        ((/\ Ourselves /\ "read" \notin touched /\ file.state \in {"absent", "document"}
          /\ TakesOurTable(file.blocks)) =>
           file'.state \in {"absent", "document"})
  <2> SUFFICES ASSUME Inv, [Next]_vars, Ourselves, "read" \notin touched,
                      file.state \in {"absent", "document"}, TakesOurTable(file.blocks)
               PROVE  file'.state \in {"absent", "document"}
    OBVIOUS
  <2>1. Typed /\ FileOK /\ ReadOK
    BY DEF Inv
  <2>2. CASE /\ at = "write" /\ file' = Written(Replaced(read, <<Table(Ours, plan.launch)>>))
             /\ InFiles /\ Changes
    <3>1. read = file.blocks /\ read \in Seq(Block) /\ Valid(read) /\ (kind # "toml" => Plain(read))
          /\ plan.launch \in Launches
      BY <2>1, <2>2, PlanIs DEF ReadOK, Typed
    <3> QED BY <2>1, <2>2, <3>1, WrittenIs
  <2>3. CASE at = "strip write" /\ file' = Written(Replaced(read, <<>>)) /\ InFiles
    <3>1. read = file.blocks /\ read \in Seq(Block) /\ Valid(read) /\ (kind # "toml" => Plain(read))
      BY <2>1, <2>3 DEF ReadOK, Typed
    <3> QED BY <2>1, <2>3, <3>1, StruckIs
  <2>4. CASE at = "cli add" /\ kind = "command" /\ plan # NoPlan /\ file' = Done
    BY <2>1, <2>4, CommandIs
  <2>5. CASE at \in {"cli remove", "cli strip"} /\ kind = "command" /\ file' = Stripped
    BY <2>1, <2>5, CommandIs
  <2> QED BY <2>2, <2>3, <2>4, <2>5, OurSteps
<1> QED BY <1>1, InvariantHolds, PTL DEF Spec, ReadableStaysReadable

-----------------------------------------------------------------------------
(***************************************************************************)
(* The entry of somebody else.                                             *)
(***************************************************************************)
\* What is known of an edit, and of a removal under way.
Noticed ==
  /\ "read" \in touched => "edit" \in touched
  /\ at \in {"strip read", "strip write", "cli strip"} => owned # NoLaunch
  /\ at = "strip write" /\ "read" \in touched => altered
  /\ at = "strip write" /\ "read" \notin touched => file.state = "document"

\* A foreign entry in sight of the review has been spoken of, and what is on
\* record is not foreign.
Consent ==
  kind # "manual" =>
    /\ "edit" \notin touched /\ plan # NoPlan /\ Launched(file) = Foreign =>
         plan.action \in {"replace", "conflict"} \/ (kind = "command" /\ plan.action = "add")
    /\ "edit" \notin touched /\ at = "readback" => Launched(file) # Foreign
    /\ owned # NoLaunch /\ ~altered => Launched(file) # Foreign

\* A review speaks of a foreign entry it sees.
LEMMA ReviewSpeaks ==
  ASSUME Inv, Review, kind # "manual", Launched(file) = Foreign
  PROVE  plan'.action \in {"replace", "conflict"} \/ (kind = "command" /\ plan'.action = "add")
<1>1. PICK takeover \in BOOLEAN,
           seen \in {Servers} \union (IF kind = "command" THEN {<<>>} ELSE {}) :
        plan' = [action |-> PlannedAction(seen, takeover), launch |-> here]
  BY DEF Review
<1>2. plan'.action = PlannedAction(seen, takeover)
  BY <1>1
<1>3. CASE seen = Servers
  <2>1. Launch(Servers, Ours) = Foreign
    BY DEF Servers, Launched
  <2>2. Listed(Servers, Ours)
    BY <2>1 DEF Launch, Listed, Defines, Foreign, NoLaunch
  <2>3. Foreign # NoLaunch /\ Foreign # owned /\ Foreign # here
    BY AdapterAssumption DEF Inv, Typed, NoLaunch, Foreign
  <2>4. Classify(Launch(seen, Ours)) # "ours"
    BY <1>3, <2>1, <2>3 DEF Classify
  <2> QED BY <1>2, <1>3, <2>2, <2>4 DEF PlannedAction
<1>4. CASE seen = <<>> /\ kind = "command"
  <2>1. ~Listed(seen, Ours)
    BY <1>4 DEF Listed
  <2> QED BY <1>2, <1>4, <2>1 DEF PlannedAction
<1> QED BY <1>1, <1>3, <1>4

\* What Setup writes has a foreign entry only if there was one.
LEMMA WritesNothingForeign ==
  ASSUME Inv, Noticed, WriteFile \/ CommandRemove \/ CommandAdd \/ StripWrite \/ CommandStrip
  PROVE  /\ Launched(file') = Foreign =>
              Launched(file) = Foreign \/ (at = "strip write" /\ "read" \in touched)
         /\ at' = "readback" => Launched(file') # Foreign
<1>1. Typed /\ FileOK /\ ReadOK /\ CallOK /\ Foreign # NoLaunch
  BY DEF Inv, Foreign, NoLaunch
<1>2. CASE WriteFile
  <2> DEFINE w == Written(Replaced(read, <<Table(Ours, plan.launch)>>))
  <2>1. file' = w \/ (file' = file /\ at' = "idle")
    BY <1>2 DEF WriteFile, Ends
  <2>2. read \in Seq(Block) /\ Valid(read) /\ (kind # "toml" => Plain(read))
        /\ plan.launch \in Launches /\ plan.launch # Foreign
    BY <1>1, <1>2, PlanIs DEF WriteFile, ReadOK, CallOK, Typed
  <2>3. w.state = "document" => Launched(w) = plan.launch
    BY <1>1, <2>2, WrittenIs
  <2> HIDE DEF w
  <2>4. Launched(w) # Foreign
    BY <1>1, <2>2, <2>3, NothingLaunched
  <2> QED BY <2>1, <2>4
<1>3. CASE CommandRemove
  <2>1. file' \in {file, Stripped} /\ at' = "cli add" /\ kind = "command"
    BY <1>1, <1>3 DEF CommandRemove, Goes, CallOK
  <2>2. Launched(Stripped) \in {Launched(file), NoLaunch}
    BY <1>1, <2>1, CommandIs
  <2> QED BY <1>1, <2>1, <2>2
<1>4. CASE CommandAdd
  <2>1. kind = "command" /\ plan # NoPlan /\ plan.launch # Foreign
    BY <1>1, <1>4, PlanIs DEF CommandAdd, CallOK
  <2>2. (file' = Done) \/ (file' = file /\ at' = "idle")
    BY <1>4 DEF CommandAdd, Ends
  <2>3. Launched(Done) = plan.launch
    BY <1>1, <2>1, CommandIs
  <2> QED BY <2>1, <2>2, <2>3
<1>5. CASE StripWrite
  <2> DEFINE w == Written(Replaced(read, <<>>))
  <2>1. at = "strip write" /\ at' # "readback" /\ (file' = w \/ file' = file)
    BY <1>5 DEF StripWrite, Goes, Ends
  <2>2. read \in Seq(Block) /\ Valid(read) /\ (kind # "toml" => Plain(read))
    BY <1>1, <2>1 DEF ReadOK, Typed
  <2>3. Launched(w) \in {Launch(read, Ours), NoLaunch}
    BY <1>1, <2>2, StruckIs
  <2> HIDE DEF w
  <2>4. ASSUME "read" \notin touched PROVE Launch(read, Ours) = Launched(file)
    BY <1>1, <2>1, <2>4 DEF ReadOK, Noticed, Launched
  <2> QED BY <1>1, <2>1, <2>3, <2>4
<1>6. CASE CommandStrip
  <2>1. file' \in {file, Stripped} /\ at' # "readback" /\ kind = "command"
    BY <1>1, <1>6 DEF CommandStrip, Goes, Ends, CallOK
  <2>2. Launched(Stripped) \in {Launched(file), NoLaunch}
    BY <1>1, <2>1, CommandIs
  <2> QED BY <1>1, <2>1, <2>2
<1> QED BY <1>2, <1>3, <1>4, <1>5, <1>6

\* A step that leaves the file alone, forgets no edit and records nothing.
Quiet ==
  /\ file' = file /\ kind' = kind /\ altered' = altered
  /\ owned' \in {owned, NoLaunch} /\ plan' \in {plan, NoPlan}
  /\ "edit" \in touched' <=> "edit" \in touched
  /\ "read" \in touched' => "read" \in touched
  /\ at' = "readback" => at = "readback" \/ (plan # NoPlan /\ plan.action = "none")

\* Such a step changes nothing of it.
LEMMA QuietKeeps ==
  ASSUME Consent, Quiet PROVE Consent'
<1>1. Launched(file') = Launched(file)
  BY DEF Quiet
<1>2. SUFFICES ASSUME kind # "manual"
               PROVE  /\ ("edit" \notin touched' /\ plan' # NoPlan /\ Launched(file') = Foreign) =>
                           \/ plan'.action \in {"replace", "conflict"}
                           \/ kind = "command" /\ plan'.action = "add"
                      /\ ("edit" \notin touched' /\ at' = "readback") => Launched(file') # Foreign
                      /\ (owned' # NoLaunch /\ ~altered') => Launched(file') # Foreign
  BY DEF Consent, Quiet
<1>3. /\ ("edit" \notin touched' /\ plan' # NoPlan /\ Launched(file') = Foreign) =>
           \/ plan'.action \in {"replace", "conflict"}
           \/ kind = "command" /\ plan'.action = "add"
      /\ ("edit" \notin touched' /\ at' = "readback") => Launched(file') # Foreign
  BY <1>1, <1>2 DEF Consent, Quiet
<1>4. (owned' # NoLaunch /\ ~altered') => Launched(file') # Foreign
  BY <1>1, <1>2 DEF Consent, Quiet
<1> QED BY <1>3, <1>4

\* What was said of a foreign entry, step by step.
LEMMA ConsentKept == Inv /\ Noticed /\ Consent /\ [Next]_vars => Noticed' /\ Consent'
<1> SUFFICES ASSUME Inv, Noticed, Consent, [Next]_vars PROVE Noticed' /\ Consent'
  OBVIOUS
<1>1. Typed /\ FileOK /\ ReadOK /\ CallOK
  BY DEF Inv
<1>2. CASE Review
  <2>1. /\ at = "idle" /\ at' = at /\ touched' = {} /\ kind' = kind /\ file' = file
        /\ owned' = owned /\ altered' = altered
    BY <1>2 DEF Review, world
  <2>2. Noticed'
    BY <2>1 DEF Noticed
  <2>3. Launched(file') = Launched(file)
    BY <2>1
  <2>4. Consent'
    BY <1>2, <2>1, <2>3, ReviewSpeaks DEF Consent
  <2> QED BY <2>2, <2>4
<1>3. CASE BeginApply
  <2>1. /\ at = "idle" /\ plan # NoPlan /\ kind' = kind /\ file' = file /\ owned' = owned
        /\ plan' = plan /\ touched' = touched /\ altered' = altered
    BY <1>3 DEF BeginApply, world
  <2>2. plan.action \in Actions /\ kind \in {"json", "toml", "command", "manual"}
    BY <1>1, <2>1, AdapterAssumption DEF Typed, Plan, NoPlan, Actions
  <2>3. at' \in {"idle", "readback", "read", "cli remove", "cli add"}
        /\ (at' = "readback" => plan.action = "none")
    BY <1>3, <2>2 DEF BeginApply, Goes, Ends, Actions
  <2>4. Noticed' /\ Quiet
    BY <2>1, <2>3 DEF Noticed, Quiet
  <2> QED BY <2>4, QuietKeeps
<1>4. CASE ReadFile
  <2>1. /\ kind' = kind /\ file' = file /\ owned' = owned /\ plan' = plan /\ altered' = altered
        /\ touched' \in {touched, touched \ {"read"}} /\ at' \in {"write", "idle"}
    BY <1>4 DEF ReadFile, world, Reads, Ends
  <2>2. Noticed' /\ Quiet
    BY <2>1 DEF Noticed, Quiet
  <2> QED BY <2>2, QuietKeeps
<1>5. CASE WriteFile \/ CommandRemove \/ CommandAdd \/ StripWrite \/ CommandStrip
  <2>1. /\ kind' = kind /\ owned' = owned /\ plan' = plan /\ touched' = touched /\ altered' = altered
    BY <1>5 DEF WriteFile, CommandRemove, CommandAdd, StripWrite, CommandStrip, world
  <2>2. at' \in {"idle", "readback", "cli add", "save removed", "save kept"}
    BY <1>5 DEF WriteFile, CommandRemove, CommandAdd, StripWrite, CommandStrip, Goes, Ends
  <2>3. /\ Launched(file') = Foreign =>
             Launched(file) = Foreign \/ (at = "strip write" /\ "read" \in touched)
        /\ at' = "readback" => Launched(file') # Foreign
    BY <1>5, WritesNothingForeign
  <2>4. Noticed'
    BY <2>1, <2>2 DEF Noticed
  <2>5. Launched(file') = Foreign => Launched(file) = Foreign \/ (altered /\ "edit" \in touched)
    BY <2>3 DEF Noticed
  <2>6. Consent'
    BY <2>1, <2>3, <2>5 DEF Consent
  <2> QED BY <2>4, <2>6
<1>6. CASE Readback
  <2>1. /\ at = "readback" /\ at' = "idle" /\ kind' = kind /\ file' = file /\ plan' = plan
        /\ touched' = touched
    BY <1>6 DEF Readback, Ends
  <2>2. Launched(file') = Launched(file)
    BY <2>1
  <2>3. Noticed'
    BY <2>1 DEF Noticed
  <2>4. CASE owned' = owned /\ altered' = altered
    <3>1. Quiet
      BY <2>1, <2>4 DEF Quiet
    <3> QED BY <2>3, <3>1, QuietKeeps
  <2>5. CASE altered' = ("edit" \in touched)
    <3>1. ~altered' => "edit" \notin touched
      BY <2>5
    <3>2. Consent'
      BY <2>1, <2>2, <3>1 DEF Consent
    <3> QED BY <2>3, <3>2
  <2> QED BY <1>6, <2>4, <2>5 DEF Readback
<1>7. CASE BeginRemove
  <2>1. /\ at = "idle" /\ kind' = kind /\ file' = file /\ owned' = owned /\ plan' = plan
        /\ touched' = (touched \ {"read"}) \union {"review"} /\ altered' = altered
    BY <1>7 DEF BeginRemove, world
  <2>2. kind \in {"json", "toml", "command", "manual"}
    BY <1>1, AdapterAssumption DEF Typed
  <2>3. at' \in {"save", "save kept"} \/ (at' \in {"strip read", "cli strip"} /\ owned # NoLaunch)
    BY <1>7, <2>2 DEF BeginRemove, Goes
  <2>4. Noticed' /\ Quiet
    BY <2>1, <2>3 DEF Noticed, Quiet
  <2> QED BY <2>4, QuietKeeps
<1>8. CASE StripRead
  <2>1. /\ at = "strip read" /\ kind' = kind /\ file' = file /\ owned' = owned /\ plan' = plan
        /\ altered' = altered /\ owned # NoLaunch
    BY <1>8 DEF StripRead, world, Noticed
  <2>2. \/ at' \in {"idle", "save kept"} /\ touched' = touched
        \/ at' = "strip write" /\ touched' = touched \ {"read"} /\ Listed(Servers, Ours)
    BY <1>8 DEF StripRead, Reads, Ends, Goes
  <2>3. Listed(Servers, Ours) => file.state = "document"
    BY DEF Servers, Listed
  <2>4. Noticed' /\ Quiet
    BY <2>1, <2>2, <2>3 DEF Noticed, Quiet
  <2> QED BY <2>4, QuietKeeps
<1>9. CASE SaveConfig
  <2>1. /\ kind' = kind /\ file' = file /\ owned' \in {owned, NoLaunch} /\ plan' = plan
        /\ touched' = touched /\ altered' = altered /\ at' = "idle"
    BY <1>9 DEF SaveConfig, world, Ends
  <2>2. Noticed' /\ Quiet
    BY <2>1 DEF Noticed, Quiet
  <2> QED BY <2>2, QuietKeeps
<1>10. CASE Edit
  <2>1. /\ kind' = kind /\ owned' = owned /\ at' = at /\ altered' = TRUE
        /\ touched' = {"review", "read", "edit"}
    BY <1>10 DEF Edit
  <2>2. Noticed'
    BY <2>1 DEF Noticed
  <2>3. Consent'
    BY <2>1 DEF Consent
  <2> QED BY <2>2, <2>3
<1>11. CASE Upgrade \/ Crash
  <2>1. /\ kind' = kind /\ file' = file /\ owned' = owned /\ plan' = NoPlan /\ touched' = touched
        /\ altered' = altered /\ at' = "idle"
    BY <1>11 DEF Upgrade, Crash, world, Ends
  <2>2. Noticed' /\ Quiet
    BY <2>1 DEF Noticed, Quiet
  <2> QED BY <2>2, QuietKeeps
<1>12. CASE UNCHANGED vars
  <2>1. Noticed' /\ Quiet
    BY <1>12 DEF Noticed, Quiet, vars
  <2> QED BY <2>1, QuietKeeps
<1> QED BY <1>2, <1>3, <1>4, <1>5, <1>6, <1>7, <1>8, <1>9, <1>10, <1>11, <1>12
     DEF Next, Registering, Removing

\* classify, and what each adapter plans from it: an entry that launches something
\* else is replaced by an agreed takeover, after somebody edited, or by a command
\* that did not list it; a disconnection takes it only after somebody edited.
THEOREM TakeoversAreAgreed == Spec => TakeoverIsAgreed
<1>1. Init => Noticed /\ Consent
  BY DEF Init, Noticed, Consent
<1>2. Inv /\ Noticed /\ Consent /\ [Next]_vars => Noticed' /\ Consent'
  BY ConsentKept
<1>3. Inv /\ Noticed /\ Consent /\ [Next]_vars =>
        (Ourselves /\ Launch(Servers, Ours) = Foreign =>
           IF at \in {"strip write", "cli strip"} THEN altered
           ELSE \/ plan.action = "replace"
                \/ "edit" \in touched
                \/ kind = "command" /\ plan.action = "add")
  <2> SUFFICES ASSUME Inv, Noticed, Consent, [Next]_vars, Ourselves, Launch(Servers, Ours) = Foreign
               PROVE  IF at \in {"strip write", "cli strip"} THEN altered
                      ELSE \/ plan.action = "replace"
                           \/ "edit" \in touched
                           \/ kind = "command" /\ plan.action = "add"
    OBVIOUS
  <2>1. Typed /\ CallOK /\ Launched(file) = Foreign
    BY DEF Inv, Launched, Servers
  <2>2. CASE at \in {"strip write", "cli strip"}
    <3>1. owned # NoLaunch /\ kind # "manual"
      BY <2>1, <2>2 DEF Noticed, CallOK, InFiles
    <3>2. altered
      BY <2>1, <3>1 DEF Consent
    <3> QED BY <2>2, <3>2
  <2>3. CASE at \in {"write", "cli remove", "cli add"}
    <3>1. Changes /\ plan # NoPlan /\ kind # "manual"
      BY <2>1, <2>3, PlanIs DEF CallOK, InFiles
    <3>2. \/ plan.action = "replace"
          \/ "edit" \in touched
          \/ kind = "command" /\ plan.action = "add"
      BY <2>1, <3>1 DEF Consent, Changes
    <3> QED BY <2>3, <3>2
  <2> QED BY <2>2, <2>3, OurSteps
<1> QED BY <1>1, <1>2, <1>3, InvariantHolds, PTL DEF Spec, TakeoverIsAgreed

-----------------------------------------------------------------------------
(***************************************************************************)
(* The owner of an entry.                                                  *)
(***************************************************************************)
\* The journal is empty at first: no client is found with an entry of an engine.
NotRegisteredYet == \A f \in Starts : ~EngineTable(f.blocks)

\* Who an engine's table in the file belongs to, step by step.
LEMMA OwnerKept == Inv /\ OwnOK /\ [Next]_vars => OwnOK'
<1> SUFFICES ASSUME Inv, OwnOK, [Next]_vars PROVE OwnOK'
  OBVIOUS
<1> USE DEF OwnOK
<1>1. \A blocks : NoTable(blocks) => ~EngineTable(blocks)
  BY DEF NoTable, EngineTable
<1>2. Typed /\ FileOK /\ ReadOK /\ CallOK
  BY DEF Inv
<1>3. CASE Review \/ Upgrade \/ UNCHANGED vars
  <2>1. file' = file /\ owned' = owned /\ broken' = broken /\ at' = at
    BY <1>3 DEF Review, Upgrade, vars
  <2> QED BY <2>1
<1>4. CASE BeginApply
  <2>1. at = "idle" /\ file' = file /\ owned' = owned
    BY <1>4 DEF BeginApply
  <2>2. plan.action \in Actions /\ kind \in {"json", "toml", "command", "manual"}
    BY <1>2, <1>4, AdapterAssumption DEF BeginApply, Typed, Plan, NoPlan, Actions
  <2>3. at' # "save removed" /\ (broken => broken')
    BY <1>4, <2>2 DEF BeginApply, Goes, Ends, Actions
  <2> QED BY <2>1, <2>3
<1>5. CASE BeginRemove
  <2>1. at = "idle" /\ file' = file /\ owned' = owned
    BY <1>5 DEF BeginRemove
  <2>2. kind \in {"json", "toml", "command", "manual"}
    BY <1>2, AdapterAssumption DEF Typed
  <2>3. at' # "save removed" /\ broken' = broken
    BY <1>5, <2>2 DEF BeginRemove, Goes
  <2> QED BY <2>1, <2>3
<1>6. CASE ReadFile \/ StripRead
  <2>1. at # "readback" /\ file' = file /\ owned' = owned
    BY <1>6 DEF ReadFile, StripRead
  <2>2. at' # "save removed" /\ (broken => broken')
    BY <1>6 DEF ReadFile, StripRead, Goes, Ends
  <2> QED BY <2>1, <2>2
<1>7. CASE WriteFile
  <2>1. at = "write" /\ owned' = owned
    BY <1>7 DEF WriteFile
  <2>2. at' = "readback" \/ (file' = file /\ at' = "idle" /\ (broken => broken'))
    BY <1>7 DEF WriteFile, Goes, Ends
  <2> QED BY <2>1, <2>2
<1>8. CASE CommandRemove
  <2>1. at = "cli remove" /\ owned' = owned /\ at' = "cli add" /\ broken' = broken
        /\ file' \in {file, Stripped} /\ kind = "command"
    BY <1>2, <1>8 DEF CommandRemove, Goes, CallOK
  <2>2. ~EngineTable(Stripped.blocks)
    BY <1>1, <1>2, <2>1, CommandIs
  <2> QED BY <2>1, <2>2
<1>9. CASE CommandAdd
  <2>1. owned' = owned
    BY <1>9 DEF CommandAdd
  <2>2. at' = "readback" \/ (at' = "idle" /\ broken')
    BY <1>9 DEF CommandAdd, Goes, Ends, Cut
  <2> QED BY <2>2
<1>10. CASE Readback
  <2>1. at' = "idle" /\ plan # NoPlan
    BY <1>2, <1>10 DEF Readback, Ends, CallOK
  <2>2. broken' \/ owned' = plan.launch
    BY <1>10 DEF Readback, Ends, Cut
  <2>3. plan.launch # NoLaunch
    BY <1>2, <2>1, PlanIs
  <2> QED BY <2>1, <2>2, <2>3
<1>11. CASE StripWrite
  <2>1. at = "strip write" /\ owned' = owned /\ InFiles
    BY <1>2, <1>11 DEF StripWrite, CallOK
  <2> DEFINE w == Written(Replaced(read, <<>>))
  <2>2. file' = w \/ (file' = file /\ at' = "idle" /\ (broken => broken'))
    BY <1>11 DEF StripWrite, Ends
  <2>3. read \in Seq(Block) /\ Valid(read) /\ (kind # "toml" => Plain(read))
    BY <1>2, <2>1 DEF ReadOK, Typed
  <2>4. NoTable(w.blocks)
    BY <1>2, <2>3, StruckIs
  <2> HIDE DEF w
  <2> QED BY <1>1, <2>1, <2>2, <2>4
<1>12. CASE CommandStrip
  <2>1. at = "cli strip" /\ owned' = owned /\ kind = "command"
    BY <1>2, <1>12 DEF CommandStrip, CallOK
  <2>2. \/ file' = file /\ at' = "idle" /\ (broken => broken')
        \/ file' = Stripped /\ at' = "save removed" /\ broken' = broken
        \/ file' \in {file, Stripped} /\ at' = "save kept" /\ broken' = broken
    BY <1>12 DEF CommandStrip, Goes, Ends
  <2>3. ~EngineTable(Stripped.blocks)
    BY <1>1, <1>2, <2>1, CommandIs
  <2> QED BY <2>1, <2>2, <2>3
<1>13. CASE SaveConfig
  <2>1. at \in {"save", "save removed", "save kept"} /\ at' = "idle" /\ file' = file
        /\ owned' = IF at = "save removed" THEN NoLaunch ELSE owned
    BY <1>13 DEF SaveConfig, Ends
  <2>2. broken => broken'
    BY <1>13 DEF SaveConfig, Ends
  <2> QED BY <2>1, <2>2
<1>14. CASE Edit
  <2>1. owned' = owned /\ broken' = broken /\ at' = at
    BY <1>14 DEF Edit
  <2>2. EngineTable(file'.blocks) => EngineTable(file.blocks)
    <3>1. file \in File /\ file.blocks \in Seq(Block)
      BY <1>2 DEF Typed, File
    <3>2. CASE \E blocks \in Edited(file.blocks) \ {file.blocks} :
                 file' = [state |-> "document", blocks |-> blocks]
      <4>1. PICK blocks \in Edited(file.blocks) : file' = [state |-> "document", blocks |-> blocks]
        BY <3>2
      <4>2. Remade(file.blocks, blocks)
        BY <3>1, EditedIs
      <4> QED BY <4>1, <4>2 DEF Remade
    <3>3. CASE file' = [file EXCEPT !.state = "unreadable"]
      BY <3>1, <3>3 DEF File
    <3> QED BY <1>14, <3>2, <3>3 DEF Edit
  <2> QED BY <2>1, <2>2
<1>15. CASE Crash
  <2>1. file' = file /\ owned' = owned /\ at' = "idle"
    BY <1>15 DEF Crash, Ends
  <2>2. broken \/ at = "readback" => broken'
    BY <1>15 DEF Crash, Ends, Cut
  <2> QED BY <2>1, <2>2
<1> QED BY <1>3, <1>4, <1>5, <1>6, <1>7, <1>8, <1>9, <1>10, <1>11, <1>12, <1>13, <1>14, <1>15
     DEF Next, Registering, Removing

\* The journal has every entry Setup leaves behind, unless a call ended between the
\* entry and its record.
THEOREM EntriesAreOwned == NotRegisteredYet /\ Spec => []EntryHasAnOwner
<1>1. NotRegisteredYet /\ Init => OwnOK
  BY DEF NotRegisteredYet, Init, OwnOK
<1>2. Inv /\ OwnOK /\ [Next]_vars => OwnOK'
  BY OwnerKept
<1>3. Inv /\ OwnOK => EntryHasAnOwner
  <2> SUFFICES ASSUME Inv, OwnOK, at = "idle", TableStart(Servers) # 0,
                      Servers[TableStart(Servers)].launch \in Engines
               PROVE  owned # NoLaunch \/ broken
    BY DEF EntryHasAnOwner
  <2>1. Servers = file.blocks \/ Servers = <<>>
    BY DEF Servers
  <2>2. Servers \in Seq(Block)
    <3>1. file.blocks \in Seq(Block)
      BY DEF Inv, Typed, File
    <3> QED BY <2>1, <3>1, NothingHeld
  <2>3. TableStart(Servers) \in 1..Len(Servers) /\ OurTable(Servers[TableStart(Servers)])
    BY <2>2, TableStartIs
  <2>4. EngineTable(Servers) /\ Servers # <<>>
    BY <2>3 DEF EngineTable
  <2> QED BY <2>1, <2>4 DEF OwnOK
<1>4. NotRegisteredYet /\ Spec => []OwnOK
  BY <1>1, <1>2, InvariantHolds, PTL DEF Spec
<1> QED BY <1>3, <1>4, InvariantHolds, PTL
=============================================================================

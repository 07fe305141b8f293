----------------------------- MODULE PageProofs -----------------------------
(***************************************************************************)
(* For pages of any shape and length, the loop of root_get_handler sends   *)
(* what each piece should become, in order, and always moves on.           *)
(***************************************************************************)
EXTENDS Page, FiniteSetTheorems, SequenceTheorems, NaturalsInduction,
        WellFoundedInduction, TLAPS

-----------------------------------------------------------------------------
(* Induction over the natural numbers, said of sets.                       *)

\* A set of natural numbers has a least one.
LEMMA LeastNat ==
  ASSUME NEW T \in SUBSET Nat, T # {}
  PROVE  \E n \in T : \A k \in T : n <= k
<1> DEFINE R == {ss \in Nat \X Nat : ss[1] < ss[2]}
<1>1. IsWellFoundedOn(R, Nat)
  BY NatLessThanWellFounded DEF OpToRel
<1> HIDE DEF R
<1>2. PICK x \in T : \A y \in T : ~ (<<y, x>> \in R)
  BY <1>1, WFMin
<1>3. \A y \in T : ~(y < x)
  BY <1>2 DEF R
<1>4. QED
  BY <1>3

LEMMA SetInduction ==
  ASSUME NEW S, 0 \in S, \A n \in Nat : n \in S => n + 1 \in S
  PROVE  \A n \in Nat : n \in S
<1>1. SUFFICES ASSUME {n \in Nat : n \notin S} # {} PROVE FALSE
  OBVIOUS
<1>2. PICK n \in {k \in Nat : k \notin S} : \A k \in {k \in Nat : k \notin S} : n <= k
  BY <1>1, LeastNat
<1>3. n - 1 \in Nat /\ n - 1 \in S
  BY <1>2
<1>4. QED
  BY <1>2, <1>3

-----------------------------------------------------------------------------
(* The pieces of a page.                                                   *)

Sendable == Pieces \cup {Value(n) : n \in Known}

LEMMA PageIs ==
  ASSUME NEW p \in Pages
  PROVE  /\ p \in Seq(Pieces) /\ Len(p) \in Nat \ {0} /\ DOMAIN p = 1..Len(p)
         /\ p[Len(p)] # Percent
         /\ \A i \in 1..Len(p) : /\ p[i] \in Pieces /\ p[i] \in Sendable
                                 /\ p[i] # Percent => p[i] = Text(p[i].of)
<1>1. p \in Seq(Pieces) /\ p # <<>> /\ p[Len(p)] = Nul
  BY PagesAssumption
<1>2. Percent # Nul
  <2>1. Percent.kind = "percent" /\ Nul.kind = "text"
    BY DEF Percent, Nul, Text, Piece
  <2>2. QED
    BY <2>1
<1>3. Len(p) \in Nat \ {0} /\ DOMAIN p = 1..Len(p)
  BY <1>1, EmptySeq, LenProperties
<1>4. ASSUME NEW i \in 1..Len(p)
      PROVE  /\ p[i] \in Pieces /\ p[i] \in Sendable
             /\ p[i] # Percent => p[i] = Text(p[i].of)
  <2>1. p[i] \in Pieces
    BY <1>1, ElementOfSeq
  <2>2. ASSUME p[i] # Percent PROVE p[i] = Text(p[i].of)
    <3>1. PICK t \in Texts : p[i] = Text(t)
      BY <2>1, <2>2 DEF Pieces
    <3>2. QED
      BY <3>1 DEF Text, Piece
  <2>3. QED
    BY <2>1, <2>2 DEF Sendable
<1>5. QED
  BY <1>1, <1>2, <1>3, <1>4

\* The name of a percent sign is not one the handler replaces.
LEMMA PercentUnknown == Percent.of \notin Known
BY DEF Percent, Piece, Known

\* What is sent of a page is of the type of what is sent.
LEMMA SliceType ==
  ASSUME NEW p \in Pages, NEW a \in Nat \ {0}, NEW b \in 0..Len(p)
  PROVE  SubSeq(p, a, b) \in Seq(Sendable) /\ SubSeq(p, a, b) \in Seq(Pieces)
<1>1. \A i \in a..b : p[i] \in Sendable /\ p[i] \in Pieces
  BY PageIs
<1>2. a \in Int /\ b \in Int
  BY PageIs
<1>3. QED
  BY <1>1, <1>2, SubSeqProperties

-----------------------------------------------------------------------------
(* Rendered, piece by piece.                                               *)

\* f is the recursive function of Rendered on the first n pieces.
Renders(p, n, f) == f = [i \in 0..n |-> IF i = 0 THEN <<>> ELSE f[i - 1] \o Shown(p, i)]

LEMMA RenderedExists ==
  ASSUME NEW p, NEW n \in Nat
  PROVE  \E f : Renders(p, n, f)
<1> DEFINE S == {k \in Nat : \E f : Renders(p, k, f)}
<1>1. 0 \in S
  <2> DEFINE f == [i \in 0..0 |-> <<>>]
  <2>1. Renders(p, 0, f)
    BY DEF Renders
  <2> HIDE DEF f
  <2>2. QED
    BY <2>1
<1>2. ASSUME NEW k \in Nat, k \in S PROVE k + 1 \in S
  <2>1. PICK f : Renders(p, k, f)
    BY <1>2
  <2> DEFINE g == [i \in 0..(k + 1) |-> IF i <= k THEN f[i] ELSE f[k] \o Shown(p, k + 1)]
             h == [i \in 0..(k + 1) |-> IF i = 0 THEN <<>> ELSE g[i - 1] \o Shown(p, i)]
  <2>2. ASSUME NEW i \in 0..(k + 1) PROVE g[i] = h[i]
    <3>1. CASE i = 0
      BY <2>1, <3>1 DEF Renders
    <3>2. CASE i # 0 /\ i <= k
      <4>1. g[i] = f[i] /\ i - 1 \in 0..k /\ i \in 0..k /\ g[i - 1] = f[i - 1]
        BY <3>2
      <4>2. f[i] = f[i - 1] \o Shown(p, i)
        BY <2>1, <3>2, <4>1 DEF Renders
      <4>3. QED
        BY <3>2, <4>1, <4>2
    <3>3. CASE i = k + 1
      <4>1. i - 1 = k /\ g[k] = f[k] /\ i # 0 /\ ~(i <= k)
        BY <3>3
      <4>2. QED
        BY <3>3, <4>1
    <3>4. QED
      BY <3>1, <3>2, <3>3
  <2>3. g = h
    BY <2>2
  <2> HIDE DEF g
  <2>4. Renders(p, k + 1, g)
    BY <2>3, Zenon DEF Renders
  <2>5. QED
    BY <2>4
<1> HIDE DEF S
<1>3. n \in S
  BY <1>1, <1>2, SetInduction
<1>4. QED
  BY <1>3 DEF S

LEMMA RenderedIs ==
  ASSUME NEW p, NEW n \in Nat
  PROVE  \E f : Renders(p, n, f) /\ Rendered(p, n) = f[n]
<1> DEFINE F == CHOOSE f : Renders(p, n, f)
<1>1. Rendered(p, n) = F[n]
  BY DEF Rendered, Renders
<1>2. Renders(p, n, F)
  BY RenderedExists
<1> HIDE DEF F
<1>3. QED
  BY <1>1, <1>2

LEMMA RenderedNone == ASSUME NEW p PROVE Rendered(p, 0) = <<>>
<1>1. PICK F : Renders(p, 0, F) /\ Rendered(p, 0) = F[0]
  BY RenderedIs
<1>2. QED
  BY <1>1 DEF Renders

LEMMA RenderedOne ==
  ASSUME NEW p, NEW n \in Nat
  PROVE  Rendered(p, n + 1) = Rendered(p, n) \o Shown(p, n + 1)
<1>1. PICK F : Renders(p, n, F) /\ Rendered(p, n) = F[n]
  BY RenderedIs
<1>2. PICK G : Renders(p, n + 1, G) /\ Rendered(p, n + 1) = G[n + 1]
  <2>1. n + 1 \in Nat
    OBVIOUS
  <2>2. QED
    BY <2>1, RenderedIs
<1>3. F[n] = G[n]
  <2> DEFINE S == {i \in Nat : i <= n => F[i] = G[i]}
  <2>1. 0 \in S
    BY <1>1, <1>2 DEF Renders
  <2>2. ASSUME NEW i \in Nat, i \in S PROVE i + 1 \in S
    <3> SUFFICES ASSUME i + 1 <= n PROVE F[i + 1] = G[i + 1]
      OBVIOUS
    <3>1. F[i] = G[i]
      BY <2>2
    <3>2. /\ i + 1 \in 0..n /\ i + 1 \in 0..(n + 1) /\ i + 1 # 0
          /\ (i + 1) - 1 = i
      OBVIOUS
    <3>3. F[i + 1] = F[i] \o Shown(p, i + 1)
      BY <1>1, <3>2 DEF Renders
    <3>4. G[i + 1] = G[i] \o Shown(p, i + 1)
      BY <1>2, <3>2 DEF Renders
    <3>5. QED
      BY <3>1, <3>3, <3>4
  <2> HIDE DEF S
  <2>3. n \in S
    BY <2>1, <2>2, SetInduction
  <2>4. QED
    BY <2>3 DEF S
<1>4. G[n + 1] = G[n] \o Shown(p, n + 1)
  <2>1. n + 1 \in 0..(n + 1) /\ n + 1 # 0 /\ (n + 1) - 1 = n
    OBVIOUS
  <2>2. QED
    BY <1>2, <2>1 DEF Renders
<1>5. QED
  BY <1>1, <1>2, <1>3, <1>4

\* A stretch of pieces that are shown as they are.
LEMMA RenderedPlain ==
  ASSUME NEW p \in Pages, NEW a \in 0..Len(p), NEW b \in a..Len(p),
         Rendered(p, a) \in Seq(Sendable),
         \A i \in (a + 1)..b : Shown(p, i) = <<p[i]>>
  PROVE  Rendered(p, b) = Rendered(p, a) \o SubSeq(p, a + 1, b)
<1> DEFINE Plain(k) == Rendered(p, k) = Rendered(p, a) \o SubSeq(p, a + 1, k)
           S == {k \in Nat : k >= a /\ k <= b => Plain(k)}
<1>1. Len(p) \in Nat /\ a \in Nat /\ b \in Nat /\ p \in Seq(Pieces)
  BY PageIs
<1>2. Plain(a)
  <2>1. SubSeq(p, a + 1, a) = <<>>
    <3>1. a + 1 \in Int /\ a \in Int /\ a < a + 1
      BY <1>1
    <3>2. QED
      BY <3>1, SubSeqEmpty
  <2>2. QED
    BY <2>1, ConcatEmptySeq
<1>3. ASSUME NEW k \in Nat, k >= a, k + 1 <= b, Plain(k)
      PROVE  Plain(k + 1)
  <2> DEFINE q == SubSeq(p, a + 1, k)
             r == Rendered(p, a)
             x == <<p[k + 1]>>
  <2>1. /\ a + 1 \in 1..Len(p) /\ k + 1 \in (a + 1)..Len(p) /\ (k + 1) - 1 = k
        /\ k + 1 \in (a + 1)..b /\ k + 1 \in 1..Len(p) /\ a + 1 \in Nat \ {0} /\ k \in 0..Len(p)
    BY <1>1, <1>3
  <2>2. SubSeq(p, a + 1, k + 1) = q \o x
    BY <1>1, <2>1, SubSeqRecursiveSecond
  <2>3. q \in Seq(Sendable) /\ x \in Seq(Sendable)
    <3>1. p[k + 1] \in Sendable
      BY <2>1, PageIs
    <3>2. q \in Seq(Sendable)
      BY <2>1, SliceType
    <3>3. QED
      BY <3>1, <3>2
  <2>4. Rendered(p, k + 1) = Rendered(p, k) \o x
    BY <2>1, RenderedOne
  <2> HIDE DEF q, r, x
  <2>5. (r \o q) \o x = r \o (q \o x)
    <3>1. r \in Seq(Sendable)
      BY DEF r
    <3>2. \A u, v, w \in Seq(Sendable) : (u \o v) \o w = u \o (v \o w)
      BY SMTT(30), ConcatAssociative
    <3>3. QED
      BY <2>3, <3>1, <3>2
  <2>6. QED
    BY <1>3, <2>2, <2>4, <2>5 DEF q, r
<1> HIDE DEF Plain
<1>4. 0 \in S
  <2>1. CASE a = 0
    BY <1>2, <2>1
  <2>2. CASE a # 0
    BY <1>1, <2>2
  <2>3. QED
    BY <2>1, <2>2
<1>5. ASSUME NEW k \in Nat, k \in S PROVE k + 1 \in S
  <2>1. CASE k >= a /\ k + 1 <= b
    <3>1. k <= b
      BY <1>1, <2>1
    <3>2. Plain(k + 1)
      BY <1>3, <1>5, <2>1, <3>1
    <3>3. QED
      BY <3>2
  <2>2. CASE k + 1 = a
    BY <1>1, <1>2, <2>2
  <2>3. CASE k + 1 < a \/ k + 1 > b
    BY <1>1, <2>3
  <2>4. QED
    BY <1>1, <2>1, <2>2, <2>3
<1> HIDE DEF S
<1>6. b \in S
  BY <1>1, <1>4, <1>5, SetInduction
<1>7. Plain(b)
  BY <1>1, <1>6 DEF S
<1>8. QED
  BY <1>7 DEF Plain

-----------------------------------------------------------------------------
(* Percent signs, counted.                                                 *)

Count(p, i) == Cardinality(Percents(p, i))
Quiet(p, a, b) == \A j \in a..b : p[j] # Percent

LEMMA CountsAre ==
  ASSUME NEW p, NEW i \in Nat
  PROVE  IsFiniteSet(Percents(p, i)) /\ Count(p, i) \in Nat
<1>1. IsFiniteSet(1..i)
  BY FS_Interval
<1>2. Percents(p, i) \subseteq 1..i
  BY DEF Percents
<1>3. QED
  BY <1>1, <1>2, FS_Subset, FS_CardinalityType DEF Count

LEMMA CountQuiet ==
  ASSUME NEW p, NEW a \in Nat, NEW b \in Nat, a <= b, Quiet(p, a + 1, b)
  PROVE  Percents(p, b) = Percents(p, a)
BY DEF Percents, Quiet

LEMMA CountNext ==
  ASSUME NEW p, NEW a \in Nat, NEW b \in Nat, a < b, Quiet(p, a + 1, b - 1), p[b] = Percent
  PROVE  Count(p, b) = Count(p, a) + 1
<1>1. Percents(p, b) = Percents(p, a) \cup {b} /\ b \notin Percents(p, a)
  BY DEF Percents, Quiet
<1>2. QED
  BY <1>1, CountsAre, FS_AddElement DEF Count

\* The percent signs of one pass open and close a pair.
LEMMA PairIs ==
  ASSUME NEW p \in Pages, NEW a \in Nat, Count(p, a) % 2 = 0,
         NEW t \in Nat, a < t, Quiet(p, a + 1, t - 1), p[t] = Percent
  PROVE  /\ Opens(p, t) /\ ~Closes(p, t)
         /\ \A e \in Nat : t < e /\ Quiet(p, t + 1, e - 1) /\ p[e] = Percent
              => Closes(p, e) /\ ~Opens(p, e) /\ Count(p, e) % 2 = 0
<1>1. Count(p, t) = Count(p, a) + 1 /\ Count(p, a) \in Nat
  BY CountNext, CountsAre
<1>2. Count(p, t) % 2 = 1 /\ Count(p, t) \in Nat
  BY <1>1
<1>3. ASSUME NEW e \in Nat, t < e, Quiet(p, t + 1, e - 1), p[e] = Percent
      PROVE  Closes(p, e) /\ ~Opens(p, e) /\ Count(p, e) % 2 = 0
  <2>1. Count(p, e) = Count(p, t) + 1
    BY <1>3, CountNext
  <2>2. Count(p, e) % 2 = 0
    BY <1>2, <2>1
  <2>3. QED
    BY <1>3, <2>2 DEF Opens, Closes, Count
<1>4. QED
  BY <1>2, <1>3 DEF Opens, Closes, Count

-----------------------------------------------------------------------------
(* What the pieces of one pass become.                                     *)

\* A piece by itself.
LEMMA PlainPiece ==
  ASSUME NEW p, NEW i, ~Filled(p, i), ~Filled(p, i - 1), ~Filled(p, i + 1), ~Empty(p, i)
  PROVE  Shown(p, i) = <<p[i]>>
BY DEF Shown

LEMMA GonePiece ==
  ASSUME NEW p, NEW i, ~Filled(p, i), Filled(p, i - 1) \/ Filled(p, i + 1) \/ Empty(p, i)
  PROVE  Shown(p, i) = <<>>
BY DEF Shown

LEMMA FilledPiece ==
  ASSUME NEW p, NEW i, Filled(p, i), ~Filled(p, i - 1), ~Filled(p, i + 1), ~Empty(p, i)
  PROVE  Shown(p, i) = <<Value(p[i].of)>>
BY DEF Shown

\* What surrounds a placeholder.
LEMMA FilledIs ==
  ASSUME NEW p \in Pages, NEW i \in Nat, Filled(p, i)
  PROVE  /\ i - 1 \in 1..Len(p) /\ i + 1 \in 1..Len(p)
         /\ Opens(p, i - 1) /\ Closes(p, i + 1) /\ p[i] # Percent /\ p[i].of \in Known
         /\ p[i - 1] = Percent /\ p[i + 1] = Percent
<1>1. DOMAIN p = 1..Len(p)
  BY PageIs
<1>2. QED
  BY <1>1, PercentUnknown DEF Filled, Opens, Closes

LEMMA QuietShown ==
  ASSUME NEW p \in Pages, NEW a \in 0..Len(p), Count(p, a) % 2 = 0,
         NEW b \in a..Len(p), Quiet(p, a + 1, b), NEW i \in (a + 1)..b
  PROVE  Shown(p, i) = <<p[i]>>
<1>1. Len(p) \in Nat
  BY PageIs
<1>2. i \in Nat /\ i - 1 \in Nat /\ i + 1 \in Nat /\ i - 1 \in a..b /\ (i - 1) + 1 = i /\ (i + 1) - 1 = i
  BY <1>1
<1>3. p[i] # Percent
  BY DEF Quiet
<1>4. ~Opens(p, i - 1)
  <2>1. CASE i - 1 = a
    BY <2>1 DEF Opens, Count
  <2>2. CASE i - 1 # a
    <3>1. i - 1 \in (a + 1)..b
      BY <1>1, <1>2, <2>2
    <3>2. QED
      BY <3>1 DEF Opens, Quiet
  <2>3. QED
    BY <2>1, <2>2
<1>5. ~Filled(p, i) /\ ~Filled(p, i - 1) /\ ~Filled(p, i + 1)
  BY <1>2, <1>3, <1>4, FilledIs
<1>6. ~Empty(p, i)
  BY <1>3 DEF Empty, Closes
<1>7. QED
  BY <1>5, <1>6, PlainPiece

LEMMA LoneShown ==
  ASSUME NEW p \in Pages, NEW t \in 1..Len(p), Opens(p, t), ~Closes(p, t),
         Quiet(p, t + 1, Len(p)), NEW i \in t..Len(p)
  PROVE  Shown(p, i) = <<p[i]>>
<1>1. Len(p) \in Nat
  BY PageIs
<1>2. i \in Nat /\ i - 1 \in Nat /\ i + 1 \in Nat /\ (i - 1) + 1 = i /\ (i + 1) - 1 = i
  BY <1>1
<1>3. ASSUME NEW j \in Nat, j > t, j \in 1..Len(p) PROVE p[j] # Percent
  BY <1>1, <1>3 DEF Quiet
<1>4. ~Closes(p, i)
  <2>1. CASE i = t
    BY <2>1
  <2>2. CASE i # t
    <3>1. p[i] # Percent
      BY <1>1, <1>2, <1>3, <2>2
    <3>2. QED
      BY <3>1 DEF Closes
  <2>3. QED
    BY <2>1, <2>2
<1>5. ~Filled(p, i - 1) /\ ~Empty(p, i)
  BY <1>2, <1>4, FilledIs DEF Empty
<1>6. ASSUME NEW k \in Nat, k >= t PROVE ~Filled(p, k)
  <2> SUFFICES ASSUME Filled(p, k) PROVE FALSE
    OBVIOUS
  <2>1. k + 1 \in 1..Len(p) /\ p[k + 1] = Percent
    BY FilledIs
  <2>2. QED
    BY <1>1, <1>3, <1>6, <2>1
<1>7. ~Filled(p, i) /\ ~Filled(p, i + 1)
  BY <1>1, <1>2, <1>6
<1>8. QED
  BY <1>5, <1>7, PlainPiece

\* The neighbours of a pair of percent signs.
LEMMA AroundPair ==
  ASSUME NEW p \in Pages, NEW t \in 1..Len(p), NEW e \in 1..Len(p), t < e,
         Opens(p, t), ~Closes(p, t), Closes(p, e), ~Opens(p, e), Quiet(p, t + 1, e - 1)
  PROVE  /\ p[t] = Percent /\ p[e] = Percent
         /\ \A i \in t..e : i # t + 1 => ~Filled(p, i)
         /\ ~Filled(p, t - 1) /\ ~Filled(p, e + 1) /\ ~Empty(p, t)
         /\ \A i \in (t + 1)..(e - 1) : ~Empty(p, i)
         /\ t + 1 < e => ~Empty(p, e)
<1>1. Len(p) \in Nat /\ DOMAIN p = 1..Len(p)
  BY PageIs
<1>2. p[t] = Percent /\ p[e] = Percent
  BY DEF Opens, Closes
<1>3. ASSUME NEW i \in t..e, i # t + 1 PROVE ~Filled(p, i)
  <2> SUFFICES ASSUME Filled(p, i) PROVE FALSE
    OBVIOUS
  <2>1. i \in Nat
    BY <1>1
  <2>2. Opens(p, i - 1) /\ p[i] # Percent /\ p[i - 1] = Percent
    BY <2>1, FilledIs
  <2>3. i # t /\ i # e
    BY <1>2, <2>2
  <2>4. i - 1 \in (t + 1)..(e - 1)
    BY <1>1, <1>3, <2>3
  <2>5. QED
    BY <2>2, <2>4 DEF Quiet
<1>4. ~Filled(p, t - 1)
  <2>1. t - 1 \in Nat /\ (t - 1) + 1 = t
    BY <1>1
  <2>2. QED
    BY <2>1, FilledIs
<1>5. ~Filled(p, e + 1)
  <2>1. e + 1 \in Nat /\ (e + 1) - 1 = e
    BY <1>1
  <2>2. QED
    BY <2>1, FilledIs
<1>6. ~Empty(p, t) /\ \A i \in (t + 1)..(e - 1) : ~Empty(p, i)
  BY DEF Empty, Closes, Quiet
<1>7. ASSUME t + 1 < e PROVE ~Empty(p, e)
  <2>1. e - 1 \in (t + 1)..(e - 1)
    BY <1>1, <1>7
  <2>2. p[e - 1] # Percent
    BY <2>1 DEF Quiet
  <2>3. QED
    BY <2>2 DEF Empty, Opens
<1>8. QED
  BY <1>2, <1>3, <1>4, <1>5, <1>6, <1>7

LEMMA EmptyShown ==
  ASSUME NEW p \in Pages, NEW t \in 1..Len(p), t + 1 \in 1..Len(p),
         Opens(p, t), ~Closes(p, t), Closes(p, t + 1), ~Opens(p, t + 1)
  PROVE  Shown(p, t) = <<Percent>> /\ Shown(p, t + 1) = <<>>
<1>1. Len(p) \in Nat /\ DOMAIN p = 1..Len(p)
  BY PageIs
<1>2. Quiet(p, t + 1, (t + 1) - 1) /\ t < t + 1
  BY <1>1 DEF Quiet
<1>3. /\ p[t] = Percent /\ p[t + 1] = Percent /\ ~Filled(p, t)
      /\ ~Filled(p, t - 1) /\ ~Empty(p, t)
  BY <1>1, <1>2, AroundPair
<1>4. ~Filled(p, t + 1)
  BY <1>1, <1>3, FilledIs
<1>5. Empty(p, t + 1)
  BY <1>1 DEF Empty
<1>6. QED
  BY <1>3, <1>4, <1>5, PlainPiece, GonePiece

LEMMA KnownShown ==
  ASSUME NEW p \in Pages, NEW t \in 1..Len(p), t + 2 \in 1..Len(p),
         Opens(p, t), ~Closes(p, t), Closes(p, t + 2), ~Opens(p, t + 2),
         NEW n \in Known, p[t + 1] = Text(n)
  PROVE  /\ Shown(p, t) = <<>> /\ Shown(p, t + 1) = <<Value(n)>>
         /\ Shown(p, t + 2) = <<>>
<1>1. Len(p) \in Nat /\ DOMAIN p = 1..Len(p)
  BY PageIs
<1>2. p[t + 1] # Percent /\ p[t + 1].of = n
  <2>1. Text(n).kind = "text" /\ Percent.kind = "percent" /\ Text(n).of = n
    BY DEF Text, Percent, Piece
  <2>2. QED
    BY <2>1
<1>3. Quiet(p, t + 1, (t + 2) - 1) /\ t < t + 2
  BY <1>1, <1>2 DEF Quiet
<1>4. /\ ~Filled(p, t) /\ ~Filled(p, t + 2) /\ ~Empty(p, t + 1)
  BY <1>1, <1>3, AroundPair
<1>5. Filled(p, t + 1)
  BY <1>1, <1>2 DEF Filled
<1>6. (t + 2) - 1 = t + 1 /\ (t + 1) - 1 = t /\ (t + 1) + 1 = t + 2
  BY <1>1
<1>7. Shown(p, t) = <<>> /\ Shown(p, t + 2) = <<>>
  BY <1>4, <1>5, <1>6, GonePiece
<1>8. Shown(p, t + 1) = <<Value(n)>>
  BY <1>2, <1>4, <1>5, <1>6, FilledPiece
<1>9. QED
  BY <1>7, <1>8

LEMMA UnknownShown ==
  ASSUME NEW p \in Pages, NEW t \in 1..Len(p), NEW e \in 1..Len(p), t + 1 < e,
         Opens(p, t), ~Closes(p, t), Closes(p, e), ~Opens(p, e), Quiet(p, t + 1, e - 1),
         ~Filled(p, t + 1), NEW i \in t..e
  PROVE  Shown(p, i) = <<p[i]>>
<1>1. Len(p) \in Nat /\ t < e
  BY PageIs
<1>2. /\ \A k \in t..e : k # t + 1 => ~Filled(p, k)
      /\ ~Filled(p, t - 1) /\ ~Filled(p, e + 1) /\ ~Empty(p, t)
      /\ \A k \in (t + 1)..(e - 1) : ~Empty(p, k)
      /\ ~Empty(p, e)
  BY <1>1, AroundPair
<1>3. \A k \in (t - 1)..(e + 1) : ~Filled(p, k)
  BY <1>1, <1>2
<1>4. i \in (t - 1)..(e + 1) /\ i - 1 \in (t - 1)..(e + 1) /\ i + 1 \in (t - 1)..(e + 1)
  BY <1>1
<1>5. ~Empty(p, i)
  BY <1>1, <1>2
<1>6. QED
  BY <1>3, <1>4, <1>5, PlainPiece

-----------------------------------------------------------------------------
(* What the client has.                                                    *)

Received == got \in Seq(Sendable) /\ cut \in BOOLEAN /\ ClientHas(out)

LEMMA PieceNotEmpty == \A x \in Pieces : ~IsEmpty(x)
<1>1. \A x \in Pieces : x.kind # "value"
  <2>1. Percent.kind = "percent" /\ \A t \in Texts : Text(t).kind = "text"
    BY DEF Percent, Text, Piece
  <2>2. QED
    BY <2>1 DEF Pieces
<1>2. QED
  BY <1>1 DEF IsEmpty

LEMMA ValueEmpty == \A n \in Known : IsEmpty(Value(n)) <=> n \in empty
BY DEF IsEmpty, Value, Piece

\* The elements of two sequences, one after the other.
LEMMA Joined ==
  ASSUME NEW x \in Seq(Sendable), NEW y \in Seq(Sendable)
  PROVE  /\ x \o y \in Seq(Sendable) /\ Len(x \o y) = Len(x) + Len(y)
         /\ DOMAIN (x \o y) = 1..(Len(x) + Len(y))
         /\ \A i \in 1..Len(x) : (x \o y)[i] = x[i]
         /\ \A j \in 1..Len(y) : (x \o y)[Len(x) + j] = y[j]
OBVIOUS

LEMMA JoinedFull ==
  ASSUME NEW x \in Seq(Sendable), NEW y \in Seq(Sendable),
         \A i \in DOMAIN x : ~IsEmpty(x[i]), \A i \in DOMAIN y : ~IsEmpty(y[i])
  PROVE  \A i \in DOMAIN (x \o y) : ~IsEmpty((x \o y)[i])
<1>1. Len(x) \in Nat /\ Len(y) \in Nat /\ DOMAIN x = 1..Len(x) /\ DOMAIN y = 1..Len(y)
  BY LenProperties
<1>2. SUFFICES ASSUME NEW i \in 1..(Len(x) + Len(y)) PROVE ~IsEmpty((x \o y)[i])
  BY Joined
<1>3. CASE i <= Len(x)
  BY <1>1, <1>3, Joined
<1>4. CASE i > Len(x)
  <2>1. i - Len(x) \in 1..Len(y) /\ Len(x) + (i - Len(x)) = i
    BY <1>1, <1>4
  <2>2. (x \o y)[i] = y[i - Len(x)]
    BY <2>1, Joined
  <2>3. QED
    BY <1>1, <2>1, <2>2
<1>5. QED
  BY <1>1, <1>3, <1>4

LEMMA JoinedHead ==
  ASSUME NEW x \in Seq(Sendable), NEW y \in Seq(Sendable), NEW k \in 0..Len(x)
  PROVE  SubSeq(x \o y, 1, k) = SubSeq(x, 1, k)
OBVIOUS

\* A response that was cut stays as it is.
LEMMA CutStays ==
  ASSUME NEW x \in Seq(Sendable), NEW y \in Seq(Sendable), NEW k, UpToEmpty(x, k)
  PROVE  UpToEmpty(x \o y, k)
<1>1. Len(x) \in Nat /\ Len(y) \in Nat /\ DOMAIN x = 1..Len(x) /\ k \in 1..Len(x)
      /\ IsEmpty(x[k]) /\ got = SubSeq(x, 1, k - 1) /\ \A i \in 1..(k - 1) : ~IsEmpty(x[i])
  BY LenProperties DEF UpToEmpty
<1>2. k \in DOMAIN (x \o y) /\ (x \o y)[k] = x[k]
      /\ \A i \in 1..(k - 1) : (x \o y)[i] = x[i]
  BY <1>1, Joined
<1>3. k - 1 \in 0..Len(x)
  BY <1>1
<1>4. SubSeq(x \o y, 1, k - 1) = got
  BY <1>1, <1>3, JoinedHead
<1>5. QED
  BY <1>1, <1>2, <1>4 DEF UpToEmpty

LEMMA SendsReceived ==
  ASSUME Received, out \in Seq(Sendable), NEW s \in Seq(Pieces), s \in Seq(Sendable),
         Sends(s), empty' = empty
  PROVE  Received'
<1>1. \A x : IsEmpty(x)' <=> IsEmpty(x)
  BY DEF IsEmpty
<1>2. \A i \in DOMAIN s : ~IsEmpty(s[i])
  BY PieceNotEmpty
<1>3. out' = out \o s /\ cut' = cut /\ cut \in BOOLEAN
  BY DEF Sends, Received
<1>4. CASE cut
  <2>1. got' = got
    BY <1>4 DEF Sends
  <2>2. PICK k \in DOMAIN out : UpToEmpty(out, k)
    BY <1>4 DEF Received, ClientHas
  <2>3. UpToEmpty(out \o s, k)
    BY <2>2, CutStays
  <2>4. UpToEmpty(out, k)'
    BY <1>3, <2>1, <2>3 DEF UpToEmpty, IsEmpty
  <2>5. ClientHas(out)'
    BY <1>3, <1>4, <2>4 DEF ClientHas, UpToEmpty
  <2>6. QED
    BY <1>3, <2>1, <2>5 DEF Received
<1>5. CASE ~cut
  <2>1. got' = out' /\ got' \in Seq(Sendable) /\ \A i \in DOMAIN out : ~IsEmpty(out[i])
    BY <1>3, <1>5, Joined DEF Sends, Received, ClientHas
  <2>2. \A i \in DOMAIN out' : ~IsEmpty(out'[i])
    BY <1>2, <1>3, <2>1, JoinedFull
  <2>3. ClientHas(out)'
    BY <1>3, <1>5, <2>1, <2>2 DEF ClientHas, IsEmpty
  <2>4. QED
    BY <1>3, <2>1, <2>3 DEF Received
<1>6. QED
  BY <1>3, <1>4, <1>5

LEMMA SendsValueReceived ==
  ASSUME Received, out \in Seq(Sendable), NEW s \in Seq(Pieces), s \in Seq(Sendable),
         NEW n \in Known, SendsValue(s, n), empty' = empty
  PROVE  Received'
<1> DEFINE v == <<Value(n)>>
           sv == s \o v
<1>1. v \in Seq(Sendable) /\ Len(v) = 1 /\ v[1] = Value(n) /\ DOMAIN v = {1}
      /\ (IsEmpty(v[1]) <=> n \in empty)
  BY ValueEmpty DEF Sendable
<1>2. \A i \in DOMAIN s : ~IsEmpty(s[i])
  BY PieceNotEmpty
<1>3. out' = out \o sv /\ cut' = (cut \/ n \in empty) /\ cut \in BOOLEAN /\ cut' \in BOOLEAN
      /\ got' = IF cut THEN got ELSE IF n \in empty THEN got \o s ELSE got \o sv
  BY DEF SendsValue, Received
<1>4. sv \in Seq(Sendable)
  BY <1>1, Joined
<1> HIDE DEF v
<1>5. CASE cut
  <2> HIDE DEF sv
  <2>1. got' = got /\ cut'
    BY <1>3, <1>5
  <2>2. PICK k \in DOMAIN out : UpToEmpty(out, k)
    BY <1>5 DEF Received, ClientHas
  <2>3. UpToEmpty(out \o sv, k)
    BY <1>4, <2>2, CutStays
  <2>4. UpToEmpty(out, k)'
    BY <1>3, <2>1, <2>3 DEF UpToEmpty, IsEmpty
  <2>5. ClientHas(out)'
    BY <2>1, <2>4 DEF ClientHas, UpToEmpty
  <2>6. QED
    BY <1>3, <2>1, <2>5 DEF Received
<1>6. CASE ~cut /\ n \notin empty
  <2>1. got = out /\ \A i \in DOMAIN out : ~IsEmpty(out[i])
    BY <1>6 DEF Received, ClientHas
  <2>2. \A i \in DOMAIN v : ~IsEmpty(v[i])
    BY <1>1, <1>6
  <2>3. \A i \in DOMAIN sv : ~IsEmpty(sv[i])
    BY <1>1, <1>2, <2>2, JoinedFull
  <2> HIDE DEF sv
  <2>4. got' = out' /\ got' \in Seq(Sendable) /\ ~cut'
    BY <1>3, <1>4, <1>6, <2>1, Joined
  <2>5. \A i \in DOMAIN out' : ~IsEmpty(out'[i])
    BY <1>3, <1>4, <2>1, <2>3, JoinedFull
  <2>6. ClientHas(out)'
    BY <2>4, <2>5 DEF ClientHas, IsEmpty
  <2>7. QED
    BY <1>3, <2>4, <2>6 DEF Received
<1>7. CASE ~cut /\ n \in empty
  <2> DEFINE os == out \o s
  <2>1. got = out /\ \A i \in DOMAIN out : ~IsEmpty(out[i])
    BY <1>7 DEF Received, ClientHas
  <2>2. os \in Seq(Sendable) /\ got' = os /\ cut'
    BY <1>3, <1>7, <2>1, Joined
  <2>3. \A i \in DOMAIN os : ~IsEmpty(os[i])
    BY <1>2, <2>1, JoinedFull
  <2>4. out' = os \o v
    <3>1. (out \o s) \o v = out \o (s \o v)
      BY <1>1, ConcatAssociative
    <3>2. QED
      BY <1>3, <3>1
  <2> HIDE DEF os, sv
  <2>5. /\ Len(os) \in Nat /\ DOMAIN os = 1..Len(os) /\ DOMAIN out' = 1..(Len(os) + 1)
        /\ \A i \in 1..Len(os) : out'[i] = os[i]
        /\ out'[Len(os) + 1] = v[1]
    <3>1. Len(os) \in Nat /\ DOMAIN os = 1..Len(os)
      BY <2>2, LenProperties
    <3>2. /\ DOMAIN (os \o v) = 1..(Len(os) + Len(v))
          /\ \A i \in 1..Len(os) : (os \o v)[i] = os[i]
          /\ \A j \in 1..Len(v) : (os \o v)[Len(os) + j] = v[j]
      BY <1>1, <2>2, Joined
    <3>3. 1 \in 1..Len(v)
      BY <1>1
    <3>4. QED
      BY <1>1, <2>4, <3>1, <3>2, <3>3
  <2>6. SubSeq(out', 1, Len(os)) = os
    <3>1. Len(os) \in 0..Len(os)
      BY <2>5
    <3>2. SubSeq(os \o v, 1, Len(os)) = SubSeq(os, 1, Len(os))
      BY <1>1, <2>2, <3>1, JoinedHead
    <3>3. SubSeq(os, 1, Len(os)) = os
      BY <2>2
    <3>4. QED
      BY <2>4, <3>2, <3>3
  <2>7. \A i \in 1..Len(os) : ~IsEmpty(out'[i])
    BY <2>3, <2>5
  <2>8. IsEmpty(out'[Len(os) + 1])
    BY <1>1, <1>7, <2>5
  <2>9. PICK k \in DOMAIN out' : k = Len(os) + 1 /\ k - 1 = Len(os)
    BY <2>5
  <2>10. UpToEmpty(out, k)'
    BY <2>2, <2>6, <2>7, <2>8, <2>9 DEF UpToEmpty, IsEmpty
  <2>11. ClientHas(out)'
    BY <2>2, <2>10 DEF ClientHas, UpToEmpty
  <2>12. QED
    BY <1>3, <2>2, <2>11 DEF Received
<1>8. QED
  BY <1>3, <1>5, <1>6, <1>7

-----------------------------------------------------------------------------
(* The passes of the loop.                                                 *)

\* Where a pass begins.
LEMMA PassBegins ==
  ASSUME PageInv, pc = "scan"
  PROVE  /\ page \in Pages /\ Len(page) \in Nat /\ DOMAIN page = 1..Len(page)
         /\ ptr \in 1..Len(page) /\ ptr - 1 \in 0..Len(page) /\ (ptr - 1) + 1 = ptr
         /\ Count(page, ptr - 1) % 2 = 0
         /\ out = Rendered(page, ptr - 1) /\ out \in Seq(Sendable) /\ Received
<1>1. page \in Pages /\ ptr \in 1..Len(page) /\ out \in Seq(Sendable) /\ Received
  BY DEF Received, PageInv, TypeOK, Sendable
<1>2. Len(page) \in Nat /\ DOMAIN page = 1..Len(page)
  BY <1>1, PageIs
<1>3. Count(page, ptr - 1) % 2 = 0
  BY DEF PageInv, Paired, Count
<1>4. out = Rendered(page, ptr - 1)
  BY DEF PageInv, SentIsRendered, Looked
<1>5. QED
  BY <1>1, <1>2, <1>3, <1>4

\* What is sent before the first percent sign.
LEMMA BeforeToken ==
  ASSUME PageInv, pc = "scan", NEW t \in ptr..(Len(page) + 1), Quiet(page, ptr, t - 1)
  PROVE  /\ Rendered(page, t - 1) = out \o SubSeq(page, ptr, t - 1)
         /\ SubSeq(page, ptr, t - 1) \in Seq(Sendable)
         /\ Rendered(page, t - 1) \in Seq(Sendable)
<1>1. /\ page \in Pages /\ Len(page) \in Nat
      /\ ptr \in 1..Len(page) /\ ptr - 1 \in 0..Len(page) /\ (ptr - 1) + 1 = ptr
      /\ Count(page, ptr - 1) % 2 = 0
      /\ out = Rendered(page, ptr - 1) /\ out \in Seq(Sendable)
  BY PassBegins
<1>2. t - 1 \in (ptr - 1)..Len(page) /\ t - 1 \in 0..Len(page) /\ ptr \in Nat \ {0}
  BY <1>1
<1> DEFINE a == ptr - 1
           b == t - 1
<1>3. /\ a \in 0..Len(page) /\ b \in a..Len(page) /\ Count(page, a) % 2 = 0
      /\ a + 1 = ptr /\ Quiet(page, a + 1, b) /\ Rendered(page, a) \in Seq(Sendable)
  BY <1>1, <1>2
<1> HIDE DEF a, b
<1>4. \A i \in (a + 1)..b : Shown(page, i) = <<page[i]>>
  BY <1>1, <1>3, QuietShown
<1>5. Rendered(page, b) = Rendered(page, a) \o SubSeq(page, a + 1, b)
  BY <1>1, <1>3, <1>4, RenderedPlain
<1>6. SubSeq(page, ptr, t - 1) \in Seq(Sendable)
  BY <1>1, <1>2, SliceType
<1>7. Rendered(page, t - 1) = out \o SubSeq(page, ptr, t - 1)
  BY <1>1, <1>3, <1>5 DEF a, b
<1>8. QED
  BY <1>1, <1>6, <1>7, ConcatProperties

\* A pass sends two sequences one after the other.
LEMMA SendsTwo ==
  ASSUME NEW M, NEW x \in Seq(M), NEW y \in Seq(M), NEW z \in Seq(M)
  PROVE  (x \o y) \o z = x \o (y \o z) /\ (x \o y) \o z \in Seq(M)
<1>1. (x \o y) \o z = x \o (y \o z)
  BY ConcatAssociative
<1>2. x \o y \in Seq(M)
  BY ConcatProperties
<1>3. (x \o y) \o z \in Seq(M)
  BY <1>2, ConcatProperties
<1>4. QED
  BY <1>1, <1>3

\* The last pass: the rest of the page is sent.
LEMMA PassEnds ==
  ASSUME PageInv, pc = "scan", Breaks, out' = Rendered(page, Len(page)), out' \in Seq(Sendable),
         Received'
  PROVE  PageInv'
<1>1. page \in Pages /\ ptr \in 1..Len(page) /\ empty \in SUBSET MayBeEmpty
  BY PassBegins DEF PageInv, TypeOK
<1>2. pc' = "done" /\ page' = page /\ ptr' = ptr /\ empty' = empty
  BY DEF Breaks
<1>3. TypeOK' /\ Paired'
  BY <1>1, <1>2 DEF TypeOK, Paired, Sendable, Received
<1>4. SentIsRendered'
  BY <1>2 DEF SentIsRendered, Looked
<1>5. QED
  BY <1>3, <1>4 DEF PageInv, Received

LEMMA NoTokenKeeps == ASSUME PageInv, NoToken PROVE PageInv'
<1>1. pc = "scan" /\ Quiet(page, ptr, Len(page)) /\ Breaks
      /\ out' = out \o SubSeq(page, ptr, Len(page))
  BY DEF NoToken, NoPercent, Quiet, Sends
<1>2. /\ page \in Pages /\ Len(page) \in Nat /\ ptr \in 1..Len(page)
  BY <1>1, PassBegins
<1> DEFINE t == Len(page) + 1
<1>3. t \in ptr..(Len(page) + 1) /\ t - 1 = Len(page)
  BY <1>2
<1>4. Quiet(page, ptr, t - 1)
  BY <1>1, <1>3
<1> HIDE DEF t
<1>5. /\ Rendered(page, t - 1) = out \o SubSeq(page, ptr, t - 1)
      /\ Rendered(page, t - 1) \in Seq(Sendable)
  BY <1>1, <1>3, <1>4, BeforeToken
<1>6. out' = Rendered(page, Len(page)) /\ out' \in Seq(Sendable)
  BY <1>1, <1>3, <1>5
<1>7. Received'
  <2>1. ptr \in Nat \ {0} /\ Len(page) \in 0..Len(page)
    BY <1>2
  <2>2. /\ SubSeq(page, ptr, Len(page)) \in Seq(Sendable)
        /\ SubSeq(page, ptr, Len(page)) \in Seq(Pieces)
    BY <1>2, <2>1, SliceType
  <2>3. Received /\ out \in Seq(Sendable) /\ empty' = empty
    BY <1>1, PassBegins DEF Breaks
  <2>4. QED
    BY <2>2, <2>3, SendsReceived DEF NoToken
<1>8. QED
  BY <1>1, <1>6, <1>7, PassEnds

LEMMA LonePercentKeeps == ASSUME PageInv, NEW t \in DOMAIN page, LonePercent(t) PROVE PageInv'
<1> DEFINE first == SubSeq(page, ptr, t - 1)
           rest == SubSeq(page, t, Len(page))
<1>1. /\ pc = "scan" /\ Breaks /\ page[t] = Percent /\ t \in ptr..Len(page)
      /\ Quiet(page, ptr, t - 1) /\ Quiet(page, t + 1, Len(page))
      /\ out' = out \o (first \o rest)
  BY DEF LonePercent, FirstPercent, NoPercent, Quiet, Sends
<1>2. /\ page \in Pages /\ Len(page) \in Nat /\ ptr \in 1..Len(page)
      /\ ptr - 1 \in 0..Len(page) /\ (ptr - 1) + 1 = ptr
      /\ Count(page, ptr - 1) % 2 = 0 /\ out \in Seq(Sendable)
  BY <1>1, PassBegins
<1>3. /\ t \in ptr..(Len(page) + 1) /\ t \in 1..Len(page) /\ t - 1 \in 0..Len(page)
      /\ Len(page) \in (t - 1)..Len(page) /\ (t - 1) + 1 = t /\ ptr - 1 < t
      /\ ptr - 1 \in Nat /\ t \in Nat \ {0} /\ Len(page) \in 0..Len(page)
  <2> DEFINE l == Len(page)
  <2>1. t \in ptr..l /\ l \in Nat /\ ptr \in 1..l
    BY <1>1, <1>2
  <2> HIDE DEF l
  <2>2. /\ t \in ptr..(l + 1) /\ t \in 1..l /\ t - 1 \in 0..l
        /\ l \in (t - 1)..l /\ (t - 1) + 1 = t /\ ptr - 1 < t
        /\ ptr - 1 \in Nat /\ t \in Nat \ {0} /\ l \in 0..l
    BY <2>1
  <2>3. QED
    BY <2>2 DEF l
<1>4. /\ Rendered(page, t - 1) = out \o first
      /\ first \in Seq(Sendable) /\ Rendered(page, t - 1) \in Seq(Sendable)
  BY <1>1, <1>3, BeforeToken
<1>5. Opens(page, t) /\ ~Closes(page, t)
  BY <1>1, <1>2, <1>3, PairIs
<1>6. \A i \in t..Len(page) : Shown(page, i) = <<page[i]>>
  BY <1>1, <1>2, <1>3, <1>5, LoneShown
<1>7. Rendered(page, Len(page)) = Rendered(page, t - 1) \o rest
  <2> DEFINE a == t - 1
             b == Len(page)
  <2>1. /\ a \in 0..Len(page) /\ b \in a..Len(page) /\ Rendered(page, a) \in Seq(Sendable)
        /\ a + 1 = t /\ \A i \in (a + 1)..b : Shown(page, i) = <<page[i]>>
    BY <1>3, <1>4, <1>6
  <2> HIDE DEF a, b
  <2>2. Rendered(page, b) = Rendered(page, a) \o SubSeq(page, a + 1, b)
    BY <1>2, <2>1, RenderedPlain
  <2>3. QED
    BY <2>1, <2>2 DEF a, b
<1>8. rest \in Seq(Sendable)
  BY <1>2, <1>3, SliceType
<1> HIDE DEF first, rest
<1>9. (out \o first) \o rest = out \o (first \o rest) /\ (out \o first) \o rest \in Seq(Sendable)
  <2>1. out \in Seq(Sendable) /\ first \in Seq(Sendable) /\ rest \in Seq(Sendable)
    BY <1>2, <1>4, <1>8
  <2>2. QED
    BY <2>1, SendsTwo, Zenon
<1>10. out' = Rendered(page, Len(page)) /\ out' \in Seq(Sendable)
  BY <1>1, <1>4, <1>7, <1>9
<1>11. Received'
  <2>1. Received /\ empty' = empty /\ Sends(first \o rest)
    BY <1>1, PassBegins DEF LonePercent, Breaks, first, rest
  <2>2. first \in Seq(Pieces) /\ rest \in Seq(Pieces)
    <3>1. ptr \in Nat \ {0} /\ t \in Nat \ {0} /\ t - 1 \in 0..Len(page)
          /\ Len(page) \in 0..Len(page)
      BY <1>2, <1>3
    <3>2. QED
      BY <1>2, <3>1, SliceType DEF first, rest
  <2>3. first \o rest \in Seq(Pieces) /\ first \o rest \in Seq(Sendable)
    BY <1>4, <1>8, <2>2, ConcatProperties
  <2>4. QED
    BY <1>2, <2>1, <2>3, SendsReceived
<1>12. QED
  BY <1>1, <1>10, <1>11, PassEnds

\* What a pass finds that goes on.
LEMMA TokenIs ==
  ASSUME PageInv, NEW t, NEW e, Token(t, e)
  PROVE  /\ pc = "scan" /\ page \in Pages /\ Len(page) \in Nat
         /\ ptr \in 1..Len(page) /\ out \in Seq(Sendable)
         /\ t \in 1..Len(page) /\ e \in 1..Len(page) /\ ptr <= t /\ t < e /\ e < Len(page)
         /\ page[t] = Percent /\ page[e] = Percent /\ Quiet(page, t + 1, e - 1)
         /\ Opens(page, t) /\ ~Closes(page, t) /\ Closes(page, e) /\ ~Opens(page, e)
         /\ Count(page, e) % 2 = 0
         /\ Rendered(page, t - 1) = out \o SubSeq(page, ptr, t - 1)
         /\ SubSeq(page, ptr, t - 1) \in Seq(Sendable)
         /\ SubSeq(page, ptr, t - 1) \in Seq(Pieces)
         /\ Rendered(page, t - 1) \in Seq(Sendable)
         /\ Received
<1>1. /\ pc = "scan" /\ t \in ptr..Len(page) /\ e \in (t + 1)..Len(page)
      /\ page[t] = Percent /\ page[e] = Percent
      /\ Quiet(page, ptr, t - 1) /\ Quiet(page, t + 1, e - 1)
  BY DEF Token, FirstPercent, Quiet
<1>2. /\ page \in Pages /\ Len(page) \in Nat /\ ptr \in 1..Len(page)
      /\ ptr - 1 \in 0..Len(page) /\ (ptr - 1) + 1 = ptr
      /\ Count(page, ptr - 1) % 2 = 0 /\ out \in Seq(Sendable)
  BY <1>1, PassBegins
<1>3. /\ t \in 1..Len(page) /\ e \in 1..Len(page) /\ t < e /\ t \in Nat /\ e \in Nat
      /\ t \in ptr..(Len(page) + 1) /\ ptr - 1 \in Nat /\ ptr - 1 < t /\ ptr <= t
  BY <1>1, <1>2
<1>4. e < Len(page)
  <2>1. page[Len(page)] # Percent
    BY <1>2, PageIs
  <2>2. QED
    BY <1>1, <1>2, <1>3, <2>1
<1>5. /\ Rendered(page, t - 1) = out \o SubSeq(page, ptr, t - 1)
      /\ SubSeq(page, ptr, t - 1) \in Seq(Sendable)
      /\ Rendered(page, t - 1) \in Seq(Sendable)
  BY <1>1, <1>3, BeforeToken
<1>6. /\ Opens(page, t) /\ ~Closes(page, t) /\ Closes(page, e) /\ ~Opens(page, e)
      /\ Count(page, e) % 2 = 0
  BY <1>1, <1>2, <1>3, PairIs
<1>7. SubSeq(page, ptr, t - 1) \in Seq(Pieces) /\ Received
  <2>1. ptr \in Nat \ {0} /\ t - 1 \in 0..Len(page)
    BY <1>2, <1>3
  <2>2. QED
    BY <1>1, <1>2, <2>1, SliceType, PassBegins
<1>8. QED
  BY <1>1, <1>2, <1>3, <1>4, <1>5, <1>6, <1>7

\* A pass that goes on.
LEMMA PassGoesOn ==
  ASSUME PageInv, NEW t, NEW e, Token(t, e), Continues(t, e),
         out' = Rendered(page, e), out' \in Seq(Sendable), Received'
  PROVE  PageInv'
<1>1. /\ pc = "scan" /\ page \in Pages /\ Len(page) \in Nat
      /\ e \in 1..Len(page) /\ e < Len(page) /\ Count(page, e) % 2 = 0
  BY TokenIs
<1>2. page' = page /\ pc' = "scan" /\ ptr' = e + 1 /\ ptr' - 1 = e /\ empty' = empty
  BY <1>1 DEF Continues, Resume
<1>3. TypeOK'
  BY <1>1, <1>2 DEF TypeOK, Sendable, Received, PageInv
<1>4. Paired' /\ SentIsRendered'
  BY <1>1, <1>2 DEF Paired, SentIsRendered, Looked, Count
<1>5. QED
  BY <1>3, <1>4 DEF PageInv, Received

LEMMA EmptyTokenKeeps ==
  ASSUME PageInv, NEW t, NEW e, EmptyToken(t, e)
  PROVE  PageInv'
<1> DEFINE first == SubSeq(page, ptr, t - 1)
           sign == <<Percent>>
<1>1. /\ Token(t, e) /\ Between(t, e) = <<>> /\ Continues(t, e)
      /\ out' = out \o (first \o sign)
  BY DEF EmptyToken, Sends
<1>2. /\ page \in Pages /\ Len(page) \in Nat /\ out \in Seq(Sendable)
      /\ t \in 1..Len(page) /\ e \in 1..Len(page) /\ t < e
      /\ page[t] = Percent
      /\ Opens(page, t) /\ ~Closes(page, t) /\ Closes(page, e) /\ ~Opens(page, e)
      /\ Rendered(page, t - 1) = out \o first
      /\ first \in Seq(Sendable) /\ Rendered(page, t - 1) \in Seq(Sendable)
  BY <1>1, TokenIs
<1>3. e = t + 1
  <2>1. t + 1 \in Int /\ e - 1 \in Int /\ \A i \in (t + 1)..(e - 1) : page[i] \in Pieces
    BY <1>2, PageIs
  <2>2. Len(Between(t, e)) = IF t + 1 <= e - 1 THEN (e - 1) - (t + 1) + 1 ELSE 0
    BY <2>1, SubSeqProperties DEF Between
  <2>3. Len(Between(t, e)) = 0
    BY <1>1
  <2>4. QED
    BY <1>2, <2>2, <2>3
<1>4. Shown(page, t) = sign /\ Shown(page, t + 1) = <<>>
  BY <1>2, <1>3, EmptyShown
<1>5. sign \in Seq(Sendable)
  <2>1. Percent \in Sendable
    BY <1>2, PageIs
  <2>2. QED
    BY <2>1
<1> HIDE DEF first, sign
<1>6. /\ Rendered(page, t) = Rendered(page, t - 1) \o sign
      /\ Rendered(page, t + 1) = Rendered(page, t) \o <<>>
  <2>1. t - 1 \in Nat /\ t \in Nat /\ (t - 1) + 1 = t
    BY <1>2
  <2>2. QED
    BY <1>4, <2>1, RenderedOne
<1>7. (out \o first) \o sign = out \o (first \o sign) /\ (out \o first) \o sign \in Seq(Sendable)
  <2>1. out \in Seq(Sendable) /\ first \in Seq(Sendable) /\ sign \in Seq(Sendable)
    BY <1>2, <1>5
  <2>2. QED
    BY <2>1, SendsTwo, Zenon
<1>8. out' = Rendered(page, t) /\ out' \in Seq(Sendable)
  BY <1>1, <1>2, <1>6, <1>7
<1>9. Rendered(page, e) = out'
  BY <1>3, <1>6, <1>8, ConcatEmptySeq
<1>10. Received'
  <2>1. /\ Received /\ empty' = empty /\ Sends(first \o sign)
        /\ first \in Seq(Pieces)
    BY <1>1, TokenIs DEF EmptyToken, Continues, first, sign
  <2>2. sign \in Seq(Pieces)
    BY DEF Pieces, sign
  <2>3. first \o sign \in Seq(Pieces) /\ first \o sign \in Seq(Sendable)
    BY <1>2, <1>5, <2>1, <2>2, ConcatProperties
  <2>4. QED
    BY <1>2, <2>1, <2>3, SendsReceived
<1>11. QED
  BY <1>1, <1>8, <1>9, <1>10, PassGoesOn

LEMMA KnownTokenKeeps ==
  ASSUME PageInv, NEW t, NEW e, NEW n \in Known, KnownToken(t, e, n)
  PROVE  PageInv'
<1> DEFINE first == SubSeq(page, ptr, t - 1)
           value == <<Value(n)>>
<1>1. /\ Token(t, e) /\ Between(t, e) = <<Text(n)>> /\ Continues(t, e)
      /\ out' = out \o (first \o value)
  BY DEF KnownToken, SendsValue
<1>2. /\ page \in Pages /\ Len(page) \in Nat /\ out \in Seq(Sendable)
      /\ t \in 1..Len(page) /\ e \in 1..Len(page) /\ t < e
      /\ Opens(page, t) /\ ~Closes(page, t) /\ Closes(page, e) /\ ~Opens(page, e)
      /\ Rendered(page, t - 1) = out \o first
      /\ first \in Seq(Sendable) /\ Rendered(page, t - 1) \in Seq(Sendable)
  BY <1>1, TokenIs
<1>3. e = t + 2 /\ page[t + 1] = Text(n)
  <2>1. t + 1 \in Int /\ e - 1 \in Int /\ \A i \in (t + 1)..(e - 1) : page[i] \in Pieces
    BY <1>2, PageIs
  <2>2. /\ Len(Between(t, e)) = IF t + 1 <= e - 1 THEN (e - 1) - (t + 1) + 1 ELSE 0
        /\ \A i \in 1..((e - 1) - (t + 1) + 1) : Between(t, e)[i] = page[(t + 1) + i - 1]
    BY <2>1, SubSeqProperties DEF Between
  <2>3. Len(Between(t, e)) = 1 /\ Between(t, e)[1] = Text(n)
    BY <1>1
  <2>4. e = t + 2
    <3> DEFINE l == Len(Between(t, e))
    <3>1. l = 1 /\ l = (IF t + 1 <= e - 1 THEN (e - 1) - (t + 1) + 1 ELSE 0)
      BY <2>2, <2>3
    <3>2. t \in Nat /\ e \in Nat
      BY <1>2
    <3> HIDE DEF l
    <3>3. QED
      BY <3>1, <3>2
  <2>5. 1 \in 1..((e - 1) - (t + 1) + 1) /\ (t + 1) + 1 - 1 = t + 1
    BY <1>2, <2>4
  <2>6. Between(t, e)[1] = page[t + 1]
    BY <2>2, <2>5
  <2>7. QED
    BY <2>3, <2>4, <2>6
<1>4. Shown(page, t) = <<>> /\ Shown(page, t + 1) = value /\ Shown(page, t + 2) = <<>>
  BY <1>2, <1>3, KnownShown
<1>5. value \in Seq(Sendable)
  <2>1. Value(n) \in Sendable
    BY DEF Sendable
  <2>2. QED
    BY <2>1
<1> HIDE DEF first, value
<1>6. /\ Rendered(page, t) = Rendered(page, t - 1) \o <<>>
      /\ Rendered(page, t + 1) = Rendered(page, t) \o value
      /\ Rendered(page, t + 2) = Rendered(page, t + 1) \o <<>>
  <2>1. /\ t - 1 \in Nat /\ t \in Nat /\ t + 1 \in Nat
        /\ (t - 1) + 1 = t /\ (t + 1) + 1 = t + 2
    BY <1>2
  <2>2. QED
    BY <1>4, <2>1, RenderedOne
<1>7. Rendered(page, t) = out \o first
  BY <1>2, <1>6, ConcatEmptySeq
<1>8. (out \o first) \o value = out \o (first \o value) /\ (out \o first) \o value \in Seq(Sendable)
  <2>1. out \in Seq(Sendable) /\ first \in Seq(Sendable) /\ value \in Seq(Sendable)
    BY <1>2, <1>5
  <2>2. QED
    BY <2>1, SendsTwo, Zenon
<1>9. out' = Rendered(page, t + 1) /\ out' \in Seq(Sendable)
  BY <1>1, <1>6, <1>7, <1>8
<1>10. Rendered(page, e) = out'
  BY <1>3, <1>6, <1>9, ConcatEmptySeq
<1>11. Received'
  <2>1. /\ Received /\ empty' = empty /\ SendsValue(first, n)
        /\ first \in Seq(Pieces)
    BY <1>1, TokenIs DEF KnownToken, Continues, first
  <2>2. QED
    BY <1>2, <2>1, SendsValueReceived
<1>12. QED
  BY <1>1, <1>9, <1>10, <1>11, PassGoesOn

LEMMA UnknownTokenKeeps ==
  ASSUME PageInv, NEW t, NEW e, UnknownToken(t, e)
  PROVE  PageInv'
<1> DEFINE first == SubSeq(page, ptr, t - 1)
           token == SubSeq(page, t, e)
<1>1. /\ Token(t, e) /\ Between(t, e) # <<>> /\ Continues(t, e)
      /\ \A n \in Known : Between(t, e) # <<Text(n)>>
      /\ out' = out \o (first \o token)
  BY DEF UnknownToken, Sends
<1>2. /\ page \in Pages /\ Len(page) \in Nat /\ out \in Seq(Sendable)
      /\ t \in 1..Len(page) /\ e \in 1..Len(page) /\ t < e /\ Quiet(page, t + 1, e - 1)
      /\ Opens(page, t) /\ ~Closes(page, t) /\ Closes(page, e) /\ ~Opens(page, e)
      /\ Rendered(page, t - 1) = out \o first
      /\ first \in Seq(Sendable) /\ Rendered(page, t - 1) \in Seq(Sendable)
  BY <1>1, TokenIs
<1>3. t + 1 < e
  <2>1. t + 1 \in Int /\ e - 1 \in Int
    BY <1>2
  <2>2. e - 1 < t + 1 => Between(t, e) = <<>>
    BY <2>1, SubSeqEmpty DEF Between
  <2>3. QED
    BY <1>1, <1>2, <2>2
<1>4. ~Filled(page, t + 1)
  <2> SUFFICES ASSUME Filled(page, t + 1) PROVE FALSE
    OBVIOUS
  <2>1. t + 1 \in Nat /\ (t + 1) + 1 = t + 2 /\ t + 1 \in 1..Len(page)
    BY <1>2
  <2>2. page[t + 1] # Percent /\ page[t + 1].of \in Known /\ page[t + 2] = Percent
    BY <1>2, <2>1, FilledIs
  <2>3. e = t + 2
    <3>1. t + 2 <= e - 1 => t + 2 \in (t + 1)..(e - 1)
      BY <1>2
    <3>2. QED
      BY <1>2, <1>3, <2>2, <3>1 DEF Quiet
  <2>4. page[t + 1] = Text(page[t + 1].of)
    BY <1>2, <2>1, <2>2, PageIs
  <2>5. Between(t, e) = <<page[t + 1]>>
    <3> DEFINE x == t + 1
    <3>1. /\ x \in 1..Len(page) /\ x \in x..Len(page) /\ e - 1 = x
          /\ x - 1 \in Int /\ x \in Int /\ x - 1 < x
      BY <1>2, <2>1, <2>3
    <3>2. page \in Seq(Pieces) /\ page[x] \in Pieces
      BY <1>2, <2>1, PageIs
    <3> HIDE DEF x
    <3>3. SubSeq(page, x, x) = SubSeq(page, x, x - 1) \o <<page[x]>>
      BY <3>1, <3>2, SubSeqRecursiveSecond
    <3>4. SubSeq(page, x, x - 1) = <<>>
      BY <3>1, SubSeqEmpty
    <3>5. <<>> \o <<page[x]>> = <<page[x]>>
      <4>1. <<page[x]>> \in Seq(Pieces)
        BY <3>2
      <4>2. QED
        BY <4>1, ConcatEmptySeq
    <3>6. Between(t, e) = SubSeq(page, x, x)
      BY <3>1 DEF Between, x
    <3>7. QED
      BY <3>3, <3>4, <3>5, <3>6 DEF x
  <2>6. QED
    BY <1>1, <2>2, <2>4, <2>5
<1>5. \A i \in t..e : Shown(page, i) = <<page[i]>>
  BY <1>2, <1>3, <1>4, UnknownShown
<1>6. Rendered(page, e) = Rendered(page, t - 1) \o token
  <2> DEFINE a == t - 1
  <2>1. /\ a \in 0..Len(page) /\ e \in a..Len(page) /\ Rendered(page, a) \in Seq(Sendable)
        /\ a + 1 = t /\ \A i \in (a + 1)..e : Shown(page, i) = <<page[i]>>
    BY <1>2, <1>5
  <2> HIDE DEF a
  <2>2. Rendered(page, e) = Rendered(page, a) \o SubSeq(page, a + 1, e)
    BY <1>2, <2>1, RenderedPlain
  <2>3. QED
    BY <2>1, <2>2 DEF a
<1>7. token \in Seq(Sendable)
  <2>1. t \in Nat \ {0} /\ e \in 0..Len(page)
    BY <1>2
  <2>2. QED
    BY <1>2, <2>1, SliceType
<1> HIDE DEF first, token
<1>8. (out \o first) \o token = out \o (first \o token) /\ (out \o first) \o token \in Seq(Sendable)
  <2>1. out \in Seq(Sendable) /\ first \in Seq(Sendable) /\ token \in Seq(Sendable)
    BY <1>2, <1>7
  <2>2. QED
    BY <2>1, SendsTwo, Zenon
<1>9. out' = Rendered(page, e) /\ out' \in Seq(Sendable)
  BY <1>1, <1>2, <1>6, <1>8
<1>10. Received'
  <2>1. /\ Received /\ empty' = empty /\ Sends(first \o token)
        /\ first \in Seq(Pieces)
    BY <1>1, TokenIs DEF UnknownToken, Continues, first, token
  <2>2. token \in Seq(Pieces)
    <3>1. t \in Nat \ {0} /\ e \in 0..Len(page)
      BY <1>2
    <3>2. QED
      BY <1>2, <3>1, SliceType DEF token
  <2>3. first \o token \in Seq(Pieces) /\ first \o token \in Seq(Sendable)
    BY <1>2, <1>7, <2>1, <2>2, ConcatProperties
  <2>4. QED
    BY <1>2, <2>1, <2>3, SendsReceived
<1>11. QED
  BY <1>1, <1>9, <1>10, PassGoesOn

-----------------------------------------------------------------------------
(* The theorems.                                                           *)

LEMMA PageInit == Init => PageInv
<1> SUFFICES ASSUME Init PROVE PageInv
  OBVIOUS
<1>1. page \in Pages /\ ptr = 1 /\ out = <<>> /\ pc = "scan"
      /\ empty \in SUBSET MayBeEmpty /\ got = <<>> /\ cut = FALSE
  BY DEF Init
<1>2. Len(page) \in Nat \ {0} /\ ptr - 1 = 0
  BY <1>1, PageIs
<1>3. TypeOK
  <2>1. out \in Seq(Sendable) /\ got \in Seq(Sendable)
    BY <1>1
  <2>2. ptr \in 1..Len(page)
    BY <1>1, <1>2
  <2>3. cut \in BOOLEAN /\ pc \in {"scan", "done"}
    BY <1>1
  <2>4. QED
    BY <1>1, <2>1, <2>2, <2>3 DEF TypeOK, Sendable
<1>4. Paired
  <2>1. Percents(page, 0) = {}
    BY DEF Percents
  <2>2. Cardinality(Percents(page, ptr - 1)) = 0
    BY <1>2, <2>1, FS_EmptySet
  <2>3. QED
    BY <2>2 DEF Paired
<1>5. SentIsRendered
  BY <1>1, <1>2, RenderedNone DEF SentIsRendered, Looked
<1>6. ClientHas(out)
  <2>1. DOMAIN out = {}
    BY <1>1
  <2>2. QED
    BY <1>1, <2>1 DEF ClientHas
<1>7. QED
  BY <1>3, <1>4, <1>5, <1>6 DEF PageInv

LEMMA PageNext == PageInv /\ [Next]_vars => PageInv'
<1> SUFFICES ASSUME PageInv, [Next]_vars PROVE PageInv'
  OBVIOUS
<1>1. CASE NoToken
  BY <1>1, NoTokenKeeps
<1>2. ASSUME NEW t \in DOMAIN page, LonePercent(t) PROVE PageInv'
  BY <1>2, LonePercentKeeps
<1>3. ASSUME NEW t, NEW e, EmptyToken(t, e) PROVE PageInv'
  BY <1>3, EmptyTokenKeeps
<1>4. ASSUME NEW t, NEW e, NEW n \in Known, KnownToken(t, e, n) PROVE PageInv'
  BY <1>4, KnownTokenKeeps
<1>5. ASSUME NEW t, NEW e, UnknownToken(t, e) PROVE PageInv'
  BY <1>5, UnknownTokenKeeps
<1>6. CASE UNCHANGED vars
  BY <1>6 DEF vars, PageInv, TypeOK, Paired, SentIsRendered, Looked, ClientHas, UpToEmpty, IsEmpty
<1>7. QED
  BY <1>1, <1>2, <1>3, <1>4, <1>5, <1>6 DEF Next

\* The loop stays within the page, and every pass begins outside every pair of percent
\* signs (root_get_handler, lines 69-188).
THEOREM PageInvariant == Spec => []PageInv
BY PageInit, PageNext, PTL DEF Spec

\* For pages of every shape, and whichever settings are empty: no piece is lost, doubled or
\* out of place in the response, and a name is replaced exactly if an even number of percent
\* signs precedes its own two (lines 69-188), up to the first setting to be shown that is
\* empty: its chunk of length zero ends the response (line 29).
THEOREM PageIsRendered == Spec => []ResponseIsRendered
<1>1. PageInv => ResponseIsRendered
  BY DEF PageInv, SentIsRendered, ResponseIsRendered
<1>2. QED
  BY <1>1, PageInvariant, PTL

LEMMA MovesOnStep == PageInv /\ [Next]_vars => [ptr' > ptr \/ pc' = "done"]_vars
<1> SUFFICES ASSUME PageInv, Next PROVE ptr' > ptr \/ pc' = "done"
  OBVIOUS
<1>1. ASSUME NEW t, NEW e, Token(t, e), Continues(t, e) PROVE ptr' > ptr
  <2>1. /\ Len(page) \in Nat /\ ptr \in 1..Len(page)
        /\ t \in 1..Len(page) /\ e \in 1..Len(page) /\ ptr <= t /\ t < e
    BY <1>1, TokenIs
  <2>2. ptr' = e + 1
    BY <1>1 DEF Continues, Resume
  <2>3. QED
    BY <2>1, <2>2
<1>2. QED
  BY <1>1 DEF Next, NoToken, LonePercent, Breaks, EmptyToken, KnownToken, UnknownToken

\* Every pass moves on in the page or is the last one, so no page of any shape or length
\* keeps the httpd task in the loop for ever (lines 69-188).
THEOREM LoopMovesOn == Spec => MovesOn
BY PageInvariant, MovesOnStep, PTL DEF Spec, MovesOn
=============================================================================

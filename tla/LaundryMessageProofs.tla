------------------------ MODULE LaundryMessageProofs ------------------------
(***************************************************************************)
(* What the server believes, for every number of channels, every delays,   *)
(* every set of readings and every cap of the line number: the messages of *)
(* LaundryStream tell one story, and the losses of LaundryDelivery can be  *)
(* told from those that arrive.                                            *)
(***************************************************************************)
EXTENDS LaundryProofs, LaundryMessages, WellFoundedInduction

-----------------------------------------------------------------------------
(* Induction over the natural numbers, said of sets.                       *)

\* A set of natural numbers has a least one.
LEMMA LeastNat ==
  ASSUME NEW T \in SUBSET Nat, T # {}
  PROVE  \E n \in T : \A k \in T : n <= k
<1> DEFINE R == {ss \in Nat \X Nat : ss[1] < ss[2]}
<1>1. IsWellFoundedOn(R, Nat)
  BY NatLessThanWellFounded DEF OpToRel
<1> HIDE DEF R
<1>2. PICK x \in T : \A y \in T : ~ (<<y, x>> \in R)
  BY <1>1, WFMin
<1>3. \A y \in T : ~(y < x)
  BY <1>2 DEF R
<1>4. QED
  BY <1>3

LEMMA SetInduction ==
  ASSUME NEW S, 0 \in S, \A n \in Nat : n \in S => n + 1 \in S
  PROVE  \A n \in Nat : n \in S
<1>1. SUFFICES ASSUME {n \in Nat : n \notin S} # {} PROVE FALSE
  OBVIOUS
<1>2. PICK n \in {k \in Nat : k \notin S} : \A k \in {k \in Nat : k \notin S} : n <= k
  BY <1>1, LeastNat
<1>3. n - 1 \in Nat /\ n - 1 \in S
  BY <1>2
<1>4. QED
  BY <1>2, <1>3

-----------------------------------------------------------------------------
(* Replay, message by message.                                            *)

\* f is the recursive function of Replay on the first n messages.
Replays(v, s, n, f) ==
  f = [i \in 0..n |-> IF i = 0 THEN v ELSE Receive(f[i - 1], s[i])]

LEMMA ReplayExists ==
  ASSUME NEW v, NEW s, NEW n \in Nat
  PROVE  \E f : Replays(v, s, n, f)
<1> DEFINE S == {k \in Nat : \E f : Replays(v, s, k, f)}
<1>1. 0 \in S
  <2> DEFINE f == [i \in 0..0 |-> v]
  <2>1. Replays(v, s, 0, f)
    BY DEF Replays
  <2> HIDE DEF f
  <2>2. QED
    BY <2>1
<1>2. ASSUME NEW k \in Nat, k \in S PROVE k + 1 \in S
  <2>1. PICK f : Replays(v, s, k, f)
    BY <1>2
  <2> DEFINE g == [i \in 0..(k + 1) |-> IF i <= k THEN f[i] ELSE Receive(f[k], s[k + 1])]
             h == [i \in 0..(k + 1) |-> IF i = 0 THEN v ELSE Receive(g[i - 1], s[i])]
  <2>2. ASSUME NEW i \in 0..(k + 1) PROVE g[i] = h[i]
    <3>1. CASE i = 0
      BY <2>1, <3>1 DEF Replays
    <3>2. CASE i # 0 /\ i <= k
      <4>1. g[i] = f[i] /\ i - 1 \in 0..k /\ i \in 0..k /\ g[i - 1] = f[i - 1]
        BY <3>2
      <4>2. f[i] = Receive(f[i - 1], s[i])
        BY <2>1, <3>2, <4>1 DEF Replays
      <4>3. QED
        BY <3>2, <4>1, <4>2
    <3>3. CASE i = k + 1
      <4>1. i - 1 = k /\ g[k] = f[k] /\ i # 0 /\ ~(i <= k)
        BY <3>3
      <4>2. QED
        BY <3>3, <4>1
    <3>4. QED
      BY <3>1, <3>2, <3>3
  <2>3. g = h
    BY <2>2
  <2> HIDE DEF g
  <2>4. QED
    BY <2>3 DEF Replays
<1> HIDE DEF S
<1>3. n \in S
  BY <1>1, <1>2, SetInduction
<1>4. QED
  BY <1>3 DEF S

LEMMA ReplayIs ==
  ASSUME NEW v, NEW s, Len(s) \in Nat
  PROVE  \E f : Replays(v, s, Len(s), f) /\ Replay(v, s) = f[Len(s)]
<1> DEFINE F == CHOOSE f : Replays(v, s, Len(s), f)
<1>1. Replay(v, s) = F[Len(s)]
  BY DEF Replay, Replays
<1>2. Replays(v, s, Len(s), F)
  BY ReplayExists
<1> HIDE DEF F
<1>3. QED
  BY <1>1, <1>2

\* What one more message adds.
LEMMA ReplayLonger ==
  ASSUME NEW v, NEW s, NEW t, NEW n \in Nat, Len(s) = n, Len(t) = n + 1,
         \A i \in 1..n : s[i] = t[i]
  PROVE  Replay(v, t) = Receive(Replay(v, s), t[n + 1])
<1>1. PICK F : Replays(v, s, n, F) /\ Replay(v, s) = F[n]
  BY ReplayIs
<1>2. PICK G : Replays(v, t, n + 1, G) /\ Replay(v, t) = G[n + 1]
  <2>1. n + 1 \in Nat
    OBVIOUS
  <2>2. QED
    BY <2>1, ReplayIs
<1>3. F[n] = G[n]
  <2> DEFINE S == {i \in Nat : i <= n => F[i] = G[i]}
  <2>1. 0 \in S
    BY <1>1, <1>2 DEF Replays
  <2>2. ASSUME NEW i \in Nat, i \in S PROVE i + 1 \in S
    <3> SUFFICES ASSUME i + 1 <= n PROVE F[i + 1] = G[i + 1]
      OBVIOUS
    <3>1. F[i] = G[i] /\ s[i + 1] = t[i + 1]
      BY <2>2
    <3>2. /\ i + 1 \in 0..n /\ i + 1 \in 0..(n + 1) /\ i + 1 # 0
          /\ (i + 1) - 1 = i
      OBVIOUS
    <3>3. F[i + 1] = Receive(F[i], s[i + 1])
      BY <1>1, <3>2 DEF Replays
    <3>4. G[i + 1] = Receive(G[i], t[i + 1])
      BY <1>2, <3>2 DEF Replays
    <3>5. QED
      BY <3>1, <3>3, <3>4
  <2> HIDE DEF S
  <2>3. n \in S
    BY <2>1, <2>2, SetInduction
  <2>4. QED
    BY <2>3 DEF S
<1>4. G[n + 1] = Receive(G[n], t[n + 1])
  <2>1. n + 1 \in 0..(n + 1) /\ n + 1 # 0 /\ (n + 1) - 1 = n
    OBVIOUS
  <2>2. QED
    BY <1>2, <2>1 DEF Replays
<1>5. QED
  BY <1>1, <1>2, <1>3, <1>4

LEMMA ReplayOne ==
  ASSUME NEW v, NEW s, NEW M, s \in Seq(M), NEW x \in M
  PROVE  Replay(v, Append(s, x)) = Receive(Replay(v, s), x)
<1> DEFINE t == Append(s, x)
<1>1. /\ Len(s) \in Nat /\ Len(t) = Len(s) + 1 /\ t[Len(s) + 1] = x
      /\ \A i \in 1..Len(s) : s[i] = t[i]
  BY AppendProperties, LenProperties
<1> HIDE DEF t
<1>2. Replay(v, t) = Receive(Replay(v, s), t[Len(s) + 1])
  BY <1>1, ReplayLonger
<1>3. QED
  BY <1>1, <1>2 DEF t

LEMMA ReplayNone == ASSUME NEW v PROVE Replay(v, <<>>) = v
<1>1. PICK F : Replays(v, <<>>, 0, F) /\ Replay(v, <<>>) = F[0]
  BY ReplayIs
<1>2. QED
  BY <1>1 DEF Replays

-----------------------------------------------------------------------------
(* Delivered, message by message.                                         *)

\* f is the recursive function of Delivered on the first n messages.
Delivers(w, s, arrive, n, f) ==
  f = [i \in 0..n |-> IF i = 0 THEN w ELSE Takes(f[i - 1], s[i], i \in arrive)]

LEMMA DeliveredExists ==
  ASSUME NEW w, NEW s, NEW arrive, NEW n \in Nat
  PROVE  \E f : Delivers(w, s, arrive, n, f)
<1> DEFINE S == {k \in Nat : \E f : Delivers(w, s, arrive, k, f)}
<1>1. 0 \in S
  <2> DEFINE f == [i \in 0..0 |-> w]
  <2>1. Delivers(w, s, arrive, 0, f)
    BY DEF Delivers
  <2> HIDE DEF f
  <2>2. QED
    BY <2>1
<1>2. ASSUME NEW k \in Nat, k \in S PROVE k + 1 \in S
  <2>1. PICK f : Delivers(w, s, arrive, k, f)
    BY <1>2
  <2> DEFINE g == [i \in 0..(k + 1) |-> IF i <= k THEN f[i] ELSE Takes(f[k], s[k + 1], k + 1 \in arrive)]
             h == [i \in 0..(k + 1) |-> IF i = 0 THEN w ELSE Takes(g[i - 1], s[i], i \in arrive)]
  <2>2. ASSUME NEW i \in 0..(k + 1) PROVE g[i] = h[i]
    <3>1. CASE i = 0
      BY <2>1, <3>1 DEF Delivers
    <3>2. CASE i # 0 /\ i <= k
      <4>1. g[i] = f[i] /\ i - 1 \in 0..k /\ i \in 0..k /\ g[i - 1] = f[i - 1]
        BY <3>2
      <4>2. f[i] = Takes(f[i - 1], s[i], i \in arrive)
        BY <2>1, <3>2, <4>1 DEF Delivers
      <4>3. QED
        BY <3>2, <4>1, <4>2
    <3>3. CASE i = k + 1
      <4>1. i - 1 = k /\ g[k] = f[k] /\ i # 0 /\ ~(i <= k)
        BY <3>3
      <4>2. QED
        BY <3>3, <4>1
    <3>4. QED
      BY <3>1, <3>2, <3>3
  <2>3. g = h
    BY <2>2
  <2> HIDE DEF g
  <2>4. QED
    BY <2>3 DEF Delivers
<1> HIDE DEF S
<1>3. n \in S
  BY <1>1, <1>2, SetInduction
<1>4. QED
  BY <1>3 DEF S

LEMMA DeliveredIs ==
  ASSUME NEW w, NEW s, NEW arrive, Len(s) \in Nat
  PROVE  \E f : Delivers(w, s, arrive, Len(s), f) /\ Delivered(w, s, arrive) = f[Len(s)]
<1> DEFINE F == CHOOSE f : Delivers(w, s, arrive, Len(s), f)
<1>1. Delivered(w, s, arrive) = F[Len(s)]
  BY DEF Delivered, Delivers
<1>2. Delivers(w, s, arrive, Len(s), F)
  BY DeliveredExists
<1> HIDE DEF F
<1>3. QED
  BY <1>1, <1>2

\* What one more message adds.
LEMMA DeliveredLonger ==
  ASSUME NEW w, NEW s, NEW arrive, NEW t, NEW n \in Nat, Len(s) = n, Len(t) = n + 1,
         \A i \in 1..n : s[i] = t[i]
  PROVE  Delivered(w, t, arrive) = Takes(Delivered(w, s, arrive), t[n + 1], n + 1 \in arrive)
<1>1. PICK F : Delivers(w, s, arrive, n, F) /\ Delivered(w, s, arrive) = F[n]
  BY DeliveredIs
<1>2. PICK G : Delivers(w, t, arrive, n + 1, G) /\ Delivered(w, t, arrive) = G[n + 1]
  <2>1. n + 1 \in Nat
    OBVIOUS
  <2>2. QED
    BY <2>1, DeliveredIs
<1>3. F[n] = G[n]
  <2> DEFINE S == {i \in Nat : i <= n => F[i] = G[i]}
  <2>1. 0 \in S
    BY <1>1, <1>2 DEF Delivers
  <2>2. ASSUME NEW i \in Nat, i \in S PROVE i + 1 \in S
    <3> SUFFICES ASSUME i + 1 <= n PROVE F[i + 1] = G[i + 1]
      OBVIOUS
    <3>1. F[i] = G[i] /\ s[i + 1] = t[i + 1]
      BY <2>2
    <3>2. /\ i + 1 \in 0..n /\ i + 1 \in 0..(n + 1) /\ i + 1 # 0
          /\ (i + 1) - 1 = i
      OBVIOUS
    <3>3. F[i + 1] = Takes(F[i], s[i + 1], i + 1 \in arrive)
      BY <1>1, <3>2 DEF Delivers
    <3>4. G[i + 1] = Takes(G[i], t[i + 1], i + 1 \in arrive)
      BY <1>2, <3>2 DEF Delivers
    <3>5. QED
      BY <3>1, <3>3, <3>4
  <2> HIDE DEF S
  <2>3. n \in S
    BY <2>1, <2>2, SetInduction
  <2>4. QED
    BY <2>3 DEF S
<1>4. G[n + 1] = Takes(G[n], t[n + 1], n + 1 \in arrive)
  <2>1. n + 1 \in 0..(n + 1) /\ n + 1 # 0 /\ (n + 1) - 1 = n
    OBVIOUS
  <2>2. QED
    BY <1>2, <2>1 DEF Delivers
<1>5. QED
  BY <1>1, <1>2, <1>3, <1>4

LEMMA DeliveredOne ==
  ASSUME NEW w, NEW s, NEW arrive, NEW M, s \in Seq(M), NEW x \in M
  PROVE  Delivered(w, Append(s, x), arrive) = Takes(Delivered(w, s, arrive), x, Len(s) + 1 \in arrive)
<1> DEFINE t == Append(s, x)
<1>1. /\ Len(s) \in Nat /\ Len(t) = Len(s) + 1 /\ t[Len(s) + 1] = x
      /\ \A i \in 1..Len(s) : s[i] = t[i]
  BY AppendProperties, LenProperties
<1> HIDE DEF t
<1>2. Delivered(w, t, arrive) = Takes(Delivered(w, s, arrive), t[Len(s) + 1], Len(s) + 1 \in arrive)
  BY <1>1, DeliveredLonger
<1>3. QED
  BY <1>1, <1>2 DEF t

LEMMA DeliveredNone == ASSUME NEW w, NEW arrive PROVE Delivered(w, <<>>, arrive) = w
<1>1. PICK F : Delivers(w, <<>>, arrive, 0, F) /\ Delivered(w, <<>>, arrive) = F[0]
  BY DeliveredIs
<1>2. QED
  BY <1>1 DEF Delivers

-----------------------------------------------------------------------------
(* The lines of a judgement and their numbers.                             *)

LEMMA SignalsFinite == ASSUME NEW S \in SUBSET Signals PROVE IsFiniteSet(S)
<1>1. IsFiniteSet({}) /\ IsFiniteSet({"C"})
  BY FS_EmptySet, FS_Singleton
<1>2. IsFiniteSet({"C"} \cup {"F"})
  BY <1>1, FS_AddElement
<1>3. IsFiniteSet(({"C"} \cup {"F"}) \cup {"W"})
  BY <1>2, FS_AddElement
<1>4. S \subseteq ({"C"} \cup {"F"}) \cup {"W"}
  BY DEF Signals
<1> QED
  BY <1>3, <1>4, FS_Subset

\* One signal more is one line more, if it changed.
LEMMA OneLineMore ==
  ASSUME NEW S \in SUBSET Signals, NEW T \in SUBSET Signals, NEW x \in Signals, x \notin T
  PROVE  /\ Cardinality(S \cap T) \in Nat
         /\ Cardinality(S \cap (T \cup {x}))
              = IF x \in S THEN Cardinality(S \cap T) + 1 ELSE Cardinality(S \cap T)
<1>1. S \cap T \in SUBSET Signals
  OBVIOUS
<1>2. IsFiniteSet(S \cap T)
  BY <1>1, SignalsFinite
<1>3. CASE x \in S
  <2>1. S \cap (T \cup {x}) = (S \cap T) \cup {x} /\ x \notin S \cap T
    BY <1>3
  <2>2. QED
    BY <1>2, <1>3, <2>1, FS_AddElement, FS_CardinalityType
<1>4. CASE x \notin S
  <2>1. S \cap (T \cup {x}) = S \cap T
    BY <1>4
  <2>2. QED
    BY <1>2, <1>4, <2>1, FS_CardinalityType
<1> QED
  BY <1>3, <1>4

LEMMA ChangedSignals == ASSUME NEW ch PROVE Changed(ch) \in SUBSET Signals
BY DEF Changed, Logged, Signals

LEMMA KeyNext ==
  ASSUME TypeOK, NEW ch \in Channels, NEW n \in Nat
  PROVE  /\ LogKey(ch, n) \in 1..MaxLogKey
         /\ LogKey(ch, 0) = logCnt[ch]
         /\ Capped(LogKey(ch, n) + 1, MaxLogKey) = LogKey(ch, n + 1)
<1>1. logCnt[ch] \in 1..MaxLogKey
  BY DEF TypeOK
<1>2. QED
  BY <1>1, LogKeyAssumption DEF LogKey, Capped

\* A message after others, or none.
LEMMA ReplayMaybe ==
  ASSUME NEW v, NEW M, NEW s \in Seq(M), NEW x \in M
  PROVE  /\ Replay(v, s \o <<x>>) = Receive(Replay(v, s), x)
         /\ Replay(v, s \o <<>>) = Replay(v, s)
<1>1. s \o <<x>> = Append(s, x) /\ s \o <<>> = s
  BY AppendIsConcat, ConcatEmptySeq
<1>2. Replay(v, Append(s, x)) = Receive(Replay(v, s), x)
  BY ReplayOne
<1>3. QED
  BY <1>1, <1>2, Zenon

LEMMA DeliveredMaybe ==
  ASSUME NEW w, NEW M, NEW s \in Seq(M), NEW x \in M, NEW arrive
  PROVE  /\ Delivered(w, s \o <<x>>, arrive)
              = Takes(Delivered(w, s, arrive), x, Len(s) + 1 \in arrive)
         /\ Delivered(w, s \o <<>>, arrive) = Delivered(w, s, arrive)
<1>1. s \o <<x>> = Append(s, x) /\ s \o <<>> = s
  BY AppendIsConcat, ConcatEmptySeq
<1>2. Delivered(w, Append(s, x), arrive)
        = Takes(Delivered(w, s, arrive), x, Len(s) + 1 \in arrive)
  BY DeliveredOne
<1>3. QED
  BY <1>1, <1>2, Zenon

\* Two at the end are one and another one.
LEMMA TwoAtTheEnd ==
  ASSUME NEW M, NEW s \in Seq(M), NEW x \in M, NEW y \in M
  PROVE  /\ s \o <<x, y>> = (s \o <<x>>) \o <<y>>
         /\ s \o <<x>> \in Seq(M)
<1> DEFINE a == <<x>>
           b == <<y>>
           c == <<x, y>>
<1>1. /\ a \in Seq(M) /\ Len(a) = 1 /\ a[1] = x /\ b \in Seq(M) /\ Len(b) = 1 /\ b[1] = y
      /\ c \in Seq(M) /\ Len(c) = 2 /\ c[1] = x /\ c[2] = y
  OBVIOUS
<1> HIDE DEF a, b, c
<1>2. a \o b = c
  <2>1. /\ a \o b \in Seq(M) /\ Len(a \o b) = 2
        /\ (a \o b)[1] = x /\ (a \o b)[2] = y
    <3>1. /\ a \o b \in Seq(M) /\ Len(a \o b) = Len(a) + Len(b)
          /\ \A i \in 1..(Len(a) + Len(b)) :
               (a \o b)[i] = IF i <= Len(a) THEN a[i] ELSE b[i - Len(a)]
      <4>1. a \in Seq(M) /\ b \in Seq(M)
        BY <1>1
      <4>2. QED
        BY <4>1, ConcatProperties, Zenon
    <3>2. QED
      BY <1>1, <3>1
  <2>2. \A i \in 1..Len(a \o b) : (a \o b)[i] = c[i]
    BY <1>1, <2>1
  <2>3. QED
    BY <1>1, <2>1, <2>2, SeqEqual
<1>3. (s \o a) \o b = s \o (a \o b) /\ s \o a \in Seq(M)
  <2>1. a \in Seq(M) /\ b \in Seq(M)
    BY <1>1
  <2>2. (s \o a) \o b = s \o (a \o b)
    BY <2>1, ConcatAssociative
  <2>3. s \o a \in Seq(M)
    BY <2>1, ConcatProperties, Zenon
  <2>4. QED
    BY <2>2, <2>3
<1>4. QED
  BY <1>2, <1>3, Zenon DEF a, b, c

\* What a judgement does to the log of its channel and hands to the connection.
Flipped(ch) == [s \in Signals |-> IF s \in Changed(ch) THEN 1 - flags[ch][s] ELSE flags[ch][s]]
NextKey(ch) == LogKey(ch, Cardinality(Changed(ch)))

StartsLog(ch) ==
  /\ cnt[ch] = 1 /\ cnt'[ch] = 0 /\ logFlag'[ch] /\ logCnt'[ch] = 1
  /\ flags'[ch] = Flipped(ch)
  /\ sent'[ch] = Entries(ch) \o <<StartLog, Status(0, Mode(ch))>>
GoesOn(ch) ==
  /\ cnt'[ch] = cnt[ch] /\ (logFlag'[ch] <=> logFlag[ch]) /\ logCnt'[ch] = NextKey(ch)
  /\ flags'[ch] = Flipped(ch)
  /\ sent'[ch] = Entries(ch)
EndsLog(ch) ==
  /\ cnt[ch] = 0 /\ cnt'[ch] = 1 /\ ~logFlag'[ch] /\ logCnt'[ch] = NextKey(ch)
  /\ flags'[ch] = [s \in Signals |-> IF s \in Logged(ch) THEN 0 ELSE flags[ch][s]]
  /\ sent'[ch] = Entries(ch) \o <<EndLog, Status(1, Mode(ch))>>

LEMMA Judgement ==
  ASSUME TypeOK, NEW ch \in Channels, Judge(ch)
  PROVE  StartsLog(ch) \/ GoesOn(ch) \/ EndsLog(ch)
<1> USE DEF TypeOK
<1>1. CASE Start(ch)
  BY <1>1 DEF Start, FlipsFlags, Flipped, StartsLog
<1>2. CASE Reports(ch)
  BY <1>2 DEF Reports, FlipsFlags, CountsLines, Flipped, NextKey, GoesOn
<1>3. CASE End(ch)
  BY <1>3 DEF End, CountsLines, NextKey, EndsLog
<1>4. QED
  BY <1>1, <1>2, <1>3 DEF Judge, Keep, Settle, Wait

LEMMA OtherLogs ==
  ASSUME TypeOK, NEW ch \in Channels, Judge(ch), NEW other \in Channels, other # ch
  PROVE  /\ cnt'[other] = cnt[other] /\ logCnt'[other] = logCnt[other]
         /\ (logFlag'[other] <=> logFlag[other]) /\ flags'[other] = flags[other]
<1> USE DEF TypeOK
<1>1. CASE Start(ch)
  BY <1>1 DEF Start, FlipsFlags
<1>2. CASE Reports(ch)
  BY <1>2 DEF Reports, FlipsFlags, CountsLines
<1>3. CASE End(ch)
  BY <1>3 DEF End, CountsLines
<1>4. QED
  BY <1>1, <1>2, <1>3 DEF Judge, Keep, Settle, Wait

LEMMA OutputsInit == Init => OutputsAgree
BY DEF Init, OutputsAgree

LEMMA OutputsJudge ==
  ASSUME TypeOK, OutputsAgree, NEW ch \in Channels, Judge(ch)
  PROVE  OutputsAgree'
<1> USE DEF TypeOK, OutputsAgree
<1>1. CASE Start(ch)
  BY <1>1 DEF Start
<1>2. CASE Reports(ch)
  BY <1>2 DEF Reports
<1>3. CASE End(ch)
  BY <1>3 DEF End
<1>4. QED
  BY <1>1, <1>2, <1>3 DEF Judge, Keep, Settle, Wait

LEMMA OutputsNext == TypeOK /\ OutputsAgree /\ [Next]_vars => OutputsAgree'
<1>1. ASSUME TypeOK, OutputsAgree, Sample \/ Tick \/ UNCHANGED vars PROVE OutputsAgree'
  BY <1>1 DEF OutputsAgree, Sample, Tick, vars, cycleVars, logVars, outVars
<1>2. QED
  BY <1>1, OutputsJudge DEF Next

\* An entry is sent only of a running cycle.
LEMMA NoLogNoLines ==
  ASSUME NEW ch \in Channels, ~logFlag[ch]
  PROVE  Changed(ch) = {}
BY DEF Changed

-----------------------------------------------------------------------------
(* LaundryStream: one message.                                             *)

\* The view v after an entry for x that follows the rules.
EntryTaken(v, x, state, after) ==
  /\ after \in Views /\ after.faults = {}
  /\ after.open /\ (after.working <=> v.working)
  /\ after.nextKey = Capped(v.nextKey + 1, MaxLogKey)
  /\ after.shown = [v.shown EXCEPT ![x] = state]
  /\ after.residue = v.residue \ {x}

LEMMA EntryReceived ==
  ASSUME NEW v \in Views, NEW x \in Signals, NEW state \in {0, 1}, v.open, v.faults = {},
         state # v.shown[x], v.shown[x] = Unknown => state = 1 \/ x \in v.residue
  PROVE  EntryTaken(v, x, state, Receive(v, Entry(x, state, v.nextKey)))
<1> DEFINE msg == Entry(x, state, v.nextKey)
           after == ReceiveEntry(v, msg)
<1>1. msg.kind = "ENTRY" /\ msg.signal = x /\ msg.state = state /\ msg.key = v.nextKey
  BY DEF Entry
<1>2. Receive(v, msg) = after
  BY <1>1 DEF Receive
<1> HIDE DEF msg
<1>3. EntryFaults(v, msg) = {}
  BY <1>1 DEF EntryFaults, Unless
<1>4. Capped(v.nextKey + 1, MaxLogKey) \in 1..MaxLogKey
  BY LogKeyAssumption DEF Views, Capped
<1>5. v.residue \ {x} \subseteq Signals /\ [v.shown EXCEPT ![x] = state] \in [Signals -> {0, 1, Unknown}]
  BY DEF Views
<1>6. EntryTaken(v, x, state, after)
  BY <1>1, <1>3, <1>4, <1>5 DEF EntryTaken, ReceiveEntry, Views
<1>7. QED
  BY <1>2, <1>6 DEF msg

LEMMA StartReceived ==
  ASSUME NEW v \in Views, NEW mode \in Modes, ~v.open, ~v.working, v.faults = {}
  PROVE  LET after == Receive(Receive(v, StartLog), Status(0, mode))
         IN /\ after \in Views /\ after.faults = {}
            /\ after.open /\ after.working /\ after.nextKey = 1
            /\ after.shown = [s \in Signals |-> Unknown] /\ after.residue = v.residue
<1> DEFINE u == Receive(v, StartLog)
           msg == Status(0, mode)
           after == ReceiveStatus(u, msg)
<1>1. u = ReceiveStart(v, StartLog)
  BY DEF StartLog, Receive
<1>2. /\ u \in Views /\ u.faults = {} /\ u.open /\ ~u.working /\ u.nextKey = 1
      /\ u.shown = [s \in Signals |-> Unknown] /\ u.residue = v.residue
  <2>1. Unless(~v.open, "START in a cycle") = {}
    BY DEF Unless
  <2> DEFINE none == [s \in Signals |-> Unknown]
  <2>2. none \in [Signals -> {0, 1, Unknown}] /\ 1 \in 1..MaxLogKey
    BY LogKeyAssumption
  <2> HIDE DEF none
  <2>3. u = [v EXCEPT !.open = TRUE, !.nextKey = 1, !.shown = none, !.faults = @]
    BY <1>1, <2>1 DEF ReceiveStart, none, Views
  <2>4. /\ u \in Views /\ u.faults = {} /\ u.open /\ ~u.working /\ u.nextKey = 1
        /\ u.shown = none /\ u.residue = v.residue
    BY <2>2, <2>3 DEF Views
  <2>5. QED
    BY <2>4 DEF none
<1>3. msg.kind = "STATUS" /\ msg.state = 0 /\ msg.device = mode
  BY DEF Status
<1> HIDE DEF u, msg
<1>4. Receive(u, msg) = after
  BY <1>3 DEF Receive
<1>5. StatusFaults(u, msg) = {}
  BY <1>2, <1>3 DEF StatusFaults, Unless
<1>6. /\ after \in Views /\ after.faults = {}
      /\ after.open /\ after.working /\ after.nextKey = 1
      /\ after.shown = [s \in Signals |-> Unknown] /\ after.residue = v.residue
  BY <1>2, <1>3, <1>5 DEF ReceiveStatus, Views
<1>7. QED
  BY <1>4, <1>6 DEF msg, u

EndTaken(v, mode, after) ==
  /\ after \in Views /\ after.faults = {}
  /\ ~after.open /\ ~after.working
  /\ after.residue = IF mode = "wash" THEN {}
                     ELSE v.residue \cup {s \in {"F", "W"} : v.shown[s] = 1}

LEMMA EndReceived ==
  ASSUME NEW v \in Views, NEW mode \in Modes, v.open, v.working, v.faults = {}
  PROVE  EndTaken(v, mode, Receive(Receive(v, EndLog), Status(1, mode)))
<1> DEFINE u == Receive(v, EndLog)
           msg == Status(1, mode)
           after == ReceiveStatus(u, msg)
<1>1. u = ReceiveEnd(v, EndLog)
  BY DEF EndLog, Receive
<1>2. /\ u \in Views /\ u.faults = {} /\ ~u.open /\ u.working
      /\ u.shown = v.shown /\ u.residue = v.residue
  BY <1>1 DEF ReceiveEnd, Views, Unless
<1>3. msg.kind = "STATUS" /\ msg.state = 1 /\ msg.device = mode
  BY DEF Status
<1> HIDE DEF u, msg
<1>4. Receive(u, msg) = after
  BY <1>3 DEF Receive
<1>5. StatusFaults(u, msg) = {}
  BY <1>2, <1>3 DEF StatusFaults, Unless
<1>6. EndTaken(v, mode, after)
  <2> DEFINE up == {s \in {"F", "W"} : u.shown[s] = 1}
             left == IF msg.state = 0 THEN u.residue
                     ELSE IF msg.device = "wash" THEN {} ELSE u.residue \cup up
  <2>1. left \subseteq Signals
    BY <1>2, <1>3 DEF Views, Signals
  <2>2. left = IF mode = "wash" THEN {}
               ELSE v.residue \cup {s \in {"F", "W"} : v.shown[s] = 1}
    BY <1>2, <1>3
  <2>3. after = [u EXCEPT !.working = (msg.state = 0), !.device = msg.device, !.residue = left,
                          !.faults = @ \cup StatusFaults(u, msg)]
    BY DEF ReceiveStatus
  <2> HIDE DEF left, after, up
  <2>4. /\ after \in Views /\ after.faults = {} /\ ~after.open /\ ~after.working
        /\ after.residue = left
    <3>1. msg.device \in Modes \cup {"none"} /\ ~(msg.state = 0)
      BY <1>3
    <3>2. after \in Views
      BY <1>2, <1>5, <2>1, <2>3, <3>1 DEF Views
    <3>3. after.faults = {} /\ ~after.open /\ ~after.working /\ after.residue = left
      BY <1>2, <1>5, <2>3, <3>1 DEF Views
    <3>4. QED
      BY <3>2, <3>3
  <2>5. QED
    BY <2>2, <2>4 DEF EndTaken
<1>7. QED
  BY <1>4, <1>6 DEF msg, u

-----------------------------------------------------------------------------
(* LaundryStream: the lines of a judgement.                                *)

\* What v shows once the changes of the signals T were reported to the view v0.
Told(ch, v0, T, v) ==
  /\ v \in Views /\ v.faults = {}
  /\ v.open <=> v0.open
  /\ v.working <=> v0.working
  /\ v.open => v.nextKey = LogKey(ch, Cardinality(Changed(ch) \cap T))
  /\ v.shown = [s \in Signals |-> IF s \in Changed(ch) \cap T THEN 1 - flags[ch][s] ELSE v0.shown[s]]
  /\ v.residue = v0.residue \ (Changed(ch) \cap T)

\* The view v of a board that has counter, next line number and flags as given.
Matches(v, count, next, up) ==
  /\ v \in Views /\ v.faults = {}
  /\ v.open <=> count = 0
  /\ v.working <=> count = 0
  /\ v.open => v.nextKey = next
  /\ \A s \in Signals : IF v.open /\ v.shown[s] # Unknown
                        THEN up[s] = v.shown[s]
                        ELSE up[s] = 1 => s \in v.residue

InStep(ch, v) == Matches(v, cnt[ch], logCnt[ch], flags[ch])

LEMMA LineTold ==
  ASSUME TypeOK, OutputsAgree, NEW ch \in Channels, NEW v0, InStep(ch, v0),
         NEW s \in Seq(Messages), NEW x \in Signals, NEW T \in SUBSET Signals,
         x \notin T, Before(x) = T, Told(ch, v0, T, Replay(v0, s))
  PROVE  Told(ch, v0, T \cup {x}, Replay(v0, s \o EntryFor(ch, x)))
<1> DEFINE v == Replay(v0, s)
           C == Changed(ch)
           n == Cardinality(C \cap T)
           state == 1 - flags[ch][x]
           key == LogKey(ch, n)
           msg == Entry(x, state, key)
<1>1. C \in SUBSET Signals /\ flags[ch] \in [Signals -> {0, 1}] /\ v0 \in Views
  <2>1. C \in SUBSET Signals
    BY ChangedSignals
  <2> HIDE DEF C, v
  <2>2. flags[ch] \in [Signals -> {0, 1}] /\ v0 \in Views
    BY DEF TypeOK, InStep, Matches
  <2>3. QED
    BY <2>1, <2>2
<1>2. /\ n \in Nat
      /\ Cardinality(C \cap (T \cup {x})) = IF x \in C THEN n + 1 ELSE n
  <2> HIDE DEF C
  <2>1. QED
    BY <1>1, OneLineMore
<1>3. CASE x \notin C
  <2>1. EntryFor(ch, x) = <<>>
    BY <1>3 DEF EntryFor
  <2>2. s \o <<>> = s
    BY ConcatEmptySeq
  <2>3. C \cap (T \cup {x}) = C \cap T
    BY <1>3
  <2>4. QED
    BY <2>1, <2>2, <2>3, Zenon DEF Told
<1>4. CASE x \in C
  <2>1. EntryFor(ch, x) = <<msg>>
    BY <1>4 DEF EntryFor
  <2>2. state \in {0, 1} /\ key \in 1..MaxLogKey /\ cnt[ch] = 0
    <3>1. key \in 1..MaxLogKey
      <4> HIDE DEF n
      <4>1. QED
        BY <1>2, KeyNext
    <3>2. cnt[ch] = 0
      BY <1>4 DEF Changed, OutputsAgree
    <3> HIDE DEF C
    <3>3. QED
      BY <1>1, <3>1, <3>2
  <2> DEFINE after == Receive(v, msg)
  <2>3. Replay(v0, s \o <<msg>>) = after
    <3>1. msg \in Messages
      <4> HIDE DEF state, key
      <4>1. QED
        BY <2>2 DEF Entry, Messages
    <3> HIDE DEF msg
    <3>2. QED
      BY <3>1, ReplayMaybe
  <2>4. /\ v \in Views /\ v.faults = {} /\ v.open /\ (v.working <=> v0.working)
        /\ v0.open /\ v.nextKey = key
        /\ v.shown = [y \in Signals |-> IF y \in C \cap T THEN 1 - flags[ch][y] ELSE v0.shown[y]]
        /\ v.residue = v0.residue \ (C \cap T)
    BY <2>2 DEF Told, InStep, Matches
  <2> HIDE DEF v, C, n, key
  <2>5. v.shown[x] = v0.shown[x] /\ (x \in v.residue <=> x \in v0.residue)
    BY <2>4
  <2>6. state # v.shown[x] /\ (v.shown[x] = Unknown => state = 1 \/ x \in v.residue)
    <3>1. IF v0.shown[x] # Unknown THEN flags[ch][x] = v0.shown[x]
                                   ELSE flags[ch][x] = 1 => x \in v0.residue
      BY <2>4 DEF InStep, Matches
    <3>2. QED
      BY <1>1, <2>5, <3>1 DEF Unknown
  <2>7. /\ after \in Views /\ after.faults = {}
        /\ after.open /\ (after.working <=> v.working)
        /\ after.nextKey = Capped(v.nextKey + 1, MaxLogKey)
        /\ after.shown = [v.shown EXCEPT ![x] = state]
        /\ after.residue = v.residue \ {x}
    <3>1. after = Receive(v, Entry(x, state, v.nextKey))
      BY <2>4
    <3>2. state \in {0, 1}
      BY <2>2
    <3> HIDE DEF state, msg, after
    <3>3. v \in Views /\ v.open /\ v.faults = {}
      BY <2>4
    <3>4. EntryTaken(v, x, state, after)
      BY <2>6, <3>1, <3>2, <3>3, EntryReceived
    <3>5. QED
      BY <3>4 DEF EntryTaken
  <2> HIDE DEF after
  <2>8. after.nextKey = LogKey(ch, Cardinality(C \cap (T \cup {x})))
    BY <1>2, <1>4, <2>4, <2>7, KeyNext DEF key
  <2>9. after.shown = [y \in Signals |-> IF y \in C \cap (T \cup {x}) THEN 1 - flags[ch][y] ELSE v0.shown[y]]
    BY <1>1, <1>4, <2>4, <2>7 DEF Views
  <2>10. after.residue = v0.residue \ (C \cap (T \cup {x}))
    BY <1>4, <2>4, <2>7
  <2>11. Told(ch, v0, T \cup {x}, after)
    BY <2>4, <2>7, <2>8, <2>9, <2>10 DEF Told, C
  <2>12. QED
    BY <2>1, <2>3, <2>11, Zenon
<1>5. QED
  BY <1>3, <1>4

\* The lines of a judgement, each after those before it.
LEMMA EntriesTold ==
  ASSUME TypeOK, OutputsAgree, NEW ch \in Channels, NEW v, InStep(ch, v)
  PROVE  Told(ch, v, Signals, Replay(v, Entries(ch)))
<1> DEFINE c == EntryFor(ch, "C")
           f == EntryFor(ch, "F")
           w == EntryFor(ch, "W")
           none == <<>>
<1>1. c \in Seq(Messages) /\ f \in Seq(Messages) /\ w \in Seq(Messages)
  BY EntriesType DEF Signals
<1>2. none \in Seq(Messages) /\ none \o c = c /\ c \o f \in Seq(Messages)
  BY <1>1, ConcatProperties, ConcatEmptySeq, EmptySeq
<1>3. Told(ch, v, {}, Replay(v, none))
  <2>1. Replay(v, none) = v
    BY ReplayNone
  <2>2. Cardinality(Changed(ch) \cap {}) = 0 /\ LogKey(ch, 0) = logCnt[ch]
    BY FS_EmptySet, KeyNext
  <2>3. Told(ch, v, {}, v)
    BY <2>2 DEF InStep, Matches, Told, Views
  <2>4. QED
    BY <2>1, <2>3
<1> HIDE DEF c, f, w, none
<1>4. Told(ch, v, {"C"}, Replay(v, c))
  <2>1. Before("C") = {} /\ "C" \in Signals /\ {} \cup {"C"} = {"C"}
    BY DEF Before, Signals
  <2>2. Told(ch, v, {} \cup {"C"}, Replay(v, none \o c))
    BY <1>2, <1>3, <2>1, LineTold DEF c
  <2>3. QED
    BY <1>2, <2>1, <2>2
<1>5. Told(ch, v, {"C", "F"}, Replay(v, c \o f))
  <2>1. Before("F") = {"C"} /\ "F" \in Signals /\ {"C"} \in SUBSET Signals /\ "F" \notin {"C"}
    BY DEF Before, Signals
  <2>2. Told(ch, v, {"C"} \cup {"F"}, Replay(v, c \o f))
    BY <1>1, <1>4, <2>1, LineTold DEF f
  <2>3. {"C"} \cup {"F"} = {"C", "F"}
    OBVIOUS
  <2>4. QED
    BY <2>2, <2>3
<1>6. Told(ch, v, Signals, Replay(v, (c \o f) \o w))
  <2>1. /\ Before("W") = {"C", "F"} /\ "W" \in Signals
        /\ {"C", "F"} \in SUBSET Signals /\ "W" \notin {"C", "F"}
    BY DEF Before, Signals
  <2>2. Told(ch, v, {"C", "F"} \cup {"W"}, Replay(v, (c \o f) \o w))
    BY <1>2, <1>5, <2>1, LineTold DEF w
  <2>3. {"C", "F"} \cup {"W"} = Signals
    BY DEF Signals
  <2>4. QED
    BY <2>2, <2>3
<1>7. Entries(ch) = (c \o f) \o w
  BY DEF Entries, c, f, w
<1>8. QED
  BY <1>6, <1>7

-----------------------------------------------------------------------------
(* LaundryStream: every step keeps the server in step with the board.      *)

SInv == StreamInv /\ StreamWellFormed /\ ServerAgrees

\* The same, channel by channel.
AllInStep == /\ view \in [Channels -> Views]
             /\ \A ch \in Channels : InStep(ch, view[ch])

LEMMA SInvGives == SInv => TypeOK /\ OutputsAgree /\ AllInStep
<1> SUFFICES ASSUME SInv PROVE TypeOK /\ OutputsAgree /\ AllInStep
  OBVIOUS
<1>1. TypeOK /\ OutputsAgree /\ view \in [Channels -> Views]
  BY DEF SInv, StreamInv
<1>2. ASSUME NEW ch \in Channels PROVE InStep(ch, view[ch])
  <2> DEFINE v == view[ch]
             up == flags[ch]
  <2>1. v \in Views /\ v.faults = {}
    BY <1>1 DEF SInv, StreamWellFormed
  <2>2. /\ v.working <=> cnt[ch] = 0
        /\ v.open => v.nextKey = logCnt[ch]
        /\ v.open => \A s \in Signals : IF v.shown[s] = Unknown
                                        THEN up[s] = 1 => s \in v.residue
                                        ELSE up[s] = v.shown[s]
    BY DEF SInv, ServerAgrees
  <2>3. (v.open <=> logFlag[ch]) /\ (logFlag[ch] <=> cnt[ch] = 0)
    BY <1>1 DEF SInv, StreamInv, SeesCycle, OutputsAgree
  <2>4. ~v.open => \A s \in Signals : up[s] = 1 => s \in v.residue
    BY DEF SInv, StreamInv, LeftUp
  <2> HIDE DEF v, up
  <2>5. Matches(v, cnt[ch], logCnt[ch], up)
    BY <2>1, <2>2, <2>3, <2>4 DEF Matches
  <2>6. QED
    BY <2>5 DEF v, up, InStep
<1>3. QED
  BY <1>1, <1>2 DEF AllInStep

LEMMA SInvFrom == TypeOK /\ OutputsAgree /\ AllInStep => SInv
<1> SUFFICES ASSUME TypeOK, OutputsAgree, AllInStep PROVE SInv
  OBVIOUS
<1>1. ASSUME NEW ch \in Channels
      PROVE  /\ view[ch].faults = {}
             /\ view[ch].working <=> cnt[ch] = 0
             /\ view[ch].open <=> logFlag[ch]
             /\ view[ch].open => view[ch].nextKey = logCnt[ch]
             /\ \A s \in Signals : IF view[ch].open /\ view[ch].shown[s] # Unknown
                                   THEN flags[ch][s] = view[ch].shown[s]
                                   ELSE flags[ch][s] = 1 => s \in view[ch].residue
  BY DEF AllInStep, InStep, Matches, OutputsAgree
<1>2. StreamWellFormed /\ SeesCycle
  BY <1>1 DEF StreamWellFormed, SeesCycle
<1>3. ServerAgrees
  BY <1>1 DEF ServerAgrees
<1>4. LeftUp
  BY <1>1 DEF LeftUp
<1>5. QED
  BY <1>2, <1>3, <1>4 DEF SInv, StreamInv, AllInStep

LEMMA StreamGoesOn ==
  ASSUME TypeOK, OutputsAgree, NEW ch \in Channels, NEW v, InStep(ch, v), GoesOn(ch),
         NEW u, u = Replay(v, sent'[ch])
  PROVE  Matches(u, cnt'[ch], logCnt'[ch], flags'[ch])
<1> DEFINE C == Changed(ch)
<1>1. C \in SUBSET Signals /\ C \cap Signals = C /\ flags[ch] \in [Signals -> {0, 1}]
  BY ChangedSignals DEF TypeOK
<1>2. cnt[ch] # 0 => C = {}
  BY NoLogNoLines DEF OutputsAgree
<1>3. Told(ch, v, Signals, u)
  BY EntriesTold DEF GoesOn
<1>4. /\ u \in Views /\ u.faults = {} /\ (u.open <=> v.open) /\ (u.working <=> v.working)
      /\ u.open => u.nextKey = NextKey(ch)
      /\ u.shown = [s \in Signals |-> IF s \in C THEN 1 - flags[ch][s] ELSE v.shown[s]]
      /\ u.residue = v.residue \ C
  BY <1>1, <1>3, Zenon DEF Told, NextKey
<1>5. /\ v \in Views /\ (v.open <=> cnt[ch] = 0) /\ (v.working <=> cnt[ch] = 0)
      /\ \A s \in Signals : IF v.open /\ v.shown[s] # Unknown
                            THEN flags[ch][s] = v.shown[s]
                            ELSE flags[ch][s] = 1 => s \in v.residue
  BY DEF InStep, Matches
<1>6. /\ cnt'[ch] = cnt[ch] /\ logCnt'[ch] = NextKey(ch)
      /\ flags'[ch] = [s \in Signals |-> IF s \in C THEN 1 - flags[ch][s] ELSE flags[ch][s]]
  BY DEF GoesOn, Flipped
<1> HIDE DEF C
<1>7. ASSUME NEW s \in Signals
      PROVE  IF u.open /\ u.shown[s] # Unknown
             THEN flags'[ch][s] = u.shown[s]
             ELSE flags'[ch][s] = 1 => s \in u.residue
  <2>1. CASE s \in C
    BY <1>1, <1>2, <1>4, <1>5, <1>6, <2>1 DEF Unknown
  <2>2. CASE s \notin C
    BY <1>1, <1>2, <1>4, <1>5, <1>6, <2>2
  <2>3. QED
    BY <2>1, <2>2
<1>8. QED
  BY <1>4, <1>5, <1>6, <1>7 DEF Matches

LEMMA StreamStarts ==
  ASSUME TypeOK, OutputsAgree, NEW ch \in Channels, NEW v, InStep(ch, v), StartsLog(ch),
         NEW u, u = Replay(v, sent'[ch])
  PROVE  Matches(u, cnt'[ch], logCnt'[ch], flags'[ch])
<1> DEFINE read == Replay(v, Entries(ch))
           mode == Mode(ch)
           start == StartLog
           status == Status(0, mode)
<1>1. ~logFlag[ch]
  BY DEF OutputsAgree, StartsLog
<1>2. Changed(ch) = {}
  BY <1>1, NoLogNoLines
<1>3. /\ v \in Views /\ ~v.open /\ ~v.working
      /\ \A s \in Signals : flags[ch][s] = 1 => s \in v.residue
  BY DEF InStep, Matches, StartsLog
<1>4. /\ read \in Views /\ read.faults = {} /\ ~read.open /\ ~read.working
      /\ read.residue = v.residue
  <2>1. Told(ch, v, Signals, read)
    BY EntriesTold
  <2> HIDE DEF read
  <2>2. QED
    BY <1>2, <1>3, <2>1 DEF Told
<1>5. mode \in Modes
  BY DEF TypeOK, Mode
<1>6. u = Receive(Receive(read, start), status)
  <2>1. start \in Messages /\ status \in Messages /\ Entries(ch) \in Seq(Messages)
    BY <1>5, EntriesType DEF StartLog, Status, Messages
  <2>2. sent'[ch] = Entries(ch) \o <<start, status>>
    BY DEF StartsLog
  <2> HIDE DEF read, start, status
  <2> DEFINE lines == Entries(ch)
             more == lines \o <<start>>
  <2>3. lines \o <<start, status>> = more \o <<status>> /\ more \in Seq(Messages)
    BY <2>1, TwoAtTheEnd
  <2>4. Replay(v, more) = Receive(read, start)
    BY <2>1, ReplayMaybe DEF read
  <2> HIDE DEF more
  <2>5. Replay(v, more \o <<status>>) = Receive(Replay(v, more), status)
    BY <2>1, <2>3, ReplayMaybe
  <2>6. QED
    BY <2>2, <2>3, <2>4, <2>5
<1>7. /\ u \in Views /\ u.faults = {}
      /\ u.open /\ u.working /\ u.nextKey = 1
      /\ u.shown = [s \in Signals |-> Unknown] /\ u.residue = read.residue
  <2> HIDE DEF read, mode
  <2>1. QED
    BY <1>4, <1>5, <1>6, StartReceived
<1>8. /\ cnt'[ch] = 0 /\ logCnt'[ch] = 1
      /\ \A s \in Signals : flags'[ch][s] = flags[ch][s]
  BY <1>2 DEF StartsLog, Flipped
<1>9. QED
  BY <1>3, <1>4, <1>7, <1>8 DEF Matches

LEMMA StreamEnds ==
  ASSUME TypeOK, OutputsAgree, NEW ch \in Channels, NEW v, InStep(ch, v), EndsLog(ch),
         NEW u, u = Replay(v, sent'[ch])
  PROVE  Matches(u, cnt'[ch], logCnt'[ch], flags'[ch])
<1> DEFINE read == Replay(v, Entries(ch))
           mode == Mode(ch)
           end == EndLog
           status == Status(1, mode)
           C == Changed(ch)
<1>1. C \subseteq Logged(ch) /\ flags[ch] \in [Signals -> {0, 1}]
  BY DEF Changed, TypeOK
<1>2. /\ v \in Views /\ v.open /\ v.working
      /\ \A s \in Signals : IF v.shown[s] # Unknown
                            THEN flags[ch][s] = v.shown[s]
                            ELSE flags[ch][s] = 1 => s \in v.residue
  BY DEF InStep, Matches, EndsLog
<1>3. /\ read \in Views /\ read.faults = {} /\ read.open /\ read.working
      /\ read.shown = [s \in Signals |-> IF s \in C THEN 1 - flags[ch][s] ELSE v.shown[s]]
      /\ read.residue = v.residue \ C
  <2>1. Told(ch, v, Signals, read)
    BY EntriesTold
  <2>2. C \cap Signals = C
    BY ChangedSignals
  <2> HIDE DEF read
  <2>3. QED
    BY <1>2, <2>1, <2>2, Zenon DEF Told
<1>4. mode \in Modes
  BY DEF TypeOK, Mode
<1>5. u = Receive(Receive(read, end), status)
  <2>1. end \in Messages /\ status \in Messages /\ Entries(ch) \in Seq(Messages)
    BY <1>4, EntriesType DEF EndLog, Status, Messages
  <2>2. sent'[ch] = Entries(ch) \o <<end, status>>
    BY DEF EndsLog
  <2> HIDE DEF read, end, status
  <2> DEFINE lines == Entries(ch)
             more == lines \o <<end>>
  <2>3. lines \o <<end, status>> = more \o <<status>> /\ more \in Seq(Messages)
    BY <2>1, TwoAtTheEnd
  <2>4. Replay(v, more) = Receive(read, end)
    BY <2>1, ReplayMaybe DEF read
  <2> HIDE DEF more
  <2>5. Replay(v, more \o <<status>>) = Receive(Replay(v, more), status)
    BY <2>1, <2>3, ReplayMaybe
  <2>6. QED
    BY <2>2, <2>3, <2>4, <2>5
<1>6. /\ u \in Views /\ u.faults = {} /\ ~u.open /\ ~u.working
      /\ u.residue = IF mode = "wash" THEN {}
                          ELSE read.residue \cup {s \in {"F", "W"} : read.shown[s] = 1}
  <2> HIDE DEF read, mode
  <2>1. QED
    <3>1. EndTaken(read, mode, Receive(Receive(read, EndLog), Status(1, mode)))
      BY <1>3, <1>4, EndReceived
    <3>2. QED
      BY <1>5, <3>1 DEF EndTaken
<1>7. /\ cnt'[ch] = 1
      /\ flags'[ch] = [s \in Signals |-> IF s \in Logged(ch) THEN 0 ELSE flags[ch][s]]
  BY DEF EndsLog
<1>8. ASSUME NEW s \in Signals, flags'[ch][s] = 1 PROVE s \in u.residue
  <2>1. s \notin Logged(ch) /\ flags[ch][s] = 1
    BY <1>7, <1>8
  <2>2. mode # "wash" /\ s \in {"F", "W"}
    BY <2>1 DEF Logged, Washing, Signals
  <2> HIDE DEF C, read, mode
  <2>3. s \notin C /\ read.shown[s] = v.shown[s]
    BY <1>1, <1>3, <2>1
  <2>4. CASE v.shown[s] = Unknown
    BY <1>2, <1>3, <1>6, <2>1, <2>2, <2>3, <2>4
  <2>5. CASE v.shown[s] # Unknown
    BY <1>2, <1>6, <2>1, <2>2, <2>3, <2>5
  <2>6. QED
    BY <2>4, <2>5
<1>9. QED
  BY <1>6, <1>7, <1>8 DEF Matches

\* A boot leaves the types and the flags that agree.
LEMMA BootTypes ==
  ASSUME TypeOK, Reboot
  PROVE  TypeOK' /\ OutputsAgree'
<1>1. TypeOK'
  <2>1. /\ pc' = 0
        /\ cnt' = [ch \in Channels |-> 1] /\ m' = [ch \in Channels |-> 0]
        /\ seCnt' = [ch \in Channels |-> 0]
        /\ logFlag' = [ch \in Channels |-> FALSE]
        /\ logCnt' = [ch \in Channels |-> 1]
        /\ currStatus' = [ch \in Channels |-> 1] /\ led' = [ch \in Channels |-> FALSE]
        /\ sample' = sample
    BY Zenon DEF Reboot
  <2>2. sinceEnd' \in [Channels -> 0..Horizon] /\ sinceSe' \in [Channels -> 0..Horizon]
    <3>1. PICK age \in 0..Horizon : sinceEnd' = [ch \in Channels |-> age] /\ sinceSe' = sinceEnd'
      BY Zenon DEF Reboot
    <3>2. QED
      BY <3>1
  <2>3. flags' \in [Channels -> [Signals -> {0, 1}]]
    <3>1. flags' = [ch \in Channels |-> [s \in Signals |-> 0]]
      BY Zenon DEF Reboot
    <3>2. QED
      BY <3>1
  <2>4. sent' \in [Channels -> Seq(Messages)]
    <3>1. sent' = [ch \in Channels |-> <<>>]
      BY Zenon DEF Reboot
    <3>2. QED
      BY <3>1
  <2>5. pc' \in 0..LastCh /\ logCnt' \in [Channels -> 1..MaxLogKey]
    BY <2>1, ChannelsAssumption, LogKeyAssumption
  <2>6. QED
    BY <2>1, <2>2, <2>3, <2>4, <2>5 DEF TypeOK
<1>2. OutputsAgree'
  <2>1. /\ cnt' = [ch \in Channels |-> 1] /\ logFlag' = [ch \in Channels |-> FALSE]
        /\ currStatus' = [ch \in Channels |-> 1] /\ led' = [ch \in Channels |-> FALSE]
    BY Zenon DEF Reboot
  <2>2. QED
    BY <2>1 DEF OutputsAgree
<1> QED
  BY <1>1, <1>2

\* Who has heard nothing yet is in step with a board that has logged nothing.
LEMMA NewInStep ==
  /\ NewView \in Views
  /\ NewView.faults = {} /\ ~NewView.open /\ ~NewView.working
<1>1. NewView \in Views
  <2> DEFINE none == [s \in Signals |-> Unknown]
  <2>1. none \in [Signals -> {0, 1, Unknown}] /\ 1 \in 1..MaxLogKey
    BY LogKeyAssumption
  <2> HIDE DEF none
  <2>2. QED
    BY <2>1 DEF NewView, Views, none
<1> QED
  BY <1>1 DEF NewView

LEMMA StreamInit == SInit => SInv
<1> SUFFICES ASSUME SInit PROVE SInv
  OBVIOUS
<1>1. TypeOK /\ OutputsAgree
  BY TypeInit, OutputsInit DEF SInit
<1>2. NewView \in Views
  BY NewInStep
<1>3. ASSUME NEW ch \in Channels PROVE InStep(ch, view[ch])
  <2>1. view[ch] = NewView /\ cnt[ch] = 1 /\ \A s \in Signals : flags[ch][s] = 0
    BY DEF SInit, Init
  <2>2. NewView.faults = {} /\ ~NewView.open /\ ~NewView.working
    BY NewInStep
  <2>3. QED
    BY <1>2, <2>1, <2>2 DEF InStep, Matches
<1>4. view \in [Channels -> Views]
  BY <1>2 DEF SInit
<1>5. QED
  BY <1>1, <1>3, <1>4, SInvFrom DEF AllInStep

LEMMA StreamNext == SInv /\ [MNext]_mvars => SInv'
<1> SUFFICES ASSUME SInv, [MNext]_mvars PROVE SInv'
  OBVIOUS
<1>1. TypeOK /\ OutputsAgree
  BY DEF SInv, StreamInv
<1>2. TypeOK' /\ OutputsAgree'
  <2>1. [Next]_vars \/ Reboot
    BY DEF MNext, MSample, MJudge, SJudge, MTick, MReboot, Next, mvars
  <2>2. QED
    BY <1>1, <2>1, TypeNext, OutputsNext, BootTypes
<1>3. view \in [Channels -> Views] /\ \A ch \in Channels : InStep(ch, view[ch])
  BY SInvGives DEF AllInStep
<1>4. SUFFICES AllInStep'
  BY <1>2, SInvFrom, PTL
<1>5. CASE MSample \/ MTick \/ UNCHANGED mvars
  BY <1>3, <1>5
     DEF MSample, MTick, Sample, Tick, mvars, vars, cycleVars, logVars, outVars, InStep, AllInStep
<1>6. ASSUME NEW ch \in Channels, SJudge(ch)
      PROVE  /\ view' \in [Channels -> Views]
             /\ \A other \in Channels : InStep(other, view[other])'
  <2>1. Judge(ch) /\ view' = [view EXCEPT ![ch] = Replay(view[ch], sent'[ch])]
    BY <1>6 DEF SJudge
  <2>2. view'[ch] = Replay(view[ch], sent'[ch])
    BY <1>3, <2>1
  <2>3. InStep(ch, view[ch])'
    <3>1. InStep(ch, view[ch])
      BY <1>3
    <3>2. StartsLog(ch) \/ GoesOn(ch) \/ EndsLog(ch)
      BY <1>1, <2>1, Judgement
    <3>3. Matches(view'[ch], cnt'[ch], logCnt'[ch], flags'[ch])
      BY <1>1, <2>2, <3>1, <3>2, StreamGoesOn, StreamStarts, StreamEnds
    <3>4. QED
      BY <3>3 DEF InStep
  <2>4. ASSUME NEW other \in Channels, other # ch PROVE InStep(other, view[other])'
    <3>1. /\ cnt'[other] = cnt[other] /\ logCnt'[other] = logCnt[other]
          /\ (logFlag'[other] <=> logFlag[other]) /\ flags'[other] = flags[other]
      BY <1>1, <2>1, <2>4, OtherLogs
    <3>2. view'[other] = view[other]
      BY <1>3, <2>1, <2>4
    <3>3. QED
      BY <1>3, <3>1, <3>2 DEF InStep, Matches
  <2>5. \A other \in Channels : InStep(other, view[other])'
    BY <2>3, <2>4
  <2>6. QED
    BY <1>3, <2>1, <2>2, <2>3, <2>5 DEF InStep, Matches
<1>7. CASE MReboot
  <2>1. view' = [ch \in Channels |-> NewView]
    BY <1>7 DEF MReboot
  <2>2. ASSUME NEW ch \in Channels PROVE InStep(ch, view[ch])'
    <3>1. view'[ch] = NewView
      BY <2>1
    <3>2. cnt'[ch] = 1 /\ \A s \in Signals : flags'[ch][s] = 0
      BY <1>7 DEF MReboot, Reboot
    <3>3. QED
      BY <3>1, <3>2, NewInStep DEF InStep, Matches
  <2>3. QED
    BY <2>1, <2>2, NewInStep DEF AllInStep
<1>8. QED
  BY <1>5, <1>6, <1>7 DEF MNext, MJudge, AllInStep

LEMMA StreamInductive == MSpec => []SInv
<1>1. MInit => SInv
  BY StreamInit DEF MInit
<1>2. QED
  BY <1>1, StreamNext, PTL DEF MSpec

\* The server's view has its type, and it sees a cycle open exactly while the board logs
\* one; a flag that is up between two cycles is one a dryer's END left up
\* (laundry_core.c 129-167 and 229-261).
THEOREM StreamInvariant == MSpec => []StreamInv
BY StreamInductive, PTL DEF SInv

\* The messages of a channel tell a story without a fault, whatever the readings and the
\* mode pins do: entries only between START and END, numbered without a gap, each
\* signal's states alternating, START/END and STATUS in agreement (laundry_core.c 58-106).
THEOREM MessagesTellOneStory == MSpec => []StreamWellFormed
BY StreamInductive, PTL DEF SInv

\* A server that gets every message believes what the board does: the machine's state, the
\* number of the next line, the state of each signal (laundry_core.c 129-261).
THEOREM ServerSeesTheBoard == MSpec => []ServerAgrees
BY StreamInductive, PTL DEF SInv

-----------------------------------------------------------------------------
(* LaundryDelivery: one message, come or lost.                             *)

Worlds == [server : Servers, fate : Fates]

\* While the server follows the cycle, the gaps it sees and the lines lost before
\* number k agree.
Counted(w, k) == w.fate.follows =>
  /\ w.server.nextKey <= k
  /\ k < MaxLogKey => /\ w.fate.lines < k
                      /\ w.server.missing + (k - w.server.nextKey) = w.fate.lines

\* Lines do not change what is known of the cycle they belong to.
Carried(w0, w) ==
  /\ w \in Worlds /\ ~w.fate.puzzled
  /\ w.fate.start <=> w0.fate.start
  /\ w.fate.end <=> w0.fate.end
  /\ w.fate.status <=> w0.fate.status
  /\ w.fate.follows <=> w0.fate.follows
  /\ w.server.open <=> w0.server.open
  /\ w.server.working <=> w0.server.working

LEMMA TakesOne ==
  ASSUME NEW w, NEW msg, NEW arrive, NEW i
  PROVE  \/ Takes(w, msg, i \in arrive) = Comes(w, msg)
         \/ Takes(w, msg, i \in arrive) = IsLost(w, msg)
BY DEF Takes

LEMMA EntryArrives ==
  ASSUME NEW w \in Worlds, ~w.fate.puzzled, NEW k \in 1..MaxLogKey,
         NEW msg, msg.kind = "ENTRY", msg.key = k,
         Counted(w, k), w.fate.follows => w.server.open, w.fate.follows \/ w.fate.start
  PROVE  /\ Carried(w, Comes(w, msg))
         /\ Counted(Comes(w, msg), Capped(k + 1, MaxLogKey))
<1> DEFINE inTurn == w.server.open /\ k >= w.server.nextKey
           missing == IF inTurn THEN Capped(w.server.missing + k - w.server.nextKey, MaxLogKey)
                      ELSE w.server.missing
           next == IF w.server.open THEN Capped(k + 1, MaxLogKey) ELSE w.server.nextKey
           u == Comes(w, msg)
<1>1. w.server \in Servers /\ w.fate \in Fates
  BY DEF Worlds
<1>2. inTurn \/ w.fate.start
  BY <1>1 DEF Counted, Servers
<1>3. Puzzle(w, inTurn \/ w.fate.start) = w
  <2> HIDE DEF inTurn
  <2>1. QED
    BY <1>2 DEF Puzzle, Worlds, Fates
<1>4. u = [w EXCEPT !.server.missing = missing, !.server.nextKey = next]
  BY <1>3 DEF Comes, EntryComes
<1>5. missing \in 0..MaxLogKey /\ next \in 1..MaxLogKey
  BY <1>1, LogKeyAssumption DEF Servers, Capped
<1>6. w.fate.follows => /\ next = Capped(k + 1, MaxLogKey)
                        /\ k < MaxLogKey => missing = w.fate.lines
  BY <1>1, LogKeyAssumption DEF Counted, Servers, Fates, Capped
<1> HIDE DEF missing, next, u
<1>7. /\ u \in Worlds /\ u.fate = w.fate /\ u.server.open = w.server.open
      /\ u.server.working = w.server.working
      /\ u.server.missing = missing /\ u.server.nextKey = next
  BY <1>1, <1>4, <1>5 DEF Worlds, Servers
<1>8. Carried(w, u)
  BY <1>7 DEF Carried
<1>9. Counted(u, Capped(k + 1, MaxLogKey))
  BY <1>1, <1>5, <1>6, <1>7, LogKeyAssumption DEF Counted, Capped, Fates
<1>10. QED
  BY <1>8, <1>9 DEF u

LEMMA EntryMisses ==
  ASSUME NEW w \in Worlds, ~w.fate.puzzled, NEW k \in 1..MaxLogKey,
         NEW msg, msg.kind = "ENTRY", Counted(w, k)
  PROVE  /\ Carried(w, IsLost(w, msg))
         /\ Counted(IsLost(w, msg), Capped(k + 1, MaxLogKey))
<1> DEFINE lines == IF w.fate.follows THEN Capped(w.fate.lines + 1, MaxLogKey) ELSE w.fate.lines
           u == IsLost(w, msg)
<1>1. w.server \in Servers /\ w.fate \in Fates
  BY DEF Worlds
<1>2. u = [w EXCEPT !.fate.lines = lines]
  BY DEF IsLost
<1>3. lines \in 0..MaxLogKey
  BY <1>1, LogKeyAssumption DEF Fates, Capped
<1>4. w.fate.follows /\ k < MaxLogKey => lines = w.fate.lines + 1
  BY <1>1, LogKeyAssumption DEF Fates, Capped, Counted
<1> HIDE DEF lines, u
<1>5. /\ u \in Worlds /\ u.server = w.server /\ u.fate = [w.fate EXCEPT !.lines = lines]
  BY <1>1, <1>2, <1>3 DEF Worlds, Fates
<1>6. Carried(w, u)
  BY <1>1, <1>5 DEF Carried, Fates
<1>7. u.fate.lines = lines /\ u.fate.follows = w.fate.follows
  BY <1>1, <1>5 DEF Fates
<1>8. Counted(u, Capped(k + 1, MaxLogKey))
  BY <1>1, <1>4, <1>5, <1>7, LogKeyAssumption DEF Counted, Capped, Fates, Servers
<1>9. QED
  BY <1>6, <1>8 DEF u

\* A START and the STATUS after it.
LEMMA StartTaken ==
  ASSUME NEW w \in Worlds, ~w.fate.puzzled, w.server.open => w.fate.end,
         NEW u, u = Comes(w, StartLog) \/ u = IsLost(w, StartLog)
  PROVE  /\ u \in Worlds /\ ~u.fate.puzzled
         /\ u.fate.status = w.fate.status /\ u.server.working = w.server.working
         /\ u.fate.lines = 0
         /\ \/ ~u.fate.follows /\ u.fate.start
            \/ /\ u.fate.follows /\ u.server.open
               /\ u.server.nextKey = 1 /\ u.server.missing = 0
<1>1. w.server \in Servers /\ w.fate \in Fates
  BY DEF Worlds
<1>2. CASE u = Comes(w, StartLog)
  <2>1. Puzzle(w, w.server.open => w.fate.end) = w
    BY DEF Puzzle, Worlds, Fates
  <2>2. u = [w EXCEPT !.server.open = TRUE, !.server.nextKey = 1, !.server.missing = 0,
                      !.fate.start = FALSE, !.fate.end = FALSE, !.fate.lines = 0,
                      !.fate.follows = TRUE]
    BY <1>2, <2>1 DEF Comes, StartComes, StartLog
  <2>3. 1 \in 1..MaxLogKey /\ 0 \in 0..MaxLogKey
    BY LogKeyAssumption
  <2>4. QED
    BY ZenonT(40), <1>1, <2>2, <2>3 DEF Worlds, Servers, Fates
<1>3. CASE u = IsLost(w, StartLog)
  <2>1. u = [w EXCEPT !.fate.start = TRUE, !.fate.follows = FALSE, !.fate.lines = 0]
    BY <1>3 DEF IsLost, StartLog
  <2>2. 0 \in 0..MaxLogKey
    BY LogKeyAssumption
  <2>3. QED
    BY <1>1, <2>1, <2>2 DEF Worlds, Fates
<1>4. QED
  BY <1>2, <1>3

\* An END and the STATUS after it.
LEMMA EndIsTaken ==
  ASSUME NEW w \in Worlds, ~w.fate.puzzled, w.server.open \/ w.fate.start,
         NEW u, u = Comes(w, EndLog) \/ u = IsLost(w, EndLog)
  PROVE  /\ u \in Worlds /\ ~u.fate.puzzled
         /\ u.fate.status = w.fate.status /\ u.server.working = w.server.working
         /\ ~u.fate.follows /\ (u.server.open => u.fate.end)
<1>1. w.server \in Servers /\ w.fate \in Fates
  BY DEF Worlds
<1>2. CASE u = Comes(w, EndLog)
  <2>1. Puzzle(w, w.server.open \/ w.fate.start) = w
    BY DEF Puzzle, Worlds, Fates
  <2>2. u = [w EXCEPT !.server.open = FALSE, !.server.nextKey = 1, !.server.missing = 0,
                      !.fate.start = FALSE, !.fate.end = FALSE, !.fate.follows = FALSE,
                      !.fate.lines = 0]
    BY <1>2, <2>1 DEF Comes, EndComes, EndLog
  <2>3. 1 \in 1..MaxLogKey /\ 0 \in 0..MaxLogKey
    BY LogKeyAssumption
  <2>4. QED
    BY ZenonT(40), <1>1, <2>2, <2>3 DEF Worlds, Servers, Fates
<1>3. CASE u = IsLost(w, EndLog)
  <2>1. u = [w EXCEPT !.fate.end = TRUE, !.fate.follows = FALSE, !.fate.lines = 0]
    BY <1>3 DEF IsLost, EndLog
  <2>2. 0 \in 0..MaxLogKey
    BY LogKeyAssumption
  <2>3. QED
    BY <1>1, <2>1, <2>2 DEF Worlds, Fates
<1>4. QED
  BY <1>2, <1>3

\* A STATUS puts the server right, or is the last one and lost.
StatusKept(w, u, state) ==
  /\ u \in Worlds /\ ~u.fate.puzzled
  /\ u.fate.start = w.fate.start /\ u.fate.end = w.fate.end
  /\ u.fate.follows = w.fate.follows /\ u.fate.lines = w.fate.lines
  /\ u.server.open = w.server.open /\ u.server.nextKey = w.server.nextKey
  /\ u.server.missing = w.server.missing
  /\ (u.server.working <=> state = 0) \/ u.fate.status

LEMMA StatusTaken ==
  ASSUME NEW w \in Worlds, ~w.fate.puzzled, NEW state \in {0, 1}, NEW mode,
         (w.server.working <=> state = 1) \/ w.fate.status,
         NEW u, u = Comes(w, Status(state, mode)) \/ u = IsLost(w, Status(state, mode))
  PROVE  StatusKept(w, u, state)
<1> DEFINE msg == Status(state, mode)
           on == msg.state = 0
<1>1. w.server \in Servers /\ w.fate \in Fates
  BY DEF Worlds
<1>2. msg.kind = "STATUS" /\ msg.state = state /\ on \in BOOLEAN /\ (on <=> state = 0)
  BY DEF Status
<1> HIDE DEF msg
<1>3. CASE u = Comes(w, msg)
  <2>1. Puzzle(w, w.server.working # on \/ w.fate.status) = w
    <3>1. w.server.working # on \/ w.fate.status
      BY <1>1, <1>2 DEF Servers
    <3> HIDE DEF on
    <3>2. QED
      BY <3>1 DEF Puzzle, Worlds, Fates
  <2>2. u = [w EXCEPT !.server.working = on, !.fate.status = FALSE]
    BY <1>2, <1>3, <2>1 DEF Comes, StatusComes
  <2> HIDE DEF on
  <2>3. QED
    BY <1>1, <1>2, <2>2 DEF StatusKept, Worlds, Servers, Fates
<1>4. CASE u = IsLost(w, msg)
  <2>1. u = [w EXCEPT !.fate.status = TRUE]
    BY <1>2, <1>4 DEF IsLost
  <2>2. QED
    BY <1>1, <2>1 DEF StatusKept, Worlds, Fates
<1>5. QED
  BY <1>3, <1>4 DEF msg

-----------------------------------------------------------------------------
(* LaundryDelivery: the lines of a judgement.                              *)

\* What a channel's server and fate may be for a board with that counter and line number.
Explained(w, count, next) ==
  /\ w \in Worlds /\ ~w.fate.puzzled
  /\ w.server.open /\ count = 1 => w.fate.end
  /\ count = 0 => w.fate.follows \/ w.fate.start
  /\ w.fate.follows => count = 0 /\ w.server.open
  /\ Counted(w, next)
  /\ (w.server.working <=> count = 0) \/ w.fate.status

Relayed(ch, w0, T, w) ==
  Carried(w0, w) /\ Counted(w, LogKey(ch, Cardinality(Changed(ch) \cap T)))

LEMMA LineRelayed ==
  ASSUME TypeOK, OutputsAgree, NEW ch \in Channels,
         NEW w0, Explained(w0, cnt[ch], logCnt[ch]), NEW arrive,
         NEW s \in Seq(Messages), NEW x \in Signals, NEW T \in SUBSET Signals,
         x \notin T, Before(x) = T, Relayed(ch, w0, T, Delivered(w0, s, arrive))
  PROVE  Relayed(ch, w0, T \cup {x}, Delivered(w0, s \o EntryFor(ch, x), arrive))
<1> DEFINE w == Delivered(w0, s, arrive)
           C == Changed(ch)
           n == Cardinality(C \cap T)
           state == 1 - flags[ch][x]
           key == LogKey(ch, n)
           msg == Entry(x, state, key)
<1>1. C \in SUBSET Signals
  BY ChangedSignals
<1>2. /\ n \in Nat
      /\ Cardinality(C \cap (T \cup {x})) = IF x \in C THEN n + 1 ELSE n
  <2> HIDE DEF C
  <2>1. QED
    BY <1>1, OneLineMore
<1>3. CASE x \notin C
  <2>1. EntryFor(ch, x) = <<>>
    BY <1>3 DEF EntryFor
  <2>2. s \o <<>> = s
    BY ConcatEmptySeq
  <2>3. C \cap (T \cup {x}) = C \cap T
    BY <1>3
  <2>4. QED
    BY <2>1, <2>2, <2>3, Zenon DEF Relayed
<1>4. CASE x \in C
  <2>1. EntryFor(ch, x) = <<msg>>
    BY <1>4 DEF EntryFor
  <2>2. state \in {0, 1}
    <3>1. flags[ch] \in [Signals -> {0, 1}]
      BY DEF TypeOK
    <3> HIDE DEF C, w
    <3>2. QED
      BY <3>1
  <2>3. key \in 1..MaxLogKey /\ Capped(key + 1, MaxLogKey) = LogKey(ch, n + 1)
    <3> HIDE DEF n
    <3>1. QED
      BY <1>2, KeyNext
  <2>4. cnt[ch] = 0
    BY <1>4 DEF Changed, OutputsAgree
  <2>5. msg \in Messages /\ msg.kind = "ENTRY" /\ msg.key = key
    <3> HIDE DEF state, key
    <3>1. QED
      BY <2>2, <2>3 DEF Entry, Messages
  <2> HIDE DEF msg
  <2> DEFINE after == Delivered(w0, s \o <<msg>>, arrive)
  <2>6. after = Takes(w, msg, Len(s) + 1 \in arrive)
    BY <2>5, DeliveredMaybe
  <2>7. after = Comes(w, msg) \/ after = IsLost(w, msg)
    BY <2>6, TakesOne, Zenon
  <2>8. /\ Carried(w0, w) /\ Counted(w, key)
    BY DEF Relayed
  <2> HIDE DEF w, C, n, key, after
  <2>9. /\ w \in Worlds /\ ~w.fate.puzzled
        /\ w.fate.follows => w.server.open
        /\ w.fate.follows \/ w.fate.start
    BY <2>4, <2>8 DEF Carried, Explained
  <2>10. Carried(w, after) /\ Counted(after, Capped(key + 1, MaxLogKey))
    BY <2>3, <2>5, <2>7, <2>8, <2>9, EntryArrives, EntryMisses
  <2>11. Carried(w0, after)
    BY <2>8, <2>10 DEF Carried
  <2>12. Cardinality(C \cap (T \cup {x})) = n + 1
    BY <1>2, <1>4
  <2>13. Relayed(ch, w0, T \cup {x}, after)
    BY <2>3, <2>10, <2>11, <2>12, Zenon DEF Relayed, C
  <2>14. QED
    BY <2>1, <2>13 DEF after
<1>5. QED
  BY <1>3, <1>4

LEMMA EntriesRelayed ==
  ASSUME TypeOK, OutputsAgree, NEW ch \in Channels,
         NEW w0, Explained(w0, cnt[ch], logCnt[ch]), NEW arrive
  PROVE  Relayed(ch, w0, Signals, Delivered(w0, Entries(ch), arrive))
<1> DEFINE c == EntryFor(ch, "C")
           f == EntryFor(ch, "F")
           w == EntryFor(ch, "W")
           none == <<>>
<1>1. c \in Seq(Messages) /\ f \in Seq(Messages) /\ w \in Seq(Messages)
  BY EntriesType DEF Signals
<1>2. none \in Seq(Messages) /\ none \o c = c /\ c \o f \in Seq(Messages)
  BY <1>1, ConcatProperties, ConcatEmptySeq, EmptySeq
<1>3. Relayed(ch, w0, {}, Delivered(w0, none, arrive))
  <2>1. Delivered(w0, none, arrive) = w0
    BY DeliveredNone
  <2>2. Cardinality(Changed(ch) \cap {}) = 0 /\ LogKey(ch, 0) = logCnt[ch]
    BY FS_EmptySet, KeyNext
  <2>3. Relayed(ch, w0, {}, w0)
    BY <2>2 DEF Explained, Relayed, Carried
  <2>4. QED
    BY <2>1, <2>3
<1> HIDE DEF c, f, w, none
<1>4. Relayed(ch, w0, {"C"}, Delivered(w0, c, arrive))
  <2>1. Before("C") = {} /\ "C" \in Signals /\ {} \cup {"C"} = {"C"}
    BY DEF Before, Signals
  <2>2. Relayed(ch, w0, {} \cup {"C"}, Delivered(w0, none \o c, arrive))
    BY <1>2, <1>3, <2>1, LineRelayed DEF c
  <2>3. QED
    BY <1>2, <2>1, <2>2
<1>5. Relayed(ch, w0, {"C", "F"}, Delivered(w0, c \o f, arrive))
  <2>1. Before("F") = {"C"} /\ "F" \in Signals /\ {"C"} \in SUBSET Signals /\ "F" \notin {"C"}
    BY DEF Before, Signals
  <2>2. Relayed(ch, w0, {"C"} \cup {"F"}, Delivered(w0, c \o f, arrive))
    BY <1>1, <1>4, <2>1, LineRelayed DEF f
  <2>3. {"C"} \cup {"F"} = {"C", "F"}
    OBVIOUS
  <2>4. QED
    BY <2>2, <2>3
<1>6. Relayed(ch, w0, Signals, Delivered(w0, (c \o f) \o w, arrive))
  <2>1. /\ Before("W") = {"C", "F"} /\ "W" \in Signals
        /\ {"C", "F"} \in SUBSET Signals /\ "W" \notin {"C", "F"}
    BY DEF Before, Signals
  <2>2. Relayed(ch, w0, {"C", "F"} \cup {"W"}, Delivered(w0, (c \o f) \o w, arrive))
    BY <1>2, <1>5, <2>1, LineRelayed DEF w
  <2>3. {"C", "F"} \cup {"W"} = Signals
    BY DEF Signals
  <2>4. QED
    BY <2>2, <2>3
<1>7. Entries(ch) = (c \o f) \o w
  BY DEF Entries, c, f, w
<1>8. QED
  BY <1>6, <1>7

-----------------------------------------------------------------------------
(* LaundryDelivery: every loss leaves its trace.                           *)

LEMMA DeliveryGoesOn ==
  ASSUME TypeOK, OutputsAgree, NEW ch \in Channels,
         NEW w, Explained(w, cnt[ch], logCnt[ch]), GoesOn(ch),
         NEW arrive, NEW u, u = Delivered(w, sent'[ch], arrive)
  PROVE  Explained(u, cnt'[ch], logCnt'[ch])
<1>1. Relayed(ch, w, Signals, u) /\ Changed(ch) \cap Signals = Changed(ch)
  BY EntriesRelayed, ChangedSignals DEF GoesOn
<1>2. Carried(w, u) /\ Counted(u, NextKey(ch))
  BY <1>1 DEF Relayed, NextKey
<1>3. cnt'[ch] = cnt[ch] /\ logCnt'[ch] = NextKey(ch)
  BY DEF GoesOn
<1>4. QED
  BY <1>2, <1>3 DEF Explained, Carried

\* A judgement that starts or ends a cycle: its lines, then x, then y.
Bracketed(w, x, y, u) ==
  \E read, mid : /\ Carried(w, read)
                 /\ mid = Comes(read, x) \/ mid = IsLost(read, x)
                 /\ u = Comes(mid, y) \/ u = IsLost(mid, y)

LEMMA TwoDelivered ==
  ASSUME TypeOK, OutputsAgree, NEW ch \in Channels,
         NEW w, Explained(w, cnt[ch], logCnt[ch]), NEW arrive,
         NEW x \in Messages, NEW y \in Messages,
         NEW u, u = Delivered(w, Entries(ch) \o <<x, y>>, arrive)
  PROVE  Bracketed(w, x, y, u)
<1> DEFINE lines == Entries(ch)
           more == lines \o <<x>>
           read == Delivered(w, lines, arrive)
           mid == Delivered(w, more, arrive)
<1>1. Carried(w, read)
  <2>1. Relayed(ch, w, Signals, read)
    BY EntriesRelayed
  <2>2. QED
    BY <2>1 DEF Relayed
<1>2. lines \in Seq(Messages)
  BY EntriesType
<1> HIDE DEF lines
<1>3. lines \o <<x, y>> = more \o <<y>> /\ more \in Seq(Messages)
  BY <1>2, TwoAtTheEnd
<1>4. mid = Takes(read, x, Len(lines) + 1 \in arrive)
  BY <1>2, DeliveredMaybe
<1> HIDE DEF more
<1>5. Delivered(w, more \o <<y>>, arrive) = Takes(mid, y, Len(more) + 1 \in arrive)
  BY <1>3, DeliveredMaybe
<1>6. u = Takes(mid, y, Len(more) + 1 \in arrive)
  BY <1>3, <1>5 DEF lines
<1> HIDE DEF read, mid
<1>7. mid = Comes(read, x) \/ mid = IsLost(read, x)
  BY <1>4, TakesOne, Zenon
<1>8. u = Comes(mid, y) \/ u = IsLost(mid, y)
  BY <1>6, TakesOne, Zenon
<1>9. QED
  BY <1>1, <1>7, <1>8 DEF Bracketed

LEMMA DeliveryStarts ==
  ASSUME TypeOK, OutputsAgree, NEW ch \in Channels,
         NEW w, Explained(w, cnt[ch], logCnt[ch]), StartsLog(ch),
         NEW arrive, NEW u, u = Delivered(w, sent'[ch], arrive)
  PROVE  Explained(u, cnt'[ch], logCnt'[ch])
<1> DEFINE mode == Mode(ch)
<1>1. /\ cnt[ch] = 1 /\ cnt'[ch] = 0 /\ logCnt'[ch] = 1
      /\ sent'[ch] = Entries(ch) \o <<StartLog, Status(0, mode)>>
  BY DEF StartsLog
<1>2. StartLog \in Messages /\ Status(0, mode) \in Messages
  BY DEF StartLog, Status, Messages, TypeOK, Mode
<1> HIDE DEF mode
<1>3. PICK read, mid : /\ Carried(w, read)
                       /\ mid = Comes(read, StartLog) \/ mid = IsLost(read, StartLog)
                       /\ u = Comes(mid, Status(0, mode)) \/ u = IsLost(mid, Status(0, mode))
  <2> DEFINE x == StartLog
             y == Status(0, mode)
  <2>1. u = Delivered(w, Entries(ch) \o <<x, y>>, arrive) /\ x \in Messages /\ y \in Messages
    BY <1>1, <1>2
  <2> HIDE DEF x, y
  <2>2. Bracketed(w, x, y, u)
    BY <2>1, TwoDelivered
  <2>3. QED
    BY <2>2 DEF Bracketed, x, y
<1>4. /\ read \in Worlds /\ ~read.fate.puzzled /\ (read.server.open => read.fate.end)
      /\ ~read.server.working \/ read.fate.status
  BY <1>1, <1>3 DEF Carried, Explained
<1>5. /\ mid \in Worlds /\ ~mid.fate.puzzled
      /\ mid.fate.status = read.fate.status /\ mid.server.working = read.server.working
      /\ mid.fate.lines = 0
      /\ \/ ~mid.fate.follows /\ mid.fate.start
         \/ /\ mid.fate.follows /\ mid.server.open
            /\ mid.server.nextKey = 1 /\ mid.server.missing = 0
  BY <1>3, <1>4, StartTaken
<1>6. StatusKept(mid, u, 0)
  BY <1>3, <1>4, <1>5, StatusTaken
<1>7. Counted(u, 1)
  BY <1>5, <1>6 DEF StatusKept, Counted
<1>8. QED
  BY <1>1, <1>5, <1>6, <1>7 DEF StatusKept, Explained

LEMMA DeliveryEnds ==
  ASSUME TypeOK, OutputsAgree, NEW ch \in Channels,
         NEW w, Explained(w, cnt[ch], logCnt[ch]), EndsLog(ch),
         NEW arrive, NEW u, u = Delivered(w, sent'[ch], arrive)
  PROVE  Explained(u, cnt'[ch], logCnt'[ch])
<1> DEFINE mode == Mode(ch)
<1>1. /\ cnt[ch] = 0 /\ cnt'[ch] = 1
      /\ sent'[ch] = Entries(ch) \o <<EndLog, Status(1, mode)>>
  BY DEF EndsLog
<1>2. EndLog \in Messages /\ Status(1, mode) \in Messages
  BY DEF EndLog, Status, Messages, TypeOK, Mode
<1> HIDE DEF mode
<1>3. PICK read, mid : /\ Carried(w, read)
                       /\ mid = Comes(read, EndLog) \/ mid = IsLost(read, EndLog)
                       /\ u = Comes(mid, Status(1, mode)) \/ u = IsLost(mid, Status(1, mode))
  <2> DEFINE x == EndLog
             y == Status(1, mode)
  <2>1. u = Delivered(w, Entries(ch) \o <<x, y>>, arrive) /\ x \in Messages /\ y \in Messages
    BY <1>1, <1>2
  <2> HIDE DEF x, y
  <2>2. Bracketed(w, x, y, u)
    BY <2>1, TwoDelivered
  <2>3. QED
    BY <2>2 DEF Bracketed, x, y
<1>4. /\ read \in Worlds /\ ~read.fate.puzzled
      /\ read.server.open \/ read.fate.start
      /\ read.server.working \/ read.fate.status
  BY <1>1, <1>3 DEF Carried, Explained
<1>5. /\ mid \in Worlds /\ ~mid.fate.puzzled
      /\ mid.fate.status = read.fate.status /\ mid.server.working = read.server.working
      /\ ~mid.fate.follows /\ (mid.server.open => mid.fate.end)
  BY <1>3, <1>4, EndIsTaken
<1>6. StatusKept(mid, u, 1)
  BY <1>3, <1>4, <1>5, StatusTaken
<1>7. QED
  BY <1>1, <1>5, <1>6 DEF StatusKept, Explained, Counted

DInv == DeliveryInv /\ LossesExplain /\ LossesAreCounted /\ WrongOnlyAfterLoss

\* The same, channel by channel.
Pair(ch) == [server |-> server[ch], fate |-> fate[ch]]

AllExplained ==
  /\ server \in [Channels -> Servers] /\ fate \in [Channels -> Fates]
  /\ \A ch \in Channels : Explained(Pair(ch), cnt[ch], logCnt[ch])

LEMMA DInvGives == DInv => TypeOK /\ OutputsAgree /\ AllExplained
<1> SUFFICES ASSUME DInv PROVE TypeOK /\ OutputsAgree /\ AllExplained
  OBVIOUS
<1>1. /\ TypeOK /\ OutputsAgree
      /\ server \in [Channels -> Servers] /\ fate \in [Channels -> Fates]
  BY DEF DInv, DeliveryInv
<1>2. ASSUME NEW ch \in Channels PROVE Explained(Pair(ch), cnt[ch], logCnt[ch])
  <2> DEFINE sv == server[ch]
             ft == fate[ch]
             next == logCnt[ch]
  <2>1. sv \in Servers /\ ft \in Fates /\ ~ft.puzzled
    BY <1>1 DEF DInv, LossesExplain
  <2>2. ft.follows /\ next < MaxLogKey => sv.missing + (next - sv.nextKey) = ft.lines
    BY DEF DInv, LossesAreCounted
  <2>3. (sv.working <=> cnt[ch] = 0) \/ ft.status
    BY DEF DInv, WrongOnlyAfterLoss
  <2>4. /\ sv.open /\ cnt[ch] = 1 => ft.end
        /\ cnt[ch] = 0 => ft.follows \/ ft.start
        /\ ft.follows => /\ cnt[ch] = 0 /\ sv.open /\ sv.nextKey <= next
                         /\ next < MaxLogKey => ft.lines < next
    BY DEF DInv, DeliveryInv, OpenTooLong, Unheard, Followed
  <2>5. Pair(ch) = [server |-> sv, fate |-> ft]
    BY DEF Pair
  <2> HIDE DEF sv, ft, next
  <2>6. Explained(Pair(ch), cnt[ch], next)
    BY <2>1, <2>2, <2>3, <2>4, <2>5 DEF Explained, Counted, Worlds
  <2>7. QED
    BY <2>6 DEF next
<1>3. QED
  BY <1>1, <1>2 DEF AllExplained

LEMMA DInvFrom == TypeOK /\ OutputsAgree /\ AllExplained => DInv
<1> SUFFICES ASSUME TypeOK, OutputsAgree, AllExplained PROVE DInv
  OBVIOUS
<1>1. ASSUME NEW ch \in Channels
      PROVE  /\ ~fate[ch].puzzled
             /\ fate[ch].follows /\ logCnt[ch] < MaxLogKey =>
                  server[ch].missing + (logCnt[ch] - server[ch].nextKey) = fate[ch].lines
             /\ (server[ch].working <=> cnt[ch] = 0) \/ fate[ch].status
             /\ server[ch].open /\ cnt[ch] = 1 => fate[ch].end
             /\ cnt[ch] = 0 => fate[ch].follows \/ fate[ch].start
             /\ fate[ch].follows => /\ cnt[ch] = 0 /\ server[ch].open
                                    /\ server[ch].nextKey <= logCnt[ch]
                                    /\ logCnt[ch] < MaxLogKey => fate[ch].lines < logCnt[ch]
  <2> DEFINE sv == server[ch]
             ft == fate[ch]
             next == logCnt[ch]
             w == Pair(ch)
  <2>1. w.server = sv /\ w.fate = ft
    BY DEF Pair
  <2>2. Explained(w, cnt[ch], next)
    BY DEF AllExplained
  <2> HIDE DEF sv, ft, next, w
  <2>3. /\ ~ft.puzzled
        /\ ft.follows /\ next < MaxLogKey => sv.missing + (next - sv.nextKey) = ft.lines
        /\ (sv.working <=> cnt[ch] = 0) \/ ft.status
        /\ sv.open /\ cnt[ch] = 1 => ft.end
        /\ cnt[ch] = 0 => ft.follows \/ ft.start
        /\ ft.follows => /\ cnt[ch] = 0 /\ sv.open /\ sv.nextKey <= next
                         /\ next < MaxLogKey => ft.lines < next
    BY <2>1, <2>2 DEF Explained, Counted
  <2>4. QED
    BY <2>3 DEF sv, ft, next
<1>2. LossesExplain
  BY <1>1 DEF LossesExplain
<1>3. LossesAreCounted
  BY <1>1 DEF LossesAreCounted
<1>4. WrongOnlyAfterLoss
  BY <1>1 DEF WrongOnlyAfterLoss
<1>5. OpenTooLong /\ Unheard
  BY <1>1 DEF OpenTooLong, Unheard
<1>6. Followed
  BY <1>1 DEF Followed
<1>7. QED
  BY <1>2, <1>3, <1>4, <1>5, <1>6 DEF DInv, DeliveryInv, AllExplained

LEMMA DeliveryInit == DInit => DInv
<1> SUFFICES ASSUME DInit PROVE DInv
  OBVIOUS
<1>1. TypeOK /\ OutputsAgree
  BY TypeInit, OutputsInit DEF DInit
<1>2. NewServer \in Servers /\ NewFate \in Fates
  BY LogKeyAssumption DEF NewServer, NewFate, Servers, Fates
<1>3. ASSUME NEW ch \in Channels PROVE Explained(Pair(ch), cnt[ch], logCnt[ch])
  <2>1. cnt[ch] = 1 /\ Pair(ch) = [server |-> NewServer, fate |-> NewFate]
    BY DEF DInit, Init, Pair
  <2>2. ~NewServer.open /\ ~NewServer.working /\ ~NewFate.follows /\ ~NewFate.puzzled
    BY DEF NewServer, NewFate
  <2>3. QED
    BY <1>2, <2>1, <2>2 DEF Explained, Counted, Worlds
<1>4. AllExplained
  BY <1>2, <1>3 DEF DInit, AllExplained
<1>5. QED
  BY <1>1, <1>4, DInvFrom

LEMMA DeliveryJudge ==
  ASSUME TypeOK, OutputsAgree, AllExplained, NEW ch \in Channels, DJudge(ch)
  PROVE  AllExplained'
<1>1. PICK arrive \in SUBSET (DOMAIN sent'[ch]) :
        LET w == Delivered(Pair(ch), sent'[ch], arrive)
        IN /\ server' = [server EXCEPT ![ch] = w.server]
           /\ fate' = [fate EXCEPT ![ch] = w.fate]
  BY DEF DJudge, Pair
<1> DEFINE u == Delivered(Pair(ch), sent'[ch], arrive)
<1>2. Judge(ch) /\ Explained(Pair(ch), cnt[ch], logCnt[ch])
  BY DEF DJudge, AllExplained
<1>3. StartsLog(ch) \/ GoesOn(ch) \/ EndsLog(ch)
  BY <1>2, Judgement
<1>4. Explained(u, cnt'[ch], logCnt'[ch])
  BY <1>2, <1>3, DeliveryStarts, DeliveryGoesOn, DeliveryEnds
<1>5. /\ server' = [server EXCEPT ![ch] = u.server]
      /\ fate' = [fate EXCEPT ![ch] = u.fate]
  BY <1>1
<1> HIDE DEF u
<1>6. u \in Worlds
  BY <1>4 DEF Explained
<1>7. server' \in [Channels -> Servers] /\ fate' \in [Channels -> Fates]
  BY <1>5, <1>6 DEF AllExplained, Worlds
<1>8. Pair(ch)' = u
  BY <1>5, <1>6 DEF AllExplained, Pair, Worlds
<1>9. ASSUME NEW other \in Channels PROVE Explained(Pair(other), cnt[other], logCnt[other])'
  <2>1. CASE other = ch
    BY <1>4, <1>8, <2>1
  <2>2. CASE other # ch
    <3>1. cnt'[other] = cnt[other] /\ logCnt'[other] = logCnt[other]
      BY <1>2, <2>2, OtherLogs
    <3>2. Pair(other)' = Pair(other)
      BY <1>5, <2>2 DEF Pair, AllExplained
    <3>3. Explained(Pair(other), cnt[other], logCnt[other])
      BY DEF AllExplained
    <3>4. QED
      BY <3>1, <3>2, <3>3
  <2>3. QED
    BY <2>1, <2>2
<1>10. QED
  BY <1>7, <1>9 DEF AllExplained

\* A boot forgets the cycle, and fate keeps that its end was never sent.
LEMMA DeliveryReboot ==
  ASSUME TypeOK, AllExplained, Reboot
  PROVE  TypeOK' /\ OutputsAgree' /\ AllExplained'
<1>1. TypeOK' /\ OutputsAgree'
  BY BootTypes
<1>3. ASSUME NEW ch \in Channels
      PROVE  fate'[ch] \in Fates /\ Explained(Pair(ch), cnt[ch], logCnt[ch])'
  <2> DEFINE sv == server[ch]
             ft == fate[ch]
             cycle == cnt[ch] = 0
             then == [ft EXCEPT !.end = @ \/ cycle, !.status = @ \/ cycle, !.follows = FALSE, !.lines = 0]
  <2>1. fate'[ch] = then /\ server'[ch] = sv /\ cnt'[ch] = 1 /\ logCnt'[ch] = 1
    BY DEF Reboot
  <2>2. /\ sv \in Servers /\ ft \in Fates /\ ~ft.puzzled
        /\ sv.open /\ ~cycle => ft.end
        /\ ~sv.working \/ ft.status \/ cycle
    <3>1. Explained(Pair(ch), cnt[ch], logCnt[ch]) /\ sv \in Servers /\ ft \in Fates
      BY DEF AllExplained
    <3>2. cnt[ch] \in {0, 1} /\ Pair(ch).server = sv /\ Pair(ch).fate = ft
      BY DEF TypeOK, Pair
    <3> HIDE DEF sv, ft
    <3>3. QED
      BY <3>1, <3>2 DEF Explained
  <2> DEFINE end == ft.end \/ cycle
             status == ft.status \/ cycle
  <2> HIDE DEF sv, ft, cycle
  <2>3. /\ then \in Fates /\ ~then.puzzled /\ ~then.follows
        /\ then.end <=> ft.end \/ cycle
        /\ then.status <=> ft.status \/ cycle
    <3>1. end \in BOOLEAN /\ status \in BOOLEAN /\ 0 \in 0..MaxLogKey
      BY LogKeyAssumption
    <3>2. then = [ft EXCEPT !.end = end, !.status = status, !.follows = FALSE, !.lines = 0]
      OBVIOUS
    <3> HIDE DEF then, end, status
    <3>3. /\ then \in Fates /\ ~then.puzzled /\ ~then.follows
          /\ then.end = end /\ then.status = status
      BY <2>2, <3>1, <3>2 DEF Fates
    <3>4. QED
      BY <3>3 DEF end, status
  <2> HIDE DEF then
  <2>4. Pair(ch)' = [server |-> sv, fate |-> then]
    BY <2>1 DEF Pair
  <2>5. Explained([server |-> sv, fate |-> then], 1, 1)
    BY <2>2, <2>3 DEF Explained, Counted, Worlds
  <2>6. QED
    BY <2>1, <2>3, <2>4, <2>5
<1>4. server' \in [Channels -> Servers] /\ fate' \in [Channels -> Fates]
  <2>1. fate' = [ch \in Channels |-> fate'[ch]] /\ server' = server
    BY DEF Reboot
  <2>2. QED
    BY <1>3, <2>1 DEF AllExplained
<1>5. QED
  BY <1>1, <1>3, <1>4 DEF AllExplained

LEMMA DeliveryNext == DInv /\ [MNext]_mvars => DInv'
<1> SUFFICES ASSUME DInv, [MNext]_mvars PROVE DInv'
  OBVIOUS
<1>1. TypeOK /\ OutputsAgree /\ AllExplained
  BY DInvGives
<1>2. SUFFICES TypeOK' /\ OutputsAgree' /\ AllExplained'
  BY DInvFrom, PTL
<1>3. CASE Reboot
  BY <1>1, <1>3, DeliveryReboot
<1>4. CASE MSample \/ MTick \/ UNCHANGED mvars
  <2>1. [Next]_vars
    BY <1>4 DEF MSample, MTick, Next, mvars
  <2>2. UNCHANGED <<server, fate, cnt, logCnt>>
    BY <1>4 DEF MSample, MTick, Sample, Tick, mvars, vars, cycleVars, logVars
  <2>3. AllExplained'
    BY <1>1, <2>2 DEF AllExplained, Pair
  <2>4. QED
    BY <1>1, <2>1, <2>3, TypeNext, OutputsNext
<1>5. ASSUME NEW ch \in Channels, DJudge(ch) PROVE TypeOK' /\ OutputsAgree' /\ AllExplained'
  <2>1. [Next]_vars
    BY <1>5 DEF DJudge, Next
  <2>2. QED
    BY <1>1, <1>5, <2>1, TypeNext, OutputsNext, DeliveryJudge
<1>6. QED
  BY <1>3, <1>4, <1>5 DEF MNext, MJudge, MReboot

LEMMA DeliveryInductive == MSpec => []DInv
<1>1. MInit => DInv
  BY DeliveryInit DEF MInit
<1>2. QED
  BY <1>1, DeliveryNext, PTL DEF MSpec

\* The types, and what a loss leaves behind: a cycle the server sees beyond its end lost
\* that END, a running cycle nobody heard of lost its START, and one the server follows is
\* running and open with no number ahead of the board's (osj_websocket.c 127-176).
THEOREM DeliveryInvariant == MSpec => []DeliveryInv
BY DeliveryInductive, PTL DEF DInv

\* Whatever messages the connection drops and whenever the board reboots, every message
\* that comes out of place is explained by a loss the numbers and brackets tell of
\* (osj_websocket.c 127-176, laundry_core.c 58-106).
THEOREM EveryLossIsExplained == MSpec => []LossesExplain
BY DeliveryInductive, PTL DEF DInv

\* While the START of a cycle came, the numbers of its lines count the lost ones exactly
\* (laundry_core.c 58-78).
THEOREM EveryLostLineIsCounted == MSpec => []LossesAreCounted
BY DeliveryInductive, PTL DEF DInv

\* The server is wrong about a machine only after the last STATUS was lost or a reboot
\* broke off the cycle (laundry_core.c 145 and 164, 238 and 257).
THEOREM ServerWrongOnlyAfterLoss == MSpec => []WrongOnlyAfterLoss
BY DeliveryInductive, PTL DEF DInv
=============================================================================

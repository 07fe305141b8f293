---------------------------- MODULE LaundryProofs ----------------------------
(***************************************************************************)
(* The detection loop for every number of channels, every delays with      *)
(* Debounce <= EndDelay of a washer, and every set of readings: types, then *)
(* the timing properties, then the refinement of CycleContract.            *)
(***************************************************************************)
EXTENDS LaundryTiming, TLAPS, FiniteSetTheorems, SequenceTheorems

-----------------------------------------------------------------------------
(* Types.                                                                  *)

USE DEF Channels, Modes, Signals, Levels

\* A cap keeps a natural number natural and at most the cap.
LEMMA CappedType ==
  ASSUME NEW n \in Nat, NEW max \in Nat
  PROVE  Capped(n, max) \in 0..max /\ (n >= 1 /\ max >= 1 => Capped(n, max) \in 1..max)
BY DEF Capped

\* A set of signals is finite.
LEMMA SignalSets == ASSUME NEW S \in SUBSET Signals PROVE Cardinality(S) \in Nat
<1>1. IsFiniteSet({}) /\ IsFiniteSet({"C"})
  BY FS_EmptySet, FS_Singleton
<1>2. IsFiniteSet({"C"} \cup {"F"})
  BY <1>1, FS_AddElement
<1>3. IsFiniteSet(({"C"} \cup {"F"}) \cup {"W"})
  BY <1>2, FS_AddElement
<1>4. Signals = ({"C"} \cup {"F"}) \cup {"W"}
  OBVIOUS
<1> QED
  BY <1>3, <1>4, FS_Subset, FS_CardinalityType

\* The lines a judgement logs are messages: their numbers stay within the cap.
LEMMA EntriesType ==
  ASSUME TypeOK, NEW ch \in Channels
  PROVE  /\ \A s \in Signals : EntryFor(ch, s) \in Seq(Messages)
         /\ Entries(ch) \in Seq(Messages)
         /\ LogKey(ch, Cardinality(Changed(ch))) \in 1..MaxLogKey
<1>1. Changed(ch) \in SUBSET Signals
  BY DEF Changed, Logged
<1>2. ASSUME NEW n \in Nat PROVE LogKey(ch, n) \in 1..MaxLogKey
  <2>1. logCnt[ch] + n \in Nat /\ logCnt[ch] + n >= 1
    BY LogKeyAssumption DEF TypeOK
  <2> QED
    BY <2>1, LogKeyAssumption DEF LogKey, Capped
<1>3. ASSUME NEW s \in Signals PROVE EntryFor(ch, s) \in Seq(Messages)
  <2>1. Cardinality(Changed(ch) \cap Before(s)) \in Nat
    BY <1>1, SignalSets
  <2>2. LogKey(ch, Cardinality(Changed(ch) \cap Before(s))) \in 1..MaxLogKey
    BY <1>2, <2>1
  <2>3. 1 - flags[ch][s] \in {0, 1}
    BY DEF TypeOK
  <2>4. Entry(s, 1 - flags[ch][s], LogKey(ch, Cardinality(Changed(ch) \cap Before(s))))
          \in Messages
    BY <2>2, <2>3 DEF Entry, Messages
  <2> QED
    BY <2>4 DEF EntryFor
<1>4. Entries(ch) \in Seq(Messages)
  BY <1>3, ConcatProperties DEF Entries
<1>5. Cardinality(Changed(ch)) \in Nat
  BY <1>1, SignalSets
<1> QED
  BY <1>2, <1>3, <1>4, <1>5

\* A judgement that reports the beginning or the end of a cycle sends messages too.
LEMMA ReportType ==
  ASSUME TypeOK, NEW ch \in Channels
  PROVE  /\ Entries(ch) \o <<StartLog, Status(0, Mode(ch))>> \in Seq(Messages)
         /\ Entries(ch) \o <<EndLog, Status(1, Mode(ch))>> \in Seq(Messages)
<1>1. Mode(ch) \in Modes
  BY DEF TypeOK, Mode
<1>2. /\ <<StartLog, Status(0, Mode(ch))>> \in Seq(Messages)
      /\ <<EndLog, Status(1, Mode(ch))>> \in Seq(Messages)
  BY <1>1 DEF StartLog, EndLog, Status, Messages
<1> QED
  BY <1>2, EntriesType, ConcatProperties

LEMMA TypeInit == Init => TypeOK
<1> SUFFICES ASSUME Init PROVE TypeOK
  OBVIOUS
<1>1. sample \in [Channels -> [mode : Modes, level : [Signals -> Levels], stalls : BOOLEAN]]
  BY DEF Init
<1>2. sinceEnd \in [Channels -> 0..Horizon] /\ sinceSe \in [Channels -> 0..Horizon]
  BY DEF Init
<1>3. sent \in [Channels -> Seq(Messages)]
  BY DEF Init
<1>4. logCnt \in [Channels -> 1..MaxLogKey]
  BY LogKeyAssumption DEF Init
<1>5. /\ pc \in 0..LastCh
      /\ cnt \in [Channels -> {0, 1}]
      /\ m \in [Channels -> {0, 1}]
      /\ seCnt \in [Channels -> {0, 1}]
      /\ currStatus \in [Channels -> {0, 1}]
  BY ChannelsAssumption DEF Init
<1>6. /\ logFlag \in [Channels -> BOOLEAN]
      /\ led \in [Channels -> BOOLEAN]
      /\ flags \in [Channels -> [Signals -> {0, 1}]]
  BY DEF Init
<1> QED
  BY <1>1, <1>2, <1>3, <1>4, <1>5, <1>6 DEF TypeOK

\* One judgement keeps the types.
LEMMA TypeJudge ==
  ASSUME TypeOK, NEW ch \in Channels, Judge(ch)
  PROVE  TypeOK'
<1> USE DEF TypeOK
<1>1. Judged(ch)
  BY DEF Judge, Start, Keep, Settle, Wait, End
<1>2. pc' \in 0..LastCh
  BY <1>1, ChannelsAssumption DEF Judged
<1>3. sample' = sample
  BY <1>1 DEF Judged
<1>4. sinceSe' \in [Channels -> 0..Horizon]
  <2>1. ArmedFor(ch) \in 0..Horizon
    BY DelayAssumption DEF ArmedFor
  <2> QED
    BY <1>1, <2>1 DEF Judged
<1>5. Armed(ch) \in {0, 1}
  BY DEF Armed
<1>6. LogKey(ch, Cardinality(Changed(ch))) \in 1..MaxLogKey /\ 1 \in 1..MaxLogKey
  BY EntriesType, LogKeyAssumption
<1>7. [s \in Signals |-> IF s \in Changed(ch) THEN 1 - flags[ch][s] ELSE flags[ch][s]]
        \in [Signals -> {0, 1}]
  OBVIOUS
<1>8. sinceEnd' \in [Channels -> 0..Horizon]
  BY DelayAssumption DEF Judge, Start, Keep, Settle, Wait, End, StampsEnd
<1>9. /\ cnt' \in [Channels -> {0, 1}]
      /\ m' \in [Channels -> {0, 1}]
      /\ seCnt' \in [Channels -> {0, 1}]
  BY <1>5 DEF Judge, Start, Keep, Settle, Wait, End, Reports, Debounces, MarksUse
<1>10. /\ logFlag' \in [Channels -> BOOLEAN]
       /\ currStatus' \in [Channels -> {0, 1}]
       /\ led' \in [Channels -> BOOLEAN]
  BY ZenonT(40) DEF Judge, Start, Keep, Settle, Wait, End, Reports
<1>11. flags' \in [Channels -> [Signals -> {0, 1}]]
  <2>1. CASE FlipsFlags(ch)
    BY <1>7, <2>1 DEF FlipsFlags
  <2>2. CASE End(ch)
    BY <2>2 DEF End
  <2> QED
    BY <2>1, <2>2 DEF Judge, Start, Keep, Settle, Wait, Reports
<1>12. logCnt' \in [Channels -> 1..MaxLogKey]
  BY <1>6 DEF Judge, Start, Keep, Settle, Wait, End, Reports, CountsLines
<1>13. sent' \in [Channels -> Seq(Messages)]
  <2>1. PICK msgs \in Seq(Messages) : sent' = [sent EXCEPT ![ch] = msgs]
    <3>1. CASE Start(ch)
      BY <3>1, ReportType DEF Start
    <3>2. CASE End(ch)
      BY <3>2, ReportType DEF End
    <3>3. CASE Reports(ch)
      BY <3>3, EntriesType DEF Reports
    <3> QED
      BY <3>1, <3>2, <3>3 DEF Judge, Keep, Settle, Wait
  <2> QED
    BY <2>1
<1> QED
  BY <1>2, <1>3, <1>4, <1>8, <1>9, <1>10, <1>11, <1>12, <1>13

LEMMA TypeNext == TypeOK /\ [Next]_vars => TypeOK'
<1> SUFFICES ASSUME TypeOK, [Next]_vars PROVE TypeOK'
  OBVIOUS
<1>1. CASE Sample
  <2>1. pc' \in 0..LastCh
    BY <1>1, ChannelsAssumption DEF Sample
  <2>2. sample' \in [Channels ->
          [mode : Modes, level : [Signals -> Levels], stalls : BOOLEAN]]
    BY <1>1, ReadingsAssumption DEF Sample
  <2>3. sent' \in [Channels -> Seq(Messages)]
    BY <1>1 DEF Sample
  <2> QED
    BY <1>1, <2>1, <2>2, <2>3 DEF Sample, TypeOK, cycleVars, logVars
<1>2. ASSUME NEW ch \in Channels, Judge(ch) PROVE TypeOK'
  BY <1>2, TypeJudge
<1>3. CASE Tick
  <2>1. /\ sinceEnd' \in [Channels -> 0..Horizon]
        /\ sinceSe' \in [Channels -> 0..Horizon]
    <3>1. ASSUME NEW n \in 0..Horizon PROVE Capped(n + 1, Horizon) \in 0..Horizon
      BY DelayAssumption DEF Capped
    <3> QED
      BY <1>3, <3>1 DEF Tick, TypeOK
  <2> QED
    BY <1>3, <2>1 DEF Tick, TypeOK, logVars, outVars
<1>4. CASE UNCHANGED vars
  BY <1>4 DEF TypeOK, vars, cycleVars, logVars, outVars
<1> QED
  BY <1>1, <1>2, <1>3, <1>4 DEF Next

\* The variables of the detection loop keep their types.
THEOREM TypeCorrect == Spec => []TypeOK
BY TypeInit, TypeNext, PTL DEF Spec

-----------------------------------------------------------------------------
(* Time.                                                                   *)

\* What a judgement does to its own channel.
LEMMA OwnChannel ==
  ASSUME TTypeOK, NEW ch \in Channels, TJudge(ch)
  PROVE  /\ sinceSe'[ch] = ArmedFor(ch)
         /\ quietFor'[ch] = IF InUse(ch) THEN 0 ELSE quietFor[ch]
         /\ silentFor'[ch] = IF Washing(ch) /\ AllLow(ch) THEN 0 ELSE silentFor[ch]
         /\ heldFor'[ch] = IF ~(Washing(ch) /\ AnyHigh(ch)) THEN -1
                           ELSE IF heldFor[ch] = -1 THEN 0 ELSE heldFor[ch]
         /\ \/ /\ InUse(ch) /\ cnt[ch] = 1 /\ cnt'[ch] = 0 /\ m'[ch] = 1
               /\ sinceEnd'[ch] = sinceEnd[ch]
               /\ seCnt'[ch] = IF Washing(ch) THEN 0 ELSE seCnt[ch]
               /\ logFlag'[ch] = TRUE /\ led'[ch] = TRUE /\ currStatus'[ch] = 0
            \/ /\ InUse(ch) /\ cnt[ch] = 0 /\ cnt'[ch] = 0 /\ m'[ch] = 1
               /\ sinceEnd'[ch] = sinceEnd[ch] /\ seCnt'[ch] = Armed(ch)
               /\ logFlag'[ch] = logFlag[ch] /\ led'[ch] = led[ch]
               /\ currStatus'[ch] = currStatus[ch]
            \/ /\ ~InUse(ch) /\ m[ch] = 1 /\ cnt'[ch] = cnt[ch] /\ m'[ch] = 0
               /\ sinceEnd'[ch] = 0 /\ seCnt'[ch] = Armed(ch)
               /\ logFlag'[ch] = logFlag[ch] /\ led'[ch] = led[ch]
               /\ currStatus'[ch] = currStatus[ch]
            \/ /\ ~InUse(ch) /\ m[ch] = 0 /\ cnt'[ch] = cnt[ch] /\ m'[ch] = 0
               /\ sinceEnd'[ch] = sinceEnd[ch] /\ seCnt'[ch] = Armed(ch)
               /\ logFlag'[ch] = logFlag[ch] /\ led'[ch] = led[ch]
               /\ currStatus'[ch] = currStatus[ch]
            \/ /\ ~InUse(ch) /\ m[ch] = 0 /\ cnt[ch] = 0 /\ cnt'[ch] = 1 /\ m'[ch] = 0
               /\ sinceEnd[ch] >= EndDelay[ch][Mode(ch)]
               /\ sinceEnd'[ch] = sinceEnd[ch] /\ seCnt'[ch] = Armed(ch)
               /\ logFlag'[ch] = FALSE /\ led'[ch] = FALSE /\ currStatus'[ch] = 1
<1> USE DEF TTypeOK, TypeOK
<1>1. sinceSe'[ch] = ArmedFor(ch)
  BY DEF TJudge, Judge, Start, Keep, Settle, Wait, End, Judged
<1>2. /\ quietFor'[ch] = IF InUse(ch) THEN 0 ELSE quietFor[ch]
      /\ silentFor'[ch] = IF Washing(ch) /\ AllLow(ch) THEN 0 ELSE silentFor[ch]
      /\ heldFor'[ch] = IF ~(Washing(ch) /\ AnyHigh(ch)) THEN -1
                        ELSE IF heldFor[ch] = -1 THEN 0 ELSE heldFor[ch]
  BY DEF TJudge
<1>3. CASE Start(ch)
  BY <1>1, <1>2, <1>3 DEF Start, MarksUse
<1>4. CASE Keep(ch)
  BY <1>1, <1>2, <1>4 DEF Keep, Reports, Debounces, MarksUse
<1>5. CASE Settle(ch)
  BY <1>1, <1>2, <1>5 DEF Settle, Reports, Debounces, StampsEnd
<1>6. CASE Wait(ch)
  BY <1>1, <1>2, <1>6 DEF Wait, Reports, Debounces
<1>7. CASE End(ch)
  BY <1>1, <1>2, <1>7 DEF End, EndDelayOver, Debounces
<1> QED
  BY <1>3, <1>4, <1>5, <1>6, <1>7 DEF TJudge, Judge

\* What it does to the others: nothing.
LEMMA OtherChannels ==
  ASSUME TTypeOK, NEW ch \in Channels, TJudge(ch), NEW d \in Channels, d # ch
  PROVE  /\ cnt'[d] = cnt[d] /\ m'[d] = m[d]
         /\ seCnt'[d] = seCnt[d] /\ sinceSe'[d] = sinceSe[d] /\ sinceEnd'[d] = sinceEnd[d]
         /\ logFlag'[d] = logFlag[d] /\ led'[d] = led[d] /\ currStatus'[d] = currStatus[d]
         /\ quietFor'[d] = quietFor[d] /\ silentFor'[d] = silentFor[d]
         /\ heldFor'[d] = heldFor[d]
<1> USE DEF TTypeOK, TypeOK
<1>1. /\ quietFor'[d] = quietFor[d] /\ silentFor'[d] = silentFor[d]
      /\ heldFor'[d] = heldFor[d]
  BY DEF TJudge
<1>2. cnt'[d] = cnt[d] /\ m'[d] = m[d] /\ sinceEnd'[d] = sinceEnd[d]
  BY DEF TJudge, Judge, Start, Keep, Settle, Wait, End, Reports, MarksUse, StampsEnd
<1>3. seCnt'[d] = seCnt[d] /\ sinceSe'[d] = sinceSe[d]
  BY DEF TJudge, Judge, Start, Keep, Settle, Wait, End, Reports, Judged, Debounces
<1>4. logFlag'[d] = logFlag[d] /\ led'[d] = led[d] /\ currStatus'[d] = currStatus[d]
  BY DEF TJudge, Judge, Start, Keep, Settle, Wait, End, Reports
<1> QED
  BY <1>1, <1>2, <1>3, <1>4

\* The types of what the invariant speaks of, one channel at a time.
LEMMA ChannelTypes ==
  ASSUME TTypeOK, NEW d \in Channels
  PROVE  /\ cnt[d] \in {0, 1} /\ m[d] \in {0, 1} /\ seCnt[d] \in {0, 1}
         /\ logFlag[d] \in BOOLEAN /\ led[d] \in BOOLEAN /\ currStatus[d] \in {0, 1}
         /\ sinceEnd[d] \in 0..Horizon /\ sinceSe[d] \in 0..Horizon
         /\ quietFor[d] \in 0..Horizon /\ silentFor[d] \in 0..Horizon
         /\ heldFor[d] \in -1..Horizon
BY DEF TTypeOK, TypeOK

\* Ages advance together, so that the order of two ages is kept by the cap.
LEMMA CappedOrder ==
  ASSUME NEW a \in 0..Horizon
  PROVE  /\ Capped(a + 1, Horizon) \in 0..Horizon
         /\ a < Horizon => Capped(a + 1, Horizon) = a + 1
         /\ a = Horizon => Capped(a + 1, Horizon) = Horizon
BY DelayAssumption DEF Capped

-----------------------------------------------------------------------------
LEMMA TimingTypeNext == TTypeOK /\ [TNext]_tvars => TTypeOK'
<1> SUFFICES ASSUME TTypeOK, [TNext]_tvars PROVE TTypeOK'
  OBVIOUS
<1>1. TypeOK'
  <2>1. [Next]_vars
    BY DEF TNext, TSample, TJudge, TTick, Next, tvars
  <2> QED
    BY <2>1, TypeNext DEF TTypeOK
<1>2. CASE TSample
  BY <1>1, <1>2 DEF TSample, TTypeOK, histVars
<1>3. ASSUME NEW ch \in Channels, TJudge(ch) PROVE TTypeOK'
  BY <1>1, <1>3, DelayAssumption DEF TJudge, TTypeOK
<1>4. CASE TTick
  <2>1. /\ quietFor' \in [Channels -> 0..Horizon]
        /\ silentFor' \in [Channels -> 0..Horizon]
    BY <1>4, CappedOrder DEF TTick, TTypeOK
  <2>2. heldFor' \in [Channels -> -1..Horizon]
    <3>1. ASSUME NEW ch \in Channels
          PROVE  (IF heldFor[ch] = -1 THEN -1 ELSE Capped(heldFor[ch] + 1, Horizon))
                   \in -1..Horizon
      BY CappedOrder, DelayAssumption DEF TTypeOK
    <3> QED
      BY <1>4, <3>1 DEF TTick
  <2> QED
    BY <1>1, <2>1, <2>2 DEF TTypeOK
<1>5. CASE UNCHANGED tvars
  BY <1>1, <1>5 DEF tvars, histVars, TTypeOK
<1> QED
  BY <1>2, <1>3, <1>4, <1>5 DEF TNext

LEMMA TimingInit == TInit => TInv
<1> SUFFICES ASSUME TInit PROVE TInv
  OBVIOUS
<1>1. TypeOK
  BY TypeInit DEF TInit
<1>2. TTypeOK
  BY <1>1, DelayAssumption DEF TInit, TTypeOK
<1>3. OutputsAgree
  BY DEF TInit, Init, OutputsAgree
<1>4. EndDelayRuns /\ ArmedAfterSilence /\ HeldIsArmed
  BY DEF TInit, Init, EndDelayRuns, ArmedAfterSilence, HeldIsArmed
<1> QED
  BY <1>2, <1>3, <1>4 DEF TInv

\* One judgement keeps the invariant.
LEMMA TimingJudge ==
  ASSUME TInv, TTypeOK', NEW ch \in Channels, TJudge(ch)
  PROVE  TInv'
<1>1. TTypeOK
  BY DEF TInv
<1>2. OutputsAgree'
  <2> SUFFICES ASSUME NEW d \in Channels
               PROVE  /\ logFlag'[d] <=> cnt'[d] = 0
                      /\ led'[d] <=> cnt'[d] = 0
                      /\ currStatus'[d] = cnt'[d]
    BY DEF OutputsAgree
  <2>1. CASE d = ch
    <3>1. \/ cnt'[ch] = 0 /\ logFlag'[ch] /\ led'[ch] /\ currStatus'[ch] = 0
          \/ cnt'[ch] = 1 /\ ~logFlag'[ch] /\ ~led'[ch] /\ currStatus'[ch] = 1
          \/ /\ cnt'[ch] = cnt[ch] /\ currStatus'[ch] = currStatus[ch]
             /\ logFlag'[ch] = logFlag[ch] /\ led'[ch] = led[ch]
      BY <1>1, OwnChannel
    <3>2. /\ logFlag[ch] <=> cnt[ch] = 0
          /\ led[ch] <=> cnt[ch] = 0
          /\ currStatus[ch] = cnt[ch]
      BY DEF TInv, OutputsAgree
    <3> QED
      BY <2>1, <3>1, <3>2
  <2>2. CASE d # ch
    BY <1>1, <2>2, OtherChannels, ChannelTypes DEF TInv, OutputsAgree
  <2> QED
    BY <2>1, <2>2
<1>3. EndDelayRuns'
  <2> SUFFICES ASSUME NEW d \in Channels
               PROVE  cnt'[d] = 0 => m'[d] = 1 \/ sinceEnd'[d] <= quietFor'[d]
    BY DEF EndDelayRuns
  <2>1. CASE d = ch
    <3>1. \/ m'[ch] = 1
          \/ /\ cnt'[ch] = cnt[ch]
             /\ \/ sinceEnd'[ch] = 0
                \/ m[ch] = 0 /\ sinceEnd'[ch] = sinceEnd[ch]
             /\ quietFor'[ch] = quietFor[ch]
          \/ cnt'[ch] = 1
      BY <1>1, OwnChannel
    <3>2. cnt[ch] = 0 => m[ch] = 1 \/ sinceEnd[ch] <= quietFor[ch]
      BY DEF TInv, EndDelayRuns
    <3> QED
      BY <1>1, <2>1, <3>1, <3>2, ChannelTypes
  <2>2. CASE d # ch
    BY <1>1, <2>2, OtherChannels, ChannelTypes DEF TInv, EndDelayRuns
  <2> QED
    BY <2>1, <2>2
<1>4. ArmedAfterSilence'
  <2> SUFFICES ASSUME NEW d \in Channels
               PROVE  seCnt'[d] = 1 => sinceSe'[d] <= silentFor'[d]
    BY DEF ArmedAfterSilence
  <2>1. CASE d = ch
    <3>1. seCnt[ch] = 1 => sinceSe[ch] <= silentFor[ch]
      BY DEF TInv, ArmedAfterSilence
    <3>2. \/ seCnt'[ch] = 0
          \/ seCnt'[ch] = Armed(ch)
          \/ ~Washing(ch) /\ seCnt'[ch] = seCnt[ch]
      BY <1>1, OwnChannel
    <3>3. /\ sinceSe'[ch] = ArmedFor(ch)
          /\ silentFor'[ch] = IF Washing(ch) /\ AllLow(ch) THEN 0 ELSE silentFor[ch]
      BY <1>1, OwnChannel
    <3>4. CASE Washing(ch) /\ AllLow(ch)
      <4>1. Armed(ch) = 0
        BY <1>1, <3>4, ChannelTypes DEF Armed, Arms, Disarms, AllLow, AnyHigh
      <4> QED
        BY <2>1, <3>2, <3>4, <4>1
    <3>5. CASE ~(Washing(ch) /\ AllLow(ch))
      <4>1. ASSUME Armed(ch) = 1
            PROVE  \/ ArmedFor(ch) = 0
                   \/ seCnt[ch] = 1 /\ ArmedFor(ch) = sinceSe[ch]
        <5>1. CASE Arms(ch)
          BY <5>1 DEF ArmedFor
        <5>2. CASE ~Arms(ch)
          BY <4>1, <5>2 DEF Armed, ArmedFor
        <5> QED
          BY <5>1, <5>2
      <4>2. ~Washing(ch) => ArmedFor(ch) = sinceSe[ch]
        BY DEF ArmedFor, Arms
      <4> QED
        BY <1>1, <2>1, <3>1, <3>2, <3>3, <3>5, <4>1, <4>2, ChannelTypes
    <3> QED
      BY <3>4, <3>5
  <2>2. CASE d # ch
    BY <1>1, <2>2, OtherChannels, ChannelTypes DEF TInv, ArmedAfterSilence
  <2> QED
    BY <2>1, <2>2
<1>5. HeldIsArmed'
  <2> SUFFICES ASSUME NEW d \in Channels, heldFor'[d] # -1
               PROVE  \/ seCnt'[d] = 1 /\ heldFor'[d] <= sinceSe'[d]
                      \/ seCnt'[d] = 0 /\ cnt'[d] = 0 /\ m'[d] = 1
                      \/ /\ seCnt'[d] = 1 /\ cnt'[d] = 0
                         /\ m'[d] = 1 \/ sinceEnd'[d] <= sinceSe'[d]
    BY DEF HeldIsArmed
  <2>1. CASE d # ch
    BY <1>1, <2>1, OtherChannels, ChannelTypes DEF TInv, HeldIsArmed
  <2>2. CASE d = ch
    <3>1. Washing(ch) /\ AnyHigh(ch) /\ ~AllLow(ch)
      BY <1>1, <2>2, OwnChannel, ChannelTypes DEF AnyHigh, AllLow
    <3>2. Armed(ch) = 1
      BY <1>1, <3>1, ChannelTypes DEF Armed, Arms, Disarms
    <3>3. heldFor'[ch] = IF heldFor[ch] = -1 THEN 0 ELSE heldFor[ch]
      BY <1>1, <3>1, OwnChannel, ChannelTypes
    <3>4. heldFor[ch] # -1 => \/ seCnt[ch] = 1 /\ heldFor[ch] <= sinceSe[ch]
                              \/ seCnt[ch] = 0 /\ cnt[ch] = 0 /\ m[ch] = 1
                              \/ /\ seCnt[ch] = 1 /\ cnt[ch] = 0
                                 /\ m[ch] = 1 \/ sinceEnd[ch] <= sinceSe[ch]
      BY DEF TInv, HeldIsArmed
    <3>5. sinceSe'[ch] = IF seCnt[ch] = 0 THEN 0 ELSE sinceSe[ch]
      BY <1>1, <3>1, OwnChannel, ChannelTypes DEF ArmedFor, Arms
    <3>7. \/ cnt'[ch] = 0 /\ m'[ch] = 1 /\ seCnt'[ch] = 0
          \/ cnt'[ch] = cnt[ch] /\ m'[ch] = 1 /\ seCnt'[ch] = 1
          \/ /\ cnt'[ch] = cnt[ch] /\ ~InUse(ch) /\ seCnt'[ch] = 1
             /\ \/ m[ch] = 1 /\ sinceEnd'[ch] = 0
                \/ m[ch] = 0 /\ sinceEnd'[ch] = sinceEnd[ch]
          \/ /\ cnt'[ch] = 1 /\ cnt[ch] = 0 /\ m[ch] = 0 /\ seCnt'[ch] = 1
             /\ ~InUse(ch) /\ sinceEnd[ch] >= EndDelay[ch]["wash"]
      BY <1>1, <3>1, <3>2, OwnChannel DEF Washing
    <3>8. ~InUse(ch) => sinceSe'[ch] < Debounce
      <4>1. sinceSe'[ch] = ArmedFor(ch) /\ ArmedFor(ch) \in Int
        <5>1. sinceSe'[ch] = ArmedFor(ch)
          BY <1>1, OwnChannel
        <5>2. ArmedFor(ch) \in Int
          BY <1>1, ChannelTypes, DelayAssumption DEF ArmedFor
        <5> QED
          BY <5>1, <5>2
      <4> QED
        BY <3>1, <3>2, <4>1, DelayAssumption DEF InUse
    <3>9. Debounce <= EndDelay[ch]["wash"] /\ Debounce \in Nat /\ Debounce > 0
          /\ EndDelay[ch]["wash"] \in Nat
      BY DelayAssumption DEF Modes
    <3>10. /\ heldFor[ch] \in -1..Horizon /\ sinceSe[ch] \in 0..Horizon
           /\ sinceEnd[ch] \in 0..Horizon /\ seCnt[ch] \in {0, 1}
           /\ m[ch] \in {0, 1} /\ cnt[ch] \in {0, 1} /\ Horizon \in Nat
      BY <1>1, ChannelTypes, DelayAssumption
    <3> QED
      BY <2>2, <3>3, <3>4, <3>5, <3>7, <3>8, <3>9, <3>10
  <2> QED
    BY <2>1, <2>2
<1> QED
  BY <1>2, <1>3, <1>4, <1>5 DEF TInv

\* The clock keeps the invariant.
LEMMA TimingTick ==
  ASSUME TInv, TTypeOK', TTick
  PROVE  TInv'
<1>0. TTypeOK
  BY DEF TInv
<1>1. OutputsAgree'
  BY DEF TInv, OutputsAgree, TTick, Tick, outVars, logVars
<1>2. ASSUME NEW d \in Channels
      PROVE  /\ cnt'[d] = cnt[d] /\ m'[d] = m[d] /\ seCnt'[d] = seCnt[d]
             /\ sinceEnd'[d] = Capped(sinceEnd[d] + 1, Horizon)
             /\ sinceSe'[d] = Capped(sinceSe[d] + 1, Horizon)
             /\ quietFor'[d] = Capped(quietFor[d] + 1, Horizon)
             /\ silentFor'[d] = Capped(silentFor[d] + 1, Horizon)
             /\ heldFor'[d] = IF heldFor[d] = -1 THEN -1 ELSE Capped(heldFor[d] + 1, Horizon)
  BY DEF TTick, Tick
<1>3. ASSUME NEW a \in 0..Horizon, NEW b \in 0..Horizon, a <= b
      PROVE  Capped(a + 1, Horizon) <= Capped(b + 1, Horizon)
  BY <1>3, DelayAssumption DEF Capped
<1>4. EndDelayRuns'
  BY <1>0, <1>2, <1>3, ChannelTypes DEF TInv, EndDelayRuns
<1>5. ArmedAfterSilence'
  BY <1>0, <1>2, <1>3, ChannelTypes DEF TInv, ArmedAfterSilence
<1>6. HeldIsArmed'
  BY <1>0, <1>2, <1>3, ChannelTypes DEF TInv, HeldIsArmed
<1> QED
  BY <1>1, <1>4, <1>5, <1>6 DEF TInv

LEMMA TimingNext == TInv /\ [TNext]_tvars => TInv'
<1> SUFFICES ASSUME TInv, [TNext]_tvars PROVE TInv'
  OBVIOUS
<1>1. TTypeOK'
  BY TimingTypeNext DEF TInv
<1>2. CASE TSample
  BY <1>1, <1>2
     DEF TInv, TSample, Sample, OutputsAgree, EndDelayRuns, ArmedAfterSilence, HeldIsArmed,
         histVars, cycleVars, logVars
<1>3. ASSUME NEW ch \in Channels, TJudge(ch) PROVE TInv'
  BY <1>1, <1>3, TimingJudge
<1>4. CASE TTick
  BY <1>1, <1>4, TimingTick
<1>5. CASE UNCHANGED tvars
  BY <1>1, <1>5
     DEF TInv, OutputsAgree, EndDelayRuns, ArmedAfterSilence, HeldIsArmed,
         tvars, vars, histVars, cycleVars, logVars, outVars
<1> QED
  BY <1>2, <1>3, <1>4, <1>5 DEF TNext

\* The inductive invariant holds in every reachable state.
THEOREM TimingInvariant == TSpec => []TInv
BY TimingInit, TimingNext, PTL DEF TSpec

\* Which branch of a judgement starts a cycle, and which ends one.
LEMMA StartBranch ==
  ASSUME TypeOK, NEW ch \in Channels, TJudge(ch), Starts(ch)
  PROVE  Start(ch)
<1>1. ~Reports(ch)
  BY DEF Reports, Starts
<1>2. ~End(ch)
  BY DEF End, Starts
<1> QED
  BY <1>1, <1>2 DEF TJudge, Judge, Keep, Settle, Wait

LEMMA EndBranch ==
  ASSUME TypeOK, NEW ch \in Channels, TJudge(ch), Ends(ch)
  PROVE  End(ch)
<1>1. ~Reports(ch)
  BY DEF Reports, Ends
<1>2. ~Start(ch)
  BY DEF Start, Ends
<1> QED
  BY <1>1, <1>2 DEF TJudge, Judge, Keep, Settle, Wait

\* A judgement that ends a cycle found the machine out of use for the end delay.
LEMMA EndIsLate ==
  ASSUME TInv, NEW ch \in Channels, TJudge(ch), Ends(ch)
  PROVE  /\ ~InUse(ch)
         /\ Mode(ch) \in Modes
         /\ quietFor[ch] >= EndDelay[ch][Mode(ch)]
<1>1. TTypeOK
  BY DEF TInv
<1>2. End(ch)
  BY <1>1, EndBranch DEF TTypeOK
<1>3. sinceEnd[ch] <= quietFor[ch]
  BY <1>2 DEF End, TInv, EndDelayRuns
<1>4. Mode(ch) \in Modes
  BY <1>1 DEF TTypeOK, TypeOK, Mode
<1>5. EndDelay[ch][Mode(ch)] \in Nat
  BY <1>4, DelayAssumption
<1> QED
  BY <1>1, <1>2, <1>3, <1>4, <1>5, ChannelTypes DEF End, EndDelayOver

\* Only a judgement of the channel itself starts or ends its cycle.
LEMMA WhoJudges ==
  ASSUME TTypeOK, [TNext]_tvars, NEW ch \in Channels, cnt'[ch] # cnt[ch]
  PROVE  TJudge(ch)
<1>1. CASE TSample
  BY <1>1 DEF TSample, Sample, cycleVars
<1>2. CASE TTick
  BY <1>2 DEF TTick, Tick
<1>3. CASE UNCHANGED tvars
  BY <1>3 DEF tvars, vars, cycleVars
<1>4. ASSUME NEW d \in Channels, TJudge(d) PROVE TJudge(ch)
  BY <1>4, OtherChannels
<1> QED
  BY <1>1, <1>2, <1>3, <1>4 DEF TNext

LEMMA NoEndWhileHighStep ==
  ASSUME TInv, [TNext]_tvars, NEW ch \in Channels, Ends(ch), heldFor'[ch] # -1
  PROVE  heldFor'[ch] < Debounce
<1>1. TTypeOK
  BY DEF TInv
<1>2. TJudge(ch) /\ End(ch) /\ cnt'[ch] = 1
  BY <1>1, WhoJudges, EndBranch DEF Ends, TTypeOK
<1>3. /\ ~InUse(ch) /\ m'[ch] = m[ch] /\ m[ch] = 0 /\ seCnt'[ch] = Armed(ch)
      /\ sinceSe'[ch] = ArmedFor(ch)
  BY <1>1, <1>2 DEF End, Judged, Debounces, TTypeOK, TypeOK
<1>4. Washing(ch) /\ AnyHigh(ch)
  BY <1>1, <1>2, OwnChannel
<1>5. TInv'
  BY TimingNext
<1>6. seCnt'[ch] = 1 /\ heldFor'[ch] <= sinceSe'[ch]
  BY <1>2, <1>3, <1>5 DEF TInv, HeldIsArmed
<1>7. ArmedFor(ch) < Debounce
  <2>1. ArmedFor(ch) \in Int
    BY <1>1, ChannelTypes DEF ArmedFor
  <2> QED
    BY <1>3, <1>4, <1>6, <2>1, DelayAssumption DEF InUse
<1>8. heldFor'[ch] \in Int /\ sinceSe'[ch] \in Int
  <2>1. heldFor' \in [Channels -> -1..Horizon] /\ sinceSe' \in [Channels -> 0..Horizon]
    BY <1>5 DEF TInv, TTypeOK, TypeOK
  <2>2. -1..Horizon \subseteq Int /\ 0..Horizon \subseteq Int
    BY DelayAssumption
  <2> QED
    BY <2>1, <2>2
<1> QED
  BY <1>3, <1>6, <1>7, <1>8, DelayAssumption

\* A washer whose signals stay high for the debounce time is never reported ended.
THEOREM NeverEndsWhileHigh == TSpec => NoEndWhileHigh
<1>1. ASSUME TInv, [TNext]_tvars
      PROVE  [\A ch \in Channels :
                Ends(ch) /\ heldFor'[ch] # -1 => heldFor'[ch] < Debounce]_tvars
  BY <1>1, NoEndWhileHighStep
<1> QED
  BY <1>1, TimingInvariant, PTL DEF TSpec, NoEndWhileHigh

LEMMA NoGlitchStartStep ==
  ASSUME TInv, [TNext]_tvars, NEW ch \in Channels, Starts(ch), Washing(ch)
  PROVE  silentFor'[ch] >= Debounce
<1>1. TTypeOK
  BY DEF TInv
<1>2. TJudge(ch) /\ Start(ch)
  BY <1>1, WhoJudges, StartBranch DEF Starts, TTypeOK
<1>3. /\ InUse(ch)
      /\ silentFor'[ch] = IF Washing(ch) /\ AllLow(ch) THEN 0 ELSE silentFor[ch]
  BY <1>1, <1>2, OwnChannel DEF Start
<1>4. Armed(ch) = 1 /\ ArmedFor(ch) >= Debounce
  <2>1. ~logFlag[ch]
    BY DEF TInv, OutputsAgree, Starts
  <2>2. ~Stalls(ch)
    BY <2>1 DEF Stalls, Changed
  <2> QED
    BY <1>3, <2>2 DEF InUse
<1>5. ~Arms(ch) /\ ArmedFor(ch) = sinceSe[ch]
  BY <1>4, DelayAssumption DEF ArmedFor
<1>6. seCnt[ch] = 1 /\ ~Disarms(ch)
  BY <1>4, <1>5 DEF Armed
<1>7. ~AllLow(ch)
  BY <1>6 DEF Disarms
<1>8. sinceSe[ch] <= silentFor[ch]
  BY <1>6 DEF TInv, ArmedAfterSilence
<1> QED
  BY <1>1, <1>3, <1>4, <1>5, <1>7, <1>8, ChannelTypes, DelayAssumption

\* A washer's cycle never starts within the debounce time of a silence.
THEOREM NeverStartsOnAGlitch == TSpec => NoGlitchStart
<1>1. ASSUME TInv, [TNext]_tvars
      PROVE  [\A ch \in Channels :
                Starts(ch) /\ Washing(ch) => silentFor'[ch] >= Debounce]_tvars
  BY <1>1, NoGlitchStartStep
<1> QED
  BY <1>1, TimingInvariant, PTL DEF TSpec, NoGlitchStart

-----------------------------------------------------------------------------
(* The detection loop implements CycleContract.                            *)

working  == [ch \in Channels |-> currStatus[ch] = 0]
judgedAs == [ch \in Channels |-> Mode(ch)]

LEMMA ContractInit == TInit => Contract!Init
<1> SUFFICES ASSUME TInit PROVE Contract!Init
  OBVIOUS
<1>1. working = [ch \in Channels |-> FALSE]
  <2>1. ASSUME NEW ch \in Channels PROVE (currStatus[ch] = 0) = FALSE
    BY DEF TInit, Init
  <2> QED
    BY <2>1, Zenon DEF working
<1>2. quietFor \in [Channels -> 0..Horizon]
  BY DelayAssumption DEF TInit
<1>3. judgedAs \in [Channels -> Modes]
  BY TypeInit DEF TInit, TypeOK, judgedAs, Mode
<1> QED
  BY <1>1, <1>2, <1>3 DEF Contract!Init, working, judgedAs

\* Steps of the loop that the contract does not see.
LEMMA ContractStutter ==
  ASSUME currStatus' = currStatus, quietFor' = quietFor, sample' = sample
  PROVE  UNCHANGED <<working, quietFor, judgedAs>>
BY DEF working, judgedAs, Mode

\* A judgement reads the mode of its pass.
LEMMA ContractMode ==
  ASSUME NEW ch \in Channels, TJudge(ch)
  PROVE  sample' = sample /\ judgedAs' = judgedAs
<1>1. sample' = sample
  BY DEF TJudge, Judge, Start, Keep, Settle, Wait, End, Judged
<1> QED
  BY <1>1 DEF judgedAs, Mode

\* The top of a pass reads the mode pins.
LEMMA ContractSwitch ==
  ASSUME TInv, TypeOK', TSample
  PROVE  Contract!Switch
<1>1. working' = working /\ quietFor' = quietFor
  BY DEF TSample, Sample, histVars, working
<1>2. judgedAs' \in [Channels -> Modes]
  BY DEF TypeOK, judgedAs, Mode
<1> QED
  BY <1>1, <1>2 DEF Contract!Switch, working, judgedAs

\* A judgement that finds the machine in use.
LEMMA ContractUse ==
  ASSUME TInv, NEW ch \in Channels, TJudge(ch), InUse(ch)
  PROVE  Contract!Use(ch)
<1>1. TTypeOK /\ TypeOK
  BY DEF TInv, TTypeOK
<1>2. quietFor' = [quietFor EXCEPT ![ch] = 0]
  BY DEF TJudge
<1>3. CASE currStatus' = currStatus
  <2>1. working' = working
    BY <1>3 DEF working
  <2> QED
    BY <1>2, <2>1, ContractMode DEF Contract!Use, working, judgedAs
<1>4. CASE currStatus' = [currStatus EXCEPT ![ch] = 0]
  <2>1. working' = [working EXCEPT ![ch] = TRUE]
    BY <1>1, <1>4 DEF working, TypeOK
  <2> QED
    BY <1>2, <2>1, ContractMode DEF Contract!Use, working, judgedAs
<1> QED
  BY <1>3, <1>4 DEF TJudge, Judge, Start, Keep, Settle, Wait, End, Reports

\* A judgement that ends a cycle.
LEMMA ContractFinish ==
  ASSUME TInv, NEW ch \in Channels, TJudge(ch), End(ch)
  PROVE  Contract!Finish(ch)
<1>1. TTypeOK /\ TypeOK
  BY DEF TInv, TTypeOK
<1>2. Ends(ch)
  BY <1>1 DEF End, Ends, TypeOK
<1>3. /\ ~InUse(ch)
      /\ Mode(ch) \in Modes
      /\ quietFor[ch] >= EndDelay[ch][Mode(ch)]
  BY <1>2, EndIsLate
<1>4. quietFor' = quietFor
  BY <1>1, <1>3 DEF TJudge, TTypeOK
<1>5. currStatus[ch] = 0
  BY <1>2 DEF TInv, OutputsAgree, Ends
<1>6. currStatus' = [currStatus EXCEPT ![ch] = 1]
  BY DEF End
<1>7. working[ch] /\ working' = [working EXCEPT ![ch] = FALSE]
  <2>1. working[ch]
    BY <1>5 DEF working
  <2>2. ASSUME NEW d \in Channels
        PROVE  (currStatus'[d] = 0) = IF d = ch THEN FALSE ELSE (currStatus[d] = 0)
    <3>1. currStatus'[d] = IF d = ch THEN 1 ELSE currStatus[d]
      BY <1>1, <1>6 DEF TypeOK
    <3>2. CASE d = ch
      <4>1. ~(currStatus'[d] = 0)
        BY <3>1, <3>2
      <4> QED
        BY <3>2, <4>1, Zenon
    <3>3. CASE d # ch
      BY <3>1, <3>3
    <3> QED
      BY <3>2, <3>3
  <2>3. working' = [d \in Channels |-> IF d = ch THEN FALSE ELSE (currStatus[d] = 0)]
    BY <2>2, Zenon DEF working
  <2> QED
    BY <2>1, <2>3 DEF working
<1>8. judgedAs[ch] = Mode(ch)
  BY DEF judgedAs
<1> QED
  BY <1>3, <1>4, <1>7, <1>8, ContractMode DEF Contract!Finish, working, judgedAs

LEMMA ContractNext == TInv /\ [TNext]_tvars => [Contract!Next]_<<working, quietFor, judgedAs>>
<1> SUFFICES ASSUME TInv, [TNext]_tvars
             PROVE  [Contract!Next]_<<working, quietFor, judgedAs>>
  OBVIOUS
<1>1. CASE TSample
  <2>1. TypeOK'
    BY TimingNext DEF TInv, TTypeOK
  <2> QED
    BY <1>1, <2>1, ContractSwitch DEF Contract!Next
<1>2. ASSUME NEW ch \in Channels, TJudge(ch)
      PROVE  [Contract!Next]_<<working, quietFor, judgedAs>>
  <2>1. CASE InUse(ch)
    BY <1>2, <2>1, ContractUse DEF Contract!Next
  <2>2. CASE End(ch)
    BY <1>2, <2>2, ContractFinish DEF Contract!Next
  <2>3. CASE ~InUse(ch) /\ ~End(ch)
    <3>1. currStatus' = currStatus
      BY <1>2, <2>3 DEF TJudge, Judge, Start, Keep, Settle, Wait, Reports
    <3>2. quietFor' = quietFor
      BY <1>2, <2>3 DEF TJudge, TInv, TTypeOK
    <3> QED
      BY <1>2, <3>1, <3>2, ContractMode, ContractStutter
  <2> QED
    BY <2>1, <2>2, <2>3
<1>3. CASE TTick
  <2>1. quietFor' = [ch \in Channels |->
                       IF quietFor[ch] < Horizon THEN quietFor[ch] + 1 ELSE Horizon]
    <3>1. ASSUME NEW ch \in Channels
          PROVE  Capped(quietFor[ch] + 1, Horizon) =
                   IF quietFor[ch] < Horizon THEN quietFor[ch] + 1 ELSE Horizon
      BY DelayAssumption DEF Capped, TInv, TTypeOK
    <3> QED
      BY <1>3, <3>1, Zenon DEF TTick
  <2>2. working' = working
    BY <1>3 DEF TTick, Tick, outVars, working
  <2>3. judgedAs' = judgedAs
    BY <1>3 DEF TTick, Tick, judgedAs, Mode
  <2> QED
    BY <2>1, <2>2, <2>3 DEF Contract!Next, Contract!Pass, working, judgedAs
<1>4. CASE UNCHANGED tvars
  BY <1>4, ContractStutter DEF tvars, vars, histVars, outVars
<1> QED
  BY <1>1, <1>2, <1>3, <1>4 DEF TNext

\* Every behaviour of the detection loop is one the contract allows: a cycle ends
\* only after the end delay of the mode that is judged.
THEOREM ImplementsContract == TSpec => ContractSpec
<1>1. Contract!cvars = <<working, quietFor, judgedAs>>
  BY DEF Contract!cvars, working, judgedAs
<1>2. TInv /\ [TNext]_tvars => [Contract!Next]_(Contract!cvars)
  BY <1>1, ContractNext DEF Contract!cvars, working, judgedAs
<1> QED
  BY <1>2, ContractInit, TimingInvariant, PTL DEF TSpec, ContractSpec, Contract!Spec
=============================================================================

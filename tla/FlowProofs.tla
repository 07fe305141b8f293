----------------------------- MODULE FlowProofs -----------------------------
(***************************************************************************)
(* Poll timer and flow window of FlowMeter for any period, window, delay   *)
(* and width of the counters.                                              *)
(***************************************************************************)
EXTENDS FlowMeter, TLAPS

\* What FlowInv says of the clocks: the part the windows depend on.
ClockType ==
  /\ sinceCalc \in 0..Window /\ toExpiry \in 1..Period
  /\ late \in -1..MaxLate /\ blind \in 0..2 /\ window.polls \in {0, 1}
ClockInv == ClockType /\ NoPollNoExpiry /\ BlindIsLate /\ NoTwoBlindWindows

LEMMA ClockInit == Init => ClockInv
<1> SUFFICES ASSUME Init PROVE ClockInv
  OBVIOUS
<1>1. sinceCalc = Window /\ toExpiry \in 1..Period /\ late = -1 /\ window.polls = 1 /\ blind = 0
  BY DEF Init
<1>2. QED
  BY <1>1, TimeAssumption
     DEF ClockInv, ClockType, NoPollNoExpiry, BlindIsLate, NoTwoBlindWindows

LEMMA ClockNext == ClockInv /\ [Next]_vars => ClockInv'
<1> SUFFICES ASSUME ClockInv, [Next]_vars PROVE ClockInv'
  OBVIOUS
<1> USE TimeAssumption DEF ClockInv, ClockType, NoPollNoExpiry, BlindIsLate, NoTwoBlindWindows
<1>1. CASE Pulse \/ Skip \/ UNCHANGED vars
  <2>1. UNCHANGED <<sinceCalc, toExpiry, late, window, blind>>
    BY <1>1 DEF Pulse, Skip, vars, coreVars, timeVars, histVars
  <2>2. QED
    BY <2>1
<1>2. CASE Poll
  <2>1. late' = -1 /\ window'.polls = 1 /\ UNCHANGED <<sinceCalc, toExpiry, blind>>
    BY <1>2 DEF Poll, coreVars
  <2>2. QED
    BY <2>1
<1>3. CASE Calc
  <2>1. /\ sinceCalc = Window /\ sinceCalc' = 0 /\ window'.polls = 0
        /\ blind' = IF window.polls > 0 THEN 0 ELSE IF blind < 2 THEN blind + 1 ELSE 2
        /\ UNCHANGED <<toExpiry, late>>
    BY <1>3 DEF Calc, WindowComplete, ClosesWindow, NoWindow
  <2>2. CASE window.polls = 1
    BY <2>1, <2>2
  <2>3. CASE window.polls = 0
    <3>1. late # -1
      BY <2>1, <2>3
    <3>2. blind = 0
      BY <2>1, <2>3
    <3>3. QED
      BY <2>1, <2>3, <3>1, <3>2
  <2>4. QED
    BY <2>2, <2>3
<1>4. CASE Tick
  <2>1. /\ sinceCalc' = IF sinceCalc < Window THEN sinceCalc + 1 ELSE Window
        /\ late < MaxLate
        /\ IF toExpiry = 1
           THEN late = -1 /\ late' = 0 /\ toExpiry' = Period
           ELSE late' = (IF late = -1 THEN -1 ELSE late + 1) /\ toExpiry' = toExpiry - 1
        /\ UNCHANGED <<window, blind>>
    BY <1>4 DEF Tick, histVars
  <2>2. CASE toExpiry = 1
    BY <2>1, <2>2
  <2>3. CASE toExpiry # 1
    BY <2>1, <2>3
  <2>4. QED
    BY <2>2, <2>3
<1>5. QED
  BY <1>1, <1>2, <1>3, <1>4 DEF Next

\* No two windows in a row go without a poll, as long as the callback is never as
\* late as the timer's period.
THEOREM NeverTwoBlindWindows == Spec => []NoTwoBlindWindows
<1>1. ClockInv => NoTwoBlindWindows
  BY DEF ClockInv
<1>2. QED
  BY <1>1, ClockInit, ClockNext, PTL DEF Spec

-----------------------------------------------------------------------------
(* Arithmetic of unsigned integers of any width.                           *)

\* Quotient and remainder.
LEMMA Remainder ==
  ASSUME NEW w \in Nat \ {0}, NEW a \in Int
  PROVE  a % w \in 0..(w - 1) /\ a \div w \in Int /\ a = (a % w) + (a \div w) * w
OBVIOUS

LEMMA UnsignedType ==
  ASSUME NEW w \in Nat \ {0}, NEW a \in Int
  PROVE  /\ Unsigned(a, w) \in 0..(w - 1)
         /\ \E k \in Int : a = Unsigned(a, w) + k * w
<1>1. a % w \in 0..(w - 1) /\ a \div w \in Int /\ a = (a % w) + (a \div w) * w
  BY Remainder
<1> QED
  BY <1>1, Zenon DEF Unsigned

\* Two different remainders are not a multiple of the width apart.
LEMMA Apart ==
  ASSUME NEW w \in Nat \ {0}, NEW k \in Int, k # 0, NEW r \in 0..(w - 1), NEW q \in 0..(w - 1)
  PROVE  r # q + k * w
OBVIOUS

\* A remainder determines the number up to multiples of the width.
LEMMA UnsignedIs ==
  ASSUME NEW w \in Nat \ {0}, NEW a \in Int, NEW k \in Int, NEW r \in 0..(w - 1),
         a = r + k * w
  PROVE  Unsigned(a, w) = r
<1> DEFINE q == Unsigned(a, w)
<1>1. PICK n \in Int : a = q + n * w
  BY UnsignedType
<1>2. q \in 0..(w - 1)
  BY UnsignedType
<1> HIDE DEF q
<1>3. r = q + (n - k) * w
  BY <1>1, <1>2
<1>4. n - k = 0
  BY <1>2, <1>3, Apart
<1>5. r = q
  BY <1>2, <1>3, <1>4
<1> QED
  BY <1>5 DEF q

\* A multiple of the width adds nothing.
LEMMA UnsignedShift ==
  ASSUME NEW w \in Nat \ {0}, NEW a \in Int, NEW k \in Int
  PROVE  Unsigned(a + k * w, w) = Unsigned(a, w)
<1> DEFINE u == Unsigned(a, w)
<1>1. PICK n \in Int : a = u + n * w
  BY UnsignedType
<1>2. u \in 0..(w - 1)
  BY UnsignedType
<1> HIDE DEF u
<1>3. a + k * w = u + (n + k) * w
  BY <1>1, <1>2
<1>4. a + k * w \in Int /\ n + k \in Int
  OBVIOUS
<1>5. Unsigned(a + k * w, w) = u
  BY <1>2, <1>3, <1>4, UnsignedIs
<1> QED
  BY <1>5 DEF u

\* Nor does a conversion before the last one.
LEMMA UnsignedSum ==
  ASSUME NEW w \in Nat \ {0}, NEW a \in Int, NEW b \in Int
  PROVE  Unsigned(Unsigned(a, w) + b, w) = Unsigned(a + b, w)
<1> DEFINE u == Unsigned(a, w)
<1>1. PICK n \in Int : a = u + n * w
  BY UnsignedType
<1>2. u \in Int
  BY UnsignedType
<1> HIDE DEF u
<1>3. a + b = (u + b) + n * w
  BY <1>1, <1>2
<1>4. u + b \in Int
  BY <1>2
<1>5. Unsigned((u + b) + n * w, w) = Unsigned(u + b, w)
  BY <1>4, UnsignedShift
<1>6. Unsigned(u + b, w) = Unsigned(a + b, w)
  BY <1>3, <1>5
<1> QED
  BY <1>6 DEF u

LEMMA UnsignedProduct ==
  ASSUME NEW w \in Nat \ {0}, NEW a \in Int, NEW b \in Int, NEW d \in Int
  PROVE  Unsigned(b + Unsigned(a, w) * d, w) = Unsigned(b + a * d, w)
<1> DEFINE u == Unsigned(a, w)
<1>1. PICK n \in Int : a = u + n * w
  BY UnsignedType
<1>2. u \in Int
  BY UnsignedType
<1> HIDE DEF u
<1>3. b + a * d = (b + u * d) + (n * d) * w
  BY <1>1, <1>2
<1>4. b + u * d \in Int /\ n * d \in Int
  BY <1>2
<1>5. Unsigned((b + u * d) + (n * d) * w, w) = Unsigned(b + u * d, w)
  BY <1>4, UnsignedShift
<1>6. Unsigned(b + u * d, w) = Unsigned(b + a * d, w)
  BY <1>3, <1>5
<1> QED
  BY <1>6 DEF u

\* A number within the width is not changed.
LEMMA UnsignedSame ==
  ASSUME NEW w \in Nat \ {0}, NEW a \in 0..(w - 1)
  PROVE  Unsigned(a, w) = a
<1>1. a = a + 0 * w /\ a \in Int /\ 0 \in Int
  OBVIOUS
<1>2. ASSUME NEW x \in Int, x = a PROVE Unsigned(x, w) = a
  BY <1>1, <1>2, UnsignedIs
<1> QED
  BY <1>1, <1>2

\* The two widths and the counter.
LEMMA Widths ==
  /\ Limit \in Nat /\ Limit >= 2 /\ MaxBurst \in 1..(Limit - 1)
  /\ Word \in Nat \ {0} /\ Word = 2 * (Limit + 1)
  /\ Total \in Nat \ {0} /\ Total >= Word
<1>1. Limit \in Nat /\ Limit >= 2 /\ Word \in Nat \ {0} /\ Total \in Nat \ {0}
  BY CounterAssumption
<1>2. Total = Unsigned(Total, Word) + (Total \div Word) * Word /\ Unsigned(Total, Word) = 0
  BY <1>1, CounterAssumption DEF Unsigned
<1>3. Total \div Word \in Int /\ Total = (Total \div Word) * Word
  BY <1>1, <1>2
<1>4. ASSUME NEW k \in Int, k <= 0 PROVE k * Word <= 0
  BY <1>1, <1>4
<1>5. Total \div Word >= 1
  BY <1>1, <1>3, <1>4
<1>6. ASSUME NEW k \in Int, k >= 1 PROVE k * Word >= Word
  BY <1>1, <1>6
<1> QED
  BY <1>1, <1>3, <1>5, <1>6, CounterAssumption

-----------------------------------------------------------------------------
(* The count, the sum and the windows.                                     *)

CountType ==
  /\ count \in 0..(Limit - 1) /\ last \in 0..(Limit - 1)
  /\ fresh \in 0..MaxBurst
SumType == {flowFreq, lastFlow, lHour, pulses, resets} \subseteq 0..(Total - 1)
WindowType == window \in Windows /\ reported \in Windows
RestType == wrapped \in BOOLEAN /\ sincePass \in 0..MaxPass

CountInv == CountType /\ CountIsFresh
MeterInv == SumType /\ WindowType /\ DriftIsResets /\ WindowIsGrowth /\ WindowIsExact

LEMMA CountInit == Init => CountInv
<1> SUFFICES ASSUME Init PROVE CountInv
  OBVIOUS
<1>1. count \in 0..MaxBurst /\ last = count /\ fresh = 0
  BY DEF Init
<1>2. ~wrapped
  BY Zenon DEF Init
<1>3. QED
  BY <1>1, <1>2, Widths DEF CountInv, CountType, CountIsFresh

\* The counter is reset at most once between two polls.
LEMMA CountNext == CountInv /\ [Next]_vars => CountInv'
<1> SUFFICES ASSUME CountInv, [Next]_vars PROVE CountInv'
  OBVIOUS
<1> USE DEF CountInv, CountType, CountIsFresh
<1>1. CASE Pulse
  <2>1. /\ fresh < MaxBurst /\ fresh' = fresh + 1 /\ last' = last
        /\ count' = IF count + 1 = Limit THEN 0 ELSE count + 1
        /\ wrapped' = (wrapped \/ count + 1 = Limit)
    BY <1>1 DEF Pulse
  <2>2. CASE count + 1 = Limit
    <3>1. ~wrapped
      BY <2>1, <2>2, Widths
    <3>2. wrapped'
      BY <2>1, <2>2, Zenon
    <3>3. QED
      BY <2>1, <2>2, <3>1, <3>2, Widths
  <2>3. CASE count + 1 # Limit
    <3>1. wrapped' <=> wrapped
      BY <2>1, <2>3, Zenon
    <3>2. QED
      BY <2>1, <2>3, <3>1, Widths
  <2>4. QED
    BY <2>2, <2>3
<1>2. CASE Poll
  <2>1. last' = count /\ count' = count /\ fresh' = 0
    BY <1>2 DEF Poll, Accumulates
  <2>2. ~wrapped'
    BY <1>2, Zenon DEF Poll
  <2>3. QED
    BY <2>1, <2>2, Widths
<1>3. CASE Calc \/ Skip \/ Tick \/ UNCHANGED vars
  BY <1>3 DEF Calc, ClosesWindow, Skip, Tick, vars, sensorVars, histVars
<1>4. QED
  BY <1>1, <1>2, <1>3 DEF Next

\* What a poll adds to the sum: the pulses since the last one, and Word - Limit too much
\* if the counter was reset between the two.
LEMMA Difference ==
  ASSUME CountInv
  PROVE  Unsigned(count - last, Word) = fresh + (IF wrapped THEN Word - Limit ELSE 0)
<1> USE DEF CountInv, CountType, CountIsFresh
<1>1. CASE wrapped
  <2>1. /\ count - last \in Int /\ -1 \in Int /\ fresh + Word - Limit \in 0..(Word - 1)
        /\ count - last = (fresh + Word - Limit) + (-1) * Word
    BY <1>1, Widths
  <2>2. Unsigned(count - last, Word) = fresh + Word - Limit
    BY <2>1, UnsignedIs, Widths
  <2>3. QED
    BY <1>1, <2>2, Widths
<1>2. CASE ~wrapped
  <2>1. count - last = fresh /\ fresh \in 0..(Word - 1)
    BY <1>2, Widths
  <2>2. Unsigned(fresh, Word) = fresh
    BY <2>1, UnsignedSame, Widths
  <2>3. QED
    BY <1>2, <2>1, <2>2
<1>3. QED
  BY <1>1, <1>2

LEMMA MeterInit == Init => MeterInv
<1> SUFFICES ASSUME Init PROVE MeterInv
  OBVIOUS
<1>1. /\ count \in 0..MaxBurst /\ flowFreq = count /\ lastFlow = 0 /\ lHour = 0
      /\ pulses = count /\ resets = 0
      /\ window = [pulses |-> count, polls |-> 1, resets |-> 0] /\ reported = NoWindow
  BY DEF Init
<1>2. count \in 0..(Total - 1) /\ 0 \in 0..(Total - 1)
  BY <1>1, Widths
<1>3. Unsigned(count, Total) = count
  BY <1>2, UnsignedSame, Widths
<1>4. SumType /\ WindowType
  BY <1>1, <1>2 DEF SumType, WindowType, Windows, NoWindow
<1>5. pulses + resets * (Word - Limit) = count /\ lastFlow + window.pulses = count
  BY <1>1, <1>2, Widths
<1>6. DriftIsResets /\ WindowIsGrowth
  BY <1>1, <1>3, <1>5 DEF DriftIsResets, WindowIsGrowth
<1>7. WindowIsExact
  BY <1>1 DEF WindowIsExact, NoWindow
<1>8. QED
  BY <1>4, <1>6, <1>7 DEF MeterInv

LEMMA MeterPoll == MeterInv /\ CountInv /\ Poll => MeterInv'
<1> SUFFICES ASSUME MeterInv, CountInv, Poll PROVE MeterInv'
  OBVIOUS
<1> DEFINE d == IF wrapped THEN Word - Limit ELSE 0
           r == IF wrapped THEN 1 ELSE 0
<1>1. /\ flowFreq' = Unsigned(flowFreq + (fresh + d), Total)
      /\ pulses' = Unsigned(pulses + fresh, Total)
      /\ resets' = Unsigned(resets + r, Total)
      /\ window' = [pulses |-> Unsigned(window.pulses + fresh, Total),
                    polls  |-> 1,
                    resets |-> IF wrapped THEN 1 ELSE window.resets]
      /\ UNCHANGED <<lastFlow, lHour, reported>>
  BY Difference DEF Poll, Accumulates, coreVars
<1>2. /\ flowFreq \in Int /\ lastFlow \in Int /\ pulses \in Int /\ resets \in Int
      /\ fresh \in Int /\ window.pulses \in Int /\ window.resets \in {0, 1}
      /\ Word - Limit \in Int
  BY Widths DEF MeterInv, SumType, WindowType, Windows, CountInv, CountType
<1>3. d \in Int /\ r \in Int /\ d = r * (Word - Limit)
  BY <1>2
<1>4. /\ flowFreq' \in 0..(Total - 1) /\ pulses' \in 0..(Total - 1)
      /\ resets' \in 0..(Total - 1) /\ window'.pulses \in 0..(Total - 1)
  <2>1. /\ flowFreq + (fresh + d) \in Int /\ pulses + fresh \in Int
        /\ resets + r \in Int /\ window.pulses + fresh \in Int
    BY <1>2, <1>3
  <2> HIDE DEF d, r
  <2>2. ASSUME NEW x \in Int PROVE Unsigned(x, Total) \in 0..(Total - 1)
    BY UnsignedType, Widths
  <2>3. QED
    BY <1>1, <2>1, <2>2
<1>5. SumType' /\ WindowType'
  BY <1>1, <1>2, <1>4 DEF MeterInv, SumType, WindowType, Windows
<1>6. DriftIsResets'
  <2> DEFINE g == Word - Limit
             a == pulses + resets * g
             p == pulses + fresh
             q == resets + r
  <2>1. /\ a \in Int /\ p \in Int /\ q \in Int /\ g \in Int /\ q * g \in Int
        /\ p + q * g = a + (fresh + d)
    BY <1>2, <1>3
  <2>2. flowFreq = Unsigned(a, Total)
    BY DEF MeterInv, DriftIsResets
  <2>3. pulses' = Unsigned(p, Total) /\ resets' = Unsigned(q, Total)
    BY <1>1
  <2>4. fresh + d \in Int
    BY <1>2, <1>3
  <2> HIDE DEF a, p, q, g, d
  <2>5. flowFreq' = Unsigned(a + (fresh + d), Total)
    BY <1>1, <2>1, <2>2, <2>4, UnsignedSum, Widths
  <2>6. pulses' \in Int
    BY <1>4
  <2>7. Unsigned(pulses' + Unsigned(q, Total) * g, Total) = Unsigned(pulses' + q * g, Total)
    <3>1. ASSUME NEW b \in Int, NEW x \in Int, NEW y \in Int
          PROVE  Unsigned(b + Unsigned(x, Total) * y, Total) = Unsigned(b + x * y, Total)
      BY UnsignedProduct, Widths
    <3>2. QED
      BY <2>1, <2>6, <3>1, Zenon
  <2>8. Unsigned(Unsigned(p, Total) + q * g, Total) = Unsigned(p + q * g, Total)
    BY <2>1, UnsignedSum, Widths
  <2>9. Unsigned(pulses' + resets' * g, Total) = flowFreq'
    BY <2>1, <2>3, <2>5, <2>7, <2>8
  <2>10. QED
    BY <2>9 DEF DriftIsResets, g
<1>7. WindowIsGrowth'
  <2> SUFFICES ASSUME window'.resets = 0
               PROVE  flowFreq' = Unsigned(lastFlow + window'.pulses, Total)
    BY <1>1 DEF WindowIsGrowth
  <2> DEFINE p == window.pulses
  <2>1. ~wrapped /\ window.resets = 0
    BY <1>1
  <2>2. flowFreq = Unsigned(lastFlow + p, Total)
    BY <2>1 DEF MeterInv, WindowIsGrowth
  <2>3. flowFreq' = Unsigned(flowFreq + fresh, Total)
    BY <1>1, <1>2, <2>1
  <2>4. window'.pulses = Unsigned(p + fresh, Total)
    BY <1>1
  <2>5. p \in Int /\ lastFlow + p \in Int /\ p + fresh \in Int
    BY <1>2
  <2> HIDE DEF p
  <2>6. flowFreq' = Unsigned((lastFlow + p) + fresh, Total)
    BY ZenonT(40), <1>2, <2>2, <2>3, <2>5, UnsignedSum, Widths
  <2>7. Unsigned(Unsigned(p + fresh, Total) + lastFlow, Total) = Unsigned((p + fresh) + lastFlow, Total)
    BY ZenonT(40), <1>2, <2>5, UnsignedSum, Widths
  <2>8. /\ (p + fresh) + lastFlow = (lastFlow + p) + fresh
        /\ window'.pulses + lastFlow = lastFlow + window'.pulses
    BY <1>2, <1>4, <2>5
  <2>9. QED
    BY <2>4, <2>6, <2>7, <2>8
<1>8. WindowIsExact'
  BY <1>1 DEF MeterInv, WindowIsExact
<1>9. QED
  BY <1>5, <1>6, <1>7, <1>8 DEF MeterInv

LEMMA MeterCalc == MeterInv /\ Calc => MeterInv'
<1> SUFFICES ASSUME MeterInv, Calc PROVE MeterInv'
  OBVIOUS
<1>1. /\ lHour' = Unsigned(flowFreq - lastFlow, Total)
      /\ lastFlow' = flowFreq /\ reported' = window /\ window' = NoWindow
      /\ UNCHANGED <<flowFreq, pulses, resets>>
  BY DEF Calc, Measures, ClosesWindow, sensorVars
<1>2. /\ flowFreq \in 0..(Total - 1) /\ lastFlow \in Int
      /\ window.pulses \in 0..(Total - 1)
  BY Widths DEF MeterInv, SumType, WindowType, Windows
<1>3. lHour' \in 0..(Total - 1) /\ 0 \in 0..(Total - 1)
  BY <1>1, <1>2, UnsignedType, Widths
<1>4. SumType' /\ WindowType'
  BY <1>1, <1>2, <1>3 DEF MeterInv, SumType, WindowType, Windows, NoWindow
<1>5. DriftIsResets'
  BY <1>1 DEF MeterInv, DriftIsResets
<1>6. WindowIsGrowth'
  <2>1. flowFreq + 0 = flowFreq /\ Unsigned(flowFreq, Total) = flowFreq
    BY <1>2, UnsignedSame, Widths
  <2>2. QED
    BY <1>1, <2>1 DEF WindowIsGrowth, NoWindow
<1>7. WindowIsExact'
  <2> SUFFICES ASSUME window.resets = 0 PROVE lHour' = window.pulses
    BY <1>1 DEF WindowIsExact
  <2> DEFINE p == window.pulses
  <2>1. flowFreq = Unsigned(lastFlow + p, Total)
    BY DEF MeterInv, WindowIsGrowth
  <2>2. lastFlow + p \in Int /\ -lastFlow \in Int /\ p \in 0..(Total - 1)
    BY <1>2
  <2> HIDE DEF p
  <2>3. Unsigned(Unsigned(lastFlow + p, Total) + (-lastFlow), Total)
          = Unsigned((lastFlow + p) + (-lastFlow), Total)
    BY <2>2, UnsignedSum, Widths
  <2>4. (lastFlow + p) + (-lastFlow) = p /\ flowFreq + (-lastFlow) = flowFreq - lastFlow
    BY <1>2, <2>2
  <2>5. Unsigned(p, Total) = p
    BY <2>2, UnsignedSame, Widths
  <2>6. lHour' = p
    BY <1>1, <2>1, <2>3, <2>4, <2>5
  <2>7. QED
    BY <2>6 DEF p
<1>8. QED
  BY <1>4, <1>5, <1>6, <1>7 DEF MeterInv

LEMMA MeterNext == MeterInv /\ CountInv /\ [Next]_vars => MeterInv'
<1> SUFFICES ASSUME MeterInv, CountInv, [Next]_vars PROVE MeterInv'
  OBVIOUS
<1>1. CASE Pulse \/ Skip \/ Tick \/ UNCHANGED vars
  <2>1. UNCHANGED <<flowFreq, lastFlow, lHour, pulses, resets, window, reported>>
    BY <1>1 DEF Pulse, Skip, Tick, vars, sensorVars, coreVars, histVars
  <2>2. QED
    BY <2>1 DEF MeterInv, SumType, WindowType, DriftIsResets, WindowIsGrowth, WindowIsExact
<1>2. QED
  BY <1>1, MeterPoll, MeterCalc DEF Next

LEMMA RestInit == Init => RestType
<1> SUFFICES ASSUME Init PROVE RestType
  OBVIOUS
<1>1. wrapped \in BOOLEAN
  BY Zenon DEF Init
<1>2. sincePass \in 0..MaxPass
  BY TimeAssumption DEF Init
<1>3. QED
  BY <1>1, <1>2 DEF RestType

LEMMA RestNext == RestType /\ [Next]_vars => RestType'
<1> SUFFICES ASSUME RestType, [Next]_vars PROVE RestType'
  OBVIOUS
<1>1. wrapped' \in BOOLEAN
  <2>1. CASE Pulse \/ Poll
    BY <2>1, Zenon DEF Pulse, Poll
  <2>2. CASE ~(Pulse \/ Poll)
    BY <2>2 DEF Next, Calc, ClosesWindow, Skip, Tick, vars, histVars, RestType
  <2>3. QED
    BY <2>1, <2>2
<1>2. sincePass' \in 0..MaxPass
  BY TimeAssumption DEF RestType, Next, Pulse, Poll, Calc, Skip, Tick, vars, timeVars
<1>3. QED
  BY <1>1, <1>2 DEF RestType

-----------------------------------------------------------------------------

LEMMA WholeInv ==
  ClockInv /\ CountInv /\ MeterInv /\ RestType => FlowInv /\ DriftIsResets /\ WindowIsExact
BY DEF FlowInv, TypeOK, ClockInv, ClockType, CountInv, CountType, MeterInv, SumType,
       WindowType, RestType

\* The variables have their types, the clocks of the timer and of the loop keep the
\* distance on which the windows depend, the counter has moved by the fresh pulses and the
\* sum by those of the window.
THEOREM FlowInvariant == Spec => []FlowInv
BY WholeInv, ClockInit, ClockNext, CountInit, CountNext, MeterInit, MeterNext, RestInit,
   RestNext, PTL DEF Spec

\* Without a reset of the counter there is no drift.
LEMMA NoResetNoDrift ==
  ASSUME MeterInv, resets = 0
  PROVE  SumIsPulses
<1>1. flowFreq = Unsigned(pulses + 0 * (Word - Limit), Total)
  BY DEF MeterInv, DriftIsResets
<1>2. pulses \in 0..(Total - 1) /\ Total \in Nat \ {0}
  BY CounterAssumption DEF MeterInv, SumType
<1>3. 0 * (Word - Limit) = 0
  BY CounterAssumption
<1>4. Unsigned(pulses, Total) = pulses
  BY <1>2 DEF Unsigned
<1> QED
  BY <1>1, <1>2, <1>3, <1>4 DEF SumIsPulses

\* For counters of any width, any number of pulses between two polls short of the limit,
\* and any delay of the callback, the sum is the number of pulses polled as long as the
\* counter was not reset at its limit: no pulse is lost or counted twice between two
\* polls, and the reset is the only thing wrong with the sum (osj_sensor.c line 37).
THEOREM SumIsPulsesUntilReset == Spec => [](resets = 0 => SumIsPulses)
<1>1. MeterInv => (resets = 0 => SumIsPulses)
  BY NoResetNoDrift
<1> QED
  BY <1>1, WholeInv, ClockInit, ClockNext, CountInit, CountNext, MeterInit, MeterNext,
     RestInit, RestNext, PTL DEF Spec

\* What the loop reports of a window in which the counter was not reset is exactly its
\* pulses, wherever the sum wraps around (laundry_core.c lines 293-302).
THEOREM WindowsAreExact == Spec => []WindowIsExact
BY WholeInv, ClockInit, ClockNext, CountInit, CountNext, MeterInit, MeterNext, RestInit,
   RestNext, PTL DEF Spec
=============================================================================

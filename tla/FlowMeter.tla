----------------------------- MODULE FlowMeter -----------------------------
(***************************************************************************)
(* The flow of one channel: the hardware pulse counter, the timer callback *)
(* that accumulates it (osj_sensor.c) and the window in which the          *)
(* detection loop turns it into lHour (laundry_core.c, lines 288-302).     *)
(* The callback and the loop treat the two channels alike and              *)
(* independently, so one is enough.                                        *)
(*                                                                         *)
(* Time is counted in clock units.  The timer expires every Period units;  *)
(* its callback runs in the timer task, up to MaxLate units late.  The     *)
(* loop makes a pass at least every MaxPass units.  The time stamp         *)
(* lastFlowCalcTime is kept as its distance to now, capped at Window.      *)
(* lHour is kept in pulses: the code multiplies by 60 / 7.5 = 8.           *)
(***************************************************************************)
EXTENDS Integers

CONSTANTS
  Limit,     \* high_limit of the counter, 32767 (2^15 - 1)
  Word,      \* 2^16, the width of a difference
  Total,     \* 2^32, the width of flow_freq and lastFlow
  Period,    \* of the poll timer, 1000 ms
  Window,    \* the least length of a window, 1000 ms
  MaxLate,   \* delay of the callback
  MaxPass,   \* time between two passes of the loop
  MaxBurst   \* pulses between two polls

ASSUME CounterAssumption ==
  /\ Limit \in Nat /\ Word = 2 * (Limit + 1) /\ Total \in Nat \ {0} /\ Total % Word = 0
  /\ MaxBurst \in 1..(Limit - 1)
ASSUME TimeAssumption ==
  /\ Period \in Nat \ {0} /\ Window \in Nat /\ Window >= Period
  /\ MaxLate \in 0..(Period - 1) /\ MaxPass \in Nat \ {0}

VARIABLES
  count,      \* the hardware counter
  last,       \* last_count_<n>
  flowFreq,   \* flow_freq_<n>
  lastFlow,   \* lastFlow<n>
  lHour,      \* lHour<n>, in pulses
  sinceCalc,  \* now - lastFlowCalcTime
  toExpiry,   \* time to the timer's next expiry
  late,       \* time since an expiry whose callback has not run, -1 if none
  sincePass,  \* time since the loop's last pass
  \* history: what the meter should know
  fresh,      \* pulses since the last poll
  pulses,     \* pulses up to the last poll
  resets,     \* how often the counter was reset at its limit, up to the last poll
  wrapped,    \* the counter was reset since the last poll
  window,     \* of the current window: pulses polled, polls and resets in them
  reported,   \* "window" as it was when lHour was last computed
  blind       \* how many windows in a row held no poll, up to 2

sensorVars == <<count, last, flowFreq>>
coreVars   == <<lastFlow, lHour, sinceCalc>>
timeVars   == <<toExpiry, late, sincePass>>
histVars   == <<fresh, pulses, resets, wrapped, window, reported, blind>>
vars       == <<sensorVars, coreVars, timeVars, histVars>>

NotConverted(n, width) == n       \* mutant: signed arithmetic
\* A conversion to an unsigned integer of this width.
Unsigned(n, width) == n % width
NoWindow == [pulses |-> 0, polls |-> 0, resets |-> 0]
Windows  == [pulses : 0..(Total - 1), polls : {0, 1}, resets : {0, 1}]

\* The loop starts after the boot has waited for the clock for 2 s or more
\* (main.c, lines 43-46), so the timer has polled, and pulses may have been counted.
Init ==
  /\ count \in 0..MaxBurst /\ last = count /\ flowFreq = count
  /\ lastFlow = 0 /\ lHour = 0 /\ sinceCalc = Window   \* the stamp is 0, boot takes longer
  /\ toExpiry \in 1..Period /\ late = -1 /\ sincePass = 0
  /\ fresh = 0 /\ pulses = count /\ resets = 0 /\ wrapped = FALSE
  /\ window = [pulses |-> count, polls |-> 1, resets |-> 0] /\ reported = NoWindow /\ blind = 0

\* A pulse on the input; the hardware restarts from 0 at the limit.
Pulse ==
  /\ fresh < MaxBurst
  /\ count' = IF count + 1 = Limit THEN 0 ELSE count + 1
  /\ wrapped' = (wrapped \/ count + 1 = Limit)
  /\ fresh' = fresh + 1
  /\ UNCHANGED <<last, flowFreq, coreVars, timeVars, pulses, resets, window, reported, blind>>

Accumulates ==
  /\ flowFreq' = Unsigned(flowFreq + Unsigned(count - last, Word), Total)
  /\ last' = count

\* pcnt_poll_timer_cb.
Poll ==
  /\ late # -1
  /\ late' = -1
  /\ Accumulates
  /\ pulses' = Unsigned(pulses + fresh, Total)
  /\ resets' = Unsigned(resets + (IF wrapped THEN 1 ELSE 0), Total)
  /\ window' = [pulses |-> Unsigned(window.pulses + fresh, Total),
                polls  |-> 1,
                resets |-> IF wrapped THEN 1 ELSE window.resets]
  /\ fresh' = 0
  /\ wrapped' = FALSE
  /\ UNCHANGED <<count, coreVars, toExpiry, sincePass, reported, blind>>

\* What a computed window leaves to the history.
ClosesWindow ==
  /\ reported' = window
  /\ window' = NoWindow
  /\ blind' = IF window.polls > 0 THEN 0 ELSE IF blind < 2 THEN blind + 1 ELSE 2
  /\ UNCHANGED <<sensorVars, toExpiry, late, fresh, pulses, resets, wrapped>>

CompleteAlways == TRUE                      \* mutant: every pass closes a window
WindowComplete == sinceCalc >= Window

MeasuresOnly == /\ lHour' = Unsigned(flowFreq - lastFlow, Total)
                /\ UNCHANGED lastFlow         \* mutant: lastFlow is not updated
Measures == /\ lHour' = Unsigned(flowFreq - lastFlow, Total)
            /\ lastFlow' = flowFreq

\* A pass of the loop that finds the window complete.
Calc ==
  /\ WindowComplete
  /\ Measures
  /\ sinceCalc' = 0
  /\ sincePass' = 0
  /\ ClosesWindow

\* A pass that does not.
Skip ==
  /\ ~WindowComplete
  /\ sincePass' = 0
  /\ UNCHANGED <<sensorVars, coreVars, toExpiry, late, histVars>>

\* The clock advances; the timer reloads itself whether its callback ran or not.
Tick ==
  /\ late < MaxLate
  /\ sincePass < MaxPass
  /\ sincePass' = sincePass + 1
  /\ sinceCalc' = IF sinceCalc < Window THEN sinceCalc + 1 ELSE Window
  /\ IF toExpiry = 1
     THEN late = -1 /\ late' = 0 /\ toExpiry' = Period
     ELSE late' = (IF late = -1 THEN -1 ELSE late + 1) /\ toExpiry' = toExpiry - 1
  /\ UNCHANGED <<sensorVars, lastFlow, lHour, histVars>>

Next == Pulse \/ Poll \/ Calc \/ Skip \/ Tick

Spec == Init /\ [][Next]_vars

-----------------------------------------------------------------------------
TypeOK ==
  /\ count \in 0..(Limit - 1) /\ last \in 0..(Limit - 1)
  /\ {flowFreq, lastFlow, lHour, pulses, resets} \subseteq 0..(Total - 1)
  /\ {window, reported} \subseteq Windows
  /\ sinceCalc \in 0..Window /\ toExpiry \in 1..Period
  /\ late \in -1..MaxLate /\ sincePass \in 0..MaxPass
  /\ fresh \in 0..MaxBurst /\ blind \in 0..2 /\ wrapped \in BOOLEAN

\* "@return" of osj_sensor_get_flow in osj_sensor.h, line 21: the accumulated number of
\* flow pulses.  The code takes the counter's reset at Limit for a wrap at Word (line 37),
\* so this is violated.
SumIsPulses == flowFreq = pulses

\* A window in which the counter was not reset is reported with exactly its
\* pulses, also when flow_freq wrapped around between its two ends (lines 293-302).
WindowIsExact == reported.resets = 0 => lHour = reported.pulses

\* Poll timer and window have the same period, so a window may miss the poll that
\* belongs to it; the next one does not.
NoTwoBlindWindows == blind < 2

-----------------------------------------------------------------------------
(* The inductive strengthenings.                                           *)

\* How far the sum is from SumIsPulses.
DriftIsResets == flowFreq = Unsigned(pulses + resets * (Word - Limit), Total)

\* A window without a poll is no older than the timer's last expiry, if the
\* callback of that one is not due.
NoPollNoExpiry == window.polls = 0 /\ late = -1 => sinceCalc <= Period - toExpiry

\* The window after a blind one begins with a callback that is due.
BlindIsLate == blind > 0 /\ window.polls = 0 => late # -1 /\ sinceCalc <= late

\* Since the last poll the counter has moved by the fresh pulses, less its limit
\* if it was reset.
CountIsFresh == count = last + fresh - (IF wrapped THEN Limit ELSE 0)

\* Since the window began the sum has grown by the window's pulses, unless the
\* counter was reset in it.
WindowIsGrowth ==
  window.resets = 0 => flowFreq = Unsigned(lastFlow + window.pulses, Total)

FlowInv == TypeOK /\ NoPollNoExpiry /\ BlindIsLate /\ CountIsFresh /\ WindowIsGrowth
=============================================================================

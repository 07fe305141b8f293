---------------------------- MODULE LaundryCore ----------------------------
(***************************************************************************)
(* The detection loop of components/laundry_core/laundry_core.c: one       *)
(* FreeRTOS task that, every pass, samples the sensors and the mode pins   *)
(* of all channels and then judges the channels one after the other.       *)
(*                                                                         *)
(* Abstractions.                                                           *)
(*  - A measured value is the side of the hysteresis band it falls on:     *)
(*    "low" is below (threshold - margin), "high" is above                 *)
(*    (threshold + margin), "mid" is neither.  The threshold is that of    *)
(*    the mode of this pass.  Flow has no margin, water is a switch.       *)
(*  - The code only ever looks at a stored millis() through its distance   *)
(*    to now, so the model keeps the distance (sinceEnd, sinceSe), counted *)
(*    in clock units and capped at Horizon, above every delay compared     *)
(*    with it.  The clock is monotone, so the code's guard                 *)
(*    "*prevMillisEnd > millis()" is never taken.                          *)
(*  - A send on the websocket can block the task for seconds, so Tick may  *)
(*    come between any two steps.  Inside a judgement the one place where  *)
(*    it matters is between the stamp of line 192 and its test on line     *)
(*    227, with the log lines sent in between: "stalls" says that they     *)
(*    take at least the debounce time; the ages then grow by Tick, after   *)
(*    the judgement.                                                       *)
(***************************************************************************)
EXTENDS Integers, Sequences, FiniteSets

CONSTANTS
  LastCh,     \* number of channels, two on the board
  EndDelay,   \* ch<n>EndDelayW and ch<n>EndDelayD, per channel and mode
  Debounce,   \* the 500 ms of line 227
  Horizon,    \* cap of every age
  Readings,   \* the sensor readings the environment may produce
  MaxLogKey   \* cap of the log line counter

Channels == 1..LastCh
Modes    == {"wash", "dry"}
Signals  == {"C", "F", "W"}             \* current, flow, water
Levels   == {"low", "mid", "high"}

ASSUME ChannelsAssumption == LastCh \in Nat \ {0}
ASSUME DelayAssumption ==
  /\ Debounce \in Nat \ {0}
  /\ Horizon \in Nat
  /\ EndDelay \in [Channels -> [Modes -> Nat]]
  /\ \A ch \in Channels : /\ Debounce <= EndDelay[ch]["wash"]
                          /\ \A mode \in Modes : EndDelay[ch][mode] <= Horizon
ASSUME ReadingsAssumption == Readings \subseteq {r \in [Signals -> Levels] : r["W"] # "mid"}
ASSUME LogKeyAssumption == MaxLogKey \in Nat \ {0}

VARIABLES
  pc,          \* 0: in vTaskDelay; ch: about to judge channel ch
  sample,      \* this pass: mode and level of every signal, do sends stall?
  cnt,         \* ch<n>Cnt: 1 while no cycle is running
  m,           \* m<n>: 1 if the last judgement found the machine in use
  sinceEnd,    \* millis() - previousMillisEnd<n>
  seCnt,       \* seCnt<n>: 1 while the washer debounce is armed
  sinceSe,     \* millis() - sePrevMillis<n>
  logFlag,     \* jsonLogFlag<n>
  flags,       \* jsonLogFlag<n>C, F and W
  logCnt,      \* jsonLogCnt<n>
  currStatus,  \* ch<n>CurrStatus: 0 working, 1 not working
  led,         \* the channel's LED
  sent         \* what the last judgement handed to osj_websocket

cycleVars == <<cnt, m, sinceEnd, seCnt, sinceSe>>
logVars   == <<logFlag, flags, logCnt>>
outVars   == <<currStatus, led, sent>>
vars      == <<pc, sample, cycleVars, logVars, outVars>>

Capped(n, max) == IF n > max THEN max ELSE n

Entry(s, state, key) == [kind |-> "ENTRY", signal |-> s, state |-> state, key |-> key]
StartLog             == [kind |-> "START"]
EndLog               == [kind |-> "END"]
StatusInverted(state, mode) ==          \* mutant: 1 for working
  [kind |-> "STATUS", state |-> 1 - state, device |-> mode]
Status(state, mode)  == [kind |-> "STATUS", state |-> state, device |-> mode]
Messages ==
       [kind : {"ENTRY"}, signal : Signals, state : {0, 1}, key : 1..MaxLogKey]
  \cup [kind : {"START", "END"}]
  \cup [kind : {"STATUS"}, state : {0, 1}, device : Modes]

-----------------------------------------------------------------------------
(* One judgement, read against the sample of this pass.                    *)

Mode(ch)     == sample[ch].mode
Level(ch, s) == sample[ch].level[s]
Washing(ch)  == Mode(ch) = "wash"

\* Any signal above its band; every signal below it.
AnyHigh(ch) == \E s \in Signals : Level(ch, s) = "high"
AllLow(ch)  == \A s \in Signals : Level(ch, s) = "low"

\* The washer's debounce: armed by any high signal, disarmed by silence.
ArmsAlways(ch)   == Washing(ch) /\ AnyHigh(ch)      \* mutant: stamps at every judgement
Arms(ch)     == Washing(ch) /\ seCnt[ch] = 0 /\ AnyHigh(ch)
DisarmsNever(ch) == FALSE                           \* mutant: no else branch
Disarms(ch)  == Washing(ch) /\ seCnt[ch] = 1 /\ AllLow(ch)
Armed(ch)    == IF Arms(ch) THEN 1 ELSE IF Disarms(ch) THEN 0 ELSE seCnt[ch]
ArmedForUnstamped(ch) == sinceSe[ch]                \* mutant: no new stamp
ArmedFor(ch) == IF Arms(ch) THEN 0 ELSE sinceSe[ch]

\* The signals whose change is logged: all of a washer, a dryer's current.
Logged(ch)  == IF Washing(ch) THEN Signals ELSE {"C"}
ChangedUnguarded(ch) == {s \in Logged(ch) :          \* mutant: without a log open
                  \/ Level(ch, s) = "high" /\ flags[ch][s] = 0
                  \/ Level(ch, s) = "low"  /\ flags[ch][s] = 1}
Changed(ch) == {s \in Logged(ch) :
                  /\ logFlag[ch]
                  /\ \/ Level(ch, s) = "high" /\ flags[ch][s] = 0
                     \/ Level(ch, s) = "low"  /\ flags[ch][s] = 1}

\* A washer is in use once armed for the debounce time, a dryer as soon as
\* it draws current.
Stalls(ch) == sample[ch].stalls /\ Changed(ch) # {}
InUse(ch) == \/ Washing(ch)  /\ Armed(ch) = 1 /\ (ArmedFor(ch) >= Debounce \/ Stalls(ch))
             \/ ~Washing(ch) /\ Level(ch, "C") = "high"

\* The code tests C, then F, then W, and numbers the lines as it sends them.
Before(s) == CASE s = "C" -> {} [] s = "F" -> {"C"} [] s = "W" -> {"C", "F"}
LogKey(ch, n) == Capped(logCnt[ch] + n, MaxLogKey)
EntryFor(ch, s) ==
  IF s \in Changed(ch)
  THEN <<Entry(s, 1 - flags[ch][s], LogKey(ch, Cardinality(Changed(ch) \cap Before(s))))>>
  ELSE <<>>
Entries(ch) == EntryFor(ch, "C") \o EntryFor(ch, "F") \o EntryFor(ch, "W")

-----------------------------------------------------------------------------
Init ==
  /\ pc = 0
  /\ sample = [ch \in Channels |->
       [mode |-> "dry", level |-> [s \in Signals |-> "low"], stalls |-> FALSE]]
  /\ cnt = [ch \in Channels |-> 1]
  /\ m = [ch \in Channels |-> 0]
  /\ sinceEnd \in {[ch \in Channels |-> age] : age \in 0..Horizon}
  /\ seCnt = [ch \in Channels |-> 0]
  /\ sinceSe = sinceEnd                  \* both stamps are 0: the time since boot
  /\ logFlag = [ch \in Channels |-> FALSE]
  /\ flags = [ch \in Channels |-> [s \in Signals |-> 0]]
  /\ logCnt = [ch \in Channels |-> 1]
  /\ currStatus = [ch \in Channels |-> 1]
  /\ led = [ch \in Channels |-> FALSE]
  /\ sent = [ch \in Channels |-> <<>>]

\* Top of a pass: the readings and the mode pins of all channels.
Sample ==
  /\ pc = 0
  /\ pc' = 1
  /\ sample' \in [Channels -> [mode : Modes, level : Readings, stalls : BOOLEAN]]
  /\ sent' = [ch \in Channels |-> <<>>]
  /\ UNCHANGED <<cycleVars, logVars, currStatus, led>>

\* What every judgement of a channel does before it decides on the cycle.
Judged(ch) ==
  /\ pc = ch
  /\ pc' = IF ch = LastCh THEN 0 ELSE ch + 1
  /\ sinceSe' = [sinceSe EXCEPT ![ch] = ArmedFor(ch)]
  /\ UNCHANGED sample

Debounces(ch) == seCnt' = [seCnt EXCEPT ![ch] = Armed(ch)]

FlipsFlags(ch) == flags' = [flags EXCEPT ![ch] =
  [s \in Signals |-> IF s \in Changed(ch) THEN 1 - @[s] ELSE @[s]]]

CountsOnce(ch) ==                 \* mutant: one increment for all lines
  logCnt' = [logCnt EXCEPT ![ch] = LogKey(ch, IF Changed(ch) = {} THEN 0 ELSE 1)]
CountsLines(ch) ==
  logCnt' = [logCnt EXCEPT ![ch] = LogKey(ch, Cardinality(Changed(ch)))]

\* A judgement that neither starts nor ends a cycle.
Reports(ch) ==
  /\ Debounces(ch)
  /\ FlipsFlags(ch)
  /\ CountsLines(ch)
  /\ sent' = [sent EXCEPT ![ch] = Entries(ch)]
  /\ UNCHANGED <<cnt, logFlag, currStatus, led>>

MarksLate(ch)  == m' = [m EXCEPT ![ch] = IF cnt[ch] = 1 THEN @ ELSE 1]  \* mutant: not by a start
MarksUse(ch)   == m' = [m EXCEPT ![ch] = 1]

StampsEnd(ch) == sinceEnd' = [sinceEnd EXCEPT ![ch] = 0]

\* The end delay of the mode of this pass has run out.
OtherMode(ch) == IF Washing(ch) THEN "dry" ELSE "wash"
EndDelayOverOfOther(ch) == sinceEnd[ch] >= EndDelay[ch][OtherMode(ch)]  \* mutant: the other mode's
EndDelayOver(ch) == sinceEnd[ch] >= EndDelay[ch][Mode(ch)]

\* A machine comes into use: the cycle starts, and a washer must be
\* debounced again from scratch.
Start(ch) ==
  /\ Judged(ch)
  /\ InUse(ch)
  /\ cnt[ch] = 1
  /\ cnt' = [cnt EXCEPT ![ch] = 0]
  /\ MarksUse(ch)
  /\ seCnt' = [seCnt EXCEPT ![ch] = IF Washing(ch) THEN 0 ELSE @]
  /\ FlipsFlags(ch)
  /\ logCnt' = [logCnt EXCEPT ![ch] = 1]
  /\ logFlag' = [logFlag EXCEPT ![ch] = TRUE]
  /\ currStatus' = [currStatus EXCEPT ![ch] = 0]
  /\ led' = [led EXCEPT ![ch] = TRUE]
  /\ sent' = [sent EXCEPT ![ch] = Entries(ch) \o <<StartLog, Status(0, Mode(ch))>>]
  /\ UNCHANGED sinceEnd

Keep(ch) ==
  /\ Judged(ch)
  /\ InUse(ch)
  /\ cnt[ch] = 0
  /\ MarksUse(ch)
  /\ Reports(ch)
  /\ UNCHANGED sinceEnd

\* First judgement not in use: the end delay begins to run.
Settle(ch) ==
  /\ Judged(ch)
  /\ ~InUse(ch)
  /\ m[ch] = 1
  /\ m' = [m EXCEPT ![ch] = 0]
  /\ StampsEnd(ch)
  /\ Reports(ch)

\* No cycle to end, or its end delay has not run out.
Wait(ch) ==
  /\ Judged(ch)
  /\ ~InUse(ch)
  /\ m[ch] = 0
  /\ cnt[ch] = 1 \/ ~EndDelayOver(ch)
  /\ Reports(ch)
  /\ UNCHANGED <<m, sinceEnd>>

\* The end delay has run out.  A washer forgets all its log flags, a dryer
\* only that of the current.
End(ch) ==
  /\ Judged(ch)
  /\ ~InUse(ch)
  /\ m[ch] = 0
  /\ cnt[ch] = 0
  /\ EndDelayOver(ch)
  /\ cnt' = [cnt EXCEPT ![ch] = 1]
  /\ Debounces(ch)
  /\ flags' = [flags EXCEPT ![ch] = [s \in Signals |-> IF s \in Logged(ch) THEN 0 ELSE @[s]]]
  /\ CountsLines(ch)
  /\ logFlag' = [logFlag EXCEPT ![ch] = FALSE]
  /\ currStatus' = [currStatus EXCEPT ![ch] = 1]
  /\ led' = [led EXCEPT ![ch] = FALSE]
  /\ sent' = [sent EXCEPT ![ch] = Entries(ch) \o <<EndLog, Status(1, Mode(ch))>>]
  /\ UNCHANGED <<m, sinceEnd>>

Judge(ch) == Start(ch) \/ Keep(ch) \/ Settle(ch) \/ Wait(ch) \/ End(ch)

\* The clock advances by one unit.
Tick ==
  /\ sinceEnd' = [ch \in Channels |-> Capped(sinceEnd[ch] + 1, Horizon)]
  /\ sinceSe'  = [ch \in Channels |-> Capped(sinceSe[ch] + 1, Horizon)]
  /\ UNCHANGED <<pc, sample, cnt, m, seCnt, logVars, outVars>>

Next == Sample \/ (\E ch \in Channels : Judge(ch)) \/ Tick

Spec == Init /\ [][Next]_vars

\* The task is never blocked for ever (vTaskDelay ends, a send times out)
\* and the clock runs.
Fairness == /\ WF_vars(Sample)
            /\ \A ch \in Channels : WF_vars(Judge(ch))
            /\ WF_vars(Tick)
FairSpec == Spec /\ Fairness

-----------------------------------------------------------------------------
\* Every variable has its type.
TypeOK ==
  /\ pc \in 0..LastCh
  /\ sample \in [Channels ->
       [mode : Modes, level : [Signals -> Levels], stalls : BOOLEAN]]
  /\ cnt \in [Channels -> {0, 1}]
  /\ m \in [Channels -> {0, 1}]
  /\ sinceEnd \in [Channels -> 0..Horizon]
  /\ seCnt \in [Channels -> {0, 1}]
  /\ sinceSe \in [Channels -> 0..Horizon]
  /\ logFlag \in [Channels -> BOOLEAN]
  /\ flags \in [Channels -> [Signals -> {0, 1}]]
  /\ logCnt \in [Channels -> 1..MaxLogKey]
  /\ currStatus \in [Channels -> {0, 1}]
  /\ led \in [Channels -> BOOLEAN]
  /\ sent \in [Channels -> Seq(Messages)]

\* The flags that say that a cycle is running agree (set together in lines
\* 129-167 and 229-261, each on its own).
OutputsAgree == \A ch \in Channels :
  /\ logFlag[ch] <=> cnt[ch] = 0
  /\ led[ch] <=> cnt[ch] = 0
  /\ currStatus[ch] = cnt[ch]

\* A machine whose readings stay silent is shown not working for good, in
\* whatever mode its pin says each pass: no stale flag keeps a finished cycle
\* open (lines 149-167 and 241-261).
Silent(ch) == IF Washing(ch) THEN AllLow(ch) ELSE Level(ch, "C") # "high"
SilenceEnds == \A ch \in Channels : <>[]Silent(ch) => <>[](cnt[ch] = 1)

\* A machine whose readings stay high is shown working for good: it starts, and
\* the debounce cleared by its start does not end it (lines 129-148 and 227-240).
Busy(ch) == IF Washing(ch) THEN AnyHigh(ch) ELSE Level(ch, "C") = "high"
UseIsShown == \A ch \in Channels : <>[]Busy(ch) => <>[](cnt[ch] = 0)
=============================================================================

--------------------------- MODULE LaundryTiming ---------------------------
(***************************************************************************)
(* LaundryCore observed over time.  The history variables below are set by *)
(* no code; they remember of the judgements what the timing properties     *)
(* compare a START and an END with.                                        *)
(***************************************************************************)
EXTENDS LaundryCore

VARIABLES
  quietFor,   \* time since a judgement found the machine in use
  silentFor,  \* time since a washer judgement read every signal low
  heldFor     \* time since the first of an unbroken run of washer judgements
              \* that read a high signal, -1 if the last was not one

histVars == <<quietFor, silentFor, heldFor>>
tvars    == <<vars, histVars>>

TInit ==
  /\ Init
  /\ quietFor = [ch \in Channels |-> Horizon]
  /\ silentFor = [ch \in Channels |-> Horizon]
  /\ heldFor = [ch \in Channels |-> -1]

TSample == Sample /\ UNCHANGED histVars

TJudge(ch) ==
  /\ Judge(ch)
  /\ quietFor' = [quietFor EXCEPT ![ch] = IF InUse(ch) THEN 0 ELSE @]
  /\ silentFor' = [silentFor EXCEPT ![ch] = IF Washing(ch) /\ AllLow(ch) THEN 0 ELSE @]
  /\ heldFor' = [heldFor EXCEPT ![ch] =
       IF ~(Washing(ch) /\ AnyHigh(ch)) THEN -1 ELSE IF @ = -1 THEN 0 ELSE @]

TTick ==
  /\ Tick
  /\ quietFor' = [ch \in Channels |-> Capped(quietFor[ch] + 1, Horizon)]
  /\ silentFor' = [ch \in Channels |-> Capped(silentFor[ch] + 1, Horizon)]
  /\ heldFor' = [ch \in Channels |->
       IF heldFor[ch] = -1 THEN -1 ELSE Capped(heldFor[ch] + 1, Horizon)]

TNext == TSample \/ (\E ch \in Channels : TJudge(ch)) \/ TTick

TSpec == TInit /\ [][TNext]_tvars

\* LaundryCore's Fairness, of the observed actions.
TFairness == /\ WF_tvars(TSample)
             /\ \A ch \in Channels : WF_tvars(TJudge(ch))
             /\ WF_tvars(TTick)
TFairSpec == TSpec /\ TFairness

Starts(ch) == cnt[ch] = 1 /\ cnt'[ch] = 0
Ends(ch)   == cnt[ch] = 0 /\ cnt'[ch] = 1

-----------------------------------------------------------------------------
\* The history variables have their types, and LaundryCore's have theirs.
TTypeOK ==
  /\ TypeOK
  /\ quietFor \in [Channels -> 0..Horizon]
  /\ silentFor \in [Channels -> 0..Horizon]
  /\ heldFor \in [Channels -> -1..Horizon]

\* A washer whose signals have been high, at every judgement, for the debounce
\* time is never reported as ended, although StatusJudgment clears the debounce
\* when it starts a cycle (line 233) and so sees the machine as out of use, and
\* lets the end delay run, while it debounces again.
NoEndWhileHigh == [][\A ch \in Channels :
  Ends(ch) /\ heldFor'[ch] # -1 => heldFor'[ch] < Debounce]_tvars

\* A washer cycle is reported only when no washer judgement of the last debounce
\* time read every signal low: the glitch that a pulse on one sensor makes does
\* not start a cycle (lines 190-195 and 227).
NoGlitchStart == [][\A ch \in Channels :
  Starts(ch) /\ Washing(ch) => silentFor'[ch] >= Debounce]_tvars

\* The detection loop implements the contract: a machine shown working stays so
\* until it has been out of use for the end delay of the mode its pin says in
\* that pass, across changes of mode and whatever delays a pass of the loop
\* (lines 149-167 and 241-261, mode read on line 312).
Contract == INSTANCE CycleContract
  WITH working <- [ch \in Channels |-> currStatus[ch] = 0],
       idleFor <- quietFor,
       mode    <- [ch \in Channels |-> Mode(ch)]
ContractSpec == Contract!Spec

-----------------------------------------------------------------------------
(* The inductive strengthening.                                            *)

\* The end delay has not run for longer than the machine was out of use.
EndDelayRuns == \A ch \in Channels :
  cnt[ch] = 0 => m[ch] = 1 \/ sinceEnd[ch] <= quietFor[ch]

\* An armed debounce has been armed no longer than the last silence.
ArmedAfterSilence == \A ch \in Channels :
  seCnt[ch] = 1 => sinceSe[ch] <= silentFor[ch]

\* While the signals are held high, the debounce has been armed at least as long
\* (first case), or it was cleared by a START, and then the end delay runs only
\* behind the debounce (second and third).
HeldIsArmed == \A ch \in Channels : heldFor[ch] # -1 =>
  \/ seCnt[ch] = 1 /\ heldFor[ch] <= sinceSe[ch]
  \/ seCnt[ch] = 0 /\ cnt[ch] = 0 /\ m[ch] = 1
  \/ seCnt[ch] = 1 /\ cnt[ch] = 0 /\ (m[ch] = 1 \/ sinceEnd[ch] <= sinceSe[ch])

TInv == /\ TTypeOK
        /\ OutputsAgree
        /\ EndDelayRuns
        /\ ArmedAfterSilence
        /\ HeldIsArmed
=============================================================================

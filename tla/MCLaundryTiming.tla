-------------------------- MODULE MCLaundryTiming --------------------------
(* Small instances of LaundryTiming: delays of a few clock units, with the  *)
(* order the code's defaults have (500 ms <= 10 s <= 100 s).                *)
EXTENDS LaundryTiming

MCEndDelay == [ch \in Channels |-> [mode \in Modes |-> IF mode = "wash" THEN 3 ELSE 2]]

\* Time depends on the signals only through "one is high" and "all are low": the
\* current takes every level, flow and drain are not high together and the flow
\* is not inside its hysteresis band.
TimedReadings == {r \in [Signals -> Levels] :
  r["W"] # "mid" /\ r["F"] # "mid" /\ "low" \in {r["W"], r["F"]}}
=============================================================================

------------------------- MODULE MCLaundryMessages -------------------------
(* A small instance of LaundryMessages. *)
EXTENDS LaundryMessages

MCEndDelay == [ch \in Channels |-> [mode \in Modes |-> 1]]

\* Silence; the drain with the current inside its hysteresis band, or above it: a
\* judgement logs up to two lines, and an END finds flags up and flags down.
R(c, f, w) == [s \in Signals |-> CASE s = "C" -> c [] s = "F" -> f [] s = "W" -> w]
SomeReadings == {R("low", "low", "low"), R("mid", "low", "high"), R("high", "low", "high")}
=============================================================================

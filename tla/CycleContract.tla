--------------------------- MODULE CycleContract ---------------------------
(***************************************************************************)
(* What a user of the board is promised about a machine: it is shown       *)
(* working or not working, its mode pin says whether it is judged as a     *)
(* washer or as a dryer, and a working machine is shown not working again  *)
(* only after it has been out of use for the end delay of the mode it is   *)
(* then judged by.                                                         *)
(***************************************************************************)
EXTENDS Integers

CONSTANTS Channels, Modes, EndDelay, Horizon

VARIABLES working,   \* per channel: is it shown working?
          idleFor,   \* per channel: time since it was last seen in use
          mode       \* per channel: the mode it is judged by

cvars == <<working, idleFor, mode>>

Init == /\ working = [ch \in Channels |-> FALSE]
        /\ idleFor \in [Channels -> 0..Horizon]
        /\ mode \in [Channels -> Modes]

\* The mode pins are read.
Switch == /\ mode' \in [Channels -> Modes]
          /\ UNCHANGED <<working, idleFor>>

\* The machine is seen in use, which may begin a cycle.
Use(ch) == /\ working' \in {working, [working EXCEPT ![ch] = TRUE]}
           /\ idleFor' = [idleFor EXCEPT ![ch] = 0]
           /\ UNCHANGED mode

Finish(ch) == /\ working[ch]
              /\ idleFor[ch] >= EndDelay[ch][mode[ch]]
              /\ working' = [working EXCEPT ![ch] = FALSE]
              /\ UNCHANGED <<idleFor, mode>>

Pass == /\ idleFor' = [ch \in Channels |->
                         IF idleFor[ch] < Horizon THEN idleFor[ch] + 1 ELSE Horizon]
        /\ UNCHANGED <<working, mode>>

Next == \/ Switch
        \/ \E ch \in Channels : Use(ch) \/ Finish(ch)
        \/ Pass

Spec == Init /\ [][Next]_cvars
=============================================================================

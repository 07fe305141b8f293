--------------------------- MODULE LaundryStream ---------------------------
(***************************************************************************)
(* LaundryCore observed by the server that receives its messages.          *)
(* laundry_core.c numbers the lines of a cycle's log, toggles a flag per   *)
(* signal and brackets the cycle with START and END and with a STATUS of   *)
(* each kind; "view" is what a server that replays the messages of a       *)
(* channel, in the order they are sent and without a loss since the board  *)
(* booted, believes about it.  LaundryMessages says when it receives.      *)
(***************************************************************************)
EXTENDS LaundryCore

VARIABLE view

\* Nothing was logged of a signal in the running cycle.
Unknown == 2

NewView == [open    |-> FALSE,                         \* between START and END
            working |-> FALSE,                         \* the last STATUS
            device  |-> "none",                        \* its device
            nextKey |-> 1,                             \* number of the next line
            shown   |-> [s \in Signals |-> Unknown],   \* last state logged
            residue |-> {},                            \* flags a dryer's END left up
            faults  |-> {}]                            \* rules a message has broken

\* The rules a message breaks.
Unless(holds, rule) == IF holds THEN {} ELSE {rule}

EntryFaults(v, msg) ==
  LET seen == v.shown[msg.signal]
  IN UNION {Unless(v.open, "entry outside a cycle"),
            Unless(msg.key = v.nextKey, "line number"),
            Unless(msg.state # seen, "entry repeats a state"),
            Unless(seen = Unknown => msg.state = 1 \/ msg.signal \in v.residue,
                   "first entry is off")}
StatusFaults(v, msg) ==
  Unless(msg.state = 0 <=> ~v.working, "STATUS repeats")
    \cup Unless(msg.state = 0 <=> v.open, "STATUS against START or END")

ReceiveEntry(v, msg) ==
  [v EXCEPT !.nextKey = Capped(@ + 1, MaxLogKey),
            !.shown = [@ EXCEPT ![msg.signal] = msg.state],
            !.residue = @ \ {msg.signal},
            !.faults = @ \cup EntryFaults(v, msg)]

ReceiveStart(v, msg) ==
  [v EXCEPT !.open = TRUE, !.nextKey = 1, !.shown = [s \in Signals |-> Unknown],
            !.faults = @ \cup Unless(~v.open, "START in a cycle")]

ReceiveEnd(v, msg) ==
  [v EXCEPT !.open = FALSE,
            !.faults = @ \cup Unless(v.open, "END outside a cycle")]

\* STATUS follows START or END and says the same.  The end of a washer's cycle
\* forgets every flag; that of a dryer's leaves those of flow and water as the
\* cycle's washer judgements set them.
ReceiveStatus(v, msg) ==
  LET up == {s \in {"F", "W"} : v.shown[s] = 1}
  IN [v EXCEPT !.working = (msg.state = 0),
               !.device = msg.device,
               !.residue = IF msg.state = 0 THEN @
                           ELSE IF msg.device = "wash" THEN {} ELSE @ \cup up,
               !.faults = @ \cup StatusFaults(v, msg)]

Receive(v, msg) == CASE msg.kind = "ENTRY"  -> ReceiveEntry(v, msg)
                     [] msg.kind = "START"  -> ReceiveStart(v, msg)
                     [] msg.kind = "END"    -> ReceiveEnd(v, msg)
                     [] msg.kind = "STATUS" -> ReceiveStatus(v, msg)

\* What is believed after the messages msgs, in their order.
Replay(v, msgs) ==
  LET after[i \in 0..Len(msgs)] == IF i = 0 THEN v ELSE Receive(after[i - 1], msgs[i])
  IN after[Len(msgs)]

SInit == Init /\ view = [ch \in Channels |-> NewView]

SJudge(ch) == /\ Judge(ch)
              /\ view' = [view EXCEPT ![ch] = Replay(@, sent'[ch])]

-----------------------------------------------------------------------------
\* The messages of a channel replay without a fault: entries only between START
\* and END, numbered without a gap, each signal's states alternating within a
\* cycle, START/END and STATUS alternating and in agreement (send_log_entry,
\* send_start_log, send_end_log and the places they are called from).
StreamWellFormed == \A ch \in Channels : view[ch].faults = {}

\* The server's picture is the board's: same state of the machine, same number of
\* the next line, and the state last logged of a signal is the flag the board keeps.
ServerAgrees == \A ch \in Channels :
  /\ view[ch].working <=> cnt[ch] = 0
  /\ view[ch].open => view[ch].nextKey = logCnt[ch]
  /\ view[ch].open => \A s \in Signals :
       IF view[ch].shown[s] = Unknown
       THEN flags[ch][s] = 1 => s \in view[ch].residue
       ELSE flags[ch][s] = view[ch].shown[s]

-----------------------------------------------------------------------------
(* The inductive strengthening.                                            *)

Views == [open : BOOLEAN, working : BOOLEAN, device : Modes \cup {"none"},
          nextKey : 1..MaxLogKey, shown : [Signals -> {0, 1, Unknown}],
          residue : SUBSET Signals, faults : SUBSET STRING]

\* The server sees a cycle open while the board logs one.
SeesCycle == \A ch \in Channels : view[ch].open <=> logFlag[ch]

\* Flags that are up between two cycles were left up by a dryer's END.
LeftUp == \A ch \in Channels :
  ~view[ch].open => \A s \in Signals : flags[ch][s] = 1 => s \in view[ch].residue

StreamInv == /\ TypeOK
             /\ view \in [Channels -> Views]
             /\ OutputsAgree
             /\ SeesCycle
             /\ LeftUp
=============================================================================

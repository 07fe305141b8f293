---------------------------- MODULE WifiStation ----------------------------
(***************************************************************************)
(* osj_wifi.c: the station's reconnects.  The driver posts events, the     *)
(* event loop task runs event_handler on them in order, and a one-shot     *)
(* timer of the timer task breaks up the attempts.                         *)
(*                                                                         *)
(* The driver is modelled by what the code relies on: an attempt ends in   *)
(* GOT_IP or in DISCONNECTED, a lost connection in DISCONNECTED, and       *)
(* esp_wifi_connect does nothing unless the station is idle.  Its own      *)
(* config is kept over a restart.  The creation of the timer at boot is    *)
(* taken to succeed: without the timer a station would stop after Retries  *)
(* attempts.                                                               *)
(***************************************************************************)
EXTENDS Integers, Sequences

CONSTANTS Retries,    \* attempts before a pause, 5
          MaxEvents,  \* length of the event queue
          TimerQueue  \* places for commands to the timer task

ASSUME RetryAssumption ==
  Retries \in Nat /\ MaxEvents \in Nat \ {0} /\ TimerQueue \in Nat \ {0}

VARIABLES
  link,        \* driver: "down" before esp_wifi_start, "idle", "trying", "connected"
  events,      \* posted and not yet handled
  reachable,   \* the access point can be joined
  hasSsid,     \* the driver's config has an SSID
  softap,      \* the mode is APSTA, set by start_softap
  connected,   \* s_is_connected
  retryNum,    \* s_retry_num
  commands,    \* starts of s_retry_timer that the timer task has not taken
  timer,       \* s_retry_timer: "off", "armed", "expired": its callback is due
  pc,          \* event_handler between connecting and counting: "count", else "ready"
  tries        \* history: attempts since the last pause or connection, capped

driverVars == <<link, events, reachable>>
timerVars  == <<commands, timer>>
vars == <<driverVars, hasSsid, softap, connected, retryNum, timerVars, pc, tries>>

Events == {"STA_START", "DISCONNECTED", "GOT_IP"}

\* osj_wifi_init up to esp_wifi_start: an SSID in flash is given to the driver; without
\* one the access point is on, and the driver may still have the SSID of an earlier boot.
Init ==
  /\ link = "down" /\ events = <<>> /\ reachable \in BOOLEAN
  /\ hasSsid \in BOOLEAN /\ softap \in BOOLEAN /\ (~softap => hasSsid)
  /\ connected = FALSE /\ retryNum = 0 /\ commands = 0 /\ timer = "off" /\ pc = "ready" /\ tries = 0

Last(s) == s[Len(s)]

Posts(e) == Len(events) < MaxEvents /\ events' = Append(events, e)

\* esp_wifi_connect, when idle.
Connects == /\ link' = IF link = "idle" THEN "trying" ELSE link
            /\ tries' = IF tries > Retries + 1 THEN tries ELSE tries + 1

-----------------------------------------------------------------------------
(* The driver.                                                             *)

Starts ==
  /\ link = "down" /\ link' = "idle"
  /\ Posts("STA_START")
  /\ UNCHANGED <<reachable, hasSsid, softap, connected, retryNum, timerVars, pc, tries>>

Joins ==
  /\ link = "trying" /\ reachable
  /\ link' = "connected"
  /\ Posts("GOT_IP")
  /\ UNCHANGED <<reachable, hasSsid, softap, connected, retryNum, timerVars, pc, tries>>

Fails ==
  /\ link \in {"trying", "connected"} /\ ~reachable
  /\ link' = "idle"
  /\ Posts("DISCONNECTED")
  /\ UNCHANGED <<reachable, hasSsid, softap, connected, retryNum, timerVars, pc, tries>>

AccessPoint ==
  /\ reachable' = ~reachable
  /\ UNCHANGED <<link, events, hasSsid, softap, connected, retryNum, timerVars, pc, tries>>

-----------------------------------------------------------------------------
(* event_handler.                                                          *)

Takes(e) == pc = "ready" /\ events # <<>> /\ Head(events) = e /\ events' = Tail(events)

OnStart ==
  /\ Takes("STA_START")
  /\ IF hasSsid THEN Connects ELSE UNCHANGED <<link, tries>>
  /\ UNCHANGED <<reachable, hasSsid, softap, connected, retryNum, timerVars, pc>>

MayRetryAlways == TRUE                  \* mutant: no pause
MayRetry == retryNum < Retries

LosesUnseen == UNCHANGED connected      \* mutant: the flag is not cleared
Loses == connected' = FALSE

ArmsNot == UNCHANGED timerVars          \* mutant: the timer is not started

\* xTimerStart without waiting: a command to the timer task, lost when its queue
\* is full.
Arms == /\ commands' = IF commands < TimerQueue THEN commands + 1 ELSE commands
        /\ UNCHANGED timer

\* Mutant: the timer is started for every loss.
OnLossRetryArmed ==
  /\ Takes("DISCONNECTED")
  /\ MayRetry
  /\ Loses
  /\ Connects
  /\ Arms
  /\ pc' = "count"
  /\ UNCHANGED <<reachable, hasSsid, softap, retryNum>>

\* An attempt is left: connect, then count it.
OnLossRetry ==
  /\ Takes("DISCONNECTED")
  /\ MayRetry
  /\ Loses
  /\ Connects
  /\ pc' = "count"
  /\ UNCHANGED <<reachable, hasSsid, softap, retryNum, timerVars>>

Count ==
  /\ pc = "count" /\ pc' = "ready"
  /\ retryNum' = retryNum + 1
  /\ UNCHANGED <<driverVars, hasSsid, softap, connected, timerVars, tries>>

\* None is left: the access point is switched on, never off again, and the timer
\* started.
OnLossPause ==
  /\ Takes("DISCONNECTED")
  /\ ~MayRetry
  /\ Loses
  /\ softap' = TRUE
  /\ Arms
  /\ UNCHANGED <<link, reachable, hasSsid, retryNum, pc, tries>>

Resets == retryNum' = 0

OnIp ==
  /\ Takes("GOT_IP")
  /\ Resets
  /\ connected' = TRUE
  /\ tries' = 0
  /\ UNCHANGED <<link, reachable, hasSsid, softap, timerVars, pc>>

-----------------------------------------------------------------------------
(* The timer task.                                                         *)

\* A start of a timer that is running starts it anew.
TakesStart ==
  /\ commands > 0 /\ commands' = commands - 1
  /\ timer' = "armed"
  /\ UNCHANGED <<driverVars, hasSsid, softap, connected, retryNum, pc, tries>>

Expires ==
  /\ timer = "armed" /\ timer' = "expired"
  /\ UNCHANGED commands
  /\ UNCHANGED <<driverVars, hasSsid, softap, connected, retryNum, pc, tries>>

\* retry_timer_callback.
OnTimer ==
  /\ timer = "expired" /\ timer' = "off"
  /\ Resets
  /\ link' = IF link = "idle" THEN "trying" ELSE link
  /\ tries' = 1
  /\ UNCHANGED <<events, reachable, hasSsid, softap, connected, commands, pc>>

Next == \/ Starts \/ Joins \/ Fails \/ AccessPoint
        \/ OnStart \/ OnLossRetry \/ Count \/ OnLossPause \/ OnIp
        \/ TakesStart \/ Expires \/ OnTimer

Spec == Init /\ [][Next]_vars

\* The driver ends every attempt, the event loop and the timer task run.
Fairness == /\ WF_vars(Starts) /\ WF_vars(Joins) /\ WF_vars(Fails)
            /\ WF_vars(OnStart \/ OnLossRetry \/ Count \/ OnLossPause \/ OnIp)
            /\ WF_vars(TakesStart) /\ WF_vars(Expires) /\ WF_vars(OnTimer)
FairSpec == Spec /\ Fairness

-----------------------------------------------------------------------------
TypeOK ==
  /\ link \in {"down", "idle", "trying", "connected"}
  /\ events \in Seq(Events) /\ Len(events) <= MaxEvents
  /\ {reachable, hasSsid, softap, connected} \subseteq BOOLEAN
  /\ retryNum \in 0..Retries
  /\ commands \in 0..TimerQueue
  /\ timer \in {"off", "armed", "expired"}
  /\ pc \in {"ready", "count"}
  /\ tries \in 0..(Retries + 2)

\* The retry timer is running, due or about to be started.
Pending == timer # "off" \/ commands > 0

\* An idle station with an SSID has a timer, or an event that will make it connect.
Duty == link = "idle" /\ hasSsid =>
          Pending \/ (events # <<>> /\ Last(events) # "GOT_IP")

\* Between start and STA_START nothing else happens.
Booting == "STA_START" \in {events[i] : i \in DOMAIN events}
StartsAlone ==
  /\ link = "down" => events = <<>>
  /\ Booting => link = "idle" /\ events = <<"STA_START">>
  /\ link = "down" \/ Booting => tries = 0 /\ ~connected /\ ~Pending /\ pc = "ready"

\* Attempts are counted, one late.
Counts == /\ pc = "count" => retryNum < Retries
          /\ tries <= retryNum + (IF pc = "count" THEN 2 ELSE 1)

\* The last event posted, or else the flag, says whether the driver is connected.
LastIsLink == link = "connected" <=> IF events = <<>> THEN connected ELSE Last(events) = "GOT_IP"

\* A loss is the last event, and nothing connects before it is handled.
LossIsLast == \A i \in DOMAIN events :
  events[i] = "DISCONNECTED" => i = Len(events) /\ link = "idle"

\* The timer task and the event loop never work at the same time: s_retry_num
\* and the connect have one writer (lines 19-20 and 61-63), and the timer is
\* started when it is off and its queue empty, so the start, for which the
\* handler does not wait, is not lost (line 69).
RetryAlone == Pending =>
  /\ link = "idle" /\ events = <<>> /\ pc = "ready"
  /\ commands = IF timer = "off" THEN 1 ELSE 0

StationInv == TypeOK /\ Duty /\ StartsAlone /\ Counts /\ LastIsLink /\ LossIsLast /\ RetryAlone

\* With an SSID the station is never left alone: something is under way that will
\* make it connect (lines 52-71 and 18-22).
NeverStranded == hasSsid => link # "idle" \/ events # <<>> \/ Pending

\* At most Retries + 1 attempts follow each other without a pause (lines 61-71).
Pauses == tries <= Retries + 1

\* Once all events are handled, s_is_connected says what the driver says (lines 60, 76).
FlagIsLink == events = <<>> => connected = (link = "connected")

\* A station with an SSID joins an access point that stays reachable, and learns it.
JoinsInTheEnd == <>[](reachable /\ hasSsid) => <>[]connected
=============================================================================

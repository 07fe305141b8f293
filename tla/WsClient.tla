------------------------------ MODULE WsClient ------------------------------
(***************************************************************************)
(* The client objects of managed_components/.../esp_websocket_client.c as  *)
(* osj_websocket.c uses them: the object, the task that esp_websocket_     *)
(* client_start gives it, the recursive lock that task shares with a       *)
(* sender, and the bits by which a stop waits for the task to end.         *)
(*                                                                         *)
(* Built as sdkconfig says: no separate transmit lock; configured as       *)
(* start_client does: auto_reconnect on, close_reconnect off.              *)
(* Payloads, TLS and redirects are left out.                               *)
(***************************************************************************)
EXTENDS Integers

CONSTANT MaxClients        \* objects the firmware can create in one run

Clients == 1..MaxClients

ASSUME ClientsAssumption == MaxClients \in Nat \ {0}

VARIABLES
  ws,   \* the objects
  up    \* the server can be reached and accepts connections

wsVars == <<ws, up>>

States == {"UNKNOW", "INIT", "CONNECTED", "WAIT_TIMEOUT", "CLOSING"}
Bits   == {"STOPPED", "CLOSE_FRAME_SENT", "REQUESTED_STOP"}
\* Where the client task is: "top" is the loop condition, "lock" where it waits for
\* the lock of a pass, "locked" between taking and giving it, "unlocked" after that,
\* "closeSeen" where it has read a CLOSE, "stopped" after it has set STOPPED.
Places == {"none", "begin", "top", "lock", "locked", "unlocked", "reading", "abort",
           "closeSeen", "waiting", "closing", "exit", "stopped", "gone"}
Objects == [life : {"unborn", "live", "freed"}, state : States, run : BOOLEAN,
            bits : SUBSET Bits, lock : {"free", "task", "sender"}, task : Places,
            link   : BOOLEAN,     \* the transport is connected
            closed : BOOLEAN]     \* history: the server sent a CLOSE frame

Unborn == [life |-> "unborn", state |-> "UNKNOW", run |-> FALSE, bits |-> {},
           lock |-> "free", task |-> "none", link |-> FALSE, closed |-> FALSE]

\* After esp_websocket_client_init, and after a _start that fails: no transport or no
\* task.  After a _start that creates the task.
Initialised == [Unborn EXCEPT !.life = "live", !.bits = {"STOPPED"}]
Started     == [Initialised EXCEPT !.task = "begin", !.bits = {}]

\* After esp_websocket_client_destroy nothing of it means anything.
Freed == [Unborn EXCEPT !.life = "freed"]

Fresh(o) == o \in Clients /\ \A p \in Clients : p < o <=> ws[p].life # "unborn"

WsInit == /\ ws = [o \in Clients |-> Unborn]
          /\ up \in BOOLEAN

-----------------------------------------------------------------------------
(* Pieces of the library that several callers use.                         *)

AbortedForGood(c) ==                       \* mutant: auto_reconnect off
  [c EXCEPT !.link = FALSE, !.run = FALSE, !.state = "UNKNOW"]
Aborted(c) == IF c.state = "UNKNOW" THEN c
              ELSE [c EXCEPT !.link = FALSE, !.state = "WAIT_TIMEOUT"]

Unlocked(c) == [c EXCEPT !.lock = "free"]

\* stop_wait_task up to its wait.
Asked(c) == [c EXCEPT !.run = FALSE, !.bits = @ \cup {"REQUESTED_STOP"}]

-----------------------------------------------------------------------------
(* The client task.                                                        *)

At(o, place)  == ws[o].life = "live" /\ ws[o].task = place
Become(o, c)  == ws' = [ws EXCEPT ![o] = c] /\ UNCHANGED up
GoTo(o, place) == Become(o, [ws[o] EXCEPT !.task = place])

Begin(o) ==
  /\ At(o, "begin")
  /\ Become(o, [ws[o] EXCEPT !.run = TRUE, !.state = "INIT", !.task = "top",
                             !.bits = @ \ {"STOPPED", "CLOSE_FRAME_SENT"}])

LeaveLoop(o) == At(o, "top") /\ ~ws[o].run /\ GoTo(o, "exit")

\* The loop condition is tested before the lock is waited for, without a timeout, and
\* not again when it comes.
EntersPass(o) == At(o, "top") /\ ws[o].run /\ GoTo(o, "lock")

TakeLock(o) ==
  /\ At(o, "lock")
  /\ ws[o].lock = "free"
  /\ Become(o, [ws[o] EXCEPT !.lock = "task", !.task = "locked"])

\* One pass under the lock, by the state the task finds.
Locked(o, state) == At(o, "locked") /\ ws[o].state = state
Leave(o, c) == Become(o, [Unlocked(c) EXCEPT !.task = "unlocked"])

\* esp_transport_connect, up to network_timeout_ms long.
Connect(o) ==
  /\ Locked(o, "INIT")
  /\ Leave(o, IF up THEN [ws[o] EXCEPT !.state = "CONNECTED", !.link = TRUE]
              ELSE Aborted(ws[o]))

\* A PING; or no PONG has come for too long.  Neither once a CLOSE was sent.
Ping(o) ==
  /\ Locked(o, "CONNECTED")
  /\ \/ Leave(o, ws[o])
     \/ /\ ~up /\ "CLOSE_FRAME_SENT" \notin ws[o].bits
        /\ Leave(o, Aborted(ws[o]))

Elapse(o) == Locked(o, "WAIT_TIMEOUT") /\ Leave(o, [ws[o] EXCEPT !.state = "INIT"])
StayOut(o) == Locked(o, "WAIT_TIMEOUT") /\ Leave(o, ws[o])

EchoClose(o) == /\ Locked(o, "CLOSING")
                /\ Leave(o, [ws[o] EXCEPT !.bits = @ \cup {"CLOSE_FRAME_SENT"}])

\* After the lock was given: what the state calls for.
LookAtState(o) ==
  /\ At(o, "unlocked")
  /\ GoTo(o, CASE ws[o].state = "CONNECTED" -> "reading"
               [] ws[o].state = "WAIT_TIMEOUT" -> "waiting"
               [] ws[o].state = "CLOSING" /\ "CLOSE_FRAME_SENT" \in ws[o].bits -> "closing"
               [] OTHER -> "top")

\* Poll and read without the lock: an error, data or nothing, a CLOSE frame.
ReadFails(o) == At(o, "reading") /\ ~(ws[o].link /\ up) /\ GoTo(o, "abort")
ReadData(o)  == At(o, "reading") /\ ws[o].link /\ GoTo(o, "top")
ReadClose(o) ==
  /\ At(o, "reading") /\ ws[o].link /\ up
  /\ Become(o, [ws[o] EXCEPT !.closed = TRUE, !.task = "closeSeen"])

\* Without the lock, and over the state a sender may have left meanwhile.
SetsClosing(o) ==
  /\ At(o, "closeSeen")
  /\ Become(o, [ws[o] EXCEPT !.state = "CLOSING", !.task = "top"])

Abort(o) ==
  /\ At(o, "abort")
  /\ ws[o].lock = "free"
  /\ Become(o, [Aborted(ws[o]) EXCEPT !.task = "top"])

WakeUp(o) == At(o, "waiting") /\ GoTo(o, "top")

CloseEnds(o) ==
  /\ At(o, "closing")
  /\ Become(o, [ws[o] EXCEPT !.run = FALSE, !.state = "UNKNOW", !.task = "exit"])

Exit(o) ==
  /\ At(o, "exit")
  /\ Become(o, [ws[o] EXCEPT !.link = FALSE, !.bits = @ \cup {"STOPPED"},
                             !.task = "stopped"])

\* Still a write to the object, after STOPPED has released a waiting stop.
Finish(o) ==
  /\ At(o, "stopped")
  /\ Become(o, [ws[o] EXCEPT !.state = "UNKNOW", !.task = "gone"])

TakesLock(o) == TakeLock(o) \/ Abort(o)

TaskStep(o) ==
  \/ Begin(o) \/ LeaveLoop(o) \/ EntersPass(o) \/ TakesLock(o)
  \/ Connect(o) \/ Ping(o) \/ Elapse(o) \/ StayOut(o) \/ EchoClose(o)
  \/ LookAtState(o)
  \/ ReadFails(o) \/ ReadData(o) \/ ReadClose(o) \/ SetsClosing(o)
  \/ WakeUp(o) \/ CloseEnds(o) \/ Exit(o) \/ Finish(o)

Network == up' = ~up /\ UNCHANGED ws
=============================================================================

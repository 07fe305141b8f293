-------------------------- MODULE LaundryDelivery --------------------------
(***************************************************************************)
(* LaundryCore, a connection that loses messages and a board that loses    *)
(* power.  osj_websocket_send_status and osj_websocket_send_log return     *)
(* without a word when there is no client, no connection or no free lock,  *)
(* and nothing is sent again; a reboot forgets the running cycle and sends *)
(* nothing about it.  Messages of one task over one connection keep their  *)
(* order.                                                                  *)
(*                                                                         *)
(* "server" is what a server believes that gets the messages which arrive, *)
(* "fate" what really became of them.  LaundryMessages says when they are  *)
(* sent.                                                                   *)
(***************************************************************************)
EXTENDS LaundryCore

VARIABLES
  server,      \* per channel: open, working, nextKey, missing
  fate         \* per channel: history of what was lost

NewServer == [open    |-> FALSE,       \* between START and END
              working |-> FALSE,       \* the last STATUS
              nextKey |-> 1,           \* number of the next line
              missing |-> 0]           \* gaps in the numbers since START

NewFate == [start   |-> FALSE,         \* a START was lost after the last START or END came
            end     |-> FALSE,         \* an END was lost, or never sent, after they came
            status  |-> FALSE,         \* so was the last STATUS
            follows |-> FALSE,         \* the START of the running cycle came
            lines   |-> 0,             \* lines lost since then
            puzzled |-> FALSE]         \* a message came that no loss explains

-----------------------------------------------------------------------------
(* One message of a judgement, in both eyes; w is [server, fate].          *)

Puzzle(w, explained) == [w EXCEPT !.fate.puzzled = @ \/ ~explained]

EntryComes(w, msg) ==
  LET inTurn == w.server.open /\ msg.key >= w.server.nextKey
  IN [Puzzle(w, inTurn \/ w.fate.start) EXCEPT
        !.server.missing = IF inTurn THEN Capped(@ + msg.key - w.server.nextKey, MaxLogKey) ELSE @,
        !.server.nextKey = IF w.server.open THEN Capped(msg.key + 1, MaxLogKey) ELSE @]

StartComes(w, msg) ==
  [Puzzle(w, w.server.open => w.fate.end) EXCEPT
     !.server.open = TRUE, !.server.nextKey = 1, !.server.missing = 0,
     !.fate.start = FALSE, !.fate.end = FALSE, !.fate.lines = 0, !.fate.follows = TRUE]

EndComes(w, msg) ==
  [Puzzle(w, w.server.open \/ w.fate.start) EXCEPT
     !.server.open = FALSE, !.server.nextKey = 1, !.server.missing = 0,
     !.fate.start = FALSE, !.fate.end = FALSE, !.fate.follows = FALSE, !.fate.lines = 0]

StatusComes(w, msg) ==
  [Puzzle(w, w.server.working # (msg.state = 0) \/ w.fate.status) EXCEPT
     !.server.working = (msg.state = 0), !.fate.status = FALSE]

Comes(w, msg) == CASE msg.kind = "ENTRY"  -> EntryComes(w, msg)
                   [] msg.kind = "START"  -> StartComes(w, msg)
                   [] msg.kind = "END"    -> EndComes(w, msg)
                   [] msg.kind = "STATUS" -> StatusComes(w, msg)

IsLost(w, msg) ==
  CASE msg.kind = "ENTRY"  -> [w EXCEPT !.fate.lines = IF w.fate.follows THEN Capped(@ + 1, MaxLogKey) ELSE @]
    [] msg.kind = "START"  -> [w EXCEPT !.fate.start = TRUE, !.fate.follows = FALSE, !.fate.lines = 0]
    [] msg.kind = "END"    -> [w EXCEPT !.fate.end = TRUE, !.fate.follows = FALSE, !.fate.lines = 0]
    [] msg.kind = "STATUS" -> [w EXCEPT !.fate.status = TRUE]

Takes(w, msg, comes) == IF comes THEN Comes(w, msg) ELSE IsLost(w, msg)

\* The messages msgs, of which those with their number in arrive reach the server.
Delivered(w, msgs, arrive) ==
  LET after[i \in 0..Len(msgs)] ==
        IF i = 0 THEN w ELSE Takes(after[i - 1], msgs[i], i \in arrive)
  IN after[Len(msgs)]

-----------------------------------------------------------------------------
DInit ==
  /\ Init
  /\ server = [ch \in Channels |-> NewServer]
  /\ fate = [ch \in Channels |-> NewFate]

DJudge(ch) ==
  /\ Judge(ch)
  /\ \E arrive \in SUBSET (DOMAIN sent'[ch]) :
       LET w == Delivered([server |-> server[ch], fate |-> fate[ch]], sent'[ch], arrive)
       IN /\ server' = [server EXCEPT ![ch] = w.server]
          /\ fate' = [fate EXCEPT ![ch] = w.fate]

\* Power loss, a crash or /reboot, and the next boot.
Reboot ==
  /\ pc' = 0
  /\ cnt' = [ch \in Channels |-> 1] /\ m' = [ch \in Channels |-> 0]
  /\ \E age \in 0..Horizon : sinceEnd' = [ch \in Channels |-> age] /\ sinceSe' = sinceEnd'
  /\ seCnt' = [ch \in Channels |-> 0]
  /\ logFlag' = [ch \in Channels |-> FALSE]
  /\ flags' = [ch \in Channels |-> [s \in Signals |-> 0]]
  /\ logCnt' = [ch \in Channels |-> 1]
  /\ currStatus' = [ch \in Channels |-> 1] /\ led' = [ch \in Channels |-> FALSE]
  /\ sent' = [ch \in Channels |-> <<>>]
  /\ fate' = [ch \in Channels |->
       [fate[ch] EXCEPT !.end = @ \/ cnt[ch] = 0, !.status = @ \/ cnt[ch] = 0,
                        !.follows = FALSE, !.lines = 0]]
  /\ UNCHANGED <<sample, server>>

-----------------------------------------------------------------------------
\* Whatever is lost, the server can say what: an entry out of turn or an END out of a
\* cycle tells of a lost START, a START in a cycle of a lost END or a reboot, a STATUS
\* that says nothing new of a lost STATUS or a reboot.  Without a loss no message is out
\* of place (osj_websocket.c 127-176, laundry_core.c 58-106 and the places that send).
LossesExplain == \A ch \in Channels : ~fate[ch].puzzled

\* Once the START of a cycle came, the numbers of its lines tell how many were lost: those
\* missing between lines that came, and those after the last one (laundry_core.c 58-78).
LossesAreCounted == \A ch \in Channels :
  fate[ch].follows /\ logCnt[ch] < MaxLogKey =>
    /\ server[ch].open
    /\ server[ch].missing + (logCnt[ch] - server[ch].nextKey) = fate[ch].lines

\* The server is wrong about a machine only after the last STATUS was lost, or a reboot in
\* a cycle that never sent its end; the next STATUS that comes puts it right
\* (laundry_core.c 145 and 164, 238 and 257).
WrongOnlyAfterLoss == \A ch \in Channels :
  (server[ch].working <=> cnt[ch] = 0) \/ fate[ch].status

-----------------------------------------------------------------------------
(* The inductive strengthening.                                            *)

Servers == [open : BOOLEAN, working : BOOLEAN, nextKey : 1..MaxLogKey, missing : 0..MaxLogKey]
Fates   == [start : BOOLEAN, end : BOOLEAN, status : BOOLEAN, follows : BOOLEAN,
            lines : 0..MaxLogKey, puzzled : BOOLEAN]

\* A cycle the server sees beyond its end lost that END or never had one.
OpenTooLong == \A ch \in Channels : server[ch].open /\ cnt[ch] = 1 => fate[ch].end

\* A running cycle of which no START came lost it.
Unheard == \A ch \in Channels : cnt[ch] = 0 => fate[ch].follows \/ fate[ch].start

\* A cycle the server follows is running, no number it knows is ahead of the board's,
\* and fewer lines were lost than sent.
Followed == \A ch \in Channels : fate[ch].follows =>
  /\ cnt[ch] = 0
  /\ server[ch].open
  /\ server[ch].nextKey <= logCnt[ch]
  /\ logCnt[ch] < MaxLogKey => fate[ch].lines < logCnt[ch]

DeliveryInv == /\ TypeOK
               /\ server \in [Channels -> Servers] /\ fate \in [Channels -> Fates]
               /\ OutputsAgree
               /\ OpenTooLong
               /\ Unheard
               /\ Followed
=============================================================================

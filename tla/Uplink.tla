------------------------------- MODULE Uplink -------------------------------
(***************************************************************************)
(* osj_websocket.c: one global "client", which app_main sets at the end of *)
(* its boot, the httpd task replaces when the device number is posted to   *)
(* /CH1, and the detection loop sends on, each without a lock on it.       *)
(* WsClient has the objects it points to.                                  *)
(*                                                                         *)
(* Only the httpd task calls osj_websocket_restart, and it ends a request  *)
(* before it takes the next: is_restarting is never found set.  A call on  *)
(* a freed object may answer anything; it is then taken to change nothing. *)
(* A local variable whose value is no longer needed is set to 0.           *)
(***************************************************************************)
EXTENDS WsClient, FiniteSets

VARIABLES
  client,     \* the global; 0 is NULL
  deviceSet,  \* sys_config.ch1DeviceNo is not the default "1"
  mainPc,     \* app_main: "start", "assign", "done"
  mainNew,    \* what its start_client returned
  early,      \* history: a device number was posted before app_main's last step
  httpdPc,    \* the httpd task in osj_websocket_restart, "idle" if in no such request
  httpdObj,   \* the object it stops or destroys
  httpdNew,   \* what its start_client returned
  corePc,     \* the detection loop in a send: "idle", "format", "lock", "write"
  coreObj     \* the object it sends on

mainVars  == <<mainPc, mainNew>>
postVars  == <<deviceSet, early>>
httpdVars == <<postVars, httpdPc, httpdObj, httpdNew>>
coreVars  == <<corePc, coreObj>>
vars      == <<wsVars, client, mainVars, httpdVars, coreVars>>

Handles == 0..MaxClients

Init ==
  /\ WsInit
  /\ client = 0
  /\ deviceSet \in BOOLEAN /\ early = FALSE
  /\ mainPc = "start" /\ mainNew = 0
  /\ httpdPc = "idle" /\ httpdObj = 0 /\ httpdNew = 0
  /\ corePc = "idle" /\ coreObj = 0

Client == /\ \E o \in Clients : TaskStep(o)
          /\ UNCHANGED <<client, mainVars, httpdVars, coreVars>>

\* start_client returns NULL for the default device number, or when init has no memory;
\* it does not look at what the start of the client returns.
StartClient(new) ==
  \/ new = 0 /\ UNCHANGED ws
  \/ deviceSet /\ Fresh(new) /\ \E c \in {Started, Initialised} : ws' = [ws EXCEPT ![new] = c]

-----------------------------------------------------------------------------
(* app_main calls osj_websocket_start when the web server is already up.   *)

MainStarts ==
  /\ mainPc = "start"
  /\ mainPc' = "assign"
  /\ mainNew' \in Handles
  /\ StartClient(mainNew')
  /\ UNCHANGED <<up, client, httpdVars, coreVars>>

\* The client task has the higher priority and begins before main goes on.
MainAssigns ==
  /\ mainPc = "assign"
  /\ mainNew # 0 => ws[mainNew].task # "begin"
  /\ mainPc' = "done"
  /\ client' = mainNew
  /\ mainNew' = 0
  /\ UNCHANGED <<wsVars, httpdVars, coreVars>>

-----------------------------------------------------------------------------
(* The httpd task: ch1_post_handler and osj_websocket_restart.             *)

Unstarted == {o \in Clients : ws[o].life = "unborn"}

HttpdGoes(from, to) == httpdPc = from /\ httpdPc' = to

\* A new device number, whether it could be stored or not; the limit of one post per
\* second is left out.  MaxClients bounds the number of posts.  The task of the last client is of
\* httpd's own priority and begins while httpd answers that request.
Post(set) ==
  /\ HttpdGoes("idle", "stop")
  /\ Cardinality(Unstarted) > (IF mainPc = "start" THEN 1 ELSE 0)
  /\ \A o \in Clients : ws[o].task # "begin"
  /\ deviceSet' = set
  /\ early' = (early \/ mainPc # "done")
  /\ UNCHANGED <<wsVars, client, mainVars, httpdObj, httpdNew, coreVars>>

\* esp_websocket_client_stop, or nothing to stop.
Stop ==
  /\ IF client = 0
     THEN HttpdGoes("stop", "start") /\ UNCHANGED ws
     ELSE IF "STOPPED" \in ws[client].bits
     THEN HttpdGoes("stop", "destroy") /\ UNCHANGED ws
     ELSE HttpdGoes("stop", "stopping") /\ ws' = [ws EXCEPT ![client] = Asked(@)]
  /\ httpdObj' = client
  /\ UNCHANGED <<up, client, postVars, mainVars, httpdNew, coreVars>>

\* esp_websocket_client_destroy reads "client" anew, and stops what still runs.
Destroy ==
  /\ IF client = 0
     THEN HttpdGoes("destroy", "forget") /\ UNCHANGED ws
     ELSE IF "STOPPED" \in ws[client].bits
     THEN HttpdGoes("destroy", "free") /\ UNCHANGED ws
     ELSE HttpdGoes("destroy", "ending") /\ ws' = [ws EXCEPT ![client] = Asked(@)]
  /\ httpdObj' = client
  /\ UNCHANGED <<up, client, postVars, mainVars, httpdNew, coreVars>>

\* stop_wait_task returns.
Stopped ==
  /\ HttpdGoes("stopping", "destroy") \/ HttpdGoes("ending", "free")
  /\ "STOPPED" \in ws[httpdObj].bits
  /\ ws' = [ws EXCEPT ![httpdObj].state = "UNKNOW"]
  /\ UNCHANGED <<up, client, postVars, mainVars, httpdObj, httpdNew, coreVars>>

FreesNothing == UNCHANGED ws                     \* mutant: stopped, never destroyed
Frees == ws' = [ws EXCEPT ![httpdObj] = Freed]
Free ==
  /\ HttpdGoes("free", "forget")
  /\ Frees
  /\ httpdObj' = 0
  /\ UNCHANGED <<up, client, postVars, mainVars, httpdNew, coreVars>>

Forget ==
  /\ HttpdGoes("forget", "start")
  /\ client' = 0
  /\ UNCHANGED <<wsVars, postVars, mainVars, httpdObj, httpdNew, coreVars>>

HttpdStarts ==
  /\ HttpdGoes("start", "assign")
  /\ httpdNew' \in Handles
  /\ StartClient(httpdNew')
  /\ UNCHANGED <<up, client, postVars, mainVars, httpdObj, coreVars>>

HttpdAssigns ==
  /\ HttpdGoes("assign", "idle")
  /\ client' = httpdNew
  /\ httpdNew' = 0
  /\ UNCHANGED <<wsVars, postVars, mainVars, httpdObj, coreVars>>

Restart == Stop \/ Destroy \/ Stopped \/ Free \/ Forget \/ HttpdStarts \/ HttpdAssigns

-----------------------------------------------------------------------------
(* The detection loop: osj_websocket_send_status and _send_log.            *)

\* What esp_websocket_client_is_connected may say.
Answers(o) == IF o = 0 THEN {FALSE}
              ELSE IF ws[o].life = "live" THEN {ws[o].state = "CONNECTED"}
              ELSE BOOLEAN

CoreGoes(from, to) == corePc = from /\ corePc' = to

\* The check of osj_websocket.c; the message is dropped if it fails.
Check ==
  /\ mainPc = "done"
  /\ CoreGoes("idle", "format")
  /\ TRUE \in Answers(client)
  /\ UNCHANGED <<wsVars, client, mainVars, httpdVars, coreObj>>

\* The library's own check, on "client" as it is now.
Enter ==
  /\ corePc = "format"
  /\ \/ TRUE \in Answers(client) /\ corePc' = "lock" /\ coreObj' = client
     \/ FALSE \in Answers(client) /\ corePc' = "idle" /\ UNCHANGED coreObj
  /\ UNCHANGED <<wsVars, client, mainVars, httpdVars>>

\* It waits 10 ticks for the lock.
Lock ==
  /\ CoreGoes("lock", "write")
  /\ ws[coreObj].life = "live" /\ ws[coreObj].lock = "free"
  /\ ws' = [ws EXCEPT ![coreObj].lock = "sender"]
  /\ UNCHANGED <<up, client, mainVars, httpdVars, coreObj>>

GiveUp ==
  /\ CoreGoes("lock", "idle")
  /\ ws[coreObj].life = "live" => ws[coreObj].lock # "free"
  /\ coreObj' = 0
  /\ UNCHANGED <<wsVars, client, mainVars, httpdVars>>

\* The write succeeds or aborts the connection; then the lock is given.
KeepsLock(c)  == c                     \* mutant: an early return under the lock
GivesLock(c)  == Unlocked(c)
Write ==
  /\ CoreGoes("write", "idle")
  /\ LET c == ws[coreObj] IN
     IF c.life = "live"
     THEN \/ c.link /\ ws' = [ws EXCEPT ![coreObj] = GivesLock(c)]
          \/ ~(c.link /\ up) /\ ws' = [ws EXCEPT ![coreObj] = GivesLock(Aborted(c))]
     ELSE UNCHANGED ws
  /\ coreObj' = 0
  /\ UNCHANGED <<up, client, mainVars, httpdVars>>

Send == Enter \/ Lock \/ GiveUp \/ Write

-----------------------------------------------------------------------------
NetworkChanges == Network /\ UNCHANGED <<client, mainVars, httpdVars, coreVars>>

Next == \/ Client \/ NetworkChanges
        \/ MainStarts \/ MainAssigns
        \/ (\E set \in BOOLEAN : Post(set)) \/ Restart
        \/ Check \/ Send

Spec == Init /\ [][Next]_vars

\* Every task runs; a mutex goes to a waiting task after finitely many others;
\* the reconnect time elapses.
Fairness ==
  /\ \A o \in Clients :
       /\ WF_vars(TaskStep(o) /\ UNCHANGED <<client, mainVars, httpdVars, coreVars>>)
       /\ SF_vars(TakesLock(o) /\ UNCHANGED <<client, mainVars, httpdVars, coreVars>>)
       /\ SF_vars(Elapse(o) /\ UNCHANGED <<client, mainVars, httpdVars, coreVars>>)
  /\ WF_vars(MainStarts \/ MainAssigns)
  /\ WF_vars(Restart)
  /\ WF_vars(Send)
FairSpec == Spec /\ Fairness

-----------------------------------------------------------------------------
TypeOK ==
  /\ ws \in [Clients -> Objects] /\ up \in BOOLEAN
  /\ {client, mainNew, httpdObj, httpdNew, coreObj} \subseteq Handles
  /\ deviceSet \in BOOLEAN /\ early \in BOOLEAN
  /\ mainPc \in {"start", "assign", "done"}
  /\ httpdPc \in {"idle", "stop", "stopping", "destroy", "ending", "free", "forget",
                  "start", "assign"}
  /\ corePc \in {"idle", "format", "lock", "write"}

\* The lock of an object is held by its task exactly while the task is in its
\* locked section, and by the detection loop exactly while that writes.
LockHasHolder == \A o \in Clients : ws[o].life = "live" =>
  /\ ws[o].lock = "task" <=> ws[o].task = "locked"
  /\ ws[o].lock = "sender" <=> corePc = "write" /\ coreObj = o

\* A client that ends, or is bound to: the server closed it or it was asked to stop.
Ending(c) == \/ c.task \in {"closeSeen", "closing", "exit", "stopped", "gone"}
             \/ c.state = "CLOSING"
             \/ c.task \notin {"none", "begin"} /\ ~c.run
HasReason(c) == c.closed \/ "REQUESTED_STOP" \in c.bits
EndHasReason == \A o \in Clients : Ending(ws[o]) => HasReason(ws[o])

\* Every handle was given by a start; a stop that waits, and a sender past the
\* library's check, have one.
HandlesBorn ==
  /\ \A h \in {client, mainNew, httpdObj, httpdNew, coreObj} : h # 0 => ws[h].life # "unborn"
  /\ httpdPc \in {"stopping", "ending", "free"} => httpdObj # 0
  /\ corePc \in {"lock", "write"} => coreObj # 0

UplinkInv == TypeOK /\ LockHasHolder /\ EndHasReason /\ HandlesBorn

\* Live objects that no variable leads to any more.
Held == {client} \cup (IF mainPc = "assign" THEN {mainNew} ELSE {})
                 \cup (IF httpdPc = "assign" THEN {httpdNew} ELSE {})
Orphans == {o \in Clients : ws[o].life = "live"} \ Held

\* A client is lost, if at all, by a post during the boot, and never more than one:
\* later restarts, however often and whenever, destroy the client they replace
\* (osj_websocket.c, lines 107-125).
OrphanOnlyByBoot == Cardinality(Orphans) <= IF early THEN 1 ELSE 0

\* A client task ends only when it is asked to or the server closes: no failed
\* connect, read, write or PING ends it, whoever of task and sender notices first.
EndsOnlyAsked == \A o \in Clients :
  ws[o].task \in {"exit", "stopped", "gone"} => HasReason(ws[o])

\* A restart comes to its end: stop's wait without timeout is always answered.
RestartCompletes == httpdPc # "idle" ~> httpdPc = "idle"

\* While the server can be reached and has not closed it, a client that was started
\* connects again, whoever of task and sender aborted the connection.
Follows(o) == o # 0 /\ ws[o].task # "none" /\ ~ws[o].closed
ConnectionReturns == <>[](up /\ Follows(client)) =>
                       []<>(client # 0 /\ ws[client].state = "CONNECTED")

\* esp_websocket_client.h, of esp_websocket_client_destroy: it "must be the last
\* function to call for an session".
SendOnLiveClient == corePc \in {"lock", "write"} => ws[coreObj].life = "live"
=============================================================================

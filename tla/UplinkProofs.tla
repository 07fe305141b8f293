---------------------------- MODULE UplinkProofs ----------------------------
(***************************************************************************)
(* The invariant of Uplink for any number of clients.  A step of a client  *)
(* task changes one object; the first section says what it makes of it,    *)
(* the second what any such change means for the invariant.                *)
(***************************************************************************)
EXTENDS Uplink, TLAPS, FiniteSetTheorems

-----------------------------------------------------------------------------
(* Objects.                                                                *)

LEMMA NewObjects ==
  /\ \A c \in {Started, Initialised} :
       /\ c \in Objects /\ c.life = "live" /\ c.lock = "free"
       /\ c.task \in {"none", "begin"} /\ c.state = "UNKNOW"
  /\ Freed \in Objects /\ Freed.life = "freed" /\ Freed.task = "none" /\ Freed.state = "UNKNOW"
BY DEF Started, Initialised, Freed, Unborn, Objects, States, Bits, Places

LEMMA ChangedObjects ==
  ASSUME NEW c \in Objects
  PROVE  /\ Aborted(c) \in Objects /\ Unlocked(c) \in Objects /\ Asked(c) \in Objects
         /\ \A d \in {Aborted(c), Asked(c)} : d.life = c.life /\ d.lock = c.lock /\ d.task = c.task
         /\ Aborted(c).state \in {"UNKNOW", "WAIT_TIMEOUT"}
         /\ \A d \in {Aborted(c), Unlocked(c)} :
              d.run = c.run /\ d.bits = c.bits /\ d.closed = c.closed
         /\ Unlocked(c).life = c.life /\ Unlocked(c).lock = "free" /\ Unlocked(c).task = c.task
         /\ Unlocked(c).state = c.state
         /\ HasReason(Asked(c))
<1>1. Aborted(c) \in Objects /\ Unlocked(c) \in Objects /\ Asked(c) \in Objects
  BY DEF Aborted, Unlocked, Asked, Objects, States, Bits
<1>2. Aborted(c).life = c.life /\ Aborted(c).lock = c.lock /\ Aborted(c).task = c.task
  BY DEF Aborted, Objects
<1>3. Asked(c).life = c.life /\ Asked(c).lock = c.lock /\ Asked(c).task = c.task /\ HasReason(Asked(c))
  BY DEF Asked, Objects, HasReason
<1>4. /\ Aborted(c).state \in {"UNKNOW", "WAIT_TIMEOUT"}
      /\ Aborted(c).run = c.run /\ Aborted(c).bits = c.bits /\ Aborted(c).closed = c.closed
  BY DEF Aborted, Objects
<1>5. /\ Unlocked(c).run = c.run /\ Unlocked(c).bits = c.bits /\ Unlocked(c).closed = c.closed
      /\ Unlocked(c).life = c.life /\ Unlocked(c).lock = "free" /\ Unlocked(c).task = c.task
      /\ Unlocked(c).state = c.state
  BY DEF Unlocked, Objects
<1>6. QED
  BY <1>1, <1>2, <1>3, <1>4, <1>5

\* What a task makes of its object c: d.
GoodChange(c, d) ==
  /\ d \in Objects
  /\ d.life = c.life
  /\ (c.lock = "task" <=> c.task = "locked") => (d.lock = "task" <=> d.task = "locked")
  /\ (c.lock = "task" <=> c.task = "locked") => (d.lock = "sender" <=> c.lock = "sender")
  /\ (Ending(c) => HasReason(c)) => (Ending(d) => HasReason(d))

\* What the task leaves when it gives the lock back with its object changed to d.
LEMMA LeaveChange ==
  ASSUME TypeOK, NEW o \in Clients, NEW d \in Objects, Leave(o, d)
  PROVE  /\ ws' = [ws EXCEPT ![o] = ws'[o]] /\ UNCHANGED up
         /\ ws'[o] \in Objects /\ ws'[o].life = d.life /\ ws'[o].state = d.state
         /\ ws'[o].task = "unlocked" /\ ws'[o].lock = "free"
         /\ ws'[o].run = d.run /\ ws'[o].bits = d.bits /\ ws'[o].closed = d.closed
<1> DEFINE u == Unlocked(d)
<1>1. u \in Objects /\ u.life = d.life /\ u.state = d.state
      /\ u.run = d.run /\ u.bits = d.bits /\ u.closed = d.closed
  BY ChangedObjects
<1>2. ws' = [ws EXCEPT ![o] = [u EXCEPT !.task = "unlocked"]] /\ UNCHANGED up
  BY DEF Leave, Become
<1>3. u.lock = "free"
  BY ChangedObjects
<1> HIDE DEF u
<1>4. ws'[o] = [u EXCEPT !.task = "unlocked"]
  BY <1>2 DEF TypeOK
<1>5. ws' = [ws EXCEPT ![o] = ws'[o]]
  BY <1>2, <1>4
<1>6. ws'[o] \in Objects /\ ws'[o].task = "unlocked"
  BY <1>1, <1>4 DEF Objects, Places
<1>7. /\ ws'[o].life = u.life /\ ws'[o].state = u.state /\ ws'[o].lock = u.lock
      /\ ws'[o].run = u.run /\ ws'[o].bits = u.bits /\ ws'[o].closed = u.closed
  BY <1>1, <1>4 DEF Objects
<1>8. QED
  BY <1>1, <1>2, <1>3, <1>5, <1>6, <1>7

\* Every step of a client task is a good change of its object.
LEMMA TaskChanges ==
  ASSUME TypeOK, NEW o \in Clients, TaskStep(o)
  PROVE  /\ ws[o].life = "live"
         /\ UNCHANGED up
         /\ ws' = [ws EXCEPT ![o] = ws'[o]] /\ GoodChange(ws[o], ws'[o])
<1>1. ws \in [Clients -> Objects]
  BY DEF TypeOK
<1> USE DEF At, Become, GoTo, GoodChange, Ending, HasReason, Objects, States, Bits, Places
<1>2. CASE Begin(o)
  <2>1. /\ ws' = [ws EXCEPT ![o] = [ws[o] EXCEPT !.run = TRUE, !.state = "INIT", !.task = "top",
                                                 !.bits = @ \ {"STOPPED", "CLOSE_FRAME_SENT"}]]
        /\ UNCHANGED up /\ ws[o].life = "live" /\ ws[o].task = "begin"
    BY <1>2 DEF Begin
  <2>2. ws'[o] \in Objects /\ ws'[o].life = "live" /\ ws'[o].lock = ws[o].lock
    BY <1>1, <2>1
  <2>3. ws'[o].task = "top" /\ ws'[o].run = TRUE /\ ws'[o].state = "INIT"
    BY <1>1, <2>1
  <2>4. ws' = [ws EXCEPT ![o] = ws'[o]]
    BY <1>1, <2>1
  <2>5. QED
    BY <2>1, <2>2, <2>3, <2>4
<1>3. CASE LeaveLoop(o)
  BY <1>1, <1>3 DEF LeaveLoop
<1>19. CASE EntersPass(o)
  BY <1>1, <1>19 DEF EntersPass
<1>4. CASE TakeLock(o)
  <2>1. /\ ws' = [ws EXCEPT ![o] = [ws[o] EXCEPT !.lock = "task", !.task = "locked"]]
        /\ UNCHANGED up /\ ws[o].life = "live" /\ ws[o].task = "lock" /\ ws[o].lock = "free"
    BY <1>4 DEF TakeLock
  <2>2. ws'[o] \in Objects /\ ws'[o].lock = "task" /\ ws'[o].task = "locked"
    BY <1>1, <2>1
  <2>3. /\ ws'[o].life = "live" /\ ws'[o].state = ws[o].state /\ ws'[o].run = ws[o].run
        /\ ws'[o].bits = ws[o].bits /\ ws'[o].closed = ws[o].closed
    BY <1>1, <2>1
  <2>4. ws' = [ws EXCEPT ![o] = ws'[o]]
    BY <1>1, <2>1
  <2>5. QED
    BY <2>1, <2>2, <2>3, <2>4
<1>5. CASE Abort(o)
  <2> DEFINE d == Aborted(ws[o])
  <2>1. /\ d \in Objects /\ d.life = "live" /\ d.lock = "free" /\ ws[o].lock = "free"
        /\ d.state \in {"UNKNOW", "WAIT_TIMEOUT"}
        /\ d.run = ws[o].run /\ d.bits = ws[o].bits /\ d.closed = ws[o].closed
    BY <1>1, <1>5, ChangedObjects DEF Abort
  <2>2. ws' = [ws EXCEPT ![o] = [d EXCEPT !.task = "top"]] /\ UNCHANGED up
    BY <1>5 DEF Abort
  <2> HIDE DEF d
  <2>3. ws'[o] = [d EXCEPT !.task = "top"]
    BY <1>1, <2>2
  <2>4. ws[o].task = "abort" /\ ws[o].life = "live"
    BY <1>5 DEF Abort
  <2>5. QED
    BY <1>1, <2>1, <2>2, <2>3, <2>4
<1>6. ASSUME NEW d \in Objects, Leave(o, d), At(o, "locked"),
             d.life = ws[o].life, d.run = ws[o].run, d.closed = ws[o].closed,
             ws[o].bits \subseteq d.bits,
             d.state = "CLOSING" => ws[o].state = "CLOSING"
      PROVE  /\ ws[o].life = "live" /\ UNCHANGED up
             /\ ws' = [ws EXCEPT ![o] = ws'[o]] /\ GoodChange(ws[o], ws'[o])
  <2>1. /\ ws' = [ws EXCEPT ![o] = ws'[o]] /\ UNCHANGED up
        /\ ws'[o] \in Objects /\ ws'[o].life = d.life /\ ws'[o].state = d.state
        /\ ws'[o].task = "unlocked" /\ ws'[o].lock = "free"
        /\ ws'[o].run = d.run /\ ws'[o].bits = d.bits /\ ws'[o].closed = d.closed
    BY <1>6, LeaveChange
  <2>2. ws[o].life = "live" /\ ws[o].task = "locked"
    BY <1>6
  <2>3. QED
    BY <1>6, <2>1, <2>2
<1>7. ws[o] \in Objects /\ Aborted(ws[o]) \in Objects
      /\ Aborted(ws[o]).life = ws[o].life /\ Aborted(ws[o]).run = ws[o].run
      /\ Aborted(ws[o]).closed = ws[o].closed /\ Aborted(ws[o]).bits = ws[o].bits
      /\ Aborted(ws[o]).state # "CLOSING"
  BY <1>1, ChangedObjects
<1>8. CASE Connect(o)
  <2> DEFINE d == [ws[o] EXCEPT !.state = "CONNECTED", !.link = TRUE]
  <2>1. /\ d \in Objects /\ d.life = ws[o].life /\ d.run = ws[o].run
        /\ d.closed = ws[o].closed /\ d.bits = ws[o].bits /\ d.state = "CONNECTED"
    BY <1>7
  <2>2. At(o, "locked") /\ (Leave(o, d) \/ Leave(o, Aborted(ws[o])))
    BY <1>8 DEF Connect, Locked
  <2>3. QED
    BY <1>6, <1>7, <2>1, <2>2
<1>9. CASE Ping(o) \/ StayOut(o)
  <2>1. At(o, "locked") /\ (Leave(o, ws[o]) \/ Leave(o, Aborted(ws[o])))
    BY <1>9 DEF Ping, StayOut, Locked
  <2>2. QED
    BY <1>6, <1>7, <2>1
<1>16. CASE Elapse(o)
  <2> DEFINE d == [ws[o] EXCEPT !.state = "INIT"]
  <2>1. /\ d \in Objects /\ d.life = ws[o].life /\ d.run = ws[o].run
        /\ d.closed = ws[o].closed /\ d.bits = ws[o].bits /\ d.state = "INIT"
    BY <1>7
  <2>2. At(o, "locked") /\ Leave(o, d)
    BY <1>16 DEF Elapse, Locked
  <2>3. QED
    BY <1>6, <2>1, <2>2
<1>17. CASE EchoClose(o)
  <2> DEFINE d == [ws[o] EXCEPT !.bits = @ \cup {"CLOSE_FRAME_SENT"}]
  <2>1. /\ d \in Objects /\ d.life = ws[o].life /\ d.run = ws[o].run
        /\ d.closed = ws[o].closed /\ ws[o].bits \subseteq d.bits /\ d.state = ws[o].state
    BY <1>7
  <2>2. At(o, "locked") /\ Leave(o, d)
    BY <1>17 DEF EchoClose, Locked
  <2>3. QED
    BY <1>6, <2>1, <2>2
<1>10. CASE LookAtState(o)
  BY <1>1, <1>10 DEF LookAtState
<1>11. CASE ReadFails(o) \/ ReadData(o) \/ WakeUp(o)
  BY <1>1, <1>11 DEF ReadFails, ReadData, WakeUp
<1>12. CASE ReadClose(o)
  BY <1>1, <1>12 DEF ReadClose
<1>20. CASE SetsClosing(o)
  BY <1>1, <1>20 DEF SetsClosing
<1>13. CASE CloseEnds(o)
  BY <1>1, <1>13 DEF CloseEnds
<1>14. CASE Exit(o)
  <2> DEFINE d == [ws[o] EXCEPT !.link = FALSE, !.bits = @ \cup {"STOPPED"}, !.task = "stopped"]
  <2>1. ws[o].life = "live" /\ ws[o].task = "exit" /\ UNCHANGED up /\ ws' = [ws EXCEPT ![o] = d]
    BY <1>14 DEF Exit
  <2>2. /\ d.life = ws[o].life /\ d.task = "stopped" /\ d.lock = ws[o].lock
        /\ d.closed = ws[o].closed /\ ws[o].bits \subseteq d.bits
    <3>1. ws[o] \in Objects
      BY <1>1
    <3>2. /\ d.life = ws[o].life /\ d.task = "stopped" /\ d.lock = ws[o].lock
          /\ d.closed = ws[o].closed /\ d.bits = ws[o].bits \cup {"STOPPED"}
      BY <3>1
    <3>3. QED
      BY <3>2
  <2>5. d \in Objects
    <3>1. ws[o] \in Objects
      BY <1>1
    <3>2. ws[o].bits \cup {"STOPPED"} \in SUBSET Bits
      BY <3>1
    <3>3. QED
      BY <3>1, <3>2
  <2> HIDE DEF d
  <2>3. ws'[o] = d
    BY <1>1, <2>1
  <2>4. GoodChange(ws[o], d)
    BY <2>1, <2>2, <2>5
  <2>6. QED
    BY <2>1, <2>3, <2>4
<1>15. CASE Finish(o)
  BY <1>1, <1>15 DEF Finish
<1>18. QED
  BY <1>2, <1>3, <1>4, <1>5, <1>8, <1>9, <1>10, <1>11, <1>12, <1>13, <1>14, <1>15, <1>16, <1>17, <1>19,
     <1>20
     DEF TaskStep, TakesLock

-----------------------------------------------------------------------------
(* Steps.                                                                  *)

LEMMA HandleSet == 0 \in Handles /\ Clients = Handles \ {0}
BY ClientsAssumption DEF Handles, Clients

\* One object changes: the parts of the invariant that speak of objects only.
LEMMA ObjectChange ==
  ASSUME UplinkInv, NEW o \in Clients, ws' = [ws EXCEPT ![o] = ws'[o]], ws'[o] \in Objects,
         (Ending(ws[o]) => HasReason(ws[o])) => (Ending(ws'[o]) => HasReason(ws'[o])),
         ws'[o].life # "unborn"
  PROVE  /\ ws' \in [Clients -> Objects]
         /\ \A p \in Clients \ {o} : ws'[p] = ws[p]
         /\ EndHasReason'
         /\ \A h \in Handles : h # 0 /\ ws[h].life # "unborn" => ws'[h].life # "unborn"
<1>1. ws \in [Clients -> Objects]
  BY DEF UplinkInv, TypeOK
<1>2. ws' \in [Clients -> Objects] /\ \A p \in Clients \ {o} : ws'[p] = ws[p]
  BY <1>1
<1>3. EndHasReason'
  <2> SUFFICES ASSUME NEW p \in Clients PROVE Ending(ws'[p]) => HasReason(ws'[p])
    BY DEF EndHasReason, Ending, HasReason
  <2>1. Ending(ws[p]) => HasReason(ws[p])
    BY DEF UplinkInv, EndHasReason
  <2>2. CASE p = o
    BY <2>1, <2>2
  <2>3. CASE p # o
    BY <1>2, <2>1, <2>3 DEF Ending, HasReason
  <2>4. QED
    BY <2>2, <2>3
<1>4. \A h \in Handles : h # 0 => h \in Clients
  BY ClientsAssumption DEF Handles, Clients
<1>5. QED
  BY <1>2, <1>3, <1>4

\* A client task steps.
LEMMA ClientStep == UplinkInv /\ Client => UplinkInv'
<1> SUFFICES ASSUME UplinkInv, NEW o \in Clients, TaskStep(o),
                    UNCHANGED <<client, mainVars, httpdVars, coreVars>>
             PROVE  UplinkInv'
  BY DEF Client
<1>1. /\ ws[o].life = "live" /\ UNCHANGED up
      /\ ws' = [ws EXCEPT ![o] = ws'[o]] /\ GoodChange(ws[o], ws'[o])
  BY TaskChanges DEF UplinkInv
<1>2. /\ ws' \in [Clients -> Objects]
      /\ \A p \in Clients \ {o} : ws'[p] = ws[p]
      /\ EndHasReason'
      /\ \A h \in Handles : h # 0 /\ ws[h].life # "unborn" => ws'[h].life # "unborn"
  BY <1>1, ObjectChange DEF GoodChange
<1>3. TypeOK'
  BY <1>1, <1>2 DEF UplinkInv, TypeOK, mainVars, httpdVars, postVars, coreVars
<1>4. LockHasHolder'
  <2> SUFFICES ASSUME NEW p \in Clients, ws'[p].life = "live"
               PROVE  /\ ws'[p].lock = "task" <=> ws'[p].task = "locked"
                      /\ ws'[p].lock = "sender" <=> corePc = "write" /\ coreObj = p
    BY DEF LockHasHolder, coreVars
  <2>1. CASE p = o
    BY <1>1, <2>1 DEF UplinkInv, LockHasHolder, GoodChange
  <2>2. CASE p # o
    BY <1>2, <2>2 DEF UplinkInv, LockHasHolder
  <2>3. QED
    BY <2>1, <2>2
<1>5. HandlesBorn'
  BY <1>2, <1>3 DEF UplinkInv, HandlesBorn, TypeOK, mainVars, httpdVars, postVars, coreVars
<1>6. QED
  BY <1>2, <1>3, <1>4, <1>5 DEF UplinkInv

\* Steps that change no object.
LEMMA SameObjects ==
  ASSUME UplinkInv, UNCHANGED ws
  PROVE  /\ ws' \in [Clients -> Objects] /\ EndHasReason'
         /\ \A h : ws'[h] = ws[h]
BY DEF UplinkInv, TypeOK, EndHasReason, Ending, HasReason

LEMMA NetworkStep == UplinkInv /\ NetworkChanges => UplinkInv'
<1> SUFFICES ASSUME UplinkInv, NetworkChanges PROVE UplinkInv'
  OBVIOUS
<1> USE DEF NetworkChanges, Network, mainVars, httpdVars, postVars, coreVars
<1>1. TypeOK'
  BY DEF UplinkInv, TypeOK
<1>2. LockHasHolder' /\ HandlesBorn'
  BY DEF UplinkInv, LockHasHolder, HandlesBorn
<1>3. QED
  BY <1>1, <1>2, SameObjects DEF UplinkInv

LEMMA MainAssignsStep == UplinkInv /\ MainAssigns => UplinkInv'
<1> SUFFICES ASSUME UplinkInv, MainAssigns PROVE UplinkInv'
  OBVIOUS
<1> USE DEF MainAssigns, wsVars, httpdVars, postVars, coreVars
<1>1. TypeOK'
  BY HandleSet DEF UplinkInv, TypeOK
<1>2. LockHasHolder'
  BY DEF UplinkInv, LockHasHolder
<1>3. HandlesBorn'
  BY DEF UplinkInv, HandlesBorn
<1>4. QED
  BY <1>1, <1>2, <1>3, SameObjects DEF UplinkInv

LEMMA PostStep == UplinkInv /\ (\E set \in BOOLEAN : Post(set)) => UplinkInv'
<1> SUFFICES ASSUME UplinkInv, NEW set \in BOOLEAN, Post(set) PROVE UplinkInv'
  OBVIOUS
<1> USE DEF Post, HttpdGoes, wsVars, mainVars, coreVars
<1>1. TypeOK'
  BY DEF UplinkInv, TypeOK
<1>2. LockHasHolder' /\ HandlesBorn'
  BY DEF UplinkInv, LockHasHolder, HandlesBorn
<1>3. QED
  BY <1>1, <1>2, SameObjects DEF UplinkInv

\* A start gives a handle of an object that lives, or none.
LEMMA StartGives ==
  ASSUME UplinkInv, NEW new \in Handles, StartClient(new)
  PROVE  /\ ws' \in [Clients -> Objects]
         /\ EndHasReason'
         /\ \A h \in Handles : h # 0 /\ ws[h].life # "unborn" => ws'[h].life # "unborn"
         /\ new # 0 => ws'[new].life # "unborn"
         /\ LockHasHolder /\ UNCHANGED coreVars => LockHasHolder'
<1>1. CASE UNCHANGED ws /\ new = 0
  BY <1>1, SameObjects DEF LockHasHolder, coreVars
<1>2. ASSUME NEW c \in {Started, Initialised}, Fresh(new), ws' = [ws EXCEPT ![new] = c], new # 0
      PROVE  /\ ws' \in [Clients -> Objects]
             /\ EndHasReason'
             /\ \A h \in Handles : h # 0 /\ ws[h].life # "unborn" => ws'[h].life # "unborn"
             /\ new # 0 => ws'[new].life # "unborn"
             /\ LockHasHolder /\ UNCHANGED coreVars => LockHasHolder'
  <2>1. new \in Clients
    BY <1>2, ClientsAssumption DEF Handles, Clients
  <2>2. ws \in [Clients -> Objects]
    BY DEF UplinkInv, TypeOK
  <2>3. ws' = [ws EXCEPT ![new] = ws'[new]] /\ ws'[new] = c /\ ws[new].life = "unborn"
    BY <1>2, <2>1, <2>2, ClientsAssumption DEF Fresh, Clients
  <2>4. ~Ending(c)
    BY NewObjects DEF Ending
  <2>5. /\ ws' \in [Clients -> Objects]
        /\ \A p \in Clients \ {new} : ws'[p] = ws[p]
        /\ EndHasReason'
        /\ \A h \in Handles : h # 0 /\ ws[h].life # "unborn" => ws'[h].life # "unborn"
    BY <2>1, <2>3, <2>4, NewObjects, ObjectChange
  <2>6. ASSUME UNCHANGED coreVars PROVE LockHasHolder'
    <3> SUFFICES ASSUME NEW p \in Clients, ws'[p].life = "live"
                 PROVE  /\ ws'[p].lock = "task" <=> ws'[p].task = "locked"
                        /\ ws'[p].lock = "sender" <=> corePc = "write" /\ coreObj = p
      BY <2>6 DEF LockHasHolder, coreVars
    <3>1. CASE p = new
      <4>1. ~(corePc = "write" /\ coreObj = new)
        BY <1>2, <2>3 DEF UplinkInv, HandlesBorn
      <4>2. QED
        BY <3>1, <4>1, <2>3, NewObjects
    <3>2. CASE p # new
      BY <2>5, <3>2 DEF UplinkInv, LockHasHolder
    <3>3. QED
      BY <3>1, <3>2
  <2>7. QED
    BY <2>3, <2>5, <2>6, NewObjects
<1>3. QED
  BY <1>1, <1>2, ClientsAssumption DEF StartClient, Fresh, Clients

LEMMA MainStartsStep == UplinkInv /\ MainStarts => UplinkInv'
<1> SUFFICES ASSUME UplinkInv, MainStarts PROVE UplinkInv'
  OBVIOUS
<1> USE DEF MainStarts
<1>1. /\ ws' \in [Clients -> Objects]
      /\ EndHasReason'
      /\ \A h \in Handles : h # 0 /\ ws[h].life # "unborn" => ws'[h].life # "unborn"
      /\ mainNew' # 0 => ws'[mainNew'].life # "unborn"
      /\ LockHasHolder'
  BY StartGives DEF UplinkInv
<1>2. TypeOK'
  BY <1>1 DEF UplinkInv, TypeOK, httpdVars, postVars, coreVars
<1>3. HandlesBorn'
  BY <1>1, <1>2 DEF UplinkInv, HandlesBorn, TypeOK, httpdVars, postVars, coreVars
<1>4. QED
  BY <1>1, <1>2, <1>3 DEF UplinkInv

LEMMA HttpdStartsStep == UplinkInv /\ HttpdStarts => UplinkInv'
<1> SUFFICES ASSUME UplinkInv, HttpdStarts PROVE UplinkInv'
  OBVIOUS
<1> USE DEF HttpdStarts, HttpdGoes
<1>1. /\ ws' \in [Clients -> Objects]
      /\ EndHasReason'
      /\ \A h \in Handles : h # 0 /\ ws[h].life # "unborn" => ws'[h].life # "unborn"
      /\ httpdNew' # 0 => ws'[httpdNew'].life # "unborn"
      /\ LockHasHolder'
  BY StartGives DEF UplinkInv
<1>2. TypeOK'
  BY <1>1 DEF UplinkInv, TypeOK, postVars, mainVars, coreVars
<1>3. HandlesBorn'
  BY <1>1, <1>2 DEF UplinkInv, HandlesBorn, TypeOK, mainVars, coreVars
<1>4. QED
  BY <1>1, <1>2, <1>3 DEF UplinkInv

\* What httpd does to an object that it stops or destroys leaves the lock with its
\* holder: the object's lock and the place of its task stay, or it is gone.
LEMMA HttpdChange ==
  ASSUME UplinkInv, NEW o \in Clients, ws' = [ws EXCEPT ![o] = ws'[o]], ws'[o] \in Objects,
         Ending(ws'[o]) => HasReason(ws'[o]) \/ (Ending(ws[o]) /\ (HasReason(ws[o]) => HasReason(ws'[o]))),
         ws'[o].life # "unborn",
         ws'[o].life = "live" =>
           ws[o].life = "live" /\ ws'[o].lock = ws[o].lock /\ ws'[o].task = ws[o].task,
         UNCHANGED coreVars
  PROVE  /\ ws' \in [Clients -> Objects] /\ EndHasReason' /\ LockHasHolder'
         /\ \A h \in Handles : h # 0 /\ ws[h].life # "unborn" => ws'[h].life # "unborn"
<1>1. /\ ws' \in [Clients -> Objects]
      /\ \A p \in Clients \ {o} : ws'[p] = ws[p]
      /\ EndHasReason'
      /\ \A h \in Handles : h # 0 /\ ws[h].life # "unborn" => ws'[h].life # "unborn"
  BY ObjectChange
<1>2. LockHasHolder'
  <2> SUFFICES ASSUME NEW p \in Clients, ws'[p].life = "live"
               PROVE  /\ ws'[p].lock = "task" <=> ws'[p].task = "locked"
                      /\ ws'[p].lock = "sender" <=> corePc = "write" /\ coreObj = p
    BY DEF LockHasHolder, coreVars
  <2>1. CASE p = o
    BY <2>1 DEF UplinkInv, LockHasHolder
  <2>2. CASE p # o
    BY <1>1, <2>2 DEF UplinkInv, LockHasHolder
  <2>3. QED
    BY <2>1, <2>2
<1>3. QED
  BY <1>1, <1>2

\* Stop and Destroy ask the task of "client" to end, or change no object.
LEMMA AsksStep == UplinkInv /\ (Stop \/ Destroy) => UplinkInv'
<1> SUFFICES ASSUME UplinkInv, Stop \/ Destroy PROVE UplinkInv'
  OBVIOUS
<1> USE DEF HttpdGoes, mainVars, coreVars
<1>1. /\ UNCHANGED ws \/ (client # 0 /\ ws' = [ws EXCEPT ![client] = Asked(ws[client])])
      /\ httpdObj' = client /\ UNCHANGED <<up, client, postVars, mainVars, httpdNew, coreVars>>
      /\ httpdPc' \in {"start", "destroy", "stopping", "forget", "free", "ending"}
      /\ client = 0 => httpdPc' \in {"start", "forget"}
  <2>1. CASE Stop
    <3>1. UNCHANGED ws \/ (client # 0 /\ ws' = [ws EXCEPT ![client] = Asked(ws[client])])
      BY <2>1, Zenon DEF Stop
    <3>2. QED
      BY <2>1, <3>1 DEF Stop
  <2>2. CASE Destroy
    <3>1. UNCHANGED ws \/ (client # 0 /\ ws' = [ws EXCEPT ![client] = Asked(ws[client])])
      BY <2>2, Zenon DEF Destroy
    <3>2. QED
      BY <2>2, <3>1 DEF Destroy
  <2>3. QED
    BY <2>1, <2>2
<1>2. /\ ws' \in [Clients -> Objects] /\ EndHasReason' /\ LockHasHolder'
      /\ \A h \in Handles : h # 0 /\ ws[h].life # "unborn" => ws'[h].life # "unborn"
  <2>1. CASE UNCHANGED ws
    BY <1>1, <2>1, SameObjects DEF UplinkInv, LockHasHolder
  <2>2. CASE client # 0 /\ ws' = [ws EXCEPT ![client] = Asked(ws[client])]
    <3>1. client \in Clients /\ ws \in [Clients -> Objects]
      BY <2>2, HandleSet DEF UplinkInv, TypeOK
    <3>2. ws'[client] = Asked(ws[client]) /\ ws' = [ws EXCEPT ![client] = ws'[client]]
      BY <2>2, <3>1
    <3>3. /\ ws'[client] \in Objects /\ ws'[client].life = ws[client].life
          /\ ws'[client].lock = ws[client].lock /\ ws'[client].task = ws[client].task
          /\ HasReason(ws'[client])
      BY <3>1, <3>2, ChangedObjects
    <3>4. ws[client].life # "unborn"
      BY <2>2 DEF UplinkInv, HandlesBorn
    <3>5. QED
      BY <1>1, <3>1, <3>2, <3>3, <3>4, HttpdChange
  <2>3. QED
    BY <1>1, <2>1, <2>2
<1>3. TypeOK'
  BY <1>1, <1>2 DEF UplinkInv, TypeOK, postVars
<1>4. HandlesBorn'
  <2>1. {client, mainNew, httpdObj, httpdNew, coreObj} \subseteq Handles
    BY DEF UplinkInv, TypeOK
  <2>2. \A h \in {client, mainNew, httpdNew, coreObj} : h # 0 => ws'[h].life # "unborn"
    BY <1>2, <2>1 DEF UplinkInv, HandlesBorn
  <2>3. QED
    BY <1>1, <2>2 DEF UplinkInv, HandlesBorn
<1>5. QED
  BY <1>2, <1>3, <1>4 DEF UplinkInv

LEMMA StoppedStep == UplinkInv /\ Stopped => UplinkInv'
<1> SUFFICES ASSUME UplinkInv, Stopped PROVE UplinkInv'
  OBVIOUS
<1> USE DEF Stopped, HttpdGoes, mainVars, coreVars
<1>1. httpdObj \in Clients /\ ws[httpdObj].life # "unborn" /\ ws \in [Clients -> Objects]
  BY HandleSet DEF UplinkInv, TypeOK, HandlesBorn
<1>2. ws' = [ws EXCEPT ![httpdObj] = ws'[httpdObj]]
      /\ ws'[httpdObj] = [ws[httpdObj] EXCEPT !.state = "UNKNOW"]
  BY <1>1
<1>3. /\ ws'[httpdObj] \in Objects /\ ws'[httpdObj].life = ws[httpdObj].life
      /\ ws'[httpdObj].lock = ws[httpdObj].lock /\ ws'[httpdObj].task = ws[httpdObj].task
      /\ Ending(ws'[httpdObj]) => Ending(ws[httpdObj])
      /\ HasReason(ws[httpdObj]) => HasReason(ws'[httpdObj])
  BY <1>1, <1>2 DEF Objects, States, Ending, HasReason
<1>4. /\ ws' \in [Clients -> Objects] /\ EndHasReason' /\ LockHasHolder'
      /\ \A h \in Handles : h # 0 /\ ws[h].life # "unborn" => ws'[h].life # "unborn"
  BY <1>1, <1>2, <1>3, HttpdChange
<1>5. TypeOK'
  BY <1>4 DEF UplinkInv, TypeOK, postVars
<1>6. HandlesBorn'
  BY <1>1, <1>4 DEF UplinkInv, HandlesBorn, TypeOK
<1>7. QED
  BY <1>4, <1>5, <1>6 DEF UplinkInv

LEMMA FreeStep == UplinkInv /\ Free => UplinkInv'
<1> SUFFICES ASSUME UplinkInv, Free PROVE UplinkInv'
  OBVIOUS
<1> USE DEF Free, Frees, HttpdGoes, mainVars, coreVars
<1>1. httpdObj \in Clients /\ ws \in [Clients -> Objects]
  BY HandleSet DEF UplinkInv, TypeOK, HandlesBorn
<1>2. ws' = [ws EXCEPT ![httpdObj] = ws'[httpdObj]] /\ ws'[httpdObj] = Freed
  BY <1>1
<1>3. ~Ending(Freed)
  BY NewObjects DEF Ending
<1>4. /\ ws' \in [Clients -> Objects] /\ EndHasReason' /\ LockHasHolder'
      /\ \A h \in Handles : h # 0 /\ ws[h].life # "unborn" => ws'[h].life # "unborn"
  BY <1>1, <1>2, <1>3, NewObjects, HttpdChange
<1>5. TypeOK'
  BY <1>4, HandleSet DEF UplinkInv, TypeOK, postVars
<1>6. HandlesBorn'
  BY <1>4 DEF UplinkInv, HandlesBorn, TypeOK
<1>7. QED
  BY <1>4, <1>5, <1>6 DEF UplinkInv

LEMMA ForgetStep == UplinkInv /\ (Forget \/ HttpdAssigns) => UplinkInv'
<1> SUFFICES ASSUME UplinkInv, Forget \/ HttpdAssigns PROVE UplinkInv'
  OBVIOUS
<1> USE DEF Forget, HttpdAssigns, HttpdGoes, wsVars, postVars, mainVars, coreVars
<1>1. TypeOK'
  BY HandleSet DEF UplinkInv, TypeOK
<1>2. LockHasHolder'
  BY DEF UplinkInv, LockHasHolder
<1>3. HandlesBorn'
  BY DEF UplinkInv, HandlesBorn
<1>4. QED
  BY <1>1, <1>2, <1>3, SameObjects DEF UplinkInv

\* A send that takes no lock and gives none.
LEMMA SendIdleStep == UplinkInv /\ (Check \/ Enter \/ GiveUp) => UplinkInv'
<1> SUFFICES ASSUME UplinkInv, Check \/ Enter \/ GiveUp PROVE UplinkInv'
  OBVIOUS
<1> USE DEF CoreGoes, wsVars, mainVars, httpdVars, postVars
<1>1. /\ UNCHANGED <<ws, up, client, mainVars, httpdVars>>
      /\ corePc # "write" /\ corePc' \in {"idle", "format", "lock"}
      /\ \/ UNCHANGED coreObj /\ corePc' # "lock"
         \/ coreObj' = client /\ client # 0
         \/ coreObj' = 0 /\ corePc' = "idle"
  BY DEF Check, Enter, GiveUp, Answers
<1>2. TypeOK'
  BY <1>1, HandleSet DEF UplinkInv, TypeOK
<1>3. LockHasHolder'
  BY <1>1 DEF UplinkInv, LockHasHolder
<1>4. HandlesBorn'
  BY <1>1 DEF UplinkInv, HandlesBorn
<1>5. QED
  BY <1>1, <1>2, <1>3, <1>4, SameObjects DEF UplinkInv

LEMMA LockStep == UplinkInv /\ Lock => UplinkInv'
<1> SUFFICES ASSUME UplinkInv, Lock PROVE UplinkInv'
  OBVIOUS
<1> USE DEF Lock, CoreGoes, mainVars, httpdVars, postVars
<1>1. coreObj \in Clients /\ ws \in [Clients -> Objects]
  BY HandleSet DEF UplinkInv, TypeOK, HandlesBorn
<1>2. ws' = [ws EXCEPT ![coreObj] = ws'[coreObj]]
      /\ ws'[coreObj] = [ws[coreObj] EXCEPT !.lock = "sender"]
  BY <1>1
<1>3. /\ ws'[coreObj] \in Objects /\ ws'[coreObj].life = "live"
      /\ ws'[coreObj].lock = "sender" /\ ws'[coreObj].task = ws[coreObj].task
      /\ Ending(ws'[coreObj]) => Ending(ws[coreObj])
      /\ HasReason(ws[coreObj]) => HasReason(ws'[coreObj])
  BY <1>1, <1>2 DEF Objects, Ending, HasReason
<1>4. /\ ws' \in [Clients -> Objects] /\ EndHasReason'
      /\ \A p \in Clients \ {coreObj} : ws'[p] = ws[p]
      /\ \A h \in Handles : h # 0 /\ ws[h].life # "unborn" => ws'[h].life # "unborn"
  BY <1>1, <1>2, <1>3, ObjectChange
<1>5. TypeOK'
  BY <1>4 DEF UplinkInv, TypeOK
<1>6. LockHasHolder'
  <2> SUFFICES ASSUME NEW p \in Clients, ws'[p].life = "live"
               PROVE  /\ ws'[p].lock = "task" <=> ws'[p].task = "locked"
                      /\ ws'[p].lock = "sender" <=> coreObj = p
    BY DEF LockHasHolder
  <2>1. CASE p = coreObj
    BY <1>3, <2>1 DEF UplinkInv, LockHasHolder
  <2>2. CASE p # coreObj
    BY <1>4, <2>2 DEF UplinkInv, LockHasHolder
  <2>3. QED
    BY <2>1, <2>2
<1>7. HandlesBorn'
  BY <1>4 DEF UplinkInv, HandlesBorn, TypeOK
<1>8. QED
  BY <1>4, <1>5, <1>6, <1>7 DEF UplinkInv

LEMMA WriteStep == UplinkInv /\ Write => UplinkInv'
<1> SUFFICES ASSUME UplinkInv, Write PROVE UplinkInv'
  OBVIOUS
<1>1. /\ corePc = "write" /\ corePc' = "idle" /\ coreObj' = 0
      /\ UNCHANGED <<up, client, mainVars, httpdVars>>
  BY DEF Write, CoreGoes
<1>2. coreObj \in Clients /\ ws \in [Clients -> Objects]
  BY <1>1, HandleSet DEF UplinkInv, TypeOK, HandlesBorn
<1>3. CASE ws[coreObj].life = "live"
  <2>1. PICK d \in {ws[coreObj], Aborted(ws[coreObj])} : ws' = [ws EXCEPT ![coreObj] = Unlocked(d)]
    BY <1>3 DEF Write, GivesLock
  <2>2. /\ d \in Objects /\ d.life = "live" /\ d.task = ws[coreObj].task
        /\ d.run = ws[coreObj].run /\ d.bits = ws[coreObj].bits /\ d.closed = ws[coreObj].closed
        /\ d.state = "CLOSING" => ws[coreObj].state = "CLOSING"
    BY <1>2, <1>3, <2>1, ChangedObjects
  <2>3. /\ ws'[coreObj] \in Objects /\ ws'[coreObj].life = "live" /\ ws'[coreObj].lock = "free"
        /\ ws'[coreObj].task = d.task /\ ws'[coreObj].state = d.state
        /\ ws'[coreObj].run = d.run /\ ws'[coreObj].bits = d.bits
        /\ ws'[coreObj].closed = d.closed
        /\ ws' = [ws EXCEPT ![coreObj] = ws'[coreObj]]
    BY <1>2, <2>1, <2>2, ChangedObjects
  <2>4. (Ending(ws[coreObj]) => HasReason(ws[coreObj]))
           => (Ending(ws'[coreObj]) => HasReason(ws'[coreObj]))
    BY <2>2, <2>3 DEF Ending, HasReason
  <2>5. /\ ws' \in [Clients -> Objects] /\ EndHasReason'
        /\ \A p \in Clients \ {coreObj} : ws'[p] = ws[p]
        /\ \A h \in Handles : h # 0 /\ ws[h].life # "unborn" => ws'[h].life # "unborn"
    BY <1>2, <2>3, <2>4, ObjectChange
  <2>6. LockHasHolder'
    <3> SUFFICES ASSUME NEW p \in Clients, ws'[p].life = "live"
                 PROVE  /\ ws'[p].lock = "task" <=> ws'[p].task = "locked"
                        /\ ws'[p].lock # "sender"
      BY <1>1 DEF LockHasHolder
    <3>1. CASE p = coreObj
      BY <1>1, <1>3, <2>2, <2>3, <3>1 DEF UplinkInv, LockHasHolder
    <3>2. CASE p # coreObj
      BY <1>1, <2>5, <3>2 DEF UplinkInv, LockHasHolder
    <3>3. QED
      BY <3>1, <3>2
  <2>7. TypeOK'
    BY <1>1, <2>5, HandleSet DEF UplinkInv, TypeOK, mainVars, httpdVars, postVars
  <2>8. HandlesBorn'
    BY <1>1, <2>5 DEF UplinkInv, HandlesBorn, TypeOK, mainVars, httpdVars, postVars
  <2>9. QED
    BY <2>5, <2>6, <2>7, <2>8 DEF UplinkInv
<1>4. CASE ws[coreObj].life # "live" /\ UNCHANGED ws
  <2>1. TypeOK'
    BY <1>1, <1>4, HandleSet DEF UplinkInv, TypeOK, mainVars, httpdVars, postVars
  <2>2. LockHasHolder'
    BY <1>1, <1>4 DEF UplinkInv, LockHasHolder
  <2>3. HandlesBorn'
    BY <1>1, <1>4 DEF UplinkInv, HandlesBorn, mainVars, httpdVars, postVars
  <2>4. QED
    BY <1>4, <2>1, <2>2, <2>3, SameObjects DEF UplinkInv
<1>5. QED
  BY <1>3, <1>4 DEF Write

-----------------------------------------------------------------------------
LEMMA UplinkInit == Init => UplinkInv
<1> SUFFICES ASSUME Init PROVE UplinkInv
  OBVIOUS
<1> USE DEF Init, WsInit
<1>1. Unborn \in Objects /\ ~Ending(Unborn) /\ Unborn.life = "unborn"
  BY DEF Unborn, Objects, States, Bits, Places, Ending
<1>2. TypeOK
  BY <1>1, HandleSet DEF TypeOK
<1>3. LockHasHolder /\ EndHasReason /\ HandlesBorn
  BY <1>1 DEF LockHasHolder, EndHasReason, HandlesBorn
<1>4. QED
  BY <1>2, <1>3 DEF UplinkInv

LEMMA UplinkStutter == UplinkInv /\ UNCHANGED vars => UplinkInv'
<1> SUFFICES ASSUME UplinkInv, UNCHANGED vars PROVE UplinkInv'
  OBVIOUS
<1> USE DEF vars, wsVars, mainVars, httpdVars, postVars, coreVars
<1>1. TypeOK'
  BY DEF UplinkInv, TypeOK
<1>2. LockHasHolder' /\ HandlesBorn'
  BY DEF UplinkInv, LockHasHolder, HandlesBorn
<1>3. QED
  BY <1>1, <1>2, SameObjects DEF UplinkInv

LEMMA UplinkNext == UplinkInv /\ [Next]_vars => UplinkInv'
BY ClientStep, NetworkStep, MainStartsStep, MainAssignsStep, PostStep, AsksStep, StoppedStep,
   FreeStep, ForgetStep, HttpdStartsStep, SendIdleStep, LockStep, WriteStep, UplinkStutter
   DEF Next, Restart, Send

\* However many clients there are: every variable keeps its type, a client's lock is
\* held by its task or the sender that is at it, a client that ends was asked to or
\* closed by the server, and every handle was given by a start.
THEOREM UplinkInvariant == Spec => []UplinkInv
BY UplinkInit, UplinkNext, PTL DEF Spec

\* No failed connect, read, write or PING ends a client task, in whatever order task,
\* sender, boot and restart act.
THEOREM ClientEndsOnlyAsked == Spec => []EndsOnlyAsked
<1>1. UplinkInv => EndsOnlyAsked
  BY DEF UplinkInv, EndHasReason, EndsOnlyAsked, Ending
<1>2. QED
  BY <1>1, UplinkInvariant, PTL

-----------------------------------------------------------------------------
(***************************************************************************)
(* At most one client is lost, and only by a post during the boot.  "Lost" *)
(* also counts a client that "client" leads to only until the restart that *)
(* runs overwrites it; then no step but app_main's one assignment loses    *)
(* any.                                                                    *)
(***************************************************************************)

\* The variables that keep a client from being lost, each where it does.
Kept(o) ==
  \/ o = client  /\ httpdPc \in {"idle", "stop", "stopping", "destroy"}
  \/ o = httpdObj /\ httpdPc \in {"ending", "free"}
  \/ o = httpdNew /\ httpdPc = "assign"
  \/ o = mainNew /\ mainPc = "assign"

Lost == {o \in Clients : ws[o].life = "live" /\ ~Kept(o)}

OrphanInv ==
  /\ mainPc # "done" \/ ~early => Lost = {}
  /\ \E x \in Handles : Lost \subseteq {x}
  /\ httpdPc \in {"ending", "free"} /\ httpdObj # client => early /\ Lost \subseteq {client}
  /\ ~early /\ mainPc # "done" => httpdPc = "idle" /\ client = 0

-----------------------------------------------------------------------------
(* Which objects a step leaves alive.                                      *)

LEMMA StartLives ==
  ASSUME UplinkInv, NEW new \in Handles, StartClient(new),
         NEW p \in Clients, ws'[p].life = "live"
  PROVE  ws[p].life = "live" \/ p = new
BY DEF StartClient, Fresh, UplinkInv, TypeOK

LEMMA TaskLives ==
  ASSUME UplinkInv, Client, NEW p \in Clients, ws'[p].life = "live"
  PROVE  ws[p].life = "live"
<1>1. PICK o \in Clients : TaskStep(o)
  BY DEF Client
<1>2. ws[o].life = "live" /\ ws' = [ws EXCEPT ![o] = ws'[o]]
  BY <1>1, TaskChanges DEF UplinkInv
<1>3. ws \in [Clients -> Objects]
  BY DEF UplinkInv, TypeOK
<1>4. p # o => ws'[p] = ws[p]
  BY <1>2, <1>3
<1> QED
  BY <1>2, <1>4

LEMMA RestartLives ==
  ASSUME UplinkInv, Stop \/ Destroy \/ Stopped \/ Free, NEW p \in Clients, ws'[p].life = "live"
  PROVE  ws[p].life = "live" /\ (Free => p # httpdObj)
<1>1. ws \in [Clients -> Objects]
  BY DEF UplinkInv, TypeOK
<1>2. CASE Stop \/ Destroy
  <2>1. ws' = ws \/ (client \in Clients /\ ws' = [ws EXCEPT ![client] = Asked(ws[client])])
    BY <1>2, HandleSet DEF Stop, Destroy, UplinkInv, TypeOK
  <2>2. client \in Clients => Asked(ws[client]).life = ws[client].life
    BY <1>1, ChangedObjects
  <2>3. httpdPc # "free"
    BY <1>2 DEF Stop, Destroy, HttpdGoes
  <2> QED
    BY <1>1, <2>1, <2>2, <2>3 DEF Free, HttpdGoes
<1>3. CASE Stopped
  <2>1. ws' = [ws EXCEPT ![httpdObj].state = "UNKNOW"] /\ httpdPc # "free"
    BY <1>3 DEF Stopped, HttpdGoes
  <2>2. ws'[p].life = ws[p].life
    BY <1>1, <2>1 DEF Objects
  <2> QED
    BY <2>1, <2>2 DEF Free, HttpdGoes
<1>4. CASE Free
  <2>1. ws' = [ws EXCEPT ![httpdObj] = Freed] /\ httpdObj \in Clients
    BY <1>4, HandleSet DEF Free, Frees, HttpdGoes, UplinkInv, TypeOK, HandlesBorn
  <2> QED
    BY <1>1, <2>1, NewObjects
<1> QED
  BY <1>2, <1>3, <1>4

LEMMA SendLives ==
  ASSUME UplinkInv, Check \/ Send, NEW p \in Clients, ws'[p].life = "live"
  PROVE  ws[p].life = "live"
<1>1. ws \in [Clients -> Objects]
  BY DEF UplinkInv, TypeOK
<1>2. CASE Check \/ Enter \/ GiveUp
  BY <1>2 DEF Check, Enter, GiveUp, wsVars
<1>3. CASE Lock
  BY <1>1, <1>3 DEF Lock, Objects
<1>4. CASE Write
  <2>1. \/ ws' = ws
        \/ ws' = [ws EXCEPT ![coreObj] = Unlocked(ws[coreObj])]
        \/ ws' = [ws EXCEPT ![coreObj] = Unlocked(Aborted(ws[coreObj]))]
    BY <1>4 DEF Write, GivesLock
  <2>2. coreObj \in Clients
    BY <1>4, HandleSet DEF Write, CoreGoes, UplinkInv, TypeOK, HandlesBorn
  <2>3. ws[coreObj] \in Objects
    BY <1>1, <2>2
  <2>4. /\ Unlocked(ws[coreObj]).life = ws[coreObj].life
        /\ Unlocked(Aborted(ws[coreObj])).life = ws[coreObj].life
    BY <2>3, ChangedObjects
  <2> QED
    BY <1>1, <2>1, <2>2, <2>4
<1> QED
  BY <1>2, <1>3, <1>4 DEF Send

-----------------------------------------------------------------------------
(* Only app_main's assignment loses a client.                              *)

LEMMA LostShrinks ==
  ASSUME UplinkInv, Next, ~MainAssigns
  PROVE  Lost' \subseteq Lost
<1> SUFFICES ASSUME NEW p \in Clients, ws'[p].life = "live", ~Kept(p)'
             PROVE  ws[p].life = "live" /\ ~Kept(p)
  BY DEF Lost
<1>1. CASE Client \/ NetworkChanges \/ Check \/ Send
  <2>1. UNCHANGED <<client, mainVars, httpdVars>>
    BY <1>1 DEF Client, NetworkChanges, Check, Send, Enter, Lock, GiveUp, Write
  <2>2. ws[p].life = "live"
    BY <1>1, TaskLives, SendLives DEF NetworkChanges, Network
  <2> QED
    BY <2>1, <2>2 DEF Kept, mainVars, httpdVars
<1>2. CASE MainStarts
  <2>1. StartClient(mainNew') /\ mainNew' \in Handles /\ mainPc' = "assign" /\ mainPc # "assign"
        /\ UNCHANGED <<client, httpdVars>>
    BY <1>2 DEF MainStarts
  <2>2. p # mainNew'
    BY <2>1 DEF Kept
  <2>3. ws[p].life = "live"
    BY <2>1, <2>2, StartLives
  <2> QED
    BY <2>1, <2>3 DEF Kept, httpdVars
<1>3. CASE \E set \in BOOLEAN : Post(set)
  BY <1>3 DEF Post, HttpdGoes, wsVars, mainVars, Kept
<1>4. CASE Stop \/ Destroy \/ Stopped \/ Free
  <2>1. ws[p].life = "live" /\ (Free => p # httpdObj)
    BY <1>4, RestartLives
  <2>2. p # 0
    BY HandleSet
  <2>3. CASE Stop
    BY <2>1, <2>2, <2>3 DEF Stop, HttpdGoes, mainVars, Kept
  <2>4. CASE Destroy
    BY <2>1, <2>2, <2>4 DEF Destroy, HttpdGoes, mainVars, Kept
  <2>5. CASE Stopped
    BY <2>1, <2>5 DEF Stopped, HttpdGoes, mainVars, Kept
  <2>6. CASE Free
    BY <2>1, <2>6 DEF Free, HttpdGoes, mainVars, Kept
  <2> QED
    BY <1>4, <2>3, <2>4, <2>5, <2>6
<1>5. CASE Forget
  BY <1>5 DEF Forget, HttpdGoes, wsVars, mainVars, Kept
<1>6. CASE HttpdStarts
  <2>1. StartClient(httpdNew') /\ httpdNew' \in Handles /\ httpdPc' = "assign" /\ httpdPc = "start"
        /\ UNCHANGED <<client, mainVars, httpdObj>>
    BY <1>6 DEF HttpdStarts, HttpdGoes
  <2>2. p # httpdNew'
    BY <2>1 DEF Kept
  <2>3. ws[p].life = "live"
    BY <2>1, <2>2, StartLives
  <2> QED
    BY <2>1, <2>3 DEF Kept, mainVars
<1>7. CASE HttpdAssigns
  BY <1>7 DEF HttpdAssigns, HttpdGoes, wsVars, mainVars, Kept
<1> QED
  BY <1>1, <1>2, <1>3, <1>4, <1>5, <1>6, <1>7 DEF Next, Restart

\* app_main loses the client it overwrites, or its own.
LEMMA MainLoses ==
  ASSUME UplinkInv, OrphanInv, MainAssigns
  PROVE  OrphanInv'
<1> USE DEF MainAssigns, wsVars, httpdVars, postVars
<1>1. mainPc = "assign" /\ Lost = {} /\ client' = mainNew /\ UNCHANGED <<ws, httpdPc, httpdObj, httpdNew, early>>
  BY DEF OrphanInv
<1>2. client \in Handles /\ client' \in Handles
  BY DEF UplinkInv, TypeOK
<1>3. ASSUME NEW p \in Lost'
      PROVE  /\ p \in Clients
             /\ IF httpdPc \in {"idle", "stop", "stopping", "destroy"} THEN p = client ELSE p = client'
  <2>1. p \in Clients /\ ws[p].life = "live" /\ ~Kept(p)'
    BY <1>1 DEF Lost
  <2>2. Kept(p)
    BY <1>1, <2>1 DEF Lost
  <2> QED
    BY <1>1, <2>1, <2>2 DEF Kept
<1>4. \E x \in Handles : Lost' \subseteq {x}
  BY <1>2, <1>3
<1>5. mainPc' = "done"
  OBVIOUS
<1>6. ~early => Lost' = {}
  <2>1. ~early => httpdPc = "idle" /\ client = 0
    BY <1>1 DEF OrphanInv
  <2> QED
    BY <1>3, <2>1, HandleSet
<1>7. httpdPc \in {"ending", "free"} => early /\ Lost' \subseteq {client'}
  <2>1. httpdPc \in {"ending", "free"} => early
    BY <1>1 DEF OrphanInv
  <2> QED
    BY <1>3, <2>1
<1> QED
  BY <1>1, <1>4, <1>5, <1>6, <1>7 DEF OrphanInv

\* Any other step loses none, and ends or frees what "client" leads to unless app_main
\* has assigned it since.
LEMMA OthersLoseNone ==
  ASSUME UplinkInv, OrphanInv, Next, ~MainAssigns
  PROVE  OrphanInv'
<1>1. Lost' \subseteq Lost
  BY LostShrinks
<1>2. (mainPc' # "done" => mainPc # "done") /\ (~early' => ~early)
  <2>1. CASE \E set \in BOOLEAN : Post(set)
    BY <2>1 DEF Post, mainVars
  <2>2. CASE MainStarts
    BY <2>2 DEF MainStarts, httpdVars, postVars
  <2>3. CASE Client \/ NetworkChanges \/ Check \/ Send
    <3>1. UNCHANGED <<mainVars, httpdVars>>
      BY <2>3 DEF Client, NetworkChanges, Check, Send, Enter, Lock, GiveUp, Write
    <3> QED
      BY <3>1 DEF mainVars, httpdVars, postVars
  <2>4. CASE Restart
    BY <2>4 DEF Restart, Stop, Destroy, Stopped, Free, Forget, HttpdStarts, HttpdAssigns,
                mainVars, postVars
  <2> QED
    BY <2>1, <2>2, <2>3, <2>4 DEF Next
<1>3. CASE Restart
  <2>1. mainPc' = mainPc /\ early' = early
    BY <1>3 DEF Restart, Stop, Destroy, Stopped, Free, Forget, HttpdStarts, HttpdAssigns, mainVars, postVars
  <2>2. httpdPc # "idle"
    BY <1>3 DEF Restart, Stop, Destroy, Stopped, Free, Forget, HttpdStarts, HttpdAssigns, HttpdGoes
  <2>3. ~(~early /\ mainPc # "done")
    BY <2>2 DEF OrphanInv
  <2>4. httpdPc' \in {"ending", "free"} =>
          /\ client' = client
          /\ httpdObj' = client \/ (httpdPc \in {"ending", "free"} /\ httpdObj' = httpdObj)
    BY <1>3 DEF Restart, Stop, Destroy, Stopped, Free, Forget, HttpdStarts, HttpdAssigns, HttpdGoes
  <2> QED
    BY <1>1, <2>1, <2>3, <2>4 DEF OrphanInv
<1>4. CASE ~Restart
  <2>1. UNCHANGED <<client, httpdObj>>
    BY <1>4 DEF Next, Send, Client, NetworkChanges, MainStarts, Post, Check, Enter, Lock, GiveUp, Write,
                httpdVars
  <2>2. httpdPc' # "stop" => httpdPc' = httpdPc
    BY <1>4 DEF Next, Send, Client, NetworkChanges, MainStarts, Post, Check, Enter, Lock, GiveUp, Write,
                httpdVars, HttpdGoes
  <2>3. httpdPc' # httpdPc => early' \/ mainPc' = "done"
    BY <1>4 DEF Next, Send, Client, NetworkChanges, MainStarts, Post, Check, Enter, Lock, GiveUp, Write,
                httpdVars, mainVars
  <2> QED
    BY <1>1, <1>2, <2>1, <2>2, <2>3 DEF OrphanInv
<1> QED
  BY <1>3, <1>4

-----------------------------------------------------------------------------
LEMMA OrphanInit == Init => OrphanInv
<1> SUFFICES ASSUME Init PROVE OrphanInv
  OBVIOUS
<1>1. Lost = {}
  BY DEF Init, WsInit, Unborn, Lost
<1> QED
  BY <1>1, HandleSet DEF Init, OrphanInv

LEMMA OrphanNext == UplinkInv /\ OrphanInv /\ [Next]_vars => OrphanInv'
<1> SUFFICES ASSUME UplinkInv, OrphanInv, [Next]_vars PROVE OrphanInv'
  OBVIOUS
<1>1. CASE Next
  BY <1>1, MainLoses, OthersLoseNone
<1>2. CASE UNCHANGED vars
  <2> USE <1>2 DEF vars, wsVars, mainVars, httpdVars, postVars
  <2>1. Lost' = Lost
    BY DEF Lost, Kept
  <2> QED
    BY <2>1 DEF OrphanInv
<1> QED
  BY <1>1, <1>2

\* An orphan is lost, or it is just being freed and its "client" is the one lost.
LEMMA OrphansAreLost == UplinkInv /\ OrphanInv => OrphanOnlyByBoot
<1> SUFFICES ASSUME UplinkInv, OrphanInv PROVE OrphanOnlyByBoot
  OBVIOUS
<1>1. /\ ~early => Orphans = {}
      /\ \E x \in Handles : Orphans \subseteq {x}
  <2>1. ASSUME NEW o \in Orphans
        PROVE  /\ o \in Clients /\ ws[o].life = "live" /\ o # client
               /\ o \in Lost \/ (httpdPc \in {"ending", "free"} /\ o = httpdObj)
    BY DEF Orphans, Held, Lost, Kept
  <2>2. CASE httpdPc \in {"ending", "free"} /\ httpdObj # client
    <3>1. early /\ Lost \subseteq {client} /\ httpdObj \in Handles
      BY <2>2 DEF OrphanInv, UplinkInv, TypeOK
    <3>2. Orphans \subseteq {httpdObj}
      BY <2>1, <3>1
    <3> QED
      BY <3>1, <3>2
  <2>3. CASE ~(httpdPc \in {"ending", "free"} /\ httpdObj # client)
    <3>1. Orphans \subseteq Lost
      BY <2>1, <2>3
    <3> QED
      BY <3>1 DEF OrphanInv
  <2> QED
    BY <2>2, <2>3
<1>2. PICK x \in Handles : Orphans \subseteq {x}
  BY <1>1
<1>3. Cardinality({x}) = 1 /\ IsFiniteSet({x})
  BY FS_Singleton
<1>4. Cardinality(Orphans) <= 1 /\ Cardinality(Orphans) \in Nat
  BY <1>2, <1>3, FS_Subset, FS_CardinalityType
<1>5. ~early => Cardinality(Orphans) = 0
  BY <1>1, FS_EmptySet
<1> QED
  BY <1>4, <1>5 DEF OrphanOnlyByBoot

\* However often the device number is posted: a client is lost only if that happens
\* during the boot, and then only one.
THEOREM OrphansOnlyByBoot == Spec => []OrphanOnlyByBoot
<1>1. Init => OrphanInv
  BY OrphanInit
<1>2. UplinkInv /\ OrphanInv /\ [Next]_vars => OrphanInv'
  BY OrphanNext
<1>3. UplinkInv /\ OrphanInv => OrphanOnlyByBoot
  BY OrphansAreLost
<1> QED
  BY <1>1, <1>2, <1>3, UplinkInvariant, PTL DEF Spec
=============================================================================

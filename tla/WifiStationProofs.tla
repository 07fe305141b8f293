-------------------------- MODULE WifiStationProofs --------------------------
(***************************************************************************)
(* The invariant of WifiStation for any number of retries and any length   *)
(* of the event queue.                                                     *)
(***************************************************************************)
EXTENDS WifiStation, TLAPS

-----------------------------------------------------------------------------
(* The event queue.                                                        *)

LEMMA Posted ==
  ASSUME events \in Seq(Events), NEW e \in Events, Posts(e)
  PROVE  /\ events' \in Seq(Events) /\ events' # <<>> /\ Len(events') <= MaxEvents
         /\ Last(events') = e
         /\ e # "STA_START" /\ Booting' => Booting
<1>1. Len(events) < MaxEvents /\ events' = Append(events, e)
  BY DEF Posts
<1>2. events' \in Seq(Events) /\ Len(events') = Len(events) + 1
  BY <1>1
<1>3. events'[Len(events')] = e /\ \A i \in 1..Len(events) : events'[i] = events[i]
  BY <1>1, <1>2
<1>4. DOMAIN events = 1..Len(events) /\ DOMAIN events' = 1..Len(events') /\ Len(events) \in Nat
  BY <1>2
<1>5. Len(events') <= MaxEvents /\ events' # <<>>
  BY <1>1, <1>2, <1>4, RetryAssumption
<1>6. Last(events') = e
  BY <1>3 DEF Last
<1>7. ASSUME e # "STA_START", Booting' PROVE Booting
  <2>1. PICK i \in 1..Len(events') : events'[i] = "STA_START"
    BY <1>4, <1>7 DEF Booting
  <2>2. i \in 1..Len(events) /\ events[i] = "STA_START"
    BY <1>2, <1>3, <1>4, <1>7, <2>1
  <2>3. QED
    BY <1>4, <2>2 DEF Booting
<1>8. QED
  BY <1>2, <1>5, <1>6, <1>7

LEMMA Taken ==
  ASSUME events \in Seq(Events), NEW e \in Events, Takes(e), Len(events) <= MaxEvents
  PROVE  /\ events' \in Seq(Events) /\ Len(events') <= MaxEvents
         /\ events' # <<>> => Last(events') = Last(events)
         /\ events' = <<>> => Last(events) = e
         /\ events # <<>> /\ Head(events) = e /\ pc = "ready"
         /\ Booting' => Booting
         /\ e = "STA_START" => Booting
<1>1. events # <<>> /\ events' = Tail(events) /\ Head(events) = e /\ pc = "ready"
  BY DEF Takes
<1>2. events' \in Seq(Events) /\ Len(events') = Len(events) - 1
      /\ \A i \in 1..Len(events') : events'[i] = events[i + 1]
  BY <1>1
<1>3. events[1] = e /\ Len(events) \in Nat \ {0}
  BY <1>1
<1>4. DOMAIN events = 1..Len(events) /\ DOMAIN events' = 1..Len(events')
  BY <1>2
<1>5. ASSUME events' # <<>> PROVE Last(events') = Last(events)
  <2>1. Len(events') \in 1..Len(events') /\ Len(events') + 1 = Len(events)
    BY <1>2, <1>3, <1>5
  <2>2. QED
    BY <1>2, <2>1 DEF Last
<1>6. ASSUME events' = <<>> PROVE Last(events) = e
  <2>1. Len(events) = 1
    BY <1>2, <1>3, <1>6
  <2>2. QED
    BY <1>3, <2>1 DEF Last
<1>7. ASSUME Booting' PROVE Booting
  <2>1. PICK i \in 1..Len(events') : events'[i] = "STA_START"
    BY <1>4, <1>7 DEF Booting
  <2>2. i + 1 \in 1..Len(events) /\ events[i + 1] = "STA_START"
    BY <1>2, <1>3, <2>1
  <2>3. QED
    BY <1>4, <2>2 DEF Booting
<1>8. ASSUME e = "STA_START" PROVE Booting
  <2>1. 1 \in 1..Len(events) /\ events[1] = "STA_START"
    BY <1>3, <1>8
  <2>2. QED
    BY <1>4, <2>1 DEF Booting
<1>9. Len(events') <= MaxEvents
  BY <1>2, <1>3, RetryAssumption
<1>10. QED
  BY <1>1, <1>2, <1>5, <1>6, <1>7, <1>8, <1>9

\* A loss is handled with an idle station and leaves the queue empty.
LEMMA LossTaken ==
  ASSUME events \in Seq(Events), LossIsLast, Takes("DISCONNECTED")
  PROVE  link = "idle" /\ events' = <<>>
<1>1. events # <<>> /\ events' = Tail(events) /\ events[1] = "DISCONNECTED"
  BY DEF Takes
<1>2. 1 \in DOMAIN events /\ Len(events) \in Nat
  BY <1>1
<1>3. Len(events) = 1 /\ link = "idle"
  BY <1>1, <1>2 DEF LossIsLast
<1>4. events' = <<>>
  <2>1. events' \in Seq(Events) /\ Len(events') = 0
    BY <1>1, <1>3
  <2>2. QED
    BY <2>1
<1>5. QED
  BY <1>3, <1>4

LEMMA LossPosted ==
  ASSUME events \in Seq(Events), LossIsLast, link # "idle", NEW e \in Events, Posts(e),
         e = "DISCONNECTED" => link' = "idle"
  PROVE  LossIsLast'
<1>1. events' = Append(events, e)
  BY DEF Posts
<1>2. events' \in Seq(Events) /\ Len(events') = Len(events) + 1 /\ Len(events) \in Nat
      /\ events'[Len(events')] = e /\ \A i \in 1..Len(events) : events'[i] = events[i]
  BY <1>1
<1>3. DOMAIN events = 1..Len(events) /\ DOMAIN events' = 1..Len(events')
  BY <1>2
<1>4. \A i \in 1..Len(events) : events'[i] # "DISCONNECTED"
  BY <1>2, <1>3 DEF LossIsLast
<1>5. ASSUME NEW i \in 1..Len(events'), events'[i] = "DISCONNECTED"
      PROVE  i = Len(events') /\ link' = "idle"
  <2>1. i = Len(events')
    BY <1>2, <1>4, <1>5
  <2>2. QED
    BY <1>2, <1>5, <2>1
<1>6. QED
  BY <1>3, <1>5 DEF LossIsLast

-----------------------------------------------------------------------------
(* Steps.                                                                  *)

LEMMA StationInit == Init => StationInv
<1> SUFFICES ASSUME Init PROVE StationInv
  OBVIOUS
<1>1. events = <<>> /\ link = "down" /\ pc = "ready" /\ tries = 0 /\ retryNum = 0
      /\ timer = "off" /\ commands = 0 /\ connected = FALSE /\ softap \in BOOLEAN
      /\ hasSsid \in BOOLEAN /\ reachable \in BOOLEAN
  BY DEF Init
<1>2. events \in Seq(Events) /\ Len(events) = 0 /\ DOMAIN events = {}
  BY <1>1
<1>3. TypeOK
  <2>1. softap \in BOOLEAN
    BY <1>1
  <2>2. {reachable, hasSsid, softap, connected} \subseteq BOOLEAN
    BY <1>1, <2>1
  <2>3. Len(events) <= MaxEvents /\ retryNum \in 0..Retries /\ tries \in 0..(Retries + 2)
        /\ commands \in 0..TimerQueue
    BY <1>1, <1>2, RetryAssumption
  <2>4. QED
    BY <1>1, <1>2, <2>2, <2>3 DEF TypeOK
<1>4. Duty /\ StartsAlone /\ LastIsLink /\ LossIsLast /\ RetryAlone
  BY <1>1, <1>2 DEF Duty, StartsAlone, LastIsLink, LossIsLast, RetryAlone, Pending, Booting
<1>5. Counts
  BY <1>1 DEF Counts
<1>6. QED
  BY <1>3, <1>4, <1>5 DEF StationInv

LEMMA DriverStep == StationInv /\ (Starts \/ Joins \/ Fails \/ AccessPoint) => StationInv'
<1> SUFFICES ASSUME StationInv, Starts \/ Joins \/ Fails \/ AccessPoint PROVE StationInv'
  OBVIOUS
<1> USE DEF StationInv
<1>1. CASE Starts
  <2>1. Posts("STA_START") /\ events = <<>> /\ link = "down"
    BY <1>1 DEF Starts, StartsAlone
  <2>2. events' = <<"STA_START">>
    BY <2>1 DEF Posts
  <2>3. TypeOK'
    BY <1>1, <2>1, Posted DEF Starts, timerVars, TypeOK, Events
  <2>4. Duty' /\ Counts' /\ LastIsLink' /\ StartsAlone'
    BY <1>1, <2>2 DEF Starts, Duty, Counts, LastIsLink, StartsAlone, Pending, timerVars,
       Booting, Last
  <2>5. ~Pending' /\ LossIsLast'
    BY <1>1, <2>1, <2>2 DEF Starts, StartsAlone, Pending, timerVars, LossIsLast
  <2>6. QED
    BY <2>3, <2>4, <2>5 DEF RetryAlone
<1>2. CASE Joins
  <2>1. Posts("GOT_IP") /\ "GOT_IP" \in Events /\ link = "trying" /\ link' = "connected"
    BY <1>2 DEF Joins, Events
  <2>2. TypeOK'
    BY <1>2, <2>1, Posted DEF Joins, timerVars, TypeOK
  <2>3. events' # <<>> /\ Last(events') = "GOT_IP" /\ ~Booting'
    BY <2>1, Posted DEF TypeOK, StartsAlone
  <2>4. Duty' /\ Counts' /\ LastIsLink' /\ StartsAlone'
    BY <1>2, <2>1, <2>3 DEF Joins, Duty, Counts, LastIsLink, StartsAlone, Pending, timerVars
  <2>5. ~Pending' /\ LossIsLast'
    BY <1>2, <2>1, LossPosted DEF Joins, RetryAlone, Pending, timerVars, TypeOK
  <2>6. QED
    BY <2>2, <2>4, <2>5 DEF RetryAlone
<1>3. CASE Fails
  <2>1. Posts("DISCONNECTED") /\ "DISCONNECTED" \in Events
        /\ link \in {"trying", "connected"} /\ link' = "idle"
    BY <1>3 DEF Fails, Events
  <2>2. TypeOK'
    BY <1>3, <2>1, Posted DEF Fails, timerVars, TypeOK
  <2>3. events' # <<>> /\ Last(events') = "DISCONNECTED" /\ ~Booting'
    BY <2>1, Posted DEF TypeOK, StartsAlone
  <2>4. Duty' /\ Counts' /\ LastIsLink' /\ StartsAlone'
    BY <1>3, <2>1, <2>3 DEF Fails, Duty, Counts, LastIsLink, StartsAlone, Pending,
       timerVars
  <2>5. ~Pending' /\ LossIsLast'
    BY <1>3, <2>1, LossPosted DEF Fails, RetryAlone, Pending, timerVars, TypeOK
  <2>6. QED
    BY <2>2, <2>4, <2>5 DEF RetryAlone
<1>4. CASE AccessPoint
  BY <1>4 DEF AccessPoint, TypeOK, Duty, Counts, LastIsLink, StartsAlone, LossIsLast,
     RetryAlone, Pending, timerVars, Booting, Last
<1>5. QED
  BY <1>1, <1>2, <1>3, <1>4

LEMMA HandlerStep ==
  StationInv /\ (OnStart \/ OnLossRetry \/ Count \/ OnLossPause \/ OnIp) => StationInv'
<1> SUFFICES ASSUME StationInv, OnStart \/ OnLossRetry \/ Count \/ OnLossPause \/ OnIp
             PROVE  StationInv'
  OBVIOUS
<1> USE DEF StationInv
<1>1. events \in Seq(Events) /\ Len(events) <= MaxEvents
  BY DEF TypeOK
<1>2. ASSUME NEW e \in Events, Takes(e)
      PROVE  ~Pending /\ (e # "STA_START" => link # "down" /\ ~Booting /\ ~Booting')
  BY <1>1, <1>2, Taken DEF StartsAlone, RetryAlone
<1>3. CASE OnStart
  <2>1. Takes("STA_START") /\ "STA_START" \in Events
    BY <1>3 DEF OnStart, Events
  <2>2. Booting /\ pc = "ready" /\ events' \in Seq(Events) /\ Len(events') <= MaxEvents
    BY <1>1, <2>1, Taken
  <2>3. events = <<"STA_START">> /\ link = "idle" /\ tries = 0 /\ ~connected
    BY <2>2 DEF StartsAlone
  <2>4. events' = <<>>
    BY <2>1, <2>3 DEF Takes
  <2>5. UNCHANGED <<reachable, hasSsid, softap, connected, retryNum, timer, commands, pc>>
        /\ (hasSsid => link' = "trying" /\ tries' = 1) /\ (~hasSsid => UNCHANGED <<link, tries>>)
    BY <1>3, <2>3, RetryAssumption DEF OnStart, Connects, timerVars
  <2>6. TypeOK'
    BY <2>2, <2>5, RetryAssumption DEF TypeOK
  <2>7. ~Booting'
    BY <2>4 DEF Booting
  <2>8. Duty' /\ StartsAlone' /\ LastIsLink'
    BY <2>3, <2>4, <2>5, <2>7 DEF Duty, StartsAlone, LastIsLink, Pending
  <2>9. Counts'
    BY <2>2, <2>3, <2>5 DEF Counts, TypeOK
  <2>10. LossIsLast' /\ RetryAlone'
    BY <1>2, <2>1, <2>4, <2>5 DEF LossIsLast, RetryAlone, Pending
  <2>11. QED
    BY <2>6, <2>8, <2>9, <2>10
<1>4. CASE OnLossRetry
  <2>1. Takes("DISCONNECTED") /\ "DISCONNECTED" \in Events \ {"STA_START"}
    BY <1>4 DEF OnLossRetry, Events
  <2>2. /\ events' \in Seq(Events) /\ Len(events') <= MaxEvents
        /\ events' # <<>> => Last(events') = Last(events)
        /\ events' = <<>> => Last(events) = "DISCONNECTED"
        /\ events # <<>> /\ pc = "ready"
    BY <1>1, <2>1, Taken
  <2>3. link = "idle" /\ events' = <<>> /\ ~Pending /\ ~Booting'
    BY <1>1, <1>2, <2>1, LossTaken
  <2>4. retryNum < Retries /\ connected' = FALSE /\ pc' = "count"
        /\ UNCHANGED <<reachable, hasSsid, softap, retryNum, timer, commands>>
    BY <1>4 DEF OnLossRetry, MayRetry, Loses, timerVars
  <2>5. link' = "trying"
    BY <1>4, <2>3 DEF OnLossRetry, Connects
  <2>6. tries' = tries + 1
    BY <1>4, <2>2, RetryAssumption DEF OnLossRetry, Connects, Counts, TypeOK
  <2>7. tries <= retryNum + 1 /\ tries \in Nat /\ retryNum \in 0..Retries
    BY <2>2 DEF TypeOK, Counts
  <2>8. Counts'
    BY <2>4, <2>6, <2>7 DEF Counts
  <2>9. tries' \in 0..(Retries + 2) /\ link' \in {"down", "idle", "trying", "connected"}
    BY <2>4, <2>5, <2>6, <2>7, RetryAssumption DEF TypeOK
  <2>10. {reachable, hasSsid, softap, connected}' \subseteq BOOLEAN
    BY <2>4 DEF TypeOK
  <2>11. TypeOK'
    BY <2>2, <2>4, <2>9, <2>10 DEF TypeOK
  <2>12. Duty' /\ StartsAlone' /\ LastIsLink' /\ LossIsLast' /\ RetryAlone'
    BY <2>3, <2>4, <2>5 DEF Duty, StartsAlone, LastIsLink, LossIsLast, RetryAlone, Pending
  <2>13. QED
    BY <2>8, <2>11, <2>12
<1>5. CASE Count
  <2>1. /\ pc = "count" /\ pc' = "ready" /\ retryNum' = retryNum + 1
        /\ UNCHANGED <<driverVars, hasSsid, softap, connected, timer, commands, tries>>
    BY <1>5 DEF Count, timerVars
  <2>2. TypeOK' /\ Counts'
    BY <2>1, RetryAssumption DEF driverVars, TypeOK, Counts
  <2>3. Duty' /\ StartsAlone' /\ LastIsLink' /\ LossIsLast' /\ RetryAlone'
    BY <2>1 DEF driverVars, Duty, StartsAlone, LastIsLink, LossIsLast, RetryAlone, Pending,
       Booting, Last
  <2>4. QED
    BY <2>2, <2>3
<1>6. CASE OnLossPause
  <2>1. Takes("DISCONNECTED") /\ "DISCONNECTED" \in Events \ {"STA_START"}
    BY <1>6 DEF OnLossPause, Events
  <2>2. /\ events' \in Seq(Events) /\ Len(events') <= MaxEvents
        /\ events' # <<>> => Last(events') = Last(events)
        /\ events' = <<>> => Last(events) = "DISCONNECTED"
        /\ events # <<>> /\ pc = "ready"
    BY <1>1, <2>1, Taken
  <2>3. link = "idle" /\ events' = <<>> /\ timer = "off" /\ commands = 0 /\ ~Booting'
    BY <1>1, <1>2, <2>1, LossTaken DEF Pending, TypeOK
  <2>4. connected' = FALSE /\ softap' = TRUE /\ timer' = "off" /\ commands' = 1
        /\ UNCHANGED <<link, reachable, hasSsid, retryNum, pc, tries>>
    BY <1>6, <2>3, RetryAssumption DEF OnLossPause, Loses, Arms
  <2>5. TypeOK' /\ Counts'
    <3>1. {reachable, hasSsid, softap, connected}' \subseteq BOOLEAN
      BY <2>4 DEF TypeOK
    <3>2. commands' \in 0..TimerQueue
      BY <2>4, RetryAssumption
    <3>3. TypeOK'
      BY <2>2, <2>4, <3>1, <3>2 DEF TypeOK
    <3>4. Counts'
      BY <2>4 DEF Counts
    <3>5. QED
      BY <3>3, <3>4
  <2>6. Duty' /\ StartsAlone' /\ LastIsLink' /\ LossIsLast' /\ RetryAlone'
    BY <2>2, <2>3, <2>4 DEF Duty, StartsAlone, LastIsLink, LossIsLast, RetryAlone, Pending
  <2>7. QED
    BY <2>5, <2>6
<1>7. CASE OnIp
  <2>1. Takes("GOT_IP") /\ "GOT_IP" \in Events \ {"STA_START"}
    BY <1>7 DEF OnIp, Events
  <2>2. /\ events' \in Seq(Events) /\ Len(events') <= MaxEvents
        /\ events' # <<>> => Last(events') = Last(events)
        /\ events' = <<>> => Last(events) = "GOT_IP"
        /\ events # <<>> /\ pc = "ready"
    BY <1>1, <2>1, Taken
  <2>3. link # "down" /\ ~Pending /\ ~Booting'
    BY <1>2, <2>1
  <2>4. retryNum' = 0 /\ connected' = TRUE /\ tries' = 0
        /\ UNCHANGED <<link, reachable, hasSsid, softap, timer, commands, pc>>
    BY <1>7 DEF OnIp, Resets, timerVars
  <2>5. TypeOK' /\ Counts'
    BY <2>2, <2>4, RetryAssumption DEF TypeOK, Counts
  <2>6. Duty' /\ StartsAlone' /\ LastIsLink' /\ RetryAlone'
    BY <2>2, <2>3, <2>4 DEF Duty, StartsAlone, LastIsLink, RetryAlone, Pending
  <2>7. LossIsLast'
    <3>1. events' \in Seq(Events) /\ Len(events') = Len(events) - 1
          /\ \A i \in 1..Len(events') : events'[i] = events[i + 1]
      BY <1>1, <2>1 DEF Takes
    <3>2. DOMAIN events = 1..Len(events) /\ DOMAIN events' = 1..Len(events')
      BY <1>1, <3>1
    <3>3. QED
      BY <1>1, <2>4, <3>1, <3>2 DEF LossIsLast
  <2>8. QED
    BY <2>5, <2>6, <2>7
<1>8. QED
  BY <1>3, <1>4, <1>5, <1>6, <1>7

LEMMA TimerStep == StationInv /\ (TakesStart \/ Expires \/ OnTimer) => StationInv'
<1> SUFFICES ASSUME StationInv, TakesStart \/ Expires \/ OnTimer PROVE StationInv'
  OBVIOUS
<1> USE DEF StationInv
<1>1. CASE TakesStart
  <2>1. /\ commands > 0 /\ commands' = commands - 1 /\ timer' = "armed"
        /\ UNCHANGED <<driverVars, hasSsid, softap, connected, retryNum, pc, tries>>
    BY <1>1 DEF TakesStart
  <2>2. commands = 1
    BY <2>1 DEF RetryAlone, Pending
  <2>3. TypeOK' /\ Counts'
    BY <2>1, <2>2, RetryAssumption DEF driverVars, TypeOK, Counts
  <2>4. Duty' /\ StartsAlone' /\ LastIsLink' /\ LossIsLast' /\ RetryAlone'
    BY <2>1, <2>2 DEF driverVars, Duty, StartsAlone, LastIsLink, LossIsLast, RetryAlone,
       Pending, Booting, Last
  <2>5. QED
    BY <2>3, <2>4
<1>2. CASE Expires
  BY <1>2 DEF Expires, driverVars, TypeOK, Duty, Counts, LastIsLink, StartsAlone, LossIsLast,
     RetryAlone, Pending, Booting, Last
<1>3. CASE OnTimer
  <2>1. /\ timer = "expired" /\ timer' = "off" /\ retryNum' = 0 /\ tries' = 1
        /\ link' = IF link = "idle" THEN "trying" ELSE link
        /\ UNCHANGED <<events, reachable, hasSsid, softap, connected, commands, pc>>
    BY <1>3 DEF OnTimer, Resets
  <2>2. link = "idle" /\ events = <<>> /\ commands = 0
    BY <2>1 DEF RetryAlone, Pending
  <2>3. ~Booting /\ ~Booting'
    BY <2>1, <2>2 DEF Booting
  <2>4. TypeOK' /\ Counts'
    BY <2>1, RetryAssumption DEF TypeOK, Counts
  <2>5. Duty' /\ StartsAlone' /\ LastIsLink' /\ LossIsLast' /\ RetryAlone'
    BY <2>1, <2>2, <2>3 DEF Duty, StartsAlone, LastIsLink, LossIsLast, RetryAlone, Pending
  <2>6. QED
    BY <2>4, <2>5
<1>4. QED
  BY <1>1, <1>2, <1>3

LEMMA StationNext == StationInv /\ [Next]_vars => StationInv'
<1> SUFFICES ASSUME StationInv, [Next]_vars PROVE StationInv'
  OBVIOUS
<1>1. CASE UNCHANGED vars
  BY <1>1 DEF StationInv, vars, driverVars, timerVars, TypeOK, Duty, StartsAlone, Counts,
     LastIsLink, LossIsLast, RetryAlone, Pending, Booting, Last
<1>2. CASE Next
  BY <1>2, DriverStep, HandlerStep, TimerStep DEF Next
<1>3. QED
  BY <1>1, <1>2

-----------------------------------------------------------------------------
(* Results.                                                                *)

\* Attempts, timer, event queue and s_is_connected fit together at every moment.
THEOREM StationInvariant == Spec => []StationInv
<1>1. Init => StationInv
  BY StationInit
<1>2. StationInv /\ [Next]_vars => StationInv'
  BY StationNext
<1>3. QED
  BY <1>1, <1>2, PTL DEF Spec

\* s_retry_num has one writer at a time, and no start of the retry timer is lost.
THEOREM StationRetryAlone == Spec => []RetryAlone
<1>1. StationInv => RetryAlone
  BY DEF StationInv
<1>2. QED
  BY <1>1, StationInvariant, PTL

\* The event loop and the timer between them never leave the station alone.
THEOREM StationNeverStranded == Spec => []NeverStranded
<1>1. StationInv => NeverStranded
  BY DEF StationInv, Duty, NeverStranded
<1>2. QED
  BY <1>1, StationInvariant, PTL

\* event_handler pauses after Retries + 1 attempts, whenever the timer interferes.
THEOREM StationPauses == Spec => []Pauses
<1>1. StationInv => Pauses
  BY RetryAssumption DEF StationInv, TypeOK, Counts, Pauses
<1>2. QED
  BY <1>1, StationInvariant, PTL

\* s_is_connected is right when event_handler has nothing left to do.
THEOREM StationFlagIsLink == Spec => []FlagIsLink
<1>1. StationInv => FlagIsLink
  BY DEF StationInv, TypeOK, LastIsLink, FlagIsLink
<1>2. QED
  BY <1>1, StationInvariant, PTL
=============================================================================

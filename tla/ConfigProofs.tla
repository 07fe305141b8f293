---------------------------- MODULE ConfigProofs ----------------------------
(***************************************************************************)
(* The invariant of ConfigStore for any number of forms.                   *)
(***************************************************************************)
EXTENDS ConfigStore, TLAPS

-----------------------------------------------------------------------------
(* Values.                                                                 *)

Loaded == {v \in Values : v.fits} \cup {Default}
Copies == Loaded \cup {Unterminated}

LEMMA Tokens ==
  /\ Nothing \notin Values /\ Default \notin Values
  /\ Unterminated \notin Values /\ NoClient \notin Values
  /\ Nothing # Default /\ Nothing # Unterminated /\ Nothing # NoClient
  /\ Default # Unterminated /\ Default # NoClient /\ Unterminated # NoClient
  /\ ~Nothing.fits /\ Default.fits
  /\ Nothing \notin Settable /\ Default \in Settable /\ Values \subseteq Settable
<1>1. Nothing.form = 0 /\ Default.form = 0 /\ Unterminated.form = -1 /\ NoClient.form = -2
      /\ Nothing.fits = FALSE /\ Default.fits = TRUE
  BY DEF Nothing, Default, Unterminated, NoClient
<1>2. \A v \in Values : v.form \in 1..MaxForms
  BY DEF Values
<1>3. QED
  BY <1>1, <1>2, FormsAssumption DEF Settable

LEMMA LoadType ==
  ASSUME flash \in [Keys -> Settable \cup {Nothing}], NEW k \in Keys
  PROVE  Load(k) \in Loaded
<1>1. flash[k] # Nothing => flash[k] \in Settable
  OBVIOUS
<1>2. QED
  BY <1>1 DEF Load, Loaded, Settable

LEMMA CopiedType == \A v \in Settable : Copied(v) \in Copies
BY DEF Copied, Copies, Loaded, Settable

LEMMA OpenedType ==
  ASSUME ram \in [Keys -> Copies]
  PROVE  Opened \in Values \cup {NoClient, Unterminated}
<1>1. ram["ch1DeviceNo"] \in Copies
  BY DEF Keys
<1>2. QED
  BY <1>1 DEF Opened, Copies, Loaded

\* TypeOK, with what a step needs of it by name.
LEMMA Typed ==
  ASSUME TypeOK
  PROVE  /\ flash \in [Keys -> Settable \cup {Nothing}]
         /\ ram \in [Keys -> Copies]
         /\ station \in Settable \X Settable
         /\ phase \in {"nvs", "wifi", "run"}
         /\ todo \in Seq(Keys \X Settable) /\ Len(todo) <= 2
         /\ copying \in BOOLEAN /\ reopen \in BOOLEAN
         /\ forms \in 0..MaxForms
         /\ hwid \in Values \cup {NoClient, Unterminated}
         /\ mainHwid \in Values \cup {NoClient, Unterminated}
         /\ opening \in {"waits", "reads", "done"}
         /\ torn \in BOOLEAN /\ crossed \in BOOLEAN
<1>1. Copies = {v \in Values : v.fits} \cup {Default, Unterminated}
  BY DEF Copies, Loaded
<1>2. copying \in {copying, reopen} /\ reopen \in {copying, reopen}
      /\ torn \in {torn, crossed} /\ crossed \in {torn, crossed}
      /\ hwid \in {hwid, mainHwid} /\ mainHwid \in {hwid, mainHwid}
  OBVIOUS
<1>3. QED
  BY <1>1, <1>2 DEF TypeOK

\* And the way back, for the next state.
LEMMA Retyped ==
  ASSUME flash' \in [Keys -> Settable \cup {Nothing}],
         ram' \in [Keys -> Copies],
         station' \in Settable \X Settable,
         phase' \in {"nvs", "wifi", "run"},
         todo' \in Seq(Keys \X Settable), Len(todo') <= 2,
         copying' \in BOOLEAN, reopen' \in BOOLEAN,
         forms' \in 0..MaxForms,
         hwid' \in Values \cup {NoClient, Unterminated},
         mainHwid' \in Values \cup {NoClient, Unterminated},
         opening' \in {"waits", "reads", "done"},
         torn' \in BOOLEAN, crossed' \in BOOLEAN
  PROVE  TypeOK'
<1>1. ram' \in [Keys -> {v \in Values : v.fits} \cup {Default, Unterminated}]
  <2>1. Copies = {v \in Values : v.fits} \cup {Default, Unterminated}
    BY DEF Copies, Loaded
  <2>2. QED
    BY <2>1
<1>2. {copying', reopen'} \subseteq BOOLEAN
  OBVIOUS
<1>3. {torn', crossed'} \subseteq BOOLEAN
  OBVIOUS
<1>4. {hwid', mainHwid'} \subseteq Values \cup {NoClient, Unterminated}
  OBVIOUS
<1>5. QED
  BY <1>1, <1>2, <1>3, <1>4 DEF TypeOK

-----------------------------------------------------------------------------
(* The calls of a handler.                                                 *)

LEMMA OneCall ==
  ASSUME NEW key \in Keys, NEW v \in Settable
  PROVE  LET s == << <<key, v>> >>
         IN  s \in Seq(Keys \X Settable) /\ Len(s) = 1 /\ s # <<>>
             /\ s[1][1] = key /\ s[1][2] = v /\ DOMAIN s = {1}
OBVIOUS

LEMMA TwoCalls ==
  ASSUME NEW k1 \in Keys, NEW v1 \in Settable, NEW k2 \in Keys, NEW v2 \in Settable
  PROVE  LET s == << <<k1, v1>>, <<k2, v2>> >>
         IN  s \in Seq(Keys \X Settable) /\ Len(s) = 2 /\ s # <<>>
             /\ s[1][1] = k1 /\ s[1][2] = v1 /\ s[2][1] = k2 /\ s[2][2] = v2
             /\ DOMAIN s = {1, 2}
OBVIOUS

LEMMA InARow == ASSUME NEW a, NEW b PROVE <<a>> \o <<b>> = <<a, b>>
<1> DEFINE s == <<a>> \o <<b>>
<1>1. <<a>> \in Seq({a, b}) /\ <<b>> \in Seq({a, b}) /\ <<a, b>> \in Seq({a, b})
  OBVIOUS
<1>2. s \in Seq({a, b}) /\ Len(s) = 2 /\ s[1] = a /\ s[2] = b
  BY <1>1
<1>3. DOMAIN s = {1, 2} /\ DOMAIN <<a, b>> = {1, 2} /\ s = [i \in DOMAIN s |-> s[i]]
  BY <1>2
<1> HIDE DEF s
<1>4. s = <<a, b>>
  BY <1>2, <1>3
<1>5. QED
  BY <1>4 DEF s

\* The calls left after the first.
LEMMA Rest ==
  ASSUME todo \in Seq(Keys \X Settable), Len(todo) <= 2, todo # <<>>
  PROVE  /\ Key \in Keys /\ Value \in Settable /\ 1 \in DOMAIN todo
         /\ Tail(todo) \in Seq(Keys \X Settable)
         /\ Len(Tail(todo)) = Len(todo) - 1 /\ Len(Tail(todo)) <= 2 /\ Len(todo) \in {1, 2}
         /\ Tail(todo) = <<>> <=> Len(todo) = 1
         /\ \A i \in DOMAIN Tail(todo) : i + 1 \in DOMAIN todo /\ Tail(todo)[i] = todo[i + 1]
<1>1. Len(todo) \in {1, 2} /\ DOMAIN todo = 1..Len(todo)
  <2>1. Len(todo) \in Nat /\ DOMAIN todo = 1..Len(todo)
    OBVIOUS
  <2>2. Len(todo) # 0
    OBVIOUS
  <2>3. QED
    BY <2>1, <2>2
<1>2. todo[1] \in Keys \X Settable
  BY <1>1
<1>3. Tail(todo) \in Seq(Keys \X Settable) /\ Len(Tail(todo)) = Len(todo) - 1
      /\ DOMAIN Tail(todo) = 1..(Len(todo) - 1)
      /\ \A i \in 1..(Len(todo) - 1) : Tail(todo)[i] = todo[i + 1]
  BY <1>1
<1>4. Tail(todo) = <<>> <=> Len(todo) = 1
  BY <1>1, <1>3
<1>5. QED
  BY <1>1, <1>2, <1>3, <1>4 DEF Key, Value

-----------------------------------------------------------------------------
(* Steps.                                                                  *)

LEMMA StoreInit == Init => StoreInv
<1> SUFFICES ASSUME Init PROVE StoreInv
  OBVIOUS
<1>1. TypeOK
  <2>1. todo \in Seq(Keys \X Settable) /\ Len(todo) <= 2
    BY DEF Init
  <2>2. station \in Settable \X Settable
    BY Tokens DEF Init
  <2>3. flash \in [Keys -> Settable \cup {Nothing}]
    BY DEF Init
  <2>4. ram \in [Keys -> {v \in Values : v.fits} \cup {Default, Unterminated}]
    BY DEF Init
  <2>5. {copying, reopen} \subseteq BOOLEAN /\ {torn, crossed} \subseteq BOOLEAN
    BY DEF Init
  <2>6. forms \in 0..MaxForms /\ {hwid, mainHwid} \subseteq Values \cup {NoClient, Unterminated}
    BY FormsAssumption DEF Init
  <2>7. QED
    BY <2>1, <2>2, <2>3, <2>4, <2>5, <2>6 DEF Init, TypeOK
<1>2. OnlyUp /\ CopyIsDue /\ CopiesAgree /\ HwidFollows
  BY DEF Init, OnlyUp, CopyIsDue, CopiesAgree, HwidFollows
<1>3. DOMAIN todo = {}
  BY DEF Init
<1>4. OneForm
  BY DEF Init, OneForm, Load, Keys
<1>5. DeviceReopens /\ Pairing
  BY <1>3, <1>4 DEF Init, DeviceReopens, Pairing
<1>6. QED
  BY <1>1, <1>2, <1>5 DEF StoreInv

LEMMA BootStep == StoreInv /\ (BootNvs \/ BootErases \/ BootWifi) => StoreInv'
<1> SUFFICES ASSUME StoreInv, BootNvs \/ BootErases \/ BootWifi PROVE StoreInv'
  OBVIOUS
<1> USE DEF StoreInv
<1>1. phase \in {"nvs", "wifi"} /\ todo = <<>> /\ ~reopen /\ opening = "waits"
      /\ hwid = NoClient /\ ~copying
  BY Typed DEF BootNvs, BootErases, BootWifi, OnlyUp, CopyIsDue
<1>2. UNCHANGED <<todo, copying, reopen, forms, hwid, opening, mainHwid, crossed, last>>
  BY DEF BootNvs, BootErases, BootWifi, httpVars, wsVars, histVars
<1>3. \A k \in Keys : Load(k) \in Loaded /\ Load(k) \in Copies
  BY Typed, LoadType DEF Copies
<1>4. OnlyUp' /\ CopyIsDue' /\ HwidFollows'
  BY <1>1, <1>2 DEF OnlyUp, CopyIsDue, HwidFollows
<1>5. DeviceReopens' /\ DOMAIN todo' = {}
  BY <1>1, <1>2 DEF DeviceReopens
<1>6. CASE BootNvs
  <2>1. phase' = "wifi" /\ ram' = [k \in Keys |-> Load(k)] /\ UNCHANGED <<flash, station, torn>>
    BY <1>6 DEF BootNvs, histVars
  <2>2. TypeOK'
    BY <1>2, <1>3, <2>1, Typed, Retyped
  <2>3. CopiesAgree'
    BY <1>1, <1>2, <2>1 DEF CopiesAgree, Agrees, Load, Default
  <2>4. Pairing'
    BY <1>1, <1>2, <1>5, <2>1 DEF Pairing, OneForm, Load, BothDue, LastDue
  <2>5. QED
    BY <1>4, <1>5, <2>2, <2>3, <2>4
<1>7. CASE BootErases
  <2>1. phase' = "wifi" /\ flash' = [k \in Keys |-> Nothing] /\ ram' = [k \in Keys |-> Default]
        /\ torn' = FALSE /\ station' = <<Default, Default>>
    BY <1>7 DEF BootErases
  <2>2. TypeOK'
    BY <1>2, <2>1, Typed, Retyped, Tokens DEF Copies, Loaded
  <2>3. CopiesAgree' /\ OneForm'
    BY <2>1 DEF CopiesAgree, Agrees, OneForm, Load, Keys
  <2>4. Pairing'
    BY <1>1, <1>2, <1>5, <2>3 DEF Pairing
  <2>5. QED
    BY <1>4, <1>5, <2>2, <2>3, <2>4
<1>8. CASE BootWifi
  <2>1. phase' = "run" /\ UNCHANGED <<flash, ram, torn>> /\ phase = "wifi"
        /\ station' \in {station, <<Load("apSsid"), Load("apPasswd")>>}
    BY <1>8 DEF BootWifi, histVars
  <2>2. station' \in Settable \X Settable
    <3>1. Load("apSsid") \in Settable /\ Load("apPasswd") \in Settable
      BY <1>3 DEF Keys, Loaded, Settable
    <3>2. station \in Settable \X Settable
      BY Typed
    <3>3. QED
      BY <2>1, <3>1, <3>2
  <2>3. TypeOK'
    BY <1>2, <2>1, <2>2, Typed, Retyped
  <2>4. CopiesAgree'
    BY <1>1, <1>2, <2>1 DEF CopiesAgree, Agrees, Load
  <2>5. Pairing'
    BY <1>1, <1>2, <1>5, <2>1 DEF Pairing, OneForm, Load, BothDue, LastDue
  <2>6. QED
    BY <1>4, <1>5, <2>3, <2>4, <2>5
<1>9. QED
  BY <1>6, <1>7, <1>8

LEMMA SocketStep == StoreInv /\ (MainReads \/ MainOpens \/ Reopen) => StoreInv'
<1> SUFFICES ASSUME StoreInv, MainReads \/ MainOpens \/ Reopen PROVE StoreInv'
  OBVIOUS
<1> USE DEF StoreInv
<1>1. UNCHANGED <<flash, ram, station, phase, todo, copying, forms, last, torn>>
  BY DEF MainReads, MainOpens, Reopen, bootVars, httpVars, histVars
<1>2. Opened \in Values \cup {NoClient, Unterminated} /\ Opened' = Opened
  BY <1>1, Typed, OpenedType DEF Opened
<1>3. CopyIsDue' /\ CopiesAgree' /\ Pairing'
  BY <1>1 DEF CopyIsDue, CopiesAgree, Agrees, Pairing, OneForm, BothDue, LastDue, Load, Key, Value
<1>4. CASE MainReads
  <2>1. opening = "waits" /\ opening' = "reads" /\ mainHwid' = Opened /\ phase = "run"
        /\ UNCHANGED <<hwid, crossed, reopen>>
    BY <1>4 DEF MainReads, httpVars
  <2>2. TypeOK'
    BY <1>1, <1>2, <2>1, Typed, Retyped
  <2>3. OnlyUp' /\ DeviceReopens' /\ HwidFollows'
    BY <1>1, <1>2, <2>1 DEF OnlyUp, DeviceReopens, HwidFollows
  <2>4. QED
    BY <1>3, <2>2, <2>3
<1>5. CASE MainOpens
  <2>1. opening = "reads" /\ opening' = "done" /\ hwid' = mainHwid
        /\ UNCHANGED <<mainHwid, crossed, reopen>>
    BY <1>5 DEF MainOpens, httpVars
  <2>2. TypeOK'
    BY <1>1, <2>1, Typed, Retyped
  <2>3. OnlyUp' /\ DeviceReopens' /\ HwidFollows'
    BY <1>1, <1>2, <2>1 DEF OnlyUp, DeviceReopens, HwidFollows
  <2>4. QED
    BY <1>3, <2>2, <2>3
<1>6. CASE Reopen
  <2>1. reopen /\ todo = <<>> /\ reopen' = FALSE /\ hwid' = Opened
        /\ crossed' = (crossed \/ opening = "reads") /\ UNCHANGED <<opening, mainHwid>>
    BY <1>6 DEF Reopen
  <2>2. crossed' \in BOOLEAN
    BY <2>1, Typed
  <2>3. TypeOK'
    BY <1>1, <1>2, <2>1, <2>2, Typed, Retyped
  <2>4. OnlyUp' /\ HwidFollows'
    BY <1>1, <1>2, <2>1 DEF OnlyUp, HwidFollows
  <2>5. DeviceReopens'
    BY <1>1, <2>1 DEF DeviceReopens
  <2>6. QED
    BY <1>3, <2>3, <2>4, <2>5
<1>7. QED
  BY <1>4, <1>5, <1>6

-----------------------------------------------------------------------------
(* Writes.                                                                 *)

LEMMA FlashStep == StoreInv /\ WriteFlash => StoreInv'
<1> SUFFICES ASSUME StoreInv, WriteFlash PROVE StoreInv'
  OBVIOUS
<1> USE DEF StoreInv
<1>1. /\ todo # <<>> /\ ~copying /\ flash' = [flash EXCEPT ![Key] = Value] /\ copying' = TRUE
      /\ UNCHANGED <<ram, station, phase, todo, reopen, forms, hwid, opening, mainHwid, crossed,
                     last, torn>>
  BY DEF WriteFlash, bootVars, wsVars, histVars
<1>2. Key \in Keys /\ Value \in Settable /\ Key' = Key /\ Value' = Value
  BY <1>1, Typed, Rest DEF Key, Value
<1>3. flash' \in [Keys -> Settable \cup {Nothing}]
  BY <1>1, <1>2, Typed
<1>4. TypeOK'
  BY <1>1, <1>3, Typed, Retyped
<1>5. OnlyUp' /\ DeviceReopens' /\ HwidFollows'
  BY <1>1 DEF OnlyUp, DeviceReopens, HwidFollows, Opened
<1>6. CopyIsDue'
  BY <1>1, <1>2, Typed DEF CopyIsDue
<1>7. CopiesAgree'
  <2>1. ASSUME phase = "run", NEW k \in Keys, k # Key PROVE Agrees(k)'
    BY <1>1, <2>1, Typed DEF CopiesAgree, Agrees, Load
  <2>2. phase' = "run"
    BY <1>1 DEF OnlyUp
  <2>3. QED
    BY <1>1, <1>2, <2>1, <2>2 DEF CopiesAgree
<1>8. Pairing'
  <2>1. CASE last = "wifi" /\ ~torn
    <3>1. BothDue \/ LastDue
      BY <1>1, <2>1 DEF Pairing
    <3>2. CASE BothDue
      BY <1>1, <2>1, <3>2 DEF BothDue, Pairing
    <3>3. CASE LastDue
      <4>1. flash'["apSsid"] = flash["apSsid"]
        BY <1>1, <3>3, Typed DEF LastDue
      <4>2. LastDue'
        BY <1>1, <1>2, <3>3, <4>1 DEF LastDue
      <4>3. QED
        BY <1>1, <2>1, <4>2 DEF Pairing
    <3>4. QED
      BY <3>1, <3>2, <3>3
  <2>2. CASE last = "wifi" /\ torn
    BY <1>1, <2>2 DEF Pairing
  <2>3. CASE last # "wifi"
    <3>1. Key \notin {"apSsid", "apPasswd"} /\ \A i \in DOMAIN todo : todo[i][1] \notin {"apSsid", "apPasswd"}
      BY <1>1, <2>3, Typed, Rest DEF Pairing, Key
    <3>2. flash'["apSsid"] = flash["apSsid"] /\ flash'["apPasswd"] = flash["apPasswd"]
      BY <1>1, <3>1, Typed
    <3>3. OneForm' <=> OneForm
      BY <3>2 DEF OneForm, Load
    <3>4. QED
      BY <1>1, <2>3, <3>1, <3>3 DEF Pairing
  <2>4. QED
    BY <2>1, <2>2, <2>3, Typed
<1>9. QED
  BY <1>4, <1>5, <1>6, <1>7, <1>8

\* A call that is over, stored and copied or not at all.
LEMMA CallEnds ==
  ASSUME StoreInv, todo # <<>>, todo' = Tail(todo),
         UNCHANGED <<flash, station, phase, reopen, forms, hwid, opening, mainHwid, crossed, last>>,
         copying' = FALSE,
         ram' \in [Keys -> Copies],
         NEW key \in Keys, key = Key, Agrees(key)',
         \A k \in Keys : k # key => ram'[k] = ram[k],
         torn' \in BOOLEAN, last # "wifi" => torn' = torn,
         last = "wifi" /\ ~torn' => ~torn /\ copying
  PROVE  StoreInv'
<1> USE DEF StoreInv
<1>1. /\ Key \in Keys /\ Value \in Settable /\ 1 \in DOMAIN todo
      /\ Tail(todo) \in Seq(Keys \X Settable)
      /\ Len(Tail(todo)) = Len(todo) - 1 /\ Len(Tail(todo)) <= 2 /\ Len(todo) \in {1, 2}
      /\ Tail(todo) = <<>> <=> Len(todo) = 1
      /\ \A i \in DOMAIN Tail(todo) : i + 1 \in DOMAIN todo /\ Tail(todo)[i] = todo[i + 1]
  BY Typed, Rest
<1>2. TypeOK'
  <2>1. todo' \in Seq(Keys \X Settable) /\ Len(todo') <= 2
    BY <1>1
  <2>2. QED
    BY <2>1, Typed, Retyped
<1>3. OnlyUp' /\ CopyIsDue'
  BY DEF OnlyUp, CopyIsDue
<1>4. CopiesAgree'
  <2>1. ASSUME phase = "run", NEW k \in Keys, k # Key PROVE Agrees(k)'
    BY <2>1 DEF CopiesAgree, Agrees, Load
  <2>2. phase' = "run"
    BY DEF OnlyUp
  <2>3. QED
    BY <2>1, <2>2 DEF CopiesAgree
<1>5. DeviceReopens'
  BY <1>1 DEF DeviceReopens
<1>6. HwidFollows'
  <2>1. ~reopen => Key # "ch1DeviceNo"
    BY <1>1 DEF DeviceReopens, Key
  <2>2. ~reopen => Opened' = Opened
    BY <2>1 DEF Opened, Keys
  <2>3. QED
    BY <2>2 DEF HwidFollows
<1>7. Pairing'
  <2>1. CASE last # "wifi"
    <3>1. torn' = torn /\ (OneForm' <=> OneForm)
      BY <2>1, Typed DEF OneForm, Load
    <3>2. QED
      BY <1>1, <2>1, <3>1 DEF Pairing
  <2>2. CASE last = "wifi" /\ torn'
    BY <2>2 DEF Pairing
  <2>3. CASE last = "wifi" /\ ~torn'
    <3>1. ~torn /\ copying /\ flash[Key] = Value
      BY <2>3 DEF CopyIsDue
    <3>2. BothDue \/ LastDue
      BY <2>3, <3>1 DEF Pairing
    <3>3. CASE BothDue
      <4>1. Key = "apSsid" /\ Value.fits /\ flash["apSsid"] = Value
            /\ todo[2][2].fits /\ todo[2][2].form = Value.form /\ todo[2][1] = "apPasswd"
            /\ Len(todo) = 2
        BY <3>1, <3>3 DEF BothDue, Key, Value
      <4>2. 1 \in DOMAIN Tail(todo) /\ Len(todo') = 1 /\ todo' # <<>>
        BY <1>1, <4>1
      <4>3. todo'[1] = todo[2]
        BY <1>1, <4>2
      <4>4. LastDue'
        BY <1>1, <4>1, <4>2, <4>3, Tokens DEF LastDue, Key, Value
      <4>5. QED
        BY <2>3, <4>2, <4>4 DEF Pairing
    <3>4. CASE LastDue
      <4>1. todo' = <<>>
        BY <1>1, <3>4 DEF LastDue
      <4>2. flash["apPasswd"] = Value /\ flash["apPasswd"].fits /\ flash["apPasswd"] # Nothing
            /\ flash["apSsid"] # Nothing /\ flash["apSsid"].fits
            /\ flash["apSsid"].form = Value.form
        BY <1>1, <3>1, <3>4, Tokens DEF LastDue
      <4>3. OneForm'
        BY <4>2 DEF OneForm, Load
      <4>4. QED
        BY <2>3, <4>1, <4>3 DEF Pairing
    <3>5. QED
      BY <3>2, <3>3, <3>4
  <2>4. QED
    BY <2>1, <2>2, <2>3
<1>8. QED
  BY <1>2, <1>3, <1>4, <1>5, <1>6, <1>7

LEMMA FailStep == StoreInv /\ WriteFails => StoreInv'
<1> SUFFICES ASSUME StoreInv, WriteFails PROVE StoreInv'
  OBVIOUS
<1>1. /\ todo # <<>> /\ ~copying /\ todo' = Tail(todo) /\ torn' = (torn \/ last = "wifi")
      /\ UNCHANGED <<ram, flash, station, phase, copying, reopen, forms, hwid, opening, mainHwid,
                     crossed, last>>
  BY DEF WriteFails, FailsClean, bootVars, wsVars
<1>2. copying' = FALSE /\ torn' \in BOOLEAN /\ ram' \in [Keys -> Copies] /\ Key \in Keys
  BY <1>1, Typed, Rest DEF StoreInv
<1>3. PICK key \in Keys : key = Key
  BY <1>2
<1>4. Agrees(key)'
  <2>1. Agrees(key)
    BY <1>1, <1>3 DEF StoreInv, CopiesAgree, OnlyUp
  <2>2. QED
    BY <1>1, <2>1 DEF Agrees, Load
<1>5. (last # "wifi" => torn' = torn) /\ ~(last = "wifi" /\ ~torn')
  BY <1>1, Typed DEF StoreInv
<1>6. QED
  BY <1>1, <1>2, <1>3, <1>4, <1>5, CallEnds

LEMMA CopyStep == StoreInv /\ CopyRam => StoreInv'
<1> SUFFICES ASSUME StoreInv, CopyRam PROVE StoreInv'
  OBVIOUS
<1>1. /\ copying /\ ram' = [ram EXCEPT ![Key] = Copied(Value)] /\ todo' = Tail(todo)
      /\ copying' = FALSE
      /\ UNCHANGED <<flash, station, phase, reopen, forms, hwid, opening, mainHwid, crossed,
                     last, torn>>
  BY DEF CopyRam, bootVars, wsVars, histVars
<1>2. todo # <<>> /\ flash[Key] = Value
  BY <1>1 DEF StoreInv, CopyIsDue
<1>3. Key \in Keys /\ Value \in Settable /\ torn' \in BOOLEAN
  BY <1>1, <1>2, Typed, Rest DEF StoreInv
<1>4. ram' \in [Keys -> Copies]
  BY <1>1, <1>3, Typed, CopiedType DEF StoreInv
<1>5. PICK key \in Keys : key = Key
  BY <1>3
<1>6. ram'[key] = Copied(Value) /\ \A k \in Keys : k # key => ram'[k] = ram[k]
  BY <1>1, <1>5, Typed DEF StoreInv
<1>7. Agrees(key)'
  <2>1. flash'[key] = Value /\ Value # Nothing
    BY <1>1, <1>2, <1>3, <1>5, Tokens
  <2>2. QED
    BY <1>6, <2>1 DEF Agrees, Load, Copied
<1>8. last = "wifi" /\ ~torn' => ~torn /\ copying
  BY <1>1
<1>9. QED
  BY <1>1, <1>2, <1>3, <1>4, <1>5, <1>6, <1>7, <1>8, CallEnds

-----------------------------------------------------------------------------
(* Requests.                                                               *)

\* What a request to a uri may leave to do.
WifiAsks == \E v, w \in Settable :
  \/ todo' = << <<"apSsid", v>> >> /\ torn'
  \/ /\ todo' = << <<"apSsid", v>>, <<"apPasswd", w>> >>
     /\ ~torn' => v.fits /\ w.fits /\ v.form = w.form
Asks(key) == torn' = torn /\ \E v \in Settable : todo' = << <<key, v>> >>
AsksNothing == torn' = torn /\ todo' = <<>>

LEMMA Asked ==
  ASSUME TypeOK, NEW uri \in Uris, NEW fields, Receive(uri, fields),
         \/ uri = "wifi" /\ fields = <<"wifiSsid", "wifiPass">>
         \/ uri = "roomno" /\ fields = <<"roomNo">>
         \/ uri = "CH1" /\ fields \in {<<"CH1", "value">>, <<"ch1DeviceNo">>}
  PROVE  /\ torn' \in BOOLEAN
         /\ \/ uri = "wifi" /\ WifiAsks
            \/ uri = "roomno" /\ Asks("roomNo")
            \/ uri = "CH1" /\ (Asks("ch1DeviceNo") \/ AsksNothing)
<1>1. PICK fits \in [{fields[i] : i \in DOMAIN fields} -> BOOLEAN], n \in 1..Len(fields) :
        /\ todo' = Stores(uri, {fields[i] : i \in 1..n},
                          [name \in DOMAIN fits |-> [form |-> forms', fits |-> fits[name]]])
        /\ torn' = IF uri = "wifi"
                   THEN n < Len(fields) \/ \E name \in DOMAIN fits : ~fits[name]
                   ELSE torn
  BY DEF Receive
<1>2. forms' \in 1..MaxForms
  BY Typed, FormsAssumption DEF Receive
<1> DEFINE value == [name \in DOMAIN fits |-> [form |-> forms', fits |-> fits[name]]]
           found == {fields[i] : i \in 1..n}
<1>3. ASSUME NEW name \in DOMAIN fits
      PROVE  value[name] \in Values /\ value[name].fits = fits[name] /\ value[name].form = forms'
  <2>1. value[name] = [form |-> forms', fits |-> fits[name]] /\ fits[name] \in BOOLEAN
    OBVIOUS
  <2>2. QED
    BY <1>2, <2>1 DEF Values
<1>4. todo' = Stores(uri, found, value)
  BY <1>1
<1>5. torn' \in BOOLEAN
  BY <1>1, Typed
<1>6. CASE uri = "wifi" /\ fields = <<"wifiSsid", "wifiPass">>
  <2>1. "wifiSsid" \in DOMAIN fits /\ "wifiPass" \in DOMAIN fits
    <3>1. DOMAIN fits = {fields[i] : i \in DOMAIN fields}
      OBVIOUS
    <3>2. fields[1] = "wifiSsid" /\ fields[2] = "wifiPass" /\ 1 \in DOMAIN fields /\ 2 \in DOMAIN fields
      BY <1>6
    <3>3. QED
      BY <3>1, <3>2
  <2>2. value["wifiSsid"] \in Values /\ value["wifiPass"] \in Values
        /\ value["wifiSsid"].form = value["wifiPass"].form
        /\ value["wifiSsid"].fits = fits["wifiSsid"] /\ value["wifiPass"].fits = fits["wifiPass"]
    BY <1>3, <2>1
  <2>3. Len(fields) = 2 /\ fields[1] = "wifiSsid" /\ fields[2] = "wifiPass" /\ n \in {1, 2}
    BY <1>6
  <2>4. todo' = Sets("wifiSsid", "apSsid", found, value) \o Sets("wifiPass", "apPasswd", found, value)
    BY <1>4, <1>6 DEF Stores
  <2>5. "wifiSsid" \in found
    BY <2>3
  <2> HIDE DEF value, found
  <2>6. CASE n = 1
    <3>1. "wifiPass" \notin found
      BY <2>3, <2>6 DEF found
    <3>2. todo' = << <<"apSsid", value["wifiSsid"]>> >>
      BY <2>4, <2>5, <3>1 DEF Sets
    <3>3. torn'
      <4>1. n < Len(fields)
        BY <2>3, <2>6
      <4>2. QED
        BY <1>1, <1>6, <4>1, Zenon
    <3>4. QED
      BY <1>5, <1>6, <2>2, <3>2, <3>3 DEF WifiAsks, Settable
  <2>7. CASE n = 2
    <3>1. "wifiPass" \in found
      BY <2>3, <2>7 DEF found
    <3>2. todo' = << <<"apSsid", value["wifiSsid"]>>, <<"apPasswd", value["wifiPass"]>> >>
      <4>1. Sets("wifiSsid", "apSsid", found, value) = << <<"apSsid", value["wifiSsid"]>> >>
        BY <2>5 DEF Sets
      <4>2. Sets("wifiPass", "apPasswd", found, value) = << <<"apPasswd", value["wifiPass"]>> >>
        BY <3>1 DEF Sets
      <4>3. QED
        BY <2>4, <4>1, <4>2, InARow
    <3>3. ~torn' => fits["wifiSsid"] /\ fits["wifiPass"]
      BY <1>1, <1>6, <2>1
    <3>4. ~torn' => value["wifiSsid"].fits /\ value["wifiPass"].fits
      BY <2>2, <3>3
    <3>5. QED
      BY <1>5, <1>6, <2>2, <3>2, <3>4 DEF WifiAsks, Settable
  <2>8. QED
    BY <2>3, <2>6, <2>7
<1>7. CASE uri = "roomno" /\ fields = <<"roomNo">>
  <2>1. n = 1 /\ found = {"roomNo"} /\ DOMAIN fits = {"roomNo"}
    BY <1>7
  <2>2. value["roomNo"] \in Values
    BY <1>3, <2>1
  <2>3. todo' = Sets("roomNo", "roomNo", found, value)
    BY <1>4, <1>7 DEF Stores
  <2> HIDE DEF value, found
  <2>4. todo' = << <<"roomNo", value["roomNo"]>> >>
    BY <2>1, <2>3 DEF Sets
  <2>5. torn' = torn
    BY <1>1, <1>7
  <2>6. QED
    BY <1>5, <1>7, <2>2, <2>4, <2>5 DEF Asks, Settable
<1>8. CASE uri = "CH1" /\ fields = <<"ch1DeviceNo">>
  <2>1. n = 1 /\ found = {"ch1DeviceNo"} /\ DOMAIN fits = {"ch1DeviceNo"}
    BY <1>8
  <2>2. value["ch1DeviceNo"] \in Values
    BY <1>3, <2>1
  <2>3. todo' = Sets("ch1DeviceNo", "ch1DeviceNo", found, value)
    BY <1>4, <1>8 DEF Stores
  <2> HIDE DEF value, found
  <2>4. todo' = << <<"ch1DeviceNo", value["ch1DeviceNo"]>> >>
    BY <2>1, <2>3 DEF Sets
  <2>5. torn' = torn
    BY <1>1, <1>8
  <2>6. QED
    BY <1>5, <1>8, <2>2, <2>4, <2>5 DEF Asks, Settable
<1>9. CASE uri = "CH1" /\ fields = <<"CH1", "value">>
  <2>1. "ch1DeviceNo" \notin found
    <3>1. n \in {1, 2} /\ fields[1] = "CH1" /\ fields[2] = "value"
      BY <1>9
    <3>2. QED
      BY <3>1
  <2>2. todo' = Sets("ch1DeviceNo", "ch1DeviceNo", found, value)
    BY <1>4, <1>9 DEF Stores
  <2> HIDE DEF value, found
  <2>3. todo' = <<>>
    BY <2>1, <2>2 DEF Sets
  <2>4. torn' = torn
    BY <1>1, <1>9
  <2>5. QED
    BY <1>5, <1>9, <2>3, <2>4 DEF AsksNothing
<1>10. QED
  BY <1>6, <1>7, <1>8, <1>9

LEMMA ReceiveStep ==
  StoreInv /\ ((\E uri \in Uris : Submit(uri)) \/ SetDevice \/ SetDeviceToDefault) => StoreInv'
<1> SUFFICES ASSUME StoreInv,
                    (\E uri \in Uris : Submit(uri)) \/ SetDevice \/ SetDeviceToDefault
             PROVE  StoreInv'
  OBVIOUS
<1> USE DEF StoreInv
<1>1. /\ phase = "run" /\ todo = <<>> /\ ~reopen /\ forms < MaxForms /\ forms' = forms + 1
      /\ UNCHANGED <<flash, ram, station, phase, copying, hwid, opening, mainHwid, crossed>>
  BY DEF Submit, SetDevice, SetDeviceToDefault, Receive, bootVars, wsVars
<1>2. PICK uri \in Uris :
        /\ reopen' = (todo' # <<>> /\ uri = "CH1") /\ last' = uri /\ torn' \in BOOLEAN
        /\ \/ uri = "wifi" /\ WifiAsks
           \/ uri = "roomno" /\ Asks("roomNo")
           \/ uri = "CH1" /\ (Asks("ch1DeviceNo") \/ AsksNothing)
  <2>1. CASE (\E uri \in Uris : Submit(uri)) \/ SetDevice
    <3>1. PICK uri \in Uris,
               fields \in {<<"wifiSsid", "wifiPass">>, <<"roomNo">>, <<"CH1", "value">>,
                           <<"ch1DeviceNo">>} :
            /\ Receive(uri, fields)
            /\ \/ uri = "wifi" /\ fields = <<"wifiSsid", "wifiPass">>
               \/ uri = "roomno" /\ fields = <<"roomNo">>
               \/ uri = "CH1" /\ fields \in {<<"CH1", "value">>, <<"ch1DeviceNo">>}
      BY <2>1 DEF Submit, SetDevice, Uris, PageFields
    <3>2. reopen' = (todo' # <<>> /\ uri = "CH1") /\ last' = uri
      BY <3>1 DEF Receive, Reopens
    <3>3. QED
      BY <3>1, <3>2, Asked
  <2>2. CASE SetDeviceToDefault
    <3>1. todo' = << <<"ch1DeviceNo", Default>> >> /\ reopen' = TRUE /\ last' = "CH1" /\ torn' = torn
      BY <2>2 DEF SetDeviceToDefault, Reopens
    <3>2. "CH1" \in Uris
      BY DEF Uris, PageFields
    <3>3. torn' \in BOOLEAN /\ Asks("ch1DeviceNo") /\ todo' # <<>>
      BY <3>1, Typed, Tokens DEF Asks
    <3>4. QED
      BY <3>1, <3>2, <3>3
  <2>3. QED
    BY <2>1, <2>2
<1>3. ~copying /\ copying' = copying /\ (~torn => OneForm)
  BY <1>1, Typed DEF CopyIsDue, Pairing
<1>4. todo' \in Seq(Keys \X Settable) /\ Len(todo') <= 2 /\ DeviceReopens' /\ Pairing'
  <2>1. OneForm' <=> OneForm
    BY <1>1 DEF OneForm, Load
  <2>2. CASE uri = "wifi" /\ WifiAsks
    <3>1. PICK v \in Settable, w \in Settable :
            \/ todo' = << <<"apSsid", v>> >> /\ torn'
            \/ /\ todo' = << <<"apSsid", v>>, <<"apPasswd", w>> >>
               /\ ~torn' => v.fits /\ w.fits /\ v.form = w.form
      BY <2>2 DEF WifiAsks
    <3>2. "apSsid" \in Keys /\ "apPasswd" \in Keys
      BY DEF Keys
    <3>3. CASE todo' = << <<"apSsid", v>> >> /\ torn'
      BY <1>1, <1>2, <2>2, <3>2, <3>3, OneCall DEF DeviceReopens, Pairing
    <3>4. CASE todo' = << <<"apSsid", v>>, <<"apPasswd", w>> >>
               /\ (~torn' => v.fits /\ w.fits /\ v.form = w.form)
      <4>1. /\ todo' \in Seq(Keys \X Settable) /\ Len(todo') = 2 /\ todo' # <<>>
            /\ todo'[1][1] = "apSsid" /\ todo'[1][2] = v
            /\ todo'[2][1] = "apPasswd" /\ todo'[2][2] = w /\ DOMAIN todo' = {1, 2}
        BY <3>2, <3>4, TwoCalls
      <4>2. DeviceReopens'
        BY <4>1 DEF DeviceReopens
      <4>3. ~torn' => BothDue'
        BY <3>4, <4>1 DEF BothDue
      <4>4. Pairing'
        BY <1>1, <1>2, <2>2, <4>1, <4>3 DEF Pairing
      <4>5. QED
        BY <4>1, <4>2, <4>4
    <3>5. QED
      BY <3>1, <3>3, <3>4
  <2>3. CASE uri = "roomno" /\ Asks("roomNo")
    <3>1. PICK v \in Settable : todo' = << <<"roomNo", v>> >>
      BY <2>3 DEF Asks
    <3>2. /\ todo' \in Seq(Keys \X Settable) /\ Len(todo') = 1
          /\ todo'[1][1] = "roomNo" /\ DOMAIN todo' = {1}
      BY <3>1, OneCall DEF Keys
    <3>3. torn' = torn
      BY <2>3 DEF Asks
    <3>4. QED
      BY <1>1, <1>2, <1>3, <2>1, <2>3, <3>2, <3>3 DEF DeviceReopens, Pairing
  <2>4. CASE uri = "CH1" /\ Asks("ch1DeviceNo")
    <3>1. PICK v \in Settable : todo' = << <<"ch1DeviceNo", v>> >>
      BY <2>4 DEF Asks
    <3>2. /\ todo' \in Seq(Keys \X Settable) /\ Len(todo') = 1 /\ todo' # <<>>
          /\ todo'[1][1] = "ch1DeviceNo" /\ DOMAIN todo' = {1}
      BY <3>1, OneCall DEF Keys
    <3>3. torn' = torn
      BY <2>4 DEF Asks
    <3>4. reopen'
      BY <1>1, <1>2, <2>4, <3>2, Zenon
    <3>5. DeviceReopens'
      BY <3>4 DEF DeviceReopens
    <3>6. Pairing'
      BY <1>1, <1>2, <1>3, <2>1, <2>4, <3>2, <3>3 DEF Pairing
    <3>7. QED
      BY <3>2, <3>5, <3>6
  <2>5. CASE uri = "CH1" /\ AsksNothing
    <3>1. torn' = torn /\ todo' = <<>> /\ DOMAIN todo' = {}
      BY <2>5 DEF AsksNothing
    <3>2. QED
      BY <1>1, <1>2, <1>3, <2>1, <2>5, <3>1 DEF DeviceReopens, Pairing
  <2>6. QED
    BY <1>2, <2>2, <2>3, <2>4, <2>5
<1>5. reopen' \in BOOLEAN /\ forms' \in 0..MaxForms
  <2>1. reopen' \in BOOLEAN
    BY <1>1, <1>2, Zenon
  <2>2. forms' \in 0..MaxForms
    BY <1>1, <1>2, Typed, FormsAssumption
  <2>3. QED
    BY <2>1, <2>2
<1>6. TypeOK'
  BY <1>1, <1>2, <1>3, <1>4, <1>5, Typed, Retyped
<1>7. OnlyUp' /\ CopyIsDue' /\ CopiesAgree'
  BY <1>1, <1>2, <1>3 DEF OnlyUp, CopyIsDue, CopiesAgree, Agrees, Load
<1>8. HwidFollows'
  BY <1>1, <1>2 DEF HwidFollows, Opened
<1>9. QED
  BY <1>4, <1>6, <1>7, <1>8

LEMMA RestartStep == StoreInv /\ (Reboot \/ PowerLoss) => StoreInv'
<1> SUFFICES ASSUME StoreInv, Reboot \/ PowerLoss PROVE StoreInv'
  OBVIOUS
<1> USE DEF StoreInv
<1>1. /\ phase' = "nvs" /\ todo' = <<>> /\ ~copying' /\ copying' = FALSE /\ reopen' = FALSE
      /\ hwid' = NoClient /\ opening' = "waits" /\ mainHwid' = NoClient /\ crossed' = FALSE
      /\ UNCHANGED <<flash, ram, station, forms, last>>
  BY DEF Reboot, PowerLoss, Restarts
<1>2. /\ torn' = torn \/ torn' = (torn \/ (last = "wifi" /\ Len(todo) > IF copying THEN 1 ELSE 0))
      /\ Reboot => todo = <<>>
  BY DEF Reboot, PowerLoss, HandlesNext
<1>3. torn' \in BOOLEAN /\ todo' \in Seq(Keys \X Settable) /\ Len(todo') <= 2 /\ DOMAIN todo' = {}
  <2>1. torn \in BOOLEAN
    BY Typed
  <2>2. torn' \in BOOLEAN
    BY <1>2, <2>1, Zenon
  <2>3. QED
    BY <1>1, <2>2
<1>4. TypeOK'
  BY <1>1, <1>3, Typed, Retyped
<1>5. OnlyUp' /\ CopyIsDue' /\ CopiesAgree' /\ DeviceReopens' /\ HwidFollows'
  BY <1>1, <1>3 DEF OnlyUp, CopyIsDue, CopiesAgree, DeviceReopens, HwidFollows
<1>6. OneForm' <=> OneForm
  BY <1>1 DEF OneForm, Load
<1>7. ~torn' => ~torn /\ (last = "wifi" => todo = <<>> \/ (copying /\ Len(todo) = 1))
  <2>1. CASE Reboot
    BY <1>2, <2>1 DEF Reboot
  <2>2. CASE PowerLoss
    <3>1. torn' = (torn \/ (last = "wifi" /\ Len(todo) > IF copying THEN 1 ELSE 0))
      BY <2>2 DEF PowerLoss
    <3>2. Len(todo) \in Nat /\ (Len(todo) = 0 => todo = <<>>)
      BY Typed
    <3>3. ~torn' => ~torn /\ ~(last = "wifi" /\ Len(todo) > IF copying THEN 1 ELSE 0)
      BY <3>1, Zenon
    <3>4. CASE copying
      <4>1. Len(todo) # 0
        BY <3>4 DEF CopyIsDue
      <4>2. QED
        BY <3>2, <3>3, <3>4, <4>1
    <3>5. CASE ~copying
      BY <3>2, <3>3, <3>5
    <3>6. QED
      BY <3>4, <3>5
  <2>3. QED
    BY <2>1, <2>2
<1>8. ~torn' => OneForm
  <2>1. CASE ~torn' /\ last = "wifi" /\ todo # <<>>
    <3>1. copying /\ Len(todo) = 1 /\ flash[Key] = Value /\ ~torn
      BY <1>7, <2>1 DEF CopyIsDue
    <3>2. LastDue
      BY <2>1, <3>1 DEF Pairing, BothDue
    <3>3. flash["apPasswd"] = Value /\ Value \in Settable /\ Value.fits
          /\ flash["apSsid"] # Nothing /\ flash["apSsid"].fits
          /\ flash["apSsid"].form = Value.form
      BY <2>1, <3>1, <3>2, Typed, Rest DEF LastDue
    <3>4. QED
      BY <3>3, Tokens DEF OneForm, Load
  <2>2. CASE ~torn' /\ ~(last = "wifi" /\ todo # <<>>)
    BY <1>7, <2>2 DEF Pairing
  <2>3. QED
    BY <2>1, <2>2
<1>9. Pairing'
  BY <1>1, <1>3, <1>6, <1>8 DEF Pairing
<1>10. QED
  BY <1>4, <1>5, <1>9

LEMMA StoreNext == StoreInv /\ [Next]_vars => StoreInv'
<1> SUFFICES ASSUME StoreInv, [Next]_vars PROVE StoreInv'
  OBVIOUS
<1>1. CASE UNCHANGED vars
  <2>1. UNCHANGED <<flash, ram, station, phase, todo, copying, reopen, forms, hwid, opening,
                    mainHwid, crossed, last, torn>>
    BY <1>1 DEF vars, bootVars, httpVars, wsVars, histVars
  <2>2. TypeOK'
    BY <2>1 DEF StoreInv, TypeOK
  <2>3. OnlyUp' /\ CopyIsDue' /\ CopiesAgree'
    BY <2>1 DEF StoreInv, OnlyUp, CopyIsDue, CopiesAgree, Agrees, Load, Key, Value
  <2>4. DeviceReopens' /\ HwidFollows' /\ Pairing'
    BY <2>1 DEF StoreInv, DeviceReopens, HwidFollows, Opened, Pairing, OneForm, BothDue, LastDue,
       Load, Key, Value
  <2>5. QED
    BY <2>2, <2>3, <2>4 DEF StoreInv
<1>2. CASE Next
  BY <1>2, BootStep, SocketStep, ReceiveStep, FlashStep, FailStep, CopyStep, RestartStep DEF Next
<1>3. QED
  BY <1>1, <1>2

-----------------------------------------------------------------------------
(* Results.                                                                *)

\* Flash, its copy in RAM, the calls left of a request and the headers of the
\* connection fit together at every moment.
THEOREM StoreInvariant == Spec => []StoreInv
<1>1. QED
  BY StoreInit, StoreNext, PTL DEF Spec

\* Between requests RAM holds what a reboot would load.
THEOREM RamIsAReload == Spec => []RamIsReload
<1>1. StoreInv => RamIsReload
  BY Typed DEF StoreInv, CopyIsDue, CopiesAgree, Agrees, RamIsReload
<1>2. QED
  BY <1>1, StoreInvariant, PTL

\* The station is given an SSID and a password of one form, unless one was cut.
THEOREM CredentialsAreOfOneForm == Spec => []CredentialsOfOneForm
<1>1. StoreInv => CredentialsOfOneForm
  BY DEF StoreInv, OnlyUp, Pairing, OneForm, CredentialsOfOneForm
<1>2. QED
  BY <1>1, StoreInvariant, PTL

\* Between requests messages carry the number the connection was opened with.
THEOREM MessagesGoUnderHwid == Spec => []MessagesUnderHwid
<1>1. StoreInv => MessagesUnderHwid
  BY DEF StoreInv, HwidFollows, MessagesUnderHwid
<1>2. QED
  BY <1>1, StoreInvariant, PTL
=============================================================================

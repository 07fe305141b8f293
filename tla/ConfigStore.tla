---------------------------- MODULE ConfigStore ----------------------------
(***************************************************************************)
(* The settings: stored in flash and copied in RAM by osj_nvs.c, written   *)
(* by the POST handlers of osj_http.c, read at boot by osj_nvs_init and    *)
(* osj_wifi_init, and whenever the websocket is opened.  All handlers run  *)
(* in the one httpd task, which is up before app_main opens the websocket. *)
(*                                                                         *)
(* A value is the number of the form it was submitted with and whether it  *)
(* fits its field with its terminator.  Flash writes of one key are atomic *)
(* (the NVS library), and the copy to RAM happens under the config mutex.  *)
(* Of the keys of osj_nvs_set_str, those that no handler sets are left out.*)
(* A form may also hold the default device number, which no websocket is   *)
(* opened for.                                                             *)
(* Of the websocket, only the HWID header it was opened with is kept: how  *)
(* clients are stopped, lost and freed is Uplink.                          *)
(***************************************************************************)
EXTENDS Integers, Sequences

CONSTANT MaxForms       \* forms submitted

ASSUME FormsAssumption == MaxForms \in Nat

Keys == {"apSsid", "apPasswd", "roomNo", "ch1DeviceNo"}

Values  == [form : 1..MaxForms, fits : BOOLEAN]
Nothing == [form |-> 0, fits |-> FALSE]       \* no such key in flash
Default == [form |-> 0, fits |-> TRUE]        \* the default_value of the reader
Settable == Values \cup {Default}             \* what a request may set
Unterminated == [form |-> -1, fits |-> FALSE] \* a field without a terminator
NoClient     == [form |-> -2, fits |-> FALSE] \* no websocket is open

\* The fields of the forms of html/index.html, by action.
PageFields == [wifi   |-> <<"wifiSsid", "wifiPass">>,
               roomno |-> <<"roomNo">>,
               CH1    |-> <<"CH1", "value">>]
Uris == DOMAIN PageFields

VARIABLES
  flash,    \* namespace "storage"
  ram,      \* sys_config
  station,  \* the credentials in the driver's own, persistent config
  phase,    \* "nvs", "wifi": next step of the boot; "run"
  todo,     \* the set_str calls left in this request: <<key, value>>
  copying,  \* the first of them is stored in flash
  reopen,   \* the request ends with osj_websocket_restart
  forms,    \* number of the last request
  hwid,     \* the device number in the headers of client
  opening,  \* app_main: "waits", "reads": its client has these headers, "done"
  mainHwid, \* the device number app_main read
  \* history
  last,     \* uri of the last request
  torn,     \* the last /wifi request was not stored whole
  crossed   \* a restart while app_main was opening

bootVars == <<station, phase>>
httpVars == <<todo, copying, reopen, forms>>
wsVars   == <<hwid, opening, mainHwid, crossed>>
histVars == <<last, torn>>
vars     == <<flash, ram, bootVars, httpVars, wsVars, histVars>>

\* osj_nvs_get_str: a value too long for the caller's buffer is not read.
Load(k) == IF flash[k] # Nothing /\ flash[k].fits THEN flash[k] ELSE Default

\* What strncpy leaves in the field.
CopiedWhole(v) == v                              \* mutant: no size given
Copied(v) == IF v.fits THEN v ELSE Unterminated

Init ==
  /\ flash = [k \in Keys |-> Nothing]
  /\ ram = [k \in Keys |-> Default]
  /\ station = <<Default, Default>>
  /\ phase = "nvs"
  /\ todo = <<>> /\ copying = FALSE /\ reopen = FALSE /\ forms = 0
  /\ hwid = NoClient /\ opening = "waits" /\ mainHwid = NoClient /\ crossed = FALSE
  /\ last = "roomno" /\ torn = FALSE

-----------------------------------------------------------------------------
BootNvs ==
  /\ phase = "nvs"
  /\ phase' = "wifi"
  /\ ram' = [k \in Keys |-> Load(k)]
  /\ UNCHANGED <<flash, station, httpVars, wsVars, histVars>>

\* The partition has no free page, or is of another version: all is erased.
BootErases ==
  /\ phase = "nvs"
  /\ phase' = "wifi"
  /\ flash' = [k \in Keys |-> Nothing]
  /\ ram' = [k \in Keys |-> Default]
  /\ station' = <<Default, Default>>
  /\ torn' = FALSE
  /\ UNCHANGED <<httpVars, wsVars, last>>

\* Without an SSID the driver's config is not set, and is what it was.
BootWifi ==
  /\ phase = "wifi"
  /\ phase' = "run"
  /\ station' = IF Load("apSsid") = Default THEN station
                ELSE <<Load("apSsid"), Load("apPasswd")>>
  /\ UNCHANGED <<flash, ram, httpVars, wsVars, histVars>>

-----------------------------------------------------------------------------
(* The websocket's headers.                                                *)

\* start_client: with the default number, set or not, nothing is opened.
Opened == IF ram["ch1DeviceNo"] = Default THEN NoClient ELSE ram["ch1DeviceNo"]

MainReads ==
  /\ phase = "run" /\ opening = "waits" /\ opening' = "reads"
  /\ mainHwid' = Opened
  /\ UNCHANGED <<flash, ram, bootVars, httpVars, hwid, crossed, histVars>>

MainOpens ==
  /\ opening = "reads" /\ opening' = "done"
  /\ hwid' = mainHwid
  /\ UNCHANGED <<flash, ram, bootVars, httpVars, mainHwid, crossed, histVars>>

\* osj_websocket_restart, after the set_str of the request.
Reopen ==
  /\ reopen /\ todo = <<>> /\ reopen' = FALSE
  /\ hwid' = Opened
  /\ crossed' = (crossed \/ opening = "reads")
  /\ UNCHANGED <<flash, ram, bootVars, todo, copying, forms, opening, mainHwid, histVars>>

-----------------------------------------------------------------------------
(* Requests.                                                               *)

\* The set_str call for a field, if it is found in the body.
Sets(name, key, found, value) ==
  IF name \in found THEN << <<key, value[name]>> >> ELSE <<>>

\* The set_str calls of a handler, in its order.
Stores(uri, found, value) ==
  CASE uri = "wifi"   -> Sets("wifiSsid", "apSsid", found, value)
                           \o Sets("wifiPass", "apPasswd", found, value)
    [] uri = "roomno" -> Sets("roomNo", "roomNo", found, value)
    [] uri = "CH1"    -> Sets("ch1DeviceNo", "ch1DeviceNo", found, value)

ReopensNever(uri) == FALSE              \* mutant: the number is only stored
Reopens(uri) == uri = "CH1"

\* A request with these fields; httpd_req_recv may return only the first of them.
\* A request too long for the buffer, or not received at all, changes nothing.
Receive(uri, fields) ==
  /\ phase = "run" /\ todo = <<>> /\ ~reopen
  /\ forms < MaxForms
  /\ forms' = forms + 1
  /\ \E fits \in [{fields[i] : i \in DOMAIN fields} -> BOOLEAN], n \in 1..Len(fields) :
       /\ todo' = Stores(uri, {fields[i] : i \in 1..n},
                         [name \in DOMAIN fits |-> [form |-> forms', fits |-> fits[name]]])
       /\ torn' = IF uri = "wifi"
                  THEN n < Len(fields) \/ \E name \in DOMAIN fits : ~fits[name]
                  ELSE torn
  /\ reopen' = (todo' # <<>> /\ Reopens(uri))
  /\ last' = uri
  /\ UNCHANGED <<flash, ram, bootVars, copying, wsVars>>

\* A form of the page; or the one request of another client that /CH1 understands.
Submit(uri) == Receive(uri, PageFields[uri])
SetDevice   == Receive("CH1", <<"ch1DeviceNo">>)

\* The same with the default number: the board is to have no websocket.
SetDeviceToDefault ==
  /\ phase = "run" /\ todo = <<>> /\ ~reopen
  /\ forms < MaxForms
  /\ forms' = forms + 1
  /\ todo' = << <<"ch1DeviceNo", Default>> >>
  /\ reopen' = Reopens("CH1")
  /\ last' = "CH1"
  /\ UNCHANGED <<flash, ram, bootVars, copying, wsVars, torn>>

Key   == todo[1][1]
Value == todo[1][2]

WriteFlash ==
  /\ todo # <<>> /\ ~copying
  /\ flash' = [flash EXCEPT ![Key] = Value]
  /\ copying' = TRUE
  /\ UNCHANGED <<ram, bootVars, todo, reopen, forms, wsVars, histVars>>

\* nvs_open or nvs_set_str fails; set_str says nothing and the handler goes on.
FailsDirty == ram' = [ram EXCEPT ![Key] = Copied(Value)]    \* mutant: copied all the same
FailsClean == UNCHANGED ram
WriteFails ==
  /\ todo # <<>> /\ ~copying
  /\ FailsClean
  /\ todo' = Tail(todo)
  /\ torn' = (torn \/ last = "wifi")
  /\ UNCHANGED <<flash, bootVars, copying, reopen, forms, wsVars, last>>

CopyRam ==
  /\ copying
  /\ ram' = [ram EXCEPT ![Key] = Copied(Value)]
  /\ todo' = Tail(todo)
  /\ copying' = FALSE
  /\ UNCHANGED <<flash, bootVars, reopen, forms, wsVars, histVars>>

Restarts == /\ phase' = "nvs"
            /\ todo' = <<>> /\ copying' = FALSE /\ reopen' = FALSE
            /\ hwid' = NoClient /\ opening' = "waits" /\ mainHwid' = NoClient
            /\ crossed' = FALSE
            /\ UNCHANGED <<flash, ram, station, forms, last>>

\* /reboot is handled after the request before it has been.
HandlesAnytime == TRUE                           \* mutant: reboots at once
HandlesNext == todo = <<>> /\ ~reopen
Reboot == phase = "run" /\ HandlesNext /\ Restarts /\ UNCHANGED torn

PowerLoss == /\ Restarts
             /\ torn' = (torn \/ (last = "wifi" /\ Len(todo) > IF copying THEN 1 ELSE 0))

Next == \/ BootNvs \/ BootErases \/ BootWifi
        \/ MainReads \/ MainOpens \/ Reopen
        \/ (\E uri \in Uris : Submit(uri)) \/ SetDevice \/ SetDeviceToDefault
        \/ WriteFlash \/ WriteFails \/ CopyRam
        \/ Reboot \/ PowerLoss

Spec == Init /\ [][Next]_vars

-----------------------------------------------------------------------------
\* What is stored and what is copied are submitted values.
TypeOK ==
  /\ flash \in [Keys -> Settable \cup {Nothing}]
  /\ ram \in [Keys -> {v \in Values : v.fits} \cup {Default, Unterminated}]
  /\ station \in Settable \X Settable
  /\ phase \in {"nvs", "wifi", "run"}
  /\ todo \in Seq(Keys \X Settable) /\ Len(todo) <= 2 /\ {copying, reopen} \subseteq BOOLEAN
  /\ forms \in 0..MaxForms
  /\ {hwid, mainHwid} \subseteq Values \cup {NoClient, Unterminated}
  /\ opening \in {"waits", "reads", "done"} /\ {torn, crossed} \subseteq BOOLEAN

\* Between requests RAM holds what a reboot would load, but for a value too long
\* for its field: also after failed flash writes, and whatever power losses came
\* before (osj_nvs.c, lines 65-86).
RamIsReload == phase # "nvs" /\ todo = <<>> =>
  \A k \in Keys : IF flash[k] = Nothing \/ flash[k].fits THEN ram[k] = Load(k)
                  ELSE ram[k] \in {Default, Unterminated}

\* The station is given an SSID and a password of one form, unless the last form
\* was cut short: by a power loss, a failed flash write, an incomplete request or a
\* value too long.  A reboot on request cuts none (osj_http.c, lines 194-231, 260-263).
CredentialsOfOneForm ==
  phase = "wifi" /\ ~torn => Load("apSsid").form = Load("apPasswd").form

\* Between requests the connection was opened with the device number in RAM (line
\* 62), from which each message takes its number at the send (osj_websocket.c,
\* lines 133 and 155), and there is none only for the default number: whichever
\* writes of the requests failed, unless a restart crossed the opening at boot.
\* Within a request it may differ: the number is in RAM before the old connection
\* is stopped.
MessagesUnderHwid ==
  /\ todo = <<>> /\ ~reopen /\ ~crossed
  /\ opening = "done" \/ hwid # NoClient
  => hwid = Opened

-----------------------------------------------------------------------------
(* The inductive strengthening.                                            *)

\* Requests, and the websocket, belong to a device that is up.
OnlyUp == todo # <<>> \/ reopen \/ opening # "waits" \/ hwid # NoClient => phase = "run"

\* A write that is not yet copied is in flash.
CopyIsDue == copying => todo # <<>> /\ flash[Key] = Value

Agrees(k) == IF flash[k] = Nothing \/ flash[k].fits THEN ram[k] = Load(k)
             ELSE ram[k] \in {Default, Unterminated}

\* Each key's copy agrees with flash but the one about to be copied.
CopiesAgree == phase # "nvs" => \A k \in Keys : (copying /\ k = Key) \/ Agrees(k)

\* Only a request that ends with a restart stores the device number.
DeviceReopens == ~reopen => \A i \in DOMAIN todo : todo[i][1] # "ch1DeviceNo"
HwidFollows == ~reopen /\ ~crossed =>
  /\ opening = "done" \/ hwid # NoClient => hwid = Opened
  /\ opening = "reads" => mainHwid = Opened

\* Both credentials are of one form, or the rest of it is about to be stored.
OneForm == Load("apSsid").form = Load("apPasswd").form
BothDue == /\ Len(todo) = 2 /\ todo[1][1] = "apSsid" /\ todo[2][1] = "apPasswd"
           /\ todo[1][2].fits /\ todo[2][2].fits /\ todo[1][2].form = todo[2][2].form
LastDue == /\ Len(todo) = 1 /\ Key = "apPasswd" /\ Value.fits
           /\ flash["apSsid"] # Nothing /\ flash["apSsid"].fits
           /\ flash["apSsid"].form = Value.form
Pairing == IF last = "wifi"
           THEN ~torn => IF todo = <<>> THEN OneForm ELSE BothDue \/ LastDue
           ELSE /\ ~torn => OneForm
                /\ \A i \in DOMAIN todo : todo[i][1] \notin {"apSsid", "apPasswd"}

StoreInv == /\ TypeOK /\ OnlyUp /\ CopyIsDue /\ CopiesAgree
            /\ DeviceReopens /\ HwidFollows /\ Pairing

-----------------------------------------------------------------------------
\* osj_nvs.h of default_value: the value to return if there is none.
DefaultOnlyIfNone == \A k \in Keys : flash[k] \in Values => Load(k) # Default
=============================================================================

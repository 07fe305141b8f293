# OSJ V3 firmware: TLA+ specifications, TLC runs and TLAPS proofs

The firmware in `src/Lotura` runs on an ESP32 board that watches two laundry
machines. A detection loop measures current, water flow and the drain of each
channel, decides when a cycle starts and ends, and reports log lines and a status
to a server over a websocket. A web server on the board takes the settings.

This directory specifies that firmware in TLA+. Every module translates the C code
named in its heading; `PROJECT.json` maps each definition to its lines. Every
module can be checked with TLC on the small instance of its `.cfg`; every safety
and action property the passing runs check is also proved, for all values of the
constants, with TLAPS.

    tlc -workers 2 -config MCLaundryTiming.cfg MCLaundryTiming.tla
    tlapm LaundryProofs.tla

## 1. The system

Tasks: `app_main` (the boot, then it ends), `laundry_core_task` (priority 5), the
`httpd` task (all handlers), one task per websocket client, the event loop task
(Wi-Fi events), and the timer task (poll of the pulse counters, retry of Wi-Fi).

| Component | State | Operations | Talks to |
|---|---|---|---|
| `laundry_core` | per channel: cycle running?, debounce, end delay, log flags, line number, status, LED; the flow window | one pass: sample everything, judge channel 1, judge channel 2, `vTaskDelay` | reads `osj_sensor`, `osj_gpio`, `sys_config`; sends through `osj_websocket` |
| `osj_sensor` | hardware counters and two accumulated counts, ADC handle | poll timer callback, stateless reads | timer task writes what the loop reads |
| `osj_nvs` | flash namespace, `sys_config` in RAM, its mutex | load at boot, `set_str`, `get_str`, numbers and booleans | called by `osj_http`, `osj_wifi` |
| `osj_http` | server handle | `GET /` (template), POST `/wifi`, `/roomno`, `/CH1`, `/CH2`, `/update`, `GET /reboot`, `/SetDefaultVal` | `osj_nvs`, `osj_websocket_restart`, OTA |
| `osj_websocket` | global `client`, `is_restarting` | start, restart, send status, send log, events | called by `app_main`, `httpd`, `laundry_core` |
| `esp_websocket_client` (vendored) | object, task, recursive lock, event bits | init, start, stop, destroy, send, the client task | the network |
| `osj_wifi` | `s_is_connected`, `s_retry_num`, retry timer | event handler, timer callback, fallback access point | driver, event loop, timer task |
| `osj_gpio`, `osj_common` | none | pin access, constants | everything |
| `main` | none | the order of the boot | everything |

What is hard, and what makes each part correct:

* **Detection.** A washer is debounced with a stamp that the start of its cycle
  clears, so a running machine looks idle for a moment and the end delay may run
  meanwhile. The mode pin is read every pass, so a cycle can start under the
  washer's rule and end under the dryer's, which forgets fewer flags. Sends can
  block the loop for seconds in the middle of a judgement. *Correct* if a machine
  in use is never reported as ended, a glitch never starts a cycle, an idle machine
  ends, a busy one starts, and the messages of a channel always tell one story.
* **Delivery.** A message is dropped without a word when there is no connection or no
  free lock, and a reboot forgets the running cycle. *Correct* if the server can say
  what it missed, and the next status that arrives puts it right.
* **Flow.** Three widths of integer, a counter that restarts at 32767, and a timer
  and a window of the same period in different tasks. *Correct* if no pulse is lost
  and a window reports what fell into it.
* **Connection.** Three tasks share `client` without a lock and a fourth writes
  the object it points to. *Correct* if a restart always ends, an interrupted
  connection returns, no client is lost and none is used after its end.
* **Settings.** Two copies, two calls per form, no error reported, and a connection
  that keeps the device number it was opened with. *Correct* if RAM is what a reboot
  would load, SSID and password belong together, and messages carry the number of
  the connection they go over.
* **Wi-Fi.** Event handler, one-shot timer and driver hand each other the duty to
  try again, and the timer is started through a queue that may be full. *Correct* if
  one of them always has it.
* **Firmware update.** Files cut short, timeouts taken for the end, flash errors and
  power losses between any two steps. *Correct* if the board always has one whole
  version to boot, changes only to a version that was offered whole, and answers truly.
* **Page.** The template is one loop over chunks and pairs of percent signs, and a
  chunk of length zero, which an empty setting becomes, ends the response. *Correct*
  if every piece of the page is sent once, in order, and replaced exactly if it is a
  placeholder; the loop does that only while no setting it has to show is empty.

`PROJECT.json` lists the hazards at their lines, each with the properties that
watch it or the reason why none does.

## 2. Modules

    LaundryCore <-- LaundryTiming (implements CycleContract) <-- LaundryProofs
    LaundryCore <-- LaundryStream, LaundryDelivery <-- LaundryMessages
    LaundryMessages <-- LaundryMessageProofs
    FlowMeter <-- FlowProofs
    WsClient <-- Uplink <-- UplinkProofs
    ConfigStore <-- ConfigProofs
    WifiStation <-- WifiStationProofs
    Firmware <-- OtaUpdate <-- OtaProofs
    Page <-- PageProofs

A module extends or instantiates the ones its arrow points to. `LaundryMessageProofs`
extends `LaundryProofs` too.

**LaundryCore** is `laundry_core.c`. The two copies of every variable (`ch1Cnt`,
`ch2Cnt`...) are functions of the channel. `Sample` is the top of a pass (readings
and mode pins of all channels at once); `Judge(ch)` is a call of `StatusJudgment`
or `DryerStatusJudgment`, split by outcome: `Start`, `Keep`, `Settle` (first
judgement out of use: stamps the end delay), `Wait`, `End`. `Tick` lets time pass
between any two steps. A measured value is the side of the hysteresis band it falls
on; a time stamp is its distance to now, capped at `Horizon`. A judgement reads
`millis()` once more after it has sent log lines: `stalls` says that these sends
lasted the debounce time, the only place inside a judgement where time matters.
`MaxLogKey` caps the line number.

**LaundryTiming** adds three history variables (`quietFor`, `silentFor`, `heldFor`)
and states the timing properties and the inductive invariant `TInv`.
**CycleContract** is the abstract specification: a working machine is shown idle
only after it has been out of use for the end delay of the mode it is judged by at
that moment. `LaundryTiming` implements it with `working <- currStatus = 0`,
`idleFor <- quietFor` and the mode of the last reading of the pins; a pass that reads
the pins is the contract's `Switch`.

**LaundryStream** adds a server that gets every message since the board booted: `view`
replays them in the order they were sent and notes every rule a message breaks.
**LaundryDelivery** adds another that does not: it drops any of them (`Delivered`
takes the messages of a judgement and the set that arrives) and lets the board reboot
between any two steps (`Reboot`). `server` is what a server can believe that sees only
what arrives, `fate` the history of what was lost; the properties relate the two.
**LaundryMessages** joins them over one board; it is the specification (`MSpec`) that
is checked and that the theorems are about. Over one connection and from one task
messages keep their order. When a message is dropped is left open: the code drops it
for the state of `client`, which is `Uplink`'s.

**FlowMeter** is the pulse counter, the poll callback and the flow window of one
channel. `Unsigned` is the conversion to the width of the C type.

**WsClient** is the vendored client object and its task, as far as `osj_websocket.c`
reaches it, with the options of `sdkconfig` and `start_client`: one recursive lock,
`auto_reconnect` on, `close_reconnect` off. Each action is a stretch of the task
between two points where another task can act on what it touches. The loop condition
is tested before the lock is waited for and not again when it comes (`EntersPass`,
`TakeLock`), so a task that was asked to stop may first have to wait for a sender and
make one more pass. Reading a CLOSE and setting `CLOSING` are two steps (`ReadClose`,
`SetsClosing`), between which a sender may abort the connection. A client whose
`esp_websocket_client_start` failed (no transport, no task) is `Initialised`: an object
without a task, which `start_client` hands out all the same; one that could not be
created is the handle 0.
**Uplink** puts `osj_websocket.c` on top: `app_main` (`MainStarts`, `MainAssigns`),
`httpd` in `osj_websocket_restart` (`Stop` ... `HttpdAssigns`, one action per read or
write of a shared variable), the detection loop in a send (`Check`, `Enter`, `Lock`,
`GiveUp`, `Write`) and the network. Three assumptions, each stated at its action: a
call on a freed object may answer anything and is taken to change nothing; the
client task that `app_main` creates has the higher priority and begins before
`app_main` goes on; the one that `httpd` creates has `httpd`'s own priority and
begins before `httpd` takes the next post. Without the last two, a stop could come
before the task's `run = true` and wait for ever; no test and no comment speaks of
it, and it is listed as a hazard.

**ConfigStore** is `osj_nvs.c`, the handlers that write settings, the two reads at
boot, and the device number a websocket is opened with (`MainReads` and `MainOpens`
by `app_main`, `Reopen` by `/CH1`; each websocket's life is `Uplink`'s). A value is
the form it came with and whether it fits its field; the default device number may be
submitted too (`SetDeviceToDefault`), and no websocket is opened for it. `BootErases`
is the boot that finds a settings partition it cannot use. `BootWifi` gives the driver
the stored credentials; without a stored SSID it sets nothing, and the driver keeps the
config it has in flash itself. A request is a list of `set_str` calls;
`WriteFlash`, `WriteFails` and `CopyRam` are their steps, with power losses between.

**WifiStation** is `osj_wifi.c`; the driver is modelled by what the code relies on (an
attempt ends in `GOT_IP` or `DISCONNECTED`, `esp_wifi_connect` does nothing unless the
station is idle; it posts its events in order; its config outlives a reboot). The
timer is taken to be created at boot: the handler tests for a timer that was not (line
68), and then a station would stop after its five attempts. `xTimerStart` puts a
command into the queue of the timer task and does not wait: `Arms` loses it when
`TimerQueue` commands are there. The queue holds only this timer's commands; no other
timer of the firmware is started at run time.

**OtaUpdate** is `/update`: one action per call of the OTA library and one per way
it can fail, with a client that sends a whole image, a part of one or something else
and may stop sending (`Stall`); a timeout ends the receive loop like the end of the
file (`Timeout`). A version is the number of its upload, a partition holds the first
parts of one. The library is modelled by what the handler relies on; power losses
may come at any step, and `Boot` falls back to the other partition if the chosen
one is incomplete. **Firmware** is the abstract specification: one whole version,
replaced at once and only by one offered whole and offered later; the code compares no
build numbers, so an older build that is uploaded later counts as newer. `OtaUpdate`
implements it with `installed` as the version of the chosen partition.

**Page** is the loop of `GET /`. A page is a sequence of percent signs and texts and
ends with the NUL that the build appends. `Rendered` is the reference, said of each
piece alone: the odd percent signs open, the even ones close, a known name between the
two is replaced. `out` is what the loop hands to the HTTP server, `got` what the client
takes for the response: the value of a setting in `empty` is a chunk of length zero,
which ends the response (`cut`), and nothing sent after it belongs to it.

`MC...` modules hold only the values of constants for TLC. An operator marked
`mutant` is the form a plausible bug would give its neighbour; no specification
uses it, and each property is known to fail when one of them takes its place.

## 3. Runs

| Run | Question | Properties | Bounds |
|---|---|---|---|
| `timing` | Are starts and ends justified by the time that passed, and do they come? | `TInv`, `NoEndWhileHigh`, `NoGlitchStart`, `ContractSpec`, `SilenceEnds`, `UseIsShown` | one channel, nine readings, delays 3/2, debounce 2, `Horizon` 3 |
| `messages` | Do the messages of a channel tell the board's story, and what does a server know if some are lost? | `StreamInv`, `StreamWellFormed`, `ServerAgrees`, `DeliveryInv`, `LossesExplain`, `LossesAreCounted`, `WrongOnlyAfterLoss` | one channel, three readings, delays 1, lines up to 4 |
| `flow` | Is the flow of a window the pulses that fell into it? | `FlowInv`, `WindowIsExact`, `NoTwoBlindWindows` | counter limit 3, words of 3 and 4 bits |
| `flow_sum` | Is the accumulated count the number of pulses? (no) | `SumIsPulses` | as `flow` |
| `uplink` | Are objects, lock and ends in order, does a restart end, does a connection return? | `UplinkInv`, `OrphanOnlyByBoot`, `EndsOnlyAsked`, `RestartCompletes`, `ConnectionReturns` | two clients |
| `uplink_use` | Is no destroyed client used? (no) | `SendOnLiveClient` | three clients |
| `config` | Are flash, RAM, station and headers consistent? | `StoreInv`, `RamIsReload`, `CredentialsOfOneForm`, `MessagesUnderHwid` | three forms |
| `config_default` | Is the default only for missing values? (no) | `DefaultOnlyIfNone` | two forms |
| `wifi` | Does the station always try again? | `StationInv`, `RetryAlone`, `NeverStranded`, `Pauses`, `FlagIsLink`, `JoinsInTheEnd` | 5 retries (the code's value), queues of 3 and 2 |
| `ota` | Does the board always boot a whole version? | `OtaInv`, `AnswerIsTrue`, `AtomicUpdate`, `ServesAgain` | files of 3 parts, 3 uploads |
| `page` | Does the client get the page as it should be, up to an empty setting? | `PageInv`, `ResponseIsRendered`, `MovesOn` | all pages of up to six pieces before the NUL, two settings of which any may be empty |
| `page_real` | Is every placeholder of our page replaced? (no) | `NoneLeft` | the page of the repository |

The largest are `messages` (701 403 distinct states), `uplink` (148 402), `timing`
(144 469) and `flow` (135 774); the slowest, `messages`, takes one to three minutes with
two workers.

Why these bounds are enough. In `timing` the delays keep the order of the code's
defaults (the debounce of 500 ms, then a dryer's 10 s, then a washer's 100 s) and
`Horizon` is the longest of them, so every comparison is seen on both sides. Its nine
readings keep every combination that time depends on: any signal high alone, current
with another, all low, inside the band. The safety results are proved for all delays,
readings and any number of channels. In `messages` the delays are 1 because only the
order of messages matters. The three readings are silence and the drain with the
current inside its band or above it: a judgement sends none to two lines, any part of
which may be lost, and an END comes with flags up and with flags down. Four lines are
twice what one judgement sends, so the numbering is seen going on and starting again;
past the cap `LossesAreCounted` claims nothing. The safety properties of `messages`,
`flow` and `page` are proved without these bounds as well, those of `messages` for any
readings, where a judgement may send three lines. In `flow` the widths keep the
relations of the real ones (`Word = 2 * (Limit + 1)`, `Total` a multiple of `Word`),
and the sum wraps several times. In `uplink` two clients are the boot's and the one
that replaces it, or two that are made at the same time, which is all that two tasks
can do, and either may fail to start; a client that is gone is not used again, and the
safety properties are proved for any number. In `config` three forms allow an old
value, a torn update and a later one of another kind, and the default number between
two others. In `wifi` the event queue never holds more than two events; a command
queue of 2 (10 in `sdkconfig`) can be told from one that is full, and the result is
proved for any length. In `ota` three parts allow a cut in the first, the middle and
before the last; three uploads use both partitions and the first again. In `page` six
pieces hold three percent signs with a text at each side, so a pair, a lone sign and
what follows them; with none, one or both settings empty the response ends at the
first value, at a later one or nowhere. CHECK_DEADLOCK is off only there: the handler
returns.

## 4. Fairness

* `LaundryTiming` (`TFairSpec`): weak fairness of every step of the loop and of the
  clock. The task waits only in `vTaskDelay` and in sends that time out.
* `Uplink`: weak fairness of each task; strong fairness of taking the client's lock
  (`Abort`, and `TakeLock`, where a task waits without timeout and without looking
  whether it was asked to stop meanwhile), which the other side takes and gives again
  and again (a FreeRTOS mutex goes to the waiting task of highest priority, and the
  sender waits between two sends), and of the reconnect time running out, since it is
  compared with a clock that advances. None for posts, sends (`Check`) and the
  network.
* `WifiStation`: weak fairness of the driver (an attempt ends), of the event loop
  and of the timer task.
* `OtaUpdate`: weak fairness of the handler (a receive that gets nothing times out,
  and every call of the library returns) and of the boot. None for posts, for a
  client that stops sending, for a connection that breaks and for power losses.

## 5. What is proved

### Detection (LaundryProofs)

Assumptions on the constants (named in `LaundryCore`): at least one channel; natural
delays no longer than the cap of the ages; a debounce of at least one unit and no
longer than a washer's end delay; any set of readings in which water is a switch; a
positive cap of the line number.

The assumption *debounce <= washer's end delay* is one the code does not enforce:
the debounce is the constant 500 ms, the end delay a setting whose default is 100 s
(`osj_nvs.c`, lines 53-54; a dryer's is 10 s).
With a shorter end delay `NeverEndsWhileHigh` is false.

* `TypeCorrect`: `Spec => []TypeOK`. One case per outcome of a
  judgement; the lemmas type the messages a judgement sends.
* `TimingInvariant`: `TSpec => []TInv`. `TypeOK` alone is not
  enough for the properties below, and none of them is inductive. `TInv` adds what
  links the code's stamps to real time: `OutputsAgree` (log flag, LED and status
  follow `cnt`), `EndDelayRuns` (while a cycle runs and the machine is out of use,
  the end delay has run no longer than that), `ArmedAfterSilence` (an armed debounce
  is no older than the last silence), `HeldIsArmed` (signals held high are
  debounced; after the clearing by a start, the end delay is at least as young as
  the debounce, which is why it cannot win).
* `NeverEndsWhileHigh`, from `HeldIsArmed` and the assumption on the delays.
* `NeverStartsOnAGlitch`, from `ArmedAfterSilence`.
* `ImplementsContract`: `TSpec => Contract!Spec`, from `OutputsAgree` and
  `EndDelayRuns`; a reading of the pins maps to `Switch`, starts and use to `Use`, an
  end to `Finish` with the delay of the mode judged by, a tick to `Pass`, everything else
  stutters.

### Messages (LaundryMessageProofs)

The assumptions are those of the detection; nothing is assumed of the network. Every
theorem is about `MSpec`, the specification of `LaundryMessages`.

What a server believes after a judgement is a fold over a sequence whose length depends
on how many signals changed, so a step is an induction over the messages of one
judgement. `SetInduction` is induction over the natural numbers said of a *set* of
numbers, and follows from the well-foundedness of `<`; with it `ReplayLonger` and
`DeliveredLonger` give the fold one message at a time, and `EntriesTold` and
`EntriesRelayed` carry the lines of a judgement signal by signal.

* `StreamInvariant`: `MSpec => []StreamInv`. `StreamInv` links what the server sees to
  what the board keeps: a cycle is open for the server exactly while the board logs one
  (`SeesCycle`), and a flag that is up between two cycles is one that a dryer's end left
  up (`LeftUp`), without which the first line of the next cycle could not be judged.
* `MessagesTellOneStory`: `MSpec => []StreamWellFormed`, and `ServerSeesTheBoard`:
  `MSpec => []ServerAgrees`. Neither is inductive alone: a line is well-formed because
  the server's picture is the board's, and the picture stays right because each line
  changed it by the flag that was flipped. `Matches` says both of one channel after any
  prefix of a judgement.
* `DeliveryInvariant`: `MSpec => []DeliveryInv`. A cycle the server sees beyond its end
  lost that end or never had one (`OpenTooLong`); a running cycle it never heard of lost
  its start (`Unheard`); a cycle it follows is running, and it knows no line number the
  board has not used (`Followed`).
* `EveryLossIsExplained`, `EveryLostLineIsCounted`, `ServerWrongOnlyAfterLoss`: the three
  properties of `LaundryDelivery`, for every subset of the messages of every judgement
  lost and a reboot between any two steps. `Explained` is their joint form for one
  channel after any prefix of a judgement.

### Connection (UplinkProofs)

Assumption (`ClientsAssumption` in `WsClient`): there is at least one client object.
`MaxClients` bounds how many are created; posts and network changes are unbounded.

* `UplinkInvariant`: `Spec => []UplinkInv`. Beside the types it says that a held lock
  has the holder the object names (`LockHasHolder`), that a task which is about to
  end was asked to or was closed by the server (`EndHasReason`), and that the
  handles `app_main` and `httpd` carry name clients that were created
  (`HandlesBorn`), without which a stop could reach an object that does not exist.
  A step of a client task changes one object and nothing of `up`; `GoodChange` says
  what every such change keeps, so each action of `WsClient` is looked at once
  (`TaskChanges`), and one lemma carries it to the invariant.
* `ClientEndsOnlyAsked`: `Spec => []EndsOnlyAsked`, from `EndHasReason`, which counts
  a task that has read a CLOSE as bound to end, whatever a sender does to the state
  before `CLOSING` is set.
* `OrphansOnlyByBoot`: `Spec => []OrphanOnlyByBoot`. A client that
  `client` leads to only until the running restart overwrites it counts as lost
  already (`Lost`), so that a restart, whose last step overwrites `client`, loses
  none, and the one assignment of `app_main` at most one. `OrphanInv` bounds `Lost`
  by one handle, and by none while `app_main` has not assigned or no post was early.

### Wi-Fi (WifiStationProofs)

Assumption (`RetryAssumption`): a natural number of retries and a queue that holds an
event.

* `StationInvariant`: `Spec => []StationInv`. `Duty` is the strengthening of
  `NeverStranded`: a waiting event helps an idle station only if the last one is not
  `GOT_IP`. `Counts` relates the attempts to `s_retry_num`, which is incremented one
  step late. `LastIsLink` says that the last event posted, or else the flag, tells
  the driver's state, and `LossIsLast` that nothing is posted behind a loss before it
  is handled. `StartsAlone` rules out all of this before `STA_START`.
* `StationRetryAlone`: while the timer is armed, due or about to be started, the
  station is idle, no event waits and the handler is not at work. So the timer task
  and the event loop never write `s_retry_num` at once, and the start of the timer
  finds the queue empty: with `TimerQueue >= 1` it cannot fail.
* `StationNeverStranded`, `StationPauses`, `StationFlagIsLink` follow from it.

### Settings (ConfigProofs)

Assumption (`FormsAssumption`): the number of forms is natural.

* `StoreInvariant`: `Spec => []StoreInv`. What RAM holds is linked to flash for each
  key but the one between its write and its copy (`CopyIsDue`, `CopiesAgree`). The
  credentials are linked to the calls that are still due (`Pairing`): both, or the
  second one with the first in flash. The headers are linked to the last number in
  RAM (`HwidFollows`), which only a request that ends with a restart may change
  (`DeviceReopens`).
* `RamIsAReload`, `CredentialsAreOfOneForm`, `MessagesGoUnderHwid` follow from it. The
  last one excludes a restart that crosses the opening at boot (`crossed`): there the
  two starts race, and the older number may win. `CredentialsOfOneForm` excludes forms
  cut short (`torn`) by a power loss, a failed write, an incomplete receive or a value too
  long: these may leave an SSID of one form with a password of another, and nothing in
  the code prevents it. What is proved is that nothing else does: no reboot on request and
  no power loss between two forms.

### Flow (FlowProofs)

Assumptions: the 16-bit width is twice the counter's limit plus one and divides the width
of the sum, which is not zero; fewer pulses than a full turn of the counter between two
polls (`CounterAssumption`); the callback is less than a period late, and the window is
no shorter than the period (`TimeAssumption`).

* `FlowInvariant`: `Spec => []FlowInv`. `CountIsFresh` says that the counter has moved by
  the fresh pulses, less its limit if it was reset, so that the difference of two counts
  is known modulo the word; `WindowIsGrowth` that the sum has grown by the window's
  pulses.
* `SumIsPulsesUntilReset`: `Spec => [](resets = 0 => SumIsPulses)`: the sum is the
  number of pulses as long as the counter has not restarted at its limit. The
  strengthening, `DriftIsResets`, says by how much a restart puts it off. Lemmas on
  sums, products and differences modulo any width (`UnsignedSum`, `UnsignedProduct`,
  `Difference`) give one poll; `Word` divides `Total`, so the conversion to 16 bits
  does not disturb the one to 32.
* `WindowsAreExact`: `Spec => []WindowIsExact`, from `WindowIsGrowth` when the window is
  closed.
* `NeverTwoBlindWindows`: a window that saw no poll began after the last expiry
  (`NoPollNoExpiry`), so when it closes an expiry has passed whose callback is due
  within the next one (`BlindIsLate`).

### Firmware update (OtaProofs)

Assumption (`PartsAssumption`): a file has at least one part; any number of uploads.

* `OtaInvariant`: `Spec => []OtaInv`. The chosen partition holds a whole version of
  which the whole file was posted (`BootIsWhole`), the target is the other one and
  holds exactly the parts received (`RunsWhatBoots`, `TargetIsUpload`), and until the
  answer the chosen version is an older one (`AnswerFits`).
* `AnswersAreTrue`: `Spec => []AnswerIsTrue`, from `AnswerFits`.
* `ImplementsFirmware`: `Spec => AtomicUpdate`. A post maps to `Offer`, the choice of
  the partition to `Install`, every other step, power losses included, to a stutter.

### Page (PageProofs)

Assumption (`PagesAssumption`): a page is a sequence of percent signs and texts that ends
with its NUL. Any texts, pages of any length and shape, any settings empty.

* `PageInvariant`: `Spec => []PageInv`. The reference says of each piece alone what it
  becomes, by the parity of the percent signs before it; the loop counts nothing. What
  makes them meet is `Paired`: a pass begins with an even number of signs behind it, so
  the first one it finds is odd and opens.
* `PageIsRendered`: `Spec => []ResponseIsRendered`: what the client has is the page as
  it should be up to where the loop is or, if a setting shown there is empty, the part
  before the first such value and no more. It follows from `SentIsRendered`, the same
  of what the loop hands on, and `ClientHas`, which relates that to what arrives. One
  lemma per outcome of a pass: what the reference makes of the pieces up to the token
  (`BeforeToken`) and of the token itself (`EmptyShown`, `KnownShown`, `UnknownShown`,
  `LoneShown`) is what the pass sends.
* `LoopMovesOn`: `Spec => MovesOn`.

### Only model-checked

The liveness properties, which are out of the prover's reach like `ENABLED`:
`SilenceEnds`, `UseIsShown`, `RestartCompletes`, `ConnectionReturns`, `JoinsInTheEnd`,
`ServesAgain`. Every other property of a passing run is a theorem. No module uses a
`RECURSIVE` operator; the folds are recursive functions, which the proofs unfold step by
step.

## 6. What the checks found

1. `index.html:99`: the script has a lone `%`. The template pairs percent signs in
   order, so every pair after it starts at the closing sign of a placeholder, and all
   32 placeholders of the body are sent as they stand (`NoneLeft`). The loop itself
   replaces what is paired on every page, up to the first empty setting
   (`ResponseIsRendered`).
2. `osj_websocket.c:143`: a send can run on a client that a restart has destroyed
   (`SendOnLiveClient`).
3. `osj_nvs.c:99`: an SSID of the legal 32 characters is stored, and read back as
   missing (`DefaultOnlyIfNone`).
4. `osj_sensor.c:37`: `osj_sensor.h:20-21` says that the count is the accumulated
   number of pulses. The difference of two counts is taken modulo 2^16, but the counter
   restarts from 0 at 32767: every restart puts the sum 32769 pulses ahead
   (`SumIsPulses`), and the flow reported for that window with it.

Facts that the passing runs establish and a maintainer should know:

* `osj_http.c:29`: a setting that is empty is sent as a chunk of length zero, which ends
  the response: the client gets nothing of the page after it. Today only the title's
  placeholder is recognised (finding 1), and its value is never empty; once line 99 of
  the page is put right, a board with no SSID, the default, shows its page up to the SSID.
* `osj_websocket.c:107`: the web server runs for up to half a minute before the boot
  starts the websocket; a `/CH1` post in between can leave a client that nobody
  destroys. It is at most one, and no other restart loses any (`OrphanOnlyByBoot`).
* A reboot in the middle of a cycle tells the server nothing: it shows the machine
  working until the next cycle's messages (`WrongOnlyAfterLoss`).

Not a run, as no text says otherwise: the form of the page for channel 1 sends the
fields `CH1` and `value`, and its handler looks for `ch1DeviceNo`; in `ConfigStore`
`Submit("CH1")` stores nothing and only `SetDevice` does.

## 7. Not modelled

* `osj_sensor_get_rms`: a stateless computation with no reference to compare with.
* `osj_gpio`, `osj_common`, the mode and drain pins: inputs of `LaundryCore`.
* Setters of numbers and booleans in `osj_nvs.c`: they have no caller, so thresholds
  and delays are constants.
* Connections of a client whose start failed (no transport, no task, no memory): the
  failures are in `Uplink`, but nothing retries them before the next post to `/CH1` or
  reboot, so `ConnectionReturns` speaks of clients that have a task and were not closed
  by the server.
* What happens inside the hysteresis band: `NoGlitchStart` measures from the last
  silence, so a pulse followed by readings inside the band for 500 ms starts a cycle, as
  in the code.
* A Wi-Fi retry timer that could not be created at boot (`osj_wifi.c:68`), and events of
  the driver out of their order.
* The moment between lines 117 and 119 of `osj_websocket.c`, which are one step
  (`Stop`): only `app_main` can write `client` there, with the effect it has before or
  after both.
* `sendStatus` JSON that nobody calls, `/CH2`, `/SetDefaultVal`: they change nothing.
* The static buffer in which `start_client` builds its headers: only two starts that
  cross at boot share it, and these are excluded from `MessagesUnderHwid`.
* When the room number reaches the server: nothing in the code says it should before
  the next connection.
* Of the vendored client: close with a timeout, fragments, redirects, pause and the
  setters, which the firmware does not call; its examples and tests.
* Whether an uploaded image works: `AtomicUpdate` promises a whole image. Rollback is not
  enabled in `sdkconfig`, so the mark of `main.c:30` changes nothing.
* Wait for SNTP, TLS, wording of log lines and JSON.

## 8. State and what is left

Every component that keeps state is modelled, as far as the firmware calls it, and every
safety and action property of the passing runs is proved. What is left:

1. A composition of `LaundryMessages` with `Uplink`, so that the moments at which a
   message is lost are those at which the sender drops it. `LaundryDelivery` lets any
   message be lost, so its properties hold in the composition too.
2. An abstract specification of the server's picture, with `LaundryDelivery` shown to
   implement it, and of the station (`WifiStation`) as the alternation of attempts and
   pauses.
3. The header buffer that two starts share at boot (section 7).

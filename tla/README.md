# Specifications of GPRS_1PNBG

GPRS_1PNBG is the firmware of a module that is plugged into an electricity meter.
Every half hour it reads the meter over a serial line (UART0, IEC 62056-21 mode C)
and saves the reading in the flash of its LPC213x; it keeps a TCP connection to a
server through a SIM800 modem on a second serial line (UART1), and on request of the
server reads or writes the meter, or sends saved frames. There is one main loop
(`main.c`) and four interrupts: RTC, UART0, UART1 and a timer. All of it is in
`src/GPRS-OFFICIAL-V1_0/source/`; file names below are relative to that directory.

This directory holds TLA+ models of the parts with state worth checking, the TLC
configurations that check them, and proofs for TLAPS. `PROJECT.json` lists every run,
the line of the source each definition stands for, for each checked property a
change of the model that breaks it, and the hazards the properties are aimed at.

    tlc -config FreezeLogLaps.cfg MCFreezeLog      # a run
    tlapm FreezeLog_proofs.tla                     # the proofs of a module

## 1. Inventory

| Component | State | Operations | What is hard |
|---|---|---|---|
| Freeze log, `save_flash.c` | flash pages 0x1000-0x6FFF (frames) and 0x7000 (ID page); `my_bl_data`; `total_times` | `check_id`, `check_add_free`, `freeze_frame`, `read_freeze_frame`, `save_time_offline` | no index in RAM: position is found again after each reset; sector erase against page write; power loss between two commands; labels that a clock set back gives again |
| IAP driver, `iap.c` | none (boot ROM) | `iap_Erase_sector`, `iap_Write`, ... | sizes and alignments the ROM accepts |
| RTC and freeze schedule, `rtc.c`, `save_flash.c` | `rtc_flag` bit fields, `half_hour`, RTC registers, `buff_frame_300F` | `RTCHandler`, `check_freeze_data`, labels of `prepare_freeze_frame` | bit fields of one halfword written by an interrupt and the main loop; label read long after the flag |
| Server link, `gprs_com.c`, `main.c` | `stateModule`, `SEND_SOCKET`, `buffer_tx` | power key, `connectToServerNow`, `prepare_trans_data`, `trans_data_server`, `get_command_from_server`, `get_RSSI_signal` | polling loops with timeouts; a late answer meets the next command; lost connections |
| UART1 interrupt, `LPC213x_isr.c` | `para_rx`, `buffer_rx`, `buf_response_command`, `PREPARE_SEND_OK` | one state machine per byte | modem text and server frames on one wire; buffer shared with the main loop |
| Timer interrupt | `SEND_SOCKET` | `myTimer0_ISR` | |
| Meter protocol, `read_para.c` | `start_frame`, `stop_frame`, `check_frame`, `buffer_PLC` | `sign_in`, `return_data`, `load_data_meter`, the loops over codes | timeouts and retries; late or cut answers |
| UART0 interrupt, `LPC213x_isr.c` | static `start_OK`, `index` | one state machine per byte | its state outlives a wait |
| Request handlers, `read_para.c` | `buffer_tx`, `commands` | reading the log, the meter, the module; writing the meter; setting the clock | one `buffer_tx` for all answers, and the values to write are taken from it (570); a clock set while the schedule runs |
| EEPROM store, `m25lc512.c`, `spi.c`, `save_flash.c` | cells of the chip, `rwAddress`, `buffer_frezze`; `indexEEprom`, which nothing changes | `eepromSaveFrame`, `readFreezeFrame`, `writeEEPROM`, `readEEPROM`; only with `EXTERNAL_EEPROM` | the chip is deaf while it writes and wraps at the end of a page; polls and attempts run out; uninitialised buffers; power loss in the middle of a page |
| String conversion, `stringconvert.c` | none | pure | |
| External flash, `MX25L6445E.c`, `MX25CL64.c` | - | called by nothing | |
| Board setup | registers | PLL, GPIO, timers, UARTs, watchdog | |

How they interact. The main loop serves, in turn, the server link (`stateModule`),
and the freeze schedule; both call the meter protocol and busy-wait inside it, so for
minutes nothing else runs but the interrupts. The interrupts talk to the main loop by
flags and buffers without locks: UART1 through `buffer_rx` and `uart_state`, UART0
through `check_frame` and `buffer_PLC`, the RTC through `rtc_flag` and `half_hour`,
the timer through `SEND_SOCKET`. The freeze log is written by the schedule
(`freeze_frame`), by the link (`save_time_offline` when a connection is lost) and at
start-up (`check_id`), all through the one buffer `my_bl_data`.

What makes each part correct is stated with its module in section 3.

## 2. Modules

| Module | Models | Proofs |
|---|---|---|
| `FreezeLog` | the freeze log on flash, power losses, `check_id`, the log of lost connections | `FreezeLog_proofs`, `FreezeLogContents_proofs`, `FreezeLogStore_proofs` |
| `FrameStore` | abstract: a store of images that loses only its oldest; `FreezeLog` implements it | |
| `FreezeSchedule` | `RTCHandler` against `check_freeze_data`, at the grain of loads and stores of `rtc_flag`, and requests that set the clock | `FreezeSchedule_proofs` |
| `GprsLink` | the state machine of `main`, the modem driver, the UART1 and timer interrupts, and as environment modem, network and server | `GprsLink_proofs` |
| `RequestService` | abstract: requests carried out in order, and the answer to the last one on its way; `GprsLink` implements it | |
| `MeterLink` | sign-in, reads and writes of codes, the UART0 interrupt, the meter as environment | `MeterLink_proofs` |
| `MeterValues` | extends `MeterLink`: which value goes where in `read_para`, `read_data_meter`, `write_data` | `MeterValues_proofs` |
| `ServerRequests` | the answers of the handlers of `read_para.c` in `buffer_tx`, and what a request to write takes out of it | |
| `Eeprom` | the frame store of a build with `EXTERNAL_EEPROM`: driver, chip, saving and finding a frame | `Eeprom_proofs` |
| `MC...` | one for each, for TLC | |

The modules meet at named places and each abstracts the others there: in `FreezeLog`
the interrupt that makes a frame due is `Tick`, and reading the meter one step
(`FreezePrepares`) before and after which anything else may happen; `FreezeSchedule`
has the schedule in detail and one step for saving; in `GprsLink` a request of the server
is carried out in one step (`get_command_from_server`; two when the modem is asked for its signal),
`MeterLink` has what that step asks of the meter, `MeterValues` which values it collects,
`ServerRequests` what it leaves in `buffer_tx`, and `FreezeSchedule` what it does to the clock.

### FreezeLog
`flash` is a function from pages to images. A page is one `my_bl_data` (128 bytes), in
the model a frame (its label, its meter and what the meter answered, which differs from one saved frame
to the next), an ID page (ID, the count of lost connections modulo `CountMod`, 2^16 in the code, and their log) or zeros.
Erasing works on whole sectors (`Erased`); every command to the flash is a step of its
own, so `PowerOff` may come between any two, in particular between erasing and writing
(`CheckIdErases`/`CheckIdWrites`, `OfflineErases`/`OfflineWrites`, `FreezeFindsPage` ...
`FreezeWrites`). `TakeFreePage` is `check_add_free` with its rollover at 0x5F00, which
leaves the last page of the log unused. The clock runs (`Tick`) and is set, forward or back, by a request of the
server (`SetClock`, which is `process_syntime`) and by `set_time_from_rtc` in `PowerOn`; a frame gets the label of the
time at which its reading is over. `saved`, `offs`, `sets` and `ambiguous` are history variables; `ambiguous` has
the labels that two frames may have: the half hours that the clock was set back by, and one that ended during a reading.
`FreezePrepares` has the early return of `prepare_freeze_frame` for readings that do not
fit; the 27 codes of `freeze_code` give at most 230 digits of the 244 there are room
for (`FreezeDigits`), so it is not taken. The pages behind the ID page and the code
pages are not part of the model.

### FreezeSchedule
Minutes count in quarters, because `RTCHandler` does something only at 0, 15, 30 and 45.
`HOUR` counts on through the days: the label has `HOUR % 24` and the date `HOUR \div 24`.
Setting a bit field is `Load` then `Store` of the halfword, and the label is put together by `LabelHalf`, `LabelHour` and
`LabelDate` from `half_hour`, HOUR and the date, one after the other, when the reading is over. A minute may begin wherever the
main loop spends time (`Slow`: waiting for the meter, the server, the flash) and at those points between two
instructions (`Fast`) that the constant `Interrupted` names.
Nothing in the source writes
1 to the byte of the ID page from which `check_id` sets `mode_save_one_hour`, so the bit
stays 0, but its load and store are modelled. Before `check_freeze_data` the main loop may carry out
a request (`RequestTaken` ... `RequestDone`), which may write the registers of the clock one
after the other (`SetMinute`, `SetHour`) and leaves `half_hour` and the flags alone. The history variables
`owed` and `begun` name intervals in the time the clock shows, and so do the readings of code 0F30: what was before the clock was
set has no name then (`Unnamed`), but it is still there, and the properties say what becomes of it. `crossed` is set when an
hour begins while the label is put together, and `savedSince` when a frame has been saved after the clock was set.

### GprsLink
One action per state of `stateModule` and, for the six busy waits
(the seconds after the power key and the questions for the network in `onOffModuleGprs`, `connectToServerNow`, `prepare_trans_data`,
`trans_data_server`, `get_RSSI_signal`), one per way out of a wait; between them the interrupts and the environment take steps. `line` is what is on
its way from modem to UART1: modem texts and server frames, each heard as one unit.
`HearFrame...`, `HearLine` and `HearBlockedFrame` are the UART1 state machine; `eaten`
counts what a frame without its end swallows, up to the 500 bytes of the code
(`MaxEaten` units). `early` is a history variable: a frame heard while `buffer_rx` is blocked was taken for the prompt of the
attempt under way. The power key toggles (`PressKey`); the module hears whether that switched the modem on from its answers to `AT+CGATT?`
(`NetworkFound`, `NetworkMissed`), and nothing else. A modem that is switched off says nothing more, and what it said before has arrived when the
three seconds after the key are over (`KeyPressed`).
The three kinds of request tell apart what matters for the link:
`data` is answered, or refused when the meter is wanted and does not take part, which leaves the beginning of an
answer in `buffer_tx`; `signal` is answered after a question to the modem; `accept` is not answered.
`system_flag` is one byte that the timer's interrupt and the main loop write by load and store (`main.c:53`, `gprs_com.c:313`); all
that can go wrong there is that a flag just set is lost, which is a step of `myTimer0_ISR` not taken: the safety
properties allow for it, and the timer comes again.

### MeterLink
A wait starts with `clear_para` and a command (`Ask`). An answer travels as its beginning,
its end and its check character (BCC), which the receiver does not read but which may
equal a start byte. `start_OK` and `index` are kept from wait to wait, as in the interrupt;
`buffer_PLC` holds parts at their places, so that old and new parts of a buffer can mix,
and `check_buffer` takes what is between the brackets of whatever is there. `job` says
which loop over codes is running, and so what it does about a missing answer.

### MeterValues
Adds to the steps of `MeterLink` what the loops do with a value, each in the step that hears
it or gives it up. `data_PLC` is the buffer that `read_para` uses for all settings but the ID;
`config_network` says for each setting whose value it was made of; `buf_send_server` is the text
that goes to the server or into a freeze frame, a list of places in the request and the codes whose
values stand there. The lists of a session are those of `read_para` and `set_time_from_rtc`, and
for a request or a freeze any list in `Requested`. Codes that a request names and the firmware does
not know are passed over without a question and are not in these lists. The write of the second IP
address is reported under the code of the first (`Reported`, `read_para.c:763`).

### ServerRequests
`data_frame` is `buffer_tx` behind the 17 bytes of a frame's head, in hexadecimal digits, each known by the
field it belongs to, its place in the field and the request that brought it about: what the values are does not
matter, only where each comes from. Every handler puts its answer and the check sum at the beginning (`Put`) and leaves what is
behind. `process_server_write_mode` makes its commands of as many digits as the request has, but of this buffer, and
`write_data_metter` looks in them for its codes, digit by digit.

### Eeprom
`writing` is the WRITE the chip is busy with; it ends whenever the chip likes (`ChipWrites`), and until then the chip drives
nothing and hears nothing. Each command of the driver waits with `Poll` steps, and follows if the chip is `Ready` or is
left out if the polls have run out (`TimedOut`). `pc` says which of the four commands is waiting: writing a chunk and reading it back
in `writeEEPROM`, the two readings of a chunk in `readEEPROM`. The build saves a test pattern with a fixed label in the one slot `indexEEprom`
(`save_flash.c:472-480`), so `Frame` is constant and the other slots hold what earlier use has left there. `Buf` and `tempBuff` are on the stack:
what they hold at the beginning is either blank or left over.

## 3. Runs

Passing runs:

| Run | Properties | Bounds |
|---|---|---|
| `freeze_log_laps` | `TypeOK`, `Retained`, `Readable`, `BlankTarget`, `LogInv`, `WriteOnce`, `ImplementsStore` | 3 sectors of 2 pages (5 usable), one meter, 5 half hours, the clock set once: up to ten saves, two laps |
| `freeze_log_meters` | `OfflineLog`, `NoForeignFrames`, `ContentInv` | two meters, 4 lost connections for 2 shifted entries and a count modulo 3, 2 half hours, the clock set once |
| `gprs_faults` | `TypeOK`, `PoweredWhenUsed`, `LinkInv`, `SentWhole`, `FrameHeld`, `CarriedOutOnce`, `ImplementsService` | 2 frames, 1 lost connection, 2 units on the line; answers late, frames cut or wrong, the modem on or off at the beginning |
| `gprs_fair` | `SendErrorAlarm`, `FrameTaken`, `Reconnects`, `SocketHeld` | 3 frames; modem in time, frames right or cut; fairness |
| `freeze_schedule` | `TypeOK`, `IntervalFlagged`, `LabelOfInterval`, `Fresh300F`, `ScheduleInv`, `EveryInterval`, `OnePerInterval` | four hours about midnight, the clock set any number of times to any of their quarters, a minute may begin while the label is put together; fairness |
| `meter_link` | `ValuesTypeOK`, `RightOrNone`, `AckHeard`, `HeardInv`, `AnswerTrue`, `Resynchronised`, `SessionEnds` | module `MeterValues`; sessions of up to 5 codes, any number of them; answers in time or not at all, or cut; fairness |
| `eeprom` | `TypeOK`, `SavedWhole`, `OtherSlotsKept`, `FrameTrue`, `DriverEnds` | 2 slots of one page of 4 cells, a frame of 3, chunks of 2, one poll after the first; fairness |

What they show:

* **Freeze log.** The last `(Sectors - 1) * P - 2` frames (158 in the code) are in flash,
  each in its page, whatever sector was given up and wherever power failed (`Retained`), and are
  found under their label although the search goes by address (`Readable`): the server gets the very frame, except for the
  labels in `ambiguous`, for which it gets one of the frames that bear it, and that may be the older one (`save_flash.c:235-243` returns
  the lowest page). Labels become ambiguous when the clock is set back, and when a reading lasts longer than its half hour. The page
  chosen before the reading of the meter is still blank when it is written
  (`BlankTarget`), and nothing programs a page twice (`WriteOnce`). The
  log refines `FrameStore`: frames are given up oldest first and never below `Keep`. The log of
  lost connections is the list of their times although every update rebuilds it from RAM; once the count on the page has gone round (65536
  losses) it says of fewer entries that they are there, and these are right
  (`OfflineLog`), and no frame of a former meter survives `check_id` (`NoForeignFrames`).
  All runs take it that the boot ROM programs 128 bytes at a time (`CopySizes = {128}`). The
  comment in `iap.c:418` names 512, 1024, 4096 and 8192; a ROM with only these sizes would refuse each
  page, and `freeze_frame` would repeat the command without end (`save_flash.c:224`). Which ROM
  the board has cannot be seen in the source.
* **Schedule.** Without a minute that begins between a load and a store no interval is lost
  (`IntervalFlagged`, `EveryInterval`) or frozen without reason (`OnePerInterval`). A label is never of an interval before the one the freeze
  began for, and is of one that has ended (`LabelOfInterval`), with two exceptions that the property states, since the code has them:
  if the clock was set while the freeze was owed (`half_hour` is then of the time before) the label may be of the half hour in
  progress, and if an hour begins between the reading of `half_hour` and of the date it may be up to
  a day ahead (HOUR from before midnight with the date from after it). A freeze owed when the clock is set back gets a label that has been used; so does a frame
  whose reading lasts longer than an interval, or the next one. The kept value of code 0F30 is of the half hour that the frame
  closes, or newer, and one from before the clock was set can only be in the first frame saved after that (`Fresh300F`).
* **Link.** A received frame is not overwritten until it has been carried out, and no
  request is carried out twice or out of order, whatever is late, lost or repeated
  (`FrameHeld`, `CarriedOutOnce`); an answer that is on its way is the one to the request carried out last, and one that was
  given up with its connection does not come back behind a later one (`ImplementsService`); what a refused request has left in `buffer_tx` is not sent
(`SentWhole`); the modem is on when it is used, although its key only
  toggles and all the module knows is the answers it hears, late ones and those from before the key included (`PoweredWhenUsed`): that the
  wait after the key and the clearing before the question keep these apart is what it shows. When the modem answers in time: data is reported sent only if the modem
  took it, or a frame of the server heard while `buffer_rx` was blocked has been taken for the prompt (`SendErrorAlarm`), a frame in the buffer is taken up (`FrameTaken`), a lost
  connection is made again (`Reconnects`), and when the timer has raised its flag a heartbeat is sent at last (`SocketHeld`). A frame that arrives
  while one is prepared takes its place in `buffer_tx` with the flag already down (`main.c`, HOLD_SOCKET has no break); the frames of the server are bounded here, so that
  the timer's next flag finds the buffer free. With a server that does this without end no heartbeat is ever sent.
* **Meter.** As long as answers come within their wait, no value or acknowledgement of an earlier
  command is taken (`RightOrNone`), the interrupt never misses an ACK because it is in the
  middle of a cut answer (`AckHeard`), a cut answer costs at most itself and the next one
  (`Resynchronised`), and a session ends if the meter identifies itself at some time (`SessionEnds`).
  What a request or a freeze collects names each value rightly although any of the answers may be
  missing, and reports no write that the meter did not acknowledge (`AnswerTrue`), but for the name of the second IP address.
  The settings are not as safe: see `meter_settings`.
* **EEPROM.** A save that returns without a wait having run out has its frame in the chip (`SavedWhole`); no save touches another
  slot (`OtherSlotsKept`); a frame that is found is what a slot holds, under the label asked for, if no wait ran out
  (`FrameTrue`); and the driver comes back even from a chip that never ends a write (`DriverEnds`). When waits do run out nobody is told:
  `writeEEPROM` returns 0 either way (421, 428), and two left-over buffers may agree. A save cut off by a loss of power leaves a slot
  that is read as whole, since the check of byte 5 is commented out (`save_flash.c:501`).

`gprs_fair` and `meter_link` take it that modem and meter answer within the module's waits (`Late = FALSE`). They need it: with
`Late = TRUE` TLC finds `SendErrorAlarm` violated (a prompt after its 5 seconds lets the next `AT+CIPSEND` be taken as the data, and the
SEND OK of that is taken for the frame's) and `RightOrNone` (a value after its second is returned for the next code, and all that follow are one off).
These hazards have no property: nothing in the code keeps a late answer from the next command, so no property of it would hold. The same goes for a meter that never
identifies itself (`sign_in` asks without end, which the fairness of `SessionEnds` excludes) and for what a search of the EEPROM
returns when its waits run out; `PROJECT.json` lists them as hazards without a property, each with its reason.

Runs that end in a violation, each a disagreement of the code with a comment of its own
(quoted in `PROJECT.json`, "findings"):

| Run | Property | What happens |
|---|---|---|
| `meter_silent_boot` | `KeptForSameMeter` | the meter is silent at start-up, its ID stays empty, and `check_id` erases its frames |
| `gprs_bad_frame` | `SocketHeld` | a frame that fails its check leaves `stateModule` in PROCESS_DATA_SERVER, and no heartbeat is sent any more |
| `freeze_schedule_torn` | `IntervalFlagged` | the store of another bit takes down `auto_save_data` |
| `meter_settings` | `SettingsOwn` | the answer for PORT is missed, and `read_para` makes the port of what the IP address left in `data_PLC` |
| `write_values` | `WritesRequested` | the clock is set, and the request to write that follows finds code 3080 and what is behind it in the answer to that |

**Bounds.** The flash layout has its special cases at the first and the last page of a sector, the last
two pages of the log and the page after it. Two pages to a sector and three sectors have each of
them, a sector in the middle included; with the clock set back once, five half hours make up to ten saves, which go round the five usable pages twice,
so that the second lap overwrites a whole first one, and labels recur in another lap, or in the same one at a higher or a lower page. Three entries (0, 1, 2) and four losses fill the log of
lost connections, shift an entry out, and with `CountMod` 3 take the count round. Two meters are enough to be wrong about one. In
the link three frames are the one that blocks `buffer_rx` and two heard meanwhile (`gprs_fair`; two attempts to send can then begin on a
false prompt, and `SendErrorAlarm` without `early` is false); for the rest two frames are a frame and its successor, the least for an order or an
overwriting; one lost connection may come in every state, and comes at any time of the two
requests; two units on the line are an answer with something else before or after it.
The ten questions for the network are ten. `MaxEaten` stands for 500 bytes; what matters is that the count is finite and that an
answer can be swallowed before it is reached. In the schedule the hours 22 to 25 are eight intervals, two on each side of midnight; what the
state remembers reaches back at most one full hour. In the meter link the lists of a request have 0 to 3 codes, so a first, a middle and a last one,
and that of `read_para` its 5;
`MAX_BUFFER` counts parts (1000 bytes in the code), and the meter does not cut so many answers in
a row that the interrupt's index comes round (`MayCut`).
In the EEPROM a frame is two chunks, a whole and a part of one (as 121 bytes in chunks of 64), a page is two chunks, and
there is a slot before and a cell behind the frame that a wrong address would touch; two slots have a first and a last one to be searched, and one
poll after the first one is a wait that ends and one that runs out. In `write_values` two requests are the one that fills the buffer and the one that reads it; with the commands taken
from the request instead, `WritesRequested` holds within the same bounds.
`CHECK_DEADLOCK FALSE` stands in the configurations with a bounded environment (clock, frames, requests), where a run
comes to its end; `MeterValues` and `Eeprom` are checked for deadlock.

**Fairness.** The main loop is a `while (1)` in which nothing blocks except the waits that
are modelled, so its steps are weakly fair; an interrupt that is enabled is served
(weak fairness of the interrupts). What the environment owes is stated as fairness of its
actions and is an assumption: the modem answers (weak), a network or server asked again and
again accepts at last (strong), a modem asked again and again for the network is attached at last (strong, `NetworkAttached`; answers that it is not would otherwise use up
the ten questions and have the key pressed again for ever), the timer's
150 seconds are not over at every pass through HOLD_SOCKET (strong), a meter asked to identify itself again and
again does so (strong). Without the last `SessionEnds` is false: `sign_in` repeats its
question without end. `FreezeSchedule`'s `EveryInterval` needs that readings end. In `Eeprom` only the driver is
fair, not the chip.

## 4. Proofs

All proofs are for every value of the constants under the named assumptions of the modules
(`SizeAssumption`, `BlankAssumption`, `FlagAssumption`, `BoundAssumption`,
`FaultAssumption`, `ScheduleAssumption`, `MeterAssumption`, `CodeAssumption`, `GeometryAssumption`), which TLC evaluates in the runs.

**FreezeLog_proofs**: `TypeCorrect`, `LogInvHolds`, `RetainedHolds`, `BlankTargetHolds`, for at least two
sectors of at least two pages, any log length, set of meters and losses of power. `Retained` is not
inductive: which sector may be erased depends on where the blank pages are. The inductive invariant
is `IInv`: `TypeOK`, `IdBuffer` (what `my_bl_data` holds when the ID page is rebuilt) and `LogInv`. `LogInv` says
that there are a first blank page `f` and a number of laps such that the pages
before `f` hold this lap's images in order, every sector behind `f` is blank or holds its
images of the last lap, at most the `P` pages after `f` have been given up, and, while a frame
is under way, its page is `f` and the page after it has been made blank. The two hard steps are
`FreezeFindsPage` (erase the next sector or go round) and `FreezeWrites` (`f` moves
on, in a sector, into the next, or into the next lap: `StartSameSector`, `StartNextLap`).
From it `Retained` follows by arithmetic on laps (`PageOfLap`).

**FreezeLogContents_proofs**: `OfflineLogHolds` and `WriteOnceHolds`, from `OfflineInv` (the log of lost connections is
in flash, or in RAM while the ID page is blank) on top of `IInv`; `ContentInvHolds`, which puts together what the runs check of the three invariants of this module; assuming `~BootSilent`, `NoForeignFramesHolds`, from `MeterInv`: what lies in the log is of one meter;
and `ReadableHolds`, which assumes only that a full reading fits a page (`AnswersFit`, as it does with the constants of the code), for any meters, silent or not, any number of
settings of the clock and any readings. Its invariant is `LabelInv`: a label that is not ambiguous has been given to one frame at most and is not in the future,
and the label of now has been given only if no frame is due for it; with it and `Retained` the search by address can find no other frame. That the `CHOOSE` of the search is the least page that fits is well-founded induction on the naturals (`LeastNat`).

**FreezeLogStore_proofs**: `ImplementsStoreHolds`, the refinement of `FrameStore`, without further assumptions. From the shape of
the log, `LiveLog` is always an end of `saved`, and its length is counted from `f` and the first page left from the last lap
(`LiveIs`; that there is no gap between the two is `NoGap`). A step of the log is then known by
what it does to `saved` and to that length: `FreezeFindsPage` shortens it to no less than `Keep` or leaves it
(`FindsPageGivesUp`), `FreezeWrites` lengthens both by one (`WritesSave`), `CheckIdErases` empties both, and the
others stutter (`StoreKept`).

**FreezeSchedule_proofs**: wherever a minute may begin, so for every `Interrupted`, `TypeCorrect`, `OwedInvHolds` and from it `OnePerIntervalHolds`, and `LabelHolds` from
`LabelInv`: `half_hour` goes with `MIN` as soon as an interval has ended since the clock was set, and what happens while the label is put together
can only make it later. `IntervalFlaggedHolds` assumes that no minute begins between a load and its store (`Interrupted \cap Storing = {}`); without that it is
false, as `freeze_schedule_torn` shows. `Fresh300FHolds` assumes that of all places but those where the label is put together (`Interrupted \subseteq Labelling`); its invariants are `Newest300F`, the reading of code 0F30
is not older than the last time its flag was raised, and `KeptInv`, a reading from before the clock was set is used once. `ScheduleInvHolds` puts these together, each part under its own condition.

**GprsLink_proofs**: `TypeCorrect`, `LinkInvHolds`, `FrameHeldHolds`, `CarriedOutOnceHolds`, `PoweredHolds`, `SentWholeHolds`,
`ImplementsServiceHolds`, for any number of frames, lost connections and units on the line and any combination of
faults. The inductive invariant is types and `LinkInv`: the receive buffer is
blocked as long as its frame is waiting or being carried out, and the requests on the line are in the order of their
numbers, behind the one in the buffer and those carried out. `PoweredHolds` has its own, `PowerInv`: the waits go with their states, a modem that is off is idle, and after the first
question an "attached" that is heard or on the line is from a modem that is on. For the refinement of `RequestService` most steps send no answer that was
not on its way before (`NotSentAnew`); a request is carried out while none is, and is newer than the last (`CarryOutService`).

Assuming `~Late`, `SendErrorAlarmHolds`. The property says nothing of the modem's state, and nothing in the code compares the two, so
the invariant `AlarmInv` has to say how far module and modem can be apart. It has four parts: which state goes with which wait
(`WaitPlace`); at each wait either the modem is busy with the command that is waited for, and no other answer is on the line, or one
answer to it is on the line or heard, the last of its kind (`InStep`); a connection whose
PDP_DEACT is still on the line has been made anew, with its CONNECT_OK behind it, and no
`SEND_OK` comes behind a PDP_DEACT (`Severed`); and while the module has not seen the modem
prompt, or has not handed its frame over, no `SEND_OK` is on the line, heard or to come
(`Reported`, `NoSendOk`). A false prompt breaks `InStep`, which is what `early`
records. The proof has one lemma for each kind of step (`CommandStep`, `PromptStep`, `RepliesStep`, `HearsStep` ...) and not one for each action.

**MeterLink_proofs**: `HeardInvHolds` and, assuming `~Late`, `RightOrNoneHolds`, `AckHeardHolds`, `ResynchronisedHolds`, for
any codes, length of sessions and size of `buffer_PLC`. None of these properties is inductive: an answer is taken
from a buffer that an earlier, cut answer has been written into. The inductive invariant of the first is types, `RightOrNone` and `WaitInv`, which
divides a wait into three stages (`NotBegun`, `Begun`, `Ended`) and says of each what may still be on the line, what the interrupt's
`start_OK` and `index` are, and which parts of the buffer are of the present answer. With `Late = TRUE` TLC refutes `RightOrNone` and `AckHeard`.
`Resynchronised` needs `WholeInv` on top: the interrupt takes itself to be in the middle of an answer (`Misplaced`) only behind an answer that did
not come whole, and an answer that does come whole, after a whole one, stands at the front of the buffer when `check_frame` is set.
`SessionProgressHolds`, without assumptions: a rank of four natural numbers (the part of the session, the codes left, whether the meter has
still to answer, the parts on the line), compared in this order, goes down with every step but a new session and a repeated question for the identification. `SessionEnds`
follows from it, fairness and the absence of deadlocks, which TLC checks.

**MeterValues_proofs**: `ValuesTypeCorrect` and `AnswerTrueHolds`, assuming `~Late`. Every step of `ValuesNext` is a step of
`MeterLink` (`Refines`), so the invariant of `MeterLink_proofs` carries over; `VInv` adds the types of the lists and that
the values collected so far stand behind the codes they were asked for.

**Eeprom_proofs**: `TypeCorrect`, `SavedWholeHolds`, `OtherSlotsKeptHolds`, `FrameTrueHolds`, for every size of pages, of chunks
that divide a page, of frames and of slots, and any number of slots and polls. That no chunk leaves its page, and so none wraps
round, is arithmetic (`InPage`, `NoWrap`). The inductive invariant is types and
four parts: a WRITE the chip is busy with is of a chunk of the frame in its place (`WriteInv`), since an earlier call may have left it
behind; where in its frame the driver is (`PlaceInv`); what was verified is in the chip, and what was written is or will be
(`SaveInv`); and what was read is what the chip holds, as it writes no more (`ReadInv`). `DriverProgressHolds`: a rank of six natural numbers
(search or transfer, slots, cells, attempts, the next command, polls) goes down with each step of the driver, and the chip does not touch it, so a call is a bounded number of steps
for every geometry; that the driver always has a step to take is TLC's part of `DriverEnds`.

Only model-checked: all liveness (`FrameTaken`, `Reconnects`, `SocketHeld`, `EveryInterval`, `SessionEnds`, `DriverEnds`),
which is out of the prover's reach but for the ranks above, and all of `ServerRequests`, whose
requests are parsed and answered by recursion over lists of any length. Every other property of a passing run is stated by a theorem.

## 5. What is left out, and why

* Content of frames and requests (the digits of values, check sums), the layout of messages, `sprintf`,
  except where a property speaks of it. `check_data_rx_server` is the flag `good` of a frame. `write_data` copies values into two buffers of 20 bytes, fewer than the
  32 digits of an APN; `ServerRequests` takes values whole.
* In `GprsLink` the strength of the signal: after a question without an answer the module sends the last one it heard.
* In `Eeprom` the bits on the SPI bus, the write-enable latch (WREN goes before every WRITE, `m25lc512.c:317`), and addresses
  behind the end of the chip, which 96 slots of 128 bytes do not reach.
* Bytes: a unit on a line is heard in one step. Errors of a line lose a unit or the end of
  one; they do not change it. In `MeterLink` only ends of answers are lost: an answer
  without its beginning is ignored by the interrupt unless the check character before it
  equalled the start byte.
* The meter's operand message is taken to be `P0()`, whose check character (0x60) is no start
  byte.
* A modem that dies after start-up: `GprsLink`'s modem stays on once it is. The
  source has no way back to ON_GPRS (`gprs_com.c:151` is commented out), listed as a hazard.
* Functions nothing calls: `check_sector_current`, `errase_day_old`, `test_save`,
  `ON_OFF_mudule_GPRS`, `prepare_trans_data_test`, `m25lc512FillAddress` and the erase commands of the EEPROM driver, `test_fram`,
  the external flash drivers.
* Register set-up, the PLL, the watchdog (never started, `main.c:99`), the boot ROM.

## 6. Plan

Done, in this order: `FreezeLog` with `FrameStore`, `GprsLink`, `FreezeSchedule`,
`MeterLink`, `MeterValues`, `Eeprom`, `ServerRequests`; the refinements of `FrameStore` and `RequestService`, and the
proofs of all of them but `ServerRequests`.

1. What a read of the EEPROM returns when its waits run out, bit by bit: the model takes any contents of the
   two buffers, blank or left over.
2. Conversions of `stringconvert.c` as operators against reference definitions over bounded inputs.
3. A composition of `FreezeSchedule` and `FreezeLog` in place of `Tick`, and a proof that the schedule sets and clears
   `auto_save_data` only as `FreezeLog` takes it to.
4. In `FreezeSchedule` the clock set at start-up by `set_time_from_rtc`, before there are flags (`FreezeLog` has it), and the layout of an incomplete frame.
5. What becomes of a retry when the modem answers the attempt before it, beyond `PoweredWhenUsed` and the hazards listed without a property.

# The weighing scale firmware in TLA+

A formal model of the ESP32 weighing scale firmware in `src/firmware`: TLA+ modules for
its tasks, drivers and services, TLC configurations that model-check small instances, and
theorems whose proofs TLAPS checks for every value of the constants.

`PROJECT.json` maps every definition to the lines of C it stands for; it also lists the
hazards of this code, the findings, the runs and their mutants (deliberate bugs that each
property must catch).

## 1. Inventory

The firmware is about 5200 lines of C on ESP-IDF 3.x (FreeRTOS on two cores, 100 Hz tick,
assertions that abort, a panic that reboots, log level INFO).

| Component | Source | State it keeps | Operations | What makes it correct |
|---|---|---|---|---|
| Boot | `main/main.c` | three task handles | `app_main` | starts from zero; no handle used before it is set |
| Weighing task, button, texts | `weighing_scale.c` | `tare_flag`, `TotalmassStr`, `displaying_batt_low` (tested here) | `weighingTask`, `tareTask`, `init_weighingScale`, `display_*` | keeps weighing; shows the mass alone; a press is served |
| HX711 driver | `HX711.c` | `OFFSET`, `SCALE`, `GAIN`, the level of PD_SCK | `readValue`, `read_average`, `tare`, `get_units` | one reader at a time; a sample in step with the clock; a read ends; sign extension, average, rounding |
| Display driver | `max7219.c` | the digits | `clear`, `set_digit`, `draw_text_7seg` | no remains of an older message; what is drawn is the text |
| Battery task | `battery_level_check.c` | `displaying_batt_low`, `charging_state` | `battery`, `battery_level_check_task` | the weighing task is resumed; the message ends |
| Serial console | `console_lib.c` | `linechar`, nested prompts | `m x 1 t c sc save` | the menu appears; what `m` suspends is resumed; the scale is stored |
| BLE GATT server | `ble_lead.c`, `ble_common.c` | advertising and service handles, settings copies | GAP and GATT callbacks | a tare ends and is true; settings written are the settings used |
| NVS store | `nvs_store.c` | one static `nvsHandle`; offset, scale, credentials in flash | `read_*`, `write_*`, `init_nvs` | what is used is what a restart reads back |
| Wi-Fi station | `wifi_sta.c` | event group, connected bit | init, events, disable | the connected bit is the link's state |
| TLS connection | `wifi_tls.c` | an mbedTLS context | create, connect, send, read, disconnect, free | each is closed and freed once |
| HTTPS client | `https_client.c` | request context, parse state | `https_send_request`, callback | the body is passed on once, in order |
| OTA flash session | `iap.c` | session flags, page buffer, partition | begin, write, commit, abort | the boot partition never holds an incomplete image |
| HTTPS OTA client | `iap_https.c` | event bits, timer, `has_iap_session`, `has_new_firmware` | check, download, callbacks | a check always comes again; the flags tell the truth |
| Local OTA | `local_ota.c` | static socket, buffer, OTA handle | `local_ota_task` | one update at a time |
| Device identity | `common.c` | the device name | `set_device_id` | computed once |

How they interact:

- **Handles.** `app_main` stores the handles of the weighing, button and battery tasks in
  globals. The battery task, the console and the BLE handler call `vTaskSuspend` and
  `vTaskResume` on them. FreeRTOS does not count suspensions. A NULL handle means "myself"
  to `vTaskSuspend` and fails an assertion in `vTaskResume`.
- **The converter.** `weighingTask`, the console, the BLE handler and `app_main` all clock
  the one HX711, with no lock, through `readValue`.
- **stdout.** `ESP_LOGI` and `printf` take the lock of stdout. A task suspended inside them
  keeps it.
- **Flags.** `tare_flag` goes from the button task to the weighing task,
  `displaying_batt_low` from the battery task to it.
- **Display.** The boot, the weighing task, the battery task and the BLE handler draw on
  the eight digits.
- **NVS.** The console and the BLE handler store the offset, the console the scale. No
  caller looks at the result of a write.
- **Provisioning.** A BLE write runs in the BLE host's task (BTC). CONNECT_WIFI and FORCE_OTA
  keep it in `wifi_sta_init`; FORCE_OTA then starts a `local_ota_task`, which waits for the
  connected flag that the system event task sets and clears in `wifi_sta_event_group`.
- **Partitions.** Both updates write the slot after the running one and switch the boot
  partition. Nothing keeps one out while the other is at work.

What is hard here: five tasks that suspend each other at any point, a BLE stack that accepts
writes before the tasks exist, locks that a suspended task keeps, a converter that it keeps
powered down, power loss between a change in RAM and its copy in flash, flash writes that fail.
A unit test reaches none of it. The list, with a line for each, is under `hazards`.

## 2. Plan

The interplay of the tasks comes first: it is what this device does all day, and every
other part hangs on it.

| Step | Modules | Content | State |
|---|---|---|---|
| 1 | `ScaleState`, `BootTask`, `WeighingTasks`, `BatteryTask`, `ConsoleTask`, `BleTareHandler`, `WeighingScale`, `MCWeighingScale`, `WeighingScaleProofs` | the tasks of the scale | **done** |
| 2 | `FirmwareSlots` (abstract), `Iap`, `HttpsClient`, `IapHttps`, `MCIapHttps` | the update over HTTPS: flash session, response parsing, task, timer, flags; it implements "the boot slot holds a whole image" | **done** |
| 3 | `IapHttpsProofs` | the safety of updates for every page size, buffer size and response | **done** |
| 4 | `BleServices`, `WifiSta`, `BleSettings`, `Provisioning` | advertising and service creation; the station and its event groups; credentials in RAM and NVS, CONNECT_WIFI and FORCE_OTA | **done** |
| 5 | `LocalOta` | several update tasks over shared statics; one at a time takes the steps of `FirmwareSlots` | **done** |
| 6 | `LoadCell`, `Figures`, `Readout` | sign extension, sum, division, OFFSET and SCALE; the text of a mass; drawing it place by place while others draw | **done** |
| 7 | `ProvisioningProofs`, `LocalOtaProofs`, `FiguresProofs`, `ReadoutProofs` | every invariant of 4 to 6, and the slot steps of `LocalOta` | **done** |
| 8 | `TlsConnection` | the life of the mbedTLS contexts; each is closed and freed once | later |

Theorems worth proving: the safety of the tasks; the safety of an update and that it
implements `FirmwareSlots`; that the connected flag tells the truth and no event meets a
NULL group; that a Force OTA writes what was sent and leaves a whole image to boot; that no
place of the display keeps a digit of an older mass, and that the figure is the mass. All of
them are proved (section 5). What is left to prove is what step 8 would add.

## 3. The modules and the code

### The scale

Each of its modules `EXTENDS ScaleState`, which holds the shared state, the FreeRTOS kernel, the
HX711 driver, display and NVS; `WeighingScale` is the composition and holds the properties.
An action is what a task does from one point at which others can get in to the next:
`pc[t]` is that point and `task[t]` the scheduler's view of it (`absent` for a NULL
handle). An action of a task needs `Active(t)`, so a suspended task stays where it is.

| Module | Code | Remarks |
|---|---|---|
| `ScaleState` | kernel calls, `HX711.c`, `nvs_store.c`, display | `Suspend`, `Resume`, `Create` model the FreeRTOS calls; `ReadReady`, `ReadShift`, `ReadEnd` are the three phases of `readValue` |
| `BootTask` | `app_main`, `battery()` | up to the `xTaskCreate`s; `Reset` is RAM at reset and `Reboot` brings it back |
| `WeighingTasks` | `weighingTask`, `tareTask` | a step per `vTaskDelay`, test of a flag and call of the driver |
| `BatteryTask` | `battery_level_check_task` | both threshold ladders, the message of one second |
| `ConsoleTask` | `run_console` and its commands | the prompts nested in `m`, `1` and `c` |
| `BleTareHandler` | the tare write in `system_settings_gatts_handler` | every `vTaskSuspend` and `vTaskResume` is an action |
| `WeighingScale` | the whole | composition, operator, reset, fairness, properties |

Abstractions, and why they keep what the properties tell apart:

- **A sample** is the load at the time it is read, or `Garbage` if it is clocked out of
  step with the converter. That happens when two tasks clock the converter for the same
  conversion, and may happen when a task is suspended between the edges of a pulse: PD_SCK
  left high is the chip's power-down (`HX711.c:296`). An average is the set of its samples,
  and so is `offset`; `{}` is the initial 0.
- **A converter that is powered down** keeps DOUT high, and `readValue` waits for DOUT
  without a limit (`HX711.c:160`). `high` is the task that was stopped with PD_SCK high;
  while it is suspended (`PoweredDown`) no read begins. A pulse of whoever is already
  clocking wakes the converter up. Only a suspension makes PD_SCK stay high here: a
  preemption of more than 60 us between two edges, which would spoil a sample and after which
  the converter recovers by itself, is left out.
- **Averages** take `Times[use]` samples. The code takes 1, 2, 5 or 10; the runs take 1 or
  2, since a longer average repeats the same three steps. The proofs hold for any `Times`.
- **The stdout lock** belongs to ESP-IDF. `readValue`'s first log is where a reader holds
  it in the model; the battery task's report is the other. The remaining log calls are
  where a task waits for the lock: one more or one less of them adds no new behaviour.
- **Drawing** is one step and records who drew digits 0–2 and 3–7. The digit-by-digit SPI
  transfers and the text of the mass are not modelled.
- **`write_offset_nvs`** and **`write_scale_nvs`** either store the value or, if
  `NvsMayFail`, do nothing. An interrupted commit leaves the old value.
- **The console**'s depth of nesting is one boolean, because every nested handler returns as
  soon as the one inside it does. `"one"` is the command typed `1`. An empty line makes
  linenoise return NULL, which `run_console` tests for (line 373) and the nested prompts do
  not: `EmptyNestedLine` resets the chip.
- **BTC** is the Bluetooth host task that runs the GATT callbacks one at a time. It runs
  from `enable_ble_lead` (`main.c:79`) on, twenty lines before the tasks exist.
- **Suspending oneself.** `vTaskSuspend(NULL)` stops its caller (`Suspend`). BTC does that to
  itself when a tare arrives before the task it names exists, and nobody ever resumes BTC. A
  tare between the creation of the button task and that of the battery task has by then
  suspended the weighing and the button task: the weighing task is resumed by the first round
  of the battery task, the button by nobody.
  `NoOrphanedSuspension` names this case (`StoppedAtBattery`) and excludes every other.
- **The menu** (`MenuWeighing`, `MenuBattery`) stops its victims wherever they are, inside
  `ESP_LOGI` too; its own wait for stdout is a step of its own (`Say`).
- **What was typed** under `sc` and never saved stays in `linechar`, as in the code.

### The update over the air

`IapHttps` is the composition: it `EXTENDS Iap` and `HttpsClient`, each the operations of
its file on its own variables, and makes actions of them in the order in which the task
`fwup_wifi_task` goes through them. `FirmwareSlots` is the abstract specification.

| Module | Code | Remarks |
|---|---|---|
| `FirmwareSlots` | the promise of an update | three variables: the slot that boots, the one that runs, the slots with a whole image |
| `Iap` | `iap.c`, and `esp_ota_ops` under it | `CopyToPage` is one round of the loop of `iap_write`; `handle` is the OTA handle that `esp_ota_end` has not freed, not the stale number in `iap_state` |
| `HttpsClient` | `https_tls_callback`, the read loop of `wifi_tls_send_request` | `Gathers`, `Drops` and `Delivers` are the three outcomes of a packet |
| `IapHttps` | `iap_https.c` | `pc` is where the task is; timer, `iap_https_check_now`, Wi-Fi and power are the actions around it |

Abstractions:

- **Bytes** are model values. `Header` stands for every byte of the headers, which have the
  fixed length `HeaderLength`, and for what the TLS buffer held before. A packet is any
  prefix of what the server has still to send that fits the TLS buffer, so headers and body
  are split in every way.
- **Headers of no use** (another status, another version, no Content-Length) are one case,
  `NoLength`: all of them drop the packet and end the request.
- **The metadata** may change the interval and may announce an image, in any combination.
- **The flash.** `esp_ota_begin` refuses the running slot and erases another;
  `esp_ota_end` and `esp_ota_set_boot_partition` verify the image, and image means a member
  of `Images`. With `FlashMayFail`, heap, flash and OTA data may refuse at every call; a
  write that fails leaves the slot as it was.
- **`Init`** is what `init_ota` leaves behind, with the factory image running. Nothing in
  this repository calls `init_ota` (the call in `app_main` is missing); the model is of what
  happens when it is called. `auto_reboot` is 1 in `common.h` and either value in the model.
- **The timer** may elapse at any time but between `xTimerReset` and the
  `xEventGroupClearBits` that follows it: an interval is at least a second.

### Provisioning

`Provisioning` is the composition of `BleServices` and, through `BleSettings`, `WifiSta`,
with the power supply and the fairness; it holds the properties.

| Module | Code | Remarks |
|---|---|---|
| `BleServices` | `enable_ble_lead`, the GAP and GATT events of both profiles | `queue` is the order in which BTC runs the handlers; every call of the start-up posts its completion |
| `WifiSta` | `wifi_sta.c` | `wifi_sta_init` in the steps between its delays; the handler tests the flag in one step and changes it in the next |
| `BleSettings` | the settings writes, `read_` and `write_wifi_params_nvs`, the start of `local_ota_task` | `btc` is where BTC is inside a write; `awaited` is the group a task waits for |

Abstractions, and what the code does that a reader may not expect:

- **The GAP callback** is registered after the advertising data has been handed over, so the
  completion of either may come too early and be lost. The device advertises all the same,
  since `ESP_GATTS_REG_EVT` of the device profile hands them over again; `Connectable` rests
  on that, and its mutant takes it away.
- **A second `wifi_sta_init`** replaces the event group. A task that waits for the old group
  waits for ever, and so does one that starts to wait on the new group of a link that was
  already up. `WaiterIsWoken` makes the exception explicit.
- **Names that fill their array** (`LongName`). `README.md:86` allows 32 characters;
  `wifi_sta_init` refuses them, since the password follows the name's array. There is then no
  group, and the task that waits for it asserts (`OtaFindsNoGroup`).
- **Passwords that fill their array** (`Unterminated`). `README.md:87` allows 32 characters,
  which leave no room for the NUL; `wifi_sta_init` compares their length with the driver's 64
  (`wifi_sta.c:55`), so they are accepted, or refused, by what follows the array in memory.
  If accepted, the driver gets `Garbled`: the password and those bytes (`Copied`).
- **FORCE_OTA prefers NVS** for ever: credentials are stored at the first FORCE_OTA without
  any, and no later write replaces them. `written` is what the client has written since NVS's
  were last in force: `CredentialsUsed` says which are used when.
- **The tare** (CANCEL_OTA) is a write of the same handler. What it does is in
  `BleTareHandler`; here it is its ends (`TareEnds`): BTC goes on, has stopped for good
  (`"stopped"`: suspended on a NULL handle, or waiting for a converter that is powered down),
  or waits for a stdout that a task it has suspended keeps (`"silenced"`). Then the event task,
  which logs every event (`main.c:117`), and new update tasks wait for stdout too.
- **A new configuration** of a link that is up is used when the link has dropped.
- **Assumed**: `esp_wifi_connect` returns no error (its attempt may fail), and there is memory
  for the event group (`xEventGroupCreate` does not return NULL).
  Host, port and file name of the update are strings only `local_ota_task` reads.

### Local OTA

`LocalOta` (`local_ota.c`) is every `local_ota_task` over the one static buffer and the one
static socket number; `pc`, `handle` and the three locals are per task. The state of a slot
is its bytes, because two tasks may write the same slot: bytes programmed over others mix.

- **A reply** is a status line, a line end, a blank line and a body, in units: the status
  line up to its end is one of two values, line ends and the body are bytes. `Cuts` are the
  places where the network may cut it, besides the end of the buffer. Once asked, a server
  sends its reply to the end unless the connection breaks.
- **`ota_write_data`** is filled from `text` and written in the same step.
- **`Reboot`** counts a slot that is not whole as blank, since `esp_ota_begin` erases it
  before anything is written.
- **`overlapped`** is the history of two tasks having been at their updates at once. The code
  does nothing against it: the second erases the slot under the first, takes over its socket
  and may boot a mixture that the image check, which is of another moment, let through. The
  safety properties are of updates that do not overlap; the `local_ota` hazard in
  `PROJECT.json` says what happens otherwise. `OtaEnds` holds whether they overlap or not.
- **`read_until`** counts one byte too many at the end of a packet without a line feed. Of a
  packet of one byte it returns 2, the length of a blank line, so that the length of what
  follows is -1 and `memcpy` panics: `HeaderOverrun`. A reset
  leaves the slots as they are, so the properties hold through it.
- **`SocketFails`**: without a socket the task ends, after a `close(-1)`; `NoSocket` is that -1.
- **`recv`** looks at the socket number at the time it returns. One that waits would keep to
  the descriptor it was called with: a difference in an overlap only.
- **A packet** does not end inside the status line, which is one unit.
- The wait for Wi-Fi is in `Provisioning`; here it may end at any time or never.

### The readout

`LoadCell` and `Figures` are the arithmetic as operators: `Wire` is what the converter sends,
by the definition of two's complement, and `ReadValue`, `Quotient`, `GetUnits` what the driver
makes of it (the powers of two have names, so that the proofs can reason about them without
their values); `Drawing` is the glyph `weighingTask` puts in a place. `Readout` is the weighing
task, the battery task's message and the BLE tare, drawing and clearing one place per step,
since each `max7219_set_digit` is an SPI transfer of its own at which another task may run.

- **Places 0 to 2** are only written together, all letters or all blank: place 2 stands for
  the three.
- **Words** (`tArE`, `lo bAtt`) are letters; a letter is told from a digit and a blank.
- **The float.** `get_units` divides as `double` and returns a `float` (`HX711.c:252`), of which
  `sprintf` prints five decimals. Both roundings are exact in the model, to the nearest with
  ties to even: `Significand` is the 24 bits of the float, `Printed` its decimals, computed in
  steps that stay within TLC's 32 bits. (7518402 / -3007 is -2500.29997; the float prints
  2500.30005, which the display cuts to 2500.3.) The intermediate rounding to `double` changes
  nothing as long as the scale is below 2^29, and no quotient crosses the limits of the
  code's two comparisons for a scale below 2^25, which `ReadoutAssumption` asks for: a
  calibration factor is typed in the units of a reading of 24 bits.
- **A scale of 0** divides by zero. Of "inf" and "nan" three places are letters; the
  loop of `max7219_draw_text_7seg` (`max7219.c:213`) does not stop at the NUL, and the places
  behind are `Stray`: the NUL, read behind the end of the font, and what an older text
  has left in the array. So a scale of 0 does show digits of older masses; `NoStalePlace` and
  `ShownIsMass` are about finite masses, and say that once one is drawn no `Stray` is left.
- **Suspensions** by BTC and by the battery task while it samples are in the model, uncounted:
  the battery task's resume wakes a weighing task BTC has just suspended, which then draws
  during BTC's tare. The console's are not.
- **What holds only between drawings.** After a BLE tare or a battery message the figure may
  have blank places until the next drawing, 200 ms later. `NoStalePlace` says that there is
  nothing else; `ShownIsMass` is about figures nobody has written into. Masses from 100000
  up or -10000 down lose their last digits.

## 4. The runs

| Run | What it shows |
|---|---|
| `scale_alone` | Button and battery, no console and no BLE client. One task at a time reads the converter (`OneReader`). The weighing task samples for ever (`KeepsWeighing`); the display comes back to the mass alone (`ShowsMass`); a press latched between two tares gets a tare (`PressIsServed`; one latched during the 100 ms after a tare is wiped out at `weighing_scale.c:226`); `displaying_batt_low` goes down again (`LowMessageEnds`). Deadlock is checked. |
| `scale_together` | Every console command, BLE writes from boot on, power loss at any step. A suspended task is within the span of one that is not suspended for good and has its `vTaskResume` before it, with one exception that `NoOrphanedSuspension` names (whether it gets there, or waits for stdout or the converter, is the question of `ble_live` and `menu_appears`); no `vTaskResume` meets NULL (`ResumeNeverNull`); the boot tare is true (`StartsFromZero`); the scale in use is the stored one (`ScaleIsStored`). It also checks `IInv`, the inductive invariant of the proofs. |
| `ble_live` | BLE writes from boot on, an NVS that fails, loads that change. A BLE tare ends (`BleTareEnds`) and the scale weighs on (`WeighsOn`), unless one of three things lasts for ever (`BtcStops`): the handler has suspended itself on a NULL handle, a task it suspended holds stdout, or one holds the converter powered down. |
| `menu_appears` (violated) | `README.md:65`: "press 'm' and hit Enter. You will be provided a menu". `menu()` suspends the weighing or the battery task inside `ESP_LOGI` and then logs itself: nobody prints again. |
| `ble_tare_is_true` (violated) | `README.md:92`: tare weight. The handler suspends the weighing task in the middle of a sample and clocks the converter from there; the offset it stores may come from a sample out of step. |
| `update_safe` | Every split of the response into packets, images that are valid and not, dropped connections, failing flash, Wi-Fi and power that come and go. `ImplementsSlots`: the update implements `FirmwareSlots`. `StreamKept`: slot, page buffer and remaining data are together what the callback passed on. `WriteHasBuffer`: a session lost or aborted in one download does not reach into the next. `IInv`: the inductive invariant of the proofs, type invariant included. Deadlock is checked. |
| `update_live` | Another check always comes (`ChecksForEver`), and an announced image is requested although checks are demanded again and again (`AnnouncedIsRequested`), and a check demanded while none is under way is made (`DemandIsServed`). |
| `new_firmware` (violated) | `iap_https.h:83`: "Returns 1 if a new firmware has been installed but not yet booted". `has_new_firmware` is set after a commit that failed, too. |
| `body_copied` (violated) | `https_client.c:230`: "If the last received packet also contains message body data, we copy it to the beginning of the buffer". With headers in two packets, the copy is from the wrong place of the TLS buffer. |
| `provisioning` | Start-up, clients that come, write and leave, tares that may stop BTC, repeated initialisations, passwords that fill their array, links that drop, a driver and an NVS that fail, a power cycle. The connected flag is never set while the link is down and its event has been handled (`FlagIsTrue`); no event meets a NULL group (`EventsFindGroup`), nor a task unless an initialisation was refused (`TaskFindsGroup`); the driver gets what was written last or, if a FORCE_OTA has come since, what NVS held, with bytes nobody wrote only if that has a password that fills its array (`CredentialsUsed`). With a connection free the device advertises again (`Connectable`), a lost link is tried again (`Reconnects`), a waiter of the current group is woken (`WaiterIsWoken`), each unless a tare has stopped BTC, or left stdout locked. `IInv`: the inductive invariant of the proofs. |
| `local_ota` | Two FORCE_OTA tasks. Updates that do not overlap never leave an incomplete image in the boot slot (`BootSlotWhole`), write the body as it was sent (`BodyWritten`) and take steps of `FirmwareSlots` (`SlotStepsKept`); sockets are closed (`SocketsClosed`); every task that has Wi-Fi ends (`OtaEnds`). `IInv`: the inductive invariant of the proofs. |
| `readout` | Loads around zero, around ten and at the limits of the converter, with several scales. The sum and the difference do not overflow (`SumFits`), the texts fit their arrays (`TextFits`), no place keeps a digit of an older mass or a letter as long as masses are finite (`NoStalePlace`), and an undisturbed figure is the mass (`ShownIsMass`). `IInv`: the inductive invariant of the proofs, type invariant included. |

`ble_live`, `scale_together` and the violated runs of the scale do not check deadlock, because
the deadlock on stdout that `menu_appears` shows is one the system really has; nor does
`provisioning`, where a tare may stop BTC for good.

Bounds. One load is enough where properties only tell true samples from garbage; two where a
change matters. The scales are the default of 1 and, in `scale_together`, the 0 that a line
that is not a number gives: enough to tell a stored scale from another. The two ADC readings
are either side of the only threshold that starts the message (2150), and `BatteryLevel` has
all six. Nothing is capped: the state space is finite as it is.

For updates, pages have two bytes and the image three, so that a download fills a page,
leaves a rest, and crosses a page border within a fragment. Headers have two bytes, so that
they can be split; the TLS buffer four and the metadata buffer three, so that a packet may
hold the end of the headers and the start of the body, and overflow. Two firmware files, one
of them a truncated image, are enough for a valid and an invalid download; the session state
has no memory of more than the previous one. `update_live` has the invalid file only and no
power loss, which only starts everything anew. Nothing is capped here either.

`provisioning` caps what its environment does: two connections, so that one can be free
while the other is taken; two initialisations between starts, since it is the second that
replaces a group; two Wi-Fi events and one connect or disconnect waiting; one FORCE_OTA task;
one power cycle, after which NVS holds what a first life stored. The two credentials are
the default, and others with a password that fills its array. `LongName` is empty in the run:
what a name of 32 characters does, a refusal, a failing driver does as well, and the proofs
hold for any set of such names. 1,016,922 states.

`local_ota` has two tasks, the least that overlap. The buffer of six units holds the headers
(five) and the start of a body; cuts after three and four give headers in two and three
packets, one of a single byte, which ends in `HeaderOverrun`, and the end of the buffer a
body that starts in one packet and goes on in the next. The
slot has the size of the image, and the bodies are the image, whose second byte looks like a
line feed, and the image cut short. 576,070 states.

`readout` takes one reading per mass and averages two per tare, as the code does, of loads
chosen for its boundaries: masses of 9 and 10, and after a tare of -1, 0 and 1, with odd sums,
which truncation makes differ; the end of the 24 bits with the scale of 1 (a mass of
-16777215, longer than the display); a mass whose rounding to a float changes the digit shown;
and a scale of 0. Its 8 million states come from drawing place by place.

Fairness is strong, per task: every loop but one of the code blocks in `vTaskDelay` at
100 Hz on two cores, so no task starves another for good. The one that spins, on DOUT, ends
with the conversion under way (10 or 80 a second), unless the converter is powered down: then
`ReadReady` is not enabled, and fairness does not end the wait. Strong rather than weak, because a
suspension or the stdout lock disables a task again and again, and FreeRTOS mutexes are
handed to the waiter. Typing, BLE writes, presses and loads have no fairness.

For updates, fairness is weak for the task and the timer, and strong for the two waits for
Wi-Fi, which is there again and again but not for good; both properties assume that it is
(`[]<>connected`). Weak fairness of the task includes that a connection ends some time
(`Disconnected`): the code sets no read timeout, so a server that neither sends nor closes
would stop it. That is an assumption on the server, and a hazard. `CheckNow`, `WifiChanges`
and `PowerCycle` have no fairness.

In `provisioning`, fairness is weak for the tasks that are enabled until they run (main, BTC
inside a handler, the event task, the update tasks) and strong for BTC taking an event of the
host: a write goes first again and again, but BTC's queue is first in, first out. A tare may
stop BTC, or lock stdout, for good; then nothing BTC does is enabled, and the liveness
properties name that end instead of assuming it away. Clients,
access point and supply have none. In `local_ota` each task is fair once it has its socket;
the wait for Wi-Fi is not. `readout` has safety properties only.

## 5. The proofs

Every invariant that a passing run checks is a theorem, and so are the two properties that
relate an update to `FirmwareSlots`. TLC shows each for a small instance, TLAPS for every
value of the constants that the named `ASSUME`s allow; TLC evaluates those on every run.

All proofs have one shape. A section "What the safety properties rest on" of the module
names the conjuncts that make `IInv` inductive; a run checks `IInv` with TLC; the proof
module has a lemma `...Step` per conjunct, with a step per action, `InitHolds`, and a theorem
`...Inductive` from which the others follow.

### The scale

`WeighingScaleProofs` proves, for every set of loads, factors and ADC readings, any number of
samples per average, and with every switch (button, BLE client, power loss, failing NVS) on
or off:

| Theorem | States |
|---|---|
| `Inductive` | `Safe => []IInv` |
| `TypeCorrect` | `Safe => []TypeOK` |
| `NobodyIsForgotten` | `Safe => []NoOrphanedSuspension` |
| `EveryHandleIsSet` | `Safe => []ResumeNeverNull` |
| `BootTareHolds` | `Safe => []StartsFromZero` |
| `ScaleSurvives` | `~NvsMayFail => (Safe => []ScaleIsStored)` |
| `ReadersTakeTurns` | `Unattended => (Safe => []OneReader)` |

The one assumption is `ConstantsAssumption` of `ScaleState`: the types of the constants,
garbage is no load, no average is of zero samples.

None of these properties is inductive by itself. `IInv` adds what they rest on:

- `PcOK`: each task is in its own code, and off exactly while its handle is NULL.
- `ReadOK`: `readers` are the tasks inside `readValue`; an average has samples left
  while it is read and at least one when it is taken.
- `CreationOrder`: which handles are still NULL is a function of where `app_main` is.
- `BleOrder`: BTC gets past its *n*th `vTaskSuspend` only if the *n*th task exists, because
  otherwise it has suspended itself and nobody resumes BTC. This is why an early BLE write
  cannot reach `vTaskResume(NULL)`, and why nobody but `app_main` clocks the converter
  during the boot tare.
- `BootClean`: the boot tare has seen true samples only; no press is latched before the
  button task exists.
- `MenuOpen`: the menu suspends the battery task inside an open session only.

`NobodyIsForgotten` is about the span of a task that has its `vTaskResume` before it: a BTC
that has suspended itself counts for nobody, and the one case where that orphans a task is the
named exception, `StoppedAtBattery`. The theorems on `NoOrphanedSuspension`, `StartsFromZero`
and `ScaleIsStored` add a lemma each, with `IInv` as a hypothesis. Two theorems are about some
settings of the switches only, because the code promises no more: a scale whose NVS write
failed is not the stored one, and the converter has two readers as soon as a BLE client tares
or somebody types a command that reads it. `Unattended` says that neither happens, and nothing
else: menu, calibration `1`, `save`, button, battery task, failing NVS and power loss are all
there. `OneReader` then needs a second invariant next to `IInv`: `NoOtherReader`, that BTC and
the console stay out of `readValue`. The boot and the weighing task cannot be in it together
because of `CreationOrder`.

### The update over HTTPS

`IapHttpsProofs` proves, for every page size, buffer size, header length, set of images,
files and metadata, with failing flash and power loss or not:

| Theorem | States |
|---|---|
| `UpdateInductive` | `Safe => []IInv` |
| `UpdateTypes` | `Safe => []TypeOK` |
| `NothingIsLost` | `Safe => []StreamKept` |
| `WritesAreBuffered` | `Safe => []WriteHasBuffer` |
| `SlotsAreKept` | `Safe => ImplementsSlots` |
| `AlwaysBootable` | `Safe => []FS!WholeImages` |

The assumptions are `IapAssumption`, `HttpsAssumption` and `IapHttpsAssumption`: the types of
the constants; a response buffer is no longer than the TLS buffer, as in the code (2048 and
4096 against 4096) - without it `BodyAfterHeaders` would read beyond the TLS buffer; a page
has at least one byte; `Header` is no byte of a body.

`IInv` adds to the properties: `SessionOK`, that a handle is open only within a session with
its page buffer, on the slot after the boot slot, and not on the one that runs (this is what
makes every flash write a `Program` of `FirmwareSlots`); `HandleOK`, that the steps that
write have that handle, and that `has_iap_session` in a download implies it; `DataOK`, that
`iap_write` leaves nothing behind. `StreamKept` then follows from the associativity of
concatenation. One lemma per conjunct, a step per action; `Quiet` and `Copying` dispose of
the actions that do not touch the state in question. `SlotStep` maps every step to one of
`FirmwareSlots` or a stutter. `AlwaysBootable` is the point of that refinement: what
`FirmwareSlots` promises, that the slot that boots and the slot that runs hold whole images,
is proved of its actions and carried over.

### Provisioning

`ProvisioningProofs` proves, for any number of BLE links, waiting requests, event groups,
events, update tasks and power cycles, any set of credentials, with driver and NVS failing
or not:

| Theorem | States |
|---|---|
| `ProvisioningInductive` | `Safe => []IInv` |
| `ProvisioningTypes` | `Safe => []TypeOK` |
| `FlagTellsTheTruth` | `Safe => []FlagIsTrue` |
| `NoEventWithoutGroup` | `Safe => []EventsFindGroup` |
| `NoTaskWithoutGroup` | `Safe => []TaskFindsGroup` |
| `RightCredentials` | `Safe => []CredentialsUsed` |

Assumptions: `BleAssumption`, `WifiAssumption`, `SettingsAssumption` and
`ProvisioningAssumption`, the types of the constants; the default credentials are
credentials; an empty NVS is not, nor are bytes nobody wrote.

- `GroupOK`: the driver is started, and a link comes up, only when `wifi_sta_init` has
  created a group; no group to come has its flag set. `EventsFindGroup` rests on it, because
  only a started driver posts events.
- `NewsInOrder`: while the link is down, each `got_ip` in the queue, and the one whose flag
  the handler is about to set, has a `disconnected` behind it. Without it `FlagIsTrue` would
  break when the handler sets the flag of a link that is already gone.
- `CredentialsKept`: RAM holds the credentials in force (`InForce`): what the client wrote
  last or, if a FORCE_OTA has come since, what NVS held. It is `CredentialsUsed` one step
  earlier.

The lemmas `Taken`, `Added`, `NewsTaken` and `NewsAdded` say what taking from the front of a
queue and appending to it leave as they were.

### Local OTA

`LocalOtaProofs` proves, for any number of tasks, any slot and buffer size, any image and
bodies, wherever the network may cut a reply, with network, flash and power failing or not:

| Theorem | States |
|---|---|
| `LocalOtaInductive` | `Safe => []IInv` |
| `LocalOtaTypes` | `Safe => []TypeOK` |
| `BootableAtAnyTime` | `Safe => []BootSlotWhole` |
| `NoSocketLeft` | `Safe => []SocketsClosed` |
| `BodyArrives` | `Safe => []BodyWritten` |
| `SlotStepsHold` | `Safe => SlotStepsKept` |

The one assumption is `LocalOtaAssumption`: the types of the constants; the image is not
empty, fits its slot and has no byte that stands for erased flash.

- `TasksOK` holds whether tasks overlap or not: a task that has begun writes to the slot after
  the running one, and `http_200_flag`, `resp_body_start` and `whole` are set in that order
  only.
- `SocketOK`: without an overlap at most one task is busy, and it owns the one socket number,
  unless it could not have a socket and is about to end. The lemma `Alone`
  makes of it that no other task is at its update, which is what the rest needs of the other
  tasks.
- `BootOK`: the boot slot is the running one until the task has activated its own, which is
  whole. An erased slot is not whole (`BlankIsNotValid`), so a reboot in the middle of an
  update changes nothing.
- `ReplyOK`: before the first packet has been looked at, what has come and what is to come are
  headers and body; the slot is erased behind the write position, so that a byte programmed
  is the byte that is read back.

`BodyWritten` is the deepest of these. Its step for the first packet (`FirstPacket`) shows that
the header parser, which looks for the first blank line by index, cuts at the end of the
headers whatever the body holds and wherever the packet ends; `CutBehind` is the fact about
sequences under it: if headers and body joined are packet and rest joined, then what the packet
has behind the headers, joined with the rest, is the body. `WrittenGrows` then says that a
write appends to what the slot holds. `FirstOf` is a CHOOSE; `Least` shows, from the
well-foundedness of `<`, that it is the least.

### The readout

`FiguresProofs` is about the operators of `LoadCell` and `Figures`; `ReadoutProofs` about the
three tasks at the display. Both are for all 2^24 readings, any offset, any scale below 2^25,
and any number from 1 to 255 of samples per average, the range of the code's `uint8_t`. The
roundings of `get_units` and `sprintf` are in them as exact as in the model.

| Theorem | States |
|---|---|
| `ReadsWire` | the sign extension of `readValue` recovers every value that the converter sends |
| `ReadoutInductive` | `Spec => []IInv` |
| `ReadoutTypes` | `Spec => []TypeOK` |
| `NoOverflow` | `Spec => []SumFits` |
| `TextsFitArrays` | `Spec => []TextFits` |
| `NothingStale` | `Spec => []NoStalePlace` |
| `DisplayIsMass` | `Spec => []ShownIsMass` |

The one assumption is `ReadoutAssumption`: offset and load are readings, the scale an
integer below 2^25 either way, `Times` between 1 and 255.

- `SumFits` is inductive with the types: a sum lies between the samples taken so far times
  `Lowest` and times `Highest`, and the average of readings is a reading
  (`QuotientIsReading`), so OFFSET is one again.
- `PcOK` has each task in its own code and at the first place of its next loop.
- `PlacesOK`: a place that shows neither a blank nor what the code draws there of the last mass,
  finite or not, is about
  to be drawn by the weighing task, or to be cleared by the one that has written there. When
  all rest, nobody is about to; if the mass is finite, what is drawn of it is no `Stray`, and
  `NoStalePlace` is left.
- `FigureOK`: as long as nobody else has written to the figure, the places drawn so far are
  those of the mass. `ShownIsMass` follows by arithmetic: `DigitByDigit` puts the decimal
  digits of a number together again, `FigureIsMass` does so for sign, whole part and decimals.

The provers do not take numbers of 24 bits; `Bits24` and its like stay names in the proofs,
of which only products and order are used.

### Model-checked only

- **Liveness**: `KeepsWeighing`, `ShowsMass`, `PressIsServed`, `LowMessageEnds`, `BleTareEnds`,
  `WeighsOn`, `ChecksForEver`, `AnnouncedIsRequested`, `DemandIsServed`, `Connectable`,
  `Reconnects`, `WaiterIsWoken`, `OtaEnds`. They rest on fairness and `ENABLED`, which are out
  of this prover's reach.
- **The violated properties**, which are false.
- Induction over data and `RECURSIVE` operators are out of its reach too; no module here needs
  either.

## 6. Not modelled

- **BLE reads**: they change no state. A client may read `TotalmassStr` while `sprintf`
  fills it; the text is an array without a lock, so there is no promise to check.
- **`ble_common.c`**, the manufacturer data, and the strings for host, port and file name.
- **The mbedTLS contexts** of `wifi_tls.c` and the text search in headers and metadata.
- **The static `nvsHandle`**: a write to NVS is one step. What two tasks in it can do to
  each other, a value not stored, is among what `NvsMayFail` allows.
- **The OTA handle** that `task_fatal_error` leaves open (`local_ota.c:148` says it "must be
  freed"): a leak of memory, which the model does not count.
- **32-bit overflow of the timer period** (`iap_https.c:239`): the model has no ticks, and
  the product is beyond TLC's integers.
- **Set-up and letters of the MAX7219**; `wifi_sta_disable`, power down and up of the HX711,
  which have no caller.
- **`common.c`**: formats the MAC address once.
- **`charging_state` and the battery voltage**: computed and logged, and nothing else reads
  them.
- **A preemption of more than 60 us** with PD_SCK high: the converter powers down, the sample
  is spoilt, and the next pulse wakes it up. Only suspensions power it down in the model.
- **BLE writes of more than the documented 32 bytes**, which the handler copies past its arrays
  (`ble_lead.c:333`).
- **Out of memory** in `xEventGroupCreate`, and an error returned by `esp_wifi_connect`.
- **The console in `Provisioning`**: a menu that stops a task inside `ESP_LOGI` locks stdout as
  well, for which the `"silenced"` of a tare stands.
- **The descriptor of a blocked `recv`** in `LocalOta`, which matters in an overlap only, and a
  packet that ends inside the status line.
- **Scales of 2^25 and more**, more than any reading has.
- **What a `Stray` place shows**: it depends on the memory behind a text.
- **ESP-IDF, FreeRTOS, newlib, linenoise**: not in the repository; modelled as external, by
  what this code needs of them.

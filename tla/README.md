# Verification of the myThermo firmware

TLA+ models of the ESP8266 thermostat of this repository, checked with TLC on
small instances and, where a theorem is worth it, proved with TLAPS for every
value of the constants.

## The system

myThermo is a room thermostat: a firmware for the ESP8266 on the non-OS SDK
(`esp/src`), a few node.js services that bridge MQTT to a database and HTTP
(`services`), and a web interface (`web`). There are no tests and no design
documents: the reference is the code and its comments.

The firmware is single-threaded and cooperative. Timers, TCP, UDP and DNS
callbacks, the Wi-Fi event handler and one system task each run to completion;
nothing pre-empts them. What is hard is their order: which callback comes
between a request and its answer, what a handler leaves for a later one, what a
refused call of the SDK leaves undone, and a reset at any instruction.

| Part | Code | State | Operations | Hard behaviour | What makes it correct |
|---|---|---|---|---|---|
| Byte ring | `mqtt/ringbuf.c` | buffer, two pointers, fill count | put, get | two wraps, full against empty | a bounded FIFO of bytes |
| Outbound queue | `mqtt/queue.c`, `proto.c` | the ring's bytes, parser | put and get a frame | partial frames of failed puts, eviction when full | a FIFO of whole messages |
| MQTT client | `mqtt/mqtt.c` | connection state, espconn, ticks, queue | task, timer, TCP and DNS callbacks, publish, connect, disconnect | every order of callbacks, lost wake-ups, stale answers, time-outs | online means a session; it always gets back online; queued messages are sent |
| Wi-Fi events | `user/user_main.c` | station state | got-ip, disconnected | Wi-Fi flapping during a connection | see MQTT client |
| Control loop | `user/user_main.c`, `mqttMain.c` | mode, target, schedule, heater | tick, three commands | command against tick, stale pointers, unsigned arithmetic | the heater follows the demand and its state is reported |
| Settings in flash | `user/myFlashState.c`, `my_flash.c` | two sectors | save, read | reset between or within writes | a restart finds what was saved, and it is consistent |
| Schedule codec | `user/auto_temp.c`, `driver/base64.c` | none | decode, encode | cut messages, lengths at their limits | round trip, no read out of bounds |
| Schedule search | `user/user_main.c` | a loop index | find the present entry | ends of day and week, an 8-bit index | the entry in force; it ends |
| Schedule editor | `web/js` (`dataFunctions.js`, `script.js`, `angular/main-controller.js`) | charts, a default week | draw, toggle a day, add, remove, save, refresh | merging bars over days, shared objects | what is drawn is what the device does, and what is read back |
| MQTT codec | `mqtt/mqtt_msg.c` | message buffer, id | encode, decode | variable lengths, buffer limits, packets cut by the end of a segment | what is acted on is delivered and answered as it was sent |
| Clock | `user/ntp.c` | seconds, offset, a timer | start, send, receive | one timer for two waits, late answers | the time is set in the end |
| Upgrade | `user/fota.c` | upgrade record | start, finished | failure, repeated command | each frees its own memory |
| Sensor | `driver/ds1820.c`, `user/my_temperature.c` | temperature, calibration | search, read | CRC error, sign, missing sensor | the value read is the value measured |
| Display | `user/drawing.c` | what is shown | setters, redraw | pointers into freed data | shows live data |
| Buttons | `driver/key.c` | press timers | press, release | debouncing | (no key is registered) |
| Wi-Fi poller, HTTP client, web server, JSON | `mqtt/wifi.c`, `user/http_client.c`, `web_server.c`, `user_json.c`, `my_thingspeak.c`, `my_duckdns.c` | - | - | - | (every call is commented out in `app_init`) |
| Drivers | `driver/one_wire.c`, `i2c_master.c` | pins | bit I/O | timing | out of scope |
| Services, the rest of the page | `services`, `web/js` | database, page | store, query | - | out of scope |
| Vendored | `src/u8glib`, `esp/include`, `esp/examples`, ... | - | - | - | out of scope |

How they interact: a Wi-Fi event makes the MQTT client connect or disconnect
and starts the clock; the client's data callback runs the command handlers of
the control loop, which publish (that is, put in the outbound queue), save to
flash and set what the display shows; the one-second tick runs the engine, which
sets the relay and publishes its changes; the client's task takes from the queue
and sends.

## Modules

| Module | Models | Checked by | Proofs |
|---|---|---|---|
| `ByteFifo` | abstract: a bounded FIFO of bytes | | |
| `RingBuf` | `ringbuf.c` | `RingBuf.cfg` | `RingBufProofs` |
| `Proto` | `proto.c` as functions on byte sequences | through `MCFrameQueue` | `FrameQueueProofs` |
| `MessageFifo` | abstract: a FIFO of whole messages that drops the oldest | | |
| `FrameQueue` | `queue.c` and `proto.c` over the ring, and their users in `mqtt.c` | through `MCFrameQueue` | `FrameQueueProofs` |
| `PacketQueue` | `FrameQueue` for the frames that `proto.c` makes of packets | `MCFrameQueue` | `FrameQueueProofs` |
| `MqttClient` | the connection state machine of `mqtt.c`, with `wifi_status_handler` | `MCMqttClient` | `MqttClientProofs` |
| `Base64` | `base64.c` and `b64.js` as functions on sextets | through `MCWeekPlan` | `WeekPlanProofs` |
| `AutoTemp` | `auto_temp.c` and `dataFunctions.js`: message, charts, and the conversions | through `MCWeekPlan` | `WeekPlanProofs` |
| `ScheduleSearch` | `findCurrentState`, with the clock's arithmetic | `MCScheduleFull`, `MCWeekPlan` | `WeekPlanProofs` |
| `WeekPlan` | the page's edits, save and refresh, a message on its way, the decoder and the search; extends the three above | `MCWeekPlan` | `WeekPlanProofs` |
| `Thermostat` | the engine, the commands, the settings in flash, restarts | `MCThermostat` | `ThermostatProofs` |
| `MqttMsg` | `mqtt_msg.c` as functions on byte sequences | through `MCMqttReceive` | `MqttReceiveProofs` |
| `MqttReceive` | `mqtt_tcpclient_recv` on the bytes of segments, with the broker's packets | `MCMqttReceive` | `MqttReceiveProofs` |
| `Clock` | `ntp.c`: start, question, repeat timer, answer | through `Device` | |
| `Sensor` | `ds1820.c`, `my_temperature.c`: search, conversion, reading, CRC | through `Device` | |
| `Upgrade` | `fota.c`: command, refusal, end | through `Device` | |
| `Device` | composes the three above with the Wi-Fi handler, commands and restarts | `MCDevice` | `DeviceProofs` |
| `FoldProofs` | nothing: induction, folds and sums, used by the four proofs that go over data | | itself |

A handler is one action, because it runs to completion. There are three
exceptions. The eviction loop of `MQTT_Publish` is a step per pass, so that its
invariant and its termination can be stated; `phase` keeps other handlers out
meanwhile. A save to flash may be cut short, and `PowerFails` is the handler up
to that point together with the restart. The loop of `findCurrentState` is a step
per pass for the same reason as the eviction loop; `pc` keeps other handlers of
the device out, while the page and the network go on.

`MqttClient` composes the client with an environment: espconn, DNS, the access
point and the broker are modelled from how `mqtt.c` uses them (in the map,
`external`). An espconn carries one unacknowledged send at a time and refuses
others. `espconn_abort` with `espconn_delete` ends a connection without a
callback. A DNS request cannot be withdrawn; `stale` counts those made for an
espconn that was freed since. `espconn_connect` and `espconn_gethostbyname` may
refuse (for lack of memory, of a route, or of a free connection, as `espconn.c` of
the SDK's examples does), which the code ignores; `refused` is history: the last
request was. An address that is renewed makes the client connect anew over whatever
connection it has. The broker drops a client from which it does not
hear. The outbound queue is a counter in `MqttClient`; its bytes are
`FrameQueue`'s subject.

`WeekPlan` composes the two ends of a schedule. The page posts the text that
`generateResponse` makes to an HTTP address, and the firmware takes the same text
from an MQTT topic; what carries it over is not in the repository, and the model
has one message under way that arrives, or is cut where TCP ends the first
segment (`deliver_publish` delivers what it has). In this version of the firmware
nothing calls `autoTempEncode`; `refresh` takes its answer from it since
`convertBase64ToPoints` is written to read that. `asked` and `kept` are history:
the charts from which the schedule in memory and the one in flash were made.
`evalOrder` is chosen once, in `Init`: the order in which a compiler does the two
increments of `auto_temp.c` line 31. `char` is unsigned, as on the compiler of
the device. Drawing takes a bar to any temperature of `BarTemps`; the
page rounds to whole degrees and its bars are half hours, so that its products
with 60 and 100 are exact.

`Thermostat` leaves out which entry of a schedule is current: the engine takes
any entry that `states_len` counts. Entries that the schedule does not have are
`Garbage`, which is what makes a torn save visible. `told` is the last heater
status handed to `MQTT_Publish`; whether it is delivered is the client's
matter. `StoreLength` writes a `size_t` through a pointer to a `uint16_t`; what
lies behind depends on the build, and the model allows both that
`lastHeaterState` is cleared and that it is not. `Restart` stands for every
reset between two handlers: power, a finished upgrade, the watchdog.
`SavedModes` are the modes that an earlier firmware may have left in flash:
`handleMode` of this one never changes the mode the engine uses, so that
automatic mode comes from there only. `torn` is history: the power has failed within
a save.

`MqttReceive` is the other side of the client's data: `MqttClient` says when a
connection is there, `MqttReceive` what becomes of each byte it brings. A pass of
`READPACKET` is an action, so that it can be said that each leaves less of the
segment; a segment is whole packets and perhaps the start of one, and the rest of
that one opens the next segment. `reached` is history: the packets of uncut
segments that the code acts on, which are not all (`ActsOn`: only the CONNACK of its
segment, and nothing behind a packet that is not a PUBLISH). The topic `Command`
stands for those whose handler publishes what it was given (`handleMode`,
`handleAutoTemp`, `handleManualTemp`); it is what takes a message id between an
answer and the next. A topic that did not arrive whole is NULL to `dataCb`, which
copies from it: the model allows both that the device goes on and that it resets.
Bytes of a packet behind its header are below 128, so that the rest of a cut
packet, taken for a header, has a remaining length of one byte.

`Device` composes what shares the Wi-Fi handler and the restart with the control
loop but no other state. In `Clock`, `ntp_timer` is what the one timer will call,
and `unixSeconds` is where the time comes from. An address given anew without a
loss of Wi-Fi (`WifiRenewed`) finds the clock at any point of its way. `refused` is
history: `espconn_create`, whose answer the code ignores, refused the last
connection. In `Sensor`
a scratchpad is 72 bits and `crc8` goes over them bit by bit; `Disturbances` are
the bits that are read wrong. A bus that nobody drives reads as ones and a shorted
one as zeros. The address of a sensor is shorter than the real 64 bits, since the
search treats all bits alike; its first bit tells the family. `ds_request_temp`
measures within the sensors' range. `taken` is history: whence the last reading
came and whether `mqttPublishError` reported it. In `Upgrade` a block of `Updates`
is what one call of `handleUpgrade` allocates.

## Runs

| Run | Asks | Instance |
|---|---|---|
| `ringbuf` | is the ring a FIFO of bytes? | two byte values, three slots: each pointer wraps at every fill level |
| `queue` | is the queue a FIFO of messages, whatever partial frames it holds? does a push return? | eight bytes; frames of 3, 5, 6 and 9 bytes, one with both markers escaped, one that never fits: every number of bytes of a failed put, and evictions of one and of several frames |
| `mqtt` | does the client know what it is doing, and does it recover? | two Wi-Fi losses or renewed addresses, any request to connect or look up refused, two failures, one refused send, two late acknowledgements, two messages, DNS table of two; time-outs of one or two ticks |
| `mqtt_stale` | is a deleted connection gone? (no) | as `mqtt` |
| `mqtt_refused` | has a client that is connecting begun to? (not if espconn refused) | as `mqtt` |
| `thermostat` | what do restarts preserve, torn saves included? does the control loop recover? | four temperatures (one negative, one exactly on the edge of a band), three targets (one negative), schedules of no, one and two entries |
| `thermostat_torn` | does the stored length fit the stored schedule? (no) | the same |
| `week_plan` | does the device do what the page draws, and show it again? | bars of six hours, two edits, two saves, two refreshes, four charts; a device with and without a schedule; six times around the ends of the week, of a day and of a bar |
| `week_default` | does a page without a schedule show the default week? (not the second time) | the same |
| `receive` | is what shares a segment taken apart exactly? what does a cut do? | eight kinds of packets, three of them behind the CONNACK in every order, in every division into segments, one of which may end at any byte; a buffer of 150 bytes, ids modulo 3 |
| `device` | is the time set in the end? are readings usable? does an upgrade free its own? | a sensor of each family, four temperatures on both sides of zero, two disturbances, one change of the bus; two answers under way, two lost; one loss of Wi-Fi, one restart; two upgrades |
| `schedule_full` | does the search end for every schedule the decoder takes? (no) | a week of 260 half hours, before and after the 256th |

Bounds. `Budget` in `MqttClient` limits what the environment does: `drops` (the
access point goes away, or the address changes), `faults` (a failure in network or broker), `memory`
(`espconn_send` refuses for lack of memory), `late` (a second ends with a send
unacknowledged or an event unhandled) and `work` (a message from the program or
the broker). Two of a kind are enough for a second failure during the recovery
from the first, and two lost Wi-Fi connections for two stale DNS requests. Refused connections need
no budget: after one there is nothing to refuse until a failure or Wi-Fi brings the
client to connect again. The
program's own recovery is not limited: reconnections, retries and seconds are
unbounded. Time-outs are short since only their order matters. The theorems
hold for every budget and every bound.

In `week_plan` a bar is six hours, so that a day has four: enough for a change
within a day, at midnight, on a day between two enabled ones, and over the end of
the week; `SlotMinutes` is a parameter of every definition, and the theorems
of `WeekPlanProofs` are for every one that divides the day, the page's 30 among them. Two edits make a week
with a day of its own, or an empty one (add a chart, remove the full one). Two
saves are a message and one that replaces it, whole or cut; two refreshes show the
default before and after it was read. `Cuts` holds a length that base64 can
have and one that it cannot.

In `receive`, data of 121 and 122 bytes make remaining lengths of 127 and 128, on
the two sides of the change from one byte to two; two such packets in one segment fill the buffer, which is the `TooLong` of `mqtt.c` line 433.
In this build `MQTT_BUF_SIZE` is 2048, more than a TCP segment of the device, so
that `TooLong` is for other builds. Three packets are enough for one whose answer
and whose handler's message stand between those of others, and, with ids modulo 3,
for the counter to skip zero. One cut leaves a start and a rest; both meet whole
packets before and behind. Four or more packets and further cuts repeat these.

In `device`, two answers under way are one in time and one late; the theorems of
`DeviceProofs` need no bound on any of it. `-17` is just below minus one degree in
sixteenths, where fraction and sign meet; the burst of eight wrong bits is the
longest that CRC-8 finds for certain, the two bits apart are found as well. The run
is for those disturbances: others, CRC-8 does not find, and no program could.

`RingBuf`, `FrameQueue`, `MqttClient` and `Thermostat` state their types too; these
are no invariants of the runs, as they are proved for every instance.

### What the runs show

* `PacketIntact`: the packet handed to TCP is, to the byte, one that was
  published, although failed puts leave junk in front of frames, and although
  `PROTO_Init` leaves `isBegin` uninitialised. The reason is `FramesIntact`: junk
  never holds an end byte, so the parser meets a new begin byte first.
* `RefusedOnlyIfLongest`: retrying against a ring that one's own partial frame
  has just filled looks as if it could fail for a message that would fit. It
  cannot: after a failed put the ring is full, so the room at the next attempt
  is exactly what was evicted in between, and if that was a longer frame the
  message fits.
* `NeverStranded` and `NoStall`: the task queue has room for one event and posts
  are lost, but every handler sets the state before it posts, and the task reads
  the state when it runs. The one exception is a request that espconn refused: then
  `TCP_CONNECTING` has neither a link nor a look-up, and nothing but Wi-Fi (or the
  answer to an older look-up) moves the client on.
* `EventuallyServing`: whatever failed, and in whatever order, the client comes back,
  if not every one of its last requests was refused (`[]<>~refused`).
* `SendsTaken`: `mqtt_send_keepalive` does not look at `sendTimeout`. While
  acknowledgements are not late this never matters; after a late one it may drop
  a connection, from which `EventuallyServing` shows the client to recover.
* `HeatIsReported`: the heater never heats unreported. The converse fails: after
  `lastHeaterState` was cleared (by `StoreLength`, or by a restart while heating)
  switching off is not published, and the broker keeps a retained "true". No
  comment or document of the repository claims otherwise.
* `SettingsSurvive`: holds until a save is torn, since automatic mode is only left
  and never entered, and each save writes the present mode. It says nothing of the
  mode that is commanded: `handleMode` assigns that to a local variable, so that it is
  shown and otherwise ignored.
* `DanglingHeals`: in automatic mode the screen follows its pointer
  (`drawing.c` lines 214-220), which a new schedule leaves in freed memory. While the
  engine is automatic too, its next tick mends that. This is all that holds. Once the
  engine has gone back to manual, mode "a" makes the screen show automatic mode and the
  engine none; a schedule that comes before or after it is freed under a screen that then
  reads it until mode "m" or a restart. No comment of the repository speaks of this, so it
  is recorded here and under `hazards` instead of as a disagreement.

* `PlanFollowed`: merging equal neighbours over midnight, leaving out days
  without a chart, and starting the week with the last entry of the week before
  give, together, the bars that were drawn; a day without a chart continues the
  day before. A cut message is refused, by the decoder or by a restart. Charts
  without a day end the schedule, but only in memory: `os_zalloc(0)` is NULL to
  `handleAutoTemp`, nothing is saved, and a restart finds the old one.
* `SurvivesRefresh`: the page shows the same bars again, although it fills in days
  by another rule (in `getStatesByDay`) than the search on the device.
* `NeverInvents`: whichever way the two increments of `auto_temp.c` line 31 are
  ordered. With the right one first, the count is too large or the message too
  short for it, and no schedule is taken; with both after the reads, the count is
  zero. This is so for schedules of fewer than 256 entries, as all of the run are;
  beyond, such a compiler would take a part for the whole.

* `DeliversReached`, `AnswersReached`: the code looks for the id in the whole of
  `in_buffer` and moves on by a length from the header; both are right whatever the
  buffer held before. Answers are put into the queue before the handler's own
  messages, and ids of the two never mix. The outgoing queue is without bound here: an
  answer that a full queue gives up is not part of this, and `FrameQueue` has only the
  queue's side of it.
* `NeverMixes`: of a cut PUBLISH, data are delivered as far as they came. The topic
  is never one from old bytes, because `mqtt_get_publish_topic` compares with what
  arrived; but a topic that is cut is NULL, and `mqttDataCb` copies from NULL.
  Nothing holds for the rest of a cut packet: it is taken for a header, and if it
  looks like a PUBLISH is delivered as one (hence `whole`).
* `PassesShorten`: also then the loop ends, since a header is never of length zero.
* `ClockKept`: a late answer stops the timer although it waits to connect for a new
  address; that is harmless, as the same answer sets the time. `StillAsking` is
  the part that could go wrong: with Wi-Fi and no fresh time a timer must be armed.
  If `espconn_create` refused, the repeat timer asks through a connection that does not
  exist, until Wi-Fi gets another address; `ClockKept` and `TimeSet` name that exception.
* `ReadingsUsable`: a reading that no CRC error was reported for is the measured
  value, with the sign and rounded towards zero. Below zero this is so without
  calibration only: the code adds it before the sign, so that it works backwards
  there. A missing sensor reads as minus 0.06 (DS18B20) or minus 0.50 degrees, and
  is reported; `set_heater`, which compares without sign, then takes the room for
  very warm and does not heat. A shorted bus reads as zero degrees with a right CRC,
  unreported, and is heated.
* `UpdatesHeld`: no order of commands, refusals and failures leaks or frees twice.

### Disagreements with the code's own comments and checks

* `OldConnectionIsGone` (run `mqtt_stale`). The comments of `mqtt.c` say that
  all memory is freed (158) and the old connection cleaned up forcefully
  (862-864). When Wi-Fi is lost and found, or gets another address, during a look-up, the
  request made for the old espconn stays pending, and its answer is delivered to freed memory.
* `ConnectingHasBegun` (run `mqtt_refused`). `MQTT_Connect` is to "begin connect to MQTT
  broker" (line 854 of `mqtt.c`), and "TCP: connecting..." is what line 98 prints. The
  answers of `espconn_connect` (94, 898) and `espconn_gethostbyname` (903) are ignored: a
  refused request leaves `TCP_CONNECTING` with nothing begun, and `mqtt_timer` does
  nothing in this state.
* `ScheduleInBounds` (run `thermostat_torn`). The comment in `myFlashState.c`
  line 49 calls the length in the status sector a hack. The two sectors are
  written one after the other; a power failure in between leaves a length for a
  schedule that is not there.
* `SearchEnds` (run `schedule_full`). `autoTempDecode` refuses "too many states"
  above 7 * 48 = 336, and the 8-bit index of `findCurrentState` cannot pass 255.
  A page whose bars alternate over five and a half days makes such a week.
* `DefaultShown` (run `week_default`). "If there is no data, return default" says
  line 106 of `dataFunctions.js`, but `getStatesByDay` moves the points of the
  default to the start of their day, in place: a second load shows a week that
  changes on Monday instead of Wednesday.

### Fairness

`PushReturns` assumes that a handler which was called goes on, which is what
run-to-completion means. `EventuallyServing` assumes weak fairness of the task
and the timer (the SDK's scheduler runs both), of acknowledgements and answers
on an open link, of DNS answers while Wi-Fi is up (and failures while it is
down: the resolver gives up after its retries), of the access point coming back,
and of the broker dropping a client it does not hear from (the keep-alive rule of
MQTT). Failures are not fair; they are limited by the budget, without which no
such property could hold. That a refused request is in the end followed by another is
not assumed of the environment: it is the premise of the property, since nothing in the
code makes it so. The same is true of `TimeSet`. The control loop's properties assume that the
one-second timer keeps ticking, which is armed in `app_init` and never disarmed.
`TimeSet` assumes weak fairness of the clock's timer (both of what it calls), of
the access point coming back, and of an answer arriving that is under way; losses,
of Wi-Fi and of answers, are limited by bounds, and restarts as well.
`SearchEnds`, which `schedule_full` refutes, assumes weak fairness of the search loop
(`Loop`): it is a loop in one handler, and nothing pre-empts it.
`HeaterFollows` is about a demand that stays: `Cold ~> (heaterEnabled \/ ~Cold)`.
It excludes temperatures below zero, which the code compares as unsigned: in a
room below zero it does not heat.

## Proofs

`RingBufProofs`: the inductive invariant is `TypeOK /\ PointersAgree`. The
refinement to `ByteFifo` maps the FIFO's content to the slots from the read
pointer on; a put and a get map to those of the FIFO by the address arithmetic of
`Offset`.

`FrameQueueProofs`: `FramesIntact` and `StartsAtFrame` are inductive with
`TypeOK`. The lemmas say what appending a frame or a part of one, and cutting a
ring at its first end byte, do to the positions of the frames. `LoopInv` is needed
for `RefusedOnlyIfLongest`: it says that the ring is full whenever the loop is
about to evict, so that at the retry the room is what was evicted.
`QueueImplementsFifo` maps each pass of the loop to a step of `MessageFifo`. It
needs that `FrameIn`, of what a get reads, is the oldest accepted frame.
The last part takes `proto.c` in: `PacketsAreFramed` says that what `PROTO_AddRb`
makes of any packet has its markers at its ends only, and
`FramesGiveBackTheirPacket` follows the parser byte for byte over the junk of failed
puts and then a frame, from either value of `isBegin`. With the invariant, that is
`PacketIntact`, for every set of packets that fit the task's buffer. In the run that
bound is met by the packet `d` to the byte.


`MqttClientProofs`: `IInv` joins the properties with `Bookkeeping` (Wi-Fi up
means an espconn and a running timer; no espconn means no link and no request for
it; an unopened link carries nothing) and `SendTimed` (a running time-out means a
send under way). Each action is a lemma; each conjunct it can disturb a step.
`NeverStranded` has `refused` as the exception named above.
`NoStall` and `SendsTaken` follow from `SendTimed`, with the clauses about memory
and late seconds that say when the code is entitled to it. All of it holds for
every `Budget`, `DnsTable`, `QueueRoom` and time-out.

`ThermostatProofs`: `HeatIsReported` needs that the heater heats whenever it was
last published as heating (`HeatInv`), which clearing `lastHeaterState` and
restarts preserve. `SettingsSurvive` is inductive with the types; it is for behaviours up to the first torn
save, after which it is false.

`WeekPlanProofs` proves every invariant and action property of `WeekPlan` that a run
checks, for every width of the bars, all charts, any number of edits, saves and
refreshes, every time and every place of a cut.

* *The search.* `CurrentTimeIsMinuteOfWeek` says that the minute of the week put
  together from `ntp_get_day_of_week`, hour and minute is the one counted from the
  epoch. `SearchFindsCurrent` needs `Passed`: no entry the loop has passed is later
  than the present. It holds for every range of the index, since an index that wraps
  has passed even less; what an index too narrow breaks is the end of the search, not
  its answer.
* *Codecs.* A quantum of three bytes and its sextets are inverse; `CodecsInverse` puts
  quanta and padding together, for `base64.c` and `b64.js`. `HoldsSchedule` is a message
  with its count and words, `BeginsSchedule` what is decoded of a cut one: the decoder
  gives the whole schedule, none or, in the undefined orders of line 31, a beginning of it.
* *What charts tell.* `Tells` says of a schedule from charts that each of its entries is
  a bar, in order, and that its temperature is that of every enabled bar until the next
  entry (`getDataFromBars` leaves out nothing that matters). `InPlace` is the bar in force
  at another one, over disabled days and the end of the week. `SlotIs` relates a minute to
  its bar. With the entry that the search found (`FoundInForce`) these give `PlanFollowed`.
* *Back to the page.* `IndexUpTo` shows that one step of the index per bar is enough in
  `prepareDataForBars`, since no two entries begin with the same bar. `CarriedEnds`
  follows the temperature that a day hands to the next, through days without an entry, and
  `WholeDayShown` puts the bars of each day together; so what the page shows
  for a bar is what the engine follows there, and that is `SurvivesRefresh`.
* *The invariant.* `PlanInv` joins the search's part with those of page, message and
  device. The page has at most one chart per day (`GoodPage`), which every edit keeps and
  `getDataForESP` relies on. A message under way was made from its charts. Whatever order
  the compiler takes, a schedule on the device is a beginning of what some charts tell
  (`Begun`); that makes it sorted, and short enough for the words of the message. If it
  reads the count in order, schedules in memory and in flash are just those of `asked` and
  `kept` (`InStep`); if not, they are those the device had, as long as no week can have 256
  entries. TLC checked `PlanInv` before it was proved.

`PlanNeverInvents` is for a compiler that reads the count in order or, for any compiler,
for weeks of fewer than 256 bars. Without that it is false: with 256 entries or more, a
compiler that takes the increments in another order can read a count that is too small and
keep a part of the schedule. `PlanFollowed` and `SurvivesRefresh` speak of a compiler that
reads in order.

`MqttReceiveProofs` proves every property of `MqttReceive` that a run checks, for
every buffer, any number of packets and every division into segments, in four parts.

* *Packets.* `FiniIs` and `PublishLaid` say where the parts of a packet lie on both
  forms of the remaining length, `Shows` that a buffer begins with a packet or a part
  of one. `PublishFound` and `CutPublishFound` follow: what lies behind a packet does
  not matter, which is what makes it right to look for the id in the whole buffer. The
  total length is a sum over the bytes of the length; `TotalIs` evaluates it.
* *Ends.* `Typed` is inductive. It needs that every rest of a packet is `Tidy`: no two
  bytes of 128 and more follow each other, and the last is smaller. So whatever a cut
  leaves in front of the loop, a header has at most three bytes and a length a value;
  hence `TypeOK`, and `PassesShorten` for the loop.
* *Cuts.* `Unmixed` says that what is still to be read of a segment that started with a
  packet begins what packets that were sent encode to (`Opens`). A pass takes the first
  of these whole, or ends. Any number of cuts is allowed; `NeverMixes` follows.
* *Contents.* `Answers` relates queued messages to owed ones and counts the
  client's own; every way of queueing one is a lemma that extends it (`AnswersMore`).
  `Story` says that while a segment is read, delivered and queued are what the packets
  handled so far call for, and that acting on the rest (`Acts`) gives what `reached`
  promises. `Kept`, which is inductive, has it at every pass; at the end of a segment
  it is `DeliversReached` and `AnswersReached`.

`ReceiveAssumption` is what these are relative to: messages fit the buffer
(two bytes of remaining length are all `fini_message` makes, hence at most 16386 of
buffer), commands carry data, no topic that is subscribed to is longer than 122 bytes
(so that a SUBSCRIBE has one byte of length), and what is behind a header is below 128, which
is the restriction of the model that was named above.

`DeviceProofs`: `ClockKept` and, with its types, `UpdatesHeld` are inductive as
they stand; `TypeOK` needs the ranges of each part, and that a reading in 16-bit
arithmetic keeps its range. `ReadingIsNear` says that for every value in the sensors'
range, each family and every calibration of at most a hundred degrees (at or above
zero; none below), the reading is the measured value to the hundredth;
`NobodyReadsBelowZero` that the ones of an idle bus read as below zero.
`BurstsAreReported` is about CRC-8: `crc8` is followed bit by bit (`CrcTraceOf`)
on the scratchpad and on what is read of it; at the first wrong bit the two registers
come to differ in their top bit, each bit after it moves the lowest place known to hold
a difference down by one at most, and behind the burst a difference stays (`Differ`). With `WordOfScratchpad` (the sum over the bits is the register)
these are `ReadingsAlwaysUsable`, for bursts of at most eight bits. The run checks one
disturbance that is not such a burst, two bits twelve apart; for that, and others, TLC
is the evidence. `SearchFindsPresent`: each step of the search leaves candidates that
are on the bus (`SearchNarrows`), so that the last is one.

`FoldProofs` is why theorems about data are possible at all. The induction theorems of
the library take the property as an operator, which the provers cannot instantiate; here
it is a set, of the numbers that have the property, and what a fold does in a step is
a function. `FoldExists` gives the recursive function behind `FoldFunction`, and the
`Trace` lemmas what `FoldLeft` and `FoldRight` have reached after each element;
`FlattenedIs` is for `FlattenSeq`. The parser of `proto.c`, CRC-8, the search, the word
of a scratchpad, the bytes of a segment and the entries that are picked for a schedule or
a day are all reasoned about by these.

Assumptions are those of the modules (`ConstantsAssumption` and the like): a ring
of two slots or more, frames with markers at their ends only (which `PacketsAreFramed`
shows of what `PROTO_AddRb` makes), packets that fit the task's buffer. Those of
`WeekPlanProofs` are that bars divide the day, that pages draw to temperatures of 15 to 30
degrees (the scale of `script.js` line 199, which clamps), that a device's first schedule
was made from charts like any other (`PlanAssumption`), and for `SearchFindsCurrent` alone
that schedules are sequences of entries.

Only model-checked: the liveness properties and `PushReturns` (fairness and ENABLED are
beyond the prover). Every other property that a passing run checks is a
theorem, `ReadingsUsable` for bursts. The findings
are runs, which is what a counterexample needs.

## Not modelled

* Packets behind each other in one segment that the code drops are left out of
  what is promised; no document of the repository promises more.
* `mqtt_msg.c`: CONNECT, UNSUBSCRIBE, PINGREQ and DISCONNECT, which go out but
  have no answer the code looks into. `MQTT_DeleteClient` and
  `ntp_set_time_offset` have no caller. TLS connections (`security` is 0).
* The weather command and what else only changes the picture: `drawing.c` draws
  what it is given, and the models keep what is given where a pointer or a mode can
  go stale (`shownState`, `shownMode`).
* The text of a published temperature: between -0.99 and -0.01 degrees
  `mqttPublishCurrentTemp` prints no sign. Visible in one evaluation; no model
  keeps texts.
* `key.c`, `wifi.c`, `http_client.c` with its users, `web_server.c`, `user_json.c`,
  `one_wire.c`: compiled, but no handler of the running firmware reaches them; their
  calls in `app_init` are commented out or do not exist.
* The services: each request or message is one query of a database, without state
  kept between them.
* Bit-level drivers (busy-wait timing), the graphics library, the SDK with its
  examples and libraries, and the presentation in `web`. These are by far the
  largest part of the lines in the repository: more than nine tenths are vendored
  code that this program uses a few calls of, modelled as the environment.

What could follow: an abstract client (offline, connecting, serving) that
`MqttClient` implements; `MqttReceive` and `FrameQueue` composed, for an answer
given up because the queue is full.

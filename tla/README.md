# A formal model of iot-heater

This directory holds TLA+ specifications of the programs of this repository,
TLC configurations that model-check them, and proofs checked by TLAPS. It
covers the C++ program of the base station (`base_station/src`) and the sketch
of the heater controllers (`heater_firmware`). Line numbers below are those of
the files named; paths are relative to the repository's sources.

To check a configuration or a proof, with the TLA+ tools and TLAPS installed:

    tlc -workers 2 -config BaseStationPolicy.cfg BaseStationMC.tla
    tlapm BaseStationSafetyProofs.tla

`PROJECT.json` maps each definition to the lines it models and lists runs,
mutants, findings, hazards and theorems.

## 1. The system

A Raspberry Pi with a 3G module (the base station) receives commands by SMS.
Heater controllers (ESP8266) ask it once a minute, over WiFi and TCP, in which
state their heater should be, and drive the heater's control wire with two
pins. DEFROST is the state both programs choose when they do not know better.

| Component | State | Operations | Talks to |
|---|---|---|---|
| Commands and settings (`base_station.cpp` 858-1217) | default state, states by heater name, lock, whitelist, emergency phone, queue of commands | one per SMS command | queue filled by the SMS thread, replies to SMSSender, state file |
| State file (1603-1751) | `/var/lib/base_station.state` | `saveState`, `loadState` | the constructor loads it, most commands save it |
| Watchdogs (1401-1541) | error counters of the 3G module and of smsd | `check3G`, `checkSMSDaemon` | override the settings, send notices |
| Device server and connections (`device_server.cpp`; 477-708) | list of connections under a mutex, time each was last used | accept, poll, read, reply, removal of stale connections | its thread calls `handleNewDevice`; the main thread does the rest |
| Device registry (780-856, 1308-1399) | heaters by MAC, request counters | reboot detection, lost devices | fed by requests, SMS to the emergency phone |
| WiFi watchdog, boot message (1252-1306, 1543-1583) | error counter | `checkWifi`, `sendBootMsg` | SMS to the emergency phone |
| SMS receiver (`sms_receiver.cpp`) | inotify descriptor | parse a new SMS file | calls `handleSMSCommand` in its thread |
| SMS sender (`sms_sender.cpp`) | spool directory, files not yet deleted | `sendSMS`, `cleanupSMS` | smstools |
| Web page (`web_server.cpp`, 500-621) | none | `buildWebpage` | reads settings and registry in its thread |
| Firmware, commissioned (`commissioned.cpp`) | heater state, pins, LED, failure count, pending request | loop, WiFi and timer callbacks | TCP client of the base station |
| Firmware, uncommissioned, settings (`uncommissioned.cpp`, `settings.cpp`) | settings in flash | register, factory reset | restarts into the other mode |
| Start (`main.cpp`), logger, timers, installer, hardware | - | - | - |

The base station has four threads: the main thread runs `process()` in a loop
with a pause of 50 ms; the thread of the device server, of the SMS receiver and
of the web server run beside it. They share `m_connections` and `m_heaters`
(each under a mutex) and `m_commands` (under a mutex for the writer only).
Nothing in the base station ever waits for a heater except the blocking `read`
of a request. The firmware has one thread; callbacks run when it yields.

Hard behaviours, and the property that makes each component correct:

* **Settings.** A crash may come between any two steps of a command, its save
  and its acknowledgement. What the heaters are told must only change for a
  reason (a command, a fallback, a restart), and a command that was
  acknowledged must survive. (`PolicySpec`, `SavedWhenIdle`,
  `AcknowledgedIsSaved`)
* **Lock.** Several phones edit the whitelist, lock and unlock in any order. No
  stranger may command a locked base station, nobody may be locked out for
  good. (`LockedHasKeyholder`, `WhitelistFrozenWhileLocked`,
  `OnlyKeyholdersCommand`, `OnlyUnlockEndsLock`, `UnlockWaits`,
  `KeyholderCanUnlock`)
* **Watchdogs.** They race with commands and fire at one value of a counter.
  A fault that lasts must end in DEFROST, and what the user is told about it
  must be true. (`OutagesFallBack`, `ModemNoticeIsTrue`)
* **Connections.** Two threads, descriptors reused by the kernel, heaters that
  give up, vanish or come back. No descriptor is lost or confused, the main loop
  waits for nothing but the rest of a message, and a heater never acts on another
  heater's or an old answer. (`DescriptorsAccounted`, `ReadReturns`,
  `StatesAreCurrent`, `DescriptorsReturn`, `RequestsAnswered`)
* **From the command to the pins.** Commands, fallbacks and restarts change what
  a heater is to be told while its requests are under way, late or lost. What its
  pins carry must not be older than the requests that failed, and never older
  than the threshold. (`PinsFollowTarget`, `NoLongDisobedience`)
* **Firmware.** Requests fail in five ways while WiFi comes and goes. Failures
  must end in DEFROST, on the wire too. (`FailuresMeanDefrost`,
  `WireCarriesState`, `FailingRequestsFallBack`)
* **Settings in flash.** Power may fail while they are erased and written, and
  two functions check them. The controller must not run on a half of them, nor
  erase what it accepted. (`RunsOnWholeSettings`, `StartKeepsSettings`)
* **Registry.** Requests are lost, both sides restart, the clock jumps, the web
  page is built at any moment. Reboots must be noticed and none invented, a
  silent controller must be reported once and leave the table, the page must not
  show a row that is being written. (`RebootNoticed`, `RebootNoticeIsTrue`,
  `LostIsSilent`, `LostReportedOnce`, `ListedAreFresh`, `PageShowsAnswers`)
* **WiFi watchdog.** It fires at one value of a counter, and an outage must be
  announced, once. (`WifiLossToldOnce`, `WifiLossIsTold`)
* **SMS in.** Files are parsed while they are written, events come together, the
  process restarts. No command may be executed out of order or again, and a
  file that was half written must be read again. (`DeliverySpec`,
  `FirstStaysFirst`, `FirstIsUnderstood`, `AnswersAreOwed`; not all are parsed at all:
  `AllTextMessagesParsed`)
* **SMS out.** File names repeat with the process numbers, and old files are
  cleaned up. No SMS may replace another, nor leave the directory unsent while it
  is young. (`NoSmsReplaced`, `YoungSmsStay`)

## 2. Modules

    HeaterStates          states, and which one a heater is told
      HeatingPolicy       abstract: what the base station promises of the heating
      BaseStation         commands, lock, watchdogs, state file   (implements HeatingPolicy)
        BaseStationMC, and proofs: BaseStationProofs,
        BaseStationSafetyProofs, BaseStationPolicyProofs
      HeaterConnections   accept thread, main thread, clients
        HeaterConnectionsMC, and proofs: HeaterConnectionsProofs
      HeaterFirmware      one heater controller, registration and flash
        and proofs: HeaterFirmwareProofs
      HeatingSystem       policy, connections and one controller together
        HeatingSystemMC, and proofs: HeatingSystemProofs
    DeviceRegistry        controllers' counters, table, web page, clock
      BaseStationNotices  the registry with the WiFi watchdog and the boot message
        and proofs: BaseStationNoticesProofs
    SmsDelivery           abstract: what becomes of the SMS that arrive
    SmsReceiver           inotify thread, daemon's files      (implements SmsDelivery)
    SmsSender             the outgoing directory
      SmsGateway          both, with the main thread between them
        and proofs: SmsGatewayProofs

HeatingSystem composes HeatingPolicy, HeaterConnections and HeaterFirmware; since
BaseStation implements HeatingPolicy, it stands there for the whole of
BaseStation. The other families meet in what each leaves open. `ReceiveSMS` in
BaseStation puts any SMS into the queue at any time: SmsReceiver says which SMS
get there. The `sms` of BaseStation and the `notice` of BaseStationNotices are
handed to `sendSMS`: SmsSender says what becomes of them. `TakeRequest` in
DeviceRegistry is a request that HeaterConnections has read. So every module
allows its neighbours more than they do, and its properties hold whatever they do.

### HeaterStates, HeatingPolicy

`StateOf` is the rule of `parseMessage` (807-812): the heater's own setting if it
has one, else the default. `HeatingPolicy` knows only whether the base station
is `up`, `target`, what each heater is told, and `saved`, what it would be told
after a restart. While it is up, a target changes for one heater or for all;
saving copies `target` to `saved`, losing the file makes `saved` DEFROST. When
it stops, `target` becomes `saved`, and a restart may change nothing of either.

### BaseStation

Variables carry the names of the C++ members. The main thread's place is `pc`:
a command that saves goes from `"idle"` to `"open"` (truncate the file), `"write"`
(write and close it), for heater commands `"reply"`, and back; `Crash` and
`DEBUG REBOOT` are possible in between, and `Start` runs the constructor.
`ReceiveSMS` is the SMS thread. Each command is an action that contains all it
does, the error replies included; `QUERY` stands for all commands that only
reply. `Refused` is the test at the head of the loop (868). A message is a
record, not a text: how the text is split into words is left out, but a missing
or malformed operand is a value of its own (`NoPhone`, `InvalidNumber`,
`InvalidName`).

`parseCommands` empties its queue before other handlers run; the model lets
`Check3G` and `CheckSMSDaemon` run between any two commands. The model therefore
has more orders than the program, which is safe for safety properties.
`fallbacks` is a history variable. Counters stop one past their threshold, since
the code only compares them with it. `sms` is what the last step handed to the
SMS sender.

### HeaterConnections

A socket is a record: whose it is, how much of the request has arrived, what was
replied, and the peer: `"open"`, `"closed"` (FIN), `"gone"` (silent for ever) or
`"reset"`. Sockets wait in `backlog`, are accepted into any descriptor that is
free at that moment, wait in `accepted` for the mutex, and enter
`m_connections`. `PollConnections` to `FinishConnections` is `handleConnections`:
it holds the mutex, and in `reading` the thread may be `Blocked` in `read`.
A descriptor is closed (`Close`) before its entry is erased (`EraseConnection`,
`CloseStale`): in between, `closing` is that entry, and `accept`, which takes no
mutex, may be handed the number again. `checkStaleConnections` takes the mutex
(`LockStale`), closes and erases the connections that are too old one after the
other, and gives it back (`FinishStale`). It and `SetTarget` (commands for one
heater or for all, and fallbacks, which in BaseStation change what heaters are
told) are steps of the main thread and need it to be elsewhere. A peer that has
closed its end does not turn into one that has reset it, since `read` goes on
returning the end of the stream; one that resets without a FIN is `"gone"` first. `Restart` may give the heaters any
targets: they are what the state file holds. The heaters' side keeps only what
HeaterFirmware does to a connection; a controller that gives up, or loses power,
may have a connection to end (`Leave`), or none that was ever established. `asked` is a history variable: every value the target had since the
request was sent.

### HeaterFirmware

`pc` is the place in `loop_commissioned`, or `"off"`, or `"unregistered"` for the
uncommissioned mode. Callbacks may run between any two steps. The `sprintf` at
`commissioned.cpp` 438 has no buffer; what follows is undefined, so
`ConnectFails` either goes on or resets the controller. Three attempts to connect
are one step. Power may be cut at any point. A factory reset by button is in two
steps: the settings are erased, and the restart comes when the LED has flashed
(`"resetting"`), while callbacks still run or the power fails. `/unregister` and the
button in the uncommissioned mode restart at once.

In the uncommissioned mode `Register` is the handler of `/register` with its
checks, `Join` and `JoinFails` what the loop does with the result, and `Program`
the write of one field of `struct settings_t` after the erase. It is assumed
that an erase is all or nothing and that a commit programs the fields in the
order of their addresses; the first magic number is then the first field and
the second the last, and `is_valid` is translated from the comparison of both.
Parameters are classes: good ones, and those one of the checks rejects.

### HeatingSystem

Each action conjoins the actions of the parts that take part in a step and
leaves the others alone. A command (`CommandAll`, `CommandOne`) is `SetTarget` of the
connections and `SetAll` or `SetOne` of the policy; `StopStation` is the end of the
process for both, and until `StartStation` no connection can be opened. `watched` is
the heater whose controller runs HeaterFirmware, whose `heater_state` is the one a
reply sets in HeaterConnections; of the others only their connections are kept
(`Neighbour`). `OpenConnection` and `NextAttempt` are the attempts of
`client.connect`, which may fail although the base station has accepted one;
`WriteRequest` hands the request to the network, `RequestArrives` is its arrival;
`AcceptReply` is the reply, `RequestFails` and `CheckFailures` include
`client.stop`, so that the next request has a connection of its own.

`since` is a history variable: for each state, how many requests the controller has
begun since it was last to be told that state. It stops one past the threshold.
HeatingSystem brings no state of the program of its own; that the base
station may be stalled or down for ever is among its behaviours.

### DeviceRegistry, BaseStationNotices

A controller's request carries `Counter(d)`, a random number times 2^32 plus the
requests since its start (`setup_commissioned`). `TakeRequest` is `parseMessage`
up to the lock of `m_heaters_mutex`, `FinishRequest` the rest, so that the web
thread (`BeginPage`, `EndPage`) can come in between if the mutex lets it. The row a
map creates at first says DEFROST and 1970. `Difference` is `llabs` of an unsigned
64-bit difference, with the modulus as a constant. `RequestLost` is a request that
uses up a number without reaching the base station. Requests are taken in the
order of their numbers: a controller sends the next a minute later, on a new
connection, after it has closed the old one.

The table holds wall-clock times; the model holds ages, since the code only
subtracts, and beside each the time that really passed (`silent`) and whether the
clock was set (`clockSet`). `Tick` waits for the timer of `checkLostDevices` when it
is due, because the main loop comes round every 50 ms. `BaseStationNotices` adds
`checkWifi`, `sendBootMsg`, the emergency phone and the end of the process.
`wifi = "gone"` is an interface `is_interface_up` cannot read: nothing is counted.

### SmsDelivery, SmsReceiver, SmsSender, SmsGateway

The SMS daemon is an external process: it writes each incoming file in up to
`Writes` writes, one file after the other, and takes files out of the outgoing
directory at any time. `events` is the inotify queue; the kernel merges an event
into an equal last one. `ReadEvents` takes as many as the buffer holds and keeps the
first, as the code does; `ParseSMS` delivers what is in the file at that moment,
the whole text or not (`DeliverSms`), or nothing if the file does not open or its
first line, with the sender, is not there (`RejectSms`): the event is used up all the
same, and `rejected` records the finished files this happens to.
`SmsDelivery` is the promise: SMS are given to the callback in the order of arrival,
none before it arrived, each at most once per write, across restarts. It is
not promised that each is.

In `SmsSender` a file is a process number and a counter, as in the file's name.
The first use of the singleton empties the directory (`Instantiate`), which is why
a process that has the number of an earlier one does not replace its SMS, unless the
directory did not open or a file could not be removed: `kept` is what stays.
`CleanupSMS` deletes those of the tracked files that are old, as far as `remove`
succeeds, and forgets them all, as in the code. `SmsGateway` puts the main thread
between the two: `ParseCommand` takes a command and ignores or answers it, `SendNotice` stands for
the handlers that send on their own, `SendSms` for `SMSSender::instance().sendSMS()`.
A command is answered with one SMS, `DEBUG LOG` with up to `MaxReplies`: one for each
512 bytes of the log, of which it reads until it has 1024, line by line through a
buffer of 1024, so that there are four at most.
`parseCommands` returns at a refused SMS and leaves the rest of the queue to the next
round of the loop; here each command is a step of its own.

## 3. Runs

| Run | Configuration | What it shows |
|---|---|---|
| policy | BaseStationPolicy | two heaters, all heater commands, crashes, a storage that may fail: types; every step is a step of the policy; an absent 3G module or dead smsd ends in DEFROST; the 3G notice is true |
| access | BaseStationAccess | two phones, all commands on whitelist, lock, emergency phone: nobody locked out, no stranger commands, whitelist frozen while locked, a lock ends only with UNLOCK and PIN by a keyholder or with the process, a keyholder's UNLOCK stays in the queue and takes effect behind strangers' SMS; the file is current between commands, and what was acknowledged is saved |
| firmware | HeaterFirmware | with the real threshold, 15: failures mean DEFROST, the wire carries the state, failing requests end in success or DEFROST; the controller only runs on whole and checked settings, which no start erases |
| connections | HeaterConnections | one heater on two descriptors: types, descriptors accounted for, the first `read` after `poll` returns; descriptors come back, requests are answered, unless the loop is stalled in `read` for good |
| sms | SmsGateway | SMS in and out across crashes and reused process numbers: the receiver implements SmsDelivery, a file keeps its turn until its whole text was delivered or it is given up as unreadable, one parsed too early is parsed again, no SMS gets more replies than its command has, none replaces another that the constructor did not fail to remove, none leaves the directory unsent while it is young |
| registry | BaseStationNotices | reboots noticed and true, silent controllers reported once and erased, the page never shows a row being written, the loss of WiFi is announced, once |
| system | HeatingSystem | policy, connections and a controller beside a second heater: no heater takes another's reply or an old one; the pins lag behind what the heater is to be told by no more than the requests that failed, and by no more than the threshold |
| unlock_refused | UnlockRefused | violation: `UNLOCK` of a phone that is not whitelisted is dropped |
| emergency_phone_back | EmergencyPhoneBack | violation: a removed emergency phone is still in the file |
| daemon_notice | DaemonNotice | violation: the SMS says heaters were set to DEFROST though none was |
| lost_wifi | HeaterLostWifi | violation: a heater without WiFi never goes to DEFROST |
| sms_lost | SmsLost | violation: SMS whose events are read together are not all parsed |

**Bounds.** `MaxCommands` (SMS waiting in the queue) is 1, or 2 where the order of
queued SMS matters; the queue is emptied in order and any SMS can follow any
other, so that a longer queue only delays. The thresholds of the watchdogs are 1
or 2 where they are 6 in the code: one error below the threshold, the one at it
and one beyond all occur; `daemon_notice` uses 6, and `firmware` its 15.
`ModemStates` leaves out states of the 3G module in the runs about access, where
they play no part. Two heater names are one that has a setting and one that has
not, and `ALL` after either; the commands tell `ALL` and one heater different
states, neither of them DEFROST, so that a setting that is lost shows. Two phones are a keyholder and a stranger, and both
may change roles. `MaxBacklog` is 1 and there are two descriptors: one
connection being accepted while another is read or closed, and a descriptor
reused at once. `MaxIdle` is 0 minutes for the 10 of the code: only "stale" and
"not stale" matter. `connections` checks liveness beside safety and
therefore has one heater, no symmetry and no state but DEFROST: a heater's
progress depends on another's only through the main loop and the descriptors,
which one heater that gives up and comes back can already occupy, both. What a
second heater adds, that a reply might reach the wrong one, is `StatesAreCurrent`,
which `system` checks with two heaters on one descriptor and two states.

In `system` there are two heaters, one descriptor, two states and a threshold of
1: a request may fail without consequence, fail once more and end in DEFROST,
and a connection of one heater delays the other's. Four constraints keep it
small, each leaving to another run what it cuts: the neighbour is in DEFROST, and
sends its requests in one piece and waits for the reply (`connections` has all a
heater may do to a connection, and so has `watched`); the settings are good, not
cut short, and written or reset by button while nobody is connected; and the timer
and the WiFi's return come between two requests (`firmware` has the others). Since DEFROST is excepted from
`StatesAreCurrent` and `PinsFollowTarget`, the run sees a reply that goes to the wrong
heater only if it goes to the neighbour; the proofs, which need no bound and no
constraint, cover both directions.

In `sms` there are two SMS of up to two writes each, of which the first is DEBUG LOG
with up to two replies, two events per read, one process number, which is therefore
used by every process again, two SMS sent per process, and ages of 1 (too old) and 2
(a period): an SMS is half written when it is parsed, a second one comes into the
same read, a new process meets the files of an old one of its number and fails to
remove some of them, a clean-up meets old and young files. With more numbers files
meet less; the proofs have any number.
`sms_lost` has the 8 events of 32 bytes that the code's buffer holds, and three SMS.
In `registry` there is one controller: rows and counters of different ones never
meet, except in the SMS that names all lost ones, and the proofs cover any
number. The random number is 0 or 1, the span 4 for 2^32, the modulus 32 for
2^64, the threshold of a reboot 1 for 100, at most 2 requests are sent between two
starts, and the assumption `BootAssumption` holds as it does with the real
values. Time thresholds are 2 and 1 for 24 and 1 hours, the clock jumps by one.

**Deadlock** is checked in every run.

**Fairness.** `MainThread` in BaseStation is weakly fair: the thread is scheduled.
`Check3G` and `CheckSMSDaemon` are strongly fair, because every command disables
them for a moment; that they are reached again rests on SMS arriving more slowly
than they are executed, since `parseCommands` loops until its queue is empty.
Nothing is assumed of `Start`, so the liveness properties allow the process to
have ended. In the firmware, `Loop` is weakly fair, `RequestTimer` too (a Ticker
of one minute). In HeaterConnections the main thread is weakly fair; `Accept`,
`HandleNewDevice` and `checkStaleConnections` are strongly fair, because the
mutex is free for the 50 ms of every round; `Minute` is strongly fair, since
time passes. In `sms` the thread of the receiver is weakly fair: it waits for
nothing but events. In `registry` `Finish` is weakly fair, being the rest of a
handler, and `CheckWifi` strongly, since a request only delays the round that
comes to it. Nothing is assumed of heaters, of WiFi, of the SMS daemon or of power.

**What the liveness properties concede.** `Stalled` is that the main loop stays in
`read` for ever, because a heater sent a part of its message and vanished.
Without this exception `DescriptorsReturn` and `RequestsAnswered`
are violated: a heater losing power at the wrong moment stops commands,
watchdogs and all other heaters until its connection is reset, which nothing
guarantees. The heaters then fall back by themselves (`FailingRequestsFallBack`).
For a heater whose WiFi is down `lost_wifi` shows that not even that happens.
The first half of `OutagesFallBack` starts from a counter below the threshold, for the reason
given under Observations.

## 4. Proofs

For all values of the constants that satisfy the named assumptions (a phone
number is not a missing operand, an invalid name is not a name, thresholds are
positive, commands have the shape listed in `CommandsAssumption`, counters of
different starts are further apart than the requests of one and the reboot
threshold, and stay below half of the modulus):

| Theorem | Module |
|---|---|
| `Spec => []TypeOK`, or `SystemSpec => []SystemTypeOK` | BaseStationProofs, HeaterFirmwareProofs, HeaterConnectionsProofs, HeatingSystemProofs, BaseStationNoticesProofs, SmsGatewayProofs |
| `Spec => []LockedHasKeyholder`, `Spec => []SavedWhenIdle`, and the action properties `WhitelistFrozenWhileLocked`, `OnlyKeyholdersCommand`, `OnlyUnlockEndsLock`, `AcknowledgedIsSaved`, `ModemNoticeIsTrue`, `UnlockWaits` | BaseStationSafetyProofs |
| `Spec => PolicySpec` (BaseStation implements HeatingPolicy) | BaseStationPolicyProofs |
| `Spec => []FailuresMeanDefrost`, `Spec => []WireCarriesState`, `Spec => []RunsOnWholeSettings`, `Spec => StartKeepsSettings` | HeaterFirmwareProofs |
| `Spec => []DescriptorsAccounted`, `Spec => []ReadReturns`, `Spec => StatesAreCurrent` | HeaterConnectionsProofs |
| `SystemSpec => Spec /\ F!Spec /\ P!Spec` (the system keeps its parts), `SystemSpec => []PinsFollowTarget`, `SystemSpec => []NoLongDisobedience` | HeatingSystemProofs |
| `Spec => []PageShowsAnswers`, `Spec => []ListedAreFresh`, and the action properties `RebootNoticed`, `RebootNoticeIsTrue`, `LostIsSilent`, `LostReportedOnce`, `WifiLossToldOnce` | BaseStationNoticesProofs |
| `Spec => []NoSmsReplaced`, `Spec => YoungSmsStay`, `Spec => []AnswersAreOwed`, `Spec => FirstStaysFirst`, `Spec => DeliverySpec` (the receiver implements SmsDelivery) | SmsGatewayProofs |

How they go:

* *Lock.* `LockedHasKeyholder` is not inductive. `LockInv` adds that a process
  that does not run is not locked: only then does `Start`, which replaces the
  whitelist by the file's, preserve it. A lock begins with a LOCK of a phone on
  the whitelist, and the whitelist cannot change while it lasts. So every
  command that is not refused while locked comes from a phone on a non-empty
  whitelist, which gives `OnlyKeyholdersCommand` and `OnlyUnlockEndsLock`.
* *Unlock.* `UnlockWaits` needs `LockInv` only: a step takes at most the first SMS
  from the queue, and a keyholder's UNLOCK is not refused when its turn comes,
  since the whitelist cannot lose its phone while locked, but ends the lock. It is
  the safe half of `KeyholderCanUnlock`.
* *State file.* `SavedInv` extends `SavedWhenIdle` to the places where the main
  thread is inside a save: at `"reply"` the file equals the memory, at `"open"` and
  `"write"` nothing is claimed because `Memory` is about to be written, and at
  `"down"` nothing either. The two exceptions (a fallback and a removed emergency
  phone are not saved) must be carried along: a second fallback keeps the first
  exception, and a command that saves ends both.
* *Notice.* `NoticeInv`: a counter at or above its threshold means the fallback is
  in `fallbacks`.
* *Refinement.* Each action is mapped to `SetAll`, `SetOne`, `Save`, `Lose`,
  `Stop`, `Restart` or a stutter; when the process does not run, `target` is
  defined by the file, so that `Start` must read back exactly what was saved. Type correctness is the only invariant
  needed; a fallback is `SetAll("DEFROST")`.
* *Firmware.* `FailureInv` strengthens `FailuresMeanDefrost` to all places of the
  loop: at `"check"` one failure more may have been counted than was acted upon,
  so the count may equal the threshold there without DEFROST, but cannot be
  beyond it.
* *Connections.* `DescriptorsInv` adds to `DescriptorsAccounted` that sockets in the
  backlog and in use are not `Closed`, and that `ready` and `reading` are empty when
  the mutex is free: the removal of stale connections, which also takes the
  mutex, cannot close what `poll` returned. While `closing` names an entry whose
  descriptor is closed but which is still in the list, that number may be accepted
  again: the exception in `DescriptorsAccounted` is for this entry only, and it is
  erased before the mutex is given back, so that none ever enters the list twice.
  A further invariant, `ReadOnce`,
  says that no descriptor is read twice in a round.
* *Current states.* `StatesAreCurrent` follows from `CurrentInv`: a heater has at
  most one open connection; while its request is unanswered its present target
  is in `asked`; and a reply on its connection is in `asked`. The first part is why
  a reply cannot belong to an earlier request of the same heater.
* *Read.* `ReadReturns` holds because nothing but the main thread takes away data
  or closes a descriptor of `ready`, and `ReadOnce` keeps the main thread from doing
  so before its turn; a peer that closes or resets leaves the descriptor readable.
* *System.* `ConnectionsStep`, `ControllerStep` and `PolicyStep` show that every step of
  the whole is one of each part or leaves it alone; for the controller this needs
  that no neighbour and no step of the base station changes its state. So the
  invariants proved of the parts hold, through an instance of HeaterFirmwareProofs
  too. `LagInv` is what only the whole has: a heater waits for a reply only while its
  program does, so that everything in `asked` was its target since its request
  began, and a reply, which is in `asked` by `CurrentInv`, has `since` 0. The state it
  keeps is older by one for each failure counted since, and by one for the request
  under way. `FailureInv` of the firmware turns the count into the threshold.

* *Settings in flash.* `SettingsInv`: what is programmed so far is what was
  registered, and only parameters `/register` accepted are ever programmed. A
  valid image has all fields, so its parameters are good, and `settings_check`
  does not erase them.
* *Registry.* `CounterInv`: the counter the base station remembers is of the start
  it last heard of; if there was no start since, it lies below the next counter
  by exactly the requests lost. `RangeLemma` and `FarLemma` show that counters of
  different starts are more than the threshold apart and that the signed reading
  of the unsigned difference is their distance: that is all `RebootNoticed` and
  `RebootNoticeIsTrue` need. `RowInv` ties the age the clock shows to the time that
  passed and the time until the next check; `PageInv` says that a row differs
  from the answer only while the main thread holds the mutex; `WifiInv` relates the
  counter to what was announced.
* *Receiver.* The daemon writes files in order, hence the queue of events is
  strictly increasing (`QueueInv`), the file being parsed is not later than any
  in it, and none that was delivered is later than one still to come
  (`PastInv`). `FirstStaysFirst` follows from the first two and the daemon's order:
  later writes only add to the end of the queue, and while a file is half written
  no later one has been begun, so that its next event is the next there is. `WritesInv` bounds deliveries together with the events still queued by
  the writes. The refinement follows: a write is an arrival or a stutter, a parsed
  file a delivery.
* *Replies.* `RepliesInv` counts, for each SMS, the replies sent and those still to
  come, its places in the queue counting for as many as its command may have: together
  not more than its deliveries times that number. `PlaceInv` says that replies are left
  exactly while the main thread is sending. A bijection between the places in a queue
  and in its tail gives the lemma on `Tail`.
* *Sender.* `SenderInv`: in a process that has used the sender, each file is one the
  constructor failed to remove (`kept`), or has its number and a smaller counter, so
  that a new name is free but for the first kind; a tracked file is younger than a
  period by the time until the next clean-up. `YoungSmsStay` follows step by step:
  the constructor, which deletes young files too, only runs before the first SMS.

Every invariant and action property of the passing runs is proved, and the two
refinements. `WhitelistFrozenWhileLocked`, `LostReportedOnce` and `SystemTypeOK` are
proved without a run of their own: `LockedHasKeyholder`, `ListedAreFresh` and the type
invariants of the parts break with the same faults. Only model-checked: the liveness
properties, since fairness is beyond the prover, and that the violations occur. Safe
halves of two of them are proved: `UnlockWaits` of `KeyholderCanUnlock`,
`FirstStaysFirst` of `FirstIsUnderstood`.

## 5. Findings and observations

The five findings (runs that end in a violation) are in `PROJECT.json` with the
lines of the code and of the text that disagrees. Seen while modelling, without
a run of its own:

* `check3G` does not reset its counter while the module is present but not
  registered. Errors of separate outages add up, and after a fallback a second
  outage does not fall back again before the module has been registered.
* The notice after a 3G outage is sent to `m_emergency_phone` without a test that
  it is set (1465); the notices of smsd and WiFi are tested.
* A fallback is not saved: after a crash the heaters return to what they were
  told before the outage, although the outage may last. `SavedWhenIdle` and the
  policy state this as it is.
* `m_locked` is not saved: a restart unlocks. `OnlyUnlockEndsLock` names it.
* An SMS that arrives while the base station does not run, or before the watch is
  set up, is never parsed: the receiver does not look at what is in the directory.
  A file that is parsed while smsd writes it gives a command of half its text.
* `cleanupSMS` clears its list of files although it kept the young ones
  (`sms_sender.cpp` 136): those, and old ones it failed to remove, are not deleted
  before the next start.
* An SMS file that cannot be opened when its last event is parsed, for want of a
  descriptor for instance (`sms_receiver.cpp` 110-115), is logged and never read again.
* `sendSMS` writes to a temporary file and renames it; a rename to another file
  system fails, and the SMS with it. Without a 3G module `sendSMS` discards the
  SMS: notices of that time are lost, the one on the module itself included.
* The warning on a rebooted controller (802), like the 3G notice, is sent to
  `m_emergency_phone` without a test that it is set.
* The SMS on lost devices holds a literal `%d` (1371).
* `checkWifi` announces a recovery after any single error, also when no loss was
  announced, and counts nothing while `wlan0` does not exist.
* Devices are judged lost by the wall clock: if NTP sets it forward by a day, all
  are reported and erased; each returns with its next request. `LostIsSilent`
  and `ListedAreFresh` except rows during which the clock was set.
* `/register` without the parameter of the base station uses a null pointer
  (modelled as a reset of the chip).
* After 15 failures each later pass of `loop_commissioned` sets the LED to "not
  connected to the base station" (569), also when `wifi_disconnected` has set it
  to "not connected to WiFi" meanwhile, for which `heater_firmware/README.md` 52
  gives another rhythm.
* `setup_uncommissioned` makes both pins inputs and drives neither (67), although
  the comment above it (61-66) says that DEFROST is forced. What an undriven pin
  means to the heater depends on the circuit.
* The logger starts at file 0 after each restart, so that files with higher
  numbers of earlier processes escape its limit on their number.
* `m_commands` is read without its mutex (860), and the web page reads settings
  without any: data races, which the models treat as atomic.

## 6. Not modelled

* Web pages of the firmware and of the base station, as text: no property is
  about their wording. What the handlers change, and the lock under which rows
  are read, is modelled.
* Logger, timers, version, command line, installer, hardware: no state the
  properties depend on, or no program. A timer that has expired is a handler
  that may run.
* LED and DNS of the uncommissioned mode; mDNS; the text format of SMS and of the
  state file; the byte layout of requests. A request that is not valid leads to
  `ReplyFails` in the firmware. The state file is read back as it was written:
  `loadState` accepts every line `saveState` writes.
* The SMS side of the system in one specification with the heating: from a user's SMS
  to the command, SmsGateway and BaseStation say what is promised, which is not
  that each SMS is executed (`sms_lost`), so that a liveness property over both
  would be refuted there.
* Data races on `m_commands` and on the settings the page reads: their outcomes are
  those of the standard library's containers, not of this code.

## 7. Plan

Done, in this order: settings, lock, watchdogs and state file; the firmware; the
connections between the two; SMS in and out; the registry with the WiFi watchdog
and the boot message; the settings in flash; proofs of every safety property the
passing runs check; policy, connections and controller as one system, from the
command to the pins, with its proofs.

Left, should the code or the tools change:

1. Liveness proofs, which need a prover with fairness; in the meantime larger
   instances of `connections`, with two heaters, and a liveness property of
   HeatingSystem, from a command to the pins, on an instance without the
   constraints of `system`.
2. If the blocking `read` gets a timeout, the exception `Stalled` goes.
3. If the receiver walks all events of a read, `AllTextMessagesParsed` moves from
   `sms_lost` to `sms`.

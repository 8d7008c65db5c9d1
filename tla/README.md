# Fleet management: verification project

TLA+ models of the fleet server (`src/fleet_server`) and of the ESP32 boards it
manages (`src/esphome`), the TLC configurations that check them on small
instances, and proofs for TLAPS.

- [Inventory](#inventory)
- [Modules](#modules)
- [Runs](#runs)
- [Bounds](#bounds)
- [Fairness](#fairness)
- [Proofs](#proofs)
- [Disagreements between the code and what is written about it](#disagreements-between-the-code-and-what-is-written-about-it)
- [What is left out](#what-is-left-out)
- [Plan](#plan)

To repeat the checks, in this directory:

    tlc -workers 2 -config ota_faults.cfg OtaPipeline
    tlapm OtaPipelineProofs.tla

The module of every run is listed in `PROJECT.json`.

## Inventory

One FastAPI process (`main.py`) runs three things on a single event loop: HTTP
requests, an MQTT listener, and an APScheduler with two periodic jobs. They
share a Postgres database, and an MQTT broker connects them to the boards. Every
`await` of a database statement or a publish is a point where another task, or a
commit of another transaction, comes in between.

| component | state | operations | interacts with |
|---|---|---|---|
| rollouts (`services/ota.py`, `api/ota.py`) | `ota_events` | `start_rollout`, `abort_rollout`, read-only queries | reads devices and firmware, publishes commands |
| listener and handlers (`mqtt/client.py`, `mqtt/handlers.py`) | one MQTT session, one message at a time | `handle_heartbeat`, `handle_registration`, `handle_ota_status` | writes `devices` and `ota_events` |
| board, OTA (`esphome/components/mqtt_ota/mqtt_ota.h`) | running image, boot slot, OTA call stack | `handle_ota_command_` with nested MQTT pumping, reboot | receives commands, publishes status reports |
| board, base (`esphome/common/base.yaml`) | uptime | registration on boot, heartbeat every 30 s | publishes |
| scheduled rollouts (`api/scheduled_rollouts.py`, `tasks/scheduler.py`) | `scheduled_rollouts`, row locks, marks not yet written | create, cancel, `fire_due_scheduled_rollouts` every minute | calls `start_rollout`, `AuditService.log` |
| dead-device sweep (`tasks/scheduler.py`, `services/alerting.py`) | `devices.status`, `last_seen`, the trigger | `check_dead_devices` every 30 s, alerts | races with the handlers; runs on when the listener is gone |
| device registry (`api/devices.py`, `homes.py`, `communities.py`, `device_groups.py`, `repositories/`) | devices, homes, communities, groups | create, change, delete, assign | registrations and heartbeats write the same tables |
| firmware store (`services/firmware.py`) | `firmware_versions`, files on disk | upload, list, checksum | rollouts and boards refer to it |
| provisioning (`services/provisioning.py`) | `provision_jobs`, image files | background compile | creates devices; the installer downloads the image |
| users (`api/auth.py`, `services/auth.py`) | `users`, tokens | log in, create, change role, disable, reset and change passwords | every other request asks it who may do what |
| broadcasts (`services/broadcast.py`, `services/fcm.py`) | broadcasts, acknowledgements | send, schedule, acknowledge | push service; communities and homes they refer to |
| provisioning portal (`esphome/components/provision_portal`) | settings and credentials in flash, access point | the form, the deferred reboot, factory reset | what it stores is what the board registers with |
| captive-portal DNS server (same directory) | one packet buffer, a socket | parse a query, answer it | runs inside the portal's loop |

What is hard, and what would make each part correct:

- **OTA.** An event is read and written back by id in one transaction, with
  awaits in between and an abort allowed there. A board inside an OTA pumps its
  MQTT client, so commands nest. Reports are QoS 0. Two mechanisms settle an
  event, the report and the first low-uptime heartbeat, and they can disagree.
  Correct means: settled events stay settled, everything that happens on a board
  is accounted for in the table, `firmware_version` rests on evidence, and every
  event is settled in the end.
- **Scheduled rollouts.** `SELECT ... FOR UPDATE SKIP LOCKED` takes the locks for a
  batch, and the first `start_rollout` commits and so releases all of them.
  `fired` becomes durable through the commit inside the audit log. Correct
  means: a row is launched no more often than runs were interrupted, a cancelled
  row is left alone, a due row is settled.
- **Fleet health.** The threshold is exactly two heartbeat periods, one sweep runs
  at a time and sends its alert inside the run; a server that has lost its broker
  goes on sweeping and hears nobody. Correct means: silent boards are found in
  time, boards that are on are heard in spite of single losses, no death goes
  unannounced, boards that are back are alive while the server listens.
- **Device registry.** Requests read, decide and commit without locks, and the ORM
  clears only the references it has loaded. The listener creates devices and
  homes on its own. Correct means: no row refers to a row that is gone, a refused
  deletion leaves boards where they were, and a board ends up registered in its
  home however its first messages raced.
- **Firmware store and provisioning.** A file and a row are written one after the
  other, two uploads, or an upload and a compiled image, may share the file, a
  background job has nobody to resume it. Correct means: what a board downloads has the checksum of the catalogue, a
  job that is ready has its whole image, and every job comes to an end.
- **Users.** The number of administrators is counted before the write; the role is
  in the token; a generated password exists only in one response. Correct means:
  an administrator remains, and a demoted one loses power.
- **Broadcasts.** Rows are committed as sent before the first push. Correct means: a
  row is pushed once, and it is pushed unless the process dies.
- **Portal and DNS.** The HTTP task, the main loop, a timer and the power supply
  act on one flash. The parser moves by lengths a packet claims. Correct means: a
  board never keeps settings it would forget, the promised reboot comes and uses
  the form it was promised for, and the parser stays in its buffer and answers
  exactly what it should.

`PROJECT.json` lists every component and every hazard with its line and the
properties aimed at it.

## Modules

### OtaPipeline

State: `row` (devices: status and firmware_version), `event` (ota_events, by
rollout and board), `expired` (which events are older than the ten minutes
`handle_heartbeat` looks back), `rollout` (where each `start_rollout` call is, its
target, the boards not yet told), `listener` (what the one handler in progress
has read), `connected`, `up` and `down` (messages), `device` (image, boot slot,
whether uptime is under 180 s, the stack of OTA calls) and the history
`installed` (images the board really finished).

| actions | code |
|---|---|
| `BeginRollout`, `CommitRollout`, `PublishCommand`, `PublishFails`, `FinishRollout` | `OTAService.start_rollout`, one step per database or broker interaction; `Selections` is `_select_devices` with its canary `LIMIT` |
| `AbortRollout` | the conditional bulk `UPDATE` of `abort_rollout`, atomic because Postgres evaluates the condition again on the locked row |
| `HandleHeartbeat`, `SelectPromotable`, `PromoteEvent` | the two transactions of `handle_heartbeat`; the second is a read and a write |
| `HandleRegistration` | `handle_registration` |
| `HandleOtaStatus`, `ApplyOtaStatus` | `handle_ota_status`, read and write; the ORM sends no `UPDATE` for an unchanged status |
| `Register`, `Heartbeat`, `UptimePasses`, `UptimeWraps` | `base.yaml`, and `millis()`, whose 32 bits wrap after 49.7 days |
| `ReceiveCommand`, `StartFlashing`, `OtaFinishes`, `OtaFails`, `Reboot` | `handle_ota_command_`, with nesting |
| `MarkDead`, `WindowPasses` | the sweep and the ten minutes, as seen by a rollout |
| `PowerCycle`, `UptimeWraps`, `Disconnect`, `ServerRestart`, losses in `Send` and `PublishCommand` | faults, each switched by `faults` |

`faults` is the set of faults of a behaviour, chosen at the start from `Scenarios`, so
that one run has behaviours with and without them. `EventSettles` speaks of those
without.

Rollouts are numbered in the order their transactions begin. `started_at` is a
`server_default` of `now()`, which Postgres fixes at the start of the
transaction, so the latest event of a board is the one of the greatest number.

### ScheduledRollouts

State: `table` (status of each row), `due`, `lock` (row locks by worker), `job` (one
per worker: phase, the rest of the batch, marks set on loaded objects and not
yet written), `cancelling` (requests between their read and their write), and the
histories `launches` and `crashes`. `Flush` is the autoflush before the session's next
query, or before its last commit: the `UPDATE` of one mark, which locks its row and
waits while another transaction has it. `Commits` is what `session.commit()` does:
write the marks and release every lock of the session. `Launch` is the commit
inside `start_rollout`, `MarkFired` the one inside `AuditService.log`, `EndRun` the
last one of the job. `Fail` only marks. `Crash` is the end of a process, or a session
the database has refused a statement of. Since rows are locked one by one, two
workers can wait for each other (`Awaits`); `Deadlock` is Postgres refusing the
statement of one of them, whose run then ends like a crash.

### FleetHealth

A timed model. `Tick` advances every clock and waits for what is due. `row` has the
age of `last_seen`, `board` the heartbeat timer, `wire` the messages with the time
they have been on their way, `listener` a registration between its `SELECT` and
its `UPDATE`, `sweep` the trigger's timer and the alert being sent. `missed` and
`announced` are histories. `WriteRegistration` leaves out the status when it was
loaded as `alive`: the ORM writes changed columns only. `SkipSweep` is
APScheduler's `max_instances=1`. `connected` says whether `_listen` runs: `Disconnect`
ends it for good, and `ServerRestart` may leave the server without a broker, as
`lifespan` does when it cannot connect. What boards send meanwhile is lost, as is
any heartbeat on a bad network (`HeartbeatLost`).

### OtaLedger

What `ota_events` promises to its readers, without boards, messages and sessions:
a rollout is entered once and as a whole; a cancellation takes exactly the open
events of the rollouts concerned; any other write is by the one hand that has
taken the event up, and never over a verdict. `OtaPipeline` implements it
(`Ledger == INSTANCE OtaLedger WITH ...`, `LedgerKept`): `ledger` is `event`, `hand`
is the event the listener has read and not yet written. The abort race is a step
of the ledger: the hand may write over a cancellation.

### DeviceRegistry

State: the rows of `devices` (MAC and home), `homes`, `communities`, `home_community`,
`device_groups` and its members, the requests between their reads and their
commit, and the listener's message. Every request is two actions: the first
holds what its `SELECT`s saw, the second is the commit, whose guard is what the
constraints of the migrations accept (`DeviceAccepted`, `Unlinked`,
`MembersAccepted`). `RollBack` is the 409 or 500 that ends it otherwise. In
particular `DeleteHome` remembers the devices and links the ORM loaded, and
`CommitDeleteHome` clears those and no others. `HandleRegistration` and
`CommitRegistration` write the placeholder home and the device together;
`RegistrationWrites` writes the columns that differed from what was read.

### FirmwareStorage

Two components that share a directory: a release and an image are both
`<name>/firmware.bin`, and a version is free text, so it may be a device id. `file` is
that one namespace. An upload is `CheckVersion`, `OpenFile`
(truncates), `WriteFile` (from offset zero, over what another handle has written)
and `CommitRelease` (under the unique constraint). A job is the background task
with its stages; `FailJob` stands for whatever raises. `Crash` may come between
any two steps. `contested` records the names that had two writers (`Shared`): two
uploads at one time, or a release and a device. `Seeded` are the releases of
`seed.py`, in the catalogue from the start with a checksum of no file
(`Placeholder`).

### UserAdmin

State: `users`, the unexpired `tokens` with the role they were made with, the
requests and their phase. A password is told apart only by who knows it: somebody
("known"), the request that has stored it and is going to answer, or nobody
("lost"). `RequireAdmin` is `require_role`: the token's role, the row's `is_active`.
`UpdateUser`, `CountActiveAdmins` and `WriteUser` are the read, the count and the
write of `update_user`, with no lock between them. Ids and e-mail addresses may be
the same strings, since `login` looks for both.

### Broadcast

A request goes over its list one look-up at a time (`LookUp`), where a `SELECT`
flushes the rows added so far and from then on the database holds their
communities; `CommitSend` commits all rows, `PushBroadcast` pushes the next one.
Communities come and go meanwhile, `RecordAck` stores acknowledgements.

### DnsServer and ProvisionPortal

`DnsServer` is `process_next_request` as a state machine over the bytes of one
packet; sizes are constants, so the proof of a bound does not depend on their values.
`WellFormed` is the independent definition of an answerable query: some set of
label starts that chains from the first byte to an empty label. `ProvisionPortal`
extends it: the parser runs inside `loop()`, which does nothing else meanwhile
(`MainLoopFree`), while the HTTP task stores a form step by step (`HandleSave` to
`DeferReboot`), the main loop saves the credentials and arms the timeout
(`SaveWifi`), and the timeout reboots. `promise` is the form of the last page that
said "Rebooting and connecting to WiFi".

`MCDeviceRegistry` and `MCProvisionPortal` hold the values of constants; the other
modules are run as they are.
`OtaPipelineProofs`, `ScheduledRolloutsProofs`, `FleetHealthProofs`,
`DeviceRegistryProofs`, `FirmwareStorageProofs`, `UserAdminProofs`, `BroadcastProofs` and
`ProvisionPortalProofs` (with the parser of `DnsServer`) hold the theorems.

The definitions called "Mutant of X" are X with one plausible mistake. No
specification uses them; `PROJECT.json` says which property each one breaks.

## Runs

| run | checks | shows |
|---|---|---|
| `ota_two_rollouts` | `TypeOK`, `NothingUnrecorded`, `SettledStays`, `ReportedSuccessIsReal`, `LedgerKept` | one board, two rollouts at once, commands nested two deep, power cuts; the refinement |
| `ota_faults` | `VersionHasEvidence`, `ProgressIsForward`, `EventSettles` | one rollout under losses, power cuts, wrapping uptimes, a broken broker session and server restarts; and without faults, where every event is settled |
| `sched_live` | `TypeOK`, `LaunchBudget`, `DueSettles`, `CancelHoldsOutsideRun` | two rows, two workers that may deadlock, a crash, cancel requests |
| `health` | `TypeOK`, `DetectedWithin`, `DeathsAnnounced`, `HeardWithin`, `Revives` | a board, lost and late messages, alerts that outlast the interval, a server restart with or without its broker, a session that breaks |
| `users` | `TypeOK`, `AdminRemains`, `DemotedLosesPower` | two requests at once, identifiers that collide, a crash |
| `registry` | `TypeOK`, `TablesConsistent`, `UnsetOnlyWithDeletion`, `RegistrationFills` | every request between the steps of two boards' messages, a renamed board, a home created on the fly |
| `storage` | `TypeOK`, `CatalogueMatchesFile`, `ReadyHasImage`, `JobSettles` | two uploads of one version or two, a release named like the device that is compiled, the seeded release, two crashes |
| `broadcast` | `TypeOK`, `PushedOnce`, `ReferencesHold`, `SentIsPushed` | two requests with lists of two, repeated and unknown communities, deletions, a crash |
| `portal` | `TypeOK`, `RunsOnFlash`, `StaysInBuffer`, `AnswersExactlyAQueries`, `RebootKeepsPromise`, `SavedReboots`, `RedirectorFollows` | forms over the limit, two forms at once, a power cut or factory reset, packets around every limit |
| `ota_abort` | `AbortSticks` | violated |
| `health_blip` | `SingleBlipTolerated` | violated |
| `registry_conflict` | `NextRegisterFills` | violated |

The last three check what a comment of the code says and find it violated; see the
section on disagreements. In `sched_live`, `users` and `storage` deadlock is not
checked: with every row settled, every token and request gone and no crash left,
those systems may stop.

`AdminRemains` holds because the root account is protected, not because of the
count: without `_check_not_protected` TLC finds two administrators who demote each
other. The count itself refuses only requests whose target has lost the role
since it was read.

## Bounds

| constant | values | why they are enough |
|---|---|---|
| `Devices` | 1 or 2 | boards meet only in a rollout's selection and in the single listener and sweep; two show both |
| `Versions` | 2 | the factory's and one to roll out, and back again with two rollouts |
| `MaxRollouts` | 1 or 2 | two are needed for stale reports, nested commands and the latest-event rule |
| `MaxQueue` | 1 or 2 | two messages of a board can wait for the listener, so a report is overtaken by an abort, a restart or another rollout's |
| `MaxNest` | 1 or 2 | two is the first nested command |
| `MaxCrashes` | 1, 2 in `storage` | the budget and the detection time grow by one step per crash; the theorems cover any number |
| `Period`, `Threshold`, `Interval` | 3, 6, 3 | 30 s, 60 s, 30 s in ticks of 10 s; the ratio is what matters |
| `MaxDelay` | 1 | a message is on its way across a sweep or not |
| `MaxAlert` | 3 (of 3) | long enough to make one sweep be skipped; an alert may also be shorter |
| `Requests` | 2 (`users`, `broadcast`, `Uploads`), 1 (`registry`) | a stale read needs one other writer; in `registry` the listener is the other writer |
| `Ids`, `Addresses` | 3 and 3, one in common each way | the root, an operator and an account that may be created, with the strings of the others |
| `MaxTokens` | 2 | two administrators act at once |
| `Devices`, `Homes`, `Macs` of `registry` | 2, 2, 1 | two boards after one MAC; a home to move to |
| `Contents`, `Versions`, `Seeded`, `Devices` of `storage` | 2, 3, 1, 1 | two uploads that differ; a version that is seeded, one that is not, one that is a device id |
| `MaxList`, `MaxRows` | 2, 2 | a list with a repetition or an unknown id; two rows to push |
| `MaxDeferred`, `MaxCuts` | 2, 1 | a second form behind the first; one cut at any step |
| `Lengths`, `Limit` | {1, 3}, 1 | a setting that fits and one that is cut off |
| `HeaderSize`, `QuestionSize`, `AnswerSize`, `BufferSize`, `MaxLabel` | 2, 2, 3, 14, 3 | 12, 4, 16, 192 and 63 scaled down: `MCPackets` has a packet on each side of every limit |

`MaxAge` caps ages above every bound a property speaks of.

The faults are in `ota_faults` and not in the run with two rollouts, whose state
space does not fit five minutes with them. The theorems cover all combinations.

`ProgressIsForward` is about one rollout. With two of the same version TLC finds it
violated: a report names a version, not a rollout, and goes to the latest event, so
the second command's "downloading" comes after the first one's "flashing".

`health` has one board: with two, the faults together exceed five minutes. Boards
meet only in the batch of a sweep and in the listener, and the theorems cover any
number of them.

Two requests and two boards in `registry` exceed five minutes. Two overlapping
requests were run with one board; the theorems cover any number of both. With two
requests `UnsetOnlyWithDeletion` has to say that the home of the deletion is gone
afterwards, not that the step removes it: of two overlapping deletions of one home
the second deletes no row and still clears the boards it had loaded.

## Fairness

- `OtaPipeline`: weak fairness for the rest of a handler and of a `start_rollout`
  call, because a started coroutine goes on. Strong fairness per board for the
  listener taking one of its messages, because the broker delivers them in order
  and the others' messages do not hold it up for ever; strong fairness for
  `ReceiveCommand`, because the main loop polls MQTT between heartbeats. Weak
  fairness for the stages of an OTA, where `OtaFails` is always an alternative:
  nothing says that an OTA succeeds. Operators, faults, uptime and the
  ten-minute window are not fair. `EventSettles` is stated for behaviours without
  faults: with a lost report nothing in the code settles the event.
- `ScheduledRollouts`: the job is triggered every minute and a started run goes on,
  so weak fairness per worker. A cancel request that waits for a row lock gets it
  in the end (strong fairness, Postgres queues lock requests). Postgres breaks a
  deadlock after `deadlock_timeout` (weak fairness of `Deadlock`). Nobody has to
  create or cancel anything.
- `FleetHealth`: time passes; boards that are on beat; handlers, sweep and alerts
  end. The network loses messages but not for ever (strong fairness of `Heartbeat`).
  A board may go silent or boot at any time, and need not; the server may lose its
  broker, and `Revives` asks nothing of one that has.
- `UserAdmin`, `FirmwareStorage`, `Broadcast`: weak fairness per request or task,
  because the event loop goes on with a coroutine whose await is over, and every
  compiler run ends (`FailJob` is always an alternative to its success). Tokens
  expire. Nobody has to send a request, and crashes are not fair.
- `DeviceRegistry`: requests and handlers run to their end; a board boots again some
  day and the listener takes its registration (strong fairness, since the listener
  may be busy with others in between). `RegistrationFills` asks for it only when
  requests and other holders of the MAC stop interfering.
- `ProvisionPortal`: weak fairness for the HTTP task and for the parser, which never
  blocks. Strong fairness for what the main loop does between packets: one loop
  iteration handles one packet at most, then the deferred calls, timeouts and the
  redirector get their turn. Networks, forms and cuts are not fair.

## Proofs

Every theorem holds for any number of boards, versions, rows, rollouts and for
every value of the bounds, under the assumptions of the modules
(those of `OtaPipeline` are `FactoryAssumption`, `BoundsAssumption` and
`ScenariosAssumption`, those of `FleetHealth` `ClockAssumption` and `NoneAssumption`, the set of
workers is finite, `WorkersAssumption`; the others stand next to the constants they
are about), which TLC evaluates in each run. One theorem has a hypothesis of its
own, `ProgressOfOneRollout`; without it TLC refutes it.

**OtaPipelineProofs**

- `TypeCorrect`: `Spec => []TypeOK`, one step per action.
- `EverythingRecorded` (`NothingUnrecorded`). Not inductive as it stands: a command
  that is about to be published is not in `down` yet. `RolloutInv` adds that a
  rollout in phase `publishing` has an event row for every board it still has to
  tell, and that a rollout that has not committed has none.
- `SettledEventsStay` (`SettledStays`). `HeldInv` says that the event the listener
  holds was in flight when it was read, so now it is in flight or cancelled: a
  single listener means no handler settles it meanwhile.
- `KeepsTheLedger` (`LedgerKept`), the refinement: initial states map to initial
  states (`LedgerInit`) and every step to a step of the ledger or a stutter
  (`LedgerNext`), from the types, `RolloutInv` (a rollout that is entered has no
  events yet) and `HeldInv` (what is written is open or cancelled). `HandMoves` says
  what a step does to the listener's hand.
- `ReportedSuccessesAreReal` and `VersionsHaveEvidence` rest on `TruthInv`: every
  "success" report on its way, or in the listener's hands, is about a version in
  `installed`, and so is every image on a board but the factory's.
- `ProgressOfOneRollout` (`ProgressIsForward`), if one rollout is made
  (`MaxRollouts = 1`), under every fault. The property looks at the event alone;
  `OrderInv` follows what is known of a board from the call to the broker, the board,
  the queue, the listener's hand and the event. The command exists once, a board has
  an OTA only when its command is gone, and nothing behind is further back than what
  is before it. Most steps only lose something (`Fades`); a report is the one new
  thing, and it is at least as far as the OTA was (`OrderReports`).

**ScheduledRolloutsProofs**

- `TypeCorrect`.
- `LaunchesWithinBudget` (`LaunchBudget`): a row is launched at most once per worker and
  once more per crash, for any finite set of workers; once, for the one worker of
  the deployment. `BudgetInv` counts the workers that will not launch the row again
  unless a run crashes (`Exhausted`): launches are at most their number plus the
  crashes. `Effect` says in one form what each step of a run does to a row, and a
  launch uses up the worker that makes it, the locks of the others notwithstanding.
  A flush changes locks only; a deadlock counts as a crash, because it ends a run.
- `CancelIsFinal` (`CancelHoldsOutsideRun`), from the same lemmas.

**FleetHealthProofs**

- `TypeCorrect`.
- `DetectionTime` (`DetectedWithin`): the age of an alive row is at most
  `Threshold + Interval * (1 + crashes + MaxAlert \div Interval)`. `SweepInv` relates
  the alert's age to the trigger: it is a whole number of intervals plus the
  trigger's timer, so at most `MaxAlert \div Interval` sweeps are skipped; and the
  age of an alive row exceeds the threshold by no more than the time since the
  last sweep that ran.
- `DeathsAreAnnounced` (`DeathsAnnounced`), however long alerts take.
- `BoardsAreHeard` (`HeardWithin`). `YoungInv` bounds the age of the row of a board that
  is on: a period for the beat that was lost, and the time since the last one was
  due or the delay of the message on its way. The bound, `2 * Period + MaxDelay`,
  exceeds the code's threshold of `2 * Period` for every delay but none: that is
  why `SingleBlipTolerated` fails.

**DeviceRegistryProofs**, for any number of overlapping requests.

- `TypeCorrect` and `TablesStayConsistent` (`TablesConsistent`). `Inv` adds `HomeNamed`, a
  registration that writes a home has a name for it. What a request has read is in
  the invariant with its type only, since the tables may have changed in any way
  since: the checks of the commits alone keep the tables, one lemma per commit.
- `UnsetIsJustified` (`UnsetOnlyWithDeletion`), an action property.

**FirmwareStorageProofs**. Uploads and jobs write the same files, so one invariant
covers both.

- `TypeCorrect`.
- `CatalogueIsRight` (`CatalogueMatchesFile`). Not inductive: the row is written from
  what the request holds, not from the file. `UncontestedIsAlone` says that on a
  name nobody contested a request is alone, without a job and before the row, and
  that the file is what the request's phase says.
- `ReadyIsComplete` (`ReadyHasImage`). `JobIsAlone` says the same of a job: no release
  has its name, the copy is whole before the last step, and a job that is ready
  has no task left to truncate it.

**UserAdminProofs**. `RequestStep` shows once, for the form all steps of a request have
(what happens to the table, where the request goes), that it keeps the invariant;
`ReadingStep` and `WritingStep` are its two cases, and each statement of `api/auth.py` is
brought into one of them.

- `TypeCorrect` needs `TargetsExist`: a request that has read an account still finds
  its row, since none is deleted.
- `RootRemains` (`AdminRemains`) needs `RootUntouched`: no request that is still to
  write an account holds the root. It follows from `_check_not_protected` and the
  refusal to change oneself, not from the count of administrators.

**BroadcastProofs**, for lists of any length.

- `TypeCorrect`.
- `ReferencesAlwaysHold` (`ReferencesHold`). Not inductive: a commit adds rows whose
  communities were looked up long before. `FlushedHold` adds that what a request has
  flushed the database holds on to; what it has not is checked at the commit.
- `EachPushedOnce` (`PushedOnce`). `WaitsOnce` adds that a row waits in one place of one
  queue, committed with `sent_at` and not pushed yet.

**ProvisionPortalProofs**, the parser first, for packets of any length and content
and for any sizes.

- `ParserStaysInBuffer` (`StaysInBuffer`).
- `ParserIsExact` (`AnswersExactlyAQueries`). `Walked`, labels chain from the first
  byte to the pointer, gives the name of an answered query; `Forced`, every division
  of these bytes into labels has one that starts at the pointer, shows that a packet
  that is dropped has no name. Both are kept by each step of the walk, so no
  induction over the packet is needed.
- `PortalTypeCorrect`.
- `LoopServesDns`: both properties of the parser in the board's main loop.
- `SettingsAreKept` (`RunsOnFlash`) with `HttpProgress`: where the HTTP task is tells
  how flash and memory differ.
- `PromiseIsKept` (`RebootKeepsPromise`), an action property, from `PromiseInOrder` (an
  uncontested form is the only one on its way) and `AloneUnlessContested`.

Only model-checked: liveness under fairness, which is out of the prover's reach
(`EventSettles`, `DueSettles`, `Revives`, `JobSettles`, `DemotedLosesPower`,
`RegistrationFills`, `SentIsPushed`, `SavedReboots`, `RedirectorFollows`). Every other
property that a run confirms is a theorem. `AbortSticks`, `SingleBlipTolerated` and
`NextRegisterFills`, which the code violates, are not.

## Disagreements between the code and what is written about it

`ota_abort` checks `AbortSticks`: "Cancel all pending OTA events for a version."
(`services/ota.py:172`). A handler that read an event before `abort_rollout` writes it
after, so a cancelled event is downloading, flashing or successful again.

`health_blip` checks `SingleBlipTolerated`: "Threshold = 2 missed beats so a single
network blip doesn't flip a device" to "dead" (`tasks/scheduler.py:22`). After one lost
heartbeat the next one is sent 60 s after the last that arrived, which is the
threshold, so any delay of it leaves the row too old for a sweep that comes first.
`HeardWithin` is what the code does ensure.

`registry_conflict` checks `NextRegisterFills`: a row a heartbeat made after a
"mac-unique conflict with a retired row" is one "the next on_boot register will" fill
in (`mqtt/handlers.py:53`). That register writes the same MAC, conflicts with the same
retired row and is rolled back, at every boot, until somebody deletes or changes
the retired row. `RegistrationFills` is what the code does ensure: the row is filled
once nobody else holds the MAC.

Met while modelling, without a run of their own:

- `mqtt/handlers.py:75`: a heartbeat with an uptime under 180 s makes the latest event
  in flight a success, whether or not the board received the command.
  `deployment_steps.md:52`: "**Boot success** → device reports new version".
- `tasks/scheduler.py:98`: the commit inside `start_rollout` releases the locks of the
  whole batch, so a second worker fires the remaining rows too. Line 76: "protects
  against a second worker in the future racing the same row."
- `tasks/scheduler.py:96`: a row cancelled while an earlier row of its batch is
  launched is launched all the same. Line 73: "For each pending row".
- `mqtt/handlers.py:148`: a sweep between the read and the write of a registration
  leaves a dead row that was seen this moment; the next heartbeat repairs it
  (`Revives`).
- `api/scheduled_rollouts.py:91`: `cancel_scheduled` can turn a row that was fired
  between its read and its write into a cancelled one.
- `tasks/scheduler.py:60`: an alert that takes 30 s or more makes detection slower
  than the 90 s of the comment (the term `MaxAlert \div Interval` of
  `DetectedWithin`); the alert text says "90+ seconds" where the threshold is 60 s,
  and the start-up log of `main.py` says the sweep runs every 60 s.
- `tasks/scheduler.py:52`: a restart between the commit of a death and its alert loses
  the alert; later sweeps look at alive rows only.
- `mqtt/client.py:74` and `main.py:39`: a listener whose session broke is not started
  again, and a server that found no broker runs without one until it is restarted.
  The sweep then marks every board dead. `/health`, "Comprehensive health check —
  verifies all critical dependencies" (`main.py:93`), looks at the client
  object, which is there before it connects, and not at the listener.
- `tasks/scheduler.py:126`: two workers may lock the same two rows in opposite orders;
  Postgres ends one of the runs, whose rows stay pending for the next. One worker,
  as deployed, cannot meet it.
- `api/auth.py:248`: an account whose id is the root's e-mail address and whose e-mail
  is "admin" makes both identifiers of the root ambiguous, and `scalar_one_or_none`
  raises. Line 100: the root "must always be reachable".
- `api/auth.py:452`: a crash after a generated password is committed and before the
  response leaves a password nobody knows. An administrator can reset it once
  more; the root's only the root, while its token lasts.
- `api/auth.py:271`: logout deletes the cookie; the token stays valid until it expires.
- `api/auth.py:38`: the cookie lives 24 hours and "matches" a token of 480 minutes
  (`services/auth.py:14`).
- `api/device_groups.py:120`: two overlapping updates of a group leave both lists.
  The comment says "Full-replacement semantics".
- `repositories/base.py:63`: a board that moves to another home after the deletion of
  its old one has loaded it is taken out of the new home too.
- `scripts/seed.py:120`: release 1.0.0 is listed with a placeholder for a checksum and
  no file, and can no longer be uploaded (409).
- `services/provisioning.py:158`: images and releases share one directory; a release
  whose version is a device id and the image of that device overwrite each other
  (`contested`).
- `services/firmware.py:31`: of two uploads of one version at one time, the row may be
  of one and the file of the other (`contested`).
- `services/provisioning.py:161`: `download_firmware` serves the file that is there,
  also a part of an image whose copy was cut off.
- `services/provisioning.py:101`: a restart leaves a job `compiling` for ever.
- `services/broadcast.py:53`: a list that names a community twice makes two rows and
  two pushes to one topic.
- `services/broadcast.py:80`: a broadcast with `scheduled_at` is stored and never sent.
- `api/broadcast.py:88`: an acknowledgement stores the message's number as the home,
  so only a home of that name makes its foreign key hold; and repeated ones
  make `delivered_count` exceed `total_targets`.
- `services/audit.py:3`: "Every create/update/delete"; homes, communities and
  broadcasts are not audited.
- `provision_portal.h:168`: a form that is sent while another one's reboot is due may
  be answered "Saved" and lose its network to that reboot (`contested`).
- `mqtt/handlers.py:151`: an operator's move of a board to another home is undone at
  its next boot, and the deletion of a board that is on by its next heartbeat.

## What is left out

- An administrator's `PATCH` of a device's status or firmware_version: in
  `OtaPipeline` and `FleetHealth` these columns are written by the server alone.
  `DeviceRegistry` has the `PATCH` of a home id.
- The comparison of passwords, signatures of tokens, and roles other than
  administrator and not administrator.
- Whether FCM took a push: the code logs it and goes on.
- A database that fails in the middle of a request, other than by the death of the
  process.
- `ar_count` of a DNS query with an OPT record, which the reply keeps.
- Duplicates of the QoS 1 registration: handling one twice leaves the same row.
- APScheduler's misfire grace time of one second: a run that starts late by more
  is skipped, as in `SkipSweep` but without an alert in progress.
- A board whose OTA fails without a reboot resumes heartbeats with its old uptime;
  in `FleetHealth` that is `GoSilent` followed by `Boot`.
- Parsing and formatting of payloads, logging, and the read-only queries.
- Routing, logging, configuration, running a migration on a database with rows, and
  the console: no state of their own that another part depends on. The error
  handler, the keys of the migrations and the accounts of the seed script are in
  the modules that depend on them.
- `fleet_integration_kit` and `esphome/custom_components`: copies, or earlier versions,
  of components that are modelled.

## Plan

Done: all components with state of their own are modelled and checked; every module
has its theorems, and every safety property a run confirms is one of them,
`OtaPipeline` with the refinement.

Next: safety lemmas on which the liveness properties rest (what keeps a step that is
waited for enabled), as far as they can be stated without ENABLED.

---------------------------- MODULE OtaPipeline ----------------------------
(***************************************************************************)
(* The over-the-air update pipeline: the rollouts of services/ota.py, the  *)
(* MQTT listener and its handlers (mqtt/client.py, mqtt/handlers.py), the  *)
(* two tables they share, and the firmware of the devices at the far end   *)
(* (esphome/components/mqtt_ota/mqtt_ota.h, esphome/common/base.yaml).     *)
(*                                                                         *)
(* Granularity.  A database transaction that reads a row and writes it     *)
(* back is two steps when another task can commit in between: the ORM      *)
(* issues UPDATE ... WHERE id = ... without looking at the status again.   *)
(* A bulk UPDATE ... WHERE status IN (...) is one step, because Postgres   *)
(* evaluates the condition again on the row it locks.                      *)
(*                                                                         *)
(* Rollouts are numbered in the order their transactions begin, which is   *)
(* the order of ota_events.started_at, so "the latest event of a device"   *)
(* is the one of the greatest rollout number.                              *)
(***************************************************************************)
EXTENDS Integers, Sequences, FiniteSets, Functions

CONSTANTS
    Devices,       \* the physical boards, and the rows named after them
    Versions,      \* firmware versions that have been uploaded
    Factory,       \* the version every board is flashed with at the bench
    MaxRollouts,   \* bound: how many rollouts are started
    MaxQueue,      \* bound: messages of one device in flight to the server
    MaxNest,       \* bound: OTA commands a board is inside at one time
    Scenarios      \* the combinations of FaultKinds a behaviour may meet

ASSUME FactoryAssumption == Factory \in Versions
ASSUME BoundsAssumption ==
    MaxRollouts \in Nat /\ MaxQueue \in Nat /\ MaxNest \in Nat

FaultKinds == {"loss",      \* a QoS 0 message is lost
               "power",     \* a board loses power
               "wrap",      \* a board is up for 49.7 days
               "broker",    \* the server's MQTT session breaks
               "server"}    \* the server process dies and is started again
ASSUME ScenariosAssumption == Scenarios \subseteq SUBSET FaultKinds

VARIABLES
    faults,     \* which faults this behaviour meets; it never changes
    row,        \* devices table: status and firmware_version of each board
    event,      \* ota_events table: status of each rollout's event per board
    expired,    \* events of rollouts 1..expired started over 10 minutes ago
    rollout,    \* start_rollout calls: where each one is, target, unpublished
    listener,   \* what MQTTClient._listen is doing
    connected,  \* the server's MQTT session is up
    up, down,   \* MQTT messages in flight: boards to server, server to boards
    device,     \* the boards
    installed   \* history: versions esp_https_ota_finish accepted, per board

vars == <<faults, row, event, expired, rollout, listener, connected, up, down,
          device, installed>>

NULL == "null"
None == "none"       \* no such event row

Rollouts == 1 .. MaxRollouts
InFlight == {"pending", "downloading", "flashing"}
EventStatus == InFlight \cup {"success", "failed", "cancelled"}
Reports == {"downloading", "flashing", "success", "failed"}

Message ==
         [kind : {"heartbeat"}, fresh : BOOLEAN]
    \cup [kind : {"register"}, version : Versions]
    \cup [kind : {"status"}, status : Reports, version : Versions]

Job == [version : Versions, stage : {"downloading", "flashing", "finished"}]

Idle == [phase |-> "idle"]
Listener ==
         {Idle}
    \cup [phase : {"promote"}, dev : Devices]
    \cup [phase : {"promoting"}, dev : Devices, held : Rollouts]
    \cup [phase : {"reporting"}, dev : Devices, held : Rollouts,
          seen : InFlight, status : Reports]

-----------------------------------------------------------------------------
(* The boards: one ESP32 running base.yaml and MqttOtaComponent.           *)

\* A QoS 0 publish: it reaches the server's queue or, with faults, is lost.
Send(d, m) ==
    \/ Len(up[d]) < MaxQueue /\ up' = [up EXCEPT ![d] = Append(@, m)]
    \/ "loss" \in faults /\ up' = up

Report(status, version) ==
    [kind |-> "status", status |-> status, version |-> version]

\* on_boot of base.yaml: one register publish per boot, with the version
\* compiled into the running image.
Register(d) ==
    /\ device[d].jobs = <<>>
    /\ ~device[d].registered
    /\ Send(d, [kind |-> "register", version |-> device[d].image])
    /\ device' = [device EXCEPT ![d].registered = TRUE]
    /\ UNCHANGED <<faults, row, event, expired, rollout, listener, connected,
                   down, installed>>

\* The 30 s interval.  It runs in the main loop, so not inside an OTA.
Heartbeat(d) ==
    /\ device[d].jobs = <<>>
    /\ Send(d, [kind |-> "heartbeat", fresh |-> device[d].fresh])
    /\ UNCHANGED <<faults, row, event, expired, rollout, listener, connected,
                   down, device, installed>>

\* Three minutes of uptime have passed.
UptimePasses(d) ==
    /\ device[d].fresh
    /\ device' = [device EXCEPT ![d].fresh = FALSE]
    /\ UNCHANGED <<faults, row, event, expired, rollout, listener, connected,
                   up, down, installed>>

\* 2^32 ms of uptime have passed: millis() starts again from zero.
UptimeWraps(d) ==
    /\ "wrap" \in faults
    /\ ~device[d].fresh
    /\ device' = [device EXCEPT ![d].fresh = TRUE]
    /\ UNCHANGED <<faults, row, event, expired, rollout, listener, connected,
                   up, down, installed>>

\* The innermost OTA the board is inside moves to another stage, or returns.
Stage(d) == IF device[d].jobs = <<>> THEN None ELSE Head(device[d].jobs).stage
JobVersion(d) == Head(device[d].jobs).version
Advance(d, stage) ==
    <<[version |-> JobVersion(d), stage |-> stage]>> \o Tail(device[d].jobs)

\* handle_ota_command_ up to esp_https_ota_begin.  The MQTT loop that runs
\* the callback is also pumped while flashing and after finishing, so the
\* callback can be entered again from within itself.
ReceiveCommand(d) ==
    /\ down[d] # <<>>
    /\ Stage(d) \in {None, "flashing", "finished"}
    /\ Len(device[d].jobs) < MaxNest
    /\ device' = [device EXCEPT ![d].jobs =
                     <<[version |-> Head(down[d]), stage |-> "downloading"]>> \o @]
    /\ Send(d, Report("downloading", Head(down[d])))
    /\ down' = [down EXCEPT ![d] = Tail(@)]
    /\ UNCHANGED <<faults, row, event, expired, rollout, listener, connected,
                   installed>>

\* Mutant of OtaFails: the error path returns without publishing "failed".
OtaFailsSilently(d) ==
    /\ Stage(d) \in {"downloading", "flashing"}
    /\ device' = [device EXCEPT ![d].jobs = Tail(@)]
    /\ UNCHANGED <<faults, row, event, expired, rollout, listener, connected,
                   up, down, installed>>

\* Mutant of OtaFails: "success" is published before the result is known.
OtaFailsAfterSuccess(d) ==
    /\ Stage(d) \in {"downloading", "flashing"}
    /\ Send(d, Report("success", JobVersion(d)))
    /\ device' = [device EXCEPT ![d].jobs = Tail(@)]
    /\ UNCHANGED <<faults, row, event, expired, rollout, listener, connected,
                   down, installed>>

\* Mutant of OtaFails: the board starts the download over.
OtaFailsRetrying(d) ==
    /\ Stage(d) \in {"downloading", "flashing"}
    /\ Send(d, Report("downloading", JobVersion(d)))
    /\ device' = [device EXCEPT ![d].jobs = Advance(d, "downloading")]
    /\ UNCHANGED <<faults, row, event, expired, rollout, listener, connected,
                   down, installed>>

\* esp_https_ota_begin, perform, the completeness check or finish failed:
\* report it and return, to the main loop or to the OTA that was interrupted.
OtaFails(d) ==
    /\ Stage(d) \in {"downloading", "flashing"}
    /\ Send(d, Report("failed", JobVersion(d)))
    /\ device' = [device EXCEPT ![d].jobs = Tail(@)]
    /\ UNCHANGED <<faults, row, event, expired, rollout, listener, connected,
                   down, installed>>

\* esp_https_ota_begin succeeded.  From here the spare slot is overwritten,
\* so an image finished into it earlier can no longer be booted.
StartFlashing(d) ==
    /\ Stage(d) = "downloading"
    /\ Send(d, Report("flashing", JobVersion(d)))
    /\ device' = [device EXCEPT ![d].jobs = Advance(d, "flashing"),
                                ![d].boot = device[d].image]
    /\ UNCHANGED <<faults, row, event, expired, rollout, listener, connected,
                   down, installed>>

\* esp_https_ota_finish succeeded: the spare slot is the one to boot from.
OtaFinishes(d) ==
    /\ Stage(d) = "flashing"
    /\ Send(d, Report("success", JobVersion(d)))
    /\ device' = [device EXCEPT ![d].jobs = Advance(d, "finished"),
                                ![d].boot = JobVersion(d)]
    /\ installed' = [installed EXCEPT ![d] = @ \cup {JobVersion(d)}]
    /\ UNCHANGED <<faults, row, event, expired, rollout, listener, connected,
                   down>>

\* Boot: run the image of the boot slot.  The MQTT session is clean, so the
\* commands that had not been read are gone.
Restart(d) ==
    /\ device' = [device EXCEPT ![d] =
                     [image |-> @.boot, boot |-> @.boot, fresh |-> TRUE,
                      registered |-> FALSE, jobs |-> <<>>]]
    /\ down' = [down EXCEPT ![d] = <<>>]
    /\ UNCHANGED <<faults, row, event, expired, rollout, listener, connected,
                   up, installed>>

\* App.safe_reboot at the end of handle_ota_command_.
Reboot(d) == Stage(d) = "finished" /\ Restart(d)

\* Power loss, watchdog or brown-out at any moment.
PowerCycle(d) == "power" \in faults /\ Restart(d)

-----------------------------------------------------------------------------
(* Rollouts: OTAService.start_rollout, run by a request or by the          *)
(* scheduler, one step per database or broker interaction.                 *)

Candidates(targets, version) ==
    {d \in targets : /\ row[d].status \in {"alive", "unknown"}
                     /\ row[d].fw \notin {NULL, version}}

\* What _select_devices may return: a canary is a LIMIT without an ORDER BY.
Selections(strategy, count, targets, version) ==
    LET C == Candidates(targets, version)
    IN  IF strategy = "canary" /\ Cardinality(C) > count
          THEN {S \in SUBSET C : Cardinality(S) = count}
          ELSE {C}

\* The transaction begins and reads the devices.  An empty selection returns
\* without writing anything, so it is not a step.
BeginRollout(r) ==
    /\ rollout[r].phase = "idle"
    /\ \A q \in Rollouts : q < r => rollout[q].phase # "idle"
    /\ \E version \in Versions, targets \in SUBSET Devices,
          strategy \in {"canary", "staged", "full"}, count \in 1 .. Cardinality(Devices) :
         \E S \in Selections(strategy, count, targets, version) :
            /\ S # {}
            /\ rollout' = [rollout EXCEPT ![r] =
                   [phase |-> "selected", target |-> version, todo |-> S]]
    /\ UNCHANGED <<faults, row, event, expired, listener, connected, up, down,
                   device, installed>>

\* One commit inserts a pending event for every selected device.
CommitRollout(r) ==
    /\ rollout[r].phase = "selected"
    /\ event' = [event EXCEPT ![r] =
           [d \in Devices |-> IF d \in rollout[r].todo THEN "pending" ELSE @[d]]]
    /\ rollout' = [rollout EXCEPT ![r].phase = "publishing"]
    /\ UNCHANGED <<faults, row, expired, listener, connected, up, down,
                   device, installed>>

\* Mutant of PublishCommand: commands go out before the events are committed.
PublishCommandEarly(r) ==
    /\ rollout[r].phase \in {"selected", "publishing"}
    /\ connected
    /\ \E d \in rollout[r].todo :
         /\ down' = [down EXCEPT ![d] = Append(@, rollout[r].target)]
         /\ rollout' = [rollout EXCEPT ![r].todo = @ \ {d}]
    /\ UNCHANGED <<faults, row, event, expired, listener, connected, up,
                   device, installed>>

\* _publish_ota_command, in the order the query returned the devices.  A
\* board that is not subscribed at this moment misses a QoS 0 message.
PublishCommand(r) ==
    /\ rollout[r].phase = "publishing"
    /\ connected
    /\ \E d \in rollout[r].todo :
         /\ \/ down' = [down EXCEPT ![d] = Append(@, rollout[r].target)]
            \/ "loss" \in faults /\ down' = down
         /\ rollout' = [rollout EXCEPT ![r].todo = @ \ {d}]
    /\ UNCHANGED <<faults, row, event, expired, listener, connected, up,
                   device, installed>>

\* aiomqtt raises MqttError: the call ends with events nobody was told about.
PublishFails(r) ==
    /\ "broker" \in faults
    /\ rollout[r].phase = "publishing" /\ rollout[r].todo # {}
    /\ rollout' = [rollout EXCEPT ![r].phase = "done", ![r].todo = {}]
    /\ UNCHANGED <<faults, row, event, expired, listener, connected, up, down,
                   device, installed>>

FinishRollout(r) ==
    /\ rollout[r].phase = "publishing" /\ rollout[r].todo = {}
    /\ rollout' = [rollout EXCEPT ![r].phase = "done"]
    /\ UNCHANGED <<faults, row, event, expired, listener, connected, up, down,
                   device, installed>>

\* Mutant of AbortRollout: the UPDATE lacks its condition on the status.
AbortRolloutAny(version) ==
    /\ event' = [r \in Rollouts |-> [d \in Devices |->
           IF rollout[r].target = version /\ event[r][d] # None
             THEN "cancelled" ELSE event[r][d]]]
    /\ event' # event
    /\ UNCHANGED <<faults, row, expired, rollout, listener, connected, up,
                   down, device, installed>>

\* abort_rollout: one conditional bulk UPDATE.
AbortRollout(version) ==
    /\ event' = [r \in Rollouts |-> [d \in Devices |->
           IF rollout[r].target = version /\ event[r][d] \in InFlight
             THEN "cancelled" ELSE event[r][d]]]
    /\ event' # event
    /\ UNCHANGED <<faults, row, expired, rollout, listener, connected, up,
                   down, device, installed>>

-----------------------------------------------------------------------------
(* The listener: MQTTClient._listen takes one message at a time and awaits *)
(* its handler.                                                            *)

Receives(d, kind) ==
    /\ listener = Idle
    /\ connected
    /\ up[d] # <<>>
    /\ Head(up[d]).kind = kind
    /\ up' = [up EXCEPT ![d] = Tail(@)]

\* The event a handler's SELECT ... ORDER BY started_at DESC LIMIT 1 returns.
IsLatest(r, S) == r \in S /\ \A q \in S : q <= r
Reported(d, version) ==
    {r \in Rollouts : event[r][d] \in InFlight /\ rollout[r].target = version}
Promotable(d) ==
    {r \in Rollouts : event[r][d] \in InFlight /\ r > expired}

\* Mutant of HandleHeartbeat: the minimal row gets a made-up version.
HandleHeartbeatMadeUp(d) ==
    /\ Receives(d, "heartbeat")
    /\ row' = [row EXCEPT ![d] =
           IF @.status = None THEN [status |-> "alive", fw |-> "unknown"]
                              ELSE [@ EXCEPT !.status = "alive"]]
    /\ listener' = IF row[d].status # None /\ Head(up[d]).fresh
                     THEN [phase |-> "promote", dev |-> d] ELSE Idle
    /\ UNCHANGED <<faults, event, expired, rollout, connected, down, device,
                   installed>>

\* handle_heartbeat, first transaction: mark alive, or insert a minimal row
\* whose firmware_version is NULL.
HandleHeartbeat(d) ==
    /\ Receives(d, "heartbeat")
    /\ row' = [row EXCEPT ![d] =
           IF @.status = None THEN [status |-> "alive", fw |-> NULL]
                              ELSE [@ EXCEPT !.status = "alive"]]
    /\ listener' = IF row[d].status # None /\ Head(up[d]).fresh
                     THEN [phase |-> "promote", dev |-> d] ELSE Idle
    /\ UNCHANGED <<faults, event, expired, rollout, connected, down, device,
                   installed>>

\* handle_heartbeat, second transaction: read the event to promote, if any.
SelectPromotable ==
    /\ listener.phase = "promote"
    /\ \/ /\ Promotable(listener.dev) = {}
          /\ listener' = Idle
       \/ \E r \in Rollouts :
            /\ IsLatest(r, Promotable(listener.dev))
            /\ listener' = [phase |-> "promoting", dev |-> listener.dev,
                            held |-> r]
    /\ UNCHANGED <<faults, row, event, expired, rollout, connected, up, down,
                   device, installed>>

\* ... and write it back with the device row, whatever its status is by now.
PromoteEvent ==
    /\ listener.phase = "promoting"
    /\ event' = [event EXCEPT ![listener.held][listener.dev] = "success"]
    /\ row' = [row EXCEPT ![listener.dev].fw = rollout[listener.held].target]
    /\ listener' = Idle
    /\ UNCHANGED <<faults, expired, rollout, connected, up, down, device,
                   installed>>

\* handle_registration: insert or update the device row.
HandleRegistration(d) ==
    /\ Receives(d, "register")
    /\ row' = [row EXCEPT ![d] =
                  [status |-> "alive", fw |-> Head(up[d]).version]]
    /\ UNCHANGED <<faults, event, expired, rollout, listener, connected, down,
                   device, installed>>

\* handle_ota_status: read the event the report is about, if any.
HandleOtaStatus(d) ==
    /\ Receives(d, "status")
    /\ LET m == Head(up[d]) IN
         \/ /\ Reported(d, m.version) = {}
            /\ listener' = Idle
         \/ \E r \in Rollouts :
              /\ IsLatest(r, Reported(d, m.version))
              /\ listener' = [phase |-> "reporting", dev |-> d, held |-> r,
                              seen |-> event[r][d], status |-> m.status]
    /\ UNCHANGED <<faults, row, event, expired, rollout, connected, down,
                   device, installed>>

\* Mutant of ApplyOtaStatus: every report updates the device row.
ApplyOtaStatusAlways ==
    /\ listener.phase = "reporting"
    /\ event' = [event EXCEPT ![listener.held][listener.dev] = listener.status]
    /\ row' = [row EXCEPT ![listener.dev].fw = rollout[listener.held].target]
    /\ listener' = Idle
    /\ UNCHANGED <<faults, expired, rollout, connected, up, down, device,
                   installed>>

\* ... and write the reported status.  The ORM sends an UPDATE only for a
\* value that differs from the one it loaded.
ApplyOtaStatus ==
    /\ listener.phase = "reporting"
    /\ event' = IF listener.status = listener.seen THEN event
                ELSE [event EXCEPT ![listener.held][listener.dev] =
                                        listener.status]
    /\ row' = IF listener.status # "success" THEN row
              ELSE [row EXCEPT ![listener.dev].fw =
                                    rollout[listener.held].target]
    /\ listener' = Idle
    /\ UNCHANGED <<faults, expired, rollout, connected, up, down, device,
                   installed>>

-----------------------------------------------------------------------------
(* The rest of the server, and its surroundings.                           *)

\* check_dead_devices, for a board that has been silent for too long.
MarkDead(d) ==
    /\ row[d].status = "alive"
    /\ row' = [row EXCEPT ![d].status = "dead"]
    /\ UNCHANGED <<faults, event, expired, rollout, listener, connected, up,
                   down, device, installed>>

\* Ten minutes have passed since the next rollout's events were created.
WindowPasses ==
    /\ expired < MaxRollouts
    /\ rollout[expired + 1].phase # "idle"
    /\ expired' = expired + 1
    /\ UNCHANGED <<faults, row, event, rollout, listener, connected, up, down,
                   device, installed>>

\* The broker drops the session.  The message iterator raises, _listen ends
\* and nothing starts it again before the process is restarted.
Disconnect ==
    /\ "broker" \in faults
    /\ connected
    /\ connected' = FALSE
    /\ up' = [d \in Devices |-> <<>>]
    /\ UNCHANGED <<faults, row, event, expired, rollout, listener, down,
                   device, installed>>

\* The server process dies and comes back: the calls in progress are gone,
\* and so are messages nobody was subscribed for.  It starts "without MQTT"
\* when the broker cannot be reached.
ServerRestart ==
    /\ "server" \in faults
    /\ listener' = Idle
    /\ connected' \in BOOLEAN /\ (connected' \/ "broker" \in faults)
    /\ rollout' = [r \in Rollouts |->
           IF rollout[r].phase \in {"selected", "publishing"}
             THEN [rollout[r] EXCEPT !.phase = "done", !.todo = {}]
             ELSE rollout[r]]
    /\ up' = [d \in Devices |-> <<>>]
    /\ UNCHANGED <<faults, row, event, expired, down, device, installed>>

-----------------------------------------------------------------------------
Init ==
    /\ faults \in Scenarios
    /\ row \in [Devices -> {[status |-> None, fw |-> NULL],
                            [status |-> "unknown", fw |-> Factory]}]
    /\ event = [r \in Rollouts |-> [d \in Devices |-> None]]
    /\ expired = 0
    /\ rollout = [r \in Rollouts |->
                     [phase |-> "idle", target |-> Factory, todo |-> {}]]
    /\ listener = Idle
    /\ connected = TRUE
    /\ up = [d \in Devices |-> <<>>]
    /\ down = [d \in Devices |-> <<>>]
    /\ device = [d \in Devices |->
                    [image |-> Factory, boot |-> Factory, fresh |-> TRUE,
                     registered |-> FALSE, jobs |-> <<>>]]
    /\ installed = [d \in Devices |-> {}]

DeviceStep(d) ==
    \/ Register(d) \/ Heartbeat(d) \/ UptimePasses(d)
    \/ UptimeWraps(d)
    \/ ReceiveCommand(d) \/ OtaFails(d) \/ StartFlashing(d)
    \/ OtaFinishes(d) \/ Reboot(d) \/ PowerCycle(d)

RolloutStep(r) ==
    \/ BeginRollout(r) \/ CommitRollout(r) \/ PublishCommand(r)
    \/ PublishFails(r) \/ FinishRollout(r)

ListenerStep ==
    \/ \E d \in Devices : \/ HandleHeartbeat(d)
                          \/ HandleRegistration(d)
                          \/ HandleOtaStatus(d)
    \/ SelectPromotable \/ PromoteEvent \/ ApplyOtaStatus

Next ==
    \/ \E d \in Devices : DeviceStep(d) \/ MarkDead(d)
    \/ \E r \in Rollouts : RolloutStep(r)
    \/ \E v \in Versions : AbortRollout(v)
    \/ ListenerStep
    \/ WindowPasses \/ Disconnect \/ ServerRestart

Spec == Init /\ [][Next]_vars

(* Fairness.  Code that has started runs on: the coroutines of the server  *)
(* and the main loop of a board.  Messages of every board are taken in     *)
(* turn, and a board that is not inside an OTA polls its MQTT client on    *)
(* every loop, so its next command is read although heartbeats come in     *)
(* between.  Operators, faults and the passing of time are not fair.       *)
Fairness ==
    /\ WF_vars(SelectPromotable \/ PromoteEvent \/ ApplyOtaStatus)
    /\ \A d \in Devices :
         /\ SF_vars(HandleHeartbeat(d) \/ HandleRegistration(d)
                      \/ HandleOtaStatus(d))
         /\ SF_vars(ReceiveCommand(d))
         /\ WF_vars(OtaFails(d) \/ StartFlashing(d))
         /\ WF_vars(OtaFails(d) \/ OtaFinishes(d))
         /\ WF_vars(Reboot(d))
    /\ \A r \in Rollouts :
         WF_vars(CommitRollout(r) \/ PublishCommand(r) \/ FinishRollout(r))

FairSpec == Spec /\ Fairness
-----------------------------------------------------------------------------
(* Properties.                                                             *)

Phase == {"idle", "selected", "publishing", "done"}

\* Every variable keeps its type (the columns of models/device.py and
\* models/ota_event.py, the stages of handle_ota_command_).
TypeOK ==
    /\ faults \in Scenarios
    /\ row \in [Devices -> [status : {None, "unknown", "alive", "dead"},
                            fw : Versions \cup {NULL}]]
    /\ event \in [Rollouts -> [Devices -> EventStatus \cup {None}]]
    /\ expired \in 0 .. MaxRollouts
    /\ rollout \in [Rollouts -> [phase : Phase, target : Versions,
                                 todo : SUBSET Devices]]
    /\ listener \in Listener
    /\ connected \in BOOLEAN
    /\ up \in [Devices -> Seq(Message)]
    /\ down \in [Devices -> Seq(Versions)]
    /\ device \in [Devices -> [image : Versions, boot : Versions,
                               fresh : BOOLEAN, registered : BOOLEAN,
                               jobs : Seq(Job)]]
    /\ installed \in [Devices -> SUBSET Versions]

Ordered(d, version) ==
    \E r \in Rollouts : rollout[r].target = version /\ event[r][d] # None

\* start_rollout commits the events before it publishes the commands, so the
\* table accounts for everything that happens to a board: a command on its
\* way, an OTA in progress, a report about one and an image other than the
\* factory's all belong to an event row, whatever crashes or is lost.
NothingUnrecorded ==
    \A d \in Devices :
        /\ \A v \in Range(down[d]) : Ordered(d, v)
        /\ \A j \in Range(device[d].jobs) : Ordered(d, j.version)
        /\ \A m \in Range(up[d]) :
               m.kind = "status" => Ordered(d, m.version)
        /\ \A v \in {device[d].image, device[d].boot} :
               v = Factory \/ Ordered(d, v)

\* The firmware_version column always rests on evidence: the board's row names
\* the factory image, an image the board has really finished flashing, or a
\* version one of its events records as a success.
VersionHasEvidence ==
    \A d \in Devices :
        \/ row[d].fw \in {NULL, Factory} \cup installed[d]
        \/ \E r \in Rollouts : /\ rollout[r].target = row[d].fw
                              /\ event[r][d] = "success"

Holds(r, d) ==
    /\ listener.phase \in {"promoting", "reporting"}
    /\ listener.held = r /\ listener.dev = d

\* A settled event stays settled: abort, reports and heartbeats in any order
\* never change a success or a failure, and change a cancelled event only when
\* the listener had read it before the abort.
SettledStays ==
    [][\A r \in Rollouts, d \in Devices :
          event[r][d] \in {"success", "failed", "cancelled"} =>
             \/ event'[r][d] = event[r][d]
             \/ event[r][d] = "cancelled" /\ Holds(r, d)]_vars

\* A success that handle_ota_status writes is true: the board really finished
\* flashing that version, however many commands, restarts and losses came
\* before the report.
ReportedSuccessIsReal ==
    [][\A r \in Rollouts, d \in Devices :
          (/\ listener.phase = "reporting"
           /\ event[r][d] # "success" /\ event'[r][d] = "success")
             => rollout[r].target \in installed[d]]_vars

Progress == [pending |-> 1, downloading |-> 2, flashing |-> 3]

\* An event that is still in flight only moves forward, pending, downloading,
\* flashing, as CONTRACT.md section 11 lists them, when one rollout is made.
ProgressIsForward ==
    [][\A r \in Rollouts, d \in Devices :
          (event[r][d] \in InFlight /\ event'[r][d] \in InFlight)
             => Progress[event[r][d]] <= Progress[event'[r][d]]]_vars

\* Without faults every event of a rollout is settled in the end: the board
\* succeeds or fails and says so, or the rollout is aborted.  With faults it
\* need not: nothing sends a command or a report again.
EventSettles ==
    \A r \in Rollouts, d \in Devices :
        (faults = {} /\ event[r][d] \in InFlight)
            ~> event[r][d] \notin InFlight

-----------------------------------------------------------------------------
(* The table as OtaLedger describes it: the listener's hand is the event it *)
(* has read and not written yet.                                           *)

Hand ==
    IF listener.phase \in {"promoting", "reporting"}
      THEN <<listener.held, listener.dev>> ELSE <<>>

Ledger == INSTANCE OtaLedger WITH Nobody <- <<>>, ledger <- event, hand <- Hand

\* The pipeline implements the ledger: whatever boards, broker, handlers,
\* aborts and restarts do, every write to ota_events is one of its steps.
LedgerKept == Ledger!Spec

-----------------------------------------------------------------------------

\* abort_rollout: "Cancel all pending OTA events for a version."  A handler
\* that read the event before the abort overwrites it afterwards.
AbortSticks ==
    [][\A r \in Rollouts, d \in Devices :
          event[r][d] = "cancelled" => event'[r][d] = "cancelled"]_vars
=============================================================================

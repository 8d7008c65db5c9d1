---------------------------- MODULE FleetHealth ----------------------------
(***************************************************************************)
(* Alive or dead: the 30 s heartbeat of a board (esphome/common/base.yaml),*)
(* the handlers that stamp devices.last_seen (mqtt/handlers.py), the sweep *)
(* that marks silent boards dead (tasks/scheduler.py, check_dead_devices)  *)
(* and the alert it sends (services/alerting.py).                          *)
(*                                                                         *)
(* Time is discrete.  Tick advances every clock at once and waits for what *)
(* is due at this moment.  A tick is 10 s in the configurations.           *)
(***************************************************************************)
EXTENDS Naturals, Sequences

CONSTANTS
    Devices,
    Period,        \* ticks between two heartbeats of a board
    Threshold,     \* DEAD_THRESHOLD_SECONDS
    Interval,      \* CHECK_INTERVAL_SECONDS
    MaxDelay,      \* bound: ticks a message is on its way
    MaxAlert,      \* bound: ticks the delivery of one alert takes
    MaxCrashes,    \* bound: restarts of the server
    MayLose,       \* whether messages get lost
    BrokerFails    \* whether the server may lose its broker

ASSUME ClockAssumption ==
    /\ {Period, Threshold, Interval, MaxDelay, MaxAlert, MaxCrashes} \subseteq Nat
    /\ Period > 0 /\ Interval > 0
    /\ MaxDelay < Period
    /\ MayLose \in BOOLEAN /\ BrokerFails \in BOOLEAN

VARIABLES
    row,        \* devices table: status, and the age of last_seen
    board,      \* the boards: powered or not, and the heartbeat timer
    wire,       \* messages on their way to the server, per board
    connected,  \* the server's MQTT session is up and _listen runs
    listener,   \* a registration between its SELECT and its UPDATE
    sweep,      \* the job: its trigger's timer, the alert it is sending
    missed,     \* history: beats that failed since the server last heard d
    announced,  \* history: the boards whose death has been alerted
    crashes     \* history: restarts of the server

vars == <<row, board, wire, connected, listener, sweep, missed, announced,
          crashes>>

None == "none"
ASSUME NoneAssumption == None \notin Devices
Idle == [dev |-> None, loaded |-> None]

\* Ages are of interest up to the slowest detection the bounds allow.
MaxAge == Threshold + Interval * (1 + MaxCrashes + MaxAlert \div Interval) + 2
Older(age) == IF age < MaxAge THEN age + 1 ELSE age

-----------------------------------------------------------------------------
(* Boards.                                                                 *)

Sent(d, kind) == [wire EXCEPT ![d] = Append(@, [kind |-> kind, delay |-> 0])]

\* The interval of base.yaml publishes a heartbeat, QoS 0.  It gets through,
Heartbeat(d) ==
    /\ board[d].on /\ board[d].timer = Period
    /\ connected
    /\ board' = [board EXCEPT ![d].timer = 0]
    /\ wire' = Sent(d, "heartbeat")
    /\ UNCHANGED <<row, connected, listener, sweep, missed, announced, crashes>>

\* or is lost on the way, or nobody is subscribed to it.
HeartbeatLost(d) ==
    /\ board[d].on /\ board[d].timer = Period
    /\ MayLose \/ ~connected
    /\ board' = [board EXCEPT ![d].timer = 0]
    /\ missed' = [missed EXCEPT ![d] = IF @ < 2 THEN @ + 1 ELSE @]
    /\ UNCHANGED <<row, wire, connected, listener, sweep, announced, crashes>>

\* No power or no network; or the main loop is inside an OTA, where the
\* interval does not run and which ends with a reboot.
GoSilent(d) ==
    /\ board[d].on
    /\ board' = [board EXCEPT ![d].on = FALSE]
    /\ UNCHANGED <<row, wire, connected, listener, sweep, missed, announced,
                   crashes>>

\* on_boot publishes the registration, QoS 1.  The interval starts with an
\* offset of its own.  Booting takes longer than any message on its way.
Boot(d) ==
    /\ ~board[d].on
    /\ wire[d] = <<>>
    /\ \E offset \in 0 .. Period :
         board' = [board EXCEPT ![d] = [on |-> TRUE, timer |-> offset]]
    /\ wire' = IF connected THEN Sent(d, "register") ELSE wire
    /\ missed' = [missed EXCEPT ![d] = 2]
    /\ UNCHANGED <<row, connected, listener, sweep, announced, crashes>>

-----------------------------------------------------------------------------
(* The server's handlers.                                                  *)

Receives(d, kind) ==
    /\ connected /\ listener = Idle
    /\ wire[d] # <<>> /\ Head(wire[d]).kind = kind
    /\ wire' = [wire EXCEPT ![d] = Tail(@)]

Heard(d) ==
    /\ missed' = [missed EXCEPT ![d] = 0]
    /\ announced' = announced \ {d}

\* Mutant of HandleHeartbeat: only a row that is not there yet becomes alive.
HandleHeartbeatKeepsStatus(d) ==
    /\ Receives(d, "heartbeat")
    /\ row' = [row EXCEPT ![d] = [status |-> IF @.status = None THEN "alive"
                                                               ELSE @.status,
                                  age |-> 0]]
    /\ Heard(d)
    /\ UNCHANGED <<board, connected, listener, sweep, crashes>>

\* Mutant of HandleHeartbeat: last_seen is not stamped.
HandleHeartbeatUnstamped(d) ==
    /\ Receives(d, "heartbeat")
    /\ row' = [row EXCEPT ![d].status = "alive"]
    /\ Heard(d)
    /\ UNCHANGED <<board, connected, listener, sweep, crashes>>

\* handle_heartbeat: one UPDATE, or the INSERT of a minimal row.
HandleHeartbeat(d) ==
    /\ Receives(d, "heartbeat")
    /\ row' = [row EXCEPT ![d] = [status |-> "alive", age |-> 0]]
    /\ Heard(d)
    /\ UNCHANGED <<board, connected, listener, sweep, crashes>>

\* handle_registration reads the row ...
HandleRegistration(d) ==
    /\ Receives(d, "register")
    /\ listener' = [dev |-> d, loaded |-> row[d].status]
    /\ UNCHANGED <<row, board, connected, sweep, missed, announced, crashes>>

\* Mutant of WriteRegistration: the row is written as a whole, with a status
\* that is no status.
WriteRegistrationOnline ==
    /\ listener # Idle
    /\ LET d == listener.dev IN
         /\ row' = [row EXCEPT ![d] = [status |-> "online", age |-> 0]]
         /\ Heard(d)
    /\ listener' = Idle
    /\ UNCHANGED <<board, wire, connected, sweep, crashes>>

\* ... and writes the columns whose values differ from the ones it loaded.  A
\* status that was alive when it was loaded is not among them.
WriteRegistration ==
    /\ listener # Idle
    /\ LET d == listener.dev
           status == IF listener.loaded = "alive" THEN row[d].status ELSE "alive"
       IN  /\ row' = [row EXCEPT ![d] = [status |-> status, age |-> 0]]
           /\ missed' = [missed EXCEPT ![d] = 0]
           /\ announced' = IF status = "alive" THEN announced \ {d} ELSE announced
    /\ listener' = Idle
    /\ UNCHANGED <<board, wire, connected, sweep, crashes>>

-----------------------------------------------------------------------------
(* The sweep.  It runs every Interval; APScheduler skips a run while the   *)
(* one before it is still sending its alert (max_instances = 1).           *)

Silent == {d \in Devices : row[d].status = "alive" /\ row[d].age > Threshold}

MarkDead(dead) ==
    row' = [d \in Devices |->
               IF d \in dead THEN [row[d] EXCEPT !.status = "dead"] ELSE row[d]]

\* Mutant of CheckDeadDevices: the threshold is counted twice.
CheckDeadDevicesAt120 ==
    /\ sweep.timer = Interval /\ sweep.batch = {}
    /\ LET dead == {d \in Silent : row[d].age > Threshold + Threshold}
       IN  /\ MarkDead(dead)
           /\ sweep' = [timer |-> 0, batch |-> dead, elapsed |-> 0]
    /\ UNCHANGED <<board, wire, connected, listener, missed, announced, crashes>>

\* Mutant of CheckDeadDevices: a run starts although the alert is being sent,
\* and takes its place.
CheckDeadDevicesOverlapping ==
    /\ sweep.timer = Interval
    /\ MarkDead(Silent)
    /\ sweep' = [timer |-> 0, batch |-> Silent, elapsed |-> 0]
    /\ UNCHANGED <<board, wire, connected, listener, missed, announced, crashes>>

\* UPDATE ... WHERE status = 'alive' AND last_seen < threshold RETURNING ...,
\* committed before the alert.
CheckDeadDevices ==
    /\ sweep.timer = Interval /\ sweep.batch = {}
    /\ MarkDead(Silent)
    /\ sweep' = [timer |-> 0, batch |-> Silent, elapsed |-> 0]
    /\ UNCHANGED <<board, wire, connected, listener, missed, announced, crashes>>

SkipSweep ==
    /\ sweep.timer = Interval /\ sweep.batch # {}
    /\ sweep' = [sweep EXCEPT !.timer = 0]
    /\ UNCHANGED <<row, board, wire, connected, listener, missed, announced,
                   crashes>>

\* alert_service.device_dead has gone through its channels.  A channel that
\* fails logs it, and the job ends all the same.
DeviceDead ==
    /\ sweep.batch # {}
    /\ announced' = announced \cup sweep.batch
    /\ sweep' = [sweep EXCEPT !.batch = {}, !.elapsed = 0]
    /\ UNCHANGED <<row, board, wire, connected, listener, missed, crashes>>

-----------------------------------------------------------------------------
(* The server's life.                                                      *)

\* The broker drops the session.  The message iterator raises and _listen ends;
\* nothing starts it again.  A handler that runs goes on to its end.
Disconnect ==
    /\ BrokerFails /\ connected
    /\ connected' = FALSE
    /\ wire' = [d \in Devices |-> <<>>]
    /\ missed' = [d \in Devices |-> IF wire[d] = <<>> THEN missed[d] ELSE 2]
    /\ UNCHANGED <<row, board, listener, sweep, announced, crashes>>

\* The process is restarted: handlers and alerts in progress are gone, the
\* trigger starts again, messages nobody was subscribed for are lost.  When the
\* broker cannot be reached, lifespan logs "running without MQTT" and goes on.
ServerRestart ==
    /\ crashes < MaxCrashes
    /\ crashes' = crashes + 1
    /\ connected' \in BOOLEAN /\ (connected' \/ BrokerFails)
    /\ listener' = Idle
    /\ sweep' = [timer |-> 0, batch |-> {}, elapsed |-> 0]
    /\ wire' = [d \in Devices |-> <<>>]
    /\ missed' = [d \in Devices |-> 2]
    /\ UNCHANGED <<row, board, announced>>

-----------------------------------------------------------------------------
\* Time passes when nothing is overdue.
Tick ==
    /\ listener = Idle
    /\ \A d \in Devices : board[d].on => board[d].timer < Period
    /\ \A d \in Devices : \A i \in DOMAIN wire[d] : wire[d][i].delay < MaxDelay
    /\ sweep.timer < Interval
    /\ sweep.batch # {} => sweep.elapsed < MaxAlert
    /\ row' = [d \in Devices |-> [row[d] EXCEPT !.age = Older(@)]]
    /\ board' = [d \in Devices |->
           IF board[d].on THEN [board[d] EXCEPT !.timer = @ + 1] ELSE board[d]]
    /\ wire' = [d \in Devices |-> [i \in DOMAIN wire[d] |->
                                      [wire[d][i] EXCEPT !.delay = @ + 1]]]
    /\ sweep' = [sweep EXCEPT !.timer = @ + 1,
                              !.elapsed = IF sweep.batch = {} THEN 0 ELSE @ + 1]
    /\ UNCHANGED <<connected, listener, missed, announced, crashes>>

\* Boards that are not registered yet, or entered in the console ("unknown",
\* last_seen NULL, which no comparison with a threshold selects).
Init ==
    /\ \E known \in SUBSET Devices :
         row = [d \in Devices |->
                   [status |-> IF d \in known THEN "unknown" ELSE None, age |-> 0]]
    /\ board = [d \in Devices |-> [on |-> FALSE, timer |-> 0]]
    /\ wire = [d \in Devices |-> <<>>]
    /\ connected = TRUE
    /\ listener = Idle
    /\ sweep = [timer |-> 0, batch |-> {}, elapsed |-> 0]
    /\ missed = [d \in Devices |-> 2]
    /\ announced = {}
    /\ crashes = 0

BoardStep(d) == Heartbeat(d) \/ HeartbeatLost(d) \/ GoSilent(d) \/ Boot(d)

HandlerStep ==
    \/ \E d \in Devices : HandleHeartbeat(d) \/ HandleRegistration(d)
    \/ WriteRegistration

SweepStep == CheckDeadDevices \/ SkipSweep \/ DeviceDead

Next ==
    \/ \E d \in Devices : BoardStep(d)
    \/ HandlerStep
    \/ SweepStep
    \/ Disconnect \/ ServerRestart
    \/ Tick

Spec == Init /\ [][Next]_vars

(* Time passes, boards that are on keep beating, handlers and jobs run on. *)
(* The network loses messages but not for ever: a board that beats again   *)
(* and again gets one through.  Restarts and broken sessions are not fair. *)
FairSpec ==
    /\ Spec
    /\ WF_vars(Tick) /\ WF_vars(WriteRegistration)
    /\ WF_vars(CheckDeadDevices \/ SkipSweep) /\ WF_vars(DeviceDead)
    /\ \A d \in Devices :
         /\ WF_vars(Heartbeat(d) \/ HeartbeatLost(d))
         /\ SF_vars(Heartbeat(d))
         /\ SF_vars(HandleHeartbeat(d) \/ HandleRegistration(d))

-----------------------------------------------------------------------------
(* Properties.                                                             *)

RowStatus == {None, "unknown", "alive", "dead"}
Row == [status : RowStatus, age : 0 .. MaxAge]
Board == [on : BOOLEAN, timer : 0 .. Period]
Message == [kind : {"heartbeat", "register"}, delay : 0 .. MaxDelay]
Sweeping == [timer : 0 .. Interval, batch : SUBSET Devices, elapsed : 0 .. MaxAlert]

\* Every variable keeps its type (devices.status of models/device.py).
TypeOK ==
    /\ row \in [Devices -> Row]
    /\ board \in [Devices -> Board]
    /\ wire \in [Devices -> Seq(Message)]
    /\ connected \in BOOLEAN
    /\ listener \in {Idle} \cup [dev : Devices, loaded : RowStatus]
    /\ sweep \in Sweeping
    /\ missed \in [Devices -> 0 .. 2]
    /\ announced \subseteq Devices
    /\ crashes \in 0 .. MaxCrashes

\* The comment on DEAD_THRESHOLD_SECONDS: "Worst-case detection time: 60 s
\* threshold + 30 s sweep = 90 s."  That is when alerts take less than 30 s:
\* every run that is skipped because the alert before it is still being sent
\* costs one more interval, and so does every restart of the server.
DetectedWithin ==
    \A d \in Devices :
        row[d].status = "alive" =>
            row[d].age <= Threshold + Interval * (1 + crashes + MaxAlert \div Interval)

\* A board that is on is heard: unless two of its beats in a row failed or the
\* server was away, last_seen is never further back than one period, one more
\* for a beat that was lost, and the delay of a message.
HeardWithin ==
    \A d \in Devices :
        (board[d].on /\ missed[d] < 2) =>
            row[d].age <= Period * (1 + missed[d]) + MaxDelay

\* The comment on DEAD_THRESHOLD_SECONDS: "Threshold = 2 missed beats so a
\* single network blip doesn't flip a device to dead."  So a board that is on
\* would be marked dead only when two beats in a row failed, or it has not been
\* heard since it booted.  With a threshold of two periods it is not so: the
\* beat after the lost one is still on its way when the sweep runs.
SingleBlipTolerated ==
    [][\A d \in Devices :
          (row[d].status = "alive" /\ row'[d].status = "dead" /\ board[d].on)
              => missed[d] >= 2]_vars

\* Every death is announced: a row that says dead has been in an alert since
\* the board was last heard, or is in the one being sent.  Only a restart
\* between the commit and the alert loses one.
DeathsAnnounced ==
    \A d \in Devices :
        row[d].status = "dead" =>
            d \in announced \cup sweep.batch \/ crashes > 0

\* A board that is on does not stay dead: it is alive again, or off, although
\* beats get lost and the sweep may run between any two steps of the handlers.
\* Only a server without its broker session leaves it dead, and that one for as
\* long as it runs: nothing connects it again.
Revives ==
    \A d \in Devices :
        (row[d].status = "dead" /\ board[d].on)
            ~> (row[d].status = "alive" \/ ~board[d].on \/ ~connected)

=============================================================================

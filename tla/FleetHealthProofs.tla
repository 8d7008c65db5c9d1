------------------------- MODULE FleetHealthProofs -------------------------
(***************************************************************************)
(* What FleetHealth guarantees for any number of boards, any period,       *)
(* threshold and interval: types, and the time it takes to notice a silent *)
(* board.                                                                  *)
(***************************************************************************)
EXTENDS FleetHealth, SequenceTheorems, TLAPS

\* The runs of the sweep one alert can make APScheduler skip.
Skips == MaxAlert \div Interval

LEMMA SkipsNat == Skips \in Nat /\ MaxAlert < Interval * (Skips + 1)
  BY ClockAssumption DEF Skips

LEMMA MaxAgeNat == MaxAge \in Nat /\ MaxAge > 0
  <1>1. Interval * (1 + MaxCrashes + Skips) \in Nat
    BY ClockAssumption, SkipsNat
  <1> QED
    BY <1>1, ClockAssumption DEF MaxAge, Skips

LEMMA OlderType == \A age \in 0 .. MaxAge : Older(age) \in 0 .. MaxAge
  BY MaxAgeNat DEF Older

LEMMA TypeInit == Init => TypeOK
  <1> SUFFICES ASSUME Init PROVE TypeOK
    OBVIOUS
  <1>1. PICK known \in SUBSET Devices :
          row = [d \in Devices |->
                    [status |-> IF d \in known THEN "unknown" ELSE None, age |-> 0]]
    BY DEF Init
  <1>2. row \in [Devices -> Row]
    BY <1>1, MaxAgeNat DEF Row, RowStatus
  <1>3. board \in [Devices -> Board] /\ sweep \in Sweeping
    BY ClockAssumption DEF Init, Board, Sweeping
  <1>4. wire \in [Devices -> Seq(Message)]
    BY DEF Init
  <1> QED
    BY <1>2, <1>3, <1>4, ClockAssumption DEF Init, TypeOK

LEMMA SentType ==
  ASSUME TypeOK, NEW d \in Devices, NEW kind \in {"heartbeat", "register"}
  PROVE  Sent(d, kind) \in [Devices -> Seq(Message)]
  <1>1. [kind |-> kind, delay |-> 0] \in Message
    BY ClockAssumption DEF Message
  <1>2. wire \in [Devices -> Seq(Message)]
    BY DEF TypeOK
  <1>3. Append(wire[d], [kind |-> kind, delay |-> 0]) \in Seq(Message)
    BY <1>1, <1>2, AppendProperties
  <1> QED
    BY <1>2, <1>3 DEF Sent

LEMMA ReceivesType ==
  ASSUME TypeOK, NEW d \in Devices, NEW kind, Receives(d, kind)
  PROVE  wire' \in [Devices -> Seq(Message)]
  <1>1. wire[d] \in Seq(Message) /\ wire[d] # <<>>
    BY DEF TypeOK, Receives
  <1>2. Tail(wire[d]) \in Seq(Message)
    BY <1>1
  <1> QED
    BY <1>2 DEF Receives, TypeOK

LEMMA TypeStep == TypeOK /\ [Next]_vars => TypeOK'
  <1> SUFFICES ASSUME TypeOK, [Next]_vars PROVE TypeOK'
    OBVIOUS
  <1>a. 0 \in 0 .. Period /\ 0 \in 0 .. Interval /\ 0 \in 0 .. MaxAlert
        /\ 0 \in 0 .. MaxAge
    BY ClockAssumption, MaxAgeNat
  <1>b. /\ \A d \in Devices : row[d] \in Row /\ board[d] \in Board
        /\ sweep \in Sweeping
    BY DEF TypeOK
  <1>c. ASSUME NEW d \in Devices, board' = [board EXCEPT ![d].timer = 0]
        PROVE  board' \in [Devices -> Board]
    <2>1. [board[d] EXCEPT !.timer = 0] \in Board
      BY <1>a, <1>b DEF Board
    <2> QED
      BY <1>c, <2>1 DEF TypeOK
  <1>1. ASSUME NEW d \in Devices, Heartbeat(d) PROVE TypeOK'
    <2>1. wire' \in [Devices -> Seq(Message)]
      BY <1>1, SentType DEF Heartbeat
    <2>2. board' \in [Devices -> Board]
      BY <1>1, <1>c DEF Heartbeat
    <2> QED
      BY <1>1, <2>1, <2>2 DEF Heartbeat, TypeOK
  <1>13. ASSUME NEW d \in Devices, HeartbeatLost(d) PROVE TypeOK'
    <2>1. board' \in [Devices -> Board]
      BY <1>13, <1>c DEF HeartbeatLost
    <2>2. missed' \in [Devices -> 0 .. 2]
      <3>1. (IF missed[d] < 2 THEN missed[d] + 1 ELSE missed[d]) \in 0 .. 2
        BY DEF TypeOK
      <3> QED
        BY <1>13, <3>1 DEF HeartbeatLost, TypeOK
    <2> QED
      BY <1>13, <2>1, <2>2 DEF HeartbeatLost, TypeOK
  <1>2. ASSUME NEW d \in Devices, GoSilent(d) PROVE TypeOK'
    <2>1. [board[d] EXCEPT !.on = FALSE] \in Board
      BY <1>b DEF Board
    <2> QED
      BY <1>2, <2>1 DEF GoSilent, TypeOK
  <1>3. ASSUME NEW d \in Devices, Boot(d) PROVE TypeOK'
    <2>1. wire' \in [Devices -> Seq(Message)]
      BY <1>3, SentType DEF Boot, TypeOK
    <2>2. board' \in [Devices -> Board]
      <3>1. PICK offset \in 0 .. Period :
              board' = [board EXCEPT ![d] = [on |-> TRUE, timer |-> offset]]
        BY <1>3 DEF Boot
      <3>2. [on |-> TRUE, timer |-> offset] \in Board
        BY DEF Board
      <3> QED
        BY <3>1, <3>2 DEF TypeOK
    <2>3. missed' \in [Devices -> 0 .. 2]
      BY <1>3 DEF Boot, TypeOK
    <2> QED
      BY <1>3, <2>1, <2>2, <2>3 DEF Boot, TypeOK
  <1>4. ASSUME NEW d \in Devices, HandleHeartbeat(d) PROVE TypeOK'
    <2>1. wire' \in [Devices -> Seq(Message)]
      BY <1>4, ReceivesType DEF HandleHeartbeat
    <2>2. [status |-> "alive", age |-> 0] \in Row
      BY <1>a DEF Row, RowStatus
    <2>3. row' \in [Devices -> Row]
      BY <1>4, <2>2 DEF HandleHeartbeat, TypeOK
    <2>4. missed' \in [Devices -> 0 .. 2] /\ announced' \subseteq Devices
      BY <1>4 DEF HandleHeartbeat, Heard, TypeOK
    <2> QED
      BY <1>4, <2>1, <2>3, <2>4 DEF HandleHeartbeat, TypeOK
  <1>5. ASSUME NEW d \in Devices, HandleRegistration(d) PROVE TypeOK'
    <2>1. wire' \in [Devices -> Seq(Message)]
      BY <1>5, ReceivesType DEF HandleRegistration
    <2>2. row[d].status \in RowStatus
      BY <1>b DEF Row
    <2>3. listener' \in [dev : Devices, loaded : RowStatus]
      BY <1>5, <2>2 DEF HandleRegistration
    <2> QED
      BY <1>5, <2>1, <2>3 DEF HandleRegistration, TypeOK
  <1>6. CASE WriteRegistration
    <2>1. listener.dev \in Devices
      BY <1>6 DEF WriteRegistration, TypeOK
    <2> DEFINE d == listener.dev
               status == IF listener.loaded = "alive" THEN row[d].status ELSE "alive"
    <2>2. [status |-> status, age |-> 0] \in Row
      BY <1>a, <1>b, <2>1 DEF Row, RowStatus
    <2>3. row' = [row EXCEPT ![d] = [status |-> status, age |-> 0]]
      BY <1>6 DEF WriteRegistration
    <2> HIDE DEF status
    <2>4. row' \in [Devices -> Row]
      BY <2>1, <2>2, <2>3 DEF TypeOK
    <2>5. missed' \in [Devices -> 0 .. 2]
      BY <1>6, <2>1 DEF WriteRegistration, TypeOK
    <2>6. announced' \subseteq Devices
      BY <1>6 DEF WriteRegistration, TypeOK
    <2> QED
      BY <1>6, <2>4, <2>5, <2>6 DEF WriteRegistration, TypeOK
  <1>7. CASE CheckDeadDevices
    <2>1. Silent \in SUBSET Devices
      BY DEF Silent
    <2>2. row' \in [Devices -> Row]
      <3>1. ASSUME NEW d \in Devices
            PROVE  [row[d] EXCEPT !.status = "dead"] \in Row
        BY <1>b DEF Row, RowStatus
      <3> QED
        BY <1>7, <1>b, <3>1 DEF CheckDeadDevices, MarkDead
    <2>3. sweep' \in Sweeping
      BY <1>7, <2>1, <1>a DEF CheckDeadDevices, Sweeping
    <2> QED
      BY <1>7, <2>2, <2>3 DEF CheckDeadDevices, TypeOK
  <1>8. CASE SkipSweep
    <2>1. [sweep EXCEPT !.timer = 0] \in Sweeping
      BY <1>a, <1>b DEF Sweeping
    <2> QED
      BY <1>8, <2>1 DEF SkipSweep, TypeOK
  <1>9. CASE DeviceDead
    <2>1. [sweep EXCEPT !.batch = {}, !.elapsed = 0] \in Sweeping
          /\ sweep.batch \subseteq Devices
      BY <1>a, <1>b DEF Sweeping
    <2> QED
      BY <1>9, <2>1 DEF DeviceDead, TypeOK
  <1>10. CASE ServerRestart
    <2>1. wire' \in [Devices -> Seq(Message)]
      BY <1>10 DEF ServerRestart
    <2>2. sweep' \in Sweeping
      BY <1>10, <1>a DEF ServerRestart, Sweeping
    <2>3. crashes' \in 0 .. MaxCrashes /\ missed' \in [Devices -> 0 .. 2]
      BY <1>10, ClockAssumption DEF ServerRestart, TypeOK
    <2> QED
      BY <1>10, <2>1, <2>2, <2>3 DEF ServerRestart, TypeOK
  <1>11. CASE Tick
    <2>1. row' \in [Devices -> Row]
      <3>1. ASSUME NEW d \in Devices
            PROVE  [row[d] EXCEPT !.age = Older(@)] \in Row
        <4>1. Older(row[d].age) \in 0 .. MaxAge
          BY <1>b, OlderType DEF Row
        <4> QED
          BY <4>1, <1>b DEF Row
      <3> QED
        BY <1>11, <3>1 DEF Tick
    <2>2. wire' \in [Devices -> Seq(Message)]
      <3>1. ASSUME NEW d \in Devices
            PROVE  [i \in DOMAIN wire[d] |-> [wire[d][i] EXCEPT !.delay = @ + 1]]
                     \in Seq(Message)
        <4>1. wire[d] \in Seq(Message)
          BY DEF TypeOK
        <4>2. ASSUME NEW i \in DOMAIN wire[d]
              PROVE  [wire[d][i] EXCEPT !.delay = @ + 1] \in Message
          <5>1. wire[d][i] \in Message /\ wire[d][i].delay < MaxDelay
            BY <1>11, <4>1, <4>2 DEF Tick
          <5>2. wire[d][i].delay + 1 \in 0 .. MaxDelay
            BY <5>1, ClockAssumption DEF Message
          <5> QED
            BY <5>1, <5>2 DEF Message
        <4>3. DOMAIN wire[d] = 1 .. Len(wire[d]) /\ Len(wire[d]) \in Nat
          BY <4>1
        <4> QED
          BY <4>2, <4>3, IsASeq
      <3> QED
        BY <3>1, <1>11 DEF Tick
    <2>3. board' \in [Devices -> Board]
      <3>1. ASSUME NEW d \in Devices, board[d].on
            PROVE  [board[d] EXCEPT !.timer = @ + 1] \in Board
        <4>1. board[d].timer + 1 \in 0 .. Period
          BY <1>11, <1>b, <3>1, ClockAssumption DEF Tick, Board
        <4> QED
          BY <4>1, <1>b DEF Board
      <3> QED
        BY <1>11, <1>b, <3>1 DEF Tick
    <2>4. sweep' \in Sweeping
      <3>1. sweep.timer + 1 \in 0 .. Interval
        BY <1>11, <1>b, ClockAssumption DEF Tick, Sweeping
      <3>2. (IF sweep.batch = {} THEN 0 ELSE sweep.elapsed + 1) \in 0 .. MaxAlert
        BY <1>11, <1>b, ClockAssumption DEF Tick, Sweeping
      <3> QED
        BY <1>11, <1>b, <3>1, <3>2 DEF Tick, Sweeping
    <2> QED
      BY <1>11, <2>1, <2>2, <2>3, <2>4 DEF Tick, TypeOK
  <1>12. CASE UNCHANGED vars
    BY <1>12 DEF vars, TypeOK
  <1>14. CASE Disconnect
    <2>1. wire' \in [Devices -> Seq(Message)]
      BY <1>14 DEF Disconnect
    <2>2. missed' \in [Devices -> 0 .. 2]
      BY <1>14 DEF Disconnect, TypeOK
    <2> QED
      BY <1>14, <2>1, <2>2 DEF Disconnect, TypeOK
  <1> QED
    BY <1>1, <1>2, <1>3, <1>4, <1>5, <1>6, <1>7, <1>8, <1>9, <1>10, <1>11, <1>12,
       <1>13, <1>14 DEF Next, BoardStep, HandlerStep, SweepStep

\* Type correctness of the sweep, the handlers and the boards.
THEOREM TypeCorrect == Spec => []TypeOK
  BY TypeInit, TypeStep, PTL DEF Spec

-----------------------------------------------------------------------------
(* Detection time.                                                         *)

\* While an alert is being sent, the sweep that found its boards ran elapsed
\* ticks ago, a whole number of intervals before the trigger's last one, and no
\* alive row is older than that allows.  At other times the trigger's last
\* interval may have been the last of Skips that were skipped.
SweepInv ==
    /\ sweep.batch # {} => \E k \in Nat : sweep.elapsed = Interval * k + sweep.timer
    /\ \A d \in Devices :
          row[d].status = "alive" =>
              row[d].age <= Threshold + Interval * crashes
                              + IF sweep.batch # {} THEN sweep.elapsed
                                ELSE sweep.timer + Interval * Skips

\* An alert is never older than the intervals it may last.
LEMMA ElapsedBound ==
  ASSUME TypeOK, SweepInv, sweep.batch # {}
  PROVE  sweep.elapsed <= sweep.timer + Interval * Skips
  <1> USE ClockAssumption
  <1>1. PICK k \in Nat : sweep.elapsed = Interval * k + sweep.timer
    BY DEF SweepInv
  <1>2. sweep.timer \in Nat /\ sweep.elapsed \in 0 .. MaxAlert
    BY DEF TypeOK, Sweeping
  <1>3. Interval * k <= MaxAlert
    BY <1>1, <1>2
  <1>4. k < Skips + 1
    <2> SUFFICES ASSUME k >= Skips + 1 PROVE FALSE
      BY SkipsNat
    <2>1. Interval * k >= Interval * (Skips + 1)
      BY SkipsNat
    <2> QED
      BY <1>3, <2>1, SkipsNat
  <1>5. Interval * k <= Interval * Skips
    BY <1>4, SkipsNat
  <1> QED
    BY <1>1, <1>2, <1>5, SkipsNat

LEMMA SweepInit == Init => SweepInv
  <1> SUFFICES ASSUME Init PROVE SweepInv
    OBVIOUS
  <1>1. \A d \in Devices : row[d].status # "alive"
    <2>1. PICK known \in SUBSET Devices :
            row = [d \in Devices |->
                      [status |-> IF d \in known THEN "unknown" ELSE None, age |-> 0]]
      BY DEF Init
    <2> QED
      BY <2>1 DEF None
  <1> QED
    BY <1>1 DEF Init, SweepInv

LEMMA SweepNext ==
  ASSUME TypeOK, SweepInv, [Next]_vars
  PROVE  SweepInv'
  <1> USE ClockAssumption
  <1>a. /\ Interval * crashes \in Nat /\ crashes \in Nat
        /\ Interval * Skips \in Nat
    BY SkipsNat DEF TypeOK
  <1>b. /\ sweep.timer \in 0 .. Interval
        /\ sweep.elapsed \in 0 .. MaxAlert
        /\ \A d \in Devices : row[d].age \in Nat
    BY MaxAgeNat DEF TypeOK, Row, Sweeping
  <1>c. ASSUME UNCHANGED <<sweep, crashes>>,
               \A d \in Devices : row'[d] = row[d] \/ row'[d].age = 0
        PROVE  SweepInv'
    <2>1. sweep.batch # {} => \E k \in Nat : sweep'.elapsed = Interval * k + sweep'.timer
      BY <1>c DEF SweepInv
    <2>2. ASSUME NEW d \in Devices, row'[d].status = "alive"
          PROVE  row'[d].age <= Threshold + Interval * crashes
                              + IF sweep.batch # {} THEN sweep.elapsed
                                ELSE sweep.timer + Interval * Skips
      BY <1>a, <1>b, <1>c, <2>2 DEF SweepInv
    <2> QED
      BY <1>c, <2>1, <2>2 DEF SweepInv
  <1>1. ASSUME NEW d \in Devices, BoardStep(d) PROVE SweepInv'
    BY <1>1, <1>c DEF BoardStep, Heartbeat, HeartbeatLost, GoSilent, Boot
  <1>2. ASSUME NEW d \in Devices, HandleHeartbeat(d) PROVE SweepInv'
    BY <1>2, <1>c DEF HandleHeartbeat, TypeOK
  <1>3. ASSUME NEW d \in Devices, HandleRegistration(d) PROVE SweepInv'
    BY <1>3, <1>c DEF HandleRegistration
  <1>4. CASE WriteRegistration
    <2>1. row' = [row EXCEPT ![listener.dev] =
                     [status |-> IF listener.loaded = "alive"
                                   THEN row[listener.dev].status ELSE "alive",
                      age |-> 0]]
      BY <1>4 DEF WriteRegistration
    <2>2. \A d \in Devices : row'[d] = row[d] \/ row'[d].age = 0
      BY <2>1 DEF TypeOK
    <2> QED
      BY <1>4, <1>c, <2>2 DEF WriteRegistration
  <1>5. CASE CheckDeadDevices
    <2>1. sweep'.timer = 0 /\ sweep'.elapsed = 0 /\ crashes' = crashes
      BY <1>5 DEF CheckDeadDevices
    <2>2. ASSUME NEW d \in Devices, row'[d].status = "alive"
          PROVE  row'[d].age <= Threshold
      <3>1. d \notin Silent /\ row'[d] = row[d]
        BY <1>5, <2>2 DEF CheckDeadDevices, MarkDead, TypeOK
      <3> QED
        BY <3>1, <2>2, <1>b DEF Silent
    <2>3. \A d \in Devices : row'[d].age \in Nat
      BY <1>5, <1>b DEF CheckDeadDevices, MarkDead, TypeOK, Row
    <2>4. \E k \in Nat : sweep'.elapsed = Interval * k + sweep'.timer
      <3>1. sweep'.elapsed = Interval * 0 + sweep'.timer
        BY <2>1
      <3> QED
        BY <3>1
    <2>5. ASSUME NEW d \in Devices, row'[d].status = "alive"
          PROVE  row'[d].age <= Threshold + Interval * crashes'
                              + IF sweep'.batch # {} THEN sweep'.elapsed
                                ELSE sweep'.timer + Interval * Skips
      BY <2>1, <2>2, <2>3, <2>5, <1>a
    <2> QED
      BY <2>4, <2>5 DEF SweepInv
  <1>6. CASE SkipSweep
    <2>1. /\ sweep.batch # {} /\ sweep'.batch = sweep.batch
          /\ sweep.timer = Interval /\ sweep'.timer = 0
          /\ sweep'.elapsed = sweep.elapsed
          /\ UNCHANGED <<row, crashes>>
      BY <1>6 DEF SkipSweep, TypeOK, Sweeping
    <2>2. PICK k \in Nat : sweep.elapsed = Interval * k + Interval
      BY <2>1 DEF SweepInv
    <2>3. sweep'.elapsed = Interval * (k + 1) + sweep'.timer
      BY <2>1, <2>2
    <2> QED
      BY <2>1, <2>3 DEF SweepInv
  <1>7. CASE DeviceDead
    <2>1. /\ sweep.batch # {} /\ sweep'.batch = {} /\ sweep'.timer = sweep.timer
          /\ UNCHANGED <<row, crashes>>
      BY <1>7 DEF DeviceDead, TypeOK, Sweeping
    <2>2. sweep.elapsed <= sweep.timer + Interval * Skips
      BY <2>1, ElapsedBound
    <2> QED
      BY <2>1, <2>2, <1>a, <1>b DEF SweepInv
  <1>8. CASE ServerRestart
    <2>1. sweep'.timer = 0 /\ sweep'.batch = {} /\ crashes' = crashes + 1 /\ row' = row
      BY <1>8 DEF ServerRestart
    <2>2. Interval * (crashes + 1) = Interval * crashes + Interval
      BY <1>a
    <2>3. sweep.batch # {} => sweep.elapsed <= sweep.timer + Interval * Skips
      BY ElapsedBound
    <2>4. ASSUME NEW d \in Devices, row[d].status = "alive"
          PROVE  row[d].age <= Threshold + Interval * crashes + sweep.timer
                                 + Interval * Skips
      BY <2>3, <2>4, <1>a, <1>b DEF SweepInv
    <2> QED
      BY <2>1, <2>2, <2>4, <1>a, <1>b DEF SweepInv
  <1>9. CASE Tick
    <2>1. /\ sweep'.timer = sweep.timer + 1
          /\ sweep'.batch = sweep.batch
          /\ sweep.batch # {} => sweep'.elapsed = sweep.elapsed + 1
          /\ crashes' = crashes
      BY <1>9 DEF Tick, TypeOK, Sweeping
    <2>2. ASSUME NEW d \in Devices
          PROVE  /\ row'[d].status = row[d].status
                 /\ row'[d].age \in {row[d].age, row[d].age + 1}
      BY <1>9 DEF Tick, Older, TypeOK, Row
    <2>3. ASSUME sweep.batch # {}
          PROVE  \E k \in Nat : sweep'.elapsed = Interval * k + sweep'.timer
      <3>1. PICK k \in Nat : sweep.elapsed = Interval * k + sweep.timer
        BY <2>3 DEF SweepInv
      <3>2. Interval * k \in Nat
        OBVIOUS
      <3>3. sweep'.elapsed = Interval * k + sweep'.timer
        BY <2>1, <2>3, <3>1, <3>2, <1>b
      <3> QED
        BY <3>3
    <2>4. ASSUME NEW d \in Devices, row'[d].status = "alive"
          PROVE  row'[d].age <= Threshold + Interval * crashes'
                              + IF sweep'.batch # {} THEN sweep'.elapsed
                                ELSE sweep'.timer + Interval * Skips
      BY <2>1, <2>2, <2>4, <1>a, <1>b DEF SweepInv
    <2> QED
      BY <2>1, <2>3, <2>4 DEF SweepInv
  <1>10. CASE Disconnect \/ UNCHANGED vars
    BY <1>10, <1>c DEF Disconnect, vars
  <1> QED
    BY <1>1, <1>2, <1>3, <1>4, <1>5, <1>6, <1>7, <1>8, <1>9, <1>10
       DEF Next, BoardStep, HandlerStep, SweepStep

LEMMA SweepImplies == TypeOK /\ SweepInv => DetectedWithin
  <1> SUFFICES ASSUME TypeOK, SweepInv, NEW d \in Devices,
                      row[d].status = "alive"
               PROVE  row[d].age <= Threshold + Interval * (1 + crashes + Skips)
    BY DEF DetectedWithin, Skips
  <1>1. /\ crashes \in Nat /\ sweep.timer \in 0 .. Interval
        /\ sweep.elapsed \in Nat /\ row[d].age \in Nat
    BY ClockAssumption, MaxAgeNat DEF TypeOK, Sweeping, Row
  <1>2. /\ Interval * crashes \in Nat /\ Interval * Skips \in Nat
        /\ Interval * (1 + crashes + Skips)
             = Interval + Interval * crashes + Interval * Skips
    BY <1>1, ClockAssumption, SkipsNat
  <1>3. sweep.batch # {} => sweep.elapsed <= sweep.timer + Interval * Skips
    BY ElapsedBound
  <1> QED
    BY <1>1, <1>2, <1>3, ClockAssumption DEF SweepInv

\* check_dead_devices finds a silent board within threshold plus interval, one
\* interval more per restart and one more per run that an alert makes it skip,
\* for any number of boards and any settings.  Alerts shorter than an interval
\* give the comment's 60 s + 30 s.
THEOREM DetectionTime == Spec => []DetectedWithin
  <1>1. TypeOK /\ SweepInv /\ [Next]_vars => (TypeOK /\ SweepInv)'
    BY SweepNext, TypeStep
  <1>2. Init => TypeOK /\ SweepInv
    BY TypeInit, SweepInit
  <1>3. TypeOK /\ SweepInv => DetectedWithin
    BY SweepImplies
  <1> QED
    BY <1>1, <1>2, <1>3, PTL DEF Spec

-----------------------------------------------------------------------------
(* Alerts.                                                                 *)

LEMMA AnnouncedStep ==
  ASSUME TypeOK, DeathsAnnounced, [Next]_vars
  PROVE  DeathsAnnounced'
  <1>a. crashes \in Nat
    BY ClockAssumption DEF TypeOK
  <1>1. ASSUME NEW d \in Devices, BoardStep(d) PROVE DeathsAnnounced'
    BY <1>1 DEF BoardStep, Heartbeat, HeartbeatLost, GoSilent, Boot, DeathsAnnounced
  <1>2. ASSUME NEW d \in Devices, HandleHeartbeat(d) PROVE DeathsAnnounced'
    <2>1. ASSUME NEW e \in Devices
          PROVE  (row'[e] = row[e] /\ e # d) \/ row'[e].status = "alive"
      BY <1>2 DEF HandleHeartbeat, TypeOK
    <2> QED
      BY <1>2, <2>1 DEF HandleHeartbeat, Heard, DeathsAnnounced
  <1>3. ASSUME NEW d \in Devices, HandleRegistration(d) PROVE DeathsAnnounced'
    BY <1>3 DEF HandleRegistration, DeathsAnnounced
  <1>4. CASE WriteRegistration
    <2> DEFINE d == listener.dev
               status == IF listener.loaded = "alive" THEN row[d].status ELSE "alive"
    <2>1. /\ row' = [row EXCEPT ![d] = [status |-> status, age |-> 0]]
          /\ announced' = IF status = "alive" THEN announced \ {d} ELSE announced
          /\ UNCHANGED <<sweep, crashes>>
      BY <1>4 DEF WriteRegistration
    <2>2. ASSUME NEW e \in Devices, row'[e].status = "dead"
          PROVE  row[e].status = "dead" /\ (e \in announced => e \in announced')
      <3>1. CASE e = d
        BY <2>1, <2>2, <3>1 DEF TypeOK
      <3>2. CASE e # d
        BY <2>1, <2>2, <3>2 DEF TypeOK
      <3> QED
        BY <3>1, <3>2
    <2> QED
      BY <2>1, <2>2 DEF DeathsAnnounced
  <1>5. CASE CheckDeadDevices
    <2>1. ASSUME NEW d \in Devices, row'[d].status = "dead"
          PROVE  d \in Silent \/ row[d].status = "dead"
      BY <1>5, <2>1 DEF CheckDeadDevices, MarkDead
    <2>2. /\ sweep.batch = {} /\ sweep'.batch = Silent
          /\ announced' = announced /\ crashes' = crashes
      BY <1>5 DEF CheckDeadDevices
    <2> QED
      BY <2>1, <2>2 DEF DeathsAnnounced
  <1>6. CASE SkipSweep
    <2>1. sweep'.batch = sweep.batch
      BY <1>6 DEF SkipSweep, TypeOK, Sweeping
    <2> QED
      BY <1>6, <2>1 DEF SkipSweep, DeathsAnnounced
  <1>7. CASE DeviceDead
    BY <1>7 DEF DeviceDead, DeathsAnnounced
  <1>8. CASE ServerRestart
    BY <1>8, <1>a DEF ServerRestart, DeathsAnnounced
  <1>9. CASE Tick
    <2>1. sweep'.batch = sweep.batch /\ UNCHANGED <<announced, crashes>>
      BY <1>9 DEF Tick, TypeOK, Sweeping
    <2>2. \A d \in Devices : row'[d].status = row[d].status
      BY <1>9 DEF Tick, TypeOK, Row
    <2> QED
      BY <2>1, <2>2 DEF DeathsAnnounced
  <1>10. CASE Disconnect \/ UNCHANGED vars
    BY <1>10 DEF Disconnect, vars, DeathsAnnounced
  <1> QED
    BY <1>1, <1>2, <1>3, <1>4, <1>5, <1>6, <1>7, <1>8, <1>9, <1>10
       DEF Next, BoardStep, HandlerStep, SweepStep

\* While the server is not restarted, check_dead_devices marks no board dead
\* without alerting, however long alerts take and however many sweeps they
\* make APScheduler skip.
THEOREM DeathsAreAnnounced == Spec => []DeathsAnnounced
  <1>1. Init => TypeOK /\ DeathsAnnounced
    <2> SUFFICES ASSUME Init PROVE DeathsAnnounced
      BY TypeInit
    <2>1. \A d \in Devices : row[d].status # "dead"
      <3>1. PICK known \in SUBSET Devices :
              row = [d \in Devices |->
                        [status |-> IF d \in known THEN "unknown" ELSE None,
                         age |-> 0]]
        BY DEF Init
      <3> QED
        BY <3>1 DEF None
    <2> QED
      BY <2>1 DEF DeathsAnnounced
  <1>2. TypeOK /\ DeathsAnnounced /\ [Next]_vars => (TypeOK /\ DeathsAnnounced)'
    BY TypeStep, AnnouncedStep
  <1> QED
    BY <1>1, <1>2, PTL DEF Spec

-----------------------------------------------------------------------------
(* How old last_seen may be.                                               *)

\* A registration of d has been taken from the wire and is not written yet.
Registering(d) == listener.dev = d

\* How old the row of a board that is on may be for the beats it has missed: a
\* beat that is lost costs a period; when nothing is on its way, the time since
\* the last beat was due comes on top of that; otherwise the period in which
\* the oldest message on its way was sent, and its delay.
Missed(d) == IF missed[d] = 0 THEN 0 ELSE Period
Waited(d) ==
    IF Registering(d) THEN Period + MaxDelay
    ELSE IF wire[d] = <<>> THEN board[d].timer
    ELSE Period + Head(wire[d]).delay
Young(d) == board[d].on /\ missed[d] < 2 => row[d].age <= Missed(d) + Waited(d)
YoungInv == \A d \in Devices : Young(d)

LEMMA MessageFacts ==
  ASSUME TypeOK, NEW d \in Devices
  PROVE  /\ wire[d] \in Seq(Message)
         /\ wire[d] # <<>> => /\ Head(wire[d]) \in Message
                              /\ Head(wire[d]).delay \in 0 .. MaxDelay
                              /\ 1 \in DOMAIN wire[d] /\ Head(wire[d]) = wire[d][1]
  <1>1. wire[d] \in Seq(Message)
    BY DEF TypeOK
  <1>2. wire[d] # <<>> => Head(wire[d]) \in Message /\ 1 \in DOMAIN wire[d]
                          /\ Head(wire[d]) = wire[d][1]
    BY <1>1
  <1> QED
    BY <1>1, <1>2 DEF Message

LEMMA YoungTypes ==
  ASSUME TypeOK, NEW d \in Devices
  PROVE  /\ row[d].age \in Nat /\ missed[d] \in 0 .. 2 /\ board[d].timer \in 0 .. Period
         /\ Missed(d) \in Nat /\ Waited(d) \in Nat /\ Waited(d) <= Period + MaxDelay
  <1>1. row[d].age \in Nat /\ missed[d] \in 0 .. 2 /\ board[d].timer \in 0 .. Period
    BY MaxAgeNat DEF TypeOK, Row, Board
  <1>2. wire[d] # <<>> => Head(wire[d]).delay \in 0 .. MaxDelay
    BY MessageFacts
  <1>3. Missed(d) \in Nat
    BY ClockAssumption DEF Missed
  <1>4. /\ Registering(d) => Waited(d) = Period + MaxDelay
        /\ ~Registering(d) /\ wire[d] = <<>> => Waited(d) = board[d].timer
        /\ ~Registering(d) /\ wire[d] # <<>> => Waited(d) = Period + Head(wire[d]).delay
    BY DEF Waited
  <1>5. CASE Registering(d)
    BY <1>1, <1>3, <1>4, <1>5, ClockAssumption
  <1>6. CASE ~Registering(d) /\ wire[d] = <<>>
    BY <1>1, <1>3, <1>4, <1>6, ClockAssumption
  <1>7. CASE ~Registering(d) /\ wire[d] # <<>>
    BY <1>1, <1>2, <1>3, <1>4, <1>7, ClockAssumption
  <1> QED
    BY <1>5, <1>6, <1>7

\* The bounds hold of the next state too.
LEMMA YoungTypesNext ==
  ASSUME TypeOK, [Next]_vars, NEW d \in Devices
  PROVE  /\ row'[d].age \in Nat /\ missed'[d] \in 0 .. 2 /\ board'[d].timer \in 0 .. Period
         /\ Missed(d)' \in Nat /\ Waited(d)' \in Nat
  <1>1. TypeOK'
    BY TypeStep
  <1>2. /\ row'[d].age \in Nat /\ missed'[d] \in 0 .. 2 /\ board'[d].timer \in 0 .. Period
    BY <1>1, MaxAgeNat DEF TypeOK, Row, Board
  <1>3. wire'[d] \in Seq(Message)
    BY <1>1 DEF TypeOK
  <1>4. wire'[d] # <<>> => Head(wire'[d]) \in Message
    BY <1>3
  <1>5. wire'[d] # <<>> => Head(wire'[d]).delay \in Nat
    BY <1>4, ClockAssumption DEF Message
  <1>6. Missed(d)' \in Nat
    BY ClockAssumption DEF Missed
  <1>7. /\ Registering(d)' => Waited(d)' = Period + MaxDelay
        /\ ~Registering(d)' /\ wire'[d] = <<>> => Waited(d)' = board'[d].timer
        /\ ~Registering(d)' /\ wire'[d] # <<>> => Waited(d)' = Period + Head(wire'[d]).delay
    BY DEF Waited
  <1>8. Waited(d)' \in Nat
    <2>1. CASE Registering(d)'
      BY <1>7, <2>1, ClockAssumption
    <2>2. CASE ~Registering(d)' /\ wire'[d] = <<>>
      BY <1>2, <1>7, <2>2, ClockAssumption
    <2>3. CASE ~Registering(d)' /\ wire'[d] # <<>>
      BY <1>5, <1>7, <2>3, ClockAssumption
    <2> QED
      BY <2>1, <2>2, <2>3
  <1> QED
    BY <1>2, <1>6, <1>8

\* A step that concerns other boards.
LEMMA YoungKept ==
  ASSUME NEW d \in Devices, Young(d),
         row'[d].age = row[d].age, board'[d] = board[d], wire'[d] = wire[d],
         missed'[d] = missed[d], Registering(d)' <=> Registering(d)
  PROVE  Young(d)'
  BY DEF Young, Missed, Waited

\* A beat is due and sent, or lost.
LEMMA BeatFacts ==
  ASSUME TypeOK, NEW d \in Devices, Heartbeat(d) \/ HeartbeatLost(d)
  PROVE  /\ board[d].on /\ board[d].timer = Period
         /\ row' = row /\ (Registering(d)' <=> Registering(d))
         /\ board'[d].timer = 0 /\ board'[d].on = board[d].on
  <1>1. board[d] \in Board /\ board' = [board EXCEPT ![d].timer = 0]
    BY DEF Heartbeat, HeartbeatLost, TypeOK
  <1>2. board'[d].timer = 0 /\ board'[d].on = board[d].on
    BY <1>1 DEF TypeOK, Board
  <1> QED
    BY <1>2 DEF Heartbeat, HeartbeatLost, Registering

LEMMA YoungHeartbeat ==
  ASSUME TypeOK, [Next]_vars, NEW d \in Devices, Young(d), Heartbeat(d)
  PROVE  Young(d)'
  <1> USE ClockAssumption
  <1>1. /\ board[d].on /\ board[d].timer = Period
        /\ row' = row /\ (Registering(d)' <=> Registering(d))
    BY BeatFacts
  <1>2. board'[d].timer = 0 /\ board'[d].on = board[d].on
    BY BeatFacts
  <1>3. wire' = Sent(d, "heartbeat") /\ missed' = missed
    BY DEF Heartbeat
  <1> QED
    <2>1. wire'[d] = Append(wire[d], [kind |-> "heartbeat", delay |-> 0])
      BY <1>3 DEF Sent, TypeOK
    <2>2. wire'[d] # <<>>
          /\ Head(wire'[d]) = IF wire[d] = <<>> THEN [kind |-> "heartbeat", delay |-> 0]
                                                ELSE Head(wire[d])
      <3> DEFINE w == wire[d]
                 m == [kind |-> "heartbeat", delay |-> 0]
      <3>1. w \in Seq(Message) /\ m \in Message /\ wire'[d] = Append(w, m)
        <4>1. m \in Message
          BY DEF Message
        <4> QED
          BY <2>1, <4>1, MessageFacts
      <3> HIDE DEF w, m
      <3>2. Append(w, m) # <<>> /\ Head(Append(w, m)) = IF w = <<>> THEN m ELSE Head(w)
        <4>1. Len(w) \in Nat /\ Len(Append(w, m)) = Len(w) + 1 /\ Append(w, m) \in Seq(Message)
              /\ Append(w, m)[1] = IF Len(w) = 0 THEN m ELSE w[1]
          BY <3>1, AppendProperties
        <4>2. w = <<>> <=> Len(w) = 0
          BY <3>1, EmptySeq
        <4>3. w # <<>> => Head(w) = w[1]
          BY <3>1
        <4>4. Append(w, m) # <<>>
          BY <3>1, AppendProperties
        <4>5. Head(Append(w, m)) = Append(w, m)[1]
          BY <4>1, <4>4
        <4> QED
          BY <4>1, <4>2, <4>3, <4>4, <4>5
      <3> QED
        BY <3>1, <3>2 DEF w, m
    <2>3. Waited(d)' >= Waited(d)
      BY <1>1, <1>2, <2>2, YoungTypes, MessageFacts DEF Waited
    <2> QED
      BY <1>1, <1>2, <1>3, <2>3, YoungTypes, YoungTypesNext DEF Young, Missed

LEMMA YoungHeartbeatLost ==
  ASSUME TypeOK, [Next]_vars, NEW d \in Devices, Young(d), HeartbeatLost(d)
  PROVE  Young(d)'
  <1> USE ClockAssumption
  <1>1. /\ board[d].on /\ board[d].timer = Period
        /\ row' = row /\ (Registering(d)' <=> Registering(d))
    BY BeatFacts
  <1>2. wire' = wire /\ missed' = [missed EXCEPT ![d] = IF @ < 2 THEN @ + 1 ELSE @]
    BY DEF HeartbeatLost
  <1> QED
    <2>1. missed'[d] = IF missed[d] < 2 THEN missed[d] + 1 ELSE missed[d]
      BY <1>2 DEF TypeOK
    <2> SUFFICES ASSUME missed'[d] < 2 PROVE row'[d].age <= Missed(d)' + Waited(d)'
      BY DEF Young
    <2>2. missed[d] = 0 /\ missed'[d] = 1
      BY <2>1, YoungTypes
    <2>3. Missed(d)' = Period /\ Missed(d) = 0
      BY <2>2 DEF Missed
    <2>4. Waited(d) <= Period + Waited(d)'
      <3>1. CASE Registering(d) \/ wire[d] # <<>>
        <4>1. Waited(d)' = Waited(d)
          BY <1>1, <1>2, <3>1 DEF Waited
        <4> QED
          BY <4>1, YoungTypes
      <3>2. CASE ~Registering(d) /\ wire[d] = <<>>
        <4>1. Waited(d) = Period
          BY <1>1, <3>2 DEF Waited
        <4> QED
          BY <4>1, YoungTypesNext
      <3> QED
        BY <3>1, <3>2
    <2>5. row[d].age <= Waited(d)
      BY <1>1, <2>2, <2>3, YoungTypes DEF Young
    <2> QED
      BY <1>1, <2>3, <2>4, <2>5, YoungTypes, YoungTypesNext

\* A message of d has been handled: the row is as young as can be.
LEMMA YoungHeard ==
  ASSUME TypeOK, [Next]_vars, NEW d \in Devices, row'[d].age = 0
  PROVE  Young(d)'
  BY YoungTypesNext DEF Young

LEMMA YoungRegistration ==
  ASSUME TypeOK, [Next]_vars, NEW d \in Devices, Young(d), HandleRegistration(d)
  PROVE  Young(d)'
  <1>1. UNCHANGED <<row, board, missed>> /\ listener' = [dev |-> d, loaded |-> row[d].status]
    BY DEF HandleRegistration
  <1>2. Registering(d)'
    BY <1>1 DEF Registering
  <1>3. Waited(d)' >= Waited(d)
    BY <1>2, YoungTypes, ClockAssumption DEF Waited
  <1> QED
    BY <1>1, <1>3, YoungTypes, YoungTypesNext DEF Young, Missed

LEMMA YoungTick ==
  ASSUME TypeOK, [Next]_vars, NEW d \in Devices, Young(d), Tick
  PROVE  Young(d)'
  <1> USE ClockAssumption
  <1>1. ~Registering(d) /\ ~Registering(d)' /\ missed' = missed
    BY NoneAssumption DEF Tick, Registering, Idle
  <1>2. row'[d].age <= row[d].age + 1
    <2>1. row'[d] = [row[d] EXCEPT !.age = Older(@)] /\ row[d] \in Row
      BY DEF Tick, TypeOK
    <2>2. row'[d].age = Older(row[d].age)
      BY <2>1 DEF Row
    <2> QED
      BY <2>2, YoungTypes DEF Older
  <1>3. board'[d] = IF board[d].on THEN [board[d] EXCEPT !.timer = @ + 1] ELSE board[d]
    BY DEF Tick
  <1>4. /\ board'[d].on = board[d].on
        /\ board[d].on => board'[d].timer = board[d].timer + 1
    BY <1>3 DEF TypeOK, Board
  <1>5. ASSUME board[d].on PROVE Waited(d)' = Waited(d) + 1
    <2>1. wire'[d] = [i \in DOMAIN wire[d] |-> [wire[d][i] EXCEPT !.delay = @ + 1]]
      BY DEF Tick
    <2>2. CASE wire[d] = <<>>
      <3>1. wire'[d] = <<>>
        BY <2>1, <2>2
      <3> QED
        BY <1>1, <1>4, <1>5, <2>2, <3>1 DEF Waited
    <2>3. CASE wire[d] # <<>>
      <3>1. wire'[d][1] = [Head(wire[d]) EXCEPT !.delay = @ + 1] /\ 1 \in DOMAIN wire'[d]
        BY <2>1, <2>3, MessageFacts
      <3>2. wire'[d][1].delay = Head(wire[d]).delay + 1
        BY <2>3, <3>1, MessageFacts DEF Message
      <3>3. wire'[d] \in Seq(Message)
        BY TypeStep DEF TypeOK
      <3>4. wire'[d] # <<>> /\ Head(wire'[d]) = wire'[d][1]
        BY <3>1, <3>3
      <3>5. Waited(d) = Period + Head(wire[d]).delay /\ Waited(d)' = Period + Head(wire'[d]).delay
        BY <1>1, <2>3, <3>4 DEF Waited
      <3>6. Head(wire[d]).delay \in Nat
        BY <2>3, MessageFacts
      <3>7. Head(wire'[d]).delay = Head(wire[d]).delay + 1 /\ Period \in Nat
        BY <3>2, <3>4
      <3> QED
        BY <3>5, <3>6, <3>7
    <2> QED
      BY <2>2, <2>3
  <1> QED
    BY <1>1, <1>2, <1>4, <1>5, YoungTypes, YoungTypesNext DEF Young, Missed

LEMMA YoungStep ==
  ASSUME TypeOK, [Next]_vars, NEW d \in Devices, Young(d)
  PROVE  Young(d)'
  <1>1. ASSUME NEW e \in Devices, Heartbeat(e) PROVE Young(d)'
    <2>1. CASE e = d
      BY <1>1, <2>1, YoungHeartbeat
    <2>2. CASE e # d
      BY <1>1, <2>2, YoungKept DEF Heartbeat, Sent, TypeOK, Registering
    <2> QED
      BY <2>1, <2>2
  <1>11. ASSUME NEW e \in Devices, HeartbeatLost(e) PROVE Young(d)'
    <2>1. CASE e = d
      BY <1>11, <2>1, YoungHeartbeatLost
    <2>2. CASE e # d
      BY <1>11, <2>2, YoungKept DEF HeartbeatLost, TypeOK, Registering
    <2> QED
      BY <2>1, <2>2
  <1>2. ASSUME NEW e \in Devices, GoSilent(e) PROVE Young(d)'
    <2>1. CASE e = d
      <3>1. ~board'[d].on
        BY <1>2, <2>1 DEF GoSilent, TypeOK, Board
      <3> QED
        BY <3>1 DEF Young
    <2>2. CASE e # d
      BY <1>2, <2>2, YoungKept DEF GoSilent, TypeOK, Registering
    <2> QED
      BY <2>1, <2>2
  <1>3. ASSUME NEW e \in Devices, Boot(e) PROVE Young(d)'
    <2>1. CASE e = d
      <3>1. missed'[d] = 2
        BY <1>3, <2>1 DEF Boot, TypeOK
      <3> QED
        BY <3>1 DEF Young
    <2>2. CASE e # d
      BY <1>3, <2>2, YoungKept DEF Boot, Sent, TypeOK, Registering
    <2> QED
      BY <2>1, <2>2
  <1>4. ASSUME NEW e \in Devices, HandleHeartbeat(e) PROVE Young(d)'
    <2>1. CASE e = d
      <3>1. row'[d].age = 0
        BY <1>4, <2>1 DEF HandleHeartbeat, TypeOK
      <3> QED
        BY <3>1, YoungHeard
    <2>2. CASE e # d
      BY <1>4, <2>2, YoungKept DEF HandleHeartbeat, Heard, Receives, TypeOK, Registering
    <2> QED
      BY <2>1, <2>2
  <1>5. ASSUME NEW e \in Devices, HandleRegistration(e) PROVE Young(d)'
    <2>1. CASE e = d
      BY <1>5, <2>1, YoungRegistration
    <2>2. CASE e # d
      <3>1. ~Registering(d) /\ ~Registering(d)'
        BY <1>5, <2>2, NoneAssumption DEF HandleRegistration, Receives, Registering, Idle
      <3> QED
        BY <1>5, <2>2, <3>1, YoungKept DEF HandleRegistration, Receives, TypeOK
    <2> QED
      BY <2>1, <2>2
  <1>6. CASE WriteRegistration
    <2>1. CASE listener.dev = d
      <3>1. row'[d].age = 0
        BY <1>6, <2>1 DEF WriteRegistration, TypeOK
      <3> QED
        BY <3>1, YoungHeard
    <2>2. CASE listener.dev # d
      <3>1. ~Registering(d) /\ ~Registering(d)'
        BY <1>6, <2>2, NoneAssumption DEF WriteRegistration, Registering, Idle
      <3> QED
        BY <1>6, <2>2, <3>1, YoungKept DEF WriteRegistration, TypeOK
    <2> QED
      BY <2>1, <2>2
  <1>7. CASE CheckDeadDevices
    <2>1. row'[d].age = row[d].age
      BY <1>7 DEF CheckDeadDevices, MarkDead, TypeOK, Row
    <2> QED
      BY <1>7, <2>1, YoungKept DEF CheckDeadDevices, Registering
  <1>8. CASE SkipSweep \/ DeviceDead \/ UNCHANGED vars
    BY <1>8, YoungKept DEF SkipSweep, DeviceDead, vars, Registering
  <1>9. CASE ServerRestart
    <2>1. missed'[d] = 2
      BY <1>9 DEF ServerRestart
    <2> QED
      BY <2>1 DEF Young
  <1>10. CASE Tick
    BY <1>10, YoungTick
  <1>12. CASE Disconnect
    <2>1. CASE wire[d] = <<>>
      BY <1>12, <2>1, YoungKept DEF Disconnect, Registering
    <2>2. CASE wire[d] # <<>>
      <3>1. missed'[d] = 2
        BY <1>12, <2>2 DEF Disconnect
      <3> QED
        BY <3>1 DEF Young
    <2> QED
      BY <2>1, <2>2
  <1> QED
    BY <1>1, <1>2, <1>3, <1>4, <1>5, <1>6, <1>7, <1>8, <1>9, <1>10, <1>11, <1>12
       DEF Next, BoardStep, HandlerStep, SweepStep

LEMMA YoungImplies == TypeOK /\ YoungInv => HeardWithin
  <1> SUFFICES ASSUME TypeOK, YoungInv, NEW d \in Devices, board[d].on, missed[d] < 2
               PROVE  row[d].age <= Period * (1 + missed[d]) + MaxDelay
    BY DEF HeardWithin
  <1>1. row[d].age <= Missed(d) + Waited(d)
    BY DEF YoungInv, Young
  <1>2. CASE missed[d] = 0
    BY <1>1, <1>2, YoungTypes, ClockAssumption DEF Missed
  <1>3. CASE missed[d] = 1
    BY <1>1, <1>3, YoungTypes, ClockAssumption DEF Missed
  <1> QED
    BY <1>2, <1>3, YoungTypes

\* For any number of boards, any period, any delay below it and any losses,
\* disconnections and restarts: the handlers keep last_seen of a board that is
\* on within one period per missed beat, one more, and the delay of a message.
\* A threshold of two periods is below that for one missed beat, by the delay.
THEOREM BoardsAreHeard == Spec => []HeardWithin
  <1>1. Init => YoungInv
    BY DEF Init, YoungInv, Young
  <1>2. TypeOK /\ YoungInv /\ [Next]_vars => YoungInv'
    BY YoungStep DEF YoungInv
  <1> QED
    BY <1>1, <1>2, YoungImplies, TypeInit, TypeStep, PTL DEF Spec

=============================================================================

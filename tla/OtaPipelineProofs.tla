------------------------- MODULE OtaPipelineProofs -------------------------
(***************************************************************************)
(* Proofs about OtaPipeline, for every fleet, every set of versions, every *)
(* number of rollouts and every combination of faults.                     *)
(***************************************************************************)
EXTENDS OtaPipeline, SequenceTheorems, TLAPS

-----------------------------------------------------------------------------
(* The sequence operations the model uses, on any element set.             *)

LEMMA SeqFacts ==
    ASSUME NEW S, NEW s \in Seq(S), NEW e \in S
    PROVE  /\ Append(s, e) \in Seq(S)
           /\ Len(Append(s, e)) = Len(s) + 1
           /\ \A i \in 1 .. Len(Append(s, e)) :
                 (i <= Len(s) /\ Append(s, e)[i] = s[i])
                   \/ (i = Len(s) + 1 /\ Append(s, e)[i] = e)
           /\ <<e>> \o s \in Seq(S)
           /\ \A i \in 1 .. Len(<<e>> \o s) :
                 \/ i = 1 /\ (<<e>> \o s)[i] = e
                 \/ i - 1 \in 1 .. Len(s) /\ (<<e>> \o s)[i] = s[i - 1]
OBVIOUS

LEMMA TailFacts ==
    ASSUME NEW S, NEW s \in Seq(S), s # <<>>
    PROVE  /\ Head(s) \in S
           /\ Head(s) = s[1]
           /\ 1 \in 1 .. Len(s)
           /\ Tail(s) \in Seq(S)
           /\ \A i \in 1 .. Len(Tail(s)) :
                 i + 1 \in 1 .. Len(s) /\ Tail(s)[i] = s[i + 1]
OBVIOUS

\* Moving the innermost OTA to another stage leaves the versions alone.
LEMMA AdvanceFacts ==
    ASSUME TypeOK, NEW d \in Devices, device[d].jobs # <<>>,
           NEW st \in {"downloading", "flashing", "finished"}
    PROVE  /\ Advance(d, st) \in Seq(Job)
           /\ \A i \in 1 .. Len(Advance(d, st)) :
                 /\ i \in 1 .. Len(device[d].jobs)
                 /\ Advance(d, st)[i].version = device[d].jobs[i].version
<1> DEFINE s == device[d].jobs
           e == [version |-> JobVersion(d), stage |-> st]
<1>1. s \in Seq(Job) BY DEF TypeOK
<1>2. Head(s) \in Job /\ Head(s) = s[1] /\ Tail(s) \in Seq(Job)
  BY <1>1, TailFacts
<1>3. e \in Job /\ e.version = s[1].version BY <1>2 DEF Job, JobVersion
<1>4. Advance(d, st) = <<e>> \o Tail(s) BY DEF Advance
<1> HIDE DEF s, e
<1>5. QED BY <1>1, <1>2, <1>3, <1>4 DEF s

-----------------------------------------------------------------------------
(* Type correctness.                                                       *)

LEMMA SendType ==
    ASSUME TypeOK, NEW d \in Devices, NEW m \in Message, Send(d, m)
    PROVE  up' \in [Devices -> Seq(Message)]
<1>1. up[d] \in Seq(Message) BY DEF TypeOK
<1>2. Append(up[d], m) \in Seq(Message) BY <1>1, SeqFacts
<1>3. QED BY <1>2 DEF Send, TypeOK

LEMMA ReportType ==
    ASSUME NEW st \in Reports, NEW v \in Versions
    PROVE  Report(st, v) \in Message
BY DEF Report, Message

\* A board inside an OTA has an innermost job, of a known version.
LEMMA JobFacts ==
    ASSUME TypeOK, NEW d \in Devices, Stage(d) # None
    PROVE  /\ device[d].jobs \in Seq(Job)
           /\ device[d].jobs # <<>>
           /\ 1 \in 1 .. Len(device[d].jobs)
           /\ JobVersion(d) = device[d].jobs[1].version
           /\ JobVersion(d) \in Versions
           /\ Tail(device[d].jobs) \in Seq(Job)
<1>1. device[d].jobs \in Seq(Job) BY DEF TypeOK
<1>2. device[d].jobs # <<>> BY DEF Stage
<1>3. /\ Head(device[d].jobs) \in Job
      /\ Head(device[d].jobs) = device[d].jobs[1]
      /\ 1 \in 1 .. Len(device[d].jobs)
      /\ Tail(device[d].jobs) \in Seq(Job)
  BY <1>1, <1>2, TailFacts
<1>4. JobVersion(d) = device[d].jobs[1].version BY <1>3 DEF JobVersion
<1>5. JobVersion(d) \in Versions BY <1>3 DEF JobVersion, Job
<1>6. QED BY <1>1, <1>2, <1>3, <1>4, <1>5

\* The records of TypeOK, by name.
RowType == [status : {None, "unknown", "alive", "dead"}, fw : Versions \cup {NULL}]
CallType == [phase : Phase, target : Versions, todo : SUBSET Devices]
BoardType == [image : Versions, boot : Versions, fresh : BOOLEAN,
              registered : BOOLEAN, jobs : Seq(Job)]

LEMMA Typed ==
    ASSUME TypeOK
    PROVE  /\ row \in [Devices -> RowType]
           /\ rollout \in [Rollouts -> CallType]
           /\ device \in [Devices -> BoardType]
BY DEF TypeOK, RowType, CallType, BoardType

\* A board whose jobs and boot slot are replaced is still a board.
LEMMA BoardUpdate ==
    ASSUME NEW b \in BoardType, NEW jobs \in Seq(Job), NEW boot \in Versions
    PROVE  /\ [b EXCEPT !.jobs = jobs] \in BoardType
           /\ [b EXCEPT !.jobs = jobs, !.boot = boot] \in BoardType
BY DEF BoardType

LEMMA TypeInit == Init => TypeOK
<1> SUFFICES ASSUME Init PROVE TypeOK OBVIOUS
<1>1. Factory \in Versions BY FactoryAssumption
<1>2. 0 \in 0 .. MaxRollouts BY BoundsAssumption
<1>3. QED
  BY <1>1, <1>2 DEF Init, TypeOK, Listener, Idle, EventStatus, Phase, None, NULL

LEMMA TypeDevice ==
    ASSUME TypeOK, NEW d \in Devices, DeviceStep(d)
    PROVE  TypeOK'
<1>1. CASE Register(d)
  <2>1. [kind |-> "register", version |-> device[d].image] \in Message
    BY DEF TypeOK, Message
  <2>2. up' \in [Devices -> Seq(Message)] BY <1>1, <2>1, SendType DEF Register
  <2>3. QED BY <1>1, <2>2 DEF Register, TypeOK
<1>2. CASE Heartbeat(d)
  <2>1. [kind |-> "heartbeat", fresh |-> device[d].fresh] \in Message
    BY DEF TypeOK, Message
  <2>2. up' \in [Devices -> Seq(Message)] BY <1>2, <2>1, SendType DEF Heartbeat
  <2>3. QED BY <1>2, <2>2 DEF Heartbeat, TypeOK
<1>3. CASE UptimePasses(d) \/ UptimeWraps(d)
  <2>1. CASE UptimePasses(d) BY <2>1 DEF UptimePasses, TypeOK
  <2>2. CASE UptimeWraps(d) BY <2>2 DEF UptimeWraps, TypeOK
  <2>3. QED BY <1>3, <2>1, <2>2
<1>4. CASE ReceiveCommand(d)
  <2> DEFINE j == [version |-> Head(down[d]), stage |-> "downloading"]
  <2>1. Head(down[d]) \in Versions /\ Tail(down[d]) \in Seq(Versions)
    BY <1>4, TailFacts DEF ReceiveCommand, TypeOK
  <2>2. up' \in [Devices -> Seq(Message)]
    BY <1>4, <2>1, SendType, ReportType DEF ReceiveCommand, Reports
  <2>3. j \in Job BY <2>1 DEF Job
  <2>4. <<j>> \o device[d].jobs \in Seq(Job) BY <2>3, SeqFacts DEF TypeOK
  <2>5. QED BY <1>4, <2>1, <2>2, <2>4 DEF ReceiveCommand, TypeOK
<1>5. CASE OtaFails(d)
  <2>1. Stage(d) # None BY <1>5 DEF OtaFails, None
  <2>2. up' \in [Devices -> Seq(Message)]
    BY <1>5, <2>1, JobFacts, SendType, ReportType DEF OtaFails, Reports
  <2>3. device' \in [Devices -> BoardType]
    <3>1. [device[d] EXCEPT !.jobs = Tail(@)] \in BoardType
      BY <2>1, JobFacts, Typed, BoardUpdate DEF TypeOK
    <3> QED BY <1>5, <3>1, Typed DEF OtaFails
  <2>4. QED BY <1>5, <2>2, <2>3 DEF OtaFails, TypeOK, BoardType
<1>6. CASE StartFlashing(d)
  <2>1. Stage(d) # None BY <1>6 DEF StartFlashing, None
  <2>2. up' \in [Devices -> Seq(Message)]
    BY <1>6, <2>1, JobFacts, SendType, ReportType DEF StartFlashing, Reports
  <2>3. Advance(d, "flashing") \in Seq(Job) BY <2>1, JobFacts, AdvanceFacts
  <2>4. device' \in [Devices -> BoardType]
    <3>1. device[d].image \in Versions BY DEF TypeOK
    <3>2. device[d] \in BoardType BY Typed
    <3>3. [device[d] EXCEPT !.jobs = Advance(d, "flashing"), !.boot = device[d].image]
             \in BoardType
      BY <2>3, <3>1, <3>2, BoardUpdate
    <3> QED BY <1>6, <3>3, Typed DEF StartFlashing
  <2>5. QED BY <1>6, <2>2, <2>4 DEF StartFlashing, TypeOK, BoardType
<1>7. CASE OtaFinishes(d)
  <2>1. Stage(d) # None BY <1>7 DEF OtaFinishes, None
  <2>2. up' \in [Devices -> Seq(Message)]
    BY <1>7, <2>1, JobFacts, SendType, ReportType DEF OtaFinishes, Reports
  <2>3. Advance(d, "finished") \in Seq(Job) BY <2>1, JobFacts, AdvanceFacts
  <2>4. JobVersion(d) \in Versions BY <2>1, JobFacts
  <2>5. installed' \in [Devices -> SUBSET Versions]
    BY <1>7, <2>4 DEF OtaFinishes, TypeOK
  <2>6. device' \in [Devices -> BoardType]
    <3>1. device[d] \in BoardType BY Typed
    <3>2. [device[d] EXCEPT !.jobs = Advance(d, "finished"), !.boot = JobVersion(d)]
             \in BoardType
      BY <2>3, <2>4, <3>1, BoardUpdate
    <3> QED BY <1>7, <3>2, Typed DEF OtaFinishes
  <2>7. QED BY <1>7, <2>2, <2>5, <2>6 DEF OtaFinishes, TypeOK, BoardType
<1>8. CASE Restart(d)
  BY <1>8 DEF Restart, TypeOK
<1>9. QED
  BY <1>1, <1>2, <1>3, <1>4, <1>5, <1>6, <1>7, <1>8
     DEF DeviceStep, Reboot, PowerCycle

LEMMA TypeRollout ==
    ASSUME TypeOK, NEW r \in Rollouts, RolloutStep(r)
    PROVE  TypeOK'
<1>1. CASE BeginRollout(r)
  <2>1. PICK version \in Versions, targets \in SUBSET Devices,
             strategy \in {"canary", "staged", "full"}, count \in 1 .. Cardinality(Devices) :
             \E S \in Selections(strategy, count, targets, version) :
                rollout' = [rollout EXCEPT ![r] =
                   [phase |-> "selected", target |-> version, todo |-> S]]
    BY <1>1 DEF BeginRollout
  <2>2. PICK S \in Selections(strategy, count, targets, version) :
             rollout' = [rollout EXCEPT ![r] =
                   [phase |-> "selected", target |-> version, todo |-> S]]
    BY <2>1
  <2>3. S \subseteq Devices BY <2>2 DEF Selections, Candidates
  <2>4. QED BY <1>1, <2>2, <2>3 DEF BeginRollout, TypeOK, Phase
<1>2. CASE CommitRollout(r)
  <2>1. "pending" \in EventStatus BY DEF EventStatus, InFlight
  <2>2. event' \in [Rollouts -> [Devices -> EventStatus \cup {None}]]
    BY <1>2, <2>1 DEF CommitRollout, TypeOK
  <2>3. rollout' \in [Rollouts -> CallType]
    <3>1. [rollout[r] EXCEPT !.phase = "publishing"] \in CallType
      BY Typed DEF CallType, Phase
    <3> QED BY <1>2, <3>1, Typed DEF CommitRollout
  <2>4. QED BY <1>2, <2>2, <2>3 DEF CommitRollout, TypeOK, CallType
<1>3. CASE PublishCommand(r)
  <2>1. PICK d \in rollout[r].todo :
          /\ down' = [down EXCEPT ![d] = Append(@, rollout[r].target)] \/ down' = down
          /\ rollout' = [rollout EXCEPT ![r].todo = @ \ {d}]
    BY <1>3 DEF PublishCommand
  <2>2. d \in Devices /\ rollout[r].target \in Versions BY DEF TypeOK
  <2> DEFINE cmd == Append(down[d], rollout[r].target)
  <2>a. cmd \in Seq(Versions) BY <2>2, SeqFacts DEF TypeOK
  <2> HIDE DEF cmd
  <2>3. down' \in [Devices -> Seq(Versions)]
    BY <2>1, <2>2, <2>a DEF TypeOK, cmd
  <2>4. rollout' \in [Rollouts -> CallType]
    <3>1. [rollout[r] EXCEPT !.todo = @ \ {d}] \in CallType BY Typed DEF CallType
    <3> QED BY <2>1, <3>1, Typed
  <2>5. QED BY <1>3, <2>3, <2>4 DEF PublishCommand, TypeOK, CallType
<1>4. CASE PublishFails(r)
  <2>1. rollout[r] \in [phase : Phase, target : Versions, todo : SUBSET Devices]
    BY DEF TypeOK
  <2>2. rollout' \in [Rollouts -> [phase : Phase, target : Versions,
                                  todo : SUBSET Devices]]
    BY <1>4, <2>1 DEF PublishFails, TypeOK, Phase
  <2>3. QED BY <1>4, <2>2 DEF PublishFails, TypeOK
<1>5. CASE FinishRollout(r)
  <2>1. rollout' \in [Rollouts -> CallType]
    <3>1. [rollout[r] EXCEPT !.phase = "done"] \in CallType BY Typed DEF CallType, Phase
    <3> QED BY <1>5, <3>1, Typed DEF FinishRollout
  <2>2. QED BY <1>5, <2>1 DEF FinishRollout, TypeOK, CallType
<1>6. QED BY <1>1, <1>2, <1>3, <1>4, <1>5 DEF RolloutStep

\* The head of a board's queue, and the queue once it is taken.
LEMMA ReceiveFacts ==
    ASSUME TypeOK, NEW d \in Devices, NEW kind, Receives(d, kind)
    PROVE  /\ up[d] # <<>>
           /\ up[d] \in Seq(Message)
           /\ Head(up[d]) \in Message
           /\ Head(up[d]) = up[d][1]
           /\ 1 \in 1 .. Len(up[d])
           /\ Head(up[d]).kind = kind
           /\ up' \in [Devices -> Seq(Message)]
<1>1. up[d] \in Seq(Message) /\ up[d] # <<>> BY DEF TypeOK, Receives
<1>2. QED BY <1>1, TailFacts DEF Receives, TypeOK

\* What the listener carries from its read to its write of an event.
LEMMA ReportingFacts ==
    ASSUME TypeOK, listener.phase = "reporting"
    PROVE  /\ listener.dev \in Devices /\ listener.held \in Rollouts
           /\ listener.seen \in InFlight /\ listener.status \in Reports
<1>1. listener \in [phase : {"reporting"}, dev : Devices, held : Rollouts,
                    seen : InFlight, status : Reports]
  BY DEF TypeOK, Listener, Idle
<1>2. QED BY <1>1

LEMMA TypeListener ==
    ASSUME TypeOK, ListenerStep
    PROVE  TypeOK'
<1>1. ASSUME NEW d \in Devices, HandleHeartbeat(d) PROVE TypeOK'
  <2>1. up' \in [Devices -> Seq(Message)]
    BY <1>1, ReceiveFacts DEF HandleHeartbeat
  <2>2. listener' \in Listener BY <1>1 DEF HandleHeartbeat, Listener
  <2>3. row' \in [Devices -> [status : {None, "unknown", "alive", "dead"},
                              fw : Versions \cup {NULL}]]
    <3>1. [row[d] EXCEPT !.status = "alive"] \in RowType BY Typed DEF RowType
    <3>2. [status |-> "alive", fw |-> NULL] \in RowType BY DEF RowType
    <3>3. row' \in [Devices -> RowType]
      BY <1>1, <3>1, <3>2, Typed DEF HandleHeartbeat
    <3> QED BY <3>3 DEF RowType
  <2>4. QED BY <1>1, <2>1, <2>2, <2>3 DEF HandleHeartbeat, TypeOK
<1>2. ASSUME NEW d \in Devices, HandleRegistration(d) PROVE TypeOK'
  <2>1. up' \in [Devices -> Seq(Message)] /\ Head(up[d]) \in Message
        /\ Head(up[d]).kind = "register"
    BY <1>2, ReceiveFacts DEF HandleRegistration
  <2>2. Head(up[d]).version \in Versions BY <2>1 DEF Message
  <2>3. QED BY <1>2, <2>1, <2>2 DEF HandleRegistration, TypeOK
<1>3. ASSUME NEW d \in Devices, HandleOtaStatus(d) PROVE TypeOK'
  <2>1. up' \in [Devices -> Seq(Message)] /\ Head(up[d]) \in Message
        /\ Head(up[d]).kind = "status"
    BY <1>3, ReceiveFacts DEF HandleOtaStatus
  <2>2. Head(up[d]).status \in Reports BY <2>1 DEF Message
  <2>3. listener' \in Listener
    BY <1>3, <2>2 DEF HandleOtaStatus, Listener, IsLatest, Reported
  <2>4. QED BY <1>3, <2>1, <2>3 DEF HandleOtaStatus, TypeOK
<1>4. CASE SelectPromotable
  <2>1. listener.dev \in Devices BY <1>4 DEF SelectPromotable, TypeOK, Listener, Idle
  <2>2. listener' \in Listener BY <1>4, <2>1 DEF SelectPromotable, Listener
  <2>3. QED BY <1>4, <2>2 DEF SelectPromotable, TypeOK
<1>5. CASE PromoteEvent
  <2>1. listener.dev \in Devices /\ listener.held \in Rollouts
    BY <1>5 DEF PromoteEvent, TypeOK, Listener, Idle
  <2>2. rollout[listener.held].target \in Versions BY <2>1 DEF TypeOK
  <2>3. listener' \in Listener BY <1>5 DEF PromoteEvent, Listener
  <2>4. row' \in [Devices -> RowType]
    <3>1. [row[listener.dev] EXCEPT !.fw = rollout[listener.held].target] \in RowType
      BY <2>1, <2>2, Typed DEF RowType
    <3> QED BY <1>5, <3>1, Typed DEF PromoteEvent
  <2>5. event' \in [Rollouts -> [Devices -> EventStatus \cup {None}]]
    <3>1. "success" \in EventStatus BY DEF EventStatus
    <3> QED BY <1>5, <3>1 DEF PromoteEvent, TypeOK
  <2>6. QED BY <1>5, <2>3, <2>4, <2>5 DEF PromoteEvent, TypeOK, RowType
<1>6. CASE ApplyOtaStatus
  <2>1. listener.dev \in Devices /\ listener.held \in Rollouts
        /\ listener.status \in Reports
    BY <1>6, ReportingFacts DEF ApplyOtaStatus
  <2>2. rollout[listener.held].target \in Versions BY <2>1 DEF TypeOK
  <2>3. listener' \in Listener BY <1>6 DEF ApplyOtaStatus, Listener
  <2>4. row' \in [Devices -> RowType]
    <3>1. [row[listener.dev] EXCEPT !.fw = rollout[listener.held].target] \in RowType
      BY <2>1, <2>2, Typed DEF RowType
    <3> QED BY <1>6, <3>1, Typed DEF ApplyOtaStatus
  <2>5. event' \in [Rollouts -> [Devices -> EventStatus \cup {None}]]
    <3>1. listener.status \in EventStatus BY <2>1 DEF EventStatus, Reports, InFlight
    <3> QED BY <1>6, <3>1 DEF ApplyOtaStatus, TypeOK
  <2>6. QED BY <1>6, <2>3, <2>4, <2>5 DEF ApplyOtaStatus, TypeOK, RowType
<1>7. QED BY <1>1, <1>2, <1>3, <1>4, <1>5, <1>6 DEF ListenerStep

LEMMA TypeNext == TypeOK /\ [Next]_vars => TypeOK'
<1> SUFFICES ASSUME TypeOK, [Next]_vars PROVE TypeOK' OBVIOUS
<1>1. ASSUME NEW d \in Devices, MarkDead(d) PROVE TypeOK'
  <2>1. row' \in [Devices -> RowType]
    <3>1. [row[d] EXCEPT !.status = "dead"] \in RowType BY Typed DEF RowType
    <3> QED BY <1>1, <3>1, Typed DEF MarkDead
  <2>2. QED BY <1>1, <2>1 DEF MarkDead, TypeOK, RowType
<1>2. ASSUME NEW v \in Versions, AbortRollout(v) PROVE TypeOK'
  BY <1>2 DEF AbortRollout, TypeOK, EventStatus
<1>3. CASE WindowPasses
  BY <1>3, BoundsAssumption DEF WindowPasses, TypeOK
<1>4. CASE Disconnect
  <2>1. up' \in [Devices -> Seq(Message)] BY <1>4 DEF Disconnect
  <2>b. connected' \in BOOLEAN BY <1>4 DEF Disconnect
  <2>2. QED BY <1>4, <2>1, <2>b DEF Disconnect, TypeOK
<1>5. CASE ServerRestart
  <2>1. Idle \in Listener BY DEF Listener
  <2>a. up' = [d \in Devices |-> <<>>] BY <1>5 DEF ServerRestart
  <2>2. up' \in [Devices -> Seq(Message)] BY <2>a
  <2>b. connected' \in BOOLEAN BY <1>5 DEF ServerRestart
  <2>3. rollout' \in [Rollouts -> [phase : Phase, target : Versions,
                                  todo : SUBSET Devices]]
    <3>1. \A r \in Rollouts : rollout[r] \in [phase : Phase, target : Versions,
                                             todo : SUBSET Devices]
      BY DEF TypeOK
    <3>2. \A r \in Rollouts :
            [rollout[r] EXCEPT !.phase = "done", !.todo = {}]
              \in [phase : Phase, target : Versions, todo : SUBSET Devices]
      BY <3>1 DEF Phase
    <3>3. rollout' = [r \in Rollouts |->
             IF rollout[r].phase \in {"selected", "publishing"}
               THEN [rollout[r] EXCEPT !.phase = "done", !.todo = {}]
               ELSE rollout[r]]
      BY <1>5 DEF ServerRestart
    <3> QED BY <3>1, <3>2, <3>3
  <2>4. QED BY <1>5, <2>1, <2>2, <2>3, <2>b DEF ServerRestart, TypeOK
<1>6. CASE UNCHANGED vars
  BY <1>6 DEF vars, TypeOK
<1>7. QED
  BY <1>1, <1>2, <1>3, <1>4, <1>5, <1>6, TypeDevice, TypeRollout, TypeListener
     DEF Next

\* The tables, the queues, the boards and the coroutines of the pipeline keep
\* their types in every behaviour.
THEOREM TypeCorrect == Spec => []TypeOK
BY TypeInit, TypeNext, PTL DEF Spec

-----------------------------------------------------------------------------
(* A settled event stays settled.                                          *)

\* What makes it inductive: between the read and the write of a handler, no
\* other task can turn the event it holds into a success or a failure.
HeldInv ==
    listener.phase \in {"promoting", "reporting"} =>
        event[listener.held][listener.dev] \in InFlight \cup {"cancelled"}

LEMMA HeldFacts ==
    ASSUME TypeOK, listener.phase \in {"promoting", "reporting"}
    PROVE  listener.held \in Rollouts /\ listener.dev \in Devices
BY DEF TypeOK, Listener, Idle

\* Events of a rollout whose insert is not committed do not exist, and the
\* devices still to be told have one.
RolloutInv ==
    \A r \in Rollouts :
        /\ rollout[r].phase \in {"idle", "selected"} =>
              \A d \in Devices : event[r][d] = None
        /\ rollout[r].phase = "publishing" =>
              \A d \in rollout[r].todo : event[r][d] # None

LEMMA RolloutInit == Init => RolloutInv
BY DEF Init, RolloutInv

LEMMA HeldInit == Init => HeldInv
BY DEF Init, HeldInv, Idle

\* The writes a step can make to the events: an insert by a commit, a
\* cancellation by an abort, and the one event the listener holds.
LEMMA EventWrites ==
    ASSUME TypeOK, [Next]_vars, NEW r \in Rollouts, NEW d \in Devices,
           event'[r][d] # event[r][d]
    PROVE  \/ CommitRollout(r) /\ d \in rollout[r].todo
           \/ event[r][d] \in InFlight /\ event'[r][d] = "cancelled"
           \/ Holds(r, d) /\ listener' = Idle /\ event'[r][d] # None
                /\ (PromoteEvent \/ ApplyOtaStatus)
                /\ \A q \in Rollouts, e \in Devices :
                      <<q, e>> # <<r, d>> => event'[q][e] = event[q][e]
<1>1. ASSUME NEW e \in Devices, DeviceStep(e) \/ MarkDead(e) PROVE FALSE
  BY <1>1 DEF DeviceStep, MarkDead, Register, Heartbeat, UptimePasses, UptimeWraps,
     ReceiveCommand, OtaFails, StartFlashing, OtaFinishes, Reboot, PowerCycle, Restart
<1>2. ASSUME NEW q \in Rollouts, RolloutStep(q)
      PROVE  CommitRollout(r) /\ d \in rollout[r].todo
  <2>1. CommitRollout(q)
    BY <1>2 DEF RolloutStep, BeginRollout, PublishCommand, PublishFails, FinishRollout
  <2>2. q = r /\ d \in rollout[r].todo BY <2>1 DEF CommitRollout, TypeOK
  <2>3. QED BY <2>1, <2>2
<1>3. ASSUME NEW v \in Versions, AbortRollout(v)
      PROVE  event[r][d] \in InFlight /\ event'[r][d] = "cancelled"
  BY <1>3 DEF AbortRollout
<1>4. CASE ListenerStep
  <2>1. CASE PromoteEvent
    <3>1. listener.held \in Rollouts /\ listener.dev \in Devices
      BY <2>1, HeldFacts DEF PromoteEvent
    <3>2. listener.held = r /\ listener.dev = d
      BY <2>1, <3>1 DEF PromoteEvent, TypeOK
    <3>3. QED BY <2>1, <3>1, <3>2 DEF PromoteEvent, TypeOK, Holds, None
  <2>2. CASE ApplyOtaStatus
    <3>1. listener.held \in Rollouts /\ listener.dev \in Devices
          /\ listener.status \in Reports
      BY <2>2, ReportingFacts DEF ApplyOtaStatus
    <3>2. event' = [event EXCEPT ![listener.held][listener.dev] = listener.status]
      BY <2>2 DEF ApplyOtaStatus
    <3>3. listener.held = r /\ listener.dev = d BY <3>1, <3>2 DEF TypeOK
    <3>4. event'[r][d] # None BY <3>1, <3>2, <3>3 DEF TypeOK, Reports, None
    <3>5. \A q \in Rollouts, e \in Devices :
             <<q, e>> # <<r, d>> => event'[q][e] = event[q][e]
      BY <3>1, <3>2, <3>3 DEF TypeOK
    <3>6. QED BY <2>2, <3>3, <3>4, <3>5 DEF ApplyOtaStatus, Holds
  <2>3. QED BY <1>4, <2>1, <2>2
     DEF ListenerStep, HandleHeartbeat, HandleRegistration, HandleOtaStatus,
         SelectPromotable
<1>5. CASE WindowPasses \/ Disconnect \/ ServerRestart \/ UNCHANGED vars
  BY <1>5 DEF WindowPasses, Disconnect, ServerRestart, vars
<1>6. QED BY <1>1, <1>2, <1>3, <1>4, <1>5 DEF Next

LEMMA RolloutUnchanged ==
    ASSUME [Next]_vars
    PROVE  (\E q \in Rollouts : RolloutStep(q)) \/ ServerRestart \/ UNCHANGED rollout
BY DEF Next, vars, DeviceStep, MarkDead, Register, Heartbeat, UptimePasses, UptimeWraps,
   ReceiveCommand, OtaFails, StartFlashing, OtaFinishes, Reboot, PowerCycle, Restart,
   AbortRollout, ListenerStep, HandleHeartbeat, HandleRegistration,
   HandleOtaStatus, SelectPromotable, PromoteEvent, ApplyOtaStatus,
   WindowPasses, Disconnect

LEMMA RolloutNext == TypeOK /\ RolloutInv /\ HeldInv /\ [Next]_vars => RolloutInv'
<1> SUFFICES ASSUME TypeOK, RolloutInv, HeldInv, [Next]_vars PROVE RolloutInv'
  OBVIOUS
<1>1. ASSUME NEW r \in Rollouts, NEW d \in Devices,
             ~CommitRollout(r), event[r][d] = None
      PROVE  event'[r][d] = None
  BY <1>1, EventWrites, HeldFacts DEF Holds, HeldInv, InFlight, None
<1>2. ASSUME NEW r \in Rollouts, NEW d \in Devices, event[r][d] # None
      PROVE  event'[r][d] # None
  <2>1. CASE CommitRollout(r) BY <1>2, <2>1 DEF CommitRollout, TypeOK, None
  <2>2. QED BY <1>2, <2>1, EventWrites DEF None
<1>3. ASSUME NEW r \in Rollouts, CommitRollout(r)
      PROVE  /\ rollout'[r].phase = "publishing" /\ rollout'[r].todo = rollout[r].todo
             /\ \A d \in rollout[r].todo : event'[r][d] # None
  BY <1>3 DEF CommitRollout, TypeOK, None
<1>4. ASSUME NEW r \in Rollouts, ~CommitRollout(r)
      PROVE  /\ rollout'[r].phase \in {"idle", "selected"} =>
                   rollout[r].phase \in {"idle", "selected"}
             /\ rollout'[r].phase = "publishing" =>
                   rollout[r].phase = "publishing" /\ rollout'[r].todo \subseteq rollout[r].todo
  <2>1. ASSUME NEW q \in Rollouts, RolloutStep(q), q # r PROVE rollout'[r] = rollout[r]
    BY <2>1 DEF RolloutStep, BeginRollout, CommitRollout, PublishCommand, PublishFails,
       FinishRollout, TypeOK
  <2>2. CASE RolloutStep(r)
    BY <1>4, <2>2 DEF RolloutStep, BeginRollout, PublishCommand, PublishFails,
       FinishRollout, TypeOK
  <2>3. CASE ServerRestart
    <3>1. rollout'[r] = IF rollout[r].phase \in {"selected", "publishing"}
                          THEN [rollout[r] EXCEPT !.phase = "done", !.todo = {}]
                          ELSE rollout[r]
      BY <2>3 DEF ServerRestart
    <3>2. QED BY <3>1 DEF TypeOK
  <2>4. CASE UNCHANGED rollout BY <2>4
  <2>6. QED BY <2>1, <2>2, <2>3, <2>4, RolloutUnchanged
<1>5. QED
  <2> SUFFICES ASSUME NEW r \in Rollouts
               PROVE  /\ rollout'[r].phase \in {"idle", "selected"} =>
                            \A d \in Devices : event'[r][d] = None
                      /\ rollout'[r].phase = "publishing" =>
                            \A d \in rollout'[r].todo : event'[r][d] # None
    BY DEF RolloutInv
  <2>1. CASE CommitRollout(r) BY <1>3, <2>1
  <2>2. CASE ~CommitRollout(r)
    <3>1. rollout[r].todo \subseteq Devices BY DEF TypeOK
    <3>2. QED BY <1>1, <1>2, <1>4, <2>2, <3>1 DEF RolloutInv
  <2>3. QED BY <2>1, <2>2

LEMMA HeldNext == TypeOK /\ RolloutInv /\ HeldInv /\ [Next]_vars => HeldInv'
<1> SUFFICES ASSUME TypeOK, RolloutInv, HeldInv, [Next]_vars,
                    listener'.phase \in {"promoting", "reporting"}
             PROVE  event'[listener'.held][listener'.dev]
                       \in InFlight \cup {"cancelled"}
  BY DEF HeldInv
<1>1. CASE listener' = listener
  <2>1. listener.held \in Rollouts /\ listener.dev \in Devices BY <1>1, HeldFacts
  <2> DEFINE r == listener.held
             d == listener.dev
  <2>2. event[r][d] \in InFlight \cup {"cancelled"} BY <1>1 DEF HeldInv
  <2>3. ~CommitRollout(r)
    BY <2>1, <2>2 DEF CommitRollout, RolloutInv, InFlight, None
  <2>4. listener' # Idle BY DEF Idle
  <2>5. event'[r][d] \in InFlight \cup {"cancelled"}
    BY <2>1, <2>2, <2>3, <2>4, EventWrites
  <2>6. QED BY <1>1, <2>5
<1>2. CASE SelectPromotable
  BY <1>2 DEF SelectPromotable, IsLatest, Promotable, Idle
<1>3. ASSUME NEW d \in Devices, HandleOtaStatus(d)
      PROVE  event'[listener'.held][listener'.dev] \in InFlight
  BY <1>3 DEF HandleOtaStatus, IsLatest, Reported, Idle
<1>4. ASSUME NEW d \in Devices, HandleHeartbeat(d) PROVE FALSE
  BY <1>4 DEF HandleHeartbeat, Idle
<1>5. CASE PromoteEvent \/ ApplyOtaStatus \/ ServerRestart
  <2>1. listener' = Idle BY <1>5 DEF PromoteEvent, ApplyOtaStatus, ServerRestart
  <2>2. QED BY <2>1 DEF Idle
<1>6. QED
  BY <1>1, <1>2, <1>3, <1>4, <1>5
     DEF Next, vars, DeviceStep, MarkDead, Register, Heartbeat, UptimePasses, UptimeWraps,
       ReceiveCommand, OtaFails, StartFlashing, OtaFinishes, Reboot, PowerCycle, Restart,
       RolloutStep, BeginRollout, CommitRollout, PublishCommand, PublishFails,
       FinishRollout, AbortRollout, ListenerStep, HandleRegistration,
       WindowPasses, Disconnect

\* abort_rollout, handle_ota_status and handle_heartbeat never change a success
\* or a failure, and change a cancelled event only when the listener had read
\* it before the abort.
THEOREM SettledEventsStay == Spec => SettledStays
<1> DEFINE A == \A r \in Rollouts, d \in Devices :
          event[r][d] \in {"success", "failed", "cancelled"} =>
             \/ event'[r][d] = event[r][d]
             \/ event[r][d] = "cancelled" /\ Holds(r, d)
<1>1. TypeOK /\ RolloutInv /\ HeldInv /\ [Next]_vars => [A]_vars
  <2> SUFFICES ASSUME TypeOK, RolloutInv, HeldInv, [Next]_vars,
                      NEW r \in Rollouts, NEW d \in Devices,
                      event[r][d] \in {"success", "failed", "cancelled"},
                      event'[r][d] # event[r][d]
               PROVE  event[r][d] = "cancelled" /\ Holds(r, d)
    OBVIOUS
  <2>1. ~CommitRollout(r) BY DEF CommitRollout, RolloutInv, None
  <2>2. event[r][d] \notin InFlight BY DEF InFlight
  <2>3. Holds(r, d) BY <2>1, <2>2, EventWrites
  <2>4. event[r][d] \in InFlight \cup {"cancelled"} BY <2>3 DEF Holds, HeldInv
  <2>5. QED BY <2>2, <2>3, <2>4
<1>2. QED
  BY <1>1, TypeInit, TypeNext, RolloutInit, RolloutNext, HeldInit, HeldNext, PTL
     DEF Spec, SettledStays

-----------------------------------------------------------------------------
(* The table is the ledger of OtaLedger.                                   *)

LEMMA LedgerInit == Init => Ledger!Init
BY DEF Init, Ledger!Init, Hand, Idle, None

\* What the listener's hand does: it takes up an open event, puts down the one
\* it has, or stays as it is.
LEMMA HandMoves ==
    ASSUME TypeOK, [Next]_vars
    PROVE  \/ Hand' = Hand
           \/ Hand # <<>> /\ Hand' = <<>>
           \/ /\ Hand = <<>> /\ event' = event
              /\ \E r \in Rollouts, d \in Devices :
                    Hand' = <<r, d>> /\ event[r][d] \in InFlight
<1>1. CASE SelectPromotable
  <2>1. Hand = <<>> BY <1>1 DEF SelectPromotable, Hand
  <2>2. CASE listener' = Idle BY <2>1, <2>2 DEF Hand, Idle
  <2>3. ASSUME NEW r \in Rollouts, IsLatest(r, Promotable(listener.dev)),
               listener' = [phase |-> "promoting", dev |-> listener.dev, held |-> r]
        PROVE  Hand' = <<r, listener.dev>> /\ event[r][listener.dev] \in InFlight
    BY <2>3 DEF Hand, IsLatest, Promotable
  <2>4. listener.dev \in Devices BY <1>1 DEF SelectPromotable, TypeOK, Listener, Idle
  <2>5. event' = event BY <1>1 DEF SelectPromotable
  <2>6. QED BY <1>1, <2>1, <2>2, <2>3, <2>4, <2>5 DEF SelectPromotable
<1>2. ASSUME NEW d \in Devices, HandleOtaStatus(d)
      PROVE  /\ Hand = <<>> /\ event' = event
             /\ \/ Hand' = <<>>
                \/ \E r \in Rollouts : Hand' = <<r, d>> /\ event[r][d] \in InFlight
  <2>1. Hand = <<>> BY <1>2 DEF HandleOtaStatus, Receives, Hand, Idle
  <2>2. CASE listener' = Idle BY <1>2, <2>1, <2>2 DEF Hand, Idle, HandleOtaStatus
  <2>3. ASSUME NEW r \in Rollouts, IsLatest(r, Reported(d, Head(up[d]).version)),
               listener' = [phase |-> "reporting", dev |-> d, held |-> r,
                            seen |-> event[r][d], status |-> Head(up[d]).status]
        PROVE  Hand' = <<r, d>> /\ event[r][d] \in InFlight
    BY <2>3 DEF Hand, IsLatest, Reported
  <2>4. event' = event BY <1>2 DEF HandleOtaStatus
  <2>5. QED BY <1>2, <2>1, <2>2, <2>3, <2>4 DEF HandleOtaStatus
<1>3. ASSUME NEW d \in Devices, HandleHeartbeat(d) PROVE Hand' = Hand
  BY <1>3 DEF HandleHeartbeat, Receives, Hand, Idle
<1>4. CASE PromoteEvent \/ ApplyOtaStatus \/ ServerRestart
  <2>0. listener' = Idle BY <1>4 DEF PromoteEvent, ApplyOtaStatus, ServerRestart
  <2>1. Hand' = <<>> BY <2>0 DEF Hand, Idle
  <2>2. QED BY <2>1
<1>5. CASE listener' = listener BY <1>5 DEF Hand
<1>6. QED
  BY <1>1, <1>2, <1>3, <1>4, <1>5
     DEF Next, vars, DeviceStep, MarkDead, Register, Heartbeat, UptimePasses, UptimeWraps,
       ReceiveCommand, OtaFails, StartFlashing, OtaFinishes, Reboot, PowerCycle, Restart,
       RolloutStep, BeginRollout, CommitRollout, PublishCommand, PublishFails,
       FinishRollout, AbortRollout, ListenerStep, HandleRegistration,
       WindowPasses, Disconnect

LEMMA LedgerNext ==
    TypeOK /\ RolloutInv /\ HeldInv /\ [Next]_vars => [Ledger!Next]_(Ledger!vars)
<1> SUFFICES ASSUME TypeOK, RolloutInv, HeldInv, [Next]_vars
             PROVE  [Ledger!Next]_(Ledger!vars)
  OBVIOUS
<1>1. ASSUME NEW r \in Rollouts, CommitRollout(r) PROVE Ledger!Enter(r)
  <2>1. \A d \in Devices : event[r][d] = None
    BY <1>1 DEF CommitRollout, RolloutInv
  <2>2. event' = [event EXCEPT ![r] =
            [d \in Devices |-> IF d \in rollout[r].todo THEN "pending" ELSE "none"]]
    BY <1>1, <2>1 DEF CommitRollout, TypeOK, None
  <2>3. rollout[r].todo \in SUBSET Devices BY DEF TypeOK
  <2>4. Hand' = Hand BY <1>1 DEF CommitRollout, Hand
  <2>5. QED BY <2>1, <2>2, <2>3, <2>4 DEF Ledger!Enter, None
<1>2. ASSUME NEW v \in Versions, AbortRollout(v) PROVE Ledger!Cancel
  <2> DEFINE cancelled == {r \in Rollouts : rollout[r].target = v}
  <2>1. event' = [r \in Rollouts |-> [d \in Devices |->
            IF r \in cancelled /\ event[r][d] \in Ledger!Open
              THEN "cancelled" ELSE event[r][d]]]
    BY <1>2 DEF AbortRollout, InFlight, Ledger!Open
  <2>2. cancelled \in SUBSET Rollouts OBVIOUS
  <2>3. Hand' = Hand BY <1>2 DEF AbortRollout, Hand
  <2>4. QED BY <2>1, <2>2, <2>3 DEF Ledger!Cancel
<1>3. CASE PromoteEvent \/ ApplyOtaStatus
  <2> DEFINE r == listener.held
             d == listener.dev
  <2>1. r \in Rollouts /\ d \in Devices
    BY <1>3, HeldFacts DEF PromoteEvent, ApplyOtaStatus
  <2>2. Hand = <<r, d>> /\ Hand' = <<>>
    BY <1>3 DEF PromoteEvent, ApplyOtaStatus, Hand, Idle
  <2>3. event[r][d] \in Ledger!Open \cup {"cancelled"}
    BY <1>3 DEF HeldInv, PromoteEvent, ApplyOtaStatus, InFlight, Ledger!Open
  <2>4. CASE event' = event BY <2>2, <2>4 DEF Ledger!Next, Ledger!LetGo
  <2>5. ASSUME NEW s \in Reports, event' = [event EXCEPT ![r][d] = s]
        PROVE  Ledger!Write(r, d)
    BY <2>2, <2>3, <2>5 DEF Ledger!Write, Ledger!Verdicts, Reports
  <2>6. event' = event \/ \E s \in Reports : event' = [event EXCEPT ![r][d] = s]
    <3>1. CASE PromoteEvent BY <3>1 DEF PromoteEvent, Reports
    <3>2. CASE ApplyOtaStatus
      <4>1. listener.status \in Reports BY <3>2, ReportingFacts DEF ApplyOtaStatus
      <4>2. QED BY <3>2, <4>1 DEF ApplyOtaStatus
    <3>3. QED BY <1>3, <3>1, <3>2
  <2>7. QED BY <2>1, <2>4, <2>5, <2>6 DEF Ledger!Next
<1>4. CASE event' = event
  <2>1. CASE Hand' = Hand BY <1>4, <2>1 DEF Ledger!vars
  <2>2. CASE Hand # <<>> /\ Hand' = <<>>
    BY <1>4, <2>2 DEF Ledger!Next, Ledger!LetGo
  <2>3. ASSUME NEW r \in Rollouts, NEW d \in Devices, Hand = <<>>,
               Hand' = <<r, d>>, event[r][d] \in InFlight
        PROVE  Ledger!TakeUp(r, d)
    BY <1>4, <2>3 DEF Ledger!TakeUp, Ledger!Open, InFlight
  <2>4. QED BY <2>1, <2>2, <2>3, HandMoves DEF Ledger!Next
<1>5. QED
  <2>1. \/ \E r \in Rollouts : CommitRollout(r)
        \/ \E v \in Versions : AbortRollout(v)
        \/ PromoteEvent \/ ApplyOtaStatus
        \/ event' = event
    BY DEF Next, vars, DeviceStep, MarkDead, Register, Heartbeat, UptimePasses,
       UptimeWraps, ReceiveCommand, OtaFails, StartFlashing, OtaFinishes, Reboot,
       PowerCycle, Restart, RolloutStep, BeginRollout, PublishCommand, PublishFails,
       FinishRollout, ListenerStep, HandleHeartbeat, HandleRegistration,
       HandleOtaStatus, SelectPromotable, WindowPasses, Disconnect, ServerRestart
  <2>2. QED BY <1>1, <1>2, <1>3, <1>4, <2>1 DEF Ledger!Next

\* The pipeline implements the ledger: start_rollout enters a rollout once and
\* as a whole, abort_rollout cancels what is open, and a handler writes only
\* the event it has taken up, whatever faults happen.
THEOREM KeepsTheLedger == Spec => LedgerKept
BY LedgerInit, LedgerNext, TypeInit, TypeNext, RolloutInit, RolloutNext,
   HeldInit, HeldNext, PTL DEF Spec, LedgerKept, Ledger!Spec

-----------------------------------------------------------------------------
(* Nothing happens to a board that the events do not account for.          *)

LEMMA RangeAppend ==
    ASSUME NEW S, NEW s \in Seq(S), NEW e \in S
    PROVE  Range(Append(s, e)) = Range(s) \cup {e}
<1> DEFINE t == Append(s, e)
<1>1. t \in Seq(S) OBVIOUS
<1>2. Range(t) = {t[i] : i \in 1 .. Len(t)} BY <1>1, RangeEquality, Zenon
<1>3. Range(s) = {s[i] : i \in 1 .. Len(s)} BY RangeEquality, Zenon
<1>4. ASSUME NEW x \in Range(s) PROVE x \in Range(t)
  <2>1. PICK i \in 1 .. Len(s) : x = s[i] BY <1>3
  <2>2. i \in 1 .. Len(t) /\ t[i] = x BY <2>1
  <2>3. QED BY <1>2, <2>2
<1>5. e \in Range(t)
  <2>1. Len(s) + 1 \in 1 .. Len(t) /\ t[Len(s) + 1] = e OBVIOUS
  <2>2. QED BY <1>2, <2>1
<1>6. ASSUME NEW x \in Range(t) PROVE x \in Range(s) \/ x = e
  <2>1. PICK i \in 1 .. Len(t) : x = t[i] BY <1>2
  <2>2. i \in 1 .. Len(s) \/ i = Len(s) + 1 BY <2>1
  <2>3. QED BY <1>3, <2>1, <2>2
<1>7. QED BY <1>4, <1>5, <1>6

LEMMA RangeCons ==
    ASSUME NEW S, NEW s \in Seq(S), NEW e \in S
    PROVE  Range(<<e>> \o s) = Range(s) \cup {e}
<1>1. <<e>> \in Seq(S) OBVIOUS
<1>2. Range(<<e>> \o s) = Range(<<e>>) \cup Range(s)
  BY <1>1, RangeConcatenation, ZenonT(30)
<1>3. Range(<<e>>) = {e} BY DEF Range
<1>4. QED BY <1>2, <1>3, Zenon

LEMMA RangeTail ==
    ASSUME NEW S, NEW s \in Seq(S), s # <<>>
    PROVE  Head(s) \in Range(s) /\ Range(Tail(s)) \subseteq Range(s)
<1> DEFINE t == Tail(s)
<1>1. Range(s) = {s[i] : i \in 1 .. Len(s)} BY RangeEquality, Zenon
<1>2. t \in Seq(S) OBVIOUS
<1>3. Range(t) = {t[i] : i \in 1 .. Len(t)} BY <1>2, RangeEquality, Zenon
<1>4. Head(s) \in Range(s) BY <1>1
<1>5. ASSUME NEW x \in Range(t) PROVE x \in Range(s)
  <2>1. PICK i \in 1 .. Len(t) : x = t[i] BY <1>3
  <2>2. i + 1 \in 1 .. Len(s) /\ s[i + 1] = x BY <2>1
  <2>3. QED BY <1>1, <2>2
<1>6. QED BY <1>4, <1>5

LEMMA SendRange ==
    ASSUME TypeOK, NEW d \in Devices, NEW m \in Message, Send(d, m)
    PROVE  \A e \in Devices : \A x \in Range(up'[e]) :
              x \in Range(up[e]) \/ (e = d /\ x = m)
<1>1. up[d] \in Seq(Message) BY DEF TypeOK
<1> DEFINE t == Append(up[d], m)
<1>2. Range(t) = Range(up[d]) \cup {m} BY <1>1, RangeAppend
<1>3. up' = up \/ up' = [up EXCEPT ![d] = t] BY DEF Send
<1> HIDE DEF t
<1>4. ASSUME NEW e \in Devices
      PROVE  up'[e] = up[e] \/ (e = d /\ up'[e] = t)
  BY <1>3 DEF TypeOK
<1>5. QED BY <1>2, <1>4

LEMMA ReceiveRange ==
    ASSUME TypeOK, NEW d \in Devices, NEW kind, Receives(d, kind)
    PROVE  /\ Head(up[d]) \in Range(up[d])
           /\ \A e \in Devices : Range(up'[e]) \subseteq Range(up[e])
<1>1. up[d] \in Seq(Message) /\ up[d] # <<>> BY DEF TypeOK, Receives
<1>2. Head(up[d]) \in Range(up[d]) /\ Range(Tail(up[d])) \subseteq Range(up[d])
  BY <1>1, RangeTail
<1>3. QED BY <1>2 DEF Receives, TypeOK

\* What a disconnect or a restart of the server does to the messages.
EmptyQueues == up' = [d \in Devices |-> <<>>]

LEMMA EmptyRange ==
    ASSUME EmptyQueues, NEW d \in Devices
    PROVE  Range(up'[d]) = {}
BY DEF EmptyQueues, Range

\* A rollout that has an event keeps its target.
LEMMA TargetStays ==
    ASSUME TypeOK, RolloutInv, [Next]_vars,
           NEW r \in Rollouts, NEW d \in Devices, event[r][d] # None
    PROVE  rollout'[r].target = rollout[r].target
<1>1. rollout[r].phase # "idle" BY DEF RolloutInv
<1>2. ASSUME NEW q \in Rollouts, RolloutStep(q), q # r PROVE rollout'[r] = rollout[r]
  BY <1>2 DEF RolloutStep, BeginRollout, CommitRollout, PublishCommand, PublishFails,
     FinishRollout, TypeOK
<1>3. CASE RolloutStep(r)
  BY <1>1, <1>3 DEF RolloutStep, BeginRollout, CommitRollout, PublishCommand,
     PublishFails, FinishRollout, TypeOK
<1>4. CASE ServerRestart
  <2>1. rollout'[r] = rollout[r]
        \/ rollout'[r] = [rollout[r] EXCEPT !.phase = "done", !.todo = {}]
    BY <1>4 DEF ServerRestart
  <2>2. rollout[r] \in CallType BY Typed
  <2>3. QED BY <2>1, <2>2 DEF CallType
<1>5. CASE UNCHANGED rollout BY <1>5
<1>6. QED BY <1>2, <1>3, <1>4, <1>5, RolloutUnchanged

\* An event is never removed, so what was ordered once stays ordered.
LEMMA OrderedStays ==
    ASSUME TypeOK, RolloutInv, HeldInv, [Next]_vars,
           NEW d \in Devices, NEW v, Ordered(d, v)
    PROVE  Ordered(d, v)'
<1>1. PICK r \in Rollouts : rollout[r].target = v /\ event[r][d] # None
  BY DEF Ordered
<1>2. event'[r][d] # None
  <2>1. CASE CommitRollout(r) BY <1>1, <2>1 DEF CommitRollout, TypeOK, None
  <2>2. QED BY <1>1, <2>1, EventWrites DEF None
<1>3. rollout'[r].target = v BY <1>1, TargetStays
<1>4. QED BY <1>2, <1>3 DEF Ordered

LEMMA RecordedInit == Init => NothingUnrecorded
BY DEF Init, NothingUnrecorded, Range

LEMMA RecordedNext ==
    TypeOK /\ RolloutInv /\ HeldInv /\ NothingUnrecorded /\ [Next]_vars
        => NothingUnrecorded'
<1> SUFFICES ASSUME TypeOK, RolloutInv, HeldInv, NothingUnrecorded, [Next]_vars,
                    NEW e \in Devices
             PROVE  /\ \A v \in Range(down'[e]) : Ordered(e, v)'
                    /\ \A j \in Range(device'[e].jobs) : Ordered(e, j.version)'
                    /\ \A m \in Range(up'[e]) :
                          m.kind = "status" => Ordered(e, m.version)'
                    /\ \A v \in {device'[e].image, device'[e].boot} :
                          v = Factory \/ Ordered(e, v)'
  BY DEF NothingUnrecorded
<1>0. \A v : Ordered(e, v) => Ordered(e, v)' BY OrderedStays
<1> DEFINE Commands == \A v \in Range(down'[e]) : Ordered(e, v)
           Jobs == \A j \in Range(device'[e].jobs) : Ordered(e, j.version)
           Messages == \A m \in Range(up'[e]) :
                          m.kind = "status" => Ordered(e, m.version)
           Images == \A v \in {device'[e].image, device'[e].boot} :
                          v = Factory \/ Ordered(e, v)
<1> HIDE DEF Commands, Jobs, Messages, Images
<1> SUFFICES Commands /\ Jobs /\ Messages /\ Images
  BY <1>0 DEF Commands, Jobs, Messages, Images
<1>1. UNCHANGED down => Commands BY DEF Commands, NothingUnrecorded
<1>2. UNCHANGED up => Messages BY DEF Messages, NothingUnrecorded
<1>3. UNCHANGED device => Jobs /\ Images BY DEF Jobs, Images, NothingUnrecorded
<1>4. ASSUME NEW d \in Devices, DeviceStep(d)
      PROVE  Commands /\ Jobs /\ Messages /\ Images
  <2>1. CASE Register(d)
    <3>1. [kind |-> "register", version |-> device[d].image] \in Message
      BY DEF TypeOK, Message
    <3>2. Messages
      BY <2>1, <3>1, SendRange DEF Register, Messages, NothingUnrecorded
    <3>3. Jobs /\ Images
      BY <2>1 DEF Register, TypeOK, Jobs, Images, NothingUnrecorded
    <3>4. QED BY <2>1, <1>1, <3>2, <3>3 DEF Register
  <2>2. CASE Heartbeat(d)
    <3>1. [kind |-> "heartbeat", fresh |-> device[d].fresh] \in Message
      BY DEF TypeOK, Message
    <3>2. Messages
      BY <2>2, <3>1, SendRange DEF Heartbeat, Messages, NothingUnrecorded
    <3>3. QED BY <2>2, <1>1, <1>3, <3>2 DEF Heartbeat
  <2>3. CASE UptimePasses(d)
    <3>1. Jobs /\ Images
      BY <2>3 DEF UptimePasses, TypeOK, Jobs, Images, NothingUnrecorded
    <3>2. QED BY <2>3, <1>1, <1>2, <3>1 DEF UptimePasses
  <2>4. CASE UptimeWraps(d)
    <3>1. Jobs /\ Images
      BY <2>4 DEF UptimeWraps, TypeOK, Jobs, Images, NothingUnrecorded
    <3>2. QED BY <2>4, <1>1, <1>2, <3>1 DEF UptimeWraps
  <2>5. CASE ReceiveCommand(d)
    <3> DEFINE v == Head(down[d])
               j == [version |-> v, stage |-> "downloading"]
    <3>1. down[d] \in Seq(Versions) /\ down[d] # <<>>
      BY <2>5 DEF ReceiveCommand, TypeOK
    <3>2. v \in Versions /\ v \in Range(down[d])
          /\ Range(Tail(down[d])) \subseteq Range(down[d])
      BY <3>1, TailFacts, RangeTail
    <3>3. Ordered(d, v) BY <3>2 DEF NothingUnrecorded
    <3>4. Commands
      BY <2>5, <3>2 DEF ReceiveCommand, TypeOK, Commands, NothingUnrecorded
    <3>5. Messages
      <4>1. Report("downloading", v) \in Message BY <3>2, ReportType DEF Reports
      <4>2. Report("downloading", v).version = v BY DEF Report
      <4>3. QED BY <2>5, <3>3, <4>1, <4>2, SendRange
         DEF ReceiveCommand, Messages, NothingUnrecorded
    <3>6. Jobs
      <4>1. j \in Job BY <3>2 DEF Job
      <4>2. device[d].jobs \in Seq(Job) BY DEF TypeOK
      <4>3. Range(<<j>> \o device[d].jobs) = Range(device[d].jobs) \cup {j}
        BY <4>1, <4>2, RangeCons
      <4>4. e # d => device'[e].jobs = device[e].jobs BY <2>5 DEF ReceiveCommand, TypeOK
      <4>5. e = d => device'[e].jobs = <<j>> \o device[d].jobs
        BY <2>5 DEF ReceiveCommand, TypeOK
      <4>6. j.version = v OBVIOUS
      <4> HIDE DEF j, v
      <4>7. QED BY <3>3, <4>3, <4>4, <4>5, <4>6 DEF Jobs, NothingUnrecorded
    <3>7. Images BY <2>5 DEF ReceiveCommand, TypeOK, Images, NothingUnrecorded
    <3>8. QED BY <3>4, <3>5, <3>6, <3>7
  <2>6. ASSUME Stage(d) # None
        PROVE  /\ Ordered(d, JobVersion(d))
               /\ \A st \in Reports : Send(d, Report(st, JobVersion(d))) => Messages
               /\ \A j \in Range(Tail(device[d].jobs)) : Ordered(d, j.version)
               /\ \A st \in {"flashing", "finished"} :
                     \A j \in Range(Advance(d, st)) : Ordered(d, j.version)
    <3> DEFINE s == device[d].jobs
    <3>1. s \in Seq(Job) /\ s # <<>> /\ Tail(s) \in Seq(Job)
          /\ JobVersion(d) \in Versions
      BY <2>6, JobFacts
    <3>2. Head(s) \in Range(s) /\ Range(Tail(s)) \subseteq Range(s)
      BY <3>1, RangeTail
    <3>3. Ordered(d, JobVersion(d)) BY <3>2 DEF JobVersion, NothingUnrecorded
    <3>4. ASSUME NEW st \in Reports, Send(d, Report(st, JobVersion(d)))
          PROVE  Messages
      <4>1. Report(st, JobVersion(d)) \in Message BY <3>1, ReportType
      <4>2. Report(st, JobVersion(d)).version = JobVersion(d) BY DEF Report
      <4>3. QED BY <3>3, <3>4, <4>1, <4>2, SendRange DEF Messages, NothingUnrecorded
    <3>5. ASSUME NEW st \in {"flashing", "finished"}, NEW j \in Range(Advance(d, st))
          PROVE  Ordered(d, j.version)
      <4> DEFINE n == [version |-> JobVersion(d), stage |-> st]
                 t == Tail(s)
      <4>1. n \in Job BY <3>1 DEF Job
      <4>2. n.version = JobVersion(d) OBVIOUS
      <4>3. Advance(d, st) = <<n>> \o t BY DEF Advance
      <4>a. t \in Seq(Job) /\ Range(t) \subseteq Range(s) BY <3>1, <3>2
      <4> HIDE DEF n, s, t
      <4>4. Range(<<n>> \o t) = Range(t) \cup {n} BY <4>1, <4>a, RangeCons
      <4>5. j \in Range(s) \/ j = n BY <3>5, <4>3, <4>4, <4>a
      <4>6. QED BY <3>3, <4>2, <4>5 DEF NothingUnrecorded, s
    <3>6. QED BY <3>2, <3>3, <3>4, <3>5 DEF NothingUnrecorded
  <2>7. CASE OtaFails(d)
    <3>1. Stage(d) # None BY <2>7 DEF OtaFails, None
    <3>2. Messages BY <2>6, <2>7, <3>1 DEF OtaFails, Reports
    <3>3. Jobs BY <2>6, <2>7, <3>1 DEF OtaFails, TypeOK, Jobs, NothingUnrecorded
    <3>4. Images BY <2>7 DEF OtaFails, TypeOK, Images, NothingUnrecorded
    <3>5. QED BY <1>1, <2>7, <3>2, <3>3, <3>4 DEF OtaFails
  <2>8. CASE StartFlashing(d)
    <3>1. Stage(d) # None BY <2>8 DEF StartFlashing, None
    <3>2. Messages BY <2>6, <2>8, <3>1 DEF StartFlashing, Reports
    <3>3. Jobs
      BY <2>6, <2>8, <3>1 DEF StartFlashing, TypeOK, Jobs, NothingUnrecorded
    <3>4. Images BY <2>8 DEF StartFlashing, TypeOK, Images, NothingUnrecorded
    <3>5. QED BY <1>1, <2>8, <3>2, <3>3, <3>4 DEF StartFlashing
  <2>9. CASE OtaFinishes(d)
    <3>1. Stage(d) # None BY <2>9 DEF OtaFinishes, None
    <3>2. Messages BY <2>6, <2>9, <3>1 DEF OtaFinishes, Reports
    <3>3. Jobs
      BY <2>6, <2>9, <3>1 DEF OtaFinishes, TypeOK, Jobs, NothingUnrecorded
    <3>4. Images
      BY <2>6, <2>9, <3>1 DEF OtaFinishes, TypeOK, Images, NothingUnrecorded
    <3>5. QED BY <1>1, <2>9, <3>2, <3>3, <3>4 DEF OtaFinishes
  <2>10. CASE Restart(d)
    <3>1. Range(<<>>) = {} BY DEF Range
    <3>2. Commands
      BY <2>10, <3>1 DEF Restart, TypeOK, Commands, NothingUnrecorded
    <3>3. Jobs BY <2>10, <3>1 DEF Restart, TypeOK, Jobs, NothingUnrecorded
    <3>4. Images BY <2>10 DEF Restart, TypeOK, Images, NothingUnrecorded
    <3>5. QED BY <1>2, <2>10, <3>2, <3>3, <3>4 DEF Restart
  <2>11. QED
    BY <1>4, <2>1, <2>2, <2>3, <2>4, <2>5, <2>7, <2>8, <2>9, <2>10
       DEF DeviceStep, Reboot, PowerCycle
<1>5. ASSUME NEW r \in Rollouts, PublishCommand(r) PROVE Commands
  <2>1. PICK d \in rollout[r].todo :
          down' = [down EXCEPT ![d] = Append(@, rollout[r].target)] \/ down' = down
    BY <1>5 DEF PublishCommand
  <2>2. d \in Devices /\ rollout[r].target \in Versions /\ down[d] \in Seq(Versions)
    BY DEF TypeOK
  <2>3. Ordered(d, rollout[r].target)
    BY <1>5, <2>1 DEF PublishCommand, RolloutInv, Ordered
  <2> DEFINE t == Append(down[d], rollout[r].target)
  <2>4. Range(t) = Range(down[d]) \cup {rollout[r].target} BY <2>2, RangeAppend
  <2>5. down' = down \/ down' = [down EXCEPT ![d] = t] BY <2>1
  <2> HIDE DEF t
  <2>6. down'[e] = down[e] \/ (e = d /\ down'[e] = t) BY <2>2, <2>5 DEF TypeOK
  <2>7. QED BY <2>3, <2>4, <2>6 DEF Commands, NothingUnrecorded
<1>6. ASSUME NEW d \in Devices,
             HandleHeartbeat(d) \/ HandleRegistration(d) \/ HandleOtaStatus(d)
      PROVE  Messages
  <2>1. Range(up'[e]) \subseteq Range(up[e])
    BY <1>6, ReceiveRange DEF HandleHeartbeat, HandleRegistration, HandleOtaStatus
  <2>2. QED BY <2>1 DEF Messages, NothingUnrecorded
<1>7. CASE Disconnect \/ ServerRestart
  <2>1. EmptyQueues BY <1>7 DEF Disconnect, ServerRestart, EmptyQueues
  <2>2. Messages BY <2>1, EmptyRange DEF Messages
  <2>3. QED BY <1>1, <1>3, <1>7, <2>2 DEF Disconnect, ServerRestart
<1>8. QED
  BY <1>1, <1>2, <1>3, <1>4, <1>5, <1>6, <1>7
     DEF Next, vars, MarkDead, RolloutStep, BeginRollout, CommitRollout, PublishCommand,
         PublishFails, FinishRollout, AbortRollout, ListenerStep, HandleHeartbeat,
         HandleRegistration, HandleOtaStatus, SelectPromotable, PromoteEvent,
         ApplyOtaStatus, WindowPasses

\* Events are committed before their commands are published, so every command,
\* OTA, report and over-the-air image of every board belongs to an event row,
\* whatever is lost or crashes.
THEOREM EverythingRecorded == Spec => []NothingUnrecorded
BY TypeInit, TypeNext, RolloutInit, RolloutNext, HeldInit, HeldNext,
   RecordedInit, RecordedNext, PTL DEF Spec

-----------------------------------------------------------------------------
(* What the boards say is true, and what the tables say has evidence.      *)

\* A board runs, and will boot, the factory image or one it has finished; it
\* registers with such a version, and reports a success only for one it has
\* finished.  The last conjunct follows the report through the listener.
TruthInv ==
    /\ \A d \in Devices :
          /\ device[d].image \in {Factory} \cup installed[d]
          /\ device[d].boot \in {Factory} \cup installed[d]
          /\ \A m \in Range(up[d]) :
                /\ m.kind = "register" => m.version \in {Factory} \cup installed[d]
                /\ m.kind = "status" /\ m.status = "success" =>
                      m.version \in installed[d]
    /\ listener.phase = "reporting" /\ listener.status = "success" =>
          rollout[listener.held].target \in installed[listener.dev]

LEMMA TruthInit == Init => TruthInv
BY DEF Init, TruthInv, Range, Idle

LEMMA InstalledStays ==
    ASSUME TypeOK, [Next]_vars, NEW d \in Devices
    PROVE  installed[d] \subseteq installed'[d]
<1>1. ASSUME NEW e \in Devices, OtaFinishes(e) PROVE installed[d] \subseteq installed'[d]
  BY <1>1 DEF OtaFinishes, TypeOK
<1>2. QED
  BY <1>1 DEF Next, vars, DeviceStep, MarkDead, Register, Heartbeat, UptimePasses,
     UptimeWraps, ReceiveCommand, OtaFails, StartFlashing, Reboot, PowerCycle, Restart,
     RolloutStep, BeginRollout, CommitRollout, PublishCommand, PublishFails,
     FinishRollout, AbortRollout, ListenerStep, HandleHeartbeat, HandleRegistration,
     HandleOtaStatus, SelectPromotable, PromoteEvent, ApplyOtaStatus,
     WindowPasses, Disconnect, ServerRestart

LEMMA TruthDevice ==
    ASSUME TypeOK, TruthInv, NEW d \in Devices, DeviceStep(d), NEW e \in Devices
    PROVE  /\ device'[e].image \in {Factory} \cup installed'[e]
           /\ device'[e].boot \in {Factory} \cup installed'[e]
           /\ \A m \in Range(up'[e]) :
                 /\ m.kind = "register" => m.version \in {Factory} \cup installed'[e]
                 /\ m.kind = "status" /\ m.status = "success" =>
                       m.version \in installed'[e]
<1> DEFINE Images == /\ device'[e].image \in {Factory} \cup installed'[e]
                     /\ device'[e].boot \in {Factory} \cup installed'[e]
           True(m) == /\ m.kind = "register" => m.version \in {Factory} \cup installed'[e]
                      /\ m.kind = "status" /\ m.status = "success" =>
                            m.version \in installed'[e]
<1>0. installed[e] \subseteq installed'[e] BY InstalledStays DEF Next
<1>1. \A m \in Range(up[e]) : True(m) BY <1>0 DEF TruthInv
<1>2. ASSUME NEW st \in Reports, st # "success", Stage(d) # None,
             Send(d, Report(st, JobVersion(d)))
      PROVE  \A m \in Range(up'[e]) : True(m)
  <2>1. Report(st, JobVersion(d)) \in Message BY <1>2, JobFacts, ReportType
  <2>2. e = d => True(Report(st, JobVersion(d))) BY <1>2 DEF Report
  <2> HIDE DEF True
  <2>3. QED BY <1>1, <1>2, <2>1, <2>2, SendRange
<1>3. CASE Register(d)
  <2> DEFINE x == [kind |-> "register", version |-> device[d].image]
  <2>1. x \in Message BY DEF TypeOK, Message
  <2>2. e = d => True(x) BY <1>0 DEF TruthInv
  <2>3. Send(d, x) BY <1>3 DEF Register
  <2> HIDE DEF x, True
  <2>4. \A m \in Range(up'[e]) : True(m) BY <1>1, <2>1, <2>2, <2>3, SendRange
  <2>5. Images BY <1>0, <1>3 DEF Register, TypeOK, TruthInv
  <2>6. QED BY <2>4, <2>5 DEF True
<1>4. CASE Heartbeat(d)
  <2> DEFINE x == [kind |-> "heartbeat", fresh |-> device[d].fresh]
  <2>1. x \in Message BY DEF TypeOK, Message
  <2>2. True(x) OBVIOUS
  <2>3. Send(d, x) BY <1>4 DEF Heartbeat
  <2> HIDE DEF x, True
  <2>4. \A m \in Range(up'[e]) : True(m) BY <1>1, <2>1, <2>2, <2>3, SendRange
  <2>5. Images BY <1>0, <1>4 DEF Heartbeat, TypeOK, TruthInv
  <2>6. QED BY <2>4, <2>5 DEF True
<1>5. CASE UptimePasses(d)
  <2>1. Images BY <1>0, <1>5 DEF UptimePasses, TypeOK, TruthInv
  <2>2. QED BY <1>1, <1>5, <2>1 DEF UptimePasses
<1>6. CASE UptimeWraps(d)
  <2>1. Images BY <1>0, <1>6 DEF UptimeWraps, TypeOK, TruthInv
  <2>2. QED BY <1>1, <1>6, <2>1 DEF UptimeWraps
<1>7. CASE ReceiveCommand(d)
  <2> DEFINE x == Report("downloading", Head(down[d]))
  <2>1. Head(down[d]) \in Versions BY <1>7, TailFacts DEF ReceiveCommand, TypeOK
  <2>2. x \in Message BY <2>1, ReportType DEF Reports
  <2>3. True(x) BY DEF Report
  <2>4. Send(d, x) BY <1>7 DEF ReceiveCommand
  <2> HIDE DEF x, True
  <2>5. \A m \in Range(up'[e]) : True(m) BY <1>1, <2>2, <2>3, <2>4, SendRange
  <2>6. Images BY <1>0, <1>7 DEF ReceiveCommand, TypeOK, TruthInv
  <2>7. QED BY <2>5, <2>6 DEF True
<1>8. CASE OtaFails(d)
  <2>1. \A m \in Range(up'[e]) : True(m) BY <1>2, <1>8 DEF OtaFails, Reports, None
  <2>2. Images BY <1>0, <1>8 DEF OtaFails, TypeOK, TruthInv
  <2>3. QED BY <2>1, <2>2
<1>9. CASE StartFlashing(d)
  <2>1. \A m \in Range(up'[e]) : True(m) BY <1>2, <1>9 DEF StartFlashing, Reports, None
  <2>2. Images BY <1>0, <1>9 DEF StartFlashing, TypeOK, TruthInv
  <2>3. QED BY <2>1, <2>2
<1>10. CASE OtaFinishes(d)
  <2> DEFINE x == Report("success", JobVersion(d))
  <2>1. Stage(d) # None BY <1>10 DEF OtaFinishes, None
  <2>2. x \in Message BY <2>1, JobFacts, ReportType DEF Reports
  <2>3. e = d => JobVersion(d) \in installed'[e] BY <1>10 DEF OtaFinishes, TypeOK
  <2>4. e = d => True(x) BY <2>3 DEF Report
  <2>5. Send(d, x) BY <1>10 DEF OtaFinishes
  <2> HIDE DEF x, True
  <2>6. \A m \in Range(up'[e]) : True(m) BY <1>1, <2>2, <2>4, <2>5, SendRange
  <2>7. Images BY <1>0, <1>10, <2>3 DEF OtaFinishes, TypeOK, TruthInv
  <2>8. QED BY <2>6, <2>7 DEF True
<1>11. CASE Restart(d)
  <2>1. Images BY <1>0, <1>11 DEF Restart, TypeOK, TruthInv
  <2>2. QED BY <1>1, <1>11, <2>1 DEF Restart
<1>12. QED
  BY <1>3, <1>4, <1>5, <1>6, <1>7, <1>8, <1>9, <1>10, <1>11
     DEF DeviceStep, Reboot, PowerCycle

LEMMA TruthNext ==
    TypeOK /\ RolloutInv /\ HeldInv /\ TruthInv /\ [Next]_vars => TruthInv'
<1> SUFFICES ASSUME TypeOK, RolloutInv, HeldInv, TruthInv, [Next]_vars
             PROVE  TruthInv'
  OBVIOUS
<1>1. ASSUME NEW e \in Devices
      PROVE  /\ device'[e].image \in {Factory} \cup installed'[e]
             /\ device'[e].boot \in {Factory} \cup installed'[e]
             /\ \A m \in Range(up'[e]) :
                   /\ m.kind = "register" => m.version \in {Factory} \cup installed'[e]
                   /\ m.kind = "status" /\ m.status = "success" =>
                         m.version \in installed'[e]
  <2>1. CASE \E d \in Devices : DeviceStep(d) BY <2>1, TruthDevice
  <2>2. CASE device' = device /\ installed' = installed
             /\ Range(up'[e]) \subseteq Range(up[e])
    BY <2>2 DEF TruthInv
  <2>3. ASSUME NEW d \in Devices,
               HandleHeartbeat(d) \/ HandleRegistration(d) \/ HandleOtaStatus(d)
        PROVE  Range(up'[e]) \subseteq Range(up[e])
    BY <2>3, ReceiveRange DEF HandleHeartbeat, HandleRegistration, HandleOtaStatus
  <2>4. ASSUME Disconnect \/ ServerRestart PROVE Range(up'[e]) \subseteq Range(up[e])
    <3>1. EmptyQueues BY <2>4 DEF Disconnect, ServerRestart, EmptyQueues
    <3>2. QED BY <3>1, EmptyRange
  <2>5. CASE ~\E d \in Devices : DeviceStep(d)
    <3>1. device' = device /\ installed' = installed
      BY <2>5 DEF Next, vars, MarkDead, RolloutStep, BeginRollout, CommitRollout,
         PublishCommand, PublishFails, FinishRollout, AbortRollout, ListenerStep,
         HandleHeartbeat, HandleRegistration, HandleOtaStatus, SelectPromotable,
         PromoteEvent, ApplyOtaStatus, WindowPasses, Disconnect, ServerRestart
    <3>2. Range(up'[e]) \subseteq Range(up[e])
      BY <2>3, <2>4, <2>5 DEF Next, vars, MarkDead, RolloutStep, BeginRollout,
         CommitRollout, PublishCommand, PublishFails, FinishRollout, AbortRollout,
         ListenerStep, SelectPromotable, PromoteEvent, ApplyOtaStatus, WindowPasses
    <3>3. QED BY <2>2, <3>1, <3>2
  <2>6. QED BY <2>1, <2>5
<1>2. ASSUME listener'.phase = "reporting", listener'.status = "success"
      PROVE  rollout'[listener'.held].target \in installed'[listener'.dev]
  <2>1. CASE listener' = listener
    <3>1. listener.held \in Rollouts /\ listener.dev \in Devices
      BY <1>2, <2>1, HeldFacts
    <3>2. rollout[listener.held].target \in installed[listener.dev]
      BY <1>2, <2>1 DEF TruthInv
    <3>3. event[listener.held][listener.dev] # None
      BY <1>2, <2>1 DEF HeldInv, InFlight, None
    <3>4. QED BY <2>1, <3>1, <3>2, <3>3, TargetStays, InstalledStays
  <2>2. ASSUME NEW d \in Devices, HandleOtaStatus(d)
        PROVE  rollout'[listener'.held].target \in installed'[listener'.dev]
    <3>1. Head(up[d]) \in Range(up[d]) /\ Head(up[d]).kind = "status"
      BY <2>2, ReceiveRange, ReceiveFacts DEF HandleOtaStatus
    <3>2. listener' # Idle BY <1>2 DEF Idle
    <3>3. PICK r \in Rollouts :
             /\ IsLatest(r, Reported(d, Head(up[d]).version))
             /\ listener' = [phase |-> "reporting", dev |-> d, held |-> r,
                             seen |-> event[r][d], status |-> Head(up[d]).status]
      BY <2>2, <3>2 DEF HandleOtaStatus
    <3>4. rollout[r].target = Head(up[d]).version BY <3>3 DEF IsLatest, Reported
    <3>5. Head(up[d]).version \in installed[d]
      BY <1>2, <3>1, <3>3 DEF TruthInv
    <3>6. QED BY <2>2, <3>3, <3>4, <3>5 DEF HandleOtaStatus
  <2>3. listener' # Idle BY <1>2 DEF Idle
  <2>4. ASSUME NEW d \in Devices, HandleHeartbeat(d) PROVE FALSE
    BY <1>2, <2>4 DEF HandleHeartbeat, Idle
  <2>5. ASSUME SelectPromotable PROVE FALSE
    BY <1>2, <2>5 DEF SelectPromotable, Idle
  <2>6. QED
    BY <2>1, <2>2, <2>3, <2>4, <2>5
       DEF Next, vars, DeviceStep, MarkDead, Register, Heartbeat, UptimePasses,
         UptimeWraps, ReceiveCommand, OtaFails, StartFlashing, OtaFinishes, Reboot,
         PowerCycle, Restart, RolloutStep, BeginRollout, CommitRollout, PublishCommand,
         PublishFails, FinishRollout, AbortRollout, ListenerStep, HandleRegistration,
         PromoteEvent, ApplyOtaStatus, WindowPasses, Disconnect, ServerRestart
<1>3. QED BY <1>1, <1>2 DEF TruthInv

\* The success that handle_ota_status writes is one the board earned: it had
\* finished flashing that very version.
THEOREM ReportedSuccessesAreReal == Spec => ReportedSuccessIsReal
<1> DEFINE A == \A r \in Rollouts, d \in Devices :
          (/\ listener.phase = "reporting"
           /\ event[r][d] # "success" /\ event'[r][d] = "success")
             => rollout[r].target \in installed[d]
<1>1. TypeOK /\ HeldInv /\ TruthInv /\ [Next]_vars => [A]_vars
  <2> SUFFICES ASSUME TypeOK, HeldInv, TruthInv, [Next]_vars,
                      NEW r \in Rollouts, NEW d \in Devices,
                      listener.phase = "reporting",
                      event[r][d] # "success", event'[r][d] = "success"
               PROVE  rollout[r].target \in installed[d]
    OBVIOUS
  <2>1. ~CommitRollout(r)
    BY DEF CommitRollout, TypeOK
  <2>2. Holds(r, d) /\ listener' = Idle BY <2>1, EventWrites
  <2>3. ApplyOtaStatus
    <3>1. event' # event OBVIOUS
    <3>2. listener # Idle BY DEF Idle
    <3>3. \A e \in Devices : \A kind \in {"heartbeat", "register", "status"} :
              ~Receives(e, kind)
      BY <3>2 DEF Receives
    <3>4. listener' # listener BY <2>2, <3>2
    <3>5. ~ServerRestart BY <3>1 DEF ServerRestart
    <3>6. QED
      BY <3>3, <3>4, <3>5
         DEF Next, vars, DeviceStep, MarkDead, Register, Heartbeat, UptimePasses,
           UptimeWraps, ReceiveCommand, OtaFails, StartFlashing, OtaFinishes, Reboot,
           PowerCycle, Restart, RolloutStep, BeginRollout, CommitRollout,
           PublishCommand, PublishFails, FinishRollout, AbortRollout, ListenerStep,
           HandleHeartbeat, HandleRegistration, HandleOtaStatus, SelectPromotable,
           PromoteEvent, WindowPasses, Disconnect
  <2>4. listener.status = "success"
    <3>1. event' = [event EXCEPT ![listener.held][listener.dev] = listener.status]
      BY <2>3 DEF ApplyOtaStatus
    <3>2. QED BY <2>2, <3>1 DEF Holds, TypeOK
  <2>5. QED BY <2>2, <2>4 DEF Holds, TruthInv
<1>2. QED
  BY <1>1, TypeInit, TypeNext, RolloutInit, RolloutNext, HeldInit, HeldNext,
     TruthInit, TruthNext, PTL DEF Spec, ReportedSuccessIsReal

LEMMA EvidenceInit == Init => VersionHasEvidence
<1> SUFFICES ASSUME Init, NEW d \in Devices PROVE row[d].fw \in {NULL, Factory}
  BY DEF VersionHasEvidence
<1>1. row[d] \in {[status |-> None, fw |-> NULL], [status |-> "unknown", fw |-> Factory]}
  BY DEF Init
<1>2. QED BY <1>1

LEMMA EvidenceNext ==
    TypeOK /\ RolloutInv /\ HeldInv /\ TruthInv /\ VersionHasEvidence /\ [Next]_vars
        => VersionHasEvidence'
<1> SUFFICES ASSUME TypeOK, RolloutInv, HeldInv, TruthInv, VersionHasEvidence,
                    [Next]_vars, NEW d \in Devices
             PROVE  \/ row'[d].fw \in {NULL, Factory} \cup installed'[d]
                    \/ \E r \in Rollouts : /\ rollout'[r].target = row'[d].fw
                                           /\ event'[r][d] = "success"
  BY DEF VersionHasEvidence
<1>1. installed[d] \subseteq installed'[d] BY InstalledStays
<1>2. ASSUME NEW r \in Rollouts, event[r][d] = "success"
      PROVE  event'[r][d] = "success" /\ rollout'[r].target = rollout[r].target
  <2>1. ~CommitRollout(r) BY <1>2 DEF CommitRollout, RolloutInv, None
  <2>2. event'[r][d] = "success"
    BY <1>2, <2>1, EventWrites DEF InFlight, Holds, HeldInv
  <2>3. QED BY <1>2, <2>2, TargetStays DEF None
<1>3. CASE row'[d].fw = row[d].fw BY <1>1, <1>2, <1>3 DEF VersionHasEvidence
<1>4. ASSUME NEW e \in Devices, HandleHeartbeat(e), row'[d].fw # row[d].fw
      PROVE  row'[d].fw = NULL
  BY <1>4 DEF HandleHeartbeat, TypeOK
<1>5. ASSUME NEW e \in Devices, HandleRegistration(e), row'[d].fw # row[d].fw
      PROVE  row'[d].fw \in {Factory} \cup installed'[d]
  <2>1. e = d /\ row'[d].fw = Head(up[d]).version
    BY <1>5 DEF HandleRegistration, TypeOK
  <2>2. Head(up[d]) \in Range(up[d]) /\ Head(up[d]).kind = "register"
    BY <1>5, <2>1, ReceiveRange, ReceiveFacts DEF HandleRegistration
  <2>3. QED BY <1>1, <2>1, <2>2 DEF TruthInv
<1>6. ASSUME PromoteEvent, row'[d].fw # row[d].fw
      PROVE  \E r \in Rollouts : /\ rollout'[r].target = row'[d].fw
                                 /\ event'[r][d] = "success"
  <2>1. listener.held \in Rollouts /\ listener.dev \in Devices
    BY <1>6, HeldFacts DEF PromoteEvent
  <2>2. listener.dev = d /\ row'[d].fw = rollout[listener.held].target
    BY <1>6, <2>1 DEF PromoteEvent, TypeOK
  <2>3. event'[listener.held][d] = "success" BY <1>6, <2>1, <2>2 DEF PromoteEvent, TypeOK
  <2>4. rollout' = rollout BY <1>6 DEF PromoteEvent
  <2>5. QED BY <2>1, <2>2, <2>3, <2>4
<1>7. ASSUME ApplyOtaStatus, row'[d].fw # row[d].fw
      PROVE  row'[d].fw \in installed'[d]
  <2>1. listener.held \in Rollouts /\ listener.dev \in Devices
    BY <1>7, ReportingFacts DEF ApplyOtaStatus
  <2>2. listener.status = "success" BY <1>7 DEF ApplyOtaStatus
  <2>3. listener.dev = d /\ row'[d].fw = rollout[listener.held].target
    BY <1>7, <2>1 DEF ApplyOtaStatus, TypeOK
  <2>4. QED BY <1>1, <1>7, <2>2, <2>3 DEF TruthInv, ApplyOtaStatus
<1>8. ASSUME NEW e \in Devices, MarkDead(e) PROVE row'[d].fw = row[d].fw
  BY <1>8 DEF MarkDead, TypeOK
<1>9. QED
  BY <1>3, <1>4, <1>5, <1>6, <1>7, <1>8
     DEF Next, vars, DeviceStep, Register, Heartbeat, UptimePasses, UptimeWraps,
       ReceiveCommand, OtaFails, StartFlashing, OtaFinishes, Reboot, PowerCycle,
       Restart, RolloutStep, BeginRollout, CommitRollout, PublishCommand, PublishFails,
       FinishRollout, AbortRollout, ListenerStep, HandleOtaStatus, SelectPromotable,
       WindowPasses, Disconnect, ServerRestart

\* The firmware_version column of every board names the factory image, an image
\* the board has finished flashing, or the target of an event recorded as a
\* success, which the theorem before keeps from being overwritten.
THEOREM VersionsHaveEvidence == Spec => []VersionHasEvidence
BY TypeInit, TypeNext, RolloutInit, RolloutNext, HeldInit, HeldNext,
   TruthInit, TruthNext, EvidenceInit, EvidenceNext, PTL DEF Spec

-----------------------------------------------------------------------------
(* Progress of one rollout.                                                *)

Rank(status) ==
    IF status = "pending" THEN 1
    ELSE IF status = "downloading" THEN 2
    ELSE IF status = "flashing" THEN 3
    ELSE 4

\* The command for d is still to be published.
Owed(d) == rollout[1].phase \in {"selected", "publishing"} /\ d \in rollout[1].todo
NoCommand(d) == ~Owed(d) /\ down[d] = <<>>

IsReport(d, i) == up[d][i].kind = "status"
Reporting(d) == listener.phase = "reporting" /\ listener.dev = d

\* The OTA d is inside, and the reports on their way, are n or further.
JobsFrom(d, n) == \A i \in DOMAIN device[d].jobs : Rank(device[d].jobs[i].stage) >= n
ReportsFrom(d, n) ==
    \A i \in DOMAIN up[d] : IsReport(d, i) => Rank(up[d][i].status) >= n

\* What is known of d moves from the call to the broker, the board, the queue
\* and the listener to the event, and nothing behind is further back than what
\* is before it.
CommandOrder(d) == (Owed(d) => down[d] = <<>>) /\ Len(down[d]) <= 1
JobOrder(d) ==
    /\ Len(device[d].jobs) <= 1
    /\ device[d].jobs # <<>> => NoCommand(d)
ReportOrder(d) ==
    \A i \in DOMAIN up[d] : IsReport(d, i) =>
        /\ NoCommand(d) /\ JobsFrom(d, Rank(up[d][i].status))
        /\ \A j \in DOMAIN up[d] :
              i < j /\ IsReport(d, j) => Rank(up[d][i].status) <= Rank(up[d][j].status)
HandOrder(d) ==
    Reporting(d) => /\ NoCommand(d)
                    /\ JobsFrom(d, Rank(listener.status))
                    /\ ReportsFrom(d, Rank(listener.status))
EventOrder(d) ==
    event[1][d] \in {"downloading", "flashing"} =>
        /\ NoCommand(d)
        /\ JobsFrom(d, Rank(event[1][d])) /\ ReportsFrom(d, Rank(event[1][d]))
        /\ Reporting(d) => Rank(event[1][d]) <= Rank(listener.status)
Order(d) ==
    CommandOrder(d) /\ JobOrder(d) /\ ReportOrder(d) /\ HandOrder(d) /\ EventOrder(d)
OrderInv == \A d \in Devices : Order(d)

LEMMA RankType == \A status : Rank(status) \in 1 .. 4
BY DEF Rank

\* There are no new commands, OTAs and reports of d, and the front of its queue
\* may have been taken.
Fades(d, k) ==
    /\ \A i \in DOMAIN up'[d] :
          IsReport(d, i)' => /\ i \in Nat /\ i + k \in DOMAIN up[d]
                             /\ up'[d][i] = up[d][i + k]
    /\ down'[d] \in {down[d], <<>>}
    /\ device'[d].jobs \in {device[d].jobs, <<>>}
    /\ Owed(d)' => Owed(d)

LEMMA FadesKeeps ==
    ASSUME NEW d \in Devices, Order(d), NEW k \in Nat, Fades(d, k)
    PROVE  /\ CommandOrder(d)' /\ JobOrder(d)' /\ ReportOrder(d)'
           /\ NoCommand(d) => NoCommand(d)'
           /\ \A n : JobsFrom(d, n) => JobsFrom(d, n)'
           /\ \A n : ReportsFrom(d, n) => ReportsFrom(d, n)'
<1>1. NoCommand(d) => NoCommand(d)' BY DEF Fades, NoCommand
<1>2. \A n : JobsFrom(d, n) => JobsFrom(d, n)' BY DEF Fades, JobsFrom
<1>3. \A n : ReportsFrom(d, n) => ReportsFrom(d, n)' BY DEF Fades, ReportsFrom, IsReport
<1>4. CommandOrder(d)' BY DEF Fades, Order, CommandOrder
<1>5. JobOrder(d)' BY <1>1 DEF Fades, Order, JobOrder
<1>6. ReportOrder(d)'
  <2> SUFFICES ASSUME NEW i \in DOMAIN up'[d], IsReport(d, i)'
               PROVE  /\ NoCommand(d)' /\ JobsFrom(d, Rank(up[d][i].status))'
                      /\ \A j \in DOMAIN up'[d] : i < j /\ IsReport(d, j)' =>
                            Rank(up'[d][i].status) <= Rank(up'[d][j].status)
    BY DEF ReportOrder
  <2>1. i + k \in DOMAIN up[d] /\ up'[d][i] = up[d][i + k] /\ IsReport(d, i + k)
    BY DEF Fades, IsReport
  <2>2. NoCommand(d)' /\ JobsFrom(d, Rank(up[d][i].status))'
    BY <1>1, <1>2, <2>1 DEF Order, ReportOrder
  <2>3. ASSUME NEW j \in DOMAIN up'[d], i < j, IsReport(d, j)'
        PROVE  Rank(up'[d][i].status) <= Rank(up'[d][j].status)
    <3>1. j + k \in DOMAIN up[d] /\ up'[d][j] = up[d][j + k] /\ IsReport(d, j + k)
      BY <2>3 DEF Fades, IsReport
    <3>2. i + k < j + k BY <2>3 DEF Fades
    <3>3. QED BY <2>1, <3>1, <3>2 DEF Order, ReportOrder
  <2>4. QED BY <2>2, <2>3
<1>7. QED BY <1>1, <1>2, <1>3, <1>4, <1>5, <1>6

\* A step after which there is less to come, and nothing new in the listener's
\* hand or in the table.
LEMMA OrderFades ==
    ASSUME NEW d \in Devices, Order(d), NEW k \in Nat, Fades(d, k),
           Reporting(d)' => Reporting(d) /\ listener' = listener,
           event'[1][d] \in {"downloading", "flashing"} => event'[1][d] = event[1][d]
    PROVE  Order(d)'
<1>1. HandOrder(d)' BY FadesKeeps DEF Order, HandOrder
<1>2. EventOrder(d)' BY FadesKeeps DEF Order, EventOrder
<1>3. QED BY <1>1, <1>2, FadesKeeps DEF Order

\* Nothing of d changes.
LEMMA OrderSame ==
    ASSUME TypeOK, NEW d \in Devices, Order(d),
           up'[d] = up[d], down'[d] = down[d], device'[d].jobs = device[d].jobs,
           Owed(d)' => Owed(d),
           Reporting(d)' => Reporting(d) /\ listener' = listener,
           event'[1][d] \in {"downloading", "flashing"} => event'[1][d] = event[1][d]
    PROVE  Order(d)'
<1>1. up[d] \in Seq(Message) BY DEF TypeOK
<1>2. DOMAIN up[d] \subseteq Nat BY <1>1
<1>3. Fades(d, 0) BY <1>2 DEF Fades
<1>4. QED BY <1>3, OrderFades

\* The board reports on the OTA it is inside, which moves on or ends.
LEMMA OrderReports ==
    ASSUME TypeOK, NEW d \in Devices, Order(d), NEW m \in Message, Send(d, m),
           m.kind = "status", NEW n \in 1 .. 4, Rank(m.status) = n,
           NoCommand(d), NoCommand(d)', Len(device'[d].jobs) <= 1, JobsFrom(d, n)',
           \A k \in 1 .. 4 : JobsFrom(d, k) => k <= n,
           UNCHANGED <<listener, event>>
    PROVE  Order(d)'
<1> DEFINE s == up[d]
<1>1. s \in Seq(Message) /\ DOMAIN s = 1 .. Len(s) /\ Len(s) \in Nat BY DEF TypeOK
<1>2. ASSUME NEW k \in 1 .. 4, k <= n PROVE JobsFrom(d, k)'
  BY <1>2, RankType DEF JobsFrom
<1>3. /\ up'[d] = s
      \/ /\ up'[d] = Append(s, m) /\ DOMAIN up'[d] = 1 .. Len(s) + 1
         /\ up'[d][Len(s) + 1] = m /\ \A i \in 1 .. Len(s) : up'[d][i] = s[i]
  <2>1. up'[d] = s \/ up'[d] = Append(s, m) BY DEF Send, TypeOK
  <2> HIDE DEF s
  <2>2. QED BY <1>1, <2>1
<1> HIDE DEF s
\* A report in the queue is an old one, or the new one behind all others.
<1>4. ASSUME NEW i \in DOMAIN up'[d]
      PROVE  (i \in DOMAIN s /\ up'[d][i] = s[i]) \/ (i = Len(s) + 1 /\ up'[d][i] = m)
  BY <1>1, <1>3
<1>5. ASSUME NEW k \in 1 .. 4, k <= n, ReportsFrom(d, k) PROVE ReportsFrom(d, k)'
  BY <1>4, <1>5 DEF ReportsFrom, IsReport, s
<1>6. ASSUME NEW i \in DOMAIN s, IsReport(d, i)
      PROVE  Rank(s[i].status) \in 1 .. 4 /\ Rank(s[i].status) <= n
  BY <1>6, RankType DEF Order, ReportOrder, s
<1>7. ReportOrder(d)'
  <2> SUFFICES ASSUME NEW i \in DOMAIN up'[d], IsReport(d, i)'
               PROVE  /\ JobsFrom(d, Rank(up[d][i].status))'
                      /\ \A j \in DOMAIN up'[d] : i < j /\ IsReport(d, j)' =>
                            Rank(up'[d][i].status) <= Rank(up'[d][j].status)
    BY DEF ReportOrder
  <2>1. CASE i \in DOMAIN s /\ up'[d][i] = s[i]
    <3>1. IsReport(d, i) BY <2>1 DEF IsReport, s
    <3>2. Rank(s[i].status) \in 1 .. 4 /\ Rank(s[i].status) <= n BY <1>6, <2>1, <3>1
    <3>3. ASSUME NEW j \in DOMAIN up'[d], i < j, IsReport(d, j)'
          PROVE  Rank(s[i].status) <= Rank(up'[d][j].status)
      <4>1. CASE j \in DOMAIN s /\ up'[d][j] = s[j]
        <5>1. IsReport(d, j) BY <3>3, <4>1 DEF IsReport, s
        <5>2. QED BY <2>1, <3>1, <3>3, <4>1, <5>1 DEF Order, ReportOrder, s
      <4>2. CASE up'[d][j] = m BY <3>2, <4>2
      <4>3. QED BY <1>4, <4>1, <4>2
    <3>4. QED BY <1>2, <2>1, <3>2, <3>3
  <2>2. CASE i = Len(s) + 1 /\ up'[d][i] = m
    <3>1. \A j \in DOMAIN up'[d] : ~(i < j) BY <1>1, <1>4, <2>2
    <3>2. QED BY <1>2, <2>2, <3>1
  <2>3. QED BY <1>4, <2>1, <2>2
<1>8. HandOrder(d)'
  <2> SUFFICES ASSUME Reporting(d)'
               PROVE  /\ JobsFrom(d, Rank(listener.status))'
                      /\ ReportsFrom(d, Rank(listener.status))'
    BY DEF HandOrder
  <2>1. /\ JobsFrom(d, Rank(listener.status)) /\ ReportsFrom(d, Rank(listener.status))
    BY DEF Order, HandOrder, Reporting
  <2>2. QED BY <1>2, <1>5, <2>1, RankType
<1>9. EventOrder(d)'
  <2> SUFFICES ASSUME event[1][d] \in {"downloading", "flashing"}
               PROVE  /\ JobsFrom(d, Rank(event[1][d]))' /\ ReportsFrom(d, Rank(event[1][d]))'
                      /\ Reporting(d)' => Rank(event[1][d]) <= Rank(listener.status)
    BY DEF EventOrder
  <2>1. /\ JobsFrom(d, Rank(event[1][d])) /\ ReportsFrom(d, Rank(event[1][d]))
        /\ Reporting(d)' => Rank(event[1][d]) <= Rank(listener.status)
    BY DEF Order, EventOrder, Reporting
  <2>2. QED BY <1>2, <1>5, <2>1, RankType
<1>10. CommandOrder(d)' /\ JobOrder(d)'
  BY DEF NoCommand, CommandOrder, JobOrder
<1>11. QED BY <1>7, <1>8, <1>9, <1>10 DEF Order

LEMMA EmptyIsEmpty ==
    ASSUME NEW S, NEW s \in Seq(S)
    PROVE  /\ Len(s) \in Nat /\ DOMAIN s = 1 .. Len(s)
           /\ s = <<>> <=> Len(s) = 0
           /\ s = <<>> <=> DOMAIN s = {}
<1>1. Len(s) \in Nat /\ DOMAIN s = 1 .. Len(s) BY LenProperties
<1>2. s # <<>> => Len(s) \in Nat \ {0} BY EmptySeq
<1>3. ASSUME Len(s) = 0 PROVE DOMAIN s = {} BY <1>1, <1>3
<1>4. ASSUME Len(s) # 0 PROVE 1 \in DOMAIN s BY <1>1, <1>4
<1>5. s = <<>> => Len(s) = 0 OBVIOUS
<1>6. s = <<>> <=> Len(s) = 0 BY <1>2, <1>5
<1>7. s = <<>> <=> DOMAIN s = {} BY <1>3, <1>4, <1>6
<1>8. QED BY <1>1, <1>6, <1>7

\* The board moves its one OTA to another stage.
LEMMA AdvanceStage ==
    ASSUME TypeOK, NEW d \in Devices, JobOrder(d), Stage(d) # None,
           NEW st \in {"downloading", "flashing", "finished"}
    PROVE  /\ Len(Advance(d, st)) = 1
           /\ \A i \in DOMAIN Advance(d, st) : Advance(d, st)[i].stage = st
<1> DEFINE s == device[d].jobs
           e == [version |-> JobVersion(d), stage |-> st]
<1>1. s \in Seq(Job) /\ s # <<>> /\ Len(s) <= 1 BY JobFacts DEF JobOrder
<1>2. e \in Job /\ e.stage = st BY JobFacts DEF Job
<1>3. Advance(d, st) = <<e>> \o Tail(s) BY DEF Advance
<1> HIDE DEF s, e
<1>4. Tail(s) = <<>>
  <2>1. Len(s) \in Nat /\ Len(s) # 0 BY <1>1, EmptyIsEmpty
  <2>2. \A n \in Nat : n # 0 /\ n <= 1 => n = 1 OBVIOUS
  <2>3. Len(s) = 1 BY <1>1, <2>1, <2>2
  <2>4. Tail(s) \in Seq(Job) /\ Len(Tail(s)) = 0 BY <1>1, <2>3
  <2>5. QED BY <2>4, EmptyIsEmpty
<1>5. <<e>> \o <<>> = <<e>> BY <1>2
<1>6. Advance(d, st) = <<e>> BY <1>3, <1>4, <1>5
<1>7. QED BY <1>2, <1>6

\* The stage of the OTA bounds what JobsFrom can say.
LEMMA StageRank ==
    ASSUME TypeOK, NEW d \in Devices, Stage(d) # None, NEW k, JobsFrom(d, k)
    PROVE  Rank(Stage(d)) >= k
<1>1. /\ 1 \in DOMAIN device[d].jobs /\ Head(device[d].jobs) = device[d].jobs[1]
      /\ device[d].jobs # <<>>
  BY JobFacts, TailFacts
<1>2. Stage(d) = device[d].jobs[1].stage BY <1>1 DEF Stage
<1>3. QED BY <1>1, <1>2 DEF JobsFrom

\* What the board's own steps leave alone.
LEMMA DeviceFrame ==
    ASSUME TypeOK, NEW d \in Devices, DeviceStep(d)
    PROVE  /\ UNCHANGED <<event, rollout, listener>>
           /\ \A e \in Devices \ {d} :
                 up'[e] = up[e] /\ down'[e] = down[e] /\ device'[e] = device[e]
<1>1. UNCHANGED <<event, rollout, listener>>
  BY DEF DeviceStep, Register, Heartbeat, UptimePasses, UptimeWraps, ReceiveCommand,
     OtaFails, StartFlashing, OtaFinishes, Reboot, PowerCycle, Restart
<1>2. ASSUME NEW e \in Devices \ {d}
      PROVE  up'[e] = up[e] /\ down'[e] = down[e] /\ device'[e] = device[e]
  <2>1. up'[e] = up[e]
    BY DEF DeviceStep, Register, Heartbeat, UptimePasses, UptimeWraps, ReceiveCommand,
       OtaFails, StartFlashing, OtaFinishes, Reboot, PowerCycle, Restart, Send, TypeOK
  <2>2. down'[e] = down[e]
    BY DEF DeviceStep, Register, Heartbeat, UptimePasses, UptimeWraps, ReceiveCommand,
       OtaFails, StartFlashing, OtaFinishes, Reboot, PowerCycle, Restart, TypeOK
  <2>3. device'[e] = device[e]
    BY DEF DeviceStep, Register, Heartbeat, UptimePasses, UptimeWraps, ReceiveCommand,
       OtaFails, StartFlashing, OtaFinishes, Reboot, PowerCycle, Restart, TypeOK
  <2>4. QED BY <2>1, <2>2, <2>3
<1>3. QED BY <1>1, <1>2

\* Heartbeats and registrations are no reports.
LEMMA OrderSends ==
    ASSUME TypeOK, NEW d \in Devices, Order(d), NEW m \in Message, Send(d, m),
           m.kind # "status", device'[d].jobs = device[d].jobs,
           UNCHANGED <<down, rollout, listener, event>>
    PROVE  Order(d)'
<1> DEFINE s == up[d]
<1>1. s \in Seq(Message) /\ DOMAIN s = 1 .. Len(s) /\ Len(s) \in Nat BY DEF TypeOK
<1>2. up'[d] = s \/ up'[d] = Append(s, m) BY DEF Send, TypeOK
<1> HIDE DEF s
<1>3. ASSUME NEW i \in DOMAIN up'[d]
      PROVE  (i \in DOMAIN s /\ up'[d][i] = s[i]) \/ up'[d][i] = m
  BY <1>1, <1>2
<1>4. Fades(d, 0) BY <1>1, <1>3 DEF Fades, IsReport, Owed, s
<1>5. QED BY <1>4, OrderFades DEF Reporting

LEMMA OrderCommand ==
    ASSUME TypeOK, NEW d \in Devices, Order(d), ReceiveCommand(d)
    PROVE  Order(d)'
<1> DEFINE v == Head(down[d])
           m == Report("downloading", v)
           j == [version |-> v, stage |-> "downloading"]
<1>1. /\ down[d] # <<>> /\ Send(d, m) /\ down' = [down EXCEPT ![d] = Tail(@)]
      /\ device' = [device EXCEPT ![d].jobs = <<j>> \o @]
      /\ UNCHANGED <<event, rollout, listener>>
  BY DEF ReceiveCommand
<1>2. down[d] \in Seq(Versions) /\ Len(down[d]) <= 1 /\ ~NoCommand(d) /\ ~Owed(d)
  BY <1>1 DEF TypeOK, Order, CommandOrder, NoCommand
<1>3. v \in Versions /\ Tail(down[d]) = <<>> BY <1>1, <1>2
<1>4. down'[d] = <<>> BY <1>1, <1>3 DEF TypeOK
<1>5. NoCommand(d)' BY <1>1, <1>2, <1>4 DEF NoCommand, Owed
<1>6. device[d].jobs = <<>> BY <1>2 DEF Order, JobOrder
<1>7. \A i \in DOMAIN up[d] : ~IsReport(d, i) BY <1>2 DEF Order, ReportOrder
<1>8. ~Reporting(d) /\ event[1][d] \notin {"downloading", "flashing"}
  BY <1>2 DEF Order, HandOrder, EventOrder
<1>9. m \in Message /\ Rank(m.status) = 2
  BY <1>3, ReportType DEF Reports, Report, Rank
<1>10. device'[d].jobs = <<j>>
  <2>1. device'[d].jobs = <<j>> \o device[d].jobs BY <1>1 DEF TypeOK
  <2>2. j \in Job BY <1>3 DEF Job
  <2> HIDE DEF j
  <2>3. QED BY <1>6, <2>1, <2>2
<1>11. JobsFrom(d, 2)' /\ Len(device'[d].jobs) = 1
  BY <1>10 DEF JobsFrom, Rank
<1> DEFINE s == up[d]
<1>12. s \in Seq(Message) /\ DOMAIN s = 1 .. Len(s) /\ Len(s) \in Nat BY DEF TypeOK
<1>13. up'[d] = s \/ up'[d] = Append(s, m) BY <1>1 DEF Send, TypeOK
<1> HIDE DEF s, m
<1>14. ASSUME NEW i \in DOMAIN up'[d], IsReport(d, i)'
       PROVE  i = Len(s) + 1 /\ up'[d][i] = m
  <2>1. (i \in DOMAIN s /\ up'[d][i] = s[i]) \/ (i = Len(s) + 1 /\ up'[d][i] = m)
    BY <1>9, <1>12, <1>13
  <2>2. QED BY <1>7, <1>14, <2>1 DEF IsReport, s
<1>15. ReportOrder(d)'
  BY <1>5, <1>9, <1>11, <1>12, <1>14 DEF ReportOrder
<1>16. CommandOrder(d)' /\ JobOrder(d)'
  BY <1>4, <1>5, <1>11 DEF CommandOrder, JobOrder, NoCommand
<1>17. HandOrder(d)' /\ EventOrder(d)'
  BY <1>1, <1>8 DEF HandOrder, EventOrder, Reporting
<1>18. QED BY <1>15, <1>16, <1>17 DEF Order

LEMMA OrderDevice ==
    ASSUME TypeOK, OrderInv, NEW d \in Devices, DeviceStep(d), NEW e \in Devices
    PROVE  Order(e)'
<1>0. Order(d) /\ Order(e) BY DEF OrderInv
<1>1. CASE e # d
  BY <1>0, <1>1, DeviceFrame, OrderSame DEF Owed, Reporting
<1> SUFFICES ASSUME e = d PROVE Order(d)'
  BY <1>1
<1>2. UNCHANGED <<event, rollout, listener>> BY DeviceFrame
<1>3. device[d] \in BoardType /\ device \in [Devices -> BoardType] BY Typed
<1>4. CASE Register(d)
  <2>1. [kind |-> "register", version |-> device[d].image] \in Message
    BY DEF TypeOK, Message
  <2>2. device'[d].jobs = device[d].jobs BY <1>3, <1>4 DEF Register, BoardType
  <2>3. QED BY <1>0, <1>2, <1>4, <2>1, <2>2, OrderSends DEF Register
<1>5. CASE Heartbeat(d)
  <2>1. [kind |-> "heartbeat", fresh |-> device[d].fresh] \in Message
    BY DEF TypeOK, Message
  <2>2. QED BY <1>0, <1>2, <1>5, <2>1, OrderSends DEF Heartbeat
<1>6. CASE UptimePasses(d) \/ UptimeWraps(d)
  <2>1. device'[d].jobs = device[d].jobs /\ UNCHANGED <<up, down>>
    BY <1>3, <1>6 DEF UptimePasses, UptimeWraps, BoardType
  <2>2. QED BY <1>0, <1>2, <2>1, OrderSame DEF Owed, Reporting
<1>7. CASE ReceiveCommand(d) BY <1>0, <1>7, OrderCommand
<1>8. CASE Restart(d)
  <2>1. device'[d].jobs = <<>> /\ down'[d] = <<>> /\ up' = up
    BY <1>3, <1>8 DEF Restart, TypeOK
  <2>2. up[d] \in Seq(Message) BY DEF TypeOK
  <2>3. DOMAIN up[d] \subseteq Nat BY <2>2
  <2>4. Fades(d, 0) BY <1>2, <2>1, <2>3 DEF Fades, Owed
  <2>5. QED BY <1>0, <1>2, <2>4, OrderFades DEF Reporting
<1>9. ASSUME Stage(d) \in {"downloading", "flashing"}, UNCHANGED down,
             NEW n \in 1 .. 4, NEW status \in Reports, Rank(status) = n,
             Send(d, Report(status, JobVersion(d))),
             Rank(Stage(d)) <= n, Len(device'[d].jobs) <= 1, JobsFrom(d, n)'
      PROVE  Order(d)'
  <2> DEFINE m == Report(status, JobVersion(d))
  <2>1. Stage(d) # None BY <1>9 DEF None
  <2>2. m \in Message /\ m.kind = "status" /\ m.status = status
    BY <2>1, JobFacts, ReportType DEF Report
  <2>3. NoCommand(d) /\ NoCommand(d)'
    BY <1>0, <1>2, <1>9, <2>1, JobFacts DEF Order, JobOrder, NoCommand, Owed
  <2>4. \A k \in 1 .. 4 : JobsFrom(d, k) => k <= n
    BY <1>9, <2>1, StageRank, RankType
  <2> HIDE DEF m
  <2>5. QED BY <1>0, <1>2, <1>9, <2>2, <2>3, <2>4, OrderReports DEF m
<1>10. CASE OtaFails(d)
  <2>1. Stage(d) # None BY <1>10 DEF OtaFails, None
  <2>2. Tail(device[d].jobs) = <<>>
    <3>1. device[d].jobs \in Seq(Job) /\ device[d].jobs # <<>> /\ Len(device[d].jobs) <= 1
      BY <1>0, <2>1, JobFacts DEF Order, JobOrder
    <3>2. QED BY <3>1
  <2>3. device'[d].jobs = <<>> BY <1>3, <1>10, <2>2 DEF OtaFails, BoardType
  <2>4. JobsFrom(d, 4)' /\ Len(device'[d].jobs) <= 1 BY <2>3 DEF JobsFrom
  <2>5. QED BY <1>9, <1>10, <2>4, RankType DEF OtaFails, Reports, Rank
<1>11. CASE StartFlashing(d)
  <2>1. Stage(d) = "downloading" BY <1>11 DEF StartFlashing
  <2>2. device'[d].jobs = Advance(d, "flashing") BY <1>3, <1>11 DEF StartFlashing, BoardType
  <2>3. JobsFrom(d, 3)' /\ Len(device'[d].jobs) <= 1
    BY <1>0, <2>1, <2>2, AdvanceStage DEF JobsFrom, Order, Rank, None
  <2>4. QED BY <1>9, <1>11, <2>1, <2>3 DEF StartFlashing, Reports, Rank
<1>12. CASE OtaFinishes(d)
  <2>1. Stage(d) = "flashing" BY <1>12 DEF OtaFinishes
  <2>2. device'[d].jobs = Advance(d, "finished") BY <1>3, <1>12 DEF OtaFinishes, BoardType
  <2>3. /\ Len(Advance(d, "finished")) = 1
        /\ \A i \in DOMAIN Advance(d, "finished") :
              Advance(d, "finished")[i].stage = "finished"
    BY <1>0, <2>1, AdvanceStage DEF Order, None
  <2>4. JobsFrom(d, 4)' /\ Len(device'[d].jobs) <= 1
    <3>1. Rank("finished") = 4 BY DEF Rank
    <3>2. ASSUME NEW i \in DOMAIN device'[d].jobs
          PROVE  Rank(device'[d].jobs[i].stage) >= 4
      BY <2>2, <2>3, <3>1
    <3>3. JobsFrom(d, 4)' BY <3>2 DEF JobsFrom
    <3>4. Len(device'[d].jobs) = 1 BY <2>2, <2>3
    <3>5. QED BY <3>3, <3>4
  <2>5. QED BY <1>9, <1>12, <2>1, <2>4 DEF OtaFinishes, Reports, Rank
<1>13. QED
  BY <1>4, <1>5, <1>6, <1>7, <1>8, <1>10, <1>11, <1>12 DEF DeviceStep, Reboot, PowerCycle

\* The calls of start_rollout, when there is one.
LEMMA OrderRollout ==
    ASSUME MaxRollouts = 1, TypeOK, RolloutInv, HeldInv, NothingUnrecorded, OrderInv,
           NEW r \in Rollouts, RolloutStep(r), NEW d \in Devices
    PROVE  Order(d)'
<1>0. r = 1 /\ Order(d) /\ rollout[1] \in CallType /\ 1 \in Rollouts
  BY Typed DEF Rollouts, OrderInv
<1>1. UNCHANGED <<up, device, listener>>
  BY DEF RolloutStep, BeginRollout, CommitRollout, PublishCommand, PublishFails,
     FinishRollout
<1>2. CASE BeginRollout(1)
  <2>1. \A e \in Devices : event[1][e] = None /\ ~Ordered(e, rollout[1].target)
    BY <1>0, <1>2 DEF BeginRollout, RolloutInv, Ordered, Rollouts
  <2>2. \A v : ~Ordered(d, v) BY <1>0, <2>1 DEF Ordered, Rollouts
  <2>3. Range(down[d]) = {} /\ Range(device[d].jobs) = {}
        /\ \A m \in Range(up[d]) : m.kind # "status"
    BY <2>2 DEF NothingUnrecorded
  <2>4. DOMAIN down[d] = {} /\ DOMAIN device[d].jobs = {}
        /\ \A i \in DOMAIN up[d] : ~IsReport(d, i)
    BY <2>3 DEF Range, IsReport
  <2>5. down[d] = <<>> /\ device[d].jobs = <<>>
    <3>1. down[d] \in Seq(Versions) /\ device[d].jobs \in Seq(Job) BY DEF TypeOK
    <3>2. QED BY <2>4, <3>1, EmptyIsEmpty
  <2>6. ~Reporting(d)
    <3> SUFFICES ASSUME Reporting(d) PROVE FALSE OBVIOUS
    <3>1. listener.held = 1 BY <1>0, ReportingFacts DEF Reporting, Rollouts
    <3>2. QED BY <2>1, <3>1 DEF Reporting, HeldInv, InFlight, None
  <2>7. UNCHANGED <<down, event>> BY <1>2 DEF BeginRollout
  <2>8. CommandOrder(d)' /\ JobOrder(d)'
    BY <1>1, <2>5, <2>7 DEF CommandOrder, JobOrder
  <2>9. ReportOrder(d)' BY <1>1, <2>4 DEF ReportOrder, IsReport
  <2>10. HandOrder(d)' BY <1>1, <2>6 DEF HandOrder, Reporting
  <2>11. EventOrder(d)' BY <2>1, <2>7 DEF EventOrder, None
  <2>12. QED BY <2>8, <2>9, <2>10, <2>11 DEF Order
<1>3. CASE CommitRollout(1)
  <2>1. down' = down /\ (Owed(d)' => Owed(d))
    BY <1>0, <1>3 DEF CommitRollout, Owed, CallType, TypeOK
  <2>2. event'[1][d] \in {"downloading", "flashing"} => event'[1][d] = event[1][d]
    BY <1>0, <1>3 DEF CommitRollout, TypeOK
  <2>3. QED BY <1>0, <1>1, <2>1, <2>2, OrderSame DEF Reporting
<1>4. CASE PublishCommand(1)
  <2>1. PICK e \in rollout[1].todo :
          /\ \/ down' = [down EXCEPT ![e] = Append(@, rollout[1].target)]
             \/ down' = down
          /\ rollout' = [rollout EXCEPT ![1].todo = @ \ {e}]
    BY <1>4 DEF PublishCommand
  <2>2. /\ rollout'[1].phase = rollout[1].phase
        /\ rollout'[1].todo = rollout[1].todo \ {e}
        /\ event' = event /\ rollout[1].phase = "publishing"
    BY <1>0, <1>4, <2>1 DEF PublishCommand, TypeOK, CallType
  <2>3. Owed(d)' <=> Owed(d) /\ d # e BY <2>2 DEF Owed
  <2>4. CASE down'[d] = down[d]
    BY <1>0, <1>1, <2>2, <2>3, <2>4, OrderSame DEF Reporting
  <2>5. CASE down'[d] # down[d]
    <3>1. e = d /\ down'[d] = Append(down[d], rollout[1].target)
      BY <2>1, <2>5 DEF TypeOK
    <3>2. Owed(d) /\ ~NoCommand(d) BY <2>2, <3>1 DEF Owed, NoCommand
    <3>3. down[d] = <<>> BY <1>0, <3>2 DEF Order, CommandOrder
    <3>4. Len(down'[d]) = 1 BY <3>1, <3>3
    <3>5. CommandOrder(d)' /\ JobOrder(d)'
      BY <1>0, <1>1, <2>3, <3>1, <3>2, <3>4 DEF Order, CommandOrder, JobOrder
    <3>6. ReportOrder(d)' BY <1>0, <1>1, <3>2 DEF Order, ReportOrder, IsReport
    <3>7. HandOrder(d)' BY <1>0, <1>1, <3>2 DEF Order, HandOrder, Reporting
    <3>8. EventOrder(d)' BY <1>0, <2>2, <3>2 DEF Order, EventOrder
    <3>9. QED BY <3>5, <3>6, <3>7, <3>8 DEF Order
  <2>6. QED BY <2>4, <2>5
<1>5. CASE PublishFails(1) \/ FinishRollout(1)
  <2>1. ~Owed(d)' /\ UNCHANGED <<down, event>>
    BY <1>0, <1>5 DEF PublishFails, FinishRollout, Owed, TypeOK, CallType
  <2>2. QED BY <1>0, <1>1, <2>1, OrderSame DEF Reporting
<1>6. QED BY <1>0, <1>2, <1>3, <1>4, <1>5 DEF RolloutStep

\* The listener takes a message and brings a report to the event.
LEMMA OrderListener ==
    ASSUME MaxRollouts = 1, TypeOK, OrderInv, ListenerStep, NEW d \in Devices
    PROVE  Order(d)'
<1>0. Order(d) /\ 1 \in Rollouts /\ Rollouts = {1} BY DEF OrderInv, Rollouts
<1>1. UNCHANGED <<down, device, rollout>>
  BY DEF ListenerStep, HandleHeartbeat, HandleRegistration, HandleOtaStatus,
     SelectPromotable, PromoteEvent, ApplyOtaStatus
<1>2. ASSUME NEW e \in Devices, NEW kind, Receives(e, kind)
      PROVE  \E k \in Nat : Fades(d, k) /\ (e = d => k = 1)
  <2>1. up[e] \in Seq(Message) /\ up[e] # <<>> /\ up' = [up EXCEPT ![e] = Tail(@)]
    BY <1>2 DEF Receives, TypeOK
  <2>2. Owed(d)' <=> Owed(d) BY <1>1 DEF Owed
  <2>3. CASE e = d
    <3>1. up'[d] = Tail(up[d]) BY <2>1, <2>3 DEF TypeOK
    <3>2. Tail(up[d]) \in Seq(Message) BY <2>1, <2>3, TailFacts
    <3>3. \A i \in DOMAIN up'[d] : i \in Nat /\ i + 1 \in DOMAIN up[d]
                                   /\ up'[d][i] = up[d][i + 1]
      <4>1. /\ DOMAIN up[d] = 1 .. Len(up[d])
            /\ DOMAIN up'[d] = 1 .. Len(Tail(up[d])) /\ Len(Tail(up[d])) \in Nat
        BY <2>1, <2>3, <3>1, <3>2, EmptyIsEmpty
      <4>2. \A i \in 1 .. Len(Tail(up[d])) :
               i + 1 \in 1 .. Len(up[d]) /\ Tail(up[d])[i] = up[d][i + 1]
        BY <2>1, <2>3, TailFacts
      <4>3. QED BY <3>1, <4>1, <4>2
    <3>4. Fades(d, 1) BY <1>1, <2>2, <3>3 DEF Fades
    <3>5. QED BY <3>4
  <2>4. CASE e # d
    <3>1. up'[d] = up[d] /\ up[d] \in Seq(Message) BY <2>1, <2>4 DEF TypeOK
    <3>2. DOMAIN up[d] \subseteq Nat BY <3>1
    <3>3. Fades(d, 0) BY <1>1, <2>2, <3>1, <3>2 DEF Fades
    <3>4. QED BY <2>4, <3>3
  <2>5. QED BY <2>3, <2>4
<1>3. ASSUME NEW e \in Devices, HandleHeartbeat(e) \/ HandleRegistration(e)
      PROVE  Order(d)'
  <2>1. \E kind : Receives(e, kind)
    BY <1>3 DEF HandleHeartbeat, HandleRegistration
  <2>2. PICK k \in Nat : Fades(d, k) BY <1>2, <2>1
  <2>3. event' = event /\ ~Reporting(d)'
    BY <1>3 DEF HandleHeartbeat, HandleRegistration, Reporting, Receives, Idle
  <2>4. QED BY <1>0, <2>2, <2>3, OrderFades
<1>4. ASSUME NEW e \in Devices, HandleOtaStatus(e) PROVE Order(d)'
  <2>1. PICK k \in Nat : Fades(d, k) /\ (e = d => k = 1)
    BY <1>2, <1>4 DEF HandleOtaStatus
  <2>2. event' = event BY <1>4 DEF HandleOtaStatus
  <2>3. CASE ~Reporting(d)' BY <1>0, <2>1, <2>2, <2>3, OrderFades
  <2>4. CASE Reporting(d)'
    <3>1. e = d /\ listener'.status = Head(up[d]).status
      BY <1>4, <2>4 DEF HandleOtaStatus, Reporting, Idle
    <3>2. /\ 1 \in DOMAIN up[d] /\ IsReport(d, 1) /\ up[d] \in Seq(Message)
          /\ listener'.status = up[d][1].status
      BY <1>4, <3>1, ReceiveFacts DEF HandleOtaStatus, IsReport
    <3>n. PICK n \in 1 .. 4 : n = Rank(up[d][1].status) BY RankType
    <3>3. NoCommand(d) /\ JobsFrom(d, n) BY <1>0, <3>2, <3>n DEF Order, ReportOrder
    <3>4. ReportsFrom(d, n)'
      <4> SUFFICES ASSUME NEW i \in DOMAIN up'[d], IsReport(d, i)'
                   PROVE  Rank(up'[d][i].status) >= n
        BY DEF ReportsFrom
      <4>1. i \in Nat /\ i + 1 \in DOMAIN up[d] /\ up'[d][i] = up[d][i + 1]
        BY <2>1, <3>1 DEF Fades
      <4>2. IsReport(d, i + 1) /\ (i = 0 \/ 1 < i + 1) BY <4>1 DEF IsReport
      <4>3. QED BY <1>0, <3>2, <3>n, <4>1, <4>2, RankType DEF Order, ReportOrder
    <3>5. HandOrder(d)'
      BY <1>0, <2>1, <3>2, <3>n, <3>3, <3>4, FadesKeeps DEF HandOrder
    <3>6. EventOrder(d)'
      BY <1>0, <2>1, <2>2, <3>2, FadesKeeps DEF Order, EventOrder, ReportsFrom
    <3>7. QED BY <1>0, <2>1, <3>5, <3>6, FadesKeeps DEF Order
  <2>5. QED BY <2>3, <2>4
<1>5. CASE SelectPromotable
  <2>1. UNCHANGED <<up, event>> /\ ~Reporting(d)'
    BY <1>5 DEF SelectPromotable, Reporting, Idle
  <2>2. QED BY <1>0, <1>1, <2>1, OrderSame DEF Owed
<1>6. CASE PromoteEvent
  <2>1. up' = up /\ ~Reporting(d)' BY <1>6 DEF PromoteEvent, Reporting, Idle
  <2>2. event'[1][d] \in {"downloading", "flashing"} => event'[1][d] = event[1][d]
    <3>1. listener.held \in Rollouts /\ listener.dev \in Devices
      BY <1>6, HeldFacts DEF PromoteEvent
    <3>2. QED BY <1>0, <1>6, <3>1 DEF PromoteEvent, TypeOK
  <2>3. QED BY <1>0, <1>1, <2>1, <2>2, OrderSame DEF Owed
<1>7. CASE ApplyOtaStatus
  <2>1. /\ up' = up /\ ~Reporting(d)' /\ listener.phase = "reporting"
        /\ listener.dev \in Devices /\ listener.held = 1
    BY <1>0, <1>7, ReportingFacts DEF ApplyOtaStatus, Reporting, Idle
  <2>2. event'[1][d] = event[1][d] \/ (Reporting(d) /\ event'[1][d] = listener.status)
    BY <1>0, <1>7, <2>1 DEF ApplyOtaStatus, Reporting, TypeOK
  <2>3. CASE event'[1][d] = event[1][d]
    BY <1>0, <1>1, <2>1, <2>3, OrderSame DEF Owed
  <2>4. CASE Reporting(d) /\ event'[1][d] = listener.status
    <3>1. up[d] \in Seq(Message) BY DEF TypeOK
    <3>2. DOMAIN up[d] \subseteq Nat BY <3>1
    <3>3. Fades(d, 0) BY <1>1, <2>1, <3>2 DEF Fades, Owed
    <3>4. EventOrder(d)'
      BY <1>0, <2>1, <2>4, <3>3, FadesKeeps DEF Order, HandOrder, EventOrder
    <3>5. HandOrder(d)' BY <2>1 DEF HandOrder
    <3>6. QED BY <1>0, <3>3, <3>4, <3>5, FadesKeeps DEF Order
  <2>5. QED BY <2>2, <2>3, <2>4
<1>8. QED BY <1>3, <1>4, <1>5, <1>6, <1>7 DEF ListenerStep

LEMMA OrderStep ==
    ASSUME MaxRollouts = 1, TypeOK, RolloutInv, HeldInv, NothingUnrecorded, OrderInv,
           [Next]_vars, NEW d \in Devices
    PROVE  Order(d)'
<1>0. Order(d) /\ 1 \in Rollouts BY DEF OrderInv, Rollouts
<1>1. CASE \E e \in Devices : DeviceStep(e) BY <1>1, OrderDevice
<1>2. CASE \E r \in Rollouts : RolloutStep(r) BY <1>2, OrderRollout
<1>3. CASE ListenerStep BY <1>3, OrderListener
<1>4. CASE \E v \in Versions : AbortRollout(v)
  <2>1. UNCHANGED <<up, down, device, rollout, listener>> BY <1>4 DEF AbortRollout
  <2>2. event'[1][d] \in {"downloading", "flashing"} => event'[1][d] = event[1][d]
    BY <1>0, <1>4 DEF AbortRollout
  <2>3. QED BY <1>0, <2>1, <2>2, OrderSame DEF Owed, Reporting
<1>5. CASE Disconnect \/ ServerRestart
  <2>1. up'[d] = <<>> /\ UNCHANGED <<down, device, event>>
    BY <1>5 DEF Disconnect, ServerRestart
  <2>2. Owed(d)' => Owed(d)
    <3>1. rollout'[1] = rollout[1]
          \/ rollout'[1] = [rollout[1] EXCEPT !.phase = "done", !.todo = {}]
      BY <1>0, <1>5 DEF Disconnect, ServerRestart
    <3>2. rollout[1] \in CallType BY <1>0, Typed
    <3>3. QED BY <3>1, <3>2 DEF Owed, CallType
  <2>3. Reporting(d)' => Reporting(d) /\ listener' = listener
    <3>1. CASE Disconnect BY <3>1 DEF Disconnect, Reporting
    <3>2. CASE ServerRestart BY <3>2 DEF ServerRestart, Reporting, Idle
    <3>3. QED BY <1>5, <3>1, <3>2
  <2>4. DOMAIN up'[d] = {} BY <2>1
  <2>5. Fades(d, 0) BY <2>1, <2>2, <2>4 DEF Fades
  <2>6. QED BY <1>0, <2>1, <2>3, <2>5, OrderFades
<1>6. CASE (\E e \in Devices : MarkDead(e)) \/ WindowPasses \/ UNCHANGED vars
  <2>1. UNCHANGED <<up, down, device, rollout, listener, event>>
    BY <1>6 DEF MarkDead, WindowPasses, vars
  <2>2. QED BY <1>0, <2>1, OrderSame DEF Owed, Reporting
<1>7. QED BY <1>1, <1>2, <1>3, <1>4, <1>5, <1>6 DEF Next

LEMMA OrderInit ==
    ASSUME MaxRollouts = 1, Init
    PROVE  OrderInv
<1> SUFFICES ASSUME NEW d \in Devices PROVE Order(d) BY DEF OrderInv
<1>1. /\ down[d] = <<>> /\ up[d] = <<>> /\ device[d].jobs = <<>> /\ listener = Idle
  BY DEF Init
<1>2. CommandOrder(d) /\ JobOrder(d) BY <1>1 DEF CommandOrder, JobOrder
<1>3. ReportOrder(d) BY <1>1 DEF ReportOrder
<1>4. HandOrder(d) BY <1>1 DEF HandOrder, Reporting, Idle
<1>5. EventOrder(d)
  <2>1. event[1][d] \notin {"downloading", "flashing"}
    BY DEF Init, None, Rollouts
  <2>2. QED BY <2>1 DEF EventOrder
<1>6. QED BY <1>2, <1>3, <1>4, <1>5 DEF Order

\* As long as one rollout is made, an event in flight never goes back, from
\* flashing to downloading or from either to pending, whatever is lost or dies
\* between the board's reports and handle_ota_status.
THEOREM ProgressOfOneRollout ==
    ASSUME MaxRollouts = 1
    PROVE  Spec => ProgressIsForward
<1> DEFINE Inv == TypeOK /\ RolloutInv /\ HeldInv /\ NothingUnrecorded /\ OrderInv
<1>1. Init => Inv
  BY TypeInit, RolloutInit, HeldInit, RecordedInit, OrderInit
<1>2. Inv /\ [Next]_vars => Inv'
  BY TypeNext, RolloutNext, HeldNext, RecordedNext, OrderStep DEF OrderInv
<1>3. ASSUME Inv, [Next]_vars, NEW r \in Rollouts, NEW d \in Devices,
             event[r][d] \in InFlight, event'[r][d] \in InFlight
      PROVE  Progress[event[r][d]] <= Progress[event'[r][d]]
  <2>1. r = 1 /\ Order(d) BY <1>3 DEF Rollouts, OrderInv
  <2>2. CASE event'[r][d] = event[r][d] BY <1>3, <2>2 DEF Progress, InFlight
  <2>3. CASE event'[r][d] # event[r][d]
    <3>1. ~CommitRollout(r) BY <1>3 DEF CommitRollout, RolloutInv, InFlight, None
    <3>2. Holds(r, d) BY <1>3, <2>3, <3>1, EventWrites DEF InFlight
    <3>3. Reporting(d) /\ event'[r][d] = listener.status
      <4>1. PromoteEvent \/ ApplyOtaStatus
        BY <1>3, <2>3, <3>1, EventWrites DEF InFlight
      <4>2. ~PromoteEvent
        BY <1>3, <3>2 DEF PromoteEvent, Holds, TypeOK, InFlight
      <4>3. QED
        BY <1>3, <2>3, <3>2, <4>1, <4>2 DEF ApplyOtaStatus, Holds, Reporting, TypeOK
    <3>4. event[r][d] = "pending" \/ Rank(event[r][d]) <= Rank(listener.status)
      BY <1>3, <2>1, <3>3 DEF Order, EventOrder, InFlight
    <3>5. QED BY <1>3, <3>3, <3>4 DEF Rank, Progress, InFlight
  <2>4. QED BY <2>2, <2>3
<1>4. Inv /\ [Next]_vars =>
         [\A r \in Rollouts, d \in Devices :
            (event[r][d] \in InFlight /\ event'[r][d] \in InFlight)
               => Progress[event[r][d]] <= Progress[event'[r][d]]]_vars
  BY <1>3
<1> HIDE DEF Inv
<1>5. QED BY <1>1, <1>2, <1>4, PTL DEF Spec, ProgressIsForward

=============================================================================

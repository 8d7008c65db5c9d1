---------------------- MODULE ScheduledRolloutsProofs ----------------------
(***************************************************************************)
(* What ScheduledRollouts guarantees for any number of rows, workers and   *)
(* crashes: types, how often a row is launched, and that a cancelled row   *)
(* nobody has in hand is final.                                            *)
(***************************************************************************)
EXTENDS ScheduledRollouts, FiniteSetTheorems, TLAPS

Marks == [Schedules -> {None, "failed"}]
LoopJob == [phase : {"loop"}, batch : SUBSET Schedules, marks : Marks]
RowJob == [phase : {"launched", "returned"}, row : Schedules,
           batch : SUBSET Schedules, marks : Marks]

\* Which of the shapes a job has, by its phase.
LEMMA JobShape ==
  ASSUME TypeOK, NEW w \in Workers
  PROVE  /\ job[w] # Resting /\ job[w].phase = "loop" => job[w] \in LoopJob
         /\ job[w].phase \in {"launched", "returned"} => job[w] \in RowJob
         /\ job[w].phase = "loop" => job[w] \in LoopJob
         /\ job[w].batch \subseteq Schedules
         /\ job[w].marks \in Marks
  <1>1. job[w] \in {Resting} \cup LoopJob \cup RowJob
    BY DEF TypeOK, Job, LoopJob, RowJob, Marks
  <1>2. CASE job[w] = Resting
    BY <1>2 DEF Resting, NoMarks, Marks
  <1>3. CASE job[w] \in LoopJob
    BY <1>3 DEF LoopJob
  <1>4. CASE job[w] \in RowJob
    BY <1>4 DEF RowJob
  <1> QED
    BY <1>1, <1>2, <1>3, <1>4

\* A job of either shape is of the type TypeOK asks for.
LEMMA JobType == LoopJob \subseteq Job /\ RowJob \subseteq Job /\ Resting \in Job
  BY DEF LoopJob, RowJob, Job, Marks

LEMMA NoMarksType == NoMarks \in Marks
  BY DEF NoMarks, Marks

LEMMA CommitsType ==
  ASSUME TypeOK, NEW w \in Workers, NEW marks \in [Schedules -> Status \cup {None}],
         Commits(w, marks)
  PROVE  /\ table' \in [Schedules -> Status \cup {None}]
         /\ lock' \in [Schedules -> Workers \cup {None}]
  BY DEF Commits, TypeOK

LEMMA FailType ==
  ASSUME TypeOK, NEW w \in Workers, NEW s \in Schedules, Fail(w, s)
  PROVE  job' \in [Workers -> Job]
  <1> DEFINE new == [phase |-> "loop", batch |-> job[w].batch \ {s},
                     marks |-> [job[w].marks EXCEPT ![s] = "failed"]]
  <1>1. [job[w].marks EXCEPT ![s] = "failed"] \in Marks
    BY JobShape DEF Marks
  <1>2. new \in LoopJob
    BY <1>1, JobShape DEF LoopJob
  <1>3. job' = [job EXCEPT ![w] = new]
    BY DEF Fail
  <1> HIDE DEF new
  <1> QED
    BY <1>2, <1>3, JobType DEF TypeOK

LEMMA TypeInit == Init => TypeOK
  BY JobType DEF Init, TypeOK

LEMMA TypeStep == TypeOK /\ [Next]_vars => TypeOK'
  <1> SUFFICES ASSUME TypeOK, [Next]_vars PROVE TypeOK'
    OBVIOUS
  <1>1. ASSUME NEW s \in Schedules, RequestStep(s) PROVE TypeOK'
    BY <1>1 DEF RequestStep, CreateScheduled, BecomeDue, CancelRead, CancelWrite,
                TypeOK, Status
  <1>2. ASSUME NEW w \in Workers, Poll(w) PROVE TypeOK'
    <2>1. PICK rows \in SUBSET Schedules :
            /\ lock' = [s \in Schedules |-> IF s \in rows THEN w ELSE lock[s]]
            /\ job' = [job EXCEPT ![w] = [phase |-> "loop", batch |-> rows,
                                          marks |-> NoMarks]]
      BY <1>2 DEF Poll
    <2>2. [phase |-> "loop", batch |-> rows, marks |-> NoMarks] \in Job
      BY NoMarksType, JobType DEF LoopJob
    <2>3. job' \in [Workers -> Job]
      BY <2>1, <2>2 DEF TypeOK
    <2>4. lock' \in [Schedules -> Workers \cup {None}]
      BY <2>1 DEF TypeOK
    <2> QED
      BY <1>2, <2>3, <2>4 DEF Poll, TypeOK
  <1>3. ASSUME NEW w \in Workers, Launch(w) PROVE TypeOK'
    <2>1. PICK s \in job[w].batch :
            /\ Commits(w, job[w].marks)
            /\ launches' = [launches EXCEPT ![s] = @ + 1]
            /\ job' = [job EXCEPT ![w] = Work(w, "launched", s, NoMarks)]
      BY <1>3 DEF Launch
    <2>2. s \in Schedules /\ job[w].marks \in [Schedules -> Status \cup {None}]
      BY <2>1, JobShape DEF Marks, Status
    <2>3. Work(w, "launched", s, NoMarks) \in Job
      BY <2>2, JobShape, NoMarksType, JobType DEF Work, RowJob
    <2>4. job' \in [Workers -> Job]
      BY <2>1, <2>3 DEF TypeOK
    <2>5. launches' \in [Schedules -> Nat]
      BY <2>1, <2>2 DEF TypeOK
    <2> QED
      BY <1>3, <2>1, <2>2, <2>4, <2>5, CommitsType DEF Launch, TypeOK
  <1>4. ASSUME NEW w \in Workers, SelectNobody(w) PROVE TypeOK'
    <2>1. PICK s \in job[w].batch :
            job' = [job EXCEPT ![w] = Work(w, "returned", s, job[w].marks)]
      BY <1>4 DEF SelectNobody
    <2>2. Work(w, "returned", s, job[w].marks) \in Job
      BY <2>1, JobShape, JobType DEF Work, RowJob
    <2>3. job' \in [Workers -> Job]
      BY <2>1, <2>2 DEF TypeOK
    <2> QED
      BY <1>4, <2>3 DEF SelectNobody, TypeOK
  <1>5. ASSUME NEW w \in Workers, Refuse(w) PROVE TypeOK'
    <2>1. job' \in [Workers -> Job]
      BY <1>5, FailType, JobShape DEF Refuse
    <2> QED
      BY <1>5, <2>1 DEF Refuse, TypeOK
  <1>6. ASSUME NEW w \in Workers, Publish(w) PROVE TypeOK'
    <2>1. [job[w] EXCEPT !.phase = "returned"] \in RowJob
      BY <1>6, JobShape DEF Publish, RowJob
    <2>2. job' \in [Workers -> Job]
      BY <1>6, <2>1, JobType DEF Publish, TypeOK
    <2> QED
      BY <1>6, <2>2 DEF Publish, TypeOK
  <1>7. ASSUME NEW w \in Workers, PublishRaises(w) PROVE TypeOK'
    <2>1. Current(w) \in Schedules
      BY <1>7, JobShape DEF PublishRaises, Current, RowJob
    <2>2. job' \in [Workers -> Job]
      BY <1>7, <2>1, FailType DEF PublishRaises
    <2> QED
      BY <1>7, <2>2 DEF PublishRaises, TypeOK
  <1>8. ASSUME NEW w \in Workers, MarkFired(w) PROVE TypeOK'
    <2>1. [job[w].marks EXCEPT ![Current(w)] = "fired"]
             \in [Schedules -> Status \cup {None}]
      BY JobShape DEF Marks, Status
    <2>2. [phase |-> "loop", batch |-> job[w].batch, marks |-> NoMarks] \in LoopJob
      BY JobShape, NoMarksType DEF LoopJob
    <2>3. job' \in [Workers -> Job]
      BY <1>8, <2>2, JobType DEF MarkFired, TypeOK
    <2>4. /\ table' \in [Schedules -> Status \cup {None}]
          /\ lock' \in [Schedules -> Workers \cup {None}]
      BY <1>8, <2>1, CommitsType DEF MarkFired
    <2> QED
      BY <1>8, <2>3, <2>4 DEF MarkFired, TypeOK
  <1>9. ASSUME NEW w \in Workers, EndRun(w) PROVE TypeOK'
    <2>1. job[w].marks \in [Schedules -> Status \cup {None}]
      BY JobShape DEF Marks, Status
    <2>2. job' \in [Workers -> Job]
      BY <1>9, JobType DEF EndRun, TypeOK
    <2>3. /\ table' \in [Schedules -> Status \cup {None}]
          /\ lock' \in [Schedules -> Workers \cup {None}]
      BY <1>9, <2>1, CommitsType DEF EndRun
    <2> QED
      BY <1>9, <2>2, <2>3 DEF EndRun, TypeOK
  <1>10. ASSUME NEW w \in Workers, Abort(w) PROVE TypeOK'
    <2>1. job' \in [Workers -> Job]
      BY <1>10, JobType DEF Abort, TypeOK
    <2>2. lock' \in [Schedules -> Workers \cup {None}]
      BY <1>10 DEF Abort, TypeOK
    <2>3. crashes' \in Nat
      BY <1>10 DEF Abort, TypeOK
    <2> QED
      BY <1>10, <2>1, <2>2, <2>3 DEF Abort, TypeOK
  <1>11. ASSUME NEW w \in Workers, Flush(w) PROVE TypeOK'
    BY <1>11 DEF Flush, TypeOK
  <1>12. CASE UNCHANGED vars
    BY <1>12 DEF vars, TypeOK
  <1> QED
    BY <1>1, <1>2, <1>3, <1>4, <1>5, <1>6, <1>7, <1>8, <1>9, <1>10, <1>11, <1>12
       DEF Next, RunStep, Crash, Deadlock

\* Type correctness of the table, the locks and the job, for any number of
\* workers.
THEOREM TypeCorrect == Spec => []TypeOK
  BY TypeInit, TypeStep, PTL DEF Spec

-----------------------------------------------------------------------------
(* What a run does to a row.                                               *)

\* Worker w is done with row s in this run, but the row does not say so yet.
Spent(w, s) ==
    \/ job[w].phase \in {"launched", "returned"} /\ Current(w) = s
    \/ job[w].marks[s] # None

\* InHand, for one worker.
Holding(w, s) == s \in job[w].batch \/ Spent(w, s)

Open(s) == table[s] \in {None, "pending"}

\* A step of w and row t: the status and the launches change only for a row in
\* hand, a row comes to hand only while it is pending, and it stays in hand
\* until its status is written.
Effect(w, t) ==
    /\ \A v \in Workers \ {w} : job'[v] = job[v]
    /\ crashes' = crashes
    /\ \/ table'[t] = table[t]
       \/ table'[t] \in {"fired", "failed"} /\ Spent(w, t)
    /\ \/ launches'[t] = launches[t]
       \/ /\ launches'[t] = launches[t] + 1
          /\ t \in job[w].batch /\ t \notin job'[w].batch
          /\ Spent(w, t)'
    /\ t \in job'[w].batch => t \in job[w].batch \/ (table[t] = "pending" /\ ~Spent(w, t))
    /\ Spent(w, t)' => Holding(w, t)
    /\ Spent(w, t) => Spent(w, t)' \/ ~Open(t)'

\* A commit writes what is marked, and only that.
LEMMA CommitEffect ==
  ASSUME TypeOK, NEW w \in Workers, NEW t \in Schedules,
         NEW marks \in [Schedules -> {None, "failed", "fired"}], Commits(w, marks)
  PROVE  /\ marks[t] = None => table'[t] = table[t]
         /\ marks[t] # None => table'[t] \in {"fired", "failed"} /\ ~Open(t)'
  BY DEF Commits, Open, None

LEMMA RestingHoldsNothing ==
  ASSUME NEW w \in Workers, NEW t \in Schedules, job[w] = Resting
  PROVE  job[w].batch = {} /\ ~Spent(w, t)
  BY DEF Resting, NoMarks, Spent, None

LEMMA PollEffect ==
  ASSUME TypeOK, NEW w \in Workers, NEW t \in Schedules, Poll(w)
  PROVE  Effect(w, t)
  <1> DEFINE rows == {s \in Schedules : /\ table[s] = "pending"
                                        /\ s \in due
                                        /\ lock[s] = None}
  <1>1. /\ job' = [job EXCEPT ![w] = [phase |-> "loop", batch |-> rows, marks |-> NoMarks]]
        /\ job[w] = Resting /\ UNCHANGED <<table, launches, crashes>>
    BY DEF Poll
  <1>2. /\ job'[w] = [phase |-> "loop", batch |-> rows, marks |-> NoMarks]
        /\ \A v \in Workers \ {w} : job'[v] = job[v]
    BY <1>1 DEF TypeOK
  <1>3. job'[w].batch = rows /\ ~Spent(w, t)'
    BY <1>2 DEF Spent, NoMarks, None
  <1>4. ~Spent(w, t)
    BY <1>1, RestingHoldsNothing
  <1> QED
    BY <1>1, <1>2, <1>3, <1>4 DEF Effect

LEMMA FlushEffect ==
  ASSUME NEW w \in Workers, NEW t \in Schedules, Flush(w)
  PROVE  Effect(w, t)
  BY DEF Flush, Effect, Spent, Holding, Current

LEMMA LaunchEffect ==
  ASSUME TypeOK, NEW w \in Workers, NEW t \in Schedules, Launch(w)
  PROVE  Effect(w, t)
  <1>1. PICK s \in job[w].batch :
          /\ Commits(w, job[w].marks)
          /\ launches' = [launches EXCEPT ![s] = @ + 1]
          /\ job' = [job EXCEPT ![w] = Work(w, "launched", s, NoMarks)]
    BY DEF Launch
  <1>2. job[w].phase = "loop" /\ crashes' = crashes
    BY DEF Launch
  <1>3. /\ s \in Schedules /\ job[w].batch \subseteq Schedules
        /\ job[w].marks \in [Schedules -> {None, "failed", "fired"}]
    BY JobShape DEF Marks
  <1>4. /\ job'[w] = [phase |-> "launched", row |-> s, batch |-> job[w].batch \ {s},
                      marks |-> NoMarks]
        /\ \A v \in Workers \ {w} : job'[v] = job[v]
    BY <1>1 DEF TypeOK, Work
  <1>5. job'[w].batch = job[w].batch \ {s} /\ (Spent(w, t)' <=> t = s)
    BY <1>4 DEF Spent, Current, NoMarks, None
  <1>6. Spent(w, t) <=> job[w].marks[t] # None
    BY <1>2 DEF Spent
  <1>7. launches'[t] = IF t = s THEN launches[t] + 1 ELSE launches[t]
    BY <1>1 DEF TypeOK
  <1>8. /\ job[w].marks[t] = None => table'[t] = table[t]
        /\ job[w].marks[t] # None => table'[t] \in {"fired", "failed"} /\ ~Open(t)'
    BY <1>1, <1>3, CommitEffect
  <1> QED
    BY <1>1, <1>2, <1>4, <1>5, <1>6, <1>7, <1>8 DEF Effect, Holding

LEMMA SelectNobodyEffect ==
  ASSUME TypeOK, NEW w \in Workers, NEW t \in Schedules, SelectNobody(w)
  PROVE  Effect(w, t)
  <1>1. PICK s \in job[w].batch :
          job' = [job EXCEPT ![w] = Work(w, "returned", s, job[w].marks)]
    BY DEF SelectNobody
  <1>2. job[w].phase = "loop" /\ UNCHANGED <<table, launches, crashes>>
    BY DEF SelectNobody
  <1>3. /\ job'[w] = [phase |-> "returned", row |-> s, batch |-> job[w].batch \ {s},
                      marks |-> job[w].marks]
        /\ \A v \in Workers \ {w} : job'[v] = job[v]
    BY <1>1 DEF TypeOK, Work
  <1>4. job'[w].batch = job[w].batch \ {s} /\ (Spent(w, t)' <=> t = s \/ Spent(w, t))
    BY <1>2, <1>3 DEF Spent, Current
  <1> QED
    BY <1>1, <1>2, <1>3, <1>4 DEF Effect, Holding

LEMMA FailEffect ==
  ASSUME TypeOK, NEW w \in Workers, NEW t \in Schedules, NEW s \in Schedules,
         Fail(w, s), UNCHANGED <<table, launches, crashes>>,
         \/ job[w].phase = "loop" /\ s \in job[w].batch
         \/ job[w].phase = "launched" /\ Current(w) = s
  PROVE  Effect(w, t)
  <1>1. /\ job'[w] = [phase |-> "loop", batch |-> job[w].batch \ {s},
                      marks |-> [job[w].marks EXCEPT ![s] = "failed"]]
        /\ \A v \in Workers \ {w} : job'[v] = job[v]
    BY DEF Fail, TypeOK
  <1>2. job[w].marks \in [Schedules -> {None, "failed"}]
    BY JobShape DEF Marks
  <1>3. /\ job'[w].batch = job[w].batch \ {s}
        /\ job'[w].phase = "loop"
        /\ job'[w].marks[t] = IF t = s THEN "failed" ELSE job[w].marks[t]
    BY <1>1, <1>2
  <1>4. Spent(w, t)' <=> t = s \/ job[w].marks[t] # None
    BY <1>3 DEF Spent, None
  <1>5. Spent(w, s) \/ s \in job[w].batch
    BY DEF Spent
  <1>6. Spent(w, t) => t = s \/ job[w].marks[t] # None
    BY DEF Spent
  <1>7. job[w].marks[t] # None => Spent(w, t)
    BY DEF Spent
  <1> QED
    BY <1>1, <1>3, <1>4, <1>5, <1>6, <1>7 DEF Effect, Holding

LEMMA PublishEffect ==
  ASSUME TypeOK, NEW w \in Workers, NEW t \in Schedules, Publish(w)
  PROVE  Effect(w, t)
  <1>1. job[w] \in RowJob /\ job[w].phase = "launched"
    BY JobShape DEF Publish
  <1>2. /\ job'[w] = [job[w] EXCEPT !.phase = "returned"]
        /\ \A v \in Workers \ {w} : job'[v] = job[v]
        /\ UNCHANGED <<table, launches, crashes>>
    BY DEF Publish, TypeOK
  <1>3. /\ job'[w].batch = job[w].batch /\ job'[w].marks = job[w].marks
        /\ job'[w].row = job[w].row /\ job'[w].phase = "returned"
    BY <1>1, <1>2 DEF RowJob
  <1>4. Spent(w, t)' <=> Spent(w, t)
    BY <1>1, <1>3 DEF Spent, Current
  <1> QED
    BY <1>2, <1>3, <1>4 DEF Effect, Holding

LEMMA MarkFiredEffect ==
  ASSUME TypeOK, NEW w \in Workers, NEW t \in Schedules, MarkFired(w)
  PROVE  Effect(w, t)
  <1> DEFINE marks == [job[w].marks EXCEPT ![Current(w)] = "fired"]
  <1>1. /\ job'[w] = [phase |-> "loop", batch |-> job[w].batch, marks |-> NoMarks]
        /\ \A v \in Workers \ {w} : job'[v] = job[v]
        /\ UNCHANGED <<launches, crashes>>
        /\ job[w].phase = "returned" /\ Commits(w, marks)
    BY DEF MarkFired, TypeOK
  <1>2. Current(w) \in Schedules /\ job[w].marks \in [Schedules -> {None, "failed"}]
    BY <1>1, JobShape DEF Current, RowJob, Marks
  <1>3. marks \in [Schedules -> {None, "failed", "fired"}]
    BY <1>2
  <1>4. marks[t] # None <=> Spent(w, t)
    BY <1>1, <1>2 DEF Spent, None
  <1> HIDE DEF marks
  <1>5. /\ marks[t] = None => table'[t] = table[t]
        /\ marks[t] # None => table'[t] \in {"fired", "failed"} /\ ~Open(t)'
    BY <1>1, <1>3, CommitEffect
  <1>6. job'[w].batch = job[w].batch /\ ~Spent(w, t)'
    BY <1>1 DEF Spent, NoMarks, None
  <1> QED
    BY <1>1, <1>4, <1>5, <1>6 DEF Effect

LEMMA EndRunEffect ==
  ASSUME TypeOK, NEW w \in Workers, NEW t \in Schedules, EndRun(w)
  PROVE  Effect(w, t)
  <1>1. /\ job'[w] = Resting
        /\ \A v \in Workers \ {w} : job'[v] = job[v]
        /\ UNCHANGED <<launches, crashes>>
        /\ job[w].phase = "loop" /\ Commits(w, job[w].marks)
    BY DEF EndRun, TypeOK
  <1>2. job[w].marks \in [Schedules -> {None, "failed", "fired"}]
    BY JobShape DEF Marks
  <1>3. job[w].marks[t] # None <=> Spent(w, t)
    BY <1>1 DEF Spent
  <1>4. /\ job[w].marks[t] = None => table'[t] = table[t]
        /\ job[w].marks[t] # None => table'[t] \in {"fired", "failed"} /\ ~Open(t)'
    BY <1>1, <1>2, CommitEffect
  <1>5. job'[w].batch = {} /\ ~Spent(w, t)'
    BY <1>1 DEF Resting, NoMarks, Spent, None
  <1> QED
    BY <1>1, <1>3, <1>4, <1>5 DEF Effect

LEMMA RunEffect ==
  ASSUME TypeOK, NEW w \in Workers, NEW t \in Schedules, RunStep(w)
  PROVE  Effect(w, t)
  <1>1. CASE Refuse(w)
    <2>1. PICK s \in job[w].batch : Fail(w, s)
      BY <1>1 DEF Refuse
    <2>2. s \in Schedules
      BY JobShape
    <2> QED
      BY <1>1, <2>1, <2>2, FailEffect DEF Refuse
  <1>2. CASE PublishRaises(w)
    <2>1. Current(w) \in Schedules
      BY <1>2, JobShape DEF PublishRaises, Current, RowJob
    <2> QED
      BY <1>2, <2>1, FailEffect DEF PublishRaises
  <1> QED
    BY <1>1, <1>2, PollEffect, FlushEffect, LaunchEffect, SelectNobodyEffect, PublishEffect,
       MarkFiredEffect, EndRunEffect DEF RunStep

-----------------------------------------------------------------------------
(* How often a row is launched.                                            *)

\* Worker w launches row s no more unless its run crashes: it does not wait in
\* w's batch, and as long as the next query may select it, w has it in hand.
OutOf(w, s) == s \notin job[w].batch /\ (Open(s) => Spent(w, s))

Exhausted(s) == {w \in Workers : OutOf(w, s)}
BudgetOf(s) == launches[s] <= crashes + Cardinality(Exhausted(s))
BudgetInv == \A s \in Schedules : BudgetOf(s)

LEMMA SetsOfWorkers ==
  ASSUME NEW W \in SUBSET Workers
  PROVE  /\ IsFiniteSet(W) /\ Cardinality(W) \in Nat
         /\ Cardinality(Workers) \in Nat /\ Cardinality(W) <= Cardinality(Workers)
  <1>1. IsFiniteSet(W) /\ Cardinality(W) <= Cardinality(Workers)
    BY WorkersAssumption, FS_Subset
  <1> QED
    BY <1>1, WorkersAssumption, FS_CardinalityType

LEMMA BudgetTypes ==
  ASSUME TypeOK, NEW s \in Schedules
  PROVE  crashes \in Nat /\ launches[s] \in Nat
  BY DEF TypeOK

\* A step that brings nobody back.
LEMMA BudgetKept ==
  ASSUME TypeOK, NEW s \in Schedules, BudgetOf(s),
         \A v \in Workers : OutOf(v, s) => OutOf(v, s)',
         launches'[s] = launches[s], crashes' = crashes
  PROVE  BudgetOf(s)'
  <1> DEFINE E == Exhausted(s)
             F == Exhausted(s)'
  <1>1. E \in SUBSET F /\ F \in SUBSET Workers /\ E \in SUBSET Workers
    BY DEF Exhausted
  <1>2. IsFiniteSet(F) /\ Cardinality(F) \in Nat /\ Cardinality(E) \in Nat
    BY <1>1, SetsOfWorkers
  <1>3. Cardinality(E) <= Cardinality(F)
    BY <1>1, <1>2, FS_Subset
  <1> QED
    BY <1>2, <1>3, BudgetTypes DEF BudgetOf

\* A launch: the worker will not do it again.
LEMMA BudgetSpent ==
  ASSUME TypeOK, NEW s \in Schedules, BudgetOf(s), NEW w \in Workers,
         ~OutOf(w, s), OutOf(w, s)',
         \A v \in Workers : OutOf(v, s) => OutOf(v, s)',
         launches'[s] = launches[s] + 1, crashes' = crashes
  PROVE  BudgetOf(s)'
  <1> DEFINE E == Exhausted(s)
             F == Exhausted(s)'
  <1>1. E \in SUBSET Workers /\ F \in SUBSET Workers /\ w \notin E
        /\ E \cup {w} \in SUBSET F
    BY DEF Exhausted
  <1>2. /\ IsFiniteSet(E) /\ IsFiniteSet(F)
        /\ Cardinality(F) \in Nat /\ Cardinality(E) \in Nat
    BY <1>1, SetsOfWorkers
  <1>3. Cardinality(E \cup {w}) = Cardinality(E) + 1
    BY <1>1, <1>2, FS_AddElement
  <1>4. Cardinality(E \cup {w}) <= Cardinality(F)
    BY <1>1, <1>2, FS_Subset
  <1> QED
    BY <1>2, <1>3, <1>4, BudgetTypes DEF BudgetOf

\* A crash: one worker may come back.
LEMMA BudgetCrash ==
  ASSUME TypeOK, NEW s \in Schedules, BudgetOf(s), NEW w \in Workers,
         \A v \in Workers \ {w} : OutOf(v, s) => OutOf(v, s)',
         launches'[s] = launches[s], crashes' = crashes + 1
  PROVE  BudgetOf(s)'
  <1> DEFINE E == Exhausted(s)
             F == Exhausted(s)'
  <1>1. E \in SUBSET Workers /\ F \in SUBSET Workers /\ E \in SUBSET (F \cup {w})
    BY DEF Exhausted
  <1>2. /\ IsFiniteSet(F) /\ Cardinality(F) \in Nat /\ Cardinality(E) \in Nat
    BY <1>1, SetsOfWorkers
  <1>3. /\ IsFiniteSet(F \cup {w})
        /\ Cardinality(F \cup {w}) = IF w \in F THEN Cardinality(F) ELSE Cardinality(F) + 1
    BY <1>2, FS_AddElement
  <1>4. Cardinality(E) <= Cardinality(F \cup {w})
    BY <1>1, <1>3, FS_Subset
  <1> QED
    BY <1>2, <1>3, <1>4, BudgetTypes DEF BudgetOf

\* A row is never open again.
LEMMA StaysClosed ==
  ASSUME TypeOK, [Next]_vars, NEW t \in Schedules, Open(t)'
  PROVE  Open(t)
  <1>1. CASE \E s \in Schedules : RequestStep(s)
    BY <1>1 DEF RequestStep, CreateScheduled, BecomeDue, CancelRead, CancelWrite, Open,
                TypeOK, None
  <1>2. CASE \E w \in Workers : RunStep(w)
    BY <1>2, RunEffect DEF Effect, Open, None
  <1>3. CASE (\E w \in Workers : Abort(w)) \/ UNCHANGED vars
    BY <1>3 DEF Abort, vars, Open
  <1> QED
    BY <1>1, <1>2, <1>3 DEF Next, Crash, Deadlock

\* A worker that does nothing stays out.
LEMMA OthersStayOut ==
  ASSUME TypeOK, [Next]_vars, NEW t \in Schedules, NEW v \in Workers,
         job'[v] = job[v], OutOf(v, t)
  PROVE  OutOf(v, t)'
  BY StaysClosed DEF OutOf, Spent, Current

LEMMA BudgetStep ==
  ASSUME TypeOK, BudgetInv, [Next]_vars, NEW t \in Schedules
  PROVE  BudgetOf(t)'
  <1>0. BudgetOf(t)
    BY DEF BudgetInv
  <1>1. CASE (\E s \in Schedules : RequestStep(s)) \/ UNCHANGED vars
    <2>1. UNCHANGED <<job, launches, crashes>>
      BY <1>1 DEF RequestStep, CreateScheduled, BecomeDue, CancelRead, CancelWrite, vars
    <2> QED
      BY <1>0, <2>1, OthersStayOut, BudgetKept
  <1>2. ASSUME NEW w \in Workers, RunStep(w) PROVE BudgetOf(t)'
    <2>1. Effect(w, t)
      BY <1>2, RunEffect
    <2>2. OutOf(w, t) => OutOf(w, t)'
      BY <2>1, StaysClosed DEF Effect, OutOf, Open
    <2>3. \A v \in Workers : OutOf(v, t) => OutOf(v, t)'
      BY <2>1, <2>2, OthersStayOut DEF Effect
    <2>4. CASE launches'[t] = launches[t]
      BY <1>0, <2>1, <2>3, <2>4, BudgetKept DEF Effect
    <2>5. CASE launches'[t] # launches[t]
      <3>1. ~OutOf(w, t) /\ OutOf(w, t)' /\ launches'[t] = launches[t] + 1
        BY <2>1, <2>5 DEF Effect, OutOf
      <3> QED
        BY <1>0, <2>1, <2>3, <3>1, BudgetSpent DEF Effect
    <2> QED
      BY <2>4, <2>5
  <1>3. ASSUME NEW w \in Workers, Abort(w) PROVE BudgetOf(t)'
    <2>1. /\ \A v \in Workers \ {w} : job'[v] = job[v]
          /\ launches' = launches /\ crashes' = crashes + 1
      BY <1>3 DEF Abort, TypeOK
    <2> QED
      BY <1>0, <2>1, OthersStayOut, BudgetCrash
  <1> QED
    BY <1>1, <1>2, <1>3 DEF Next, Crash, Deadlock

\* Whatever the workers' stale copies, lost locks and crashes do, a scheduled
\* rollout is launched at most once per worker that runs
\* fire_due_scheduled_rollouts and once more per crash: once, for the one
\* worker of the deployment that does not crash.
THEOREM LaunchesWithinBudget == Spec => []LaunchBudget
  <1>1. Init => BudgetInv
    <2> SUFFICES ASSUME Init, NEW s \in Schedules PROVE BudgetOf(s)
      BY DEF BudgetInv
    <2>1. Cardinality(Exhausted(s)) \in Nat
      BY SetsOfWorkers DEF Exhausted
    <2> QED
      BY <2>1 DEF Init, BudgetOf
  <1>2. TypeOK /\ BudgetInv /\ [Next]_vars => BudgetInv'
    BY BudgetStep DEF BudgetInv
  <1>3. TypeOK /\ BudgetInv => LaunchBudget
    <2> SUFFICES ASSUME TypeOK, BudgetInv, NEW s \in Schedules
                 PROVE  launches[s] <= Cardinality(Workers) + crashes
      BY DEF LaunchBudget
    <2>1. Exhausted(s) \in SUBSET Workers
      BY DEF Exhausted
    <2> QED
      BY <2>1, SetsOfWorkers, BudgetTypes DEF BudgetInv, BudgetOf
  <1> QED
    BY <1>1, <1>2, <1>3, TypeInit, TypeStep, PTL DEF Spec

-----------------------------------------------------------------------------
(* Cancelled rows.                                                         *)

\* cancel_scheduled: "cancelled" is the last word on a row that no run had in
\* hand when it was written, for any number of workers and rows.
THEOREM CancelIsFinal == Spec => CancelHoldsOutsideRun
  <1>1. ASSUME TypeOK, [Next]_vars, NEW s \in Schedules,
               table[s] = "cancelled", ~InHand(s)
        PROVE  table'[s] = "cancelled" /\ launches'[s] = launches[s] /\ ~InHand(s)'
    <2>1. \A v \in Workers : ~Holding(v, s)
      BY <1>1 DEF InHand, Holding, Spent
    <2>2. SUFFICES /\ table'[s] = "cancelled" /\ launches'[s] = launches[s]
                   /\ \A v \in Workers : ~Holding(v, s)'
      BY DEF InHand, Holding, Spent
    <2>3. CASE (\E t \in Schedules : RequestStep(t)) \/ UNCHANGED vars
      <3>1. UNCHANGED <<job, launches>>
        BY <2>3 DEF RequestStep, CreateScheduled, BecomeDue, CancelRead, CancelWrite, vars
      <3>2. table'[s] = "cancelled"
        BY <1>1, <2>3 DEF RequestStep, CreateScheduled, BecomeDue, CancelRead,
                          CancelWrite, vars, TypeOK, None
      <3> QED
        BY <2>1, <3>1, <3>2 DEF Holding, Spent, Current
    <2>4. ASSUME NEW w \in Workers, RunStep(w)
          PROVE  /\ table'[s] = "cancelled" /\ launches'[s] = launches[s]
                 /\ \A v \in Workers : ~Holding(v, s)'
      <3>1. Effect(w, s)
        BY <1>1, <2>4, RunEffect
      <3>2. table'[s] = "cancelled" /\ launches'[s] = launches[s] /\ ~Holding(w, s)'
        BY <1>1, <2>1, <3>1 DEF Effect, Holding
      <3>3. \A v \in Workers \ {w} : ~Holding(v, s)'
        BY <2>1, <3>1 DEF Effect, Holding, Spent, Current
      <3> QED
        BY <3>2, <3>3
    <2>5. ASSUME NEW w \in Workers, Abort(w)
          PROVE  /\ table'[s] = "cancelled" /\ launches'[s] = launches[s]
                 /\ \A v \in Workers : ~Holding(v, s)'
      <3>1. /\ job'[w] = Resting /\ \A v \in Workers \ {w} : job'[v] = job[v]
            /\ UNCHANGED <<table, launches>>
        BY <1>1, <2>5 DEF Abort, TypeOK
      <3>2. ~Holding(w, s)'
        BY <3>1 DEF Holding, Spent, Resting, NoMarks, None
      <3>3. \A v \in Workers \ {w} : ~Holding(v, s)'
        BY <2>1, <3>1 DEF Holding, Spent, Current
      <3> QED
        BY <1>1, <3>1, <3>2, <3>3
    <2> QED
      BY <1>1, <2>3, <2>4, <2>5 DEF Next, Crash, Deadlock
  <1>2. TypeOK /\ [Next]_vars =>
           [\A s \in Schedules :
              table[s] = "cancelled" /\ ~InHand(s) =>
                 /\ table'[s] = "cancelled"
                 /\ launches'[s] = launches[s]
                 /\ ~InHand(s)']_vars
    BY <1>1
  <1> QED
    BY <1>2, TypeInit, TypeStep, PTL DEF Spec, CancelHoldsOutsideRun

=============================================================================

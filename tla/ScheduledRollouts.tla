------------------------- MODULE ScheduledRollouts -------------------------
(***************************************************************************)
(* Rollouts that wait for their time: the scheduled_rollouts table, the    *)
(* requests that create and cancel rows (api/scheduled_rollouts.py) and    *)
(* the job that fires the ones that are due (tasks/scheduler.py).          *)
(*                                                                         *)
(* The job's session is the point of the model.  SELECT ... FOR UPDATE     *)
(* SKIP LOCKED locks every due row, but a commit ends the transaction and  *)
(* with it all the locks, and OTAService.start_rollout, called for each    *)
(* row in turn on the same session, commits.  The rows it loaded stay as   *)
(* they were loaded (expire_on_commit=False), a status set on one of them  *)
(* is only in memory until the session's next commit, and it is written    *)
(* with UPDATE ... WHERE id = ..., whatever the row says by then.  The     *)
(* UPDATE itself goes out earlier, with the session's next query, and      *)
(* locks the row (Flush); nobody else sees it before the commit.           *)
(***************************************************************************)
EXTENDS Naturals, FiniteSets

CONSTANTS
    Schedules,     \* rows of scheduled_rollouts
    Workers,       \* processes that run the job: one as deployed
    MaxCrashes     \* bound: runs of the job that end half way

ASSUME MaxCrashesAssumption == MaxCrashes \in Nat
ASSUME WorkersAssumption == IsFiniteSet(Workers)

VARIABLES
    table,         \* scheduled_rollouts.status, committed
    due,           \* the rows whose fire_at has come
    lock,          \* which worker's transaction locks a row
    job,           \* fire_due_scheduled_rollouts, per worker
    cancelling,    \* cancel requests between their read and their write
    launches,      \* history: rollouts whose events were committed, per row
    crashes        \* history: how many runs of the job ended half way

vars == <<table, due, lock, job, cancelling, launches, crashes>>

None == "none"
Status == {"pending", "fired", "failed", "cancelled"}
NoMarks == [s \in Schedules |-> None]

\* A worker between two runs of the job.
Resting == [phase |-> "rest", batch |-> {}, marks |-> NoMarks]

-----------------------------------------------------------------------------
(* Requests.                                                               *)

\* create_scheduled: a pending row.  fire_at may be this very moment.
CreateScheduled(s) ==
    /\ table[s] = None
    /\ table' = [table EXCEPT ![s] = "pending"]
    /\ UNCHANGED <<due, lock, job, cancelling, launches, crashes>>

\* fire_at <= now from here on.
BecomeDue(s) ==
    /\ table[s] # None
    /\ s \notin due
    /\ due' = due \cup {s}
    /\ UNCHANGED <<table, lock, job, cancelling, launches, crashes>>

\* cancel_scheduled: a plain read; anything but pending is answered with 409.
CancelRead(s) ==
    /\ table[s] = "pending"
    /\ s \notin cancelling
    /\ cancelling' = cancelling \cup {s}
    /\ UNCHANGED <<table, due, lock, job, launches, crashes>>

\* ... and an UPDATE by id, which waits for the row's lock but for nothing else.
CancelWrite(s) ==
    /\ s \in cancelling
    /\ lock[s] = None
    /\ table' = [table EXCEPT ![s] = "cancelled"]
    /\ cancelling' = cancelling \ {s}
    /\ UNCHANGED <<due, lock, job, launches, crashes>>

-----------------------------------------------------------------------------
(* The job.  batch: rows of the query not yet handled.  marks: statuses    *)
(* set on loaded rows and not yet written.                                 *)

\* A commit of w's session with the given marks: written, and all locks gone.
\* The UPDATEs that Flush has not sent yet wait for the locks of their rows.
Commits(w, marks) ==
    /\ \A s \in Schedules : marks[s] # None => lock[s] \in {None, w}
    /\ table' = [s \in Schedules |-> IF marks[s] = None THEN table[s] ELSE marks[s]]
    /\ lock' = [s \in Schedules |-> IF lock[s] = w THEN None ELSE lock[s]]

\* The UPDATEs of all marks have been sent.
Flushed(w) == \A s \in Schedules : job[w].marks[s] # None => lock[s] = w

\* The next query of the loop, or its last commit, first sends the UPDATEs of
\* the marks, row after row; each one locks its row, and waits while another
\* transaction has it.
Flush(w) ==
    /\ job[w].phase = "loop"
    /\ \E s \in Schedules :
         /\ job[w].marks[s] # None
         /\ lock[s] = None
         /\ lock' = [lock EXCEPT ![s] = w]
    /\ UNCHANGED <<table, due, job, cancelling, launches, crashes>>

\* The row the worker is at.
Current(w) == job[w].row

Work(w, phase, s, marks) ==
    [phase |-> phase, row |-> s, batch |-> job[w].batch \ {s}, marks |-> marks]

\* Mutant of Poll: the query lacks its condition on the status.
PollAny(w) ==
    /\ job[w] = Resting
    /\ LET rows == {s \in Schedules : /\ table[s] # None
                                      /\ s \in due
                                      /\ lock[s] = None}
       IN  /\ rows # {}
           /\ lock' = [s \in Schedules |-> IF s \in rows THEN w ELSE lock[s]]
           /\ job' = [job EXCEPT ![w] = [phase |-> "loop", batch |-> rows,
                                         marks |-> NoMarks]]
    /\ UNCHANGED <<table, due, cancelling, launches, crashes>>

\* SELECT ... WHERE status = 'pending' AND fire_at <= now FOR UPDATE SKIP
\* LOCKED.  With no row the job ends without having changed anything.
Poll(w) ==
    /\ job[w] = Resting
    /\ LET rows == {s \in Schedules : /\ table[s] = "pending"
                                      /\ s \in due
                                      /\ lock[s] = None}
       IN  /\ rows # {}
           /\ lock' = [s \in Schedules |-> IF s \in rows THEN w ELSE lock[s]]
           /\ job' = [job EXCEPT ![w] = [phase |-> "loop", batch |-> rows,
                                         marks |-> NoMarks]]
    /\ UNCHANGED <<table, due, cancelling, launches, crashes>>

\* start_rollout inserts the events and commits: the rollout is real now.
Launch(w) ==
    /\ job[w].phase = "loop" /\ Flushed(w)
    /\ \E s \in job[w].batch :
         /\ Commits(w, job[w].marks)
         /\ launches' = [launches EXCEPT ![s] = @ + 1]
         /\ job' = [job EXCEPT ![w] = Work(w, "launched", s, NoMarks)]
    /\ UNCHANGED <<due, cancelling, crashes>>

\* start_rollout selects no device: it returns without a commit.
SelectNobody(w) ==
    /\ job[w].phase = "loop" /\ Flushed(w)
    /\ \E s \in job[w].batch :
         job' = [job EXCEPT ![w] = Work(w, "returned", s, job[w].marks)]
    /\ UNCHANGED <<table, due, lock, cancelling, launches, crashes>>

\* Mutant of Fail: a status that models/scheduled_rollout.py does not list.
FailAsError(w, s) ==
    job' = [job EXCEPT ![w] =
               [phase |-> "loop", batch |-> job[w].batch \ {s},
                marks |-> [job[w].marks EXCEPT ![s] = "error"]]]

\* The except branch: the row is marked failed, in memory, and the loop goes on.
Fail(w, s) ==
    job' = [job EXCEPT ![w] =
               [phase |-> "loop", batch |-> job[w].batch \ {s},
                marks |-> [job[w].marks EXCEPT ![s] = "failed"]]]

\* start_rollout raises before its commit: the firmware is not there.
Refuse(w) ==
    /\ job[w].phase = "loop" /\ Flushed(w)
    /\ \E s \in job[w].batch : Fail(w, s)
    /\ UNCHANGED <<table, due, lock, cancelling, launches, crashes>>

\* The commands are published.
Publish(w) ==
    /\ job[w].phase = "launched"
    /\ job' = [job EXCEPT ![w].phase = "returned"]
    /\ UNCHANGED <<table, due, lock, cancelling, launches, crashes>>

\* ... or a publish raises, with the events committed and some boards told.
PublishRaises(w) ==
    /\ job[w].phase = "launched"
    /\ Fail(w, Current(w))
    /\ UNCHANGED <<table, due, lock, cancelling, launches, crashes>>

\* Mutant of MarkFired: the audit entry is written by another session, so the
\* status stays in memory and the worker goes on to the next row.
MarkFiredInMemory(w) ==
    /\ job[w].phase = "returned"
    /\ job' = [job EXCEPT ![w] = [phase |-> "loop", batch |-> job[w].batch,
                                  marks |-> job[w].marks]]
    /\ UNCHANGED <<table, due, lock, cancelling, launches, crashes>>

\* row.status = 'fired', made durable by the commit of AuditService.log.
MarkFired(w) ==
    /\ job[w].phase = "returned"
    /\ Commits(w, [job[w].marks EXCEPT ![Current(w)] = "fired"])
    /\ job' = [job EXCEPT ![w] = [phase |-> "loop", batch |-> job[w].batch,
                                  marks |-> NoMarks]]
    /\ UNCHANGED <<due, cancelling, launches, crashes>>

\* Mutant of EndRun: the last commit is missing.
EndRunUncommitted(w) ==
    /\ job[w].phase = "loop" /\ job[w].batch = {}
    /\ lock' = [s \in Schedules |-> IF lock[s] = w THEN None ELSE lock[s]]
    /\ job' = [job EXCEPT ![w] = Resting]
    /\ UNCHANGED <<table, due, cancelling, launches, crashes>>

\* The commit after the loop.
EndRun(w) ==
    /\ job[w].phase = "loop" /\ job[w].batch = {} /\ Flushed(w)
    /\ Commits(w, job[w].marks)
    /\ job' = [job EXCEPT ![w] = Resting]
    /\ UNCHANGED <<due, cancelling, launches, crashes>>

\* The transaction is rolled back, the marks are lost.
Abort(w) ==
    /\ crashes' = crashes + 1
    /\ job' = [job EXCEPT ![w] = Resting]
    /\ lock' = [s \in Schedules |-> IF lock[s] = w THEN None ELSE lock[s]]
    /\ UNCHANGED <<table, due, cancelling, launches>>

\* The process dies, or the database refuses a statement and the session is
\* unusable from then on.
Crash(w) ==
    /\ job[w] # Resting
    /\ crashes < MaxCrashes
    /\ Abort(w)

\* An UPDATE of v waits for a row that u's transaction has locked.
Awaits(v, u) ==
    /\ u # v
    /\ \E s \in Schedules :
         /\ lock[s] = u
         /\ \/ job[v].phase = "loop" /\ job[v].marks[s] # None
            \/ job[v].phase = "returned" /\ Current(v) = s

\* Workers that lock rows in opposite orders wait for each other.  Postgres
\* sees it and refuses one's statement, and its run ends like a crash: the
\* except branch marks the row, but the session answers every further
\* statement, the last commit included, with PendingRollbackError.
Deadlock(w) ==
    /\ \E W \in SUBSET Workers : /\ w \in W
                                 /\ \A v \in W : \E u \in W : Awaits(v, u)
    /\ Abort(w)

-----------------------------------------------------------------------------
Init ==
    /\ table = [s \in Schedules |-> None]
    /\ due = {}
    /\ lock = [s \in Schedules |-> None]
    /\ job = [w \in Workers |-> Resting]
    /\ cancelling = {}
    /\ launches = [s \in Schedules |-> 0]
    /\ crashes = 0

RequestStep(s) ==
    \/ CreateScheduled(s) \/ BecomeDue(s) \/ CancelRead(s) \/ CancelWrite(s)

RunStep(w) ==
    \/ Poll(w) \/ Flush(w) \/ Launch(w) \/ SelectNobody(w) \/ Refuse(w)
    \/ Publish(w) \/ PublishRaises(w) \/ MarkFired(w) \/ EndRun(w)

Next ==
    \/ \E s \in Schedules : RequestStep(s)
    \/ \E w \in Workers : RunStep(w) \/ Crash(w) \/ Deadlock(w)

Spec == Init /\ [][Next]_vars

(* The job is run again every minute and a started run goes on; a request  *)
(* that has read a row goes on to write it.  The database breaks a         *)
(* deadlock (deadlock_timeout).  Nobody has to create or cancel anything.  *)
FairSpec ==
    /\ Spec
    /\ \A w \in Workers : WF_vars(RunStep(w)) /\ WF_vars(Deadlock(w))
    /\ \A s \in Schedules : SF_vars(CancelWrite(s))

-----------------------------------------------------------------------------
(* Properties.                                                             *)

Job ==
    {Resting}
    \cup [phase : {"loop"}, batch : SUBSET Schedules,
          marks : [Schedules -> {None, "failed"}]]
    \cup [phase : {"launched", "returned"}, row : Schedules,
          batch : SUBSET Schedules, marks : [Schedules -> {None, "failed"}]]

\* Every variable keeps its type: the statuses models/scheduled_rollout.py
\* lists, and the stages of fire_due_scheduled_rollouts.
TypeOK ==
    /\ table \in [Schedules -> Status \cup {None}]
    /\ due \subseteq Schedules
    /\ lock \in [Schedules -> Workers \cup {None}]
    /\ job \in [Workers -> Job]
    /\ cancelling \subseteq Schedules
    /\ launches \in [Schedules -> Nat]
    /\ crashes \in Nat

\* A scheduled rollout is launched once per worker, so once as deployed, and
\* once more at most for every run of the job that ended half way: such an end
\* between start_rollout's commit and the commit of 'fired' is the only way in
\* which one worker fires a row again.
LaunchBudget == \A s \in Schedules : launches[s] <= Cardinality(Workers) + crashes

\* The row is in the hands of a run that read it while it was pending.
InHand(s) ==
    \E w \in Workers :
        \/ s \in job[w].batch
        \/ job[w].phase \in {"launched", "returned"} /\ Current(w) = s
        \/ job[w].marks[s] # None

\* A cancelled row that no run of the job has in hand is final: it is never
\* launched and never changes again, in whatever order the locks, the stale
\* copies and the other requests come and go.
CancelHoldsOutsideRun ==
    [][\A s \in Schedules :
          table[s] = "cancelled" /\ ~InHand(s) =>
             /\ table'[s] = "cancelled"
             /\ launches'[s] = launches[s]
             /\ ~InHand(s)']_vars

\* A row that is due does not stay pending: it is fired, failed or cancelled,
\* although runs crash, other rows fail and another worker may hold its lock.
DueSettles ==
    \A s \in Schedules :
        table[s] = "pending" /\ s \in due ~> table[s] # "pending"

=============================================================================

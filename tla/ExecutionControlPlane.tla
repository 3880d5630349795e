------------------------ MODULE ExecutionControlPlane ------------------------
(***************************************************************************)
(* The scheduling control plane: the tables execution_schedules and        *)
(* schedule_dispatches, the statements that packages/storage runs on them, *)
(* the worker processes of apps/worker that recover, enqueue, claim, renew *)
(* and finish dispatches, and the API and CLI requests that race with them.*)
(*                                                                         *)
(* A transaction that holds the write lock (BEGIN IMMEDIATE on SQLite, row *)
(* locks on Postgres) is one step.  One that does not is split where       *)
(* another process can get in: between the reads it decides on and its     *)
(* commit (READ COMMITTED on Postgres, autocommitted SELECTs on SQLite).   *)
(***************************************************************************)
EXTENDS Integers, FiniteSets

CONSTANTS Workers,        (* worker processes                                   *)
          Clients,        (* API requests and one-shot CLI commands             *)
          Schedules,      (* schedule ids                                       *)
          WorkerIds,      (* values of the --worker-id / WORKER_ID setting      *)
          WorkerId,       (* the id each worker process resolves to             *)
          NextOccurrence, (* cron: the first occurrence strictly after a time   *)
          Lease,          (* dispatch_lease_seconds                             *)
          EnqueueLimit,   (* --enqueue-limit                                    *)
          Caps,           (* the values max_concurrency is given                *)
          ClientOps,      (* the client operations a run includes               *)
          NoOne,          (* SQL NULL in claimed_by_worker_id, and "no job"     *)
          MaxTime, MaxDispatch, MaxOps, MaxCrashes  (* bounds of the model      *)

Time == 0..MaxTime
Dispatch == 1..MaxDispatch
Never == -1            \* SQL NULL in claim_expires_at
None == 0              \* no dispatch
Procs == Workers \cup Clients

ASSUME ConstantsOK ==
  /\ Workers \cap Clients = {} /\ Procs # {}
  /\ IsFiniteSet(Workers) /\ IsFiniteSet(Clients) /\ IsFiniteSet(Schedules)
  /\ WorkerId \in [Workers -> WorkerIds]
  /\ NoOne \notin WorkerIds
  /\ Lease \in Nat \ {0} /\ MaxTime \in Nat /\ MaxDispatch \in Nat
  /\ MaxOps \in Nat /\ MaxCrashes \in Nat /\ EnqueueLimit \in Nat
  /\ Caps \subseteq Nat
  /\ NextOccurrence \in [Time -> Nat]
  /\ \A t \in Time : NextOccurrence[t] > t

VARIABLES clock,      \* datetime.now(UTC)
          schedule,   \* execution_schedules
          dispatch,   \* schedule_dispatches
          pc,         \* where each worker process is in its loop
          now,        \* the `now` each worker read at the top of its iteration
          job,        \* the dispatch a worker has claimed
          renewer,    \* its lease-renewal thread
          outcome,    \* what processing the job came to
          shutdown,   \* its shutdown event
          tx,         \* a transaction that has read but not yet committed
          view,       \* the row a client request has read and acts upon later
          marked,     \* history: dispatches an operator overrode by hand
          ops, crashes \* how much of the bounds has been used

tables == <<schedule, dispatch>>
process == <<pc, now, job, renewer, outcome, shutdown>>
vars == <<clock, schedule, dispatch, pc, now, job, renewer, outcome, shutdown,
          tx, view, marked, ops, crashes>>

-----------------------------------------------------------------------------
(* Rows *)

Status == {"absent", "enqueued", "running", "completed", "failed"}
Terminal == {"completed", "failed"}

DispatchRow == [schedule: Schedules \cup {NoOne}, status: Status, enqueuedAt: Time,
                claimedBy: WorkerIds \cup {NoOne}, expires: Int,
                replaces: Dispatch \cup {None}]

ScheduleRow == [exists: BOOLEAN, enabled: BOOLEAN, archived: BOOLEAN,
                cap: Nat, due: Nat]

Absent == [schedule |-> NoOne, status |-> "absent", enqueuedAt |-> 0,
           claimedBy |-> NoOne, expires |-> Never, replaces |-> None]

EnqueuedRow(s, t, d) ==
  [schedule |-> s, status |-> "enqueued", enqueuedAt |-> t,
   claimedBy |-> NoOne, expires |-> Never, replaces |-> d]

NewSchedule(cap, t) ==
  [exists |-> TRUE, enabled |-> TRUE, archived |-> FALSE, cap |-> cap,
   due |-> NextOccurrence[t]]

NoSchedule == [exists |-> FALSE, enabled |-> FALSE, archived |-> FALSE, cap |-> 0,
               due |-> 0]

Open(s) == schedule[s].exists /\ schedule[s].enabled /\ ~schedule[s].archived

ActiveIn(rows, s) ==
  {d \in Dispatch : rows[d].schedule = s /\ rows[d].status \in {"enqueued", "running"}}

Active(s) == ActiveIn(dispatch, s)

-----------------------------------------------------------------------------
(* _insert_enqueued_dispatch.  Row ids are uuid4; the model hands them out *)
(* in increasing order, in any order within one transaction.  A seed says  *)
(* which schedule a new row is for and which dispatch it replaces.         *)

Free == {d \in Dispatch : dispatch[d].status = "absent"}

NextFree(n) == {d \in Free : Cardinality({e \in Free : e < d}) < n}

Seeds == [schedule: Schedules, replaces: Dispatch \cup {None}]

Placements(seeds) ==
  LET ids == NextFree(Cardinality(seeds))
  IN {place \in [ids -> seeds] : /\ Cardinality(ids) = Cardinality(seeds)
                                 /\ \A d, e \in ids : place[d] = place[e] => d = e}

Inserting(rows, seeds, t) ==
  {[d \in Dispatch |-> IF d \in DOMAIN place
                       THEN EnqueuedRow(place[d].schedule, t, place[d].replaces)
                       ELSE rows[d]] : place \in Placements(seeds)}

-----------------------------------------------------------------------------
(* State a process is in *)

PC == {"idle", "recover", "enqueue", "claim", "claimed", "working", "report",
       "fail", "stopped", "dead"}
Busy == {"claimed", "working", "report", "fail"}

Tx == [kind: {"none", "enqueue", "create"}, asOf: Time, due: SUBSET Schedules,
       caps: [Schedules -> Nat], chosen: SUBSET Schedules]

NoTx == [kind |-> "none", asOf |-> 0, due |-> {}, caps |-> [s \in Schedules |-> 0],
         chosen |-> {}]

View == [kind: {"none", "mark", "update", "delete"},
         dispatch: Dispatch \cup {None}, row: DispatchRow,
         schedule: Schedules \cup {NoOne}, was: ScheduleRow]

NoView == [kind |-> "none", dispatch |-> None, row |-> Absent,
           schedule |-> NoOne, was |-> NoSchedule]

TypeOK ==
  /\ clock \in Time
  /\ schedule \in [Schedules -> ScheduleRow]
  /\ dispatch \in [Dispatch -> DispatchRow]
  /\ pc \in [Workers -> PC]
  /\ now \in [Workers -> Time]
  /\ job \in [Workers -> Dispatch \cup {None}]
  /\ renewer \in [Workers -> {"off", "on", "failed"}]
  /\ outcome \in [Workers -> {"ok", "error"}]
  /\ shutdown \in [Workers -> BOOLEAN]
  /\ tx \in [Procs -> Tx]
  /\ view \in [Clients -> View]
  /\ marked \subseteq Dispatch
  /\ ops \in 0..MaxOps
  /\ crashes \in 0..MaxCrashes

Init ==
  /\ clock = 0
  /\ \E cap \in [Schedules -> Caps] :
        schedule = [s \in Schedules |-> NewSchedule(cap[s], 0)]
  /\ dispatch = [d \in Dispatch |-> Absent]
  /\ pc = [w \in Workers |-> "idle"]
  /\ now = [w \in Workers |-> 0]
  /\ job = [w \in Workers |-> None]
  /\ renewer = [w \in Workers |-> "off"]
  /\ outcome = [w \in Workers |-> "ok"]
  /\ shutdown = [w \in Workers |-> FALSE]
  /\ tx = [p \in Procs |-> NoTx]
  /\ view = [c \in Clients |-> NoView]
  /\ marked = {}
  /\ ops = 0
  /\ crashes = 0

Tick ==
  /\ clock < MaxTime
  /\ clock' = clock + 1
  /\ UNCHANGED <<tables, process, tx, view, marked, ops, crashes>>

-----------------------------------------------------------------------------
(* enqueue_due_execution_schedules and create_schedule_dispatch: a         *)
(* transaction without the write lock.  It reads, and what it inserts is   *)
(* visible to nobody before it commits.                                    *)

EnqueueSelect(p, t) ==
  tx' = [tx EXCEPT ![p] =
           [kind |-> "enqueue", asOf |-> t,
            due |-> {s \in Schedules : Open(s) /\ schedule[s].due <= t},
            caps |-> [s \in Schedules |-> schedule[s].cap],
            chosen |-> {}]]

\* Mutant: the count of active dispatches is not looked at.
EnqueueUnchecked(p) ==
  /\ tx[p].kind = "enqueue"
  /\ Cardinality(tx[p].chosen) < EnqueueLimit
  /\ \E s \in tx[p].due :
        tx' = [tx EXCEPT ![p].due = @ \ {s}, ![p].chosen = @ \cup {s}]

EnqueueCheck(p) ==
  /\ tx[p].kind = "enqueue"
  /\ Cardinality(tx[p].chosen) < EnqueueLimit
  /\ \E s \in tx[p].due :
        tx' = [tx EXCEPT ![p].due = @ \ {s},
                         ![p].chosen = IF Cardinality(Active(s)) >= tx[p].caps[s]
                                       THEN @ ELSE @ \cup {s}]

EnqueueDone(p) ==
  /\ tx[p].kind = "enqueue"
  /\ tx[p].due = {} \/ Cardinality(tx[p].chosen) >= EnqueueLimit

\* Mutant: disabled and archived schedules are not refused.
CreateUnguarded(p, s, t) ==
  /\ schedule[s].exists
  /\ Cardinality(Active(s)) < schedule[s].cap
  /\ tx' = [tx EXCEPT ![p] = [NoTx EXCEPT !.kind = "create", !.asOf = t,
                                          !.chosen = {s}]]

CreateCheck(p, s, t) ==
  /\ Open(s)
  /\ Cardinality(Active(s)) < schedule[s].cap
  /\ tx' = [tx EXCEPT ![p] = [NoTx EXCEPT !.kind = "create", !.asOf = t,
                                          !.chosen = {s}]]

\* The foreign key refuses a row for a schedule deleted meanwhile: the whole
\* transaction is then rolled back.
Committable(p) == \A s \in tx[p].chosen : schedule[s].exists

Commit(p) ==
  /\ dispatch' \in Inserting(dispatch,
        {[schedule |-> s, replaces |-> None] : s \in tx[p].chosen}, tx[p].asOf)
  /\ schedule' = [s \in Schedules |->
        IF tx[p].kind = "enqueue" /\ s \in tx[p].chosen
        THEN [schedule[s] EXCEPT !.due = NextOccurrence[tx[p].asOf]]
        ELSE schedule[s]]

-----------------------------------------------------------------------------
(* requeue_expired_schedule_dispatches, under the write lock: each expired *)
(* row fails in turn, and gets a replacement if its schedule is open and   *)
(* has room once the rows before it have been dealt with.                  *)

\* Mutant: the wrong status is looked for.
ExpiredEnqueued(t) ==
  {d \in Dispatch : /\ dispatch[d].status = "enqueued"
                    /\ dispatch[d].expires # Never
                    /\ dispatch[d].expires < t}

Expired(t) ==
  {d \in Dispatch : /\ dispatch[d].status = "running"
                    /\ dispatch[d].expires # Never
                    /\ dispatch[d].expires < t}

Before(d, e) == \/ dispatch[d].expires < dispatch[e].expires
                \/ dispatch[d].expires = dispatch[e].expires /\ d <= e

Rank(d, t) ==
  Cardinality({e \in Expired(t) : dispatch[e].schedule = dispatch[d].schedule
                                  /\ Before(e, d)})

Replaced(t) ==
  {d \in Expired(t) :
     LET s == dispatch[d].schedule
     IN Open(s) /\ Cardinality(Active(s)) - Rank(d, t) < schedule[s].cap}

FinishedRow(row, status) == [row EXCEPT !.status = status, !.expires = Never]
\* Mutant: the expired row goes back to the queue.
RequeuedRow(row) == [row EXCEPT !.status = "enqueued", !.expires = Never]
FailedRow(row) == FinishedRow(row, "failed")

RequeueExpired(t) ==
  /\ dispatch' \in Inserting(
        [d \in Dispatch |-> IF d \in Expired(t) THEN FailedRow(dispatch[d])
                                                ELSE dispatch[d]],
        {[schedule |-> dispatch[d].schedule, replaces |-> d] : d \in Replaced(t)},
        t)
  /\ UNCHANGED schedule

-----------------------------------------------------------------------------
(* Claiming and renewing, under the write lock *)

InHorizon(t) == t + Lease < MaxTime   \* a lease that can still expire in the model

\* Mutant: the claim gets no lease.
LeaselessRow(row, w, t) == [row EXCEPT !.status = "running", !.claimedBy = WorkerId[w]]
ClaimedRow(row, w, t) == [row EXCEPT !.status = "running",
                                     !.claimedBy = WorkerId[w],
                                     !.expires = t + Lease]

ClaimRow(w, d, t) == dispatch' = [dispatch EXCEPT ![d] = ClaimedRow(@, w, t)]

Enqueued == {d \in Dispatch : dispatch[d].status = "enqueued"}
\* Mutant: the replacements of recovery are not looked for.
OldestFirstAttempt == {d \in Enqueued : /\ dispatch[d].replaces = None
                                       /\ \A e \in Enqueued :
                                            dispatch[d].enqueuedAt <= dispatch[e].enqueuedAt}
Oldest == {d \in Enqueued : \A e \in Enqueued :
                               dispatch[d].enqueuedAt <= dispatch[e].enqueuedAt}

\* Mutant: expected_status is not passed.
HoldsIgnoringStatus(w) == dispatch[job[w]].claimedBy = WorkerId[w]
\* The row is still this worker's to renew or to finish.
Holds(w) == /\ dispatch[job[w]].status = "running"
            /\ dispatch[job[w]].claimedBy = WorkerId[w]

\* mark_schedule_dispatch_status with expected_status and expected_worker_id
Finish(w, status) ==
  dispatch' = [dispatch EXCEPT ![job[w]] = FinishedRow(@, status)]

-----------------------------------------------------------------------------
(* The worker process: _watch_schedule_dispatches, _process_schedule_dispatch *)
(* and _ScheduleDispatchLeaseRenewer.                                         *)

Goto(w, label) == pc' = [pc EXCEPT ![w] = label]
Rest == <<tx, view, marked, ops, crashes, clock>>

StartIteration(w) ==
  /\ pc[w] = "idle"
  /\ Goto(w, IF shutdown[w] THEN "stopped" ELSE "recover")
  /\ now' = [now EXCEPT ![w] = clock]
  /\ UNCHANGED <<tables, job, renewer, outcome, shutdown, Rest>>

Recover(w) ==
  /\ pc[w] = "recover"
  /\ RequeueExpired(now[w])
  /\ Goto(w, "enqueue")
  /\ UNCHANGED <<now, job, renewer, outcome, shutdown, Rest>>

BeginEnqueue(w) ==
  /\ pc[w] = "enqueue" /\ tx[w].kind = "none"
  /\ EnqueueSelect(w, now[w])
  /\ UNCHANGED <<tables, process, view, marked, ops, crashes, clock>>

CheckDue(p) ==
  /\ EnqueueCheck(p)
  /\ UNCHANGED <<tables, process, view, marked, ops, crashes, clock>>

CommitEnqueue(w) ==
  /\ pc[w] = "enqueue" /\ EnqueueDone(w) /\ Committable(w)
  /\ Commit(w)
  /\ Goto(w, "claim")
  /\ tx' = [tx EXCEPT ![w] = NoTx]
  /\ UNCHANGED <<now, job, renewer, outcome, shutdown, view, marked, ops, crashes, clock>>

\* The integrity error leaves the watch loop and ends the process.
AbortEnqueue(w) ==
  /\ pc[w] = "enqueue" /\ EnqueueDone(w) /\ ~Committable(w)
  /\ Goto(w, "dead")
  /\ tx' = [tx EXCEPT ![w] = NoTx]
  /\ UNCHANGED <<tables, now, job, renewer, outcome, shutdown, view, marked, ops,
                 crashes, clock>>

\* claim_next_schedule_dispatch: the oldest enqueued row (ids break ties at random)
ClaimNext(w) ==
  /\ pc[w] = "claim" /\ ~shutdown[w] /\ InHorizon(now[w])
  /\ \E d \in Oldest :
        /\ ClaimRow(w, d, now[w])
        /\ job' = [job EXCEPT ![w] = d]
  /\ Goto(w, "claimed")
  /\ UNCHANGED <<schedule, now, renewer, outcome, shutdown, Rest>>

\* Nothing to claim: the idle yield point.
Yield(w) ==
  /\ pc[w] = "claim"
  /\ shutdown[w] \/ Enqueued = {} \/ ~InHorizon(now[w])
  /\ Goto(w, IF shutdown[w] THEN "stopped" ELSE "idle")
  /\ UNCHANGED <<tables, now, job, renewer, outcome, shutdown, Rest>>

\* The claimed row is read back in another session; a row that is no longer
\* this worker's raises out of the loop and ends the process.
BeginWork(w) ==
  /\ pc[w] = "claimed"
  /\ IF Holds(w)
     THEN /\ Goto(w, "working")
          /\ renewer' = [renewer EXCEPT ![w] = "on"]
          /\ UNCHANGED job
     ELSE /\ Goto(w, "dead")
          /\ job' = [job EXCEPT ![w] = None]
          /\ UNCHANGED renewer
  /\ UNCHANGED <<tables, now, outcome, shutdown, Rest>>

\* process-schedule-dispatch <id>: the claim_schedule_dispatch path
ClaimById(w, d) ==
  /\ pc[w] = "idle" /\ InHorizon(clock)
  /\ dispatch[d].status = "enqueued"
  /\ ClaimRow(w, d, clock)
  /\ job' = [job EXCEPT ![w] = d]
  /\ renewer' = [renewer EXCEPT ![w] = "on"]
  /\ Goto(w, "working")
  /\ UNCHANGED <<schedule, now, outcome, shutdown, Rest>>

Renew(w) ==
  /\ renewer[w] = "on" /\ Holds(w) /\ InHorizon(clock)
  /\ dispatch' = [dispatch EXCEPT ![job[w]].expires = clock + Lease]
  /\ UNCHANGED <<schedule, process, Rest>>

\* The row is no longer this worker's, or the store raised: the thread keeps
\* the error and ends.
RenewFails(w) ==
  /\ renewer[w] = "on"
  /\ renewer' = [renewer EXCEPT ![w] = "failed"]
  /\ UNCHANGED <<tables, pc, now, job, outcome, shutdown, Rest>>

\* Ingestion and promotion end, the renewer is stopped and its error raised.
EndWork(w) ==
  /\ pc[w] = "working"
  /\ \E result \in {"ok", "error"} :
        LET failed == result = "error" \/ renewer[w] = "failed"
        IN /\ outcome' = [outcome EXCEPT ![w] = IF failed THEN "error" ELSE "ok"]
           /\ Goto(w, IF failed THEN "fail" ELSE "report")
  /\ renewer' = [renewer EXCEPT ![w] = "off"]
  /\ UNCHANGED <<tables, now, job, shutdown, Rest>>

ReportCompleted(w) ==
  /\ pc[w] = "report"
  /\ IF Holds(w)
     THEN /\ Finish(w, "completed")
          /\ job' = [job EXCEPT ![w] = None]
          /\ Goto(w, "idle")
          /\ UNCHANGED outcome
     ELSE /\ outcome' = [outcome EXCEPT ![w] = "error"]
          /\ Goto(w, "fail")
          /\ UNCHANGED <<dispatch, job>>
  /\ UNCHANGED <<schedule, now, renewer, shutdown, Rest>>

ReportFailed(w) ==
  /\ pc[w] = "fail"
  /\ IF Holds(w) THEN Finish(w, "failed") ELSE UNCHANGED dispatch
  /\ job' = [job EXCEPT ![w] = None]
  /\ Goto(w, "idle")
  /\ UNCHANGED <<schedule, now, renewer, outcome, shutdown, Rest>>

-----------------------------------------------------------------------------
(* Signals and crashes *)

Shutdown(w) ==
  /\ crashes < MaxCrashes
  /\ pc[w] \notin {"stopped", "dead"} /\ ~shutdown[w]
  /\ shutdown' = [shutdown EXCEPT ![w] = TRUE]
  /\ crashes' = crashes + 1
  /\ UNCHANGED <<tables, pc, now, job, renewer, outcome, tx, view, marked, ops, clock>>

Crash(w) ==
  /\ crashes < MaxCrashes
  /\ pc[w] \notin {"stopped", "dead"}
  /\ Goto(w, "dead")
  /\ job' = [job EXCEPT ![w] = None]
  /\ renewer' = [renewer EXCEPT ![w] = "off"]
  /\ tx' = [tx EXCEPT ![w] = NoTx]
  /\ crashes' = crashes + 1
  /\ UNCHANGED <<tables, now, outcome, shutdown, view, marked, ops, clock>>

Restart(w) ==
  /\ pc[w] \in {"stopped", "dead"}
  /\ Goto(w, "idle")
  /\ shutdown' = [shutdown EXCEPT ![w] = FALSE]
  /\ UNCHANGED <<tables, now, job, renewer, outcome, Rest>>

Worker(w) ==
  \/ StartIteration(w) \/ Recover(w) \/ BeginEnqueue(w) \/ CheckDue(w)
  \/ CommitEnqueue(w) \/ AbortEnqueue(w) \/ ClaimNext(w) \/ Yield(w) \/ BeginWork(w)
  \/ EndWork(w) \/ ReportCompleted(w) \/ ReportFailed(w) \/ Restart(w)

-----------------------------------------------------------------------------
(* API requests and one-shot CLI commands *)

Idle(c) == tx[c].kind = "none" /\ view[c].kind = "none"
Begins(c, op) == op \in ClientOps /\ Idle(c) /\ ops < MaxOps /\ ops' = ops + 1
Others == <<process, marked, crashes, clock>>

\* enqueue-due-schedules, and POST /control/schedule-dispatches without an id
EnqueueDue(c) ==
  /\ Begins(c, "enqueue")
  /\ EnqueueSelect(c, clock)
  /\ UNCHANGED <<tables, view, Others>>

\* POST /control/schedule-dispatches with a schedule id
CreateDispatch(c) ==
  /\ Begins(c, "create")
  /\ \E s \in Schedules : CreateCheck(c, s, clock)
  /\ UNCHANGED <<tables, view, Others>>

\* POST /control/schedule-dispatches/{id}/retry
RetryDispatch(c) ==
  /\ Begins(c, "retry")
  /\ \E d \in Dispatch :
        /\ dispatch[d].status \in Terminal
        /\ CreateCheck(c, dispatch[d].schedule, clock)
  /\ UNCHANGED <<tables, view, Others>>

CommitRequest(c) ==
  /\ tx[c].kind = "create" \/ EnqueueDone(c)
  /\ IF Committable(c) THEN Commit(c) ELSE UNCHANGED tables
  /\ tx' = [tx EXCEPT ![c] = NoTx]
  /\ UNCHANGED <<view, ops, Others>>

\* recover-stale-schedule-dispatches
RecoverStale(c) ==
  /\ Begins(c, "recover")
  /\ RequeueExpired(clock)
  /\ UNCHANGED <<tx, view, Others>>

\* mark-schedule-dispatch: the row is read, then overwritten from what was
\* read, without any expectation.
ReadMark(c) ==
  /\ Begins(c, "mark")
  /\ \E d \in Dispatch :
        /\ dispatch[d].status # "absent"
        /\ view' = [view EXCEPT ![c] = [NoView EXCEPT !.kind = "mark", !.dispatch = d,
                                                      !.row = dispatch[d]]]
  /\ UNCHANGED <<tables, tx, Others>>

MarkedRow(current, seen, status) ==
  [current EXCEPT !.status = status,
                  !.claimedBy = IF status = "enqueued" THEN NoOne ELSE seen.claimedBy,
                  !.expires = IF status = "running" THEN seen.expires ELSE Never]

WriteMark(c) ==
  /\ view[c].kind = "mark"
  /\ LET d == view[c].dispatch
     IN /\ \E status \in Status \ {"absent"} :
              dispatch' = [dispatch EXCEPT ![d] = MarkedRow(@, view[c].row, status)]
        /\ marked' = marked \cup {d}
  /\ view' = [view EXCEPT ![c] = NoView]
  /\ UNCHANGED <<schedule, process, tx, ops, crashes, clock>>

CreateSchedule(c) ==
  /\ Begins(c, "createSchedule")
  /\ \E s \in Schedules, cap \in Caps :
        /\ ~schedule[s].exists
        /\ schedule' = [schedule EXCEPT ![s] = NewSchedule(cap, clock)]
  /\ UNCHANGED <<dispatch, tx, view, Others>>

\* PATCH /config/execution-schedules/{id}: archived and next_due_at are written
\* back as they were read.
ReadUpdate(c) ==
  /\ Begins(c, "update")
  /\ \E s \in Schedules :
        /\ schedule[s].exists
        /\ view' = [view EXCEPT ![c] = [NoView EXCEPT !.kind = "update", !.schedule = s,
                                                      !.was = schedule[s]]]
  /\ UNCHANGED <<tables, tx, Others>>

UpdatedRow(was, cap, enabled) == [was EXCEPT !.cap = cap, !.enabled = enabled]

WriteUpdate(c) ==
  /\ view[c].kind = "update"
  /\ LET s == view[c].schedule
     IN \E cap \in Caps, enabled \in BOOLEAN :
           schedule' = IF schedule[s].exists
                       THEN [schedule EXCEPT ![s] = UpdatedRow(view[c].was, cap, enabled)]
                       ELSE schedule
  /\ view' = [view EXCEPT ![c] = NoView]
  /\ UNCHANGED <<dispatch, tx, ops, Others>>

\* PATCH /config/execution-schedules/{id}/archive, in one statement
ArchivedRow(row, archived) == [row EXCEPT !.archived = archived,
                                          !.enabled = row.enabled /\ ~archived]

SetArchived(c) ==
  /\ Begins(c, "archive")
  /\ \E s \in Schedules, archived \in BOOLEAN :
        /\ schedule[s].exists
        /\ schedule' = [schedule EXCEPT ![s] = ArchivedRow(@, archived)]
  /\ UNCHANGED <<dispatch, tx, view, Others>>

ReadDelete(c) ==
  /\ Begins(c, "delete")
  /\ \E s \in Schedules :
        /\ schedule[s].exists /\ schedule[s].archived
        /\ \A d \in Dispatch : dispatch[d].schedule # s
        /\ view' = [view EXCEPT ![c] = [NoView EXCEPT !.kind = "delete", !.schedule = s]]
  /\ UNCHANGED <<tables, tx, Others>>

\* The foreign key still refuses a schedule that has got a dispatch meanwhile.
WriteDelete(c) ==
  /\ view[c].kind = "delete"
  /\ LET s == view[c].schedule
     IN schedule' = IF \E d \in Dispatch : dispatch[d].schedule = s
                    THEN schedule
                    ELSE [schedule EXCEPT ![s] = NoSchedule]
  /\ view' = [view EXCEPT ![c] = NoView]
  /\ UNCHANGED <<dispatch, tx, ops, Others>>

Client(c) ==
  \/ EnqueueDue(c) \/ CheckDue(c) \/ CreateDispatch(c) \/ RetryDispatch(c)
  \/ CommitRequest(c) \/ RecoverStale(c) \/ ReadMark(c) \/ WriteMark(c)
  \/ CreateSchedule(c) \/ ReadUpdate(c) \/ WriteUpdate(c) \/ SetArchived(c)
  \/ ReadDelete(c) \/ WriteDelete(c)

-----------------------------------------------------------------------------

Next ==
  \/ Tick
  \/ \E w \in Workers : \/ Worker(w) \/ Renew(w) \/ RenewFails(w)
                        \/ Shutdown(w) \/ Crash(w)
                        \/ \E d \in Dispatch : ClaimById(w, d)
  \/ \E c \in Clients : Client(c)

Spec == Init /\ [][Next]_vars

\* A live worker process keeps taking its steps and a dead one is restarted by
\* its supervisor.  Nothing is assumed of renewals, signals, crashes, requests
\* or the clock.
FairSpec == Spec /\ \A w \in Workers : WF_vars(Worker(w))

-----------------------------------------------------------------------------
(* Properties.  `marked` exempts the dispatches an operator has overridden  *)
(* with mark-schedule-dispatch, which asks no questions.                    *)

\* A worker busy with a dispatch either still holds the claim under its own id or
\* has lost it for good to recovery: the row is never back in the queue, never
\* another worker's, and never completed, while the worker is on it (claim,
\* renewal, recovery and the two expectations of mark_schedule_dispatch_status).
WorkerHoldsOrLost ==
  \A w \in Workers : job[w] # None /\ job[w] \notin marked =>
     LET row == dispatch[job[w]]
     IN \/ row.status = "running" /\ row.claimedBy = WorkerId[w]
        \/ row.status = "failed"

\* No two processes ever work on the same dispatch, even if they share a worker id
\* (claim_next_schedule_dispatch and claim_schedule_dispatch).
OneRunner ==
  \A v, w \in Workers :
     v # w /\ job[v] # None /\ job[v] = job[w] => job[w] \in marked

\* A dispatch that recovery has replaced has failed and stays so - its old worker
\* can no longer complete it - and it is replaced only once.
ReplacedOnceAndFailed ==
  \A d, e \in Dispatch :
     LET old == dispatch[d].replaces
     IN old # None /\ old \notin marked =>
           /\ dispatch[old].status = "failed"
           /\ dispatch[e].replaces = old => d = e

\* A running row carries a worker and a lease, so recovery can always get at it.
RunningIsRecoverable ==
  \A d \in Dispatch : dispatch[d].status = "running" /\ d \notin marked =>
     dispatch[d].expires # Never /\ dispatch[d].claimedBy # NoOne

\* The checks of max_concurrency are not serialised against the inserts, so the
\* limit can be overshot, but only by the other processes that were between check
\* and commit.
OvershootBounded ==
  \A s \in Schedules : \E cap \in Caps :
     Cardinality(Active(s) \ marked) + Cardinality({p \in Procs : s \in tx[p].chosen})
        <= cap + Cardinality(Procs) - 1

\* A schedule that is archived, disabled or deleted gets no dispatch any more, from
\* enqueueing, a manual request, a retry or recovery, once the transactions that
\* had already looked at it are through; nor does another one take it up.
Untouched(s) == \A p \in Procs : s \notin tx[p].due \cup tx[p].chosen
ClosedGetsNothing ==
  [][\A s \in Schedules : ~Open(s) /\ Untouched(s) =>
        /\ Untouched(s)'
        /\ \A d \in Dispatch : dispatch'[d].schedule = s => dispatch[d].schedule = s]_vars

\* A finished dispatch never changes again: a worker that lost its claim cannot
\* overwrite the verdict, nor a renewal revive the row.
TerminalIsFinal ==
  [][\A d \in Dispatch : dispatch[d].status \in Terminal /\ d \notin marked' =>
        dispatch'[d] = dispatch[d]]_vars

\* The tables implement the ledger.
Ledger == INSTANCE DispatchLedger
            WITH Holders <- WorkerIds,
                 status <- [d \in Dispatch |-> dispatch[d].status],
                 holder <- [d \in Dispatch |-> dispatch[d].claimedBy],
                 heirOf <- [d \in Dispatch |-> dispatch[d].replaces],
                 overridden <- marked
ImplementsLedger == Ledger!Spec

\* Whatever happens to its worker, a running dispatch ends: the worker finishes it,
\* or a live worker recovers it.  It can only wait for ever, abandoned, while its
\* lease has not run out (the loops of _watch_schedule_dispatches and
\* requeue_expired_schedule_dispatches).
RunningEnds ==
  \A d \in Dispatch :
     dispatch[d].status = "running" ~>
        \/ dispatch[d].status # "running"
        \/ /\ dispatch[d].expires >= clock
           /\ \A w \in Workers : job[w] # d

\* An enqueued dispatch is claimed, whether a schedule came due or recovery queued it in
\* place of one whose worker died, and whatever is in the queue before it (recovery,
\* enqueueing and claim_next_schedule_dispatch in the loop of _watch_schedule_dispatches),
\* unless the clock leaves the modelled horizon.
EnqueuedIsClaimed ==
  \A d \in Dispatch : dispatch[d].status = "enqueued" ~>
                         dispatch[d].status # "enqueued" \/ ~InHorizon(clock)

=============================================================================

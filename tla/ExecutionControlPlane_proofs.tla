-------------------- MODULE ExecutionControlPlane_proofs --------------------
(***************************************************************************)
(* Proofs about the scheduling control plane, for every number of workers, *)
(* clients, schedules and dispatches and every bound.                      *)
(***************************************************************************)
EXTENDS ExecutionControlPlane, FiniteSetTheorems, WellFoundedInduction, TLAPS

\* Rows that are there name a schedule.
RowsHaveSchedule ==
  \A d \in Dispatch : dispatch[d].status # "absent" => dispatch[d].schedule \in Schedules

\* A worker has a job exactly while it is busy, and renews only then.
JobsMatchPC ==
  \A w \in Workers : /\ job[w] # None <=> pc[w] \in Busy
                     /\ renewer[w] = "on" => pc[w] = "working"

\* An operator who is about to overwrite a dispatch has seen one.
MarksMatchRows ==
  \A c \in Clients : view[c].kind = "mark" =>
     view[c].dispatch # None /\ dispatch[view[c].dispatch].status # "absent"

\* The inductive type invariant.
TypeInv == TypeOK /\ RowsHaveSchedule /\ JobsMatchPC

\* No statement deletes a row.
RowsStay == \A d \in Dispatch : dispatch[d].status # "absent" => dispatch'[d].status # "absent"

USE DEF Time, Dispatch, Never, None, Procs

-----------------------------------------------------------------------------
(* What inserting rows does *)

\* Inserted rows are well formed when the seeds are, and nothing else changes.
LEMMA InsertingType ==
  \A rows \in [Dispatch -> DispatchRow], seeds \in SUBSET Seeds, t \in Time :
  \A new \in Inserting(rows, seeds, t) :
     /\ new \in [Dispatch -> DispatchRow]
     /\ \A d \in Dispatch : new[d] # rows[d] =>
          /\ dispatch[d].status = "absent"
          /\ new[d].status = "enqueued" /\ new[d].claimedBy = NoOne
          /\ [schedule |-> new[d].schedule, replaces |-> new[d].replaces] \in seeds
<1> TAKE rows \in [Dispatch -> DispatchRow], seeds \in SUBSET Seeds, t \in Time
<1> TAKE new \in Inserting(rows, seeds, t)
<1> DEFINE ids == NextFree(Cardinality(seeds))
<1>1. PICK place \in Placements(seeds) :
         new = [d \in Dispatch |->
                  IF d \in DOMAIN place
                  THEN EnqueuedRow(place[d].schedule, t, place[d].replaces)
                  ELSE rows[d]]
  BY DEF Inserting
<1>2. /\ place \in [ids -> seeds]
      /\ \A d, e \in ids : place[d] = place[e] => d = e
      /\ DOMAIN place = ids
  BY <1>1 DEF Placements
<1>3. ids \subseteq Free /\ ids \subseteq Dispatch
  BY DEF NextFree, Free
<1> HIDE DEF ids
<1>4. ASSUME NEW d \in ids
      PROVE  /\ new[d] \in DispatchRow
             /\ dispatch[d].status = "absent"
             /\ new[d].status = "enqueued" /\ new[d].claimedBy = NoOne
             /\ place[d] = [schedule |-> new[d].schedule, replaces |-> new[d].replaces]
             /\ place[d] \in seeds
  <2>1. place[d] \in seeds /\ place[d] \in Seeds
    BY <1>2
  <2>2. new[d] = EnqueuedRow(place[d].schedule, t, place[d].replaces)
    BY <1>1, <1>2, <1>3
  <2> QED
    BY <1>3, <2>1, <2>2 DEF EnqueuedRow, DispatchRow, Seeds, Status, Free
<1>5. \A d \in Dispatch \ ids : new[d] = rows[d]
  BY <1>1, <1>2
<1>6. new \in [Dispatch -> DispatchRow]
  BY <1>1, <1>2, <1>4
<1> QED
  BY <1>3, <1>4, <1>5, <1>6

\* Two inserted rows come from different seeds.
LEMMA InsertingOnce ==
  ASSUME NEW rows \in [Dispatch -> DispatchRow], NEW seeds \in SUBSET Seeds, NEW t \in Time,
         NEW new \in Inserting(rows, seeds, t), NEW d \in Dispatch, NEW e \in Dispatch,
         new[d] # rows[d], new[e] # rows[e],
         new[d].schedule = new[e].schedule, new[d].replaces = new[e].replaces
  PROVE  d = e
<1> DEFINE ids == NextFree(Cardinality(seeds))
<1>1. PICK place \in Placements(seeds) :
         new = [i \in Dispatch |->
                  IF i \in DOMAIN place
                  THEN EnqueuedRow(place[i].schedule, t, place[i].replaces)
                  ELSE rows[i]]
  BY DEF Inserting
<1>2. /\ place \in [ids -> seeds]
      /\ \A i, j \in ids : place[i] = place[j] => i = j
  BY <1>1 DEF Placements
<1> HIDE DEF ids
<1>3. d \in ids /\ e \in ids
  BY <1>1, <1>2
<1>4. ASSUME NEW i \in ids, i \in Dispatch
      PROVE  place[i] = [schedule |-> new[i].schedule, replaces |-> new[i].replaces]
  <2>1. place[i] \in Seeds
    BY <1>2
  <2>2. new[i] = EnqueuedRow(place[i].schedule, t, place[i].replaces)
    BY <1>1, <1>2, <1>4
  <2> QED
    BY <2>1, <2>2 DEF EnqueuedRow, Seeds
<1>5. place[d] = place[e]
  BY <1>3, <1>4
<1> QED
  BY <1>2, <1>3, <1>5

-----------------------------------------------------------------------------
(* Type correctness *)

\* Finishing a row writes its status and clears its lease, nothing else
\* (mark_schedule_dispatch_status).
LEMMA FinishedRowIs ==
  \A row \in DispatchRow, st \in Status :
     /\ FinishedRow(row, st) \in DispatchRow
     /\ FinishedRow(row, st).status = st
     /\ FinishedRow(row, st).schedule = row.schedule
     /\ FinishedRow(row, st).claimedBy = row.claimedBy
     /\ FinishedRow(row, st).replaces = row.replaces
<1> TAKE row \in DispatchRow, st \in Status
<1> DEFINE r1 == [row EXCEPT !.status = st]
<1>1. r1 \in DispatchRow /\ r1.status = st /\ r1.schedule = row.schedule
      /\ r1.claimedBy = row.claimedBy /\ r1.replaces = row.replaces
  BY DEF DispatchRow
<1>2. FinishedRow(row, st) = [r1 EXCEPT !.expires = Never]
  BY DEF FinishedRow
<1> HIDE DEF r1
<1> QED
  BY <1>1, <1>2 DEF DispatchRow

\* Failing an expired row changes its status and clears its lease, nothing else
\* (requeue_expired_schedule_dispatches).
LEMMA FailedRowIs ==
  \A row \in DispatchRow :
     /\ FailedRow(row) \in DispatchRow
     /\ FailedRow(row).status = "failed"
     /\ FailedRow(row).schedule = row.schedule
     /\ FailedRow(row).claimedBy = row.claimedBy
     /\ FailedRow(row).replaces = row.replaces
<1> TAKE row \in DispatchRow
<1>1. "failed" \in Status
  BY DEF Status
<1> QED
  BY <1>1, FinishedRowIs DEF FailedRow

\* Claiming stamps the worker and the lease and keeps schedule and lineage
\* (_CLAIM_DISPATCH_SQL).
LEMMA ClaimedRowIs ==
  \A row \in DispatchRow, w \in Workers, t \in Time :
     /\ ClaimedRow(row, w, t) \in DispatchRow
     /\ ClaimedRow(row, w, t).status = "running"
     /\ ClaimedRow(row, w, t).claimedBy = WorkerId[w]
     /\ ClaimedRow(row, w, t).expires = t + Lease
     /\ ClaimedRow(row, w, t).schedule = row.schedule
     /\ ClaimedRow(row, w, t).replaces = row.replaces
<1> TAKE row \in DispatchRow, w \in Workers, t \in Time
<1> DEFINE r1 == [row EXCEPT !.status = "running"]
           r2 == [r1 EXCEPT !.claimedBy = WorkerId[w]]
<1>1. r1 \in DispatchRow /\ r1.status = "running" /\ r1.schedule = row.schedule
      /\ r1.replaces = row.replaces
  BY DEF DispatchRow, Status
<1>2. ClaimedRow(row, w, t) = [r2 EXCEPT !.expires = t + Lease]
  BY DEF ClaimedRow
<1> HIDE DEF r1
<1>3. r2 \in DispatchRow /\ r2.status = "running" /\ r2.schedule = row.schedule
      /\ r2.replaces = row.replaces /\ r2.claimedBy = WorkerId[w]
  BY <1>1, ConstantsOK DEF DispatchRow
<1>4. t + Lease \in Int
  BY ConstantsOK
<1> HIDE DEF r2
<1> QED
  BY <1>2, <1>3, <1>4 DEF DispatchRow

\* Whatever row an operator had read, the override writes a well formed one for the
\* same schedule (mark_schedule_dispatch_status).
LEMMA MarkedRowIs ==
  \A row \in DispatchRow, seen \in DispatchRow, st \in Status :
     /\ MarkedRow(row, seen, st) \in DispatchRow
     /\ MarkedRow(row, seen, st).status = st
     /\ MarkedRow(row, seen, st).schedule = row.schedule
     /\ MarkedRow(row, seen, st).replaces = row.replaces
<1> TAKE row \in DispatchRow, seen \in DispatchRow, st \in Status
<1> DEFINE c == IF st = "enqueued" THEN NoOne ELSE seen.claimedBy
           x == IF st = "running" THEN seen.expires ELSE Never
           r1 == [row EXCEPT !.status = st]
           r2 == [r1 EXCEPT !.claimedBy = c]
<1>1. r1 \in DispatchRow /\ r1.status = st /\ r1.schedule = row.schedule
      /\ r1.replaces = row.replaces
  BY DEF DispatchRow
<1>2. c \in WorkerIds \cup {NoOne} /\ x \in Int
  BY DEF DispatchRow
<1>3. MarkedRow(row, seen, st) = [r2 EXCEPT !.expires = x]
  BY DEF MarkedRow
<1> HIDE DEF r1, c, x
<1>4. r2 \in DispatchRow /\ r2.status = st /\ r2.schedule = row.schedule
      /\ r2.replaces = row.replaces
  BY <1>1, <1>2 DEF DispatchRow
<1> HIDE DEF r2
<1> QED
  BY <1>2, <1>3, <1>4 DEF DispatchRow

\* Every row that the schedule statements write is a schedule row.
LEMMA ScheduleRowTypes ==
  /\ \A row \in ScheduleRow, t \in Time :
        [row EXCEPT !.due = NextOccurrence[t]] \in ScheduleRow
  /\ \A row \in ScheduleRow, cap \in Caps, b \in BOOLEAN :
        UpdatedRow(row, cap, b) \in ScheduleRow
  /\ \A row \in ScheduleRow, b \in BOOLEAN : ArchivedRow(row, b) \in ScheduleRow
  /\ \A cap \in Caps, t \in Time : NewSchedule(cap, t) \in ScheduleRow
  /\ NoSchedule \in ScheduleRow
<1>1. ASSUME NEW row \in ScheduleRow, NEW t \in Time
      PROVE  [row EXCEPT !.due = NextOccurrence[t]] \in ScheduleRow
  BY ConstantsOK DEF ScheduleRow
<1>2. ASSUME NEW row \in ScheduleRow, NEW cap \in Caps, NEW b \in BOOLEAN
      PROVE  UpdatedRow(row, cap, b) \in ScheduleRow
  <2> DEFINE r1 == [row EXCEPT !.cap = cap]
  <2>1. r1 \in ScheduleRow
    BY ConstantsOK DEF ScheduleRow
  <2>2. UpdatedRow(row, cap, b) = [r1 EXCEPT !.enabled = b]
    BY DEF UpdatedRow
  <2> HIDE DEF r1
  <2> QED
    BY <2>1, <2>2 DEF ScheduleRow
<1>3. ASSUME NEW row \in ScheduleRow, NEW b \in BOOLEAN
      PROVE  ArchivedRow(row, b) \in ScheduleRow
  <2> DEFINE r1 == [row EXCEPT !.archived = b]
             e == row.enabled /\ ~b
  <2>1. r1 \in ScheduleRow /\ e \in BOOLEAN
    BY DEF ScheduleRow
  <2>2. ArchivedRow(row, b) = [r1 EXCEPT !.enabled = e]
    BY DEF ArchivedRow
  <2> HIDE DEF r1, e
  <2> QED
    BY <2>1, <2>2 DEF ScheduleRow
<1>4. ASSUME NEW cap \in Caps, NEW t \in Time
      PROVE  NewSchedule(cap, t) \in ScheduleRow
  BY ConstantsOK DEF NewSchedule, ScheduleRow
<1>5. NoSchedule \in ScheduleRow
  BY DEF NoSchedule, ScheduleRow
<1> QED
  BY <1>1, <1>2, <1>3, <1>4, <1>5

\* Writing one row well keeps the table well formed.
LEMMA WriteRowType ==
  ASSUME TypeInv, NEW d \in Dispatch, NEW r \in DispatchRow,
         r.schedule = dispatch[d].schedule, dispatch[d].status # "absent",
         r.status # "absent", dispatch' = [dispatch EXCEPT ![d] = r]
  PROVE  /\ dispatch' \in [Dispatch -> DispatchRow]
         /\ RowsHaveSchedule'
         /\ RowsStay
  BY DEF TypeInv, TypeOK, RowsHaveSchedule, RowsStay

\* Recovery keeps the table well formed and removes no row.
LEMMA RequeueType ==
  ASSUME TypeInv, NEW t \in Time, RequeueExpired(t)
  PROVE  /\ dispatch' \in [Dispatch -> DispatchRow]
         /\ RowsHaveSchedule'
         /\ RowsStay
<1> DEFINE rows == [d \in Dispatch |-> IF d \in Expired(t) THEN FailedRow(dispatch[d])
                                                         ELSE dispatch[d]]
           seeds == {[schedule |-> dispatch[d].schedule, replaces |-> d] : d \in Replaced(t)}
<1>1. \A d \in Expired(t) : d \in Dispatch /\ dispatch[d].schedule \in Schedules
  BY DEF Expired, TypeInv, RowsHaveSchedule
<1>2. rows \in [Dispatch -> DispatchRow]
  BY FailedRowIs DEF TypeInv, TypeOK
<1>3. ASSUME NEW d \in Dispatch, rows[d].status # "absent"
      PROVE  rows[d].schedule \in Schedules
  <2>1. CASE d \in Expired(t)
    BY <1>1, <2>1, FailedRowIs DEF TypeInv, TypeOK
  <2>2. CASE d \notin Expired(t)
    BY <1>3, <2>2 DEF TypeInv, RowsHaveSchedule
  <2> QED
    BY <2>1, <2>2
<1>8. \A d \in Dispatch : dispatch[d].status # "absent" => rows[d].status # "absent"
  BY FailedRowIs DEF TypeInv, TypeOK
<1>4. seeds \in SUBSET Seeds
  BY <1>1 DEF Seeds, Replaced
<1>5. dispatch' \in Inserting(rows, seeds, t)
  BY DEF RequeueExpired
<1> HIDE DEF rows, seeds
<1>6. /\ dispatch' \in [Dispatch -> DispatchRow]
      /\ \A d \in Dispatch : dispatch'[d] # rows[d] =>
            /\ dispatch[d].status = "absent"
            /\ dispatch'[d].status = "enqueued" /\ dispatch'[d].claimedBy = NoOne
            /\ [schedule |-> dispatch'[d].schedule, replaces |-> dispatch'[d].replaces] \in seeds
  BY <1>2, <1>4, <1>5, InsertingType
<1>7. \A d \in Dispatch : dispatch'[d] # rows[d] => dispatch'[d].schedule \in Schedules
  BY <1>4, <1>6 DEF Seeds
<1> QED
  BY <1>3, <1>6, <1>7, <1>8 DEF RowsHaveSchedule, RowsStay

\* So does the commit of an enqueueing or creating transaction, and the schedules
\* stay well formed.
LEMMA CommitType ==
  ASSUME TypeInv, NEW p \in Procs, Commit(p)
  PROVE  /\ schedule' \in [Schedules -> ScheduleRow]
         /\ dispatch' \in [Dispatch -> DispatchRow]
         /\ RowsHaveSchedule'
         /\ RowsStay
<1> DEFINE seeds == {[schedule |-> s, replaces |-> None] : s \in tx[p].chosen}
<1>1. tx[p] \in Tx
  BY DEF TypeInv, TypeOK
<1>2. seeds \in SUBSET Seeds /\ tx[p].asOf \in Time
  BY <1>1 DEF Seeds, Tx
<1>3. dispatch' \in Inserting(dispatch, seeds, tx[p].asOf)
  BY DEF Commit
<1> HIDE DEF seeds
<1>4. dispatch \in [Dispatch -> DispatchRow]
  BY DEF TypeInv, TypeOK
<1>5. /\ dispatch' \in [Dispatch -> DispatchRow]
      /\ \A d \in Dispatch : dispatch'[d] # dispatch[d] =>
            /\ dispatch[d].status = "absent"
            /\ dispatch'[d].status = "enqueued" /\ dispatch'[d].claimedBy = NoOne
            /\ [schedule |-> dispatch'[d].schedule, replaces |-> dispatch'[d].replaces] \in seeds
  BY <1>2, <1>3, <1>4, InsertingType
<1>6. \A d \in Dispatch : dispatch'[d] # dispatch[d] => dispatch'[d].schedule \in Schedules
  BY <1>2, <1>5 DEF Seeds
<1>7. schedule' \in [Schedules -> ScheduleRow]
  BY <1>2, ScheduleRowTypes DEF Commit, TypeInv, TypeOK
<1> QED
  BY <1>5, <1>6, <1>7 DEF TypeInv, RowsHaveSchedule, RowsStay

\* The type invariant holds initially.
LEMMA InitTypeInv == Init => TypeInv
<1> SUFFICES ASSUME Init PROVE TypeInv
  OBVIOUS
<1>1. schedule \in [Schedules -> ScheduleRow]
  <2>1. PICK cap \in [Schedules -> Caps] :
           schedule = [s \in Schedules |-> NewSchedule(cap[s], 0)]
    BY DEF Init
  <2>2. 0 \in Time
    BY ConstantsOK
  <2> QED
    BY <2>1, <2>2, ScheduleRowTypes
<1>2. Absent \in DispatchRow
  BY ConstantsOK DEF Absent, DispatchRow, Status
<1>3. NoTx \in Tx
  BY ConstantsOK DEF NoTx, Tx
<1>4. NoView \in View
  BY <1>2 DEF NoView, View, NoSchedule, ScheduleRow
<1> QED
  BY <1>1, <1>2, <1>3, <1>4, ConstantsOK
     DEF Init, TypeInv, TypeOK, RowsHaveSchedule, JobsMatchPC, PC, Busy, Absent

\* A step that leaves the workers' own fields alone.
LEMMA RowsChange ==
  ASSUME TypeInv, UNCHANGED process,
         schedule' \in [Schedules -> ScheduleRow], dispatch' \in [Dispatch -> DispatchRow],
         RowsHaveSchedule', tx' \in [Procs -> Tx], view' \in [Clients -> View],
         marked' \subseteq Dispatch, ops' \in 0..MaxOps, UNCHANGED <<crashes, clock>>
  PROVE  TypeInv'
<1>1. TypeOK'
  BY DEF TypeInv, TypeOK, process
<1>2. JobsMatchPC'
  BY DEF TypeInv, JobsMatchPC, process
<1> QED
  BY <1>1, <1>2 DEF TypeInv

\* A step of a worker that is not renewing a lease, and has a job afterwards
\* exactly if it is busy then.
LEMMA WorkerGoes ==
  ASSUME TypeInv, NEW w \in Workers, NEW label \in PC, NEW j \in Dispatch \cup {None},
         pc[w] # "working", pc' = [pc EXCEPT ![w] = label], job' = [job EXCEPT ![w] = j],
         j # None <=> label \in Busy,
         now' \in [Workers -> Time], tx' \in [Procs -> Tx],
         schedule' \in [Schedules -> ScheduleRow], dispatch' \in [Dispatch -> DispatchRow],
         RowsHaveSchedule',
         UNCHANGED <<renewer, outcome, shutdown, view, marked, ops, crashes, clock>>
  PROVE  TypeInv'
<1>1. /\ pc' \in [Workers -> PC] /\ pc'[w] = label
      /\ job' \in [Workers -> Dispatch \cup {None}] /\ job'[w] = j
      /\ \A v \in Workers \ {w} : pc'[v] = pc[v] /\ job'[v] = job[v]
  BY DEF TypeInv, TypeOK
<1>2. TypeOK'
  BY <1>1 DEF TypeInv, TypeOK
<1>3. JobsMatchPC'
  BY <1>1 DEF TypeInv, JobsMatchPC
<1> QED
  BY <1>2, <1>3 DEF TypeInv

\* A worker between two jobs goes on to its next one, or to none.
LEMMA WorkerWithoutJob ==
  ASSUME TypeInv, NEW w \in Workers, pc[w] \in PC \ Busy
  PROVE  job[w] = None /\ job = [job EXCEPT ![w] = None]
BY DEF TypeInv, TypeOK, JobsMatchPC

\* Looking at one due schedule keeps the transaction well formed.
LEMMA CheckType ==
  ASSUME TypeInv, NEW p \in Procs, EnqueueCheck(p)
  PROVE  tx' \in [Procs -> Tx]
<1>1. tx \in [Procs -> Tx] /\ tx[p] \in Tx
  BY DEF TypeInv, TypeOK
<1>2. PICK s \in tx[p].due :
         tx' = [tx EXCEPT ![p].due = @ \ {s},
                          ![p].chosen = IF Cardinality(Active(s)) >= tx[p].caps[s]
                                        THEN @ ELSE @ \cup {s}]
  BY DEF EnqueueCheck
<1>3. PICK chosen \in {tx[p].chosen, tx[p].chosen \cup {s}} :
         tx' = [tx EXCEPT ![p] = [tx[p] EXCEPT !.due = @ \ {s}, !.chosen = chosen]]
  BY <1>1, <1>2
<1>4. tx[p].due \ {s} \in SUBSET Schedules /\ chosen \in SUBSET Schedules
  BY <1>1, <1>2, <1>3 DEF Tx
<1>5. [tx[p] EXCEPT !.due = @ \ {s}, !.chosen = chosen] \in Tx
  BY <1>1, <1>4 DEF Tx
<1> QED
  BY <1>1, <1>3, <1>5

LEMMA RenewedRowIs ==
  ASSUME NEW row \in DispatchRow, NEW t \in Int
  PROVE  /\ [row EXCEPT !.expires = t] \in DispatchRow
         /\ [row EXCEPT !.expires = t].schedule = row.schedule
         /\ [row EXCEPT !.expires = t].status = row.status
BY DEF DispatchRow

\* The steps of the watch loop preserve the type invariant.
LEMMA WorkerTypeInv ==
  ASSUME TypeInv, NEW w \in Workers, Worker(w)
  PROVE  TypeInv'
<1> USE DEF TypeInv, TypeOK, RowsHaveSchedule, JobsMatchPC, PC, Busy, Goto, Rest, tables,
            process
<1>0. NoTx \in Tx /\ tx[w] \in Tx
  BY ConstantsOK DEF NoTx, Tx
<1>1. CASE StartIteration(w)
  <2>1. PICK label \in {"stopped", "recover"} : pc' = [pc EXCEPT ![w] = label]
    BY <1>1 DEF StartIteration
  <2>2. /\ pc[w] = "idle" /\ now' = [now EXCEPT ![w] = clock]
        /\ UNCHANGED <<tables, job, renewer, outcome, shutdown, Rest>>
    BY <1>1 DEF StartIteration
  <2> HIDE DEF TypeInv, TypeOK, JobsMatchPC
  <2>3. now' \in [Workers -> Time] /\ RowsHaveSchedule'
    BY <2>2 DEF TypeInv, TypeOK
  <2>4. job' = [job EXCEPT ![w] = None]
    BY <2>2, WorkerWithoutJob
  <2>5. /\ tx' \in [Procs -> Tx] /\ schedule' \in [Schedules -> ScheduleRow]
        /\ dispatch' \in [Dispatch -> DispatchRow]
    BY <2>2 DEF TypeInv, TypeOK
  <2>6. label \in PC \ Busy /\ pc[w] # "working"
    BY <2>2
  <2> HIDE DEF PC, Busy, RowsHaveSchedule, tables
  <2> QED
    BY <2>1, <2>2, <2>3, <2>4, <2>5, <2>6, WorkerGoes
<1>2. CASE Yield(w)
  BY <1>2 DEF Yield
<1>3. CASE BeginWork(w)
  <2>1. pc[w] = "claimed" /\ UNCHANGED <<tables, now, outcome, shutdown, Rest>>
    BY <1>3 DEF BeginWork
  <2>2. CASE Holds(w)
    <3>1. /\ pc' = [pc EXCEPT ![w] = "working"] /\ renewer' = [renewer EXCEPT ![w] = "on"]
          /\ UNCHANGED job
      BY <1>3, <2>2 DEF BeginWork
    <3> QED
      BY <2>1, <3>1
  <2>3. CASE ~Holds(w)
    <3>1. /\ pc' = [pc EXCEPT ![w] = "dead"] /\ job' = [job EXCEPT ![w] = None]
          /\ UNCHANGED renewer
      BY <1>3, <2>3 DEF BeginWork
    <3> QED
      BY <2>1, <3>1
  <2> QED
    BY <2>2, <2>3
<1>4. CASE EndWork(w)
  BY <1>4 DEF EndWork
<1>5. CASE Restart(w)
  BY <1>5 DEF Restart
<1>6. CASE Recover(w)
  <2>1. dispatch' \in [Dispatch -> DispatchRow] /\ RowsHaveSchedule' /\ RowsStay /\ UNCHANGED schedule
    BY <1>6, RequeueType DEF Recover, RequeueExpired
  <2>2. /\ pc[w] = "recover" /\ pc' = [pc EXCEPT ![w] = "enqueue"]
        /\ UNCHANGED <<now, job, renewer, outcome, shutdown, Rest>>
    BY <1>6 DEF Recover
  <2>3. /\ "enqueue" \in PC \ Busy /\ pc[w] \in PC \ Busy /\ pc[w] # "working"
    BY <2>2
  <2> HIDE DEF TypeInv, TypeOK, JobsMatchPC, PC, Busy, RowsHaveSchedule
  <2>4. job' = [job EXCEPT ![w] = None]
    BY <2>2, <2>3, WorkerWithoutJob
  <2>5. /\ now' \in [Workers -> Time] /\ tx' \in [Procs -> Tx]
        /\ schedule' \in [Schedules -> ScheduleRow]
    BY <2>1, <2>2 DEF TypeInv, TypeOK
  <2> QED
    BY <2>1, <2>2, <2>3, <2>4, <2>5, WorkerGoes
<1>7. CASE BeginEnqueue(w)
  BY <1>7, ConstantsOK DEF BeginEnqueue, EnqueueSelect, Tx, ScheduleRow
<1>8. CASE CheckDue(w)
  BY <1>8, CheckType DEF CheckDue
<1>9. CASE CommitEnqueue(w)
  <2>1. /\ schedule' \in [Schedules -> ScheduleRow]
        /\ dispatch' \in [Dispatch -> DispatchRow] /\ RowsHaveSchedule' /\ RowsStay
    BY <1>9, CommitType DEF CommitEnqueue
  <2> QED
    BY <1>0, <1>9, <2>1 DEF CommitEnqueue
<1>10. CASE AbortEnqueue(w)
  BY <1>0, <1>10 DEF AbortEnqueue
<1>11. CASE ClaimNext(w)
  <2>1. PICK d \in Oldest : ClaimRow(w, d, now[w]) /\ job' = [job EXCEPT ![w] = d]
    BY <1>11 DEF ClaimNext
  <2>2. d \in Dispatch /\ dispatch[d].status = "enqueued" /\ d # None
    BY <2>1 DEF Oldest, Enqueued
  <2>3. dispatch' \in [Dispatch -> DispatchRow] /\ RowsHaveSchedule' /\ RowsStay
    <3> DEFINE r == ClaimedRow(dispatch[d], w, now[w])
    <3>1. dispatch' = [dispatch EXCEPT ![d] = r]
      BY <2>1 DEF ClaimRow
    <3>2. r \in DispatchRow /\ r.status = "running" /\ r.schedule = dispatch[d].schedule
      BY <2>2, ClaimedRowIs
    <3> HIDE DEF r
    <3> QED
      BY <2>2, <3>1, <3>2, WriteRowType
  <2>4. /\ pc[w] = "claim" /\ pc' = [pc EXCEPT ![w] = "claimed"]
        /\ UNCHANGED <<schedule, now, renewer, outcome, shutdown, Rest>>
    BY <1>11 DEF ClaimNext
  <2>5. "claimed" \in PC /\ "claimed" \in Busy /\ pc[w] # "working"
    BY <2>4
  <2> HIDE DEF TypeInv, TypeOK, JobsMatchPC, PC, Busy, RowsHaveSchedule
  <2>6. /\ now' \in [Workers -> Time] /\ tx' \in [Procs -> Tx]
        /\ schedule' \in [Schedules -> ScheduleRow]
    BY <2>4 DEF TypeInv, TypeOK
  <2> QED
    BY <2>1, <2>2, <2>3, <2>4, <2>5, <2>6, WorkerGoes
<1>12. CASE ReportCompleted(w)
  <2>1. CASE Holds(w)
    <3>1. dispatch' = [dispatch EXCEPT ![job[w]] = FinishedRow(dispatch[job[w]], "completed")]
      BY <1>12, <2>1 DEF ReportCompleted, Finish
    <3>2. dispatch' \in [Dispatch -> DispatchRow] /\ RowsHaveSchedule' /\ RowsStay
      <4>1. job[w] \in Dispatch
        BY <1>12 DEF ReportCompleted
      <4> QED
        BY <2>1, <3>1, <4>1, FinishedRowIs, WriteRowType DEF Holds, Status
    <3>3. /\ pc[w] = "report" /\ pc' = [pc EXCEPT ![w] = "idle"]
          /\ job' = [job EXCEPT ![w] = None]
          /\ UNCHANGED <<schedule, now, renewer, outcome, shutdown, Rest>>
      BY <1>12, <2>1 DEF ReportCompleted
    <3>4. None \in Dispatch \cup {None} /\ "idle" \in PC \ Busy /\ pc[w] # "working"
      BY <3>3
    <3> HIDE DEF TypeInv, TypeOK, JobsMatchPC, PC, Busy, RowsHaveSchedule, None
    <3>5. /\ now' \in [Workers -> Time] /\ tx' \in [Procs -> Tx]
          /\ schedule' \in [Schedules -> ScheduleRow]
      BY <3>3 DEF TypeInv, TypeOK
    <3> QED
      BY <3>2, <3>3, <3>4, <3>5, WorkerGoes
  <2>2. CASE ~Holds(w)
    BY <1>12, <2>2 DEF ReportCompleted
  <2> QED
    BY <2>1, <2>2
<1>13. CASE ReportFailed(w)
  <2>1. CASE Holds(w)
    <3>1. dispatch' = [dispatch EXCEPT ![job[w]] = FinishedRow(dispatch[job[w]], "failed")]
      BY <1>13, <2>1 DEF ReportFailed, Finish
    <3>2. dispatch' \in [Dispatch -> DispatchRow] /\ RowsHaveSchedule' /\ RowsStay
      <4>1. job[w] \in Dispatch
        BY <1>13 DEF ReportFailed
      <4> QED
        BY <2>1, <3>1, <4>1, FinishedRowIs, WriteRowType DEF Holds, Status
    <3> QED
      BY <1>13, <3>2 DEF ReportFailed
  <2>2. CASE ~Holds(w)
    BY <1>13, <2>2 DEF ReportFailed
  <2> QED
    BY <2>1, <2>2
<1> QED
  BY <1>1, <1>2, <1>3, <1>4, <1>5, <1>6, <1>7, <1>8, <1>9, <1>10, <1>11, <1>12, <1>13 DEF Worker

\* The lease-renewal thread, signals, crashes and the one-shot worker command.
LEMMA OtherWorkerStepsTypeInv ==
  ASSUME TypeInv, NEW w \in Workers,
         \/ Renew(w) \/ RenewFails(w) \/ Shutdown(w) \/ Crash(w)
         \/ \E d \in Dispatch : ClaimById(w, d)
  PROVE  TypeInv'
<1> USE DEF TypeInv, TypeOK, RowsHaveSchedule, JobsMatchPC, PC, Busy, Goto, Rest, tables,
            process
<1>0. NoTx \in Tx
  BY ConstantsOK DEF NoTx, Tx
<1>1. CASE Renew(w)
  <2>1. job[w] \in Dispatch /\ clock + Lease \in Int
    BY <1>1, ConstantsOK DEF Renew
  <2>2. dispatch' \in [Dispatch -> DispatchRow] /\ RowsHaveSchedule' /\ RowsStay
    <3> DEFINE r == [dispatch[job[w]] EXCEPT !.expires = clock + Lease]
    <3>0. dispatch[job[w]] \in DispatchRow
      BY <2>1
    <3>1. r \in DispatchRow /\ r.schedule = dispatch[job[w]].schedule
          /\ r.status = dispatch[job[w]].status
      BY <2>1, <3>0, RenewedRowIs
    <3>2. dispatch' = [dispatch EXCEPT ![job[w]] = r] /\ dispatch[job[w]].status # "absent"
      BY <1>1 DEF Renew, Holds
    <3> HIDE DEF r
    <3> QED
      BY <2>1, <3>1, <3>2, WriteRowType
  <2>3. UNCHANGED <<schedule, process, tx, view, marked, ops, crashes, clock>>
    BY <1>1 DEF Renew
  <2>4. /\ schedule' \in [Schedules -> ScheduleRow] /\ tx' \in [Procs -> Tx]
        /\ view' \in [Clients -> View] /\ marked' \subseteq Dispatch /\ ops' \in 0..MaxOps
    BY <2>3
  <2> HIDE DEF TypeInv, TypeOK, JobsMatchPC, RowsHaveSchedule
  <2> QED
    BY <2>2, <2>3, <2>4, RowsChange
<1>2. CASE RenewFails(w)
  BY <1>2 DEF RenewFails
<1>3. CASE Shutdown(w)
  BY <1>3, ConstantsOK DEF Shutdown
<1>4. CASE Crash(w)
  BY <1>0, <1>4, ConstantsOK DEF Crash
<1>5. ASSUME NEW d \in Dispatch, ClaimById(w, d)
      PROVE  TypeInv'
  <2>1. dispatch' \in [Dispatch -> DispatchRow] /\ RowsHaveSchedule' /\ RowsStay
    <3> DEFINE r == ClaimedRow(dispatch[d], w, clock)
    <3>1. dispatch[d].status = "enqueued" /\ dispatch' = [dispatch EXCEPT ![d] = r]
      BY <1>5 DEF ClaimById, ClaimRow
    <3>2. dispatch[d] \in DispatchRow /\ clock \in Time
      OBVIOUS
    <3>3. r \in DispatchRow /\ r.status = "running" /\ r.schedule = dispatch[d].schedule
      BY <3>2, ClaimedRowIs
    <3> HIDE DEF r
    <3> QED
      BY <3>1, <3>3, WriteRowType
  <2> QED
    BY <1>5, <2>1 DEF ClaimById
<1> QED
  BY <1>1, <1>2, <1>3, <1>4, <1>5

\* The API requests and CLI commands preserve the type invariant.
LEMMA ClientTypeInv ==
  ASSUME TypeInv, MarksMatchRows, NEW c \in Clients, Client(c)
  PROVE  TypeInv'
<1> USE DEF TypeInv, TypeOK, RowsHaveSchedule, JobsMatchPC, Others, tables, process
<1>0. /\ NoTx \in Tx /\ tx[c] \in Tx /\ view[c] \in View
      /\ Absent \in DispatchRow /\ NoSchedule \in ScheduleRow /\ NoView \in View
  <2>1. NoTx \in Tx
    BY ConstantsOK DEF NoTx, Tx
  <2>2. Absent \in DispatchRow
    BY ConstantsOK DEF Absent, DispatchRow, Status
  <2>3. NoView \in View
    BY <2>2 DEF NoView, View, NoSchedule, ScheduleRow
  <2>4. NoSchedule \in ScheduleRow
    BY ScheduleRowTypes
  <2> QED
    BY <2>1, <2>2, <2>3, <2>4
<1>1. ASSUME NEW op, Begins(c, op)
      PROVE  ops' \in 0..MaxOps
  BY <1>1, ConstantsOK DEF Begins
<1>2. CASE EnqueueDue(c)
  BY <1>1, <1>2, ConstantsOK DEF EnqueueDue, EnqueueSelect, Tx, ScheduleRow
<1>3. ASSUME NEW s, s \in Schedules, CreateCheck(c, s, clock)
      PROVE  tx' \in [Procs -> Tx]
  <2> DEFINE new == [[NoTx EXCEPT !.kind = "create", !.asOf = clock] EXCEPT !.chosen = {s}]
  <2>1. tx' = [tx EXCEPT ![c] = new]
    BY <1>3 DEF CreateCheck
  <2>2. new \in Tx
    BY <1>0, <1>3, ConstantsOK DEF Tx, NoTx
  <2> HIDE DEF new
  <2> QED
    BY <2>1, <2>2
<1>4. CASE CreateDispatch(c)
  BY <1>1, <1>3, <1>4 DEF CreateDispatch
<1>5. CASE RetryDispatch(c)
  BY <1>1, <1>3, <1>5 DEF RetryDispatch, Terminal
<1>6. CASE CheckDue(c)
  BY <1>6, CheckType DEF CheckDue
<1>7. CASE CommitRequest(c)
  <2>1. CASE Committable(c)
    <3>1. /\ schedule' \in [Schedules -> ScheduleRow]
          /\ dispatch' \in [Dispatch -> DispatchRow] /\ RowsHaveSchedule' /\ RowsStay
      BY <1>7, <2>1, CommitType DEF CommitRequest
    <3>2. /\ tx' = [tx EXCEPT ![c] = NoTx]
          /\ UNCHANGED <<view, ops, process, marked, crashes, clock>>
      BY <1>7, <2>1 DEF CommitRequest
    <3>3. /\ tx' \in [Procs -> Tx] /\ view' \in [Clients -> View]
          /\ marked' \subseteq Dispatch /\ ops' \in 0..MaxOps
      BY <1>0, <3>2
    <3> HIDE DEF TypeInv, TypeOK, JobsMatchPC, RowsHaveSchedule
    <3> QED
      BY <3>1, <3>2, <3>3, RowsChange
  <2>2. CASE ~Committable(c)
    BY <1>0, <1>7, <2>2 DEF CommitRequest
  <2> QED
    BY <2>1, <2>2
<1>8. CASE RecoverStale(c)
  <2>1. dispatch' \in [Dispatch -> DispatchRow] /\ RowsHaveSchedule' /\ RowsStay /\ UNCHANGED schedule
    BY <1>8, RequeueType DEF RecoverStale, RequeueExpired
  <2> QED
    BY <1>1, <1>8, <2>1 DEF RecoverStale
<1>9. CASE ReadMark(c)
  <2>1. PICK d \in Dispatch :
          view' = [view EXCEPT ![c] = [NoView EXCEPT !.kind = "mark", !.dispatch = d,
                                                     !.row = dispatch[d]]]
    BY <1>9 DEF ReadMark
  <2> DEFINE new == [[NoView EXCEPT !.kind = "mark", !.dispatch = d] EXCEPT !.row = dispatch[d]]
  <2>2. new \in View
    BY <1>0 DEF View, NoView
  <2>3. view' = [view EXCEPT ![c] = new]
    BY <2>1
  <2> HIDE DEF new
  <2> QED
    BY <1>1, <1>9, <2>2, <2>3 DEF ReadMark
<1>10. CASE WriteMark(c)
  <2> DEFINE d == view[c].dispatch
  <2>1. PICK st \in Status \ {"absent"} :
           dispatch' = [dispatch EXCEPT ![d] = MarkedRow(dispatch[d], view[c].row, st)]
    BY <1>10 DEF WriteMark
  <2>2. d \in Dispatch /\ dispatch[d].status # "absent" /\ view[c].row \in DispatchRow
    BY <1>0, <1>10 DEF WriteMark, View, MarksMatchRows
  <2>3. /\ view' = [view EXCEPT ![c] = NoView] /\ marked' = marked \cup {d}
        /\ UNCHANGED <<schedule, process, tx, ops, crashes, clock>>
    BY <1>10 DEF WriteMark
  <2>4. NoView.kind = "none"
    BY DEF NoView
  <2> HIDE DEF d
  <2>5. dispatch' \in [Dispatch -> DispatchRow] /\ RowsHaveSchedule' /\ RowsStay
    <3> DEFINE seen == view[c].row
               r == MarkedRow(dispatch[d], seen, st)
    <3>0. /\ dispatch[d] \in DispatchRow /\ seen \in DispatchRow
          /\ st \in Status /\ st # "absent"
      BY <2>1, <2>2
    <3> HIDE DEF seen, TypeInv, TypeOK, RowsHaveSchedule, JobsMatchPC
    <3>1. r \in DispatchRow /\ r.status = st /\ r.schedule = dispatch[d].schedule
      BY <3>0, MarkedRowIs, Zenon
    <3> HIDE DEF r
    <3>2. r \in DispatchRow /\ r.status # "absent" /\ r.schedule = dispatch[d].schedule
      BY <3>0, <3>1
    <3>3. dispatch' = [dispatch EXCEPT ![d] = r]
      BY <2>1 DEF r, seen
    <3> QED
      BY <2>2, <3>2, <3>3, WriteRowType
  <2>6. /\ schedule' \in [Schedules -> ScheduleRow] /\ tx' \in [Procs -> Tx]
        /\ view' \in [Clients -> View] /\ marked' \subseteq Dispatch /\ ops' \in 0..MaxOps
    BY <1>0, <2>2, <2>3
  <2> HIDE DEF TypeInv, TypeOK, JobsMatchPC, RowsHaveSchedule
  <2> QED
    BY <2>3, <2>5, <2>6, RowsChange
<1>11. CASE CreateSchedule(c)
  BY <1>1, <1>11, ScheduleRowTypes DEF CreateSchedule
<1>12. CASE ReadUpdate(c)
  <2>1. PICK s \in Schedules :
          view' = [view EXCEPT ![c] = [NoView EXCEPT !.kind = "update", !.schedule = s,
                                                     !.was = schedule[s]]]
    BY <1>12 DEF ReadUpdate
  <2> DEFINE new == [[NoView EXCEPT !.kind = "update", !.schedule = s] EXCEPT !.was = schedule[s]]
  <2>2. new \in View
    BY <1>0 DEF View, NoView
  <2>3. view' = [view EXCEPT ![c] = new]
    BY <2>1
  <2> HIDE DEF new
  <2> QED
    BY <1>1, <1>12, <2>2, <2>3 DEF ReadUpdate
<1>13. CASE WriteUpdate(c)
  <2>1. PICK cap \in Caps, enabled \in BOOLEAN :
           schedule' = IF schedule[view[c].schedule].exists
                       THEN [schedule EXCEPT ![view[c].schedule] =
                                UpdatedRow(view[c].was, cap, enabled)]
                       ELSE schedule
    BY <1>13 DEF WriteUpdate
  <2>2. UpdatedRow(view[c].was, cap, enabled) \in ScheduleRow
    BY <1>0, ScheduleRowTypes DEF View
  <2>3. schedule' \in [Schedules -> ScheduleRow]
    BY <2>1, <2>2
  <2> QED
    BY <1>0, <1>13, <2>3 DEF WriteUpdate
<1>14. CASE SetArchived(c)
  BY <1>1, <1>14, ScheduleRowTypes DEF SetArchived
<1>15. CASE ReadDelete(c)
  <2>1. PICK s \in Schedules :
          view' = [view EXCEPT ![c] = [NoView EXCEPT !.kind = "delete", !.schedule = s]]
    BY <1>15 DEF ReadDelete
  <2>2. [NoView EXCEPT !.kind = "delete", !.schedule = s] \in View
    BY <1>0 DEF View, NoView
  <2> QED
    BY <1>1, <1>15, <2>1, <2>2 DEF ReadDelete
<1>16. CASE WriteDelete(c)
  <2>1. schedule' \in [Schedules -> ScheduleRow]
    BY <1>0, <1>16 DEF WriteDelete
  <2> QED
    BY <1>0, <1>16, <2>1 DEF WriteDelete
<1> QED
  BY <1>2, <1>4, <1>5, <1>6, <1>7, <1>8, <1>9, <1>10, <1>11, <1>12, <1>13, <1>14, <1>15,
     <1>16 DEF Client

-----------------------------------------------------------------------------
(* What a step can do to the rows and to the jobs *)

Created(d) ==
  /\ dispatch[d].status = "absent" /\ dispatch'[d].status = "enqueued"
  /\ dispatch'[d].claimedBy = NoOne

Claimed(d) ==
  /\ dispatch[d].status = "enqueued" /\ dispatch'[d].status = "running"
  /\ dispatch'[d].claimedBy \in WorkerIds /\ dispatch'[d].expires # Never
  /\ dispatch'[d].replaces = dispatch[d].replaces

Renewed(d) ==
  /\ dispatch[d].status = "running" /\ dispatch'[d].status = "running"
  /\ dispatch'[d].claimedBy = dispatch[d].claimedBy /\ dispatch'[d].expires # Never
  /\ dispatch'[d].replaces = dispatch[d].replaces

Ended(d) ==
  /\ dispatch[d].status = "running"
  /\ \/ dispatch'[d].status = "failed"
     \/ /\ dispatch'[d].status = "completed"
        /\ \E w \in Workers : job[w] = d /\ job'[w] = None
  /\ dispatch'[d].claimedBy = dispatch[d].claimedBy
  /\ dispatch'[d].replaces = dispatch[d].replaces

Overridden(d) ==
  /\ marked' = marked \cup {d}
  /\ dispatch[d].status # "absent" /\ dispatch'[d].status # "absent"
  /\ dispatch'[d].replaces = dispatch[d].replaces

RowStep(d) ==
  dispatch'[d] = dispatch[d] \/ Created(d) \/ Claimed(d) \/ Renewed(d) \/ Ended(d) \/ Overridden(d)

\* A row created as a replacement replaces a row that fails in the same step, and
\* no other row created in that step replaces it.
HeirsStep ==
  \A d \in Dispatch : Created(d) /\ dispatch'[d].replaces # None =>
     /\ dispatch'[d].replaces \in Dispatch
     /\ dispatch[dispatch'[d].replaces].status = "running"
     /\ dispatch'[dispatch'[d].replaces].status = "failed"
     /\ \A e \in Dispatch : Created(e) /\ dispatch'[e].replaces = dispatch'[d].replaces => e = d

\* The jobs of the workers: kept, dropped, or taken from the queue.
JobStep ==
  \/ job' = job
  \/ \E w \in Workers : job' = [job EXCEPT ![w] = None]
  \/ \E w \in Workers, d \in Dispatch :
        /\ job' = [job EXCEPT ![w] = d]
        /\ dispatch[d].status = "enqueued"
        /\ dispatch'[d].status = "running" /\ dispatch'[d].claimedBy = WorkerId[w]

\* Which rows a step touches together: one; new rows that replace nothing; or rows
\* that fail and new ones that replace some of them.
Alone(d) == \A e \in Dispatch : e # d => dispatch'[e] = dispatch[e]
Issued(d) == Created(d) /\ dispatch'[d].replaces = None
Replacing(d) == Created(d) /\ dispatch'[d].replaces # None
Failed(d) == Ended(d) /\ dispatch'[d].status = "failed"

RowMove ==
  \/ \A d \in Dispatch : dispatch'[d] = dispatch[d] \/ Issued(d)
  \/ \A d \in Dispatch : dispatch'[d] = dispatch[d] \/ Replacing(d) \/ Failed(d)
  \/ \E d \in Dispatch : Alone(d) /\ (Claimed(d) \/ Renewed(d) \/ Ended(d) \/ Overridden(d))

\* Only an override marks a dispatch.
MarkStep == marked' = marked \/ \E d \in Dispatch : Alone(d) /\ Overridden(d)

\* Only a new row comes to a schedule: to one that is open, or that a transaction
\* has chosen.
Origins ==
  \A d \in Dispatch : dispatch'[d].schedule # dispatch[d].schedule =>
    /\ Created(d)
    /\ \/ \E s \in Schedules : s = dispatch'[d].schedule /\ Open(s)
       \/ \E p \in Procs : dispatch'[d].schedule \in tx[p].chosen

\* All that a step does to the dispatches.
RowsStep == (\A d \in Dispatch : RowStep(d)) /\ HeirsStep /\ RowMove /\ Origins

Step == RowsStep /\ JobStep /\ MarkStep

\* A step that leaves the dispatches alone is a permitted step of every row.
LEMMA StillRows ==
  ASSUME TypeInv, dispatch' = dispatch
  PROVE  RowsStep
BY DEF RowsStep, RowStep, HeirsStep, RowMove, Origins, Created

\* A step that writes one existing row well is a permitted step of every row.
LEMMA OneRow ==
  ASSUME TypeInv, NEW d \in Dispatch, NEW r, dispatch' = [dispatch EXCEPT ![d] = r],
         dispatch[d].status # "absent", RowStep(d), r.schedule = dispatch[d].schedule
  PROVE  RowsStep /\ Alone(d)
<1>1. Alone(d) /\ \A e \in Dispatch : e # d => dispatch'[e] = dispatch[e]
  BY DEF TypeInv, TypeOK, Alone
<1>2. \A e \in Dispatch : RowStep(e)
  BY <1>1 DEF RowStep
<1>3. \A e \in Dispatch : ~Created(e)
  BY <1>1 DEF Created
<1>4. RowMove
  BY <1>1, <1>3 DEF RowMove, RowStep
<1>5. Origins
  BY <1>1 DEF Origins, TypeInv, TypeOK
<1> QED
  BY <1>1, <1>2, <1>3, <1>4, <1>5 DEF RowsStep, HeirsStep

\* Recovery takes expired running rows to failed, and each new row replaces a
\* different one of them.
LEMMA RequeueParts ==
  ASSUME TypeInv, NEW t \in Time, RequeueExpired(t)
  PROVE  /\ \A d \in Expired(t) :
              Failed(d) /\ dispatch'[d].schedule = dispatch[d].schedule
         /\ \A d \in Dispatch \ Expired(t) : dispatch'[d] = dispatch[d] \/ Created(d)
         /\ \A d \in Dispatch : Created(d) =>
              /\ dispatch'[d].replaces \in Replaced(t)
              /\ dispatch'[d].schedule = dispatch[dispatch'[d].replaces].schedule
         /\ \A d, e \in Dispatch :
              Created(d) /\ Created(e) /\ dispatch'[d].replaces = dispatch'[e].replaces => d = e
<1> DEFINE rows == [d \in Dispatch |-> IF d \in Expired(t) THEN FailedRow(dispatch[d])
                                                         ELSE dispatch[d]]
           seeds == {[schedule |-> dispatch[d].schedule, replaces |-> d] : d \in Replaced(t)}
<1>1. \A d \in Expired(t) : /\ d \in Dispatch /\ dispatch[d].schedule \in Schedules
                            /\ dispatch[d].status = "running"
  BY DEF Expired, TypeInv, RowsHaveSchedule
<1>2. rows \in [Dispatch -> DispatchRow]
  BY FailedRowIs DEF TypeInv, TypeOK
<1>3. ASSUME NEW d \in Expired(t)
      PROVE  /\ rows[d].status = "failed" /\ rows[d].replaces = dispatch[d].replaces
             /\ rows[d].claimedBy = dispatch[d].claimedBy
             /\ rows[d].schedule = dispatch[d].schedule
  BY <1>1, FailedRowIs DEF TypeInv, TypeOK
<1>4. \A d \in Dispatch \ Expired(t) : rows[d] = dispatch[d]
  OBVIOUS
<1>5. seeds \in SUBSET Seeds
  BY <1>1 DEF Seeds, Replaced
<1>6. ASSUME NEW seed \in seeds
      PROVE  /\ seed.replaces \in Replaced(t)
             /\ seed.schedule = dispatch[seed.replaces].schedule
  OBVIOUS
<1>7. dispatch' \in Inserting(rows, seeds, t)
  BY DEF RequeueExpired
<1> HIDE DEF rows, seeds
<1>8a. \A d \in Dispatch : dispatch'[d] # rows[d] =>
            /\ dispatch[d].status = "absent"
            /\ dispatch'[d].status = "enqueued" /\ dispatch'[d].claimedBy = NoOne
            /\ [schedule |-> dispatch'[d].schedule, replaces |-> dispatch'[d].replaces] \in seeds
  BY <1>2, <1>5, <1>7, InsertingType
<1>8b. ASSUME NEW d \in Dispatch, NEW e \in Dispatch,
              dispatch'[d] # rows[d], dispatch'[e] # rows[e],
              dispatch'[d].schedule = dispatch'[e].schedule,
              dispatch'[d].replaces = dispatch'[e].replaces
       PROVE  d = e
  BY <1>2, <1>5, <1>7, <1>8b, InsertingOnce
<1>9. ASSUME NEW d \in Expired(t)
      PROVE  Failed(d) /\ dispatch'[d].schedule = dispatch[d].schedule
  <2>1. dispatch'[d] = rows[d]
    BY <1>1, <1>8a, <1>9
  <2> QED
    BY <1>1, <1>3, <1>9, <2>1 DEF Failed, Ended
<1>10. ASSUME NEW d \in Dispatch \ Expired(t)
       PROVE  dispatch'[d] = dispatch[d] \/ Created(d)
  BY <1>4, <1>8a DEF Created
<1>11. ASSUME NEW d \in Dispatch, Created(d)
       PROVE  /\ dispatch'[d] # rows[d]
              /\ dispatch'[d].replaces \in Replaced(t)
              /\ dispatch'[d].schedule = dispatch[dispatch'[d].replaces].schedule
  <2>1. dispatch'[d] # rows[d]
    <3>1. d \notin Expired(t)
      BY <1>1, <1>11 DEF Created
    <3> QED
      BY <1>4, <1>11, <3>1 DEF Created
  <2> DEFINE seed == [schedule |-> dispatch'[d].schedule, replaces |-> dispatch'[d].replaces]
  <2>2. seed \in seeds
    BY <1>8a, <2>1
  <2>3. seed.replaces = dispatch'[d].replaces /\ seed.schedule = dispatch'[d].schedule
    OBVIOUS
  <2> HIDE DEF seed
  <2> QED
    BY <1>6, <2>1, <2>2, <2>3
<1>12. ASSUME NEW d \in Dispatch, NEW e \in Dispatch, Created(d), Created(e),
              dispatch'[d].replaces = dispatch'[e].replaces
       PROVE  d = e
  BY <1>8b, <1>11, <1>12
<1> QED
  BY <1>9, <1>10, <1>11, <1>12

\* So recovery is a permitted step of every row.
LEMMA RequeueRows ==
  ASSUME TypeInv, NEW t \in Time, RequeueExpired(t)
  PROVE  RowsStep
<1>1. /\ \A d \in Expired(t) :
           Failed(d) /\ dispatch'[d].schedule = dispatch[d].schedule
      /\ \A d \in Dispatch \ Expired(t) : dispatch'[d] = dispatch[d] \/ Created(d)
      /\ \A d \in Dispatch : Created(d) =>
           /\ dispatch'[d].replaces \in Replaced(t)
           /\ dispatch'[d].schedule = dispatch[dispatch'[d].replaces].schedule
      /\ \A d, e \in Dispatch :
           Created(d) /\ Created(e) /\ dispatch'[d].replaces = dispatch'[e].replaces => d = e
  BY RequeueParts
<1>2. /\ Replaced(t) \subseteq Expired(t) /\ Expired(t) \subseteq Dispatch
      /\ \A d \in Replaced(t) : Open(dispatch[d].schedule)
      /\ \A d \in Expired(t) : dispatch[d].schedule \in Schedules
  BY DEF Replaced, Expired, TypeInv, RowsHaveSchedule
<1>3. HeirsStep
  BY <1>1, <1>2 DEF HeirsStep, Failed, Ended
<1>4. \A d \in Dispatch : Created(d) => Replacing(d)
  BY <1>1, <1>2 DEF Replacing
<1>5. (\A d \in Dispatch : RowStep(d)) /\ RowMove
  BY <1>1, <1>4 DEF RowMove, RowStep, Failed
<1>6. Origins
  <2> SUFFICES ASSUME NEW d \in Dispatch, dispatch'[d].schedule # dispatch[d].schedule
               PROVE  Created(d) /\ \E s \in Schedules : s = dispatch'[d].schedule /\ Open(s)
    BY DEF Origins
  <2>1. Created(d)
    BY <1>1
  <2>2. PICK o \in Replaced(t) : o = dispatch'[d].replaces
    BY <1>1, <2>1
  <2>3. PICK s \in Schedules : s = dispatch[o].schedule /\ Open(s)
    BY <1>2
  <2> QED
    BY <1>1, <2>1, <2>2, <2>3
<1> QED
  BY <1>3, <1>5, <1>6 DEF RowsStep

\* A commit only inserts rows that replace nothing.
LEMMA CommitRows ==
  ASSUME TypeInv, NEW p \in Procs, Commit(p)
  PROVE  RowsStep
<1> DEFINE seeds == {[schedule |-> s, replaces |-> None] : s \in tx[p].chosen}
<1>1. tx[p] \in Tx /\ dispatch \in [Dispatch -> DispatchRow]
  BY DEF TypeInv, TypeOK
<1>2. seeds \in SUBSET Seeds /\ tx[p].asOf \in Time
  BY <1>1 DEF Seeds, Tx
<1>3. dispatch' \in Inserting(dispatch, seeds, tx[p].asOf)
  BY DEF Commit
<1>4. \A seed \in seeds : seed.replaces = None /\ seed.schedule \in tx[p].chosen
  OBVIOUS
<1> HIDE DEF seeds
<1>5. \A d \in Dispatch : dispatch'[d] # dispatch[d] =>
            /\ dispatch[d].status = "absent"
            /\ dispatch'[d].status = "enqueued" /\ dispatch'[d].claimedBy = NoOne
            /\ [schedule |-> dispatch'[d].schedule, replaces |-> dispatch'[d].replaces] \in seeds
  BY <1>1, <1>2, <1>3, InsertingType
<1>6. ASSUME NEW d \in Dispatch, Created(d)
      PROVE  dispatch'[d].replaces = None
  <2> DEFINE seed == [schedule |-> dispatch'[d].schedule, replaces |-> dispatch'[d].replaces]
  <2>1. seed \in seeds
    BY <1>5, <1>6 DEF Created
  <2>2. seed.replaces = dispatch'[d].replaces
    OBVIOUS
  <2> HIDE DEF seed
  <2> QED
    BY <1>4, <2>1, <2>2
<1>7. \A d \in Dispatch : dispatch'[d] = dispatch[d] \/ Issued(d)
  BY <1>5, <1>6 DEF Issued, Created
<1>8. (\A d \in Dispatch : RowStep(d)) /\ RowMove
  BY <1>7 DEF RowMove, RowStep, Issued
<1>9. Origins
  <2> SUFFICES ASSUME NEW d \in Dispatch, dispatch'[d].schedule # dispatch[d].schedule
               PROVE  Created(d) /\ dispatch'[d].schedule \in tx[p].chosen
    BY DEF Origins
  <2> DEFINE seed == [schedule |-> dispatch'[d].schedule, replaces |-> dispatch'[d].replaces]
  <2>1. seed \in seeds /\ seed.schedule = dispatch'[d].schedule
    BY <1>5
  <2> HIDE DEF seed
  <2>2. Created(d)
    BY <1>5 DEF Created
  <2> QED
    BY <1>4, <2>1, <2>2
<1> QED
  BY <1>6, <1>8, <1>9 DEF RowsStep, HeirsStep

\* A claim takes one row from the queue and gives it to the claiming worker.
LEMMA ClaimRowStep ==
  ASSUME TypeInv, NEW w \in Workers, NEW d \in Dispatch, NEW t \in Time,
         dispatch[d].status = "enqueued", ClaimRow(w, d, t)
  PROVE  /\ RowsStep
         /\ dispatch'[d].status = "running"
         /\ dispatch'[d].claimedBy = WorkerId[w]
<1> DEFINE r == ClaimedRow(dispatch[d], w, t)
<1>1. dispatch[d] \in DispatchRow
  BY DEF TypeInv, TypeOK
<1>2. /\ r.status = "running" /\ r.claimedBy = WorkerId[w]
      /\ r.expires = t + Lease /\ r.replaces = dispatch[d].replaces
      /\ r.schedule = dispatch[d].schedule
  BY <1>1, ClaimedRowIs
<1>3. dispatch' = [dispatch EXCEPT ![d] = r]
  BY DEF ClaimRow
<1> HIDE DEF r
<1>4. dispatch'[d] = r
  BY <1>3 DEF TypeInv, TypeOK
<1>5. r.expires # Never /\ r.claimedBy \in WorkerIds
  BY <1>2, ConstantsOK
<1>6. RowStep(d)
  BY <1>2, <1>4, <1>5 DEF RowStep, Claimed
<1> QED
  BY <1>2, <1>3, <1>4, <1>6, OneRow

\* A finish under both expectations ends a row that its worker still holds.
LEMMA FinishRowStep ==
  ASSUME TypeInv, NEW w \in Workers, NEW st \in {"completed", "failed"},
         job[w] \in Dispatch, Holds(w), Finish(w, st), job' = [job EXCEPT ![w] = None]
  PROVE  RowsStep
<1> DEFINE d == job[w]
           r == FinishedRow(dispatch[d], st)
<1>1. dispatch[d] \in DispatchRow /\ st \in Status /\ dispatch[d].status = "running"
  BY DEF TypeInv, TypeOK, Status, Holds
<1>2. r.status = st /\ r.replaces = dispatch[d].replaces /\ r.schedule = dispatch[d].schedule
  BY <1>1, FinishedRowIs
<1>3. dispatch' = [dispatch EXCEPT ![d] = r]
  BY DEF Finish
<1>4. job'[w] = None
  BY DEF TypeInv, TypeOK
<1> HIDE DEF r
<1>5. dispatch'[d] = r
  BY <1>3 DEF TypeInv, TypeOK
<1>6. RowStep(d)
  <2>1. r.claimedBy = dispatch[d].claimedBy
    BY <1>1, FinishedRowIs DEF r
  <2> QED
    BY <1>1, <1>2, <1>4, <1>5, <2>1 DEF RowStep, Ended
<1> QED
  BY <1>1, <1>2, <1>3, <1>6, OneRow

\* Every step of the watch loop is permitted for every row, job and lineage.
LEMMA WorkerStep ==
  ASSUME TypeInv, NEW w \in Workers, Worker(w)
  PROVE  Step
<1> USE DEF tables, process, Rest, Step, JobStep, MarkStep
<1>0. job \in [Workers -> Dispatch \cup {None}]
  BY DEF TypeInv, TypeOK
<1>1. CASE StartIteration(w)
  BY <1>1, StillRows DEF StartIteration
<1>2. CASE Yield(w)
  BY <1>2, StillRows DEF Yield
<1>3. CASE BeginWork(w)
  BY <1>3, StillRows DEF BeginWork
<1>4. CASE EndWork(w)
  BY <1>4, StillRows DEF EndWork
<1>5. CASE Restart(w)
  BY <1>5, StillRows DEF Restart
<1>6. CASE Recover(w)
  <2>1. now[w] \in Time
    BY DEF TypeInv, TypeOK
  <2> QED
    BY <1>6, <2>1, RequeueRows DEF Recover
<1>7. CASE BeginEnqueue(w)
  BY <1>7, StillRows DEF BeginEnqueue
<1>8. CASE CheckDue(w)
  BY <1>8, StillRows DEF CheckDue
<1>9. CASE CommitEnqueue(w)
  BY <1>9, CommitRows DEF CommitEnqueue
<1>10. CASE AbortEnqueue(w)
  BY <1>10, StillRows DEF AbortEnqueue
<1>11. CASE ClaimNext(w)
  <2>1. PICK d \in Oldest : ClaimRow(w, d, now[w]) /\ job' = [job EXCEPT ![w] = d]
    BY <1>11 DEF ClaimNext
  <2>2. d \in Dispatch /\ dispatch[d].status = "enqueued" /\ now[w] \in Time
    BY <2>1 DEF Oldest, Enqueued, TypeInv, TypeOK
  <2>3. RowsStep /\ dispatch'[d].status = "running"
        /\ dispatch'[d].claimedBy = WorkerId[w]
    BY <2>1, <2>2, ClaimRowStep
  <2> QED
    BY <1>11, <2>1, <2>2, <2>3 DEF ClaimNext
<1>12. CASE ReportCompleted(w)
  <2>1. CASE Holds(w)
    <3>1. Finish(w, "completed") /\ job[w] \in Dispatch /\ job' = [job EXCEPT ![w] = None]
      BY <1>0, <1>12, <2>1 DEF ReportCompleted, TypeInv, JobsMatchPC, Busy
    <3>2. RowsStep
      BY <2>1, <3>1, FinishRowStep
    <3> QED
      BY <1>12, <3>1, <3>2 DEF ReportCompleted
  <2>2. CASE ~Holds(w)
    BY <1>12, <2>2, StillRows DEF ReportCompleted
  <2> QED
    BY <2>1, <2>2
<1>13. CASE ReportFailed(w)
  <2>1. CASE Holds(w)
    <3>1. Finish(w, "failed") /\ job[w] \in Dispatch /\ job' = [job EXCEPT ![w] = None]
      BY <1>0, <1>13, <2>1 DEF ReportFailed, TypeInv, JobsMatchPC, Busy
    <3>2. RowsStep
      BY <2>1, <3>1, FinishRowStep
    <3> QED
      BY <1>13, <3>1, <3>2 DEF ReportFailed
  <2>2. CASE ~Holds(w)
    BY <1>13, <2>2, StillRows DEF ReportFailed
  <2> QED
    BY <2>1, <2>2
<1> QED
  BY <1>1, <1>2, <1>3, <1>4, <1>5, <1>6, <1>7, <1>8, <1>9, <1>10, <1>11, <1>12, <1>13 DEF Worker

\* So are renewals, signals, crashes and the one-shot worker command.
LEMMA OtherWorkerStep ==
  ASSUME TypeInv, NEW w \in Workers,
         \/ Renew(w) \/ RenewFails(w) \/ Shutdown(w) \/ Crash(w)
         \/ \E d \in Dispatch : ClaimById(w, d)
  PROVE  Step
<1> USE DEF tables, process, Rest, Step, JobStep, MarkStep
<1>1. CASE Renew(w)
  <2>1. job[w] \in Dispatch /\ Holds(w)
    BY <1>1 DEF Renew, TypeInv, TypeOK, JobsMatchPC, Busy
  <2> DEFINE r == [dispatch[job[w]] EXCEPT !.expires = clock + Lease]
  <2>2. dispatch' = [dispatch EXCEPT ![job[w]] = r]
    BY <1>1 DEF Renew
  <2>3. /\ r.status = dispatch[job[w]].status /\ r.claimedBy = dispatch[job[w]].claimedBy
        /\ r.replaces = dispatch[job[w]].replaces /\ r.expires # Never
        /\ r.schedule = dispatch[job[w]].schedule
    BY <2>1, ConstantsOK DEF TypeInv, TypeOK, DispatchRow
  <2> HIDE DEF r
  <2>4. dispatch'[job[w]] = r /\ dispatch[job[w]].status = "running"
    BY <2>1, <2>2 DEF TypeInv, TypeOK, Holds
  <2>5. RowStep(job[w])
    BY <2>3, <2>4 DEF RowStep, Renewed
  <2> QED
    BY <1>1, <2>1, <2>2, <2>3, <2>4, <2>5, OneRow DEF Renew
<1>2. CASE RenewFails(w)
  BY <1>2, StillRows DEF RenewFails
<1>3. CASE Shutdown(w)
  BY <1>3, StillRows DEF Shutdown
<1>4. CASE Crash(w)
  BY <1>4, StillRows DEF Crash
<1>5. ASSUME NEW d \in Dispatch, ClaimById(w, d)
      PROVE  Step
  <2>1. dispatch[d].status = "enqueued" /\ clock \in Time /\ ClaimRow(w, d, clock)
    BY <1>5 DEF ClaimById, TypeInv, TypeOK
  <2>2. RowsStep /\ dispatch'[d].status = "running"
        /\ dispatch'[d].claimedBy = WorkerId[w]
    BY <2>1, ClaimRowStep
  <2> QED
    BY <1>5, <2>1, <2>2 DEF ClaimById
<1> QED
  BY <1>1, <1>2, <1>3, <1>4, <1>5

\* So are the requests, which may break the rules only for rows they mark.
LEMMA ClientStep ==
  ASSUME TypeInv, MarksMatchRows, NEW c \in Clients, Client(c)
  PROVE  Step
<1> USE DEF tables, process, Others, Step, JobStep, MarkStep
<1>1. CASE EnqueueDue(c) \/ CreateDispatch(c) \/ RetryDispatch(c) \/ CheckDue(c)
           \/ ReadMark(c) \/ CreateSchedule(c) \/ ReadUpdate(c) \/ WriteUpdate(c)
           \/ SetArchived(c) \/ ReadDelete(c) \/ WriteDelete(c)
  BY <1>1, StillRows DEF EnqueueDue, CreateDispatch, RetryDispatch, CheckDue, ReadMark,
     CreateSchedule, ReadUpdate, WriteUpdate, SetArchived, ReadDelete, WriteDelete
<1>2. CASE CommitRequest(c)
  <2>1. CASE Committable(c)
    BY <1>2, <2>1, CommitRows DEF CommitRequest
  <2>2. CASE ~Committable(c)
    BY <1>2, <2>2, StillRows DEF CommitRequest
  <2> QED
    BY <2>1, <2>2
<1>3. CASE RecoverStale(c)
  <2>1. clock \in Time
    BY DEF TypeInv, TypeOK
  <2> QED
    BY <1>3, <2>1, RequeueRows DEF RecoverStale
<1>4. CASE WriteMark(c)
  <2> DEFINE d == view[c].dispatch
             seen == view[c].row
  <2>1. PICK st \in Status \ {"absent"} :
           dispatch' = [dispatch EXCEPT ![d] = MarkedRow(dispatch[d], seen, st)]
    BY <1>4 DEF WriteMark
  <2>2. /\ d \in Dispatch /\ dispatch[d].status # "absent"
        /\ seen \in DispatchRow /\ dispatch[d] \in DispatchRow
    BY <1>4 DEF WriteMark, View, MarksMatchRows, TypeInv, TypeOK
  <2>3. marked' = marked \cup {d} /\ UNCHANGED job
    BY <1>4 DEF WriteMark
  <2> HIDE DEF d, seen
  <2> DEFINE r == MarkedRow(dispatch[d], seen, st)
  <2>4. r.status = st
    BY <2>1, <2>2, MarkedRowIs
  <2>5. r.replaces = dispatch[d].replaces
    BY <2>1, <2>2, MarkedRowIs
  <2>5a. r.schedule = dispatch[d].schedule
    BY <2>1, <2>2, MarkedRowIs
  <2>6. dispatch' = [dispatch EXCEPT ![d] = r]
    BY <2>1
  <2> HIDE DEF r
  <2>7. dispatch'[d] = r
    BY <2>2, <2>6 DEF TypeInv, TypeOK
  <2>8. RowStep(d) /\ Overridden(d)
    BY <2>1, <2>2, <2>3, <2>4, <2>5, <2>7 DEF RowStep, Overridden
  <2>9. RowsStep /\ Alone(d)
    BY <2>2, <2>5a, <2>6, <2>8, OneRow
  <2> QED
    BY <2>2, <2>3, <2>8, <2>9
<1> QED
  BY <1>1, <1>2, <1>3, <1>4 DEF Client

\* So is every step of the system.
LEMMA NextStep ==
  ASSUME TypeInv, MarksMatchRows, [Next]_vars
  PROVE  Step
<1>1. CASE UNCHANGED vars
  BY <1>1, StillRows DEF vars, Step, JobStep, MarkStep
<1>2. CASE Tick
  BY <1>2, StillRows DEF Tick, tables, process, Step, JobStep, MarkStep
<1> QED
  BY <1>1, <1>2, WorkerStep, OtherWorkerStep, ClientStep DEF Next

LEMMA StepParts ==
  ASSUME Step
  PROVE  /\ \A d \in Dispatch : RowStep(d)
         /\ HeirsStep /\ JobStep /\ marked \subseteq marked'
BY DEF Step, RowsStep, MarkStep, Overridden

-----------------------------------------------------------------------------
(* The theorems *)

\* A row that does not exist is nobody's and replaces nothing.
AbsentIsBlank ==
  \A d \in Dispatch : dispatch[d].status = "absent" =>
    dispatch[d].replaces = None /\ dispatch[d].claimedBy = NoOne

\* The inductive invariant.
SafetyInv ==
  /\ TypeInv /\ MarksMatchRows /\ AbsentIsBlank
  /\ WorkerHoldsOrLost /\ OneRunner /\ ReplacedOnceAndFailed /\ RunningIsRecoverable

\* The safety invariant holds initially.
LEMMA InitSafetyInv == Init => SafetyInv
<1> SUFFICES ASSUME Init PROVE SafetyInv
  OBVIOUS
<1>1. TypeInv
  BY InitTypeInv
<1>2. /\ \A d \in Dispatch : /\ dispatch[d].status = "absent" /\ dispatch[d].replaces = None
                            /\ dispatch[d].claimedBy = NoOne
      /\ \A w \in Workers : job[w] = None
      /\ \A c \in Clients : view[c].kind = "none"
  BY DEF Init, Absent, NoView
<1> QED
  BY <1>1, <1>2 DEF SafetyInv, MarksMatchRows, AbsentIsBlank, WorkerHoldsOrLost, OneRunner,
     ReplacedOnceAndFailed, RunningIsRecoverable

\* Every step preserves the type invariant.
LEMMA NextTypeInv ==
  ASSUME TypeInv, MarksMatchRows, [Next]_vars
  PROVE  TypeInv'
<1> USE DEF TypeInv, TypeOK, RowsHaveSchedule, JobsMatchPC, tables, process
<1>1. CASE UNCHANGED vars
  BY <1>1 DEF vars
<1>2. CASE Tick
  BY <1>2, ConstantsOK DEF Tick
<1> QED
  BY <1>1, <1>2, WorkerTypeInv, OtherWorkerStepsTypeInv, ClientTypeInv DEF Next

\* What an operator has read stays a row that exists: rows are never deleted.
LEMMA NextMarksMatchRows ==
  ASSUME TypeInv, MarksMatchRows, [Next]_vars, \A d \in Dispatch : RowStep(d)
  PROVE  MarksMatchRows'
<1>1. \A d \in Dispatch : dispatch[d].status # "absent" => dispatch'[d].status # "absent"
  BY DEF RowStep, Created, Claimed, Renewed, Ended, Overridden
<1>2. \A c \in Clients : view[c].kind = "mark" => view[c].dispatch \in Dispatch
  BY DEF TypeInv, TypeOK, View, MarksMatchRows
<1>3. CASE view' = view
  BY <1>1, <1>2, <1>3 DEF MarksMatchRows
<1>4. ASSUME NEW c \in Clients, Client(c), view' # view
      PROVE  MarksMatchRows'
  <2>1. \A b \in Clients : b # c => view'[b] = view[b]
    BY <1>4 DEF Client, EnqueueDue, CreateDispatch, RetryDispatch, CheckDue, ReadMark, CommitRequest,
       CreateSchedule, ReadUpdate, WriteUpdate, SetArchived, ReadDelete, WriteDelete, WriteMark,
       RecoverStale, TypeInv, TypeOK
  <2>2. view'[c].kind = "mark" =>
           view'[c].dispatch \in Dispatch /\ dispatch'[view'[c].dispatch].status # "absent"
    <3>1. CASE ReadMark(c)
      <4>1. PICK d \in Dispatch :
              /\ dispatch[d].status # "absent"
              /\ view' = [view EXCEPT ![c] = [NoView EXCEPT !.kind = "mark", !.dispatch = d,
                                                            !.row = dispatch[d]]]
        BY <3>1 DEF ReadMark
      <4>2. view'[c].dispatch = d
        BY <4>1 DEF TypeInv, TypeOK, NoView
      <4> QED
        BY <1>1, <4>1, <4>2
    <3>2. CASE ~ReadMark(c)
      <4>1. CASE ReadUpdate(c)
        <5>1. PICK s \in Schedules :
                view' = [view EXCEPT ![c] = [NoView EXCEPT !.kind = "update", !.schedule = s,
                                                           !.was = schedule[s]]]
          BY <4>1 DEF ReadUpdate
        <5> QED
          BY <5>1 DEF TypeInv, TypeOK, NoView
      <4>2. CASE ReadDelete(c)
        <5>1. PICK s \in Schedules :
                view' = [view EXCEPT ![c] = [NoView EXCEPT !.kind = "delete", !.schedule = s]]
          BY <4>2 DEF ReadDelete
        <5> QED
          BY <5>1 DEF TypeInv, TypeOK, NoView
      <4>3. CASE WriteMark(c) \/ WriteUpdate(c) \/ WriteDelete(c)
        <5>1. view' = [view EXCEPT ![c] = NoView]
          BY <4>3 DEF WriteMark, WriteUpdate, WriteDelete
        <5> QED
          BY <5>1 DEF TypeInv, TypeOK, NoView
      <4> QED
        BY <1>4, <3>2, <4>1, <4>2, <4>3 DEF Client, EnqueueDue, CreateDispatch, RetryDispatch,
           CheckDue, CommitRequest, CreateSchedule, SetArchived, RecoverStale
    <3> QED
      BY <3>1, <3>2
  <2> QED
    BY <1>1, <1>2, <2>1, <2>2 DEF MarksMatchRows
<1>5. CASE UNCHANGED vars
  BY <1>3, <1>5 DEF vars
<1>6. CASE Tick
  BY <1>3, <1>6 DEF Tick
<1>7. ASSUME NEW w \in Workers,
             \/ Worker(w) \/ Renew(w) \/ RenewFails(w) \/ Shutdown(w) \/ Crash(w)
             \/ \E d \in Dispatch : ClaimById(w, d)
      PROVE  view' = view
  BY <1>7 DEF Worker, Renew, RenewFails, Shutdown, Crash, ClaimById, StartIteration, Recover,
     BeginEnqueue, CheckDue, CommitEnqueue, AbortEnqueue, ClaimNext, Yield, BeginWork, EndWork,
     ReportCompleted, ReportFailed, Restart, Rest
<1> QED
  BY <1>3, <1>4, <1>5, <1>6, <1>7 DEF Next

\* Every step preserves the safety invariant.
LEMMA NextSafetyInv == SafetyInv /\ [Next]_vars => SafetyInv'
<1> SUFFICES ASSUME SafetyInv, [Next]_vars PROVE SafetyInv'
  OBVIOUS
<1>1. (\A d \in Dispatch : RowStep(d)) /\ HeirsStep /\ JobStep /\ marked \subseteq marked'
  BY NextStep, StepParts DEF SafetyInv
<1>2. TypeInv' /\ MarksMatchRows'
  BY <1>1, NextTypeInv, NextMarksMatchRows DEF SafetyInv
<1>3. job \in [Workers -> Dispatch \cup {None}] /\ job' \in [Workers -> Dispatch \cup {None}]
  BY <1>2 DEF SafetyInv, TypeInv, TypeOK
<1>4. AbsentIsBlank'
  BY <1>1 DEF SafetyInv, RowStep, Created, Claimed, Renewed, Ended, Overridden,
     AbsentIsBlank
<1>5. RunningIsRecoverable'
  <2> SUFFICES ASSUME NEW d \in Dispatch, dispatch'[d].status = "running", d \notin marked'
               PROVE  dispatch'[d].expires # Never /\ dispatch'[d].claimedBy # NoOne
    BY DEF RunningIsRecoverable
  <2>1. RowStep(d) /\ d \notin marked
    BY <1>1
  <2>2. NoOne \notin WorkerIds
    BY ConstantsOK
  <2> QED
    BY <2>1, <2>2 DEF RowStep, Created, Claimed, Renewed, Ended, Overridden, SafetyInv,
       RunningIsRecoverable
<1>6. ASSUME NEW w \in Workers, NEW d, d = job'[w], d # None, d \notin marked'
      PROVE  /\ \/ dispatch'[d].status = "running" /\ dispatch'[d].claimedBy = WorkerId[w]
                \/ dispatch'[d].status = "failed"
             /\ \A v \in Workers : job'[v] = d => v = w
  <2>0. d \in Dispatch /\ RowStep(d) /\ d \notin marked
    BY <1>1, <1>3, <1>6
  <2>1. CASE job[w] = d
    <3>1. \/ dispatch[d].status = "running" /\ dispatch[d].claimedBy = WorkerId[w]
          \/ dispatch[d].status = "failed"
      BY <2>0, <2>1 DEF SafetyInv, WorkerHoldsOrLost
    <3>2. \A v \in Workers : job[v] = d => v = w
      BY <2>0, <2>1 DEF SafetyInv, OneRunner
    <3>3. ~(dispatch[d].status = "running" /\ dispatch'[d].status = "completed")
      <4>1. \A v \in Workers : job[v] = d => job'[v] # None
        BY <1>6, <3>2
      <4> QED
        BY <1>6, <2>0, <4>1 DEF RowStep, Created, Claimed, Renewed, Ended, Overridden
    <3>4. \A v \in Workers : job'[v] = d => job[v] = d
      BY <1>1, <1>3, <1>6, <3>1 DEF JobStep
    <3> QED
      BY <1>6, <2>0, <3>1, <3>2, <3>3, <3>4 DEF RowStep, Created, Claimed, Renewed, Ended, Overridden
  <2>2. CASE job[w] # d
    <3>1. /\ job' = [job EXCEPT ![w] = d]
          /\ dispatch[d].status = "enqueued"
          /\ dispatch'[d].status = "running" /\ dispatch'[d].claimedBy = WorkerId[w]
      BY <1>1, <1>3, <1>6, <2>2 DEF JobStep
    <3>2. \A v \in Workers : job[v] # d
      BY <2>0, <3>1 DEF SafetyInv, WorkerHoldsOrLost
    <3> QED
      BY <1>3, <3>1, <3>2
  <2> QED
    BY <2>1, <2>2
<1>7. OneRunner' /\ WorkerHoldsOrLost'
  BY <1>6 DEF OneRunner, WorkerHoldsOrLost
<1>8. ReplacedOnceAndFailed'
  <2> SUFFICES ASSUME NEW d \in Dispatch, NEW e \in Dispatch,
                      dispatch'[d].replaces # None, dispatch'[d].replaces \notin marked'
               PROVE  /\ dispatch'[dispatch'[d].replaces].status = "failed"
                      /\ dispatch'[e].replaces = dispatch'[d].replaces => d = e
    BY DEF ReplacedOnceAndFailed
  <2> DEFINE old == dispatch'[d].replaces
  <2>1. /\ RowStep(d) /\ RowStep(e) /\ old \notin marked /\ old \in Dispatch
    BY <1>1, <1>2 DEF TypeInv, TypeOK, DispatchRow
  <2>2. ASSUME NEW r \in Dispatch
        PROVE  Created(r) \/ dispatch'[r].replaces = dispatch[r].replaces
    BY <1>1 DEF RowStep, Claimed, Renewed, Ended, Overridden
  <2>3. ASSUME NEW r \in Dispatch, dispatch[r].replaces = old
        PROVE  dispatch[old].status = "failed"
    BY <2>1, <2>3 DEF SafetyInv, ReplacedOnceAndFailed
  <2>4. ASSUME NEW r \in Dispatch, Created(r), dispatch'[r].replaces = old
        PROVE  dispatch[old].status = "running" /\ dispatch'[old].status = "failed"
    BY <1>1, <2>4 DEF HeirsStep
  <2>5. CASE Created(d)
    <3>1. dispatch[old].status = "running" /\ dispatch'[old].status = "failed"
      BY <2>4, <2>5
    <3>2. dispatch'[e].replaces = old => Created(e)
      BY <2>2, <2>3, <3>1
    <3> QED
      BY <1>1, <2>5, <3>1, <3>2 DEF HeirsStep
  <2>6. CASE ~Created(d)
    <3>1. dispatch[d].replaces = old /\ dispatch[old].status = "failed"
      BY <2>2, <2>3, <2>6
    <3>2. dispatch'[old].status = "failed"
      BY <1>1, <2>1, <3>1 DEF RowStep, Created, Claimed, Renewed, Ended, Overridden
    <3>3. dispatch'[e].replaces = old => dispatch[e].replaces = old
      BY <2>2, <2>4, <3>1
    <3>4. dispatch[e].replaces = old => d = e
      BY <2>1, <3>1 DEF SafetyInv, ReplacedOnceAndFailed
    <3> QED
      BY <3>2, <3>3, <3>4
  <2> QED
    BY <2>5, <2>6
<1> QED
  BY <1>2, <1>4, <1>5, <1>7, <1>8 DEF SafetyInv

\* The safety invariant holds in every reachable state.
THEOREM Safety == Spec => []SafetyInv
<1>1. Init => SafetyInv
  BY InitSafetyInv
<1>2. SafetyInv /\ [Next]_vars => SafetyInv'
  BY NextSafetyInv
<1> QED
  BY <1>1, <1>2, PTL DEF Spec

\* The tables and the processes stay well typed.
THEOREM TypeCorrect == Spec => []TypeOK
<1>1. SafetyInv => TypeOK
  BY DEF SafetyInv, TypeInv
<1> QED
  BY <1>1, Safety, PTL

\* A worker keeps its claim or has lost it for good, whoever else is at work.
THEOREM ClaimsAreHeld == Spec => []WorkerHoldsOrLost
<1>1. SafetyInv => WorkerHoldsOrLost
  BY DEF SafetyInv
<1> QED
  BY <1>1, Safety, PTL

\* No dispatch is run by two workers.
THEOREM RunsAreExclusive == Spec => []OneRunner
<1>1. SafetyInv => OneRunner
  BY DEF SafetyInv
<1> QED
  BY <1>1, Safety, PTL

\* A replaced dispatch has failed for good and has one replacement.
THEOREM ReplacementsAreUnique == Spec => []ReplacedOnceAndFailed
<1>1. SafetyInv => ReplacedOnceAndFailed
  BY DEF SafetyInv
<1> QED
  BY <1>1, Safety, PTL

\* Recovery can get at every running dispatch.
THEOREM RunsAreRecoverable == Spec => []RunningIsRecoverable
<1>1. SafetyInv => RunningIsRecoverable
  BY DEF SafetyInv
<1> QED
  BY <1>1, Safety, PTL

\* A finished dispatch stays as it is: an action property, from the shape of the steps.
THEOREM VerdictsAreFinal == Spec => TerminalIsFinal
<1>1. ASSUME SafetyInv, [Next]_vars
      PROVE  [\A d \in Dispatch : dispatch[d].status \in Terminal /\ d \notin marked' =>
                dispatch'[d] = dispatch[d]]_vars
  <2>1. \A d \in Dispatch : RowStep(d)
    BY <1>1, NextStep, StepParts DEF SafetyInv
  <2> QED
    BY <2>1 DEF RowStep, Created, Claimed, Renewed, Ended, Overridden, Terminal
<1> QED
  BY <1>1, Safety, PTL DEF Spec, TerminalIsFinal

-----------------------------------------------------------------------------
(* The ledger is implemented *)

\* What the ledger sees of the rows.
LStatus == [d \in Dispatch |-> dispatch[d].status]
LHolder == [d \in Dispatch |-> dispatch[d].claimedBy]
LHeir == [d \in Dispatch |-> dispatch[d].replaces]

LEMMA InitLedger == Init => Ledger!Init
BY DEF Init, Ledger!Init, Absent

\* A step on one row alone issues nothing and forfeits nothing: it is granted, or
\* settled, or overridden, or its lease is renewed, which the ledger does not see.
LEMMA AloneLedger ==
  ASSUME SafetyInv, TypeInv', NEW d \in Dispatch, Alone(d),
         \/ (Claimed(d) \/ Renewed(d) \/ Ended(d)) /\ marked' = marked
         \/ Overridden(d)
  PROVE  Ledger!Next \/ UNCHANGED Ledger!lvars
<1>0. dispatch' \in [Dispatch -> DispatchRow]
  BY DEF TypeInv, TypeOK
<1> PICK row \in DispatchRow : row = dispatch'[d]
  BY <1>0
<1>1. /\ dispatch \in [Dispatch -> DispatchRow] /\ dispatch' \in [Dispatch -> DispatchRow]
      /\ row.status \in Status /\ row.claimedBy \in WorkerIds \cup {NoOne}
      /\ row.replaces = dispatch[d].replaces
  BY DEF SafetyInv, TypeInv, TypeOK, DispatchRow, Claimed, Renewed, Ended, Overridden
<1>2. /\ LStatus' = [LStatus EXCEPT ![d] = row.status]
      /\ LHolder' = [LHolder EXCEPT ![d] = row.claimedBy]
      /\ LHeir' = LHeir
  BY <1>1 DEF Alone, LStatus, LHolder, LHeir
<1>3. LStatus[d] = dispatch[d].status /\ LHolder[d] = dispatch[d].claimedBy
  BY DEF LStatus, LHolder
<1>4. CASE Claimed(d) /\ marked' = marked
  <2>1. row.claimedBy \in WorkerIds /\ row.status = "running" /\ LStatus[d] = "enqueued"
    BY <1>3, <1>4 DEF Claimed
  <2>2. Ledger!Grant(d, row.claimedBy)
    BY <1>2, <1>4, <2>1 DEF Ledger!Grant, LStatus, LHolder, LHeir
  <2> QED
    BY <2>1, <2>2 DEF Ledger!Next
<1>5. CASE Renewed(d) /\ marked' = marked
  <2>1. LStatus' = LStatus
    BY <1>2, <1>3, <1>5 DEF Renewed, LStatus
  <2>2. LHolder' = LHolder
    BY <1>2, <1>3, <1>5 DEF Renewed, LHolder
  <2> QED
    BY <1>2, <1>5, <2>1, <2>2 DEF Ledger!lvars, LStatus, LHolder, LHeir
<1>6. CASE Ended(d) /\ marked' = marked
  <2>1. row.status \in {"completed", "failed"} /\ LStatus[d] = "running"
    BY <1>3, <1>6 DEF Ended
  <2>2. LHolder' = LHolder
    BY <1>2, <1>3, <1>6 DEF Ended, LHolder
  <2>3. Ledger!Settle(d, row.status)
    BY <1>2, <1>6, <2>1, <2>2 DEF Ledger!Settle, LStatus, LHolder, LHeir
  <2> QED
    BY <2>1, <2>3 DEF Ledger!Next
<1>7. CASE Overridden(d)
  <2>1. /\ row.status \in {"enqueued", "running", "completed", "failed"}
        /\ LStatus[d] # "absent" /\ marked' = marked \cup {d}
    BY <1>1, <1>3, <1>7 DEF Overridden, Status
  <2>2. Ledger!Override(d)
    BY <1>1, <1>2, <2>1 DEF Ledger!Override, LStatus, LHolder, LHeir
  <2> QED
    BY <2>2 DEF Ledger!Next
<1> QED
  BY <1>4, <1>5, <1>6, <1>7

\* New rows that replace nothing are issued.
LEMMA IssueLedger ==
  ASSUME SafetyInv, marked' = marked,
         \A d \in Dispatch : dispatch'[d] = dispatch[d] \/ Issued(d)
  PROVE  Ledger!Next
<1> PICK new \in SUBSET Dispatch : new = {d \in Dispatch : Issued(d)}
  OBVIOUS
<1>1. /\ \A d \in Dispatch : dispatch'[d].claimedBy = dispatch[d].claimedBy
      /\ \A d \in Dispatch : dispatch'[d].replaces = dispatch[d].replaces
  BY DEF Issued, Created, SafetyInv, AbsentIsBlank
<1>2. LHolder' = LHolder /\ LHeir' = LHeir
  BY <1>1 DEF LHolder, LHeir
<1>3. /\ \A d \in new : LStatus[d] = "absent"
      /\ LStatus' = [d \in Dispatch |-> IF d \in new THEN "enqueued" ELSE LStatus[d]]
  BY DEF Issued, Created, LStatus
<1>4. Ledger!Issue(new)
  BY <1>2, <1>3 DEF Ledger!Issue, LStatus, LHolder, LHeir
<1> QED
  BY <1>4 DEF Ledger!Next

\* Rows that fail, and the rows that replace some of them, are a forfeit.
LEMMA ForfeitLedger ==
  ASSUME SafetyInv, HeirsStep, marked' = marked,
         \A d \in Dispatch : dispatch'[d] = dispatch[d] \/ Replacing(d) \/ Failed(d)
  PROVE  Ledger!Next
<1> PICK lost \in SUBSET Dispatch : lost = {d \in Dispatch : Failed(d)}
  OBVIOUS
<1> PICK heirs \in SUBSET Dispatch : heirs = {d \in Dispatch : Created(d)}
  OBVIOUS
<1> PICK heir : heir = [d \in heirs |-> dispatch'[d].replaces]
  OBVIOUS
<1>1. /\ \A d \in lost : LStatus[d] = "running"
      /\ \A d \in heirs : LStatus[d] = "absent"
  BY DEF Failed, Ended, Replacing, Created, LStatus
<1>2. ASSUME NEW d \in heirs
      PROVE  heir[d] \in lost /\ \A e \in heirs : heir[e] = heir[d] => e = d
  <2>1. /\ heir[d] \in Dispatch /\ dispatch[heir[d]].status = "running"
        /\ dispatch'[heir[d]].status = "failed"
        /\ \A e \in heirs : heir[e] = heir[d] => e = d
    <3>1. Created(d) /\ dispatch'[d].replaces # None
      BY <1>2 DEF Failed, Ended, Replacing, Created
    <3> QED
      BY <1>2, <3>1 DEF HeirsStep
  <2>2. Failed(heir[d])
    <3> DEFINE o == heir[d]
    <3>1. o \in Dispatch /\ dispatch[o].status = "running" /\ dispatch'[o].status = "failed"
      BY <2>1
    <3> HIDE DEF o
    <3>2. dispatch'[o] # dispatch[o] /\ ~Replacing(o)
      BY <3>1 DEF Replacing, Created
    <3>3. Failed(o)
      BY <3>1, <3>2
    <3> QED
      BY <3>3 DEF o
  <2> QED
    BY <2>1, <2>2
<1>3. \A d \in Dispatch : dispatch'[d].claimedBy = dispatch[d].claimedBy
  BY DEF Failed, Ended, Replacing, Created, SafetyInv, AbsentIsBlank
<1>4. LHolder' = LHolder
  BY <1>3 DEF LHolder
<1>5. LStatus' = [d \in Dispatch |-> IF d \in heirs THEN "enqueued"
                                    ELSE IF d \in lost THEN "failed" ELSE LStatus[d]]
  BY DEF Failed, Ended, Replacing, Created, LStatus
<1>6. LHeir' = [d \in Dispatch |-> IF d \in heirs THEN heir[d] ELSE LHeir[d]]
  BY DEF Failed, Ended, Replacing, Created, LHeir
<1>7. heir \in [heirs -> lost] /\ DOMAIN heir = heirs
  BY <1>2
<1>8. Ledger!Forfeit(lost, heir)
  BY <1>1, <1>2, <1>4, <1>5, <1>6, <1>7 DEF Ledger!Forfeit, LStatus, LHolder, LHeir
<1> QED
  BY <1>7, <1>8 DEF Ledger!Next

\* Every step is one of the ledger's, or one the ledger does not see.
LEMMA NextLedger == SafetyInv /\ [Next]_vars => [Ledger!Next]_(Ledger!lvars)
<1> SUFFICES ASSUME SafetyInv, [Next]_vars
             PROVE  Ledger!Next \/ UNCHANGED Ledger!lvars
  OBVIOUS
<1>1. Step /\ TypeInv'
  BY NextStep, NextSafetyInv DEF SafetyInv
<1>2. CASE marked' # marked
  BY <1>1, <1>2, AloneLedger DEF Step, MarkStep
<1>3. CASE marked' = marked
  <2>1. CASE \A d \in Dispatch : dispatch'[d] = dispatch[d] \/ Issued(d)
    BY <1>3, <2>1, IssueLedger
  <2>2. CASE \E d \in Dispatch : Alone(d) /\ (Claimed(d) \/ Renewed(d) \/ Ended(d) \/ Overridden(d))
    BY <1>1, <1>3, <2>2, AloneLedger
  <2>3. CASE \A d \in Dispatch : dispatch'[d] = dispatch[d] \/ Replacing(d) \/ Failed(d)
    BY <1>1, <1>3, <2>3, ForfeitLedger DEF Step, RowsStep
  <2> QED
    BY <1>1, <2>1, <2>2, <2>3 DEF Step, RowsStep, RowMove
<1> QED
  BY <1>2, <1>3

\* The tables keep the promises of the ledger: whatever workers, recovery, requests
\* and operators do, a dispatch is issued, granted, settled or forfeited as promised.
THEOREM LedgerImplemented == Spec => ImplementsLedger
BY InitLedger, NextLedger, Safety, PTL DEF Spec, ImplementsLedger, Ledger!Spec

-----------------------------------------------------------------------------
(* Closed schedules *)

\* A transaction takes up only schedules that are open.
TakesOpen ==
  \A p \in Procs : \A s \in tx'[p].due \cup tx'[p].chosen :
    s \in tx[p].due \cup tx[p].chosen \/ (s \in Schedules /\ Open(s))

LEMMA TxStep ==
  ASSUME TypeInv, [Next]_vars
  PROVE  TakesOpen
<1>1. CASE tx' = tx
  BY <1>1 DEF TakesOpen
<1>2. ASSUME NEW p \in Procs, NEW new, tx' = [tx EXCEPT ![p] = new],
             \A s \in new.due \cup new.chosen :
               s \in tx[p].due \cup tx[p].chosen \/ (s \in Schedules /\ Open(s))
      PROVE  TakesOpen
  BY <1>2 DEF TakesOpen, TypeInv, TypeOK
<1>3. ASSUME NEW p \in Procs, tx' = [tx EXCEPT ![p] = NoTx]
      PROVE  TakesOpen
  BY <1>2, <1>3 DEF NoTx
<1>4. ASSUME NEW p \in Procs, NEW t, EnqueueSelect(p, t)
      PROVE  TakesOpen
  <2> DEFINE new == [kind |-> "enqueue", asOf |-> t,
                     due |-> {s \in Schedules : Open(s) /\ schedule[s].due <= t},
                     caps |-> [s \in Schedules |-> schedule[s].cap], chosen |-> {}]
  <2>1. tx' = [tx EXCEPT ![p] = new]
    BY <1>4 DEF EnqueueSelect
  <2>2. \A s \in new.due \cup new.chosen : s \in Schedules /\ Open(s)
    OBVIOUS
  <2> HIDE DEF new
  <2> QED
    BY <1>2, <2>1, <2>2
<1>5. ASSUME NEW p \in Procs, CheckDue(p)
      PROVE  TakesOpen
  <2>1. PICK s \in tx[p].due :
          tx' = [tx EXCEPT ![p].due = @ \ {s},
                           ![p].chosen = IF Cardinality(Active(s)) >= tx[p].caps[s]
                                         THEN @ ELSE @ \cup {s}]
    BY <1>5 DEF CheckDue, EnqueueCheck
  <2>2. tx \in [Procs -> Tx]
    BY DEF TypeInv, TypeOK
  <2>3. tx'[p].due \cup tx'[p].chosen \subseteq tx[p].due \cup tx[p].chosen
        /\ \A q \in Procs : q # p => tx'[q] = tx[q]
    BY <2>1, <2>2 DEF Tx
  <2> QED
    BY <2>3 DEF TakesOpen
<1>6. ASSUME NEW p \in Procs, NEW s, NEW t, s \in Schedules, CreateCheck(p, s, t)
      PROVE  TakesOpen
  <2> DEFINE new == [NoTx EXCEPT !.kind = "create", !.asOf = t, !.chosen = {s}]
  <2>1. tx' = [tx EXCEPT ![p] = new] /\ Open(s)
    BY <1>6 DEF CreateCheck
  <2>2. new.due = {} /\ new.chosen = {s}
    BY DEF NoTx
  <2> HIDE DEF new
  <2> QED
    BY <1>2, <1>6, <2>1, <2>2
<1>7. ASSUME NEW w \in Workers,
             \/ Worker(w) \/ Renew(w) \/ RenewFails(w) \/ Shutdown(w) \/ Crash(w)
             \/ \E d \in Dispatch : ClaimById(w, d)
      PROVE  TakesOpen
  <2>1. CASE BeginEnqueue(w) \/ CheckDue(w)
    BY <1>4, <1>5, <2>1 DEF BeginEnqueue
  <2>2. CASE CommitEnqueue(w) \/ AbortEnqueue(w) \/ Crash(w)
    BY <1>3, <2>2 DEF CommitEnqueue, AbortEnqueue, Crash
  <2> QED
    BY <1>1, <1>7, <2>1, <2>2 DEF Worker, Renew, RenewFails, Shutdown, ClaimById, StartIteration,
       Recover, ClaimNext, Yield, BeginWork, EndWork, ReportCompleted, ReportFailed, Restart, Rest
<1>8. ASSUME NEW c \in Clients, Client(c)
      PROVE  TakesOpen
  <2>1. CASE EnqueueDue(c) \/ CheckDue(c) \/ CommitRequest(c)
    BY <1>3, <1>4, <1>5, <2>1 DEF EnqueueDue, CommitRequest
  <2>2. CASE CreateDispatch(c)
    BY <1>6, <2>2 DEF CreateDispatch
  <2>3. CASE RetryDispatch(c)
    <3>1. PICK d \in Dispatch : /\ dispatch[d].status \in Terminal
                                /\ CreateCheck(c, dispatch[d].schedule, clock)
      BY <2>3 DEF RetryDispatch
    <3>2. dispatch[d].schedule \in Schedules
      BY <3>1 DEF TypeInv, RowsHaveSchedule, Terminal
    <3> QED
      BY <1>6, <3>1, <3>2
  <2> QED
    BY <1>1, <1>8, <2>1, <2>2, <2>3 DEF Client, ReadMark, CreateSchedule, ReadUpdate, WriteUpdate,
       SetArchived, ReadDelete, WriteDelete, WriteMark, RecoverStale
<1>9. CASE UNCHANGED vars \/ Tick
  BY <1>1, <1>9 DEF vars, Tick
<1> QED
  BY <1>7, <1>8, <1>9 DEF Next

\* A schedule that is archived, disabled or deleted gets no dispatch any more, once
\* nobody has a transaction open that had looked at it before.
THEOREM ClosedStaysQuiet == Spec => ClosedGetsNothing
<1>1. SafetyInv /\ [Next]_vars =>
        [\A s \in Schedules : ~Open(s) /\ Untouched(s) =>
           /\ Untouched(s)'
           /\ \A d \in Dispatch : dispatch'[d].schedule = s => dispatch[d].schedule = s]_vars
  <2> SUFFICES ASSUME SafetyInv, [Next]_vars, NEW s \in Schedules, ~Open(s), Untouched(s)
               PROVE  /\ Untouched(s)'
                      /\ \A d \in Dispatch : dispatch'[d].schedule = s => dispatch[d].schedule = s
    OBVIOUS
  <2>1. TakesOpen /\ Origins
    BY TxStep, NextStep DEF SafetyInv, Step, RowsStep
  <2> QED
    BY <2>1 DEF TakesOpen, Origins, Untouched
<1> QED
  BY <1>1, Safety, PTL DEF Spec, ClosedGetsNothing

-----------------------------------------------------------------------------
(* The overshoot of max_concurrency *)

\* A schedule's limit, and what a transaction has read of it, is a value that a
\* request has given; a transaction that is not open has chosen nothing; a worker
\* has one open only while it enqueues.
TxFits ==
  /\ \A s \in Schedules : schedule[s].exists => schedule[s].cap \in Caps
  /\ \A p \in Procs : /\ tx[p].kind = "none" => tx[p].chosen = {}
                      /\ \A s \in tx[p].due : tx[p].caps[s] \in Caps
  /\ \A w \in Workers : tx[w].kind # "none" => pc[w] = "enqueue"

\* The dispatches that count against a schedule, the transactions about to add one,
\* and the rows a step adds.
Load(s) == Active(s) \ marked
Pending(s) == {p \in Procs : s \in tx[p].chosen}
Fresh(s) == {d \in Dispatch : Created(d) /\ dispatch'[d].schedule = s}

\* What a step does to the load of a schedule: nothing that counts; a check that
\* found room lets one more transaction through; a transaction delivers the row it
\* has chosen; or recovery, whose process has no transaction open, refills the
\* schedule up to its limit.
Shrinks(s) == Load(s)' \subseteq Load(s) /\ Pending(s)' \subseteq Pending(s)
Checked(s) == /\ dispatch' = dispatch /\ marked' = marked
              /\ \E cap \in Caps : Cardinality(Active(s)) < cap
Delivered(s) == \E p \in Pending(s), d \in Dispatch :
                  Load(s)' \subseteq Load(s) \cup {d} /\ Pending(s)' \subseteq Pending(s) \ {p}
Refilled(s) == \E p \in Procs, cap \in Caps :
                  p \notin Pending(s)' /\ Cardinality(Load(s)') <= cap

LEMMA Finite ==
  /\ IsFiniteSet(Dispatch) /\ IsFiniteSet(Procs)
  /\ \A S \in SUBSET Dispatch : IsFiniteSet(S) /\ Cardinality(S) \in Nat
  /\ \A S \in SUBSET Procs : IsFiniteSet(S) /\ Cardinality(S) \in Nat
  /\ Cardinality(Procs) \in Nat \ {0}
<1>1. IsFiniteSet(Dispatch)
  BY ConstantsOK, FS_Interval
<1>2. IsFiniteSet(Procs)
  BY ConstantsOK, FS_Union
<1>3. Procs # {}
  BY ConstantsOK
<1> QED
  BY <1>1, <1>2, <1>3, FS_Subset, FS_CardinalityType, FS_EmptySet

\* The smallest of some numbers.
LEMMA Smallest ==
  ASSUME NEW S \in SUBSET Nat, S # {}
  PROVE  \E m \in S : \A n \in S : m <= n
<1>1. PICK m \in S : \A n \in S : ~(<<n, m>> \in OpToRel(<, Nat))
  BY NatLessThanWellFounded, WFMin
<1>2. ASSUME NEW n \in S, n < m PROVE FALSE
  <2>1. <<n, m>> \in Nat \X Nat
    OBVIOUS
  <2>2. <<n, m>> \in OpToRel(<, Nat)
    BY <1>2, <2>1 DEF OpToRel
  <2> QED
    BY <1>1, <2>2
<1> QED
  BY <1>2

\* Each of those steps keeps the bound.
LEMMA LoadBounded ==
  ASSUME OvershootBounded, NEW s \in Schedules,
         Shrinks(s) \/ Checked(s) \/ Delivered(s) \/ Refilled(s)
  PROVE  \E cap \in Caps :
            Cardinality(Load(s)') + Cardinality(Pending(s)') <= cap + Cardinality(Procs) - 1
<1> DEFINE N == Cardinality(Procs)
<1>0. /\ Load(s) \in SUBSET Dispatch /\ Load(s)' \in SUBSET Dispatch
      /\ Active(s) \in SUBSET Dispatch
      /\ Pending(s) \in SUBSET Procs /\ Pending(s)' \in SUBSET Procs
  BY DEF Load, Pending, Active, ActiveIn
<1>1. /\ Cardinality(Load(s)) \in Nat /\ Cardinality(Load(s)') \in Nat
      /\ Cardinality(Active(s)) \in Nat
      /\ Cardinality(Pending(s)) \in Nat /\ Cardinality(Pending(s)') \in Nat
      /\ N \in Nat /\ Caps \subseteq Nat
  BY <1>0, Finite, ConstantsOK
<1>2. PICK limit \in Caps : Cardinality(Load(s)) + Cardinality(Pending(s)) <= limit + N - 1
  BY DEF OvershootBounded, Load, Pending
<1>3. CASE Shrinks(s)
  <2>1. /\ Cardinality(Load(s)') <= Cardinality(Load(s))
        /\ Cardinality(Pending(s)') <= Cardinality(Pending(s))
    BY <1>0, <1>3, Finite, FS_Subset DEF Shrinks
  <2> QED
    BY <1>1, <1>2, <2>1
<1>4. CASE Checked(s)
  <2>1. PICK cap \in Caps : Cardinality(Active(s)) < cap
    BY <1>4 DEF Checked
  <2>2. Load(s)' = Load(s) /\ Load(s) \subseteq Active(s)
    BY <1>4 DEF Checked, Load, Active, ActiveIn
  <2>3. Cardinality(Load(s)') <= Cardinality(Active(s))
    BY <1>0, <2>2, Finite, FS_Subset
  <2>4. Cardinality(Pending(s)') <= N
    BY <1>0, Finite, FS_Subset
  <2> QED
    BY <1>1, <2>1, <2>3, <2>4
<1>5. CASE Delivered(s)
  <2>1. PICK p \in Pending(s), d \in Dispatch :
           Load(s)' \subseteq Load(s) \cup {d} /\ Pending(s)' \subseteq Pending(s) \ {p}
    BY <1>5 DEF Delivered
  <2>2. Cardinality(Load(s)') <= Cardinality(Load(s)) + 1
    <3>1. IsFiniteSet(Load(s)) /\ IsFiniteSet(Load(s) \cup {d})
      BY <1>0, Finite, FS_AddElement
    <3>2. Cardinality(Load(s)') <= Cardinality(Load(s) \cup {d})
      BY <2>1, <3>1, FS_Subset
    <3>3. Cardinality(Load(s) \cup {d}) =
            IF d \in Load(s) THEN Cardinality(Load(s)) ELSE Cardinality(Load(s)) + 1
      BY <3>1, FS_AddElement
    <3> QED
      BY <1>1, <3>2, <3>3
  <2>3. Cardinality(Pending(s)') <= Cardinality(Pending(s)) - 1
    <3>1. IsFiniteSet(Pending(s))
      BY <1>0, Finite
    <3>2. /\ IsFiniteSet(Pending(s) \ {p})
          /\ Cardinality(Pending(s) \ {p}) = Cardinality(Pending(s)) - 1
      BY <2>1, <3>1, FS_RemoveElement
    <3> QED
      BY <2>1, <3>2, FS_Subset
  <2> QED
    BY <1>1, <1>2, <2>2, <2>3
<1>6. CASE Refilled(s)
  <2>1. PICK p \in Procs, cap \in Caps :
           p \notin Pending(s)' /\ Cardinality(Load(s)') <= cap
    BY <1>6 DEF Refilled
  <2>2. Cardinality(Pending(s)') <= N - 1
    <3>1. IsFiniteSet(Procs \ {p}) /\ Cardinality(Procs \ {p}) = N - 1
      BY Finite, FS_RemoveElement
    <3>2. Pending(s)' \in SUBSET (Procs \ {p})
      BY <1>0, <2>1
    <3> QED
      BY <3>1, <3>2, FS_Subset
  <2> QED
    BY <1>1, <2>1, <2>2
<1> QED
  BY <1>3, <1>4, <1>5, <1>6

\* Only new rows add to the load.
LEMMA LoadStep ==
  ASSUME TypeInv, TypeInv', Step, NEW s \in Schedules
  PROVE  Load(s)' \subseteq Load(s) \cup Fresh(s)
<1> SUFFICES ASSUME NEW d \in Load(s)', d \notin Fresh(s)
             PROVE  d \in Load(s)
  OBVIOUS
<1>1. /\ d \in Dispatch /\ d \notin marked' /\ dispatch'[d].schedule = s
      /\ dispatch'[d].status \in {"enqueued", "running"}
  BY DEF Load, Active, ActiveIn
<1>2. RowStep(d) /\ ~Created(d) /\ d \notin marked
  BY <1>1, StepParts DEF Fresh
<1>3. dispatch[d].schedule = s
  BY <1>1, <1>2 DEF Step, RowsStep, Origins
<1>4. dispatch[d].status \in {"enqueued", "running"}
  BY <1>1, <1>2 DEF RowStep, Claimed, Renewed, Ended, Overridden
<1> QED
  BY <1>1, <1>2, <1>3, <1>4 DEF Load, Active, ActiveIn

\* A step that writes no row, or one that exists, adds none.
LEMMA NothingFresh ==
  ASSUME TypeInv, NEW s,
         \/ dispatch' = dispatch
         \/ \E d \in Dispatch : dispatch[d].status # "absent" /\ Alone(d)
  PROVE  Fresh(s) = {}
<1>1. \A d \in Dispatch : dispatch[d].status = "absent" => dispatch'[d] = dispatch[d]
  BY DEF Alone
<1> QED
  BY <1>1 DEF Fresh, Created

\* A commit adds one row for each schedule the transaction has chosen.
LEMMA CommitFresh ==
  ASSUME TypeInv, NEW p \in Procs, Commit(p), NEW s
  PROVE  /\ s \notin tx[p].chosen => Fresh(s) = {}
         /\ \E d \in Dispatch \cup {None} : Fresh(s) \subseteq {d}
<1> DEFINE seeds == {[schedule |-> r, replaces |-> None] : r \in tx[p].chosen}
<1>1. tx[p] \in Tx /\ dispatch \in [Dispatch -> DispatchRow]
  BY DEF TypeInv, TypeOK
<1>2. seeds \in SUBSET Seeds /\ tx[p].asOf \in Time
  BY <1>1 DEF Seeds, Tx
<1>3. dispatch' \in Inserting(dispatch, seeds, tx[p].asOf)
  BY DEF Commit
<1>4. \A seed \in seeds : seed.replaces = None /\ seed.schedule \in tx[p].chosen
  OBVIOUS
<1> HIDE DEF seeds
<1>5. ASSUME NEW d \in Fresh(s)
      PROVE  /\ d \in Dispatch /\ dispatch'[d] # dispatch[d]
             /\ dispatch'[d].schedule = s
             /\ dispatch'[d].replaces = None /\ s \in tx[p].chosen
  <2>1. d \in Dispatch /\ dispatch'[d] # dispatch[d] /\ dispatch'[d].schedule = s
    BY DEF Fresh, Created
  <2> DEFINE seed == [schedule |-> dispatch'[d].schedule, replaces |-> dispatch'[d].replaces]
  <2>2. seed \in seeds
    BY <1>1, <1>2, <1>3, <2>1, InsertingType
  <2>3. seed.replaces = dispatch'[d].replaces /\ seed.schedule = dispatch'[d].schedule
    OBVIOUS
  <2> HIDE DEF seed
  <2> QED
    BY <1>4, <2>1, <2>2, <2>3
<1>6. ASSUME NEW d \in Fresh(s), NEW e \in Fresh(s)
      PROVE  d = e
  <2>1. /\ d \in Dispatch /\ e \in Dispatch
        /\ dispatch'[d] # dispatch[d] /\ dispatch'[e] # dispatch[e]
        /\ dispatch'[d].schedule = dispatch'[e].schedule
        /\ dispatch'[d].replaces = dispatch'[e].replaces
    BY <1>5
  <2> QED
    BY <1>1, <1>2, <1>3, <2>1, InsertingOnce
<1>7. CASE Fresh(s) = {}
  BY <1>7
<1>8. CASE Fresh(s) # {}
  <2>1. PICK d \in Fresh(s) : TRUE
    BY <1>8
  <2> QED
    BY <1>5, <1>6, <2>1
<1> QED
  BY <1>5, <1>7, <1>8

\* The expired rows of a schedule that come no later than one of them.
Ahead(d, t) ==
  {e \in Expired(t) : dispatch[e].schedule = dispatch[d].schedule /\ Before(e, d)}

\* Recovery gives a schedule replacements only up to its limit: each row it replaces
\* finds, after the rows before it have gone, less than the limit.
LEMMA RequeueRoom ==
  ASSUME TypeInv, TypeInv', NEW t \in Time, RequeueExpired(t), NEW s \in Schedules,
         Fresh(s) # {}
  PROVE  Open(s) /\ Cardinality(Active(s)') <= schedule[s].cap
<1> DEFINE A == Active(s)
           E == {d \in Expired(t) : dispatch[d].schedule = s}
           R == {d \in Replaced(t) : dispatch[d].schedule = s}
           F == Fresh(s)
           B == Active(s)'
<1>0. /\ A \in SUBSET Dispatch /\ E \in SUBSET Dispatch /\ R \in SUBSET Dispatch
      /\ F \in SUBSET Dispatch /\ B \in SUBSET Dispatch
      /\ R \subseteq E /\ E \subseteq A
      /\ A \ E \in SUBSET Dispatch /\ (A \ E) \cup F \in SUBSET Dispatch
  BY DEF Active, ActiveIn, Expired, Replaced, Fresh
<1>1. /\ \A d \in Expired(t) :
           Failed(d) /\ dispatch'[d].schedule = dispatch[d].schedule
      /\ \A d \in Dispatch \ Expired(t) : dispatch'[d] = dispatch[d] \/ Created(d)
      /\ \A d \in Dispatch : Created(d) =>
           /\ dispatch'[d].replaces \in Replaced(t)
           /\ dispatch'[d].schedule = dispatch[dispatch'[d].replaces].schedule
      /\ \A d, e \in Dispatch :
           Created(d) /\ Created(e) /\ dispatch'[d].replaces = dispatch'[e].replaces => d = e
  BY RequeueParts
<1>2. B \subseteq (A \ E) \cup F
  BY <1>1 DEF Active, ActiveIn, Fresh, Failed, Expired
<1>3. Cardinality(F) <= Cardinality(R)
  <2> DEFINE heir == [d \in F |-> dispatch'[d].replaces]
  <2>1. \A d \in F : heir[d] \in R
    BY <1>1 DEF Fresh
  <2>2. \A d, e \in F : heir[d] = heir[e] => d = e
    BY <1>1 DEF Fresh
  <2>3. heir \in [F -> R]
    BY <2>1
  <2> HIDE DEF heir, F, R
  <2>4. heir \in Injection(F, R)
    BY <2>2, <2>3 DEF Injection, IsInjective
  <2>5. IsFiniteSet(R)
    BY <1>0, Finite
  <2> QED
    BY <2>4, <2>5, FS_Injection
<1>4. R # {}
  BY <1>1 DEF Fresh
<1>5. \A d \in R : /\ Rank(d, t) = Cardinality(Ahead(d, t)) /\ Ahead(d, t) \in SUBSET E
                   /\ IsFiniteSet(Ahead(d, t)) /\ Rank(d, t) \in Nat
                   /\ Open(s) /\ Cardinality(A) - Rank(d, t) < schedule[s].cap
  <2> TAKE d \in R
  <2>1. Rank(d, t) = Cardinality(Ahead(d, t))
    BY DEF Rank, Ahead
  <2>2. Ahead(d, t) \in SUBSET E
    BY DEF Ahead
  <2>3. Ahead(d, t) \in SUBSET Dispatch
    BY <1>0, <2>2
  <2>4. IsFiniteSet(Ahead(d, t)) /\ Cardinality(Ahead(d, t)) \in Nat
    BY <2>3, Finite
  <2>5. Open(s) /\ Cardinality(A) - Rank(d, t) < schedule[s].cap
    BY DEF Replaced
  <2> QED
    BY <2>1, <2>2, <2>4, <2>5
<1>6. PICK d \in R : \A e \in R : Rank(d, t) <= Rank(e, t)
  <2> DEFINE S == {Rank(e, t) : e \in R}
  <2>1. S \in SUBSET Nat /\ S # {}
    BY <1>4, <1>5
  <2> HIDE DEF S
  <2>2. PICK m \in S : \A n \in S : m <= n
    BY <2>1, Smallest
  <2> QED
    BY <2>2 DEF S
<1>7. ASSUME NEW e \in R, e # d
      PROVE  e \notin Ahead(d, t)
  <2> SUFFICES ASSUME Before(e, d) PROVE FALSE
    BY DEF Ahead
  <2>1. /\ \A x \in Dispatch : dispatch[x].expires \in Int
        /\ d \in Expired(t) /\ e \in Expired(t) /\ Expired(t) \subseteq Dispatch
    BY <1>0 DEF TypeInv, TypeOK, DispatchRow, Expired
  <2>2. Ahead(e, t) \subseteq Ahead(d, t)
    <3> SUFFICES ASSUME NEW x \in Expired(t), Before(x, e) PROVE Before(x, d)
      BY DEF Ahead
    <3> QED
      BY <2>1 DEF Before
  <2>3. d \in Ahead(d, t) /\ d \notin Ahead(e, t)
    <3>1. Before(d, d) /\ ~Before(d, e)
      BY <1>7, <2>1 DEF Before
    <3> QED
      BY <2>1, <3>1 DEF Ahead
  <2>4. Cardinality(Ahead(e, t)) < Cardinality(Ahead(d, t))
    <3>1. /\ Cardinality(Ahead(e, t)) <= Cardinality(Ahead(d, t))
          /\ Cardinality(Ahead(d, t)) = Cardinality(Ahead(e, t)) => Ahead(d, t) = Ahead(e, t)
      BY <1>5, <2>2, FS_Subset
    <3> QED
      BY <1>5, <2>3, <3>1
  <2> QED
    BY <1>5, <1>6, <2>4
<1> HIDE DEF A, E, R, F, B
<1>8. Cardinality(R) - 1 + Rank(d, t) <= Cardinality(E)
  <2> DEFINE Q == R \ {d}
             P == Ahead(d, t)
  <2>1. IsFiniteSet(R) /\ IsFiniteSet(E) /\ Cardinality(R) \in Nat /\ Cardinality(E) \in Nat
    BY <1>0, Finite
  <2>2. IsFiniteSet(Q) /\ Cardinality(Q) = Cardinality(R) - 1
    BY <2>1, FS_RemoveElement
  <2>3. IsFiniteSet(P) /\ Cardinality(P) = Rank(d, t) /\ P \subseteq E
    BY <1>5
  <2>4. Q \cap P = {}
    BY <1>7
  <2>5. Q \cup P \in SUBSET E
    BY <1>0, <2>3
  <2> HIDE DEF P, Q
  <2>6. Cardinality(Q \cup P) = Cardinality(Q) + Cardinality(P)
    <3>1. Cardinality(Q \cup P) = Cardinality(Q) + Cardinality(P) - Cardinality(Q \cap P)
      BY <2>2, <2>3, FS_Union
    <3>2. Cardinality(Q) \in Int /\ Cardinality(P) \in Int
      BY <1>5, <2>1, <2>2, <2>3
    <3>3. Cardinality(Q \cap P) = 0
      BY <2>4, FS_EmptySet
    <3> QED
      BY <3>1, <3>2, <3>3
  <2>7. Cardinality(Q \cup P) <= Cardinality(E)
    BY <2>1, <2>5, FS_Subset
  <2> QED
    BY <2>2, <2>3, <2>6, <2>7
<1>9. Cardinality(B) <= Cardinality(A) - Cardinality(E) + Cardinality(F)
  <2>1. /\ IsFiniteSet(A \ E) /\ IsFiniteSet(E) /\ IsFiniteSet(F)
        /\ IsFiniteSet((A \ E) \cup F)
        /\ Cardinality(A \ E) \in Nat /\ Cardinality(E) \in Nat /\ Cardinality(F) \in Nat
    BY <1>0, Finite
  <2>2. Cardinality(A) = Cardinality(A \ E) + Cardinality(E)
    <3>1. A = (A \ E) \cup E /\ (A \ E) \cap E = {}
      BY <1>0
    <3>2. Cardinality((A \ E) \cup E) =
             Cardinality(A \ E) + Cardinality(E) - Cardinality((A \ E) \cap E)
      BY <2>1, FS_Union
    <3> QED
      BY <2>1, <3>1, <3>2, FS_EmptySet
  <2>3. Cardinality((A \ E) \cup F) <= Cardinality(A \ E) + Cardinality(F)
    <3>1. Cardinality((A \ E) \cup F) =
             Cardinality(A \ E) + Cardinality(F) - Cardinality((A \ E) \cap F)
      BY <2>1, FS_Union
    <3>2. (A \ E) \cap F \in SUBSET Dispatch
      BY <1>0
    <3>3. Cardinality((A \ E) \cap F) \in Nat
      BY <3>2, Finite
    <3> QED
      BY <2>1, <3>1, <3>3
  <2>4. Cardinality(B) <= Cardinality((A \ E) \cup F)
    BY <1>2, <2>1, FS_Subset
  <2>5. Cardinality(B) \in Nat /\ Cardinality((A \ E) \cup F) \in Nat
    BY <1>0, Finite
  <2> QED
    BY <2>1, <2>2, <2>3, <2>4, <2>5
<1>10. /\ Cardinality(A) \in Nat /\ Cardinality(E) \in Nat /\ Cardinality(R) \in Nat
       /\ Cardinality(F) \in Nat /\ Cardinality(B) \in Nat
  BY <1>0, Finite
<1>11. schedule[s].cap \in Nat
  BY DEF TypeInv, TypeOK, ScheduleRow
<1>12. Cardinality(B) <= schedule[s].cap
  BY <1>3, <1>5, <1>6, <1>8, <1>9, <1>10, <1>11
<1> QED
  BY <1>5, <1>6, <1>12 DEF B

\* What a transaction holds fits whatever is opened, advanced or closed.
TxFit(r) == /\ r.kind = "none" => r.chosen = {}
            /\ \A s \in r.due : r.caps[s] \in Caps

\* The limits of the schedules are always given values.
LEMMA CapsStep ==
  ASSUME TypeInv, TxFits, [Next]_vars, NEW s \in Schedules, schedule'[s].exists
  PROVE  schedule'[s].cap \in Caps
<1>0. schedule \in [Schedules -> ScheduleRow]
  BY DEF TypeInv, TypeOK
<1>1. CASE schedule' = schedule
  BY <1>1 DEF TxFits
<1>2. ASSUME NEW p \in Procs, Commit(p)
      PROVE  schedule'[s].cap \in Caps
  <2>1. \/ schedule'[s] = schedule[s]
        \/ \E x : schedule'[s] = [schedule[s] EXCEPT !.due = x]
    BY <1>2 DEF Commit
  <2>2. schedule'[s].exists = schedule[s].exists /\ schedule'[s].cap = schedule[s].cap
    BY <1>0, <2>1 DEF ScheduleRow
  <2> QED
    BY <2>2 DEF TxFits
<1>3. ASSUME NEW r \in Schedules, NEW row, schedule' = [schedule EXCEPT ![r] = row],
             row.exists => row.cap \in Caps
      PROVE  schedule'[s].cap \in Caps
  BY <1>0, <1>3 DEF TxFits
<1>4. ASSUME NEW c \in Clients, Client(c)
      PROVE  schedule'[s].cap \in Caps
  <2>1. CASE CommitRequest(c)
    BY <1>1, <1>2, <2>1 DEF CommitRequest, tables
  <2>2. CASE CreateSchedule(c)
    <3>1. PICK r \in Schedules, cap \in Caps :
             schedule' = [schedule EXCEPT ![r] = NewSchedule(cap, clock)]
      BY <2>2 DEF CreateSchedule
    <3>2. NewSchedule(cap, clock).cap \in Caps
      BY DEF NewSchedule
    <3> QED
      BY <1>3, <3>1, <3>2
  <2>3. CASE WriteUpdate(c)
    <3>1. PICK cap \in Caps, enabled \in BOOLEAN :
             schedule' = IF schedule[view[c].schedule].exists
                         THEN [schedule EXCEPT ![view[c].schedule] =
                                  UpdatedRow(view[c].was, cap, enabled)]
                         ELSE schedule
      BY <2>3 DEF WriteUpdate
    <3> DEFINE row == UpdatedRow(view[c].was, cap, enabled)
    <3>2. row.cap \in Caps
      <4>1. view[c].was \in ScheduleRow
        BY DEF TypeInv, TypeOK, View
      <4> DEFINE w1 == [view[c].was EXCEPT !.cap = cap]
      <4>2. w1 \in [exists: BOOLEAN, enabled: BOOLEAN, archived: BOOLEAN, cap: Caps, due: Nat]
            /\ w1.cap = cap
        BY <4>1 DEF ScheduleRow
      <4>3. row = [w1 EXCEPT !.enabled = enabled]
        BY DEF UpdatedRow
      <4> HIDE DEF w1, row
      <4> QED
        BY <4>2, <4>3
    <3> HIDE DEF row
    <3>3. view[c].schedule \in Schedules \/ schedule' = schedule
      BY <1>0, <3>1 DEF row
    <3> QED
      BY <1>1, <1>3, <3>1, <3>2, <3>3 DEF row
  <2>4. CASE SetArchived(c)
    <3>1. PICK r \in Schedules, archived \in BOOLEAN :
             /\ schedule[r].exists
             /\ schedule' = [schedule EXCEPT ![r] = ArchivedRow(schedule[r], archived)]
      BY <2>4 DEF SetArchived
    <3> DEFINE a1 == [schedule[r] EXCEPT !.archived = archived]
               e == schedule[r].enabled /\ ~archived
    <3>2. /\ a1.cap = schedule[r].cap /\ e \in BOOLEAN
          /\ a1 \in ScheduleRow
      BY <1>0 DEF ScheduleRow
    <3>3. ArchivedRow(schedule[r], archived) = [a1 EXCEPT !.enabled = e]
      BY DEF ArchivedRow
    <3> HIDE DEF a1, e
    <3>4. ArchivedRow(schedule[r], archived).cap = schedule[r].cap
      BY <3>2, <3>3 DEF ScheduleRow
    <3>5. schedule[r].cap \in Caps
      BY <3>1 DEF TxFits
    <3> QED
      BY <1>3, <3>1, <3>4, <3>5
  <2>5. CASE WriteDelete(c)
    <3>1. \/ schedule' = schedule
          \/ schedule' = [schedule EXCEPT ![view[c].schedule] = NoSchedule]
      BY <2>5 DEF WriteDelete
    <3>2. ~NoSchedule.exists
      BY DEF NoSchedule
    <3> QED
      BY <1>0, <1>1, <1>3, <3>1, <3>2
  <2> QED
    BY <1>1, <1>4, <2>1, <2>2, <2>3, <2>4, <2>5 DEF Client, EnqueueDue, CheckDue, CreateDispatch,
       RetryDispatch, RecoverStale, RequeueExpired, ReadMark, WriteMark, ReadUpdate, ReadDelete,
       tables
<1>5. ASSUME NEW w \in Workers,
             \/ Worker(w) \/ Renew(w) \/ RenewFails(w) \/ Shutdown(w) \/ Crash(w)
             \/ \E d \in Dispatch : ClaimById(w, d)
      PROVE  schedule'[s].cap \in Caps
  <2>1. CASE CommitEnqueue(w)
    BY <1>2, <2>1 DEF CommitEnqueue
  <2>2. CASE ReportCompleted(w) \/ ReportFailed(w)
    BY <1>1, <2>2 DEF ReportCompleted, ReportFailed
  <2> QED
    BY <1>1, <1>5, <2>1, <2>2 DEF Worker, Renew, RenewFails, Shutdown, Crash, ClaimById,
       StartIteration, Recover, RequeueExpired, BeginEnqueue, CheckDue, AbortEnqueue, ClaimNext,
       Yield, BeginWork, EndWork, Restart, tables
<1>6. CASE UNCHANGED vars \/ Tick
  BY <1>1, <1>6 DEF vars, Tick, tables
<1> QED
  BY <1>4, <1>5, <1>6 DEF Next

\* A transaction that is opened or advanced fits.
LEMMA TxKinds ==
  ASSUME TypeInv, TxFits, NEW p \in Procs
  PROVE  /\ TxFit(NoTx) /\ NoTx.kind = "none"
         /\ \A t : EnqueueSelect(p, t) => TxFit(tx'[p])
         /\ CheckDue(p) => TxFit(tx'[p]) /\ tx[p].kind = "enqueue"
         /\ \A s, t : CreateCheck(p, s, t) => TxFit(tx'[p])
<1>0. tx \in [Procs -> Tx]
  BY DEF TypeInv, TypeOK
<1>1. TxFit(NoTx) /\ NoTx.kind = "none"
  BY DEF NoTx, TxFit
<1>2. ASSUME NEW t, EnqueueSelect(p, t)
      PROVE  TxFit(tx'[p])
  <2> DEFINE new == [kind |-> "enqueue", asOf |-> t,
                     due |-> {s \in Schedules : Open(s) /\ schedule[s].due <= t},
                     caps |-> [s \in Schedules |-> schedule[s].cap], chosen |-> {}]
  <2>1. tx'[p] = new
    BY <1>0, <1>2 DEF EnqueueSelect
  <2>2. \A s \in new.due : s \in Schedules /\ Open(s) /\ new.caps[s] = schedule[s].cap
    OBVIOUS
  <2>3. new.chosen = {}
    OBVIOUS
  <2> HIDE DEF new
  <2> QED
    BY <2>1, <2>2, <2>3 DEF TxFit, TxFits, Open
<1>3. ASSUME CheckDue(p)
      PROVE  TxFit(tx'[p]) /\ tx[p].kind = "enqueue"
  <2>1. PICK s \in tx[p].due :
          tx' = [tx EXCEPT ![p].due = @ \ {s},
                           ![p].chosen = IF Cardinality(Active(s)) >= tx[p].caps[s]
                                         THEN @ ELSE @ \cup {s}]
    BY <1>3 DEF CheckDue, EnqueueCheck
  <2>2. tx[p].kind = "enqueue"
    BY <1>3 DEF CheckDue, EnqueueCheck
  <2>3. /\ tx'[p].kind = tx[p].kind /\ tx'[p].caps = tx[p].caps
        /\ tx'[p].due \subseteq tx[p].due
    BY <1>0, <2>1 DEF Tx
  <2> QED
    BY <2>2, <2>3 DEF TxFit, TxFits
<1>4. ASSUME NEW s, NEW t, CreateCheck(p, s, t)
      PROVE  TxFit(tx'[p])
  <2>1. tx'[p] = [NoTx EXCEPT !.kind = "create", !.asOf = t, !.chosen = {s}]
    BY <1>0, <1>4 DEF CreateCheck
  <2>2. tx'[p].kind = "create" /\ tx'[p].due = {}
    BY <2>1 DEF NoTx
  <2> QED
    BY <2>2 DEF TxFit
<1> QED
  BY <1>1, <1>2, <1>3, <1>4

LEMMA TxFitsStep ==
  ASSUME TypeInv, TxFits, [Next]_vars
  PROVE  TxFits'
<1>0. /\ tx \in [Procs -> Tx] /\ pc \in [Workers -> PC]
      /\ \A w \in Workers : tx[w].kind # "none" => pc[w] = "enqueue"
      /\ \A p \in Procs : TxFit(tx[p])
      /\ Workers \cap Clients = {}
  BY ConstantsOK DEF TypeInv, TypeOK, TxFits, TxFit
<1>1. /\ \A p \in Procs : TxFit(tx'[p])
      /\ \A w \in Workers : tx'[w].kind # "none" => pc'[w] = "enqueue"
  <2> DEFINE Goal == /\ \A p \in Procs : TxFit(tx'[p])
                     /\ \A w \in Workers : tx'[w].kind # "none" => pc'[w] = "enqueue"
  <2>1. CASE UNCHANGED vars \/ Tick
    BY <1>0, <2>1 DEF vars, Tick, process
  <2>2. ASSUME NEW w \in Workers, tx' = tx,
               \/ pc' = pc
               \/ \E l : pc' = [pc EXCEPT ![w] = l] /\ (pc[w] # "enqueue" \/ l = "enqueue")
        PROVE  Goal
    BY <1>0, <2>2
  <2>3. ASSUME NEW w \in Workers, NEW l, tx' = [tx EXCEPT ![w] = NoTx], pc' = [pc EXCEPT ![w] = l]
        PROVE  Goal
    BY <1>0, <2>3, TxKinds
  <2>4. ASSUME NEW w \in Workers, BeginEnqueue(w) \/ CheckDue(w)
        PROVE  Goal
    <3>1. pc' = pc /\ pc[w] = "enqueue" /\ TxFit(tx'[w])
      BY <1>0, <2>4, TxKinds DEF BeginEnqueue, CheckDue, process
    <3>2. \A p \in Procs : p # w => tx'[p] = tx[p]
      BY <1>0, <2>4 DEF BeginEnqueue, CheckDue, EnqueueSelect, EnqueueCheck
    <3> QED
      BY <1>0, <3>1, <3>2
  <2>5. ASSUME NEW w \in Workers, Worker(w)
        PROVE  Goal
    <3>1. CASE CommitEnqueue(w) \/ AbortEnqueue(w)
      BY <2>3, <3>1 DEF CommitEnqueue, AbortEnqueue, Goto
    <3>2. CASE StartIteration(w) \/ Recover(w)
      BY <2>2, <3>2 DEF StartIteration, Recover, Goto, Rest
    <3>3. CASE ClaimNext(w) \/ Yield(w) \/ BeginWork(w)
      BY <2>2, <3>3 DEF ClaimNext, Yield, BeginWork, Goto, Rest
    <3>4. CASE EndWork(w) \/ Restart(w)
      BY <2>2, <3>4 DEF EndWork, Restart, Goto, Rest
    <3>5. CASE ReportCompleted(w) \/ ReportFailed(w)
      BY <2>2, <3>5 DEF ReportCompleted, ReportFailed, Goto, Rest
    <3> QED
      BY <2>4, <2>5, <3>1, <3>2, <3>3, <3>4, <3>5 DEF Worker
  <2>6. ASSUME NEW w \in Workers,
               \/ Renew(w) \/ RenewFails(w) \/ Shutdown(w) \/ Crash(w)
               \/ \E d \in Dispatch : ClaimById(w, d)
        PROVE  Goal
    <3>1. CASE Crash(w)
      BY <2>3, <3>1 DEF Crash, Goto
    <3> QED
      BY <2>2, <2>6, <3>1 DEF Renew, RenewFails, Shutdown, ClaimById, Goto, Rest, process
  <2>7. ASSUME NEW c \in Clients, Client(c)
        PROVE  Goal
    <3>1. pc' = pc
      BY <2>7 DEF Client, EnqueueDue, CreateDispatch, RetryDispatch, CheckDue, ReadMark,
         CommitRequest, CreateSchedule, ReadUpdate, WriteUpdate, SetArchived, ReadDelete,
         WriteDelete, WriteMark, RecoverStale, Others, process
    <3>2. ASSUME NEW new, tx' = [tx EXCEPT ![c] = new], TxFit(tx'[c])
          PROVE  Goal
      BY <1>0, <3>1, <3>2
    <3>3. CASE EnqueueDue(c)
      BY <3>2, <3>3, TxKinds DEF EnqueueDue, EnqueueSelect
    <3>4. CASE CreateDispatch(c) \/ RetryDispatch(c)
      <4>1. PICK s : CreateCheck(c, s, clock)
        BY <3>4 DEF CreateDispatch, RetryDispatch
      <4> QED
        BY <3>2, <4>1, TxKinds DEF CreateCheck
    <3>5. CASE CommitRequest(c)
      <4>1. tx' = [tx EXCEPT ![c] = NoTx]
        BY <3>5 DEF CommitRequest
      <4>2. TxFit(tx'[c])
        BY <1>0, <4>1, TxKinds
      <4> QED
        BY <3>2, <4>1, <4>2
    <3>6. CASE CheckDue(c)
      <4>1. TxFit(tx'[c])
        BY <3>6, TxKinds
      <4>2. \A p \in Procs : p # c => tx'[p] = tx[p]
        BY <1>0, <3>6 DEF CheckDue, EnqueueCheck
      <4> QED
        BY <1>0, <3>1, <4>1, <4>2
    <3>7. CASE tx' = tx
      BY <1>0, <3>1, <3>7
    <3> QED
      BY <2>7, <3>3, <3>4, <3>5, <3>6, <3>7 DEF Client, ReadMark, CreateSchedule, ReadUpdate,
         WriteUpdate, SetArchived, ReadDelete, WriteDelete, WriteMark, RecoverStale, Others
  <2> QED
    BY <2>1, <2>5, <2>6, <2>7 DEF Next
<1> QED
  BY <1>1, CapsStep DEF TxFits, TxFit

\* A commit delivers one row to each schedule that its transaction has chosen.
LEMMA CommitLoad ==
  ASSUME TypeInv, TypeInv', Step, NEW p \in Procs, Commit(p), tx' = [tx EXCEPT ![p] = NoTx],
         NEW s \in Schedules
  PROVE  Shrinks(s) \/ Delivered(s)
<1>1. Load(s)' \subseteq Load(s) \cup Fresh(s)
  BY LoadStep
<1>2. Pending(s)' \subseteq Pending(s) \ {p}
  BY DEF Pending, NoTx, TypeInv, TypeOK
<1>3. CASE Fresh(s) = {}
  BY <1>1, <1>2, <1>3 DEF Shrinks
<1>4. CASE Fresh(s) # {}
  <2>1. PICK d \in Dispatch : Fresh(s) = {d}
    BY <1>4, CommitFresh DEF Fresh
  <2>2. p \in Pending(s)
    BY <1>4, CommitFresh DEF Pending
  <2> QED
    BY <1>1, <1>2, <2>1, <2>2 DEF Delivered
<1> QED
  BY <1>3, <1>4

\* Recovery refills a schedule up to its limit, or adds nothing to it.
LEMMA RequeueLoad ==
  ASSUME TypeInv, TypeInv', TxFits, Step, NEW t \in Time, RequeueExpired(t), tx' = tx,
         NEW p \in Procs, tx[p].kind = "none", NEW s \in Schedules
  PROVE  Shrinks(s) \/ Refilled(s)
<1>1. Load(s)' \subseteq Load(s) \cup Fresh(s) /\ Pending(s)' = Pending(s)
  BY LoadStep DEF Pending
<1>2. CASE Fresh(s) = {}
  BY <1>1, <1>2 DEF Shrinks
<1>3. CASE Fresh(s) # {}
  <2>1. Open(s) /\ Cardinality(Active(s)') <= schedule[s].cap
    BY <1>3, RequeueRoom
  <2>2. schedule[s].cap \in Caps /\ schedule[s].cap \in Nat
    BY <2>1 DEF Open, TxFits, TypeInv, TypeOK, ScheduleRow
  <2>3. /\ Active(s)' \in SUBSET Dispatch /\ Load(s)' \in SUBSET Active(s)'
        /\ Load(s)' \in SUBSET Dispatch
    BY DEF Active, ActiveIn, Load
  <2>4. Cardinality(Load(s)') <= Cardinality(Active(s)')
    BY <2>3, Finite, FS_Subset
  <2>5. Cardinality(Load(s)') \in Nat /\ Cardinality(Active(s)') \in Nat
    BY <2>3, Finite
  <2>6. Cardinality(Load(s)') <= schedule[s].cap
    BY <2>1, <2>2, <2>4, <2>5
  <2>7. p \notin Pending(s)'
    BY <1>1 DEF Pending, TxFits
  <2> QED
    BY <2>2, <2>6, <2>7 DEF Refilled
<1> QED
  BY <1>2, <1>3

\* A check that lets a transaction through has found room.
LEMMA CheckLoad ==
  ASSUME TypeInv, TxFits, NEW p \in Procs, NEW s \in Schedules, UNCHANGED <<dispatch, marked>>,
         \/ CheckDue(p)
         \/ \E r, t : CreateCheck(p, r, t)
  PROVE  Pending(s)' \subseteq Pending(s) \/ Checked(s)
<1>0. tx \in [Procs -> Tx] /\ tx[p] \in Tx
  BY DEF TypeInv, TypeOK
<1>1. CASE CheckDue(p)
  <2>1. PICK r \in tx[p].due :
          tx' = [tx EXCEPT ![p].due = @ \ {r},
                           ![p].chosen = IF Cardinality(Active(r)) >= tx[p].caps[r]
                                         THEN @ ELSE @ \cup {r}]
    BY <1>1 DEF CheckDue, EnqueueCheck
  <2>2. /\ tx'[p].chosen = IF Cardinality(Active(r)) >= tx[p].caps[r]
                           THEN tx[p].chosen ELSE tx[p].chosen \cup {r}
        /\ \A q \in Procs : q # p => tx'[q] = tx[q]
    BY <1>0, <2>1 DEF Tx
  <2>3. tx[p].caps[r] \in Caps /\ tx[p].caps[r] \in Nat
    BY <2>1, ConstantsOK DEF TxFits
  <2>4. Cardinality(Active(r)) \in Nat
    <3>1. Active(r) \in SUBSET Dispatch
      BY DEF Active, ActiveIn
    <3> QED
      BY <3>1, Finite
  <2>5. CASE Cardinality(Active(r)) >= tx[p].caps[r]
    BY <2>2, <2>5 DEF Pending
  <2>6. CASE ~(Cardinality(Active(r)) >= tx[p].caps[r])
    <3>1. Cardinality(Active(r)) < tx[p].caps[r]
      BY <2>3, <2>4, <2>6
    <3>2. CASE r = s
      BY <2>3, <3>1, <3>2 DEF Checked
    <3>3. CASE r # s
      BY <2>2, <3>3 DEF Pending
    <3> QED
      BY <3>2, <3>3
  <2> QED
    BY <2>5, <2>6
<1>2. ASSUME NEW r, NEW t, CreateCheck(p, r, t)
      PROVE  Pending(s)' \subseteq Pending(s) \/ Checked(s)
  <2>1. tx'[p] = [NoTx EXCEPT !.kind = "create", !.asOf = t, !.chosen = {r}]
        /\ \A q \in Procs : q # p => tx'[q] = tx[q]
    BY <1>0, <1>2 DEF CreateCheck
  <2>2. tx'[p].chosen = {r}
    BY <2>1 DEF NoTx
  <2>3. CASE r # s
    BY <2>1, <2>2, <2>3 DEF Pending
  <2>4. CASE r = s
    BY <1>2, <2>4 DEF Checked, CreateCheck, Open, TxFits
  <2> QED
    BY <2>3, <2>4
<1> QED
  BY <1>1, <1>2

\* Every step is one of the four for every schedule.
LEMMA NextLoad ==
  ASSUME SafetyInv, SafetyInv', TxFits, [Next]_vars, NEW s \in Schedules
  PROVE  Shrinks(s) \/ Checked(s) \/ Delivered(s) \/ Refilled(s)
<1> DEFINE Goal == Shrinks(s) \/ Checked(s) \/ Delivered(s) \/ Refilled(s)
<1>0. TypeInv /\ TypeInv' /\ Step /\ MarksMatchRows
  BY NextStep DEF SafetyInv
<1>1. ASSUME \/ dispatch' = dispatch
             \/ \E d \in Dispatch : dispatch[d].status # "absent" /\ Alone(d),
             Pending(s)' \subseteq Pending(s)
      PROVE  Goal
  BY <1>0, <1>1, LoadStep, NothingFresh DEF Shrinks
<1>2. CASE UNCHANGED <<dispatch, tx>>
  BY <1>1, <1>2 DEF Pending
<1>3. ASSUME NEW d \in Dispatch, NEW r, dispatch[d].status # "absent",
             dispatch' = [dispatch EXCEPT ![d] = r], tx' = tx
      PROVE  Goal
  <2>1. Alone(d)
    BY <1>0, <1>3 DEF Alone, TypeInv, TypeOK
  <2> QED
    BY <1>1, <1>3, <2>1 DEF Pending
<1>4. ASSUME NEW p \in Procs, tx' = [tx EXCEPT ![p] = NoTx], dispatch' = dispatch \/ Commit(p)
      PROVE  Goal
  <2>1. Pending(s)' \subseteq Pending(s)
    BY <1>0, <1>4 DEF Pending, NoTx, TypeInv, TypeOK
  <2> QED
    BY <1>0, <1>1, <1>4, <2>1, CommitLoad
<1>5. ASSUME NEW p \in Procs, NEW t, EnqueueSelect(p, t), dispatch' = dispatch
      PROVE  Goal
  <2>1. tx'[p].chosen = {} /\ \A q \in Procs : q # p => tx'[q] = tx[q]
    BY <1>0, <1>5 DEF EnqueueSelect, TypeInv, TypeOK
  <2>2. Pending(s)' \subseteq Pending(s)
    BY <2>1 DEF Pending
  <2> QED
    BY <1>1, <1>5, <2>2
<1>6. ASSUME NEW p \in Procs, UNCHANGED <<dispatch, marked>>,
             CheckDue(p) \/ \E r, t : CreateCheck(p, r, t)
      PROVE  Goal
  BY <1>0, <1>1, <1>6, CheckLoad
<1>7. ASSUME NEW w \in Workers, Worker(w)
      PROVE  Goal
  <2>1. CASE StartIteration(w) \/ Yield(w) \/ BeginWork(w) \/ EndWork(w) \/ Restart(w)
    BY <1>2, <2>1 DEF StartIteration, Yield, BeginWork, EndWork, Restart, tables, Rest
  <2>2. CASE Recover(w)
    <3>1. now[w] \in Time /\ tx[w].kind = "none"
      BY <1>0, <2>2 DEF Recover, TypeInv, TypeOK, TxFits
    <3> QED
      BY <1>0, <2>2, <3>1, RequeueLoad DEF Recover, Rest
  <2>3. CASE BeginEnqueue(w)
    BY <1>5, <2>3 DEF BeginEnqueue, tables
  <2>4. CASE CheckDue(w)
    BY <1>6, <2>4 DEF CheckDue, tables
  <2>5. CASE CommitEnqueue(w) \/ AbortEnqueue(w)
    BY <1>4, <2>5 DEF CommitEnqueue, AbortEnqueue, tables
  <2>6. CASE ClaimNext(w)
    <3>1. PICK d \in Oldest : ClaimRow(w, d, now[w])
      BY <2>6 DEF ClaimNext
    <3> QED
      BY <1>3, <2>6, <3>1 DEF ClaimNext, ClaimRow, Oldest, Enqueued, Rest
  <2>7. CASE ReportCompleted(w) \/ ReportFailed(w)
    <3>1. CASE dispatch' = dispatch
      BY <1>2, <2>7, <3>1 DEF ReportCompleted, ReportFailed, Rest
    <3>2. CASE dispatch' # dispatch
      <4>1. /\ Holds(w) /\ pc[w] \in {"report", "fail"} /\ tx' = tx
            /\ Finish(w, "completed") \/ Finish(w, "failed")
        BY <2>7, <3>2 DEF ReportCompleted, ReportFailed, Rest
      <4>2. job[w] \in Dispatch
        BY <1>0, <4>1 DEF TypeInv, TypeOK, JobsMatchPC, Busy
      <4> QED
        BY <1>3, <4>1, <4>2 DEF Holds, Finish
    <3> QED
      BY <3>1, <3>2
  <2> QED
    BY <1>7, <2>1, <2>2, <2>3, <2>4, <2>5, <2>6, <2>7 DEF Worker
<1>8. ASSUME NEW w \in Workers,
             \/ Renew(w) \/ RenewFails(w) \/ Shutdown(w) \/ Crash(w)
             \/ \E d \in Dispatch : ClaimById(w, d)
      PROVE  Goal
  <2>1. CASE Renew(w)
    <3>1. job[w] \in Dispatch
      BY <1>0, <2>1 DEF Renew, TypeInv, TypeOK, JobsMatchPC, Busy
    <3> QED
      BY <1>3, <2>1, <3>1 DEF Renew, Holds, Rest
  <2>2. CASE RenewFails(w) \/ Shutdown(w)
    BY <1>2, <2>2 DEF RenewFails, Shutdown, tables, Rest
  <2>3. CASE Crash(w)
    BY <1>4, <2>3 DEF Crash, tables
  <2>4. ASSUME NEW d \in Dispatch, ClaimById(w, d)
        PROVE  Goal
    BY <1>3, <2>4 DEF ClaimById, ClaimRow, Rest
  <2> QED
    BY <1>8, <2>1, <2>2, <2>3, <2>4
<1>9. ASSUME NEW c \in Clients, Client(c)
      PROVE  Goal
  <2>1. CASE \/ ReadMark(c) \/ CreateSchedule(c) \/ ReadUpdate(c) \/ WriteUpdate(c)
             \/ SetArchived(c) \/ ReadDelete(c) \/ WriteDelete(c)
    BY <1>2, <2>1 DEF ReadMark, CreateSchedule, ReadUpdate, WriteUpdate, SetArchived,
       ReadDelete, WriteDelete, tables
  <2>2. CASE EnqueueDue(c)
    BY <1>5, <2>2 DEF EnqueueDue, tables
  <2>3. CASE CreateDispatch(c) \/ RetryDispatch(c) \/ CheckDue(c)
    BY <1>6, <2>3 DEF CreateDispatch, RetryDispatch, CheckDue, tables, Others
  <2>4. CASE CommitRequest(c)
    BY <1>4, <2>4 DEF CommitRequest, tables
  <2>5. CASE RecoverStale(c)
    <3>1. clock \in Time /\ tx[c].kind = "none"
      BY <1>0, <2>5 DEF RecoverStale, Begins, Idle, TypeInv, TypeOK
    <3> QED
      BY <1>0, <2>5, <3>1, RequeueLoad DEF RecoverStale
  <2>6. CASE WriteMark(c)
    <3>1. view[c].dispatch \in Dispatch /\ dispatch[view[c].dispatch].status # "absent"
      BY <1>0, <2>6 DEF WriteMark, MarksMatchRows, TypeInv, TypeOK, View
    <3> QED
      BY <1>3, <2>6, <3>1 DEF WriteMark
  <2> QED
    BY <1>9, <2>1, <2>2, <2>3, <2>4, <2>5, <2>6 DEF Client
<1>10. CASE UNCHANGED vars \/ Tick
  BY <1>2, <1>10 DEF vars, Tick, tables
<1> QED
  BY <1>7, <1>8, <1>9, <1>10 DEF Next

LEMMA InitOvershoot == Init => TxFits /\ OvershootBounded
<1> SUFFICES ASSUME Init PROVE TxFits /\ OvershootBounded
  OBVIOUS
<1>1. \A p \in Procs : tx[p].kind = "none" /\ tx[p].chosen = {} /\ tx[p].due = {}
  BY DEF Init, NoTx
<1>2. \A s \in Schedules : schedule[s].cap \in Caps
  BY DEF Init, NewSchedule
<1>3. \A s \in Schedules : Active(s) \ marked = {} /\ {p \in Procs : s \in tx[p].chosen} = {}
  BY <1>1 DEF Init, Absent, Active, ActiveIn
<1>4. \A n \in Nat : 0 + 0 <= n + Cardinality(Procs) - 1
  BY Finite
<1> QED
  BY <1>1, <1>2, <1>3, <1>4, FS_EmptySet, ConstantsOK DEF TxFits, OvershootBounded

\* The checks of max_concurrency may let a schedule overshoot its limit, but never by
\* more than the other processes: a check that found room, a commit and a recovery
\* leave the sum of the active rows and of those about to be added below the bound.
THEOREM OvershootIsBounded == Spec => []OvershootBounded
<1>1. Init => TxFits /\ OvershootBounded
  BY InitOvershoot
<1>2. SafetyInv /\ SafetyInv' /\ TxFits /\ OvershootBounded /\ [Next]_vars
         => TxFits' /\ OvershootBounded'
  <2> SUFFICES ASSUME SafetyInv, SafetyInv', TxFits, OvershootBounded, [Next]_vars
               PROVE  TxFits' /\ OvershootBounded'
    OBVIOUS
  <2>1. TxFits'
    BY TxFitsStep DEF SafetyInv
  <2>2. \A s \in Schedules : \E cap \in Caps :
           Cardinality(Load(s)') + Cardinality(Pending(s)') <= cap + Cardinality(Procs) - 1
    BY NextLoad, LoadBounded
  <2> QED
    BY <2>1, <2>2 DEF OvershootBounded, Load, Pending
<1> QED
  BY <1>1, <1>2, Safety, PTL DEF Spec
=============================================================================

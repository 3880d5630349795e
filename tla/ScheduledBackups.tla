---------------------------- MODULE ScheduledBackups ----------------------------
(***************************************************************************)
(* Scheduled backups beside live ingestion.  A bundle is captured store by *)
(* store (control plane, warehouse, landing payloads) while other          *)
(* processes keep ingesting, staged, verified, renamed to its final name,  *)
(* and only then are older bundles pruned and the outcome recorded.  The   *)
(* worker loop runs one when it is due, an operator whenever he likes; an  *)
(* advisory lock keeps them apart.                                         *)
(*                                                                         *)
(* What is ingested is a set of runs: a payload, then a row, then facts.   *)
(* Times are ages, which stop counting once they no longer matter.  A      *)
(* bundle is stamped with the time its attempt began, before the lock, so  *)
(* it is listed before those of the attempts that have overtaken it.       *)
(* Staging directories are never listed and removed by the next backup,    *)
(* and are left out.                                                       *)
(***************************************************************************)
EXTENDS Integers, Sequences, FiniteSets, FiniteSetsExt, SequencesExt

CONSTANTS Ingested,       \* the runs that come in
          Loops,          \* worker loops, which back up when it is due
          Operators,      \* scheduled-backup commands, which do so regardless
          Nobody, Writer,
          Interval, Retry,     \* interval_seconds and the wait after a failure
          Retention,           \* retention_count
          MaxCommands, MaxFaults    \* bounds of the model

Runners == Loops \cup Operators

ASSUME ConstantsOK ==
  /\ Loops \cap Operators = {} /\ Nobody \notin Runners /\ Writer \notin Runners \cup {Nobody}
  /\ Interval \in Nat \ {0} /\ Retry \in 1..Interval
  /\ Retention \in Nat \ {0}
  /\ MaxCommands \in Nat /\ MaxFaults \in Nat

Ages == 0..Interval

VARIABLES payloads, rows, facts,  \* what the live stores hold of each run
          warehouse,  \* who has the warehouse file open: the writer, a backup or nobody
          lock,       \* who holds .backup.lock
          bundles,    \* the directories list_bundles returns, oldest first
          status,     \* backup-status.json: how long ago it last succeeded and failed
          runner,     \* what each backup is doing
          commands, faults   \* how much of the bounds has been used

live == <<payloads, rows, facts>>
vars == <<live, warehouse, lock, bundles, status, runner, commands, faults>>

Resting == [pc |-> "idle", age |-> 0, previous |-> [success |-> Interval, failure |-> Interval],
            overtaken |-> 0, held |-> {}, rows |-> {}, facts |-> {}, payloads |-> {}]

Init ==
  /\ payloads = {} /\ rows = {} /\ facts = {}
  /\ warehouse = Nobody /\ lock = Nobody
  /\ bundles = <<>>
  /\ status = [success |-> Interval, failure |-> Interval]
  /\ runner = [r \in Runners |-> Resting]
  /\ commands = 0 /\ faults = 0

At(r, pc) == runner[r].pc = pc
Goto(r, pc) == runner' = [runner EXCEPT ![r].pc = pc]

-----------------------------------------------------------------------------
(* Live ingestion *)

WritePayload(i) ==
  /\ i \notin payloads
  /\ payloads' = payloads \cup {i}
  /\ UNCHANGED <<rows, facts, warehouse, lock, bundles, status, runner, commands, faults>>

CreateRun(i) ==
  /\ i \in payloads \ rows
  /\ rows' = rows \cup {i}
  /\ UNCHANGED <<payloads, facts, warehouse, lock, bundles, status, runner, commands, faults>>

OpenForWriting ==
  /\ warehouse = Nobody /\ rows \ facts # {}
  /\ warehouse' = Writer
  /\ UNCHANGED <<live, lock, bundles, status, runner, commands, faults>>

LoadFacts(i) ==
  /\ warehouse = Writer /\ i \in rows \ facts
  /\ facts' = facts \cup {i} /\ warehouse' = Nobody
  /\ UNCHANGED <<payloads, rows, lock, bundles, status, runner, commands, faults>>

-----------------------------------------------------------------------------
(* The schedule *)

Older(age) == Min({age + 1, Interval})
OlderStatus(s) == [success |-> Older(s.success), failure |-> Older(s.failure)]

Tick ==
  /\ status' = OlderStatus(status)
  /\ runner' = [r \in Runners |->
       IF At(r, "idle") THEN runner[r]
       ELSE [runner[r] EXCEPT !.age = Older(@), !.previous = OlderStatus(@)]]
  /\ <<status', runner'>> # <<status, runner>>
  /\ UNCHANGED <<live, warehouse, lock, bundles, commands, faults>>

\* backup_due
BackupDue ==
  /\ status.success = Interval
  /\ ~(status.failure < status.success /\ status.failure < Retry)

\* the status file is read before the lock is taken
Begin(r) ==
  /\ At(r, "idle")
  /\ runner' = [runner EXCEPT ![r] = [Resting EXCEPT !.pc = "locking",
                  !.previous = status, !.held = payloads \cap rows \cap facts]]
  /\ UNCHANGED <<live, warehouse, lock, bundles, status, faults>>

BeginScheduled(r) == BackupDue /\ Begin(r) /\ UNCHANGED commands
BeginCommand(r) == commands < MaxCommands /\ Begin(r) /\ commands' = commands + 1

TakeLock(r) ==
  /\ At(r, "locking") /\ lock = Nobody
  /\ lock' = r /\ Goto(r, "control")
  /\ UNCHANGED <<live, warehouse, bundles, status, commands, faults>>

LockTaken(r) ==
  /\ At(r, "locking") /\ lock # Nobody
  /\ Goto(r, "failing")
  /\ UNCHANGED <<live, warehouse, lock, bundles, status, commands, faults>>

-----------------------------------------------------------------------------
(* One bundle *)

CaptureControlPlane(r) ==
  /\ At(r, "control")
  /\ runner' = [runner EXCEPT ![r].pc = "opening", ![r].rows = rows]
  /\ UNCHANGED <<live, warehouse, lock, bundles, status, commands, faults>>

\* the read-only guard, which a writer refuses and which refuses writers
OpenWarehouse(r) ==
  /\ At(r, "opening") /\ warehouse = Nobody
  /\ warehouse' = r /\ Goto(r, "copying")
  /\ UNCHANGED <<live, lock, bundles, status, commands, faults>>

CaptureWarehouse(r) ==
  /\ At(r, "copying")
  /\ runner' = [runner EXCEPT ![r].pc = "landing", ![r].facts = facts]
  /\ warehouse' = Nobody
  /\ UNCHANGED <<live, lock, bundles, status, commands, faults>>

\* mutant: the copy stops at the runs the control plane knows
PayloadsOfRows(r) == runner[r].rows

PayloadsFound(r) == payloads

CaptureLanding(r) ==
  /\ At(r, "landing")
  /\ runner' = [runner EXCEPT ![r].pc = "staged", ![r].payloads = PayloadsFound(r)]
  /\ UNCHANGED <<live, warehouse, lock, bundles, status, commands, faults>>

\* How many of the listed bundles have a later stamp than its own
LaterBundles(r) == Min({runner[r].overtaken, Len(bundles)})

\* The attempts still on their way to the lock that read the clock before r did;
\* of equal ages either may have been first.
Overtaken(r) ==
  LET waiting == {q \in Runners \ {r} : At(q, "locking")}
  IN {behind \in SUBSET waiting :
        \A q \in waiting : /\ runner[q].age > runner[r].age => q \in behind
                           /\ runner[q].age < runner[r].age => q \notin behind}

\* the staged bundle has been verified and gets its final name
Publish(r) ==
  LET me == runner[r] IN
    /\ At(r, "staged")
    /\ bundles' = InsertAt(bundles, Len(bundles) + 1 - LaterBundles(r),
                    [rows |-> me.rows, facts |-> me.facts,
                     payloads |-> me.payloads, held |-> me.held, whole |-> TRUE])
    /\ \E behind \in Overtaken(r) :
         runner' = [q \in Runners |->
           IF q = r THEN [me EXCEPT !.pc = "pruning", !.overtaken = 0]
           ELSE IF q \in behind THEN [runner[q] EXCEPT !.overtaken = LaterBundles(q) + 1]
           ELSE runner[q]]
    /\ UNCHANGED <<live, warehouse, lock, status, commands, faults>>

\* mutant: the directories are pruned newest first
DoomedNewest == Len(bundles)

Doomed == 1

\* prune_bundles deletes a directory file by file
Prune(r) ==
  /\ At(r, "pruning") /\ Len(bundles) > Retention
  /\ bundles' = [bundles EXCEPT ![Doomed].whole = FALSE]
  /\ Goto(r, "removing")
  /\ UNCHANGED <<live, warehouse, lock, status, commands, faults>>

FinishRemoval(r) ==
  /\ At(r, "removing")
  /\ bundles' = RemoveAt(bundles, Doomed)
  /\ Goto(r, "pruning")
  /\ UNCHANGED <<live, warehouse, lock, status, commands, faults>>

\* what is recorded is when the attempt began
RecordSuccess(r) ==
  /\ At(r, "pruning") /\ Len(bundles) <= Retention
  /\ status' = [success |-> runner[r].age, failure |-> runner[r].previous.failure]
  /\ lock' = Nobody
  /\ runner' = [runner EXCEPT ![r] = Resting]
  /\ UNCHANGED <<live, warehouse, bundles, commands, faults>>

-----------------------------------------------------------------------------
(* Failures *)

\* a directory whose deletion stops half-way stays listed while its manifest
\* is there
StoppedRemoving(r) ==
  IF At(r, "removing") THEN bundles' \in {bundles, RemoveAt(bundles, Doomed)}
  ELSE UNCHANGED bundles

\* mutant: the lock outlives a failed attempt
LetGoKeepingLock(r) ==
  /\ lock' = lock
  /\ warehouse' = IF warehouse = r THEN Nobody ELSE warehouse

LetGo(r) ==
  /\ lock' = IF lock = r THEN Nobody ELSE lock
  /\ warehouse' = IF warehouse = r THEN Nobody ELSE warehouse

\* a writer outlasted the retries
WarehouseBusy(r) ==
  /\ At(r, "opening") /\ warehouse = Writer
  /\ LetGo(r) /\ Goto(r, "failing")
  /\ UNCHANGED <<live, bundles, status, commands, faults>>

\* a copy, the verification or the pruning fails
Fail(r) ==
  /\ runner[r].pc \in {"control", "opening", "copying", "landing", "staged", "pruning", "removing"}
  /\ faults < MaxFaults
  /\ faults' = faults + 1
  /\ LetGo(r) /\ StoppedRemoving(r) /\ Goto(r, "failing")
  /\ UNCHANGED <<live, status, commands>>

\* the failure carries over what was read before the attempt
FailureStatus(r) == [success |-> runner[r].previous.success, failure |-> runner[r].age]

\* outside the lock
RecordFailure(r) ==
  /\ At(r, "failing")
  /\ status' = FailureStatus(r)
  /\ runner' = [runner EXCEPT ![r] = Resting]
  /\ UNCHANGED <<live, warehouse, lock, bundles, commands, faults>>

Crash(r) ==
  /\ ~At(r, "idle") /\ faults < MaxFaults
  /\ faults' = faults + 1
  /\ LetGo(r) /\ StoppedRemoving(r)
  /\ runner' = [runner EXCEPT ![r] = Resting]
  /\ UNCHANGED <<live, status, commands>>

-----------------------------------------------------------------------------
Ingest ==
  \/ \E i \in Ingested : WritePayload(i) \/ CreateRun(i) \/ LoadFacts(i)
  \/ OpenForWriting

Attempt(r) ==
  \/ TakeLock(r) \/ LockTaken(r)
  \/ CaptureControlPlane(r) \/ OpenWarehouse(r) \/ CaptureWarehouse(r) \/ CaptureLanding(r)
  \/ Publish(r) \/ Prune(r) \/ FinishRemoval(r) \/ RecordSuccess(r)
  \/ WarehouseBusy(r) \/ RecordFailure(r)

Next ==
  \/ Ingest \/ Tick
  \/ \E r \in Loops : BeginScheduled(r)
  \/ \E r \in Operators : BeginCommand(r)
  \/ \E r \in Runners : Attempt(r) \/ Fail(r) \/ Crash(r)

Spec == Init /\ [][Next]_vars

\* time passes, the worker loop polls, an attempt goes on, and a writer that
\* has the warehouse lets go of it
FairSpec ==
  /\ Spec
  /\ WF_vars(Tick)
  /\ WF_vars(\E i \in Ingested : LoadFacts(i))
  /\ \A r \in Loops : WF_vars(BeginScheduled(r))
  /\ \A r \in Runners : WF_vars(Attempt(r))

-----------------------------------------------------------------------------
(* Properties *)

StatusType == [success : Ages, failure : Ages]

TypeOK ==
  /\ payloads \subseteq Ingested /\ rows \subseteq Ingested /\ facts \subseteq Ingested
  /\ warehouse \in Runners \cup {Nobody, Writer} /\ lock \in Runners \cup {Nobody}
  /\ bundles \in Seq([rows : SUBSET Ingested, facts : SUBSET Ingested,
       payloads : SUBSET Ingested, held : SUBSET Ingested, whole : BOOLEAN])
  /\ status \in StatusType
  /\ runner \in [Runners ->
       [pc : {"idle", "locking", "control", "opening", "copying", "landing", "staged",
              "pruning", "removing", "failing"},
        age : Ages, previous : StatusType, overtaken : Nat, held : SUBSET Ingested,
        rows : SUBSET Ingested, facts : SUBSET Ingested, payloads : SUBSET Ingested]]
  /\ commands \in 0..MaxCommands /\ faults \in 0..MaxFaults

\* Although the stores are captured one after the other while ingestion goes on, a
\* bundle holds the payload of every run row and of every fact in it; and what was
\* fully ingested when the backup began is in all three.  Of runs that came in later
\* it may have the row without the facts, or the facts without the row.
BundlesCoherent ==
  \A b \in Range(bundles) :
    /\ b.rows \cup b.facts \subseteq b.payloads
    /\ b.held \subseteq b.rows \cap b.facts \cap b.payloads

\* the newest listed bundle, the one a drill or a restore takes
Restorable == bundles # <<>> /\ Last(bundles).whole

\* Once there is a bundle to restore there always is one, wherever pruning
\* stops and whoever else backs up.
AlwaysRestorable == [][Restorable => Restorable']_vars

\* An overdue backup is followed by a published bundle, overlapping commands, a few
\* failures and writers that let go in the end notwithstanding (ingestion, commands
\* and faults are bounded: a warehouse that is busy at every attempt is not met).
BackupsKeepComing == (status.success = Interval) ~> (\E r \in Runners : At(r, "pruning"))

=============================================================================

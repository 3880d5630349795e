------------------------------- MODULE Ingestion -------------------------------
(***************************************************************************)
(* Statement files on their way into the marts: the worker lands the files *)
(* of a watched folder and then promotes the runs, the API lands uploads   *)
(* and retries one by one, and promote-run promotes a run again.  Landing  *)
(* and promotion are several commits in two databases and a directory, and *)
(* any process can fail between two of them.                               *)
(*                                                                         *)
(* A file is a content, a content gives each of its transactions a         *)
(* description or leaves it blank.  The order of the rows of a file does   *)
(* not matter: a transaction occurs once in it.                            *)
(***************************************************************************)
EXTENDS Integers, Sequences, FiniteSets, Functions

CONSTANTS Files,         \* the statement files somebody drops into the folder
          Contents, Transactions, Descriptions,
          ContentOf,     \* what each file holds
          RowsOf,        \* the rows of each content, by transaction
          Valid,         \* the contents their contract accepts
          Workers,       \* the processes of the dispatch loop
          Commands,      \* command-line processes: these two keep the warehouse open
          Clients,       \* API requests, which lease it call by call
          Nobody,
          MaxRuns, MaxUploads, MaxPromotes, MaxFaults   \* bounds of the model

Blank == "blank"
Unknown == "unknown"

ASSUME ConstantsOK ==
  /\ Workers \cap Clients = {} /\ Workers \cap Commands = {} /\ Commands \cap Clients = {}
  /\ Nobody \notin Workers \cup Commands \cup Clients
  /\ Blank \notin Descriptions /\ Unknown \notin Descriptions
  /\ "none" \notin Files /\ Valid \subseteq Contents
  /\ ContentOf \in [Files -> Contents]
  /\ \A c \in Contents : \E ts \in SUBSET Transactions :
       RowsOf[c] \in [ts -> Descriptions \cup {Blank}]
  /\ MaxRuns \in Nat /\ MaxUploads \in Nat /\ MaxPromotes \in Nat /\ MaxFaults \in Nat

Procs == Workers \cup Commands \cup Clients

VARIABLES place,      \* where each file is
          runs,       \* ingestion_runs: the content of each run and whether it passed
          proc,       \* what each process is doing
          handle,     \* who has the warehouse open for writing
          factOf,     \* fact_transaction: the run that loaded each transaction, or 0
          current,    \* fact_transaction_current: each description, or Unknown
          mart,       \* the transactions mart_monthly_cashflow adds up
          published,  \* the transactions the published copy adds up
          reconciled, \* runs whose observations have been reconciled
          torn,       \* runs loaded by a process that failed before reconciling
          abandoned,  \* runs whose promotion a failure cut short
          returned,   \* runs a promotion of which ended well
          uploads, promotes, faults   \* how much of the bounds has been used

folder == <<place, runs>>
warehouse == <<factOf, current, mart, published, reconciled>>
history == <<torn, abandoned, returned>>
bounds == <<uploads, promotes, faults>>
vars == <<folder, proc, handle, warehouse, history, bounds>>

Idle == [pc |-> "idle", file |-> "none", content |-> "none", retry |-> FALSE,
         run |-> 0, duplicate |-> FALSE, left |-> {}, todo |-> <<>>, copy |-> {}]

NoRun == [content |-> "none", passed |-> FALSE, recorded |-> FALSE]

Init ==
  /\ place = [f \in Files |-> "elsewhere"]
  /\ runs = <<>>
  /\ proc = [p \in Procs |-> Idle]
  /\ handle = Nobody
  /\ factOf = [t \in Transactions |-> 0]
  /\ current = [t \in Transactions |-> Unknown]
  /\ mart = {} /\ published = {} /\ reconciled = {}
  /\ torn = {} /\ abandoned = {} /\ returned = {}
  /\ uploads = 0 /\ promotes = 0 /\ faults = 0

Recorded == {r \in DOMAIN runs : runs[r].recorded}
Passed == {r \in Recorded : runs[r].passed}
Rows(r) == RowsOf[runs[r].content]
Known == {t \in Transactions : current[t] # Unknown}
At(p, pc) == proc[p].pc = pc

-----------------------------------------------------------------------------
(* Landing *)

\* somebody drops a file into the watched folder
Arrive(f) ==
  /\ place[f] = "elsewhere"
  /\ place' = [place EXCEPT ![f] = "inbox"]
  /\ UNCHANGED <<runs, proc, handle, warehouse, history, bounds>>

Inbox == {f \in Files : place[f] = "inbox"}

\* a dispatch: the files are listed once, at the start
StartDispatch(w) ==
  /\ At(w, "idle") /\ Inbox # {}
  /\ proc' = [proc EXCEPT ![w] = [Idle EXCEPT !.pc = "scanning", !.left = Inbox]]
  /\ UNCHANGED <<folder, handle, warehouse, history, bounds>>

\* find_run_by_sha256: runs that did not pass do not count
AlreadyLanded(c) == \E r \in Passed : runs[r].content = c

\* the payload is written and the duplicate check made; the run has no row yet
Land(p, c, retry, next) ==
  /\ Len(runs) < MaxRuns
  /\ runs' = Append(runs, [NoRun EXCEPT !.content = c])
  /\ proc' = [proc EXCEPT ![p] = [next EXCEPT !.pc = "landing", !.content = c,
                !.retry = retry, !.run = Len(runs'), !.duplicate = ~retry /\ AlreadyLanded(c)]]
  /\ UNCHANGED <<place, handle, warehouse, history>>

\* the next listed file that is still there
TakeFile(w, f) ==
  /\ At(w, "scanning") /\ f \in proc[w].left
  /\ place[f] = "inbox"
  /\ Land(w, ContentOf[f], FALSE,
          [proc[w] EXCEPT !.file = f, !.left = @ \ {f}])
  /\ UNCHANGED bounds

Uploading(p) ==
  /\ At(p, "idle") /\ uploads < MaxUploads
  /\ uploads' = uploads + 1
  /\ UNCHANGED <<promotes, faults>>

Upload(p, c) ==
  /\ Uploading(p)
  /\ Land(p, c, FALSE, Idle)

\* POST /runs/{run_id}/retry lands the payload of a run again, duplicate or not
Retry(p, r) ==
  /\ Uploading(p) /\ r \in Recorded
  /\ Land(p, runs[r].content, TRUE, Idle)

\* the manifest and then the row; only a run that passed is promoted by the
\* process that landed it, but a dispatch hands all of its runs to promotion
CreateRun(p) ==
  LET me == proc[p]
      passed == me.content \in Valid /\ ~me.duplicate
  IN /\ At(p, "landing")
     /\ runs' = [runs EXCEPT ![me.run].passed = passed, ![me.run].recorded = TRUE]
     /\ proc' = [proc EXCEPT ![p] =
          IF me.file # "none" THEN [me EXCEPT !.pc = "moving", !.todo = Append(@, me.run)]
          ELSE IF passed THEN [me EXCEPT !.pc = "promoting", !.todo = <<me.run>>]
          ELSE Idle]
     /\ UNCHANGED <<place, handle, warehouse, history, bounds>>

Destination(r) == IF runs[r].passed THEN "processed" ELSE "failed"

\* (if another worker has moved the file meanwhile, this fails: Abandon)
MoveFile(w) ==
  LET me == proc[w] IN
    /\ At(w, "moving")
    /\ place[me.file] = "inbox"
    /\ place' = [place EXCEPT ![me.file] = Destination(me.run)]
    /\ proc' = [proc EXCEPT ![w] = [me EXCEPT !.pc = "scanning", !.file = "none"]]
    /\ UNCHANGED <<runs, handle, warehouse, history, bounds>>

EndScan(w) ==
  /\ At(w, "scanning") /\ proc[w].left \cap Inbox = {}
  /\ proc' = [proc EXCEPT ![w] = IF proc[w].todo = <<>> THEN Idle
                                 ELSE [proc[w] EXCEPT !.pc = "promoting"]]
  /\ UNCHANGED <<folder, handle, warehouse, history, bounds>>

-----------------------------------------------------------------------------
(* Promotion *)

\* the command promote-run
PromoteRun(p, r) ==
  /\ At(p, "idle") /\ r \in Recorded /\ promotes < MaxPromotes
  /\ promotes' = promotes + 1
  /\ proc' = [proc EXCEPT ![p] = [Idle EXCEPT !.pc = "promoting", !.todo = <<r>>]]
  /\ UNCHANGED <<folder, handle, warehouse, history, uploads, faults>>

\* A worker or a command opens the warehouse once and keeps it; a request holds
\* its lease for one call, so the next caller may come in between.
Enter(p) == handle \in {Nobody, p} /\ handle' = p
Leave(p) == handle' = IF p \in Clients THEN Nobody ELSE p

Promoting(p, pc) == At(p, pc) /\ proc[p].todo # <<>>
Doing(p) == Head(proc[p].todo)

SkipUnpassed(p) ==
  /\ Promoting(p, "promoting") /\ ~runs[Doing(p)].passed
  /\ handle \in {Nobody, p} /\ Leave(p)
  /\ proc' = [proc EXCEPT ![p].todo = Tail(@)]
  /\ UNCHANGED <<folder, warehouse, history, bounds>>

\* mutant: a run counts as promoted when any of its transactions is known
AnyRowKnown(r) == \E t \in DOMAIN Rows(r) : factOf[t] # 0

\* count_existing: a fact still carries the run
AlreadyPromoted(r) == \E t \in Transactions : factOf[t] = r

CountExisting(p) ==
  /\ Promoting(p, "promoting") /\ runs[Doing(p)].passed
  /\ handle \in {Nobody, p} /\ Leave(p)
  /\ proc' = [proc EXCEPT ![p].pc = IF AlreadyPromoted(Doing(p)) THEN "refreshing" ELSE "loading"]
  /\ UNCHANGED <<folder, warehouse, history, bounds>>

\* load_transactions: the facts and observations of the run in one
\* transaction, facts that are there already left alone
Load(p) ==
  /\ At(p, "loading") /\ Enter(p)
  /\ factOf' = [t \in Transactions |->
       IF t \in DOMAIN Rows(Doing(p)) /\ factOf[t] = 0 THEN Doing(p) ELSE factOf[t]]
  /\ proc' = [proc EXCEPT ![p].pc = "reconciling"]
  /\ UNCHANGED <<folder, current, mart, published, reconciled, history, bounds>>

\* mutant: whatever the newer statement says replaces the description
LatestOf(known, seen) == seen

\* mutant: the first statement stands, described or not
FirstOf(known, seen) == IF known = Unknown THEN seen ELSE known

\* the first description that is not blank stands
RicherOf(known, seen) == IF known \in {Unknown, Blank} THEN seen ELSE known

\* reconcile_batch, in a transaction of its own
Reconcile(p) ==
  LET rows == Rows(Doing(p)) IN
    /\ At(p, "reconciling") /\ handle = p /\ Leave(p)
    /\ current' = [t \in Transactions |->
         IF t \in DOMAIN rows THEN RicherOf(current[t], rows[t]) ELSE current[t]]
    /\ reconciled' = reconciled \cup {Doing(p)}
    /\ proc' = [proc EXCEPT ![p].pc = "refreshing"]
    /\ UNCHANGED <<folder, factOf, mart, published, history, bounds>>

\* the marts are emptied and filled again, statement by statement
ClearMart(p) ==
  /\ At(p, "refreshing") /\ Enter(p)
  /\ mart' = {}
  /\ proc' = [proc EXCEPT ![p].pc = "filling"]
  /\ UNCHANGED <<folder, factOf, current, published, reconciled, history, bounds>>

\* mutant: the mart is filled with the transactions that have a description
Described == {t \in Known : current[t] # Blank}

MartRows == Known

FillMart(p) ==
  /\ At(p, "filling") /\ handle = p /\ Leave(p)
  /\ mart' = MartRows
  /\ returned' = returned \cup {Doing(p)}
  /\ proc' = [proc EXCEPT ![p] = [proc[p] EXCEPT !.pc = "promoting", !.todo = Tail(@)]]
  /\ UNCHANGED <<folder, factOf, current, published, reconciled, torn, abandoned, bounds>>

\* publish_publications reads the mart and then replaces the published rows in
\* the other database
ReadMart(p) ==
  /\ At(p, "promoting") /\ proc[p].todo = <<>>
  /\ handle \in {Nobody, p} /\ Leave(p)
  /\ proc' = [proc EXCEPT ![p] = [@ EXCEPT !.pc = "publishing", !.copy = mart]]
  /\ UNCHANGED <<folder, warehouse, history, bounds>>

ReplaceRows(p) ==
  /\ At(p, "publishing")
  /\ published' = proc[p].copy
  /\ proc' = [proc EXCEPT ![p] = Idle]
  /\ handle' = IF handle = p THEN Nobody ELSE handle
  /\ UNCHANGED <<folder, factOf, current, mart, reconciled, history, bounds>>

-----------------------------------------------------------------------------
\* A process dies, or an exception ends what it was doing (the warehouse stayed
\* busy, a statement failed).  A dispatch that is recovered starts over.
Abandon(p) ==
  LET me == proc[p]
      unpromoted == IF me.pc = "publishing" THEN {} ELSE Range(me.todo)
  IN /\ ~At(p, "idle") /\ faults < MaxFaults
     /\ faults' = faults + 1
     /\ proc' = [proc EXCEPT ![p] = Idle]
     /\ handle' = IF handle = p THEN Nobody ELSE handle
     /\ abandoned' = abandoned \cup unpromoted
     /\ torn' = IF me.pc = "reconciling" THEN torn \cup {Doing(p)} ELSE torn
     /\ UNCHANGED <<folder, warehouse, returned, uploads, promotes>>

Promotion(p) ==
  \/ SkipUnpassed(p) \/ CountExisting(p) \/ Load(p) \/ Reconcile(p)
  \/ ClearMart(p) \/ FillMart(p) \/ ReadMart(p) \/ ReplaceRows(p)

Dispatch(w) ==
  \/ StartDispatch(w)
  \/ \E f \in Files : TakeFile(w, f)
  \/ MoveFile(w) \/ EndScan(w)

Next ==
  \/ \E f \in Files : Arrive(f)
  \/ \E w \in Workers : Dispatch(w)
  \/ \E p \in Commands : \E r \in Recorded : PromoteRun(p, r)
  \/ \E p \in Clients : \/ \E c \in Contents : Upload(p, c)
                        \/ \E r \in Recorded : Retry(p, r)
  \/ \E p \in Procs : CreateRun(p) \/ Promotion(p) \/ Abandon(p)

Spec == Init /\ [][Next]_vars

\* a process goes on until it is done, and the schedule keeps dispatching the
\* folder as long as files are in it
FairSpec ==
  /\ Spec
  /\ \A p \in Procs : WF_vars(CreateRun(p)) /\ SF_vars(Promotion(p))
  /\ \A w \in Workers : SF_vars(Dispatch(w))

-----------------------------------------------------------------------------
(* Properties *)

\* every transaction of a run that passed is current, or a process still has
\* the run to promote, or one failed with the promotion undone
PassedRunsArrive ==
  \A r \in Passed :
    \/ DOMAIN Rows(r) \subseteq Known
    \/ r \in abandoned
    \/ \E p \in Procs : r \in Range(proc[p].todo)

\* a blank description means that no reconciled statement describes the
\* transaction
CurrentIsRichest ==
  \A t \in Transactions : current[t] = Blank =>
    \A r \in reconciled : t \in DOMAIN Rows(r) => Rows(r)[t] = Blank

\* once a transaction is described, no later statement rewrites it, whatever
\* order overlapping statements are promoted in
DescriptionStands ==
  [][\A t \in Transactions : current[t] \in Descriptions => current'[t] = current[t]]_vars

\* without failures, a mart that does not show the current transactions is
\* about to be refreshed by a process that is still promoting
MartFollowsCurrent ==
  mart # Known => \/ \E p \in Procs : proc[p].pc \in {"refreshing", "filling"}
                  \/ abandoned # {}

\* without failures, the transactions of a valid file reach the published
\* copy once it is in the folder
FilesArePublished ==
  \A f \in Files :
    (place[f] = "inbox" /\ ContentOf[f] \in Valid)
      ~> (DOMAIN RowsOf[ContentOf[f]] \subseteq published \/ faults > 0)

\* "promote-run is retry-safe and refreshes marts without duplicating already
\* promoted fact rows": once a promotion of a run has ended well, its
\* transactions are current
PromotedRunsAreCurrent ==
  \A r \in returned : DOMAIN Rows(r) \subseteq Known
=============================================================================

------------------------------ MODULE DecisionLedger ------------------------------
(***************************************************************************)
(* Household decisions and the commitments they open.  A decision pins the *)
(* published evidence it was made on.  Follow-ups, stops and reopenings    *)
(* come in through the API; a trace, run by the API or the worker, compares *)
(* the pinned evidence with what is published now.  A handler reads the    *)
(* clock first, then the stores, and writes last, each in a transaction of *)
(* its own.  The state of a commitment is never stored: it is replayed from *)
(* its records in the order of the times they carry, which is not the      *)
(* order in which they were written.                                       *)
(*                                                                         *)
(* All decisions are about one subject (a decision key and a period).      *)
(* Evidence is a fingerprint: equal fingerprints are equal components.     *)
(* Requests the validation refuses change nothing and are left out.        *)
(***************************************************************************)
EXTENDS Integers, Sequences, FiniteSets, FiniteSetsExt, SequencesExt

CONSTANTS Decisions, Evidence,
          Apis,         \* API processes: each serves one request after another
          Workers,      \* trace commands
          Unpublished, Nobody,
          Window,       \* days from the decision to the first review
          Cadence,      \* review_cadence_days
          DayLength, MaxTime   \* bounds of the model: instants in a day, in all

Processes == Apis \cup Workers

ASSUME ConstantsOK ==
  /\ Apis \cap Workers = {} /\ Unpublished \notin Evidence /\ Nobody \notin Decisions
  /\ Window \in Nat \ {0} /\ Cadence \in Nat \ {0}
  /\ DayLength \in Nat \ {0} /\ MaxTime \in Nat

VARIABLES clock,      \* the time, in instants no two handlers share
          published,  \* the evidence of the subject's current row
          decisions,  \* decision_records with their commitments
          followups,  \* decision_follow_ups of each decision
          events,     \* decision_lifecycle_events of each decision
          job         \* the request each process is working on

records == <<decisions, followups, events>>
vars == <<clock, published, records, job>>

Instants == 0..MaxTime
DayOf(t) == t \div DayLength
Today == DayOf(clock)

Idle == [op |-> "idle", on |-> Nobody, now |-> 0, at |-> 0, due |-> 0,
         number |-> 0, found |-> Unpublished, todo |-> {}]

Missing == [exists |-> FALSE, pinned |-> Unpublished, decidedAt |-> 0, due |-> 0]

Recorded == {d \in Decisions : decisions[d].exists}

Init ==
  /\ clock = 0
  /\ published = Unpublished
  /\ decisions = [d \in Decisions |-> Missing]
  /\ followups = [d \in Decisions |-> {}]
  /\ events = [d \in Decisions |-> {}]
  /\ job = [p \in Processes |-> Idle]

-----------------------------------------------------------------------------
(* The replay *)

Kind(d, kind) == {e \in events[d] : e.kind = kind}

\* mutant: of equal times the event comes first
EventsFirst(x, y) ==
  \/ x.at < y.at
  \/ x.at = y.at /\ x.kind # "follow_up" /\ y.kind = "follow_up"
  \/ x.at = y.at /\ x.kind = "follow_up" /\ y.kind = "follow_up" /\ x.key < y.key

\* by time; of equal times a follow-up comes before an event, as they are
\* listed in that order and the sort is stable
Earlier(x, y) ==
  \/ x.at < y.at
  \/ x.at = y.at /\ x.kind = "follow_up" /\ y.kind # "follow_up"
  \/ x.at = y.at /\ x.kind = "follow_up" /\ y.kind = "follow_up" /\ x.key < y.key

Items(d) == followups[d] \cup events[d]

Place(d, x) == Cardinality({y \in Items(d) : Earlier(y, x)}) + 1

Timeline(d) ==
  [k \in 1..Cardinality(Items(d)) |-> CHOOSE x \in Items(d) : Place(d, x) = k]

\* mutant: the cadence counts from the latest item of the timeline alone
LaterAlone(due, t) == DayOf(t) + Cadence

Later(due, t) == Max({due, DayOf(t) + Cadence})

Replay(commitment, item) ==
  CASE item.kind = "follow_up" ->
         [commitment EXCEPT !.open = {}, !.next = Later(@, item.at)]
    [] item.kind = "superseded" -> [commitment EXCEPT !.open = @ \cup {item}]
    [] item.kind = "stopped" -> [commitment EXCEPT !.stopped = TRUE]
    [] item.kind = "reopened" ->
         [commitment EXCEPT !.stopped = FALSE, !.next = Later(@, item.at)]

Commitment(d) ==
  FoldLeft(Replay, [stopped |-> FALSE, open |-> {}, next |-> decisions[d].due], Timeline(d))

\* derive_commitment_state
State(d) ==
  LET c == Commitment(d)
  IN CASE c.stopped -> "stopped"
       [] ~c.stopped /\ c.open # {} -> "review_required"
       [] ~c.stopped /\ c.open = {} /\ Today >= c.next -> "review_due"
       [] OTHER -> "active"

-----------------------------------------------------------------------------
(* The store *)

\* mutant: no dedupe key
AppendAlways(d, event) == events' = [events EXCEPT ![d] = @ \cup {event}]

\* append_decision_lifecycle_event: the dedupe key decides, whatever the time
AppendOnce(d, event) ==
  IF \E e \in Kind(d, event.kind) : e.key = event.key
  THEN UNCHANGED events
  ELSE events' = [events EXCEPT ![d] = @ \cup {event}]

-----------------------------------------------------------------------------
(* Requests *)

Busy(p, op) == job[p].op = op
Done(p) == job' = [job EXCEPT ![p] = Idle]

\* a handler reads the clock before anything else
Begin(p, request) ==
  /\ Busy(p, "idle") /\ clock < MaxTime
  /\ job' = [job EXCEPT ![p] = request]
  /\ clock' = clock + 1
  /\ UNCHANGED <<published, decisions, followups, events>>

\* record_decision, maybe of a decision taken earlier, maybe with a later review
BeginRecord(p, t, extra) ==
  /\ t <= clock /\ Recorded # Decisions
  /\ Begin(p, [Idle EXCEPT !.op = "recording", !.at = t, !.due = DayOf(t) + Window + extra])

ReadSubject(p) ==
  /\ Busy(p, "recording") /\ published # Unpublished
  /\ job' = [job EXCEPT ![p].op = "pinning", ![p].found = published]
  /\ UNCHANGED <<clock, published, decisions, followups, events>>

CreateDecision(p, d) ==
  /\ Busy(p, "pinning") /\ d \notin Recorded
  /\ decisions' = [decisions EXCEPT ![d] =
       [exists |-> TRUE, pinned |-> job[p].found, decidedAt |-> job[p].at, due |-> job[p].due]]
  /\ Done(p)
  /\ UNCHANGED <<clock, published, followups, events>>

\* record_follow_up: of something observed between the decision and now
BeginFollowUp(p, d, t) ==
  /\ d \in Recorded /\ t \in decisions[d].decidedAt..clock
  /\ Begin(p, [Idle EXCEPT !.op = "following", !.on = d, !.now = clock, !.at = t])

AddFollowUp(p) ==
  /\ Busy(p, "following")
  /\ followups' = [followups EXCEPT ![job[p].on] =
       @ \cup {[kind |-> "follow_up", key |-> job[p].now, at |-> job[p].at]}]
  /\ Done(p)
  /\ UNCHANGED <<clock, published, decisions, events>>

BeginEnd(p, d, op) ==
  /\ d \in Recorded /\ op \in {"stopping", "reopening"}
  /\ Begin(p, [Idle EXCEPT !.op = op, !.on = d, !.now = clock])

\* _is_stopped: the last of the two kinds that are listed
IsStopped(d) ==
  \E s \in Kind(d, "stopped") : \A r \in Kind(d, "reopened") : r.at < s.at

\* mutant: every stop gets the dedupe key of the first
FirstNumber(d, kind) == 1

NextNumber(d, kind) == Cardinality(Kind(d, kind)) + 1

ReadEvents(p, op, kind) ==
  /\ Busy(p, op)
  /\ IsStopped(job[p].on) = (kind = "reopened")
  /\ job' = [job EXCEPT ![p].op = kind, ![p].number = NextNumber(job[p].on, kind)]
  /\ UNCHANGED <<clock, published, decisions, followups, events>>

AppendEnd(p, kind) ==
  /\ Busy(p, kind)
  /\ AppendOnce(job[p].on, [kind |-> kind, key |-> job[p].number, at |-> job[p].now])
  /\ Done(p)
  /\ UNCHANGED <<clock, published, decisions, followups>>

Stop(p) == ReadEvents(p, "stopping", "stopped") \/ AppendEnd(p, "stopped")
Reopen(p) == ReadEvents(p, "reopening", "reopened") \/ AppendEnd(p, "reopened")

-----------------------------------------------------------------------------
(* The trace *)

BeginTrace(p) == Begin(p, [Idle EXCEPT !.op = "listing", !.now = clock])

ListDecisions(p) ==
  /\ Busy(p, "listing") /\ Recorded # {}
  /\ job' = [job EXCEPT ![p].op = "looking", ![p].todo = Recorded]
  /\ UNCHANGED <<clock, published, decisions, followups, events>>

\* the subject is read once, however many decisions there are about it
LookUp(p) ==
  /\ Busy(p, "looking")
  /\ job' = [job EXCEPT ![p].op = "tracing", ![p].found = published]
  /\ UNCHANGED <<clock, published, decisions, followups, events>>

Superseded(d, found) == found \notin {Unpublished, decisions[d].pinned}

TraceOne(p, d) ==
  /\ Busy(p, "tracing") /\ d \in job[p].todo
  /\ IF Superseded(d, job[p].found)
     THEN AppendOnce(d, [kind |-> "superseded", key |-> job[p].found, at |-> job[p].now])
     ELSE UNCHANGED events
  /\ IF job[p].todo = {d} THEN Done(p) ELSE job' = [job EXCEPT ![p].todo = @ \ {d}]
  /\ UNCHANGED <<clock, published, decisions, followups>>

-----------------------------------------------------------------------------
(* Around them *)

\* a request that is refused after its reads, or whose process dies
Lose(p) ==
  /\ ~Busy(p, "idle")
  /\ Done(p)
  /\ UNCHANGED <<clock, published, decisions, followups, events>>

\* a refresh publishes the subject's row from corrected sources, or without it
Republish(e) ==
  /\ e # published
  /\ published' = e
  /\ UNCHANGED <<clock, decisions, followups, events, job>>

Wait ==
  /\ clock < MaxTime
  /\ clock' = clock + 1
  /\ UNCHANGED <<published, decisions, followups, events, job>>

Request(p) ==
  \/ \E t \in Instants, extra \in 0..1 : BeginRecord(p, t, extra)
  \/ ReadSubject(p)
  \/ \E d \in Decisions : CreateDecision(p, d)
  \/ \E d \in Decisions, t \in Instants : BeginFollowUp(p, d, t)
  \/ AddFollowUp(p)
  \/ \E d \in Decisions, op \in {"stopping", "reopening"} : BeginEnd(p, d, op)
  \/ Stop(p)
  \/ Reopen(p)

Trace(p) ==
  \/ BeginTrace(p)
  \/ ListDecisions(p)
  \/ LookUp(p)
  \/ \E d \in Decisions : TraceOne(p, d)
  \/ Lose(p)

Next ==
  \/ \E p \in Apis : Request(p)
  \/ \E p \in Processes : Trace(p)
  \/ \E e \in Evidence \cup {Unpublished} : Republish(e)
  \/ Wait

Spec == Init /\ [][Next]_vars

-----------------------------------------------------------------------------
(* Properties *)

FollowUps == [kind : {"follow_up"}, key : Instants, at : Instants]
Events == [kind : {"stopped", "reopened"}, key : Nat, at : Instants]
            \cup [kind : {"superseded"}, key : Evidence, at : Instants]

\* Every variable has its type; a trace works on decisions that exist.
TypeOK ==
  /\ clock \in Instants /\ published \in Evidence \cup {Unpublished}
  /\ decisions \in [Decisions -> [exists : BOOLEAN, pinned : Evidence \cup {Unpublished},
                                   decidedAt : Instants, due : Nat]]
  /\ followups \in [Decisions -> SUBSET FollowUps]
  /\ events \in [Decisions -> SUBSET Events]
  /\ job \in [Processes ->
       [op : {"idle", "recording", "pinning", "following", "stopping", "stopped",
              "reopening", "reopened", "listing", "looking", "tracing"},
        on : Decisions \cup {Nobody}, now : Instants, at : Instants, due : Nat,
        number : Nat, found : Evidence \cup {Unpublished}, todo : SUBSET Decisions]]
  /\ \A p \in Processes : job[p].todo \subseteq Recorded

\* A recorded supersession asks for a review until somebody reports something
\* observed after it, and nothing else does: in whatever order and with
\* whatever delay the records of the decision were written, a commitment that
\* is not stopped is review_required exactly when one of its supersessions has
\* no follow-up observed later (derive_commitment_state).
SupersessionStands ==
  \A d \in Recorded : State(d) # "stopped" =>
    (State(d) = "review_required" <=>
       \E e \in Kind(d, "superseded") : \A f \in followups[d] : f.at <= e.at)

\* Two traces at a time, of a revision found again and again, record one
\* review of it (the dedupe key of evidence_superseded).
OneReviewPerRevision ==
  \A d \in Decisions : \A x, y \in Kind(d, "superseded") : x.key = y.key => x = y

\* With one API process, a stop or a reopening that is acknowledged takes
\* effect: whatever was stopped and reopened before, and whatever the traces
\* have recorded, the replay then says stopped, or no longer says it (the
\* numbers in the dedupe keys of stop_commitment and reopen_commitment, and the
\* times the replay sorts by).
StopsStick ==
  [][\A p \in Apis, d \in Recorded : job[p].on = d =>
       /\ AppendEnd(p, "stopped") => State(d)' = "stopped"
       /\ AppendEnd(p, "reopened") => State(d)' # "stopped"]_vars

\* The date of the next review is never brought forward, not by a follow-up
\* that reports something observed long ago either.
ReviewNeverBroughtForward ==
  [][\A d \in Recorded : Commitment(d)'.next >= Commitment(d).next]_records

=============================================================================

------------------------ MODULE DecisionLedger_proofs ------------------------
(***************************************************************************)
(* Proofs about the decision ledger, for every number of decisions,        *)
(* fingerprints and processes and every bound on time.  What the replay    *)
(* computes is a fold over a sorted sequence: its recursion is unrolled by *)
(* minimal counterexample, and the rest is about sets of records.          *)
(***************************************************************************)
EXTENDS DecisionLedger, FiniteSetTheorems, WellFoundedInduction, TLAPS

Ops == {"idle", "recording", "pinning", "following", "stopping", "stopped",
        "reopening", "reopened", "listing", "looking", "tracing"}
Jobs == [op : Ops, on : Decisions \cup {Nobody}, now : Instants, at : Instants, due : Nat,
         number : Nat, found : Evidence \cup {Unpublished}, todo : SUBSET Decisions]
Records == [exists : BOOLEAN, pinned : Evidence \cup {Unpublished},
            decidedAt : Instants, due : Nat]

\* A handler that writes about a decision writes about one that exists.
JobFits(p) ==
  /\ job[p].todo \subseteq Recorded
  /\ job[p].op \in {"following", "stopping", "stopped", "reopening", "reopened"} =>
       job[p].on \in Decisions

EventsFinite == \A d \in Decisions : IsFiniteSet(events[d])

TypeInv == TypeOK /\ EventsFinite /\ \A p \in Processes : JobFits(p)

SafetyInv == TypeInv /\ OneReviewPerRevision

-----------------------------------------------------------------------------
(* What a handler leaves behind *)

\* The type invariant, with the records of TypeOK named.
Typed ==
  /\ clock \in Instants /\ published \in Evidence \cup {Unpublished}
  /\ decisions \in [Decisions -> Records]
  /\ followups \in [Decisions -> SUBSET FollowUps]
  /\ events \in [Decisions -> SUBSET Events]
  /\ job \in [Processes -> Jobs]
  /\ \A p \in Processes : job[p].todo \subseteq Recorded

LEMMA TypeParts == TypeOK <=> Typed
  BY Zenon DEF TypeOK, Typed, Jobs, Ops, Records

LEMMA IdleTyped == Idle \in Jobs /\ Idle.op = "idle" /\ Idle.todo = {}
<1>1. 0 \in Instants
  BY ConstantsOK DEF ConstantsOK, Instants
<1> QED
  BY <1>1 DEF Idle, Jobs, Ops

\* A handler keeps the others where they are and every decision there is.
LEMMA HandlerStep ==
  ASSUME SafetyInv, NEW p \in Processes, NEW new \in Jobs,
         job' = [job EXCEPT ![p] = new],
         new.todo \subseteq Recorded,
         new.op \in {"following", "stopping", "stopped", "reopening", "reopened"} =>
           new.on \in Decisions,
         clock' \in Instants, published' = published,
         decisions' \in [Decisions -> Records], followups' \in [Decisions -> SUBSET FollowUps],
         Recorded \subseteq Recorded',
         events' \in [Decisions -> SUBSET Events], EventsFinite', OneReviewPerRevision'
  PROVE  SafetyInv'
<1>1. job \in [Processes -> Jobs] /\ published \in Evidence \cup {Unpublished}
      /\ \A q \in Processes : JobFits(q)
  BY TypeParts DEF SafetyInv, TypeInv, Typed
<1>2. /\ job' \in [Processes -> Jobs] /\ job'[p] = new
      /\ \A q \in Processes \ {p} : job'[q] = job[q]
  BY <1>1
<1>3. ASSUME NEW q \in Processes PROVE JobFits(q)'
  BY <1>1, <1>2 DEF JobFits
<1>4. \A q \in Processes : job'[q].todo \subseteq Recorded'
  BY <1>3 DEF JobFits
<1>5. TypeOK'
  <2>1. Typed'
    BY <1>1, <1>2, <1>4 DEF Typed
  <2> QED
    BY <2>1, TypeParts, PTL
<1> QED
  BY <1>3, <1>5 DEF SafetyInv, TypeInv

\* A handler that only changes its own job, and maybe the time, keeps the rest.
LEMMA JobStep ==
  ASSUME SafetyInv, NEW p \in Processes, NEW new \in Jobs,
         job' = [job EXCEPT ![p] = new],
         new.todo \subseteq Recorded,
         new.op \in {"following", "stopping", "stopped", "reopening", "reopened"} =>
           new.on \in Decisions,
         clock' \in Instants, published' = published,
         decisions' \in [Decisions -> Records], followups' \in [Decisions -> SUBSET FollowUps],
         Recorded \subseteq Recorded',
         events' = events
  PROVE  SafetyInv'
<1>1. events \in [Decisions -> SUBSET Events] /\ EventsFinite /\ OneReviewPerRevision
  BY TypeParts DEF SafetyInv, TypeInv, Typed
<1>2. events' \in [Decisions -> SUBSET Events] /\ EventsFinite' /\ OneReviewPerRevision'
  BY <1>1 DEF EventsFinite, OneReviewPerRevision, Kind
<1> QED
  BY <1>2, HandlerStep

\* A request sets out with the record Idle but for what the request says.
LEMMA BeginSteps ==
  ASSUME SafetyInv, NEW p \in Processes,
         \/ BeginTrace(p)
         \/ \E t \in Instants, extra \in 0..1 : BeginRecord(p, t, extra)
         \/ \E d \in Decisions, t \in Instants : BeginFollowUp(p, d, t)
         \/ \E d \in Decisions, op \in {"stopping", "reopening"} : BeginEnd(p, d, op)
  PROVE  SafetyInv'
<1>1. Typed
  BY TypeParts DEF SafetyInv, TypeInv
<1>2. MaxTime \in Nat /\ DayLength \in Nat \ {0} /\ Window \in Nat
  BY ConstantsOK DEF ConstantsOK
<1>3. ASSUME NEW new \in Jobs, Begin(p, new), new.todo = {}, new.on \in Decisions \/ new.op \in {"recording", "listing"}
      PROVE  SafetyInv'
  <2>1. /\ clock' \in Instants /\ job' = [job EXCEPT ![p] = new]
        /\ UNCHANGED <<published, decisions, followups, events>>
    BY <1>1, <1>2, <1>3 DEF Begin, Typed, Instants
  <2>2. decisions' \in [Decisions -> Records] /\ followups' \in [Decisions -> SUBSET FollowUps]
        /\ Recorded \subseteq Recorded'
    BY <1>1, <2>1 DEF Typed, Recorded
  <2> QED
    BY <1>3, <2>1, <2>2, JobStep
<1>4. ASSUME BeginTrace(p) PROVE SafetyInv'
  <2>1. PICK new : new = [Idle EXCEPT !.op = "listing", !.now = clock]
    OBVIOUS
  <2>2. new \in Jobs /\ new.op = "listing" /\ new.todo = {}
    BY <1>1, <2>1, IdleTyped DEF Jobs, Ops, Typed
  <2> QED
    BY <1>3, <1>4, <2>1, <2>2 DEF BeginTrace
<1>5. ASSUME NEW t \in Instants, NEW extra \in 0..1, BeginRecord(p, t, extra) PROVE SafetyInv'
  <2>1. PICK new : new = [Idle EXCEPT !.op = "recording", !.at = t, !.due = DayOf(t) + Window + extra]
    OBVIOUS
  <2>2. t \div DayLength \in Nat
    <3>1. t \in Nat /\ DayLength \in Nat /\ DayLength > 0
      BY <1>2 DEF Instants
    <3> QED
      BY <3>1
  <2>3. DayOf(t) + Window + extra \in Nat
    BY <1>2, <2>2 DEF DayOf
  <2>4. new \in Jobs /\ new.op = "recording" /\ new.todo = {}
    BY <1>1, <2>1, <2>3, IdleTyped DEF Jobs, Ops, Typed
  <2> QED
    BY <1>3, <1>5, <2>1, <2>4 DEF BeginRecord
<1>6. ASSUME NEW d \in Decisions, NEW t \in Instants, BeginFollowUp(p, d, t) PROVE SafetyInv'
  <2>1. PICK new : new = [Idle EXCEPT !.op = "following", !.on = d, !.now = clock, !.at = t]
    OBVIOUS
  <2>2. new \in Jobs /\ new.on = d /\ new.todo = {}
    BY <1>1, <2>1, IdleTyped DEF Jobs, Ops, Typed
  <2> QED
    BY <1>3, <1>6, <2>1, <2>2 DEF BeginFollowUp
<1>7. ASSUME NEW d \in Decisions, NEW op \in {"stopping", "reopening"}, BeginEnd(p, d, op)
      PROVE  SafetyInv'
  <2>1. PICK new : new = [Idle EXCEPT !.op = op, !.on = d, !.now = clock]
    OBVIOUS
  <2>2. new \in Jobs /\ new.on = d /\ new.todo = {}
    BY <1>1, <2>1, IdleTyped DEF Jobs, Ops, Typed
  <2> QED
    BY <1>3, <1>7, <2>1, <2>2 DEF BeginEnd
<1> QED
  BY <1>4, <1>5, <1>6, <1>7

\* Reading changes nothing but what the handler knows.
LEMMA ReadSteps ==
  ASSUME SafetyInv, NEW p \in Processes,
         \/ ReadSubject(p) \/ ListDecisions(p) \/ LookUp(p) \/ Lose(p)
         \/ ReadEvents(p, "stopping", "stopped") \/ ReadEvents(p, "reopening", "reopened")
  PROVE  SafetyInv'
<1>1. Typed /\ job[p] \in Jobs /\ JobFits(p)
  BY TypeParts DEF SafetyInv, TypeInv, Typed
<1>2. ASSUME NEW new \in Jobs, job' = [job EXCEPT ![p] = new], new.todo \subseteq Recorded,
             new.op \in {"following", "stopping", "stopped", "reopening", "reopened"} =>
               new.on \in Decisions,
             UNCHANGED <<clock, published, decisions, followups, events>>
      PROVE  SafetyInv'
  <2>1. /\ clock' \in Instants /\ published' = published
        /\ decisions' \in [Decisions -> Records] /\ followups' \in [Decisions -> SUBSET FollowUps]
        /\ Recorded \subseteq Recorded' /\ events' = events
    BY <1>1, <1>2 DEF Typed, Recorded
  <2> QED
    BY <1>2, <2>1, JobStep
<1>3. CASE ReadSubject(p)
  <2>1. PICK new : new = [job[p] EXCEPT !.op = "pinning", !.found = published]
    OBVIOUS
  <2>2. new \in Jobs /\ new.op = "pinning" /\ new.todo = job[p].todo
    BY <1>1, <2>1 DEF Jobs, Ops, Typed
  <2> QED
    BY <1>1, <1>2, <1>3, <2>1, <2>2 DEF ReadSubject, JobFits
<1>4. CASE ListDecisions(p)
  <2>1. PICK new : new = [job[p] EXCEPT !.op = "looking", !.todo = Recorded]
    OBVIOUS
  <2>2. new \in Jobs /\ new.op = "looking" /\ new.todo = Recorded
    BY <1>1, <2>1 DEF Jobs, Ops, Recorded
  <2> QED
    BY <1>1, <1>2, <1>4, <2>1, <2>2 DEF ListDecisions
<1>5. CASE LookUp(p)
  <2>1. PICK new : new = [job[p] EXCEPT !.op = "tracing", !.found = published]
    OBVIOUS
  <2>2. new \in Jobs /\ new.op = "tracing" /\ new.todo = job[p].todo
    BY <1>1, <2>1 DEF Jobs, Ops, Typed
  <2> QED
    BY <1>1, <1>2, <1>5, <2>1, <2>2 DEF LookUp, JobFits
<1>6. CASE Lose(p)
  BY <1>2, <1>6, IdleTyped DEF Lose, Done
<1>7. ASSUME NEW op \in {"stopping", "reopening"}, NEW kind \in {"stopped", "reopened"},
             ReadEvents(p, op, kind)
      PROVE  SafetyInv'
  <2>1. job[p].op = op /\ job[p].on \in Decisions
    BY <1>1, <1>7 DEF ReadEvents, Busy, JobFits
  <2>2. PICK d \in Decisions : d = job[p].on
    BY <2>1
  <2>3. PICK number : number = NextNumber(d, kind)
    OBVIOUS
  <2>4. number \in Nat
    <3>1. IsFiniteSet(Kind(d, kind))
      BY FS_Subset DEF SafetyInv, TypeInv, EventsFinite, Kind
    <3>2. Cardinality(Kind(d, kind)) \in Nat
      BY <3>1, FS_CardinalityType
    <3> QED
      BY <2>3, <3>2 DEF NextNumber
  <2>5. PICK new : new = [job[p] EXCEPT !.op = kind, !.number = number]
    OBVIOUS
  <2>6. new \in Jobs /\ new.on = d /\ new.todo = job[p].todo
    BY <1>1, <2>2, <2>4, <2>5 DEF Jobs, Ops
  <2>7. job' = [job EXCEPT ![p] = new] /\ UNCHANGED <<clock, published, decisions, followups, events>>
    BY <1>7, <2>2, <2>3, <2>5 DEF ReadEvents
  <2> QED
    BY <1>1, <1>2, <2>6, <2>7 DEF JobFits
<1> QED
  BY <1>3, <1>4, <1>5, <1>6, <1>7

\* The dedupe key keeps a second event of the same kind and key out.
LEMMA Appended ==
  ASSUME SafetyInv, NEW d \in Decisions, NEW event \in Events, AppendOnce(d, event)
  PROVE  /\ events' \in [Decisions -> SUBSET Events]
         /\ EventsFinite'
         /\ OneReviewPerRevision'
<1>1. events \in [Decisions -> SUBSET Events] /\ EventsFinite /\ OneReviewPerRevision
  BY TypeParts DEF SafetyInv, TypeInv, Typed
<1>2. CASE events' = events
  BY <1>1, <1>2 DEF EventsFinite, OneReviewPerRevision, Kind
<1>3. CASE /\ events' = [events EXCEPT ![d] = @ \cup {event}]
           /\ ~\E e \in Kind(d, event.kind) : e.key = event.key
  <2>1. /\ events' \in [Decisions -> SUBSET Events]
        /\ events'[d] = events[d] \cup {event}
        /\ \A c \in Decisions \ {d} : events'[c] = events[c]
    BY <1>1, <1>3
  <2>2. IsFiniteSet(events[d] \cup {event})
    BY <1>1, FS_AddElement DEF EventsFinite
  <2>3. ASSUME NEW c \in Decisions PROVE IsFiniteSet(events'[c])
    BY <1>1, <2>1, <2>2 DEF EventsFinite
  <2>4. ASSUME NEW c \in Decisions, NEW x \in events'[c], NEW y \in events'[c],
               x.kind = "superseded", y.kind = "superseded", x.key = y.key
        PROVE  x = y
    <3>1. \A e \in events[d] : e.kind = event.kind => e.key # event.key
      BY <1>3 DEF Kind
    <3>2. CASE c = d
      <4>1. CASE x \in events[d] /\ y \in events[d]
        BY <1>1, <2>4, <4>1 DEF OneReviewPerRevision, Kind
      <4>2. CASE x = event /\ y \in events[d]
        BY <2>4, <3>1, <4>2
      <4>3. CASE y = event /\ x \in events[d]
        BY <2>4, <3>1, <4>3
      <4> QED
        BY <2>1, <3>2, <4>1, <4>2, <4>3
    <3>3. CASE c # d
      BY <1>1, <2>1, <2>4, <3>3 DEF OneReviewPerRevision, Kind
    <3> QED
      BY <3>2, <3>3
  <2>5. OneReviewPerRevision'
    BY <2>4 DEF OneReviewPerRevision, Kind
  <2> QED
    BY <2>1, <2>3, <2>5 DEF EventsFinite
<1> QED
  BY <1>2, <1>3 DEF AppendOnce

\* Writing is the last thing a handler does, but for a trace with more to look at.
LEMMA WriteSteps ==
  ASSUME SafetyInv, NEW p \in Processes,
         \/ \E d \in Decisions : CreateDecision(p, d) \/ TraceOne(p, d)
         \/ AddFollowUp(p) \/ AppendEnd(p, "stopped") \/ AppendEnd(p, "reopened")
  PROVE  SafetyInv'
<1>1. Typed /\ job[p] \in Jobs /\ JobFits(p)
  BY TypeParts DEF SafetyInv, TypeInv, Typed
<1>2. ASSUME NEW d \in Decisions, CreateDecision(p, d) PROVE SafetyInv'
  <2>1. PICK row : row = [exists |-> TRUE, pinned |-> job[p].found, decidedAt |-> job[p].at,
                          due |-> job[p].due]
    OBVIOUS
  <2>2. row \in Records /\ row.exists
    BY <1>1, <2>1 DEF Records, Jobs
  <2>3. decisions' = [decisions EXCEPT ![d] = row]
    BY <1>2, <2>1 DEF CreateDecision
  <2>4. decisions' \in [Decisions -> Records] /\ Recorded \subseteq Recorded'
    BY <1>1, <2>2, <2>3 DEF Typed, Recorded
  <2>5. /\ job' = [job EXCEPT ![p] = Idle] /\ UNCHANGED <<clock, published, followups, events>>
    BY <1>2 DEF CreateDecision, Done
  <2> QED
    BY <1>1, <2>4, <2>5, IdleTyped, JobStep DEF Typed
<1>3. CASE AddFollowUp(p)
  <2>1. PICK d \in Decisions : d = job[p].on
    BY <1>1, <1>3 DEF AddFollowUp, Busy, JobFits
  <2>2. PICK item : item = [kind |-> "follow_up", key |-> job[p].now, at |-> job[p].at]
    OBVIOUS
  <2>3. item \in FollowUps
    BY <1>1, <2>2 DEF FollowUps, Jobs
  <2>4. followups' = [followups EXCEPT ![d] = @ \cup {item}]
    BY <1>3, <2>1, <2>2 DEF AddFollowUp
  <2>5. followups' \in [Decisions -> SUBSET FollowUps]
    BY <1>1, <2>3, <2>4 DEF Typed
  <2>6. job' = [job EXCEPT ![p] = Idle] /\ UNCHANGED <<clock, published, decisions, events>>
    BY <1>3 DEF AddFollowUp, Done
  <2>7. Recorded' = Recorded
    BY <2>6 DEF Recorded
  <2> QED
    BY <1>1, <2>5, <2>6, <2>7, IdleTyped, JobStep DEF Typed
<1>4. ASSUME NEW kind \in {"stopped", "reopened"}, AppendEnd(p, kind) PROVE SafetyInv'
  <2>1. PICK d \in Decisions : d = job[p].on
    BY <1>1, <1>4 DEF AppendEnd, Busy, JobFits
  <2>2. PICK event : event = [kind |-> kind, key |-> job[p].number, at |-> job[p].now]
    OBVIOUS
  <2>3. event \in Events
    BY <1>1, <2>2 DEF Events, Jobs
  <2>4. AppendOnce(d, event)
    BY <1>4, <2>1, <2>2 DEF AppendEnd
  <2>5. job' = [job EXCEPT ![p] = Idle] /\ UNCHANGED <<clock, published, decisions, followups>>
    BY <1>4 DEF AppendEnd, Done
  <2>6. Recorded' = Recorded
    BY <2>5 DEF Recorded
  <2> QED
    BY <1>1, <2>3, <2>4, <2>5, <2>6, IdleTyped, Appended, HandlerStep DEF Typed
<1>5. ASSUME NEW d \in Decisions, TraceOne(p, d) PROVE SafetyInv'
  <2>1. /\ events' \in [Decisions -> SUBSET Events] /\ EventsFinite' /\ OneReviewPerRevision'
    <3>1. CASE events' = events
      BY <1>1, <3>1 DEF SafetyInv, TypeInv, Typed, EventsFinite, OneReviewPerRevision, Kind
    <3>2. CASE /\ Superseded(d, job[p].found)
               /\ AppendOnce(d, [kind |-> "superseded", key |-> job[p].found, at |-> job[p].now])
      <4>1. PICK event : event = [kind |-> "superseded", key |-> job[p].found, at |-> job[p].now]
        OBVIOUS
      <4>2. event \in Events
        BY <1>1, <3>2, <4>1 DEF Events, Jobs, Superseded
      <4> QED
        BY <3>2, <4>1, <4>2, Appended
    <3> QED
      BY <1>5, <3>1, <3>2 DEF TraceOne
  <2>2. UNCHANGED <<clock, published, decisions, followups>>
    BY <1>5 DEF TraceOne
  <2>3. Recorded' = Recorded
    BY <2>2 DEF Recorded
  <2>4. CASE job' = [job EXCEPT ![p] = Idle]
    BY <1>1, <2>1, <2>2, <2>3, <2>4, IdleTyped, HandlerStep DEF Typed
  <2>5. CASE job' = [job EXCEPT ![p].todo = @ \ {d}]
    <3>1. PICK new : new = [job[p] EXCEPT !.todo = @ \ {d}]
      OBVIOUS
    <3>2. new \in Jobs /\ new.todo \subseteq job[p].todo /\ new.op = job[p].op
      BY <1>1, <3>1 DEF Jobs
    <3>3. job' = [job EXCEPT ![p] = new]
      BY <2>5, <3>1
    <3>4. new.todo \subseteq Recorded /\ new.op = "tracing"
      BY <1>1, <1>5, <3>2 DEF JobFits, TraceOne, Busy
    <3> QED
      BY <1>1, <2>1, <2>2, <2>3, <3>2, <3>3, <3>4, HandlerStep DEF Typed
  <2> QED
    BY <1>5, <2>4, <2>5 DEF TraceOne, Done
<1> QED
  BY <1>2, <1>3, <1>4, <1>5

LEMMA SafetyInit == Init => SafetyInv
<1> SUFFICES ASSUME Init PROVE SafetyInv
  OBVIOUS
<1>1. 0 \in Instants
  BY ConstantsOK DEF ConstantsOK, Instants
<1>2. Missing \in Records
  BY <1>1 DEF Missing, Records
<1>3. Typed /\ \A p \in Processes : JobFits(p)
  BY <1>1, <1>2, IdleTyped DEF Init, Typed, JobFits
<1>4. EventsFinite
  BY FS_EmptySet DEF Init, EventsFinite
<1>5. OneReviewPerRevision
  BY DEF Init, OneReviewPerRevision, Kind
<1> QED
  BY <1>3, <1>4, <1>5, TypeParts DEF SafetyInv, TypeInv

LEMMA SafetyKept == SafetyInv /\ [Next]_vars => SafetyInv'
<1> SUFFICES ASSUME SafetyInv, [Next]_vars PROVE SafetyInv'
  OBVIOUS
<1>1. Typed
  BY TypeParts DEF SafetyInv, TypeInv
<1>2. ASSUME UNCHANGED <<decisions, followups, events, job>>, clock' \in Instants,
             published' \in Evidence \cup {Unpublished}
      PROVE  SafetyInv'
  <2>1. Typed'
    BY <1>1, <1>2 DEF Typed, Recorded
  <2>2. TypeOK'
    BY <2>1, TypeParts, PTL
  <2>3. (\A p \in Processes : JobFits(p))' /\ EventsFinite' /\ OneReviewPerRevision'
    BY <1>2 DEF SafetyInv, TypeInv, JobFits, EventsFinite, OneReviewPerRevision, Kind, Recorded
  <2> QED
    BY <2>2, <2>3 DEF SafetyInv, TypeInv
<1>3. CASE UNCHANGED vars
  BY <1>1, <1>2, <1>3 DEF vars, records, Typed
<1>4. CASE Wait
  <2>1. clock' \in Instants
    BY <1>1, <1>4, ConstantsOK DEF Wait, Typed, Instants, ConstantsOK
  <2> QED
    BY <1>1, <1>2, <1>4, <2>1 DEF Wait, Typed
<1>5. ASSUME NEW e \in Evidence \cup {Unpublished}, Republish(e) PROVE SafetyInv'
  BY <1>1, <1>2, <1>5 DEF Republish, Typed
<1>6. ASSUME NEW p \in Apis, Request(p) PROVE SafetyInv'
  <2>1. p \in Processes
    BY DEF Processes
  <2> QED
    BY <1>6, <2>1, BeginSteps, ReadSteps, WriteSteps DEF Request, Stop, Reopen
<1>7. ASSUME NEW p \in Processes, Trace(p) PROVE SafetyInv'
  BY <1>7, BeginSteps, ReadSteps, WriteSteps DEF Trace
<1> QED
  BY <1>3, <1>4, <1>5, <1>6, <1>7 DEF Next

-----------------------------------------------------------------------------
(* The replay *)

LEMMA MaxOfInterval ==
  ASSUME NEW m \in Nat, NEW t \in SUBSET (1..m), m \in t
  PROVE  Max(t) = m
<1>1. \A x \in t : x \in Int /\ x <= m
  OBVIOUS
<1>2. \A y \in t : m >= y
  BY <1>1
<1>3. \A x \in t : (\A y \in t : x >= y) => x = m
  BY <1>1
<1> QED
  BY <1>2, <1>3, Zenon DEF Max

\* One unrolling of the recursion of FoldLeft over the first m items.
Unrolls(g, m, base, s) ==
  g = [t \in SUBSET (1..m) |->
         IF t = {} THEN base ELSE LET x == Max(t) IN Replay(g[t \ {x}], s[x])]

LEMMA ReplayUnrolls ==
  ASSUME NEW n \in Nat, NEW base, NEW s
  PROVE  \E g : Unrolls(g, n, base, s)
<1> DEFINE Stuck == {m \in Nat : ~\E g : Unrolls(g, m, base, s)}
<1>1. SUFFICES ASSUME Stuck # {} PROVE FALSE
  OBVIOUS
<1>2. PICK m \in Stuck : \A k \in Stuck : ~(k < m)
  <2>1. PICK m \in Stuck : \A k \in Stuck : <<k, m>> \notin OpToRel(<, Nat)
    BY <1>1, NatLessThanWellFounded, WFMin
  <2> QED
    BY <2>1 DEF OpToRel
<1>3. m # 0
  <2> DEFINE g == [t \in SUBSET (1..0) |-> base]
  <2>1. \A t \in SUBSET (1..0) : t = {}
    OBVIOUS
  <2>2. Unrolls(g, 0, base, s)
    BY <2>1 DEF Unrolls
  <2> QED
    BY <1>2, <2>2
<1>4. PICK g : Unrolls(g, m - 1, base, s)
  BY <1>2, <1>3
<1> DEFINE f == [t \in SUBSET (1..m) |-> IF m \in t THEN Replay(g[t \ {m}], s[m]) ELSE g[t]]
<1> HIDE DEF f
<1>5. ASSUME NEW t \in SUBSET (1..m), m \in t
      PROVE  f[t] = Replay(f[t \ {m}], s[m]) /\ Max(t) = m
  <2>1. t \ {m} \in SUBSET (1..m) /\ m \notin t \ {m}
    OBVIOUS
  <2>2. f[t \ {m}] = g[t \ {m}]
    BY <2>1 DEF f
  <2>3. Max(t) = m
    BY <1>2, <1>5, MaxOfInterval
  <2> QED
    BY <1>5, <2>2, <2>3 DEF f
<1>6. ASSUME NEW t \in SUBSET (1..m), m \notin t, t # {}
      PROVE  f[t] = LET x == Max(t) IN Replay(f[t \ {x}], s[x])
  <2>1. t \in SUBSET (1..(m-1))
    BY <1>2, <1>6
  <2>2. g[t] = LET x == Max(t) IN Replay(g[t \ {x}], s[x])
    BY <1>4, <1>6, <2>1 DEF Unrolls
  <2>3. PICK x : x = Max(t)
    OBVIOUS
  <2>4. t \ {x} \in SUBSET (1..m) /\ m \notin t \ {x}
    BY <1>6
  <2>5. f[t] = g[t] /\ f[t \ {x}] = g[t \ {x}]
    BY <1>6, <2>4 DEF f
  <2> QED
    BY <2>2, <2>3, <2>5
<1>7. f[{}] = base
  <2>1. {} \in SUBSET (1..m) /\ {} \in SUBSET (1..(m-1)) /\ m \notin {}
    OBVIOUS
  <2>2. g[{}] = base
    BY <1>4, <2>1 DEF Unrolls
  <2> QED
    BY <2>1, <2>2 DEF f
<1>8. \A t \in SUBSET (1..m) :
        f[t] = IF t = {} THEN base ELSE LET x == Max(t) IN Replay(f[t \ {x}], s[x])
  BY <1>5, <1>6, <1>7
<1>9. Unrolls(f, m, base, s)
  <2>1. f = [t \in SUBSET (1..m) |-> f[t]]
    BY DEF f
  <2> QED
    BY <1>8, <2>1, Zenon DEF Unrolls
<1> QED
  BY <1>2, <1>9

Replayed(base, s) == FoldLeft(Replay, base, s)

\* The replay goes from item to item, in the order of the sequence.
LEMMA ReplaySteps ==
  ASSUME NEW n \in Nat, NEW base, NEW s, DOMAIN s = 1..n
  PROVE  \E r : /\ r[0] = base
                /\ \A k \in 1..n : r[k] = Replay(r[k-1], s[k])
                /\ Replayed(base, s) = r[n]
<1> DEFINE it == CHOOSE g : Unrolls(g, n, base, s)
<1>1. Replayed(base, s) = it[1..n]
  BY DEF Replayed, FoldLeft, MapThenFoldSet, Unrolls
<1>2. Unrolls(it, n, base, s)
  BY ReplayUnrolls
<1> HIDE DEF it
<1> DEFINE r == [k \in 0..n |-> it[1..k]]
<1>3. r[0] = base
  <2>1. 1..0 = {} /\ {} \in SUBSET (1..n) /\ 0 \in 0..n
    OBVIOUS
  <2>2. it[{}] = base
    BY <1>2, <2>1 DEF Unrolls
  <2> QED
    BY <2>1, <2>2
<1>4. ASSUME NEW k \in 1..n PROVE r[k] = Replay(r[k-1], s[k])
  <2>1. /\ 1..k \in SUBSET (1..n) /\ 1..k # {} /\ (1..k) \ {k} = 1..(k-1)
        /\ k \in 0..n /\ k-1 \in 0..n
    <3>1. k \in Nat /\ k >= 1 /\ k <= n
      OBVIOUS
    <3>2. k \in 1..k
      BY <3>1
    <3>3. \A i : i \in (1..k) \ {k} <=> i \in 1..(k-1)
      BY <3>1
    <3> QED
      BY <3>1, <3>2, <3>3
  <2>2. Max(1..k) = k
    BY <2>1, MaxOfInterval
  <2>3. it[1..k] = Replay(it[1..(k-1)], s[k])
    BY <1>2, <2>1, <2>2 DEF Unrolls
  <2> QED
    BY <2>1, <2>3
<1>5. Replayed(base, s) = r[n]
  BY <1>1
<1> HIDE DEF r
<1> QED
  BY <1>3, <1>4, <1>5

\* What is on record of a decision can be told apart by the times it carries.
ItemsFit(d) ==
  /\ followups[d] \subseteq FollowUps /\ events[d] \subseteq Events
  /\ IsFiniteSet(Items(d))
  /\ \A x, y \in followups[d] : x.key = y.key => x = y
  /\ \A x, y \in events[d] : x.at = y.at => x = y

LEMMA ItemShape ==
  ASSUME NEW d \in Decisions, ItemsFit(d), NEW x \in Items(d)
  PROVE  /\ x.at \in Nat
         /\ x.kind \in {"follow_up", "superseded", "stopped", "reopened"}
         /\ x.kind = "follow_up" => x \in followups[d] /\ x.key \in Nat
         /\ x.kind # "follow_up" => x \in events[d]
  BY DEF ItemsFit, Items, FollowUps, Events, Instants

LEMMA EarlierOrders ==
  ASSUME NEW d \in Decisions, ItemsFit(d)
  PROVE  /\ \A x \in Items(d) : ~Earlier(x, x)
         /\ \A x, y, z \in Items(d) : Earlier(x, y) /\ Earlier(y, z) => Earlier(x, z)
         /\ \A x, y \in Items(d) : x = y \/ Earlier(x, y) \/ Earlier(y, x)
<1>1. ASSUME NEW x \in Items(d) PROVE ~Earlier(x, x)
  BY <1>1, ItemShape DEF Earlier
<1>2. ASSUME NEW x \in Items(d), NEW y \in Items(d), NEW z \in Items(d), Earlier(x, y), Earlier(y, z)
      PROVE  Earlier(x, z)
  BY <1>2, ItemShape DEF Earlier
<1>3. ASSUME NEW x \in Items(d), NEW y \in Items(d), ~Earlier(x, y), ~Earlier(y, x)
      PROVE  x = y
  BY <1>3, ItemShape DEF Earlier, ItemsFit
<1> QED
  BY <1>1, <1>2, <1>3

\* Every item has a place of its own, and there is no other place.
LEMMA Places ==
  ASSUME NEW d \in Decisions, ItemsFit(d)
  PROVE  /\ Cardinality(Items(d)) \in Nat
         /\ \A x \in Items(d) : Place(d, x) \in 1..Cardinality(Items(d))
         /\ \A x, y \in Items(d) : Earlier(x, y) => Place(d, x) < Place(d, y)
         /\ \A k \in 1..Cardinality(Items(d)) : \E x \in Items(d) : Place(d, x) = k
<1> DEFINE S == Items(d)  n == Cardinality(S)  Before(x) == {y \in S : Earlier(y, x)}
<1>1. IsFiniteSet(S) /\ n \in Nat
  BY FS_CardinalityType DEF ItemsFit
<1>2. ASSUME NEW x \in S
      PROVE  /\ IsFiniteSet(Before(x)) /\ Cardinality(Before(x)) \in Nat
             /\ Cardinality(Before(x)) < n
  <2>1. Before(x) \in SUBSET S
    OBVIOUS
  <2>2. IsFiniteSet(Before(x)) /\ Cardinality(Before(x)) <= n /\ (n = Cardinality(Before(x)) => S = Before(x))
    BY <1>1, <2>1, FS_Subset
  <2>3. x \notin Before(x)
    BY <1>2, EarlierOrders
  <2>4. Cardinality(Before(x)) \in Nat
    BY <2>2, FS_CardinalityType
  <2> QED
    BY <1>1, <1>2, <2>2, <2>3, <2>4
<1>3. \A x \in S : Place(d, x) = Cardinality(Before(x)) + 1
  BY DEF Place
<1> HIDE DEF n
<1>4. ASSUME NEW x \in S PROVE Place(d, x) \in 1..n
  <2>1. PICK b : b = Cardinality(Before(x))
    OBVIOUS
  <2>2. b \in Nat /\ b < n /\ Place(d, x) = b + 1
    BY <1>2, <1>3, <2>1
  <2> QED
    BY <1>1, <2>2
<1>5. ASSUME NEW x \in S, NEW y \in S, Earlier(x, y) PROVE Place(d, x) < Place(d, y)
  <2>1. Before(x) \in SUBSET Before(y)
    BY <1>5, EarlierOrders
  <2>2. x \in Before(y) /\ x \notin Before(x)
    BY <1>5, EarlierOrders
  <2>3. Cardinality(Before(x)) <= Cardinality(Before(y)) /\ (Cardinality(Before(y)) = Cardinality(Before(x)) => Before(y) = Before(x))
    BY <1>2, <2>1, FS_Subset
  <2>4. PICK b, c : b = Cardinality(Before(x)) /\ c = Cardinality(Before(y))
    OBVIOUS
  <2>5. b \in Nat /\ c \in Nat /\ Place(d, x) = b + 1 /\ Place(d, y) = c + 1
    BY <1>2, <1>3, <2>4
  <2>6. b <= c /\ b # c
    BY <2>2, <2>3, <2>4
  <2> QED
    BY <2>5, <2>6
<1>6. \A k \in 1..n : \E x \in S : Place(d, x) = k
  <2> DEFINE place == [x \in S |-> Place(d, x)]
  <2>1. \A x, y \in S : place[x] = place[y] => x = y
    BY <1>4, <1>5, EarlierOrders
  <2>2. place \in [S -> 1..n]
    BY <1>4
  <2>3. place \in Injection(S, 1..n)
    BY <2>1, <2>2 DEF Injection, IsInjective
  <2>4. IsFiniteSet(1..n) /\ Cardinality(1..n) = n
    BY <1>1, FS_Interval
  <2>5. place \in Surjection(S, 1..n)
    BY <2>3, <2>4, FS_Injection DEF n
  <2> QED
    BY <2>5 DEF Surjection
<1> QED
  BY <1>1, <1>4, <1>5, <1>6 DEF n

\* The timeline lists every item once, the earlier first.
LEMMA TimelineSorted ==
  ASSUME NEW d \in Decisions, ItemsFit(d)
  PROVE  LET n == Cardinality(Items(d)) IN
         /\ n \in Nat
         /\ Timeline(d) \in [1..n -> Items(d)]
         /\ \A x \in Items(d) : \E k \in 1..n : Timeline(d)[k] = x
         /\ \A i, j \in 1..n : i < j <=> Earlier(Timeline(d)[i], Timeline(d)[j])
<1> DEFINE n == Cardinality(Items(d))
<1>1. n \in Nat
  BY Places
<1>2. ASSUME NEW k \in 1..n PROVE Timeline(d)[k] \in Items(d) /\ Place(d, Timeline(d)[k]) = k
  BY <1>2, Places DEF Timeline
<1>3. Timeline(d) \in [1..n -> Items(d)]
  BY <1>2 DEF Timeline
<1>4. \A x, y \in Items(d) : Place(d, x) = Place(d, y) => x = y
  BY Places, EarlierOrders
<1>5. \A x \in Items(d) : \E k \in 1..n : Timeline(d)[k] = x
  BY <1>2, <1>4, Places
<1>6. ASSUME NEW i \in 1..n, NEW j \in 1..n PROVE i < j <=> Earlier(Timeline(d)[i], Timeline(d)[j])
  BY <1>1, <1>2, Places, EarlierOrders
<1> QED
  BY <1>1, <1>3, <1>5, <1>6

Commitments == [stopped : BOOLEAN, open : SUBSET Events, next : Nat]

\* The day an item puts the next review off to.
PutsOff(item) == item.kind \in {"follow_up", "reopened"}
ReviewAfter(item) == DayOf(item.at) + Cadence

LEMMA ReviewAfterNat ==
  ASSUME NEW item, item.at \in Nat
  PROVE  ReviewAfter(item) \in Nat
<1>1. DayLength \in Nat /\ DayLength > 0 /\ Cadence \in Nat
  BY ConstantsOK DEF ConstantsOK
<1>2. item.at \div DayLength \in Nat
  BY <1>1
<1> QED
  BY <1>1, <1>2 DEF ReviewAfter, DayOf

LEMMA LaterIsMax ==
  ASSUME NEW due \in Nat, NEW item, item.at \in Nat
  PROVE  Later(due, item.at) = IF due >= ReviewAfter(item) THEN due ELSE ReviewAfter(item)
<1>1. PICK day \in Nat : day = ReviewAfter(item)
  BY ReviewAfterNat
<1>2. Later(due, item.at) = Max({due, day})
  BY <1>1 DEF Later, ReviewAfter
<1>3. PICK most \in {due, day} : most >= due /\ most >= day
  OBVIOUS
<1>4. \A x \in {due, day} : (\A y \in {due, day} : x >= y) => x = most
  BY <1>3
<1>5. \A y \in {due, day} : most >= y
  BY <1>3
<1>6. Max({due, day}) = most
  BY <1>3, <1>4, <1>5, Zenon DEF Max
<1> QED
  BY <1>1, <1>2, <1>3, <1>6

\* What one item of the timeline does to a commitment.
LEMMA ReplayItem ==
  ASSUME NEW c \in Commitments, NEW item, item.at \in Nat,
         item.kind \in {"follow_up", "superseded", "stopped", "reopened"},
         item.kind = "superseded" => item \in Events
  PROVE  /\ Replay(c, item) \in Commitments
         /\ Replay(c, item).stopped <=>
              item.kind = "stopped" \/ (item.kind # "reopened" /\ c.stopped)
         /\ Replay(c, item).open = IF item.kind = "follow_up" THEN {}
                                   ELSE IF item.kind = "superseded" THEN c.open \cup {item}
                                   ELSE c.open
         /\ ~PutsOff(item) => Replay(c, item).next = c.next
         /\ PutsOff(item) =>
              Replay(c, item).next = IF c.next >= ReviewAfter(item) THEN c.next
                                     ELSE ReviewAfter(item)
<1>1. PICK later : later = Later(c.next, item.at)
  OBVIOUS
<1>2. later \in Nat /\ later = IF c.next >= ReviewAfter(item) THEN c.next ELSE ReviewAfter(item)
  BY <1>1, LaterIsMax, ReviewAfterNat DEF Commitments
<1>3. CASE item.kind = "follow_up"
  <2>1. Replay(c, item) = [c EXCEPT !.open = {}, !.next = later]
    BY <1>1, <1>3 DEF Replay
  <2> QED
    BY <1>2, <1>3, <2>1 DEF Commitments, PutsOff
<1>4. CASE item.kind = "superseded"
  <2>1. Replay(c, item) = [c EXCEPT !.open = @ \cup {item}]
    BY <1>4 DEF Replay
  <2> QED
    BY <1>4, <2>1 DEF Commitments, PutsOff
<1>5. CASE item.kind = "stopped"
  <2>1. Replay(c, item) = [c EXCEPT !.stopped = TRUE]
    BY <1>5 DEF Replay
  <2> QED
    BY <1>5, <2>1 DEF Commitments, PutsOff
<1>6. CASE item.kind = "reopened"
  <2>1. Replay(c, item) = [c EXCEPT !.stopped = FALSE, !.next = later]
    BY <1>1, <1>6 DEF Replay
  <2> QED
    BY <1>2, <1>6, <2>1 DEF Commitments, PutsOff
<1> QED
  BY <1>3, <1>4, <1>5, <1>6

\* What the first k items of the timeline of d make of its commitment.
PrefixFits(d, c, k) ==
  LET item(i) == Timeline(d)[i] IN
  /\ c \in Commitments
  /\ c.stopped <=> \E i \in 1..k : /\ item(i).kind = "stopped"
                                   /\ \A j \in (i+1)..k : item(j).kind # "reopened"
  /\ c.open # {} <=> \E i \in 1..k : /\ item(i).kind = "superseded"
                                     /\ \A j \in (i+1)..k : item(j).kind # "follow_up"
  /\ c.next >= decisions[d].due
  /\ \A i \in 1..k : PutsOff(item(i)) => c.next >= ReviewAfter(item(i))
  /\ \/ c.next = decisions[d].due
     \/ \E i \in 1..k : PutsOff(item(i)) /\ c.next = ReviewAfter(item(i))

LEMMA PrefixStep ==
  ASSUME NEW d \in Decisions, ItemsFit(d), decisions[d].due \in Nat,
         NEW k \in 1..Cardinality(Items(d)), NEW c, PrefixFits(d, c, k - 1)
  PROVE  PrefixFits(d, Replay(c, Timeline(d)[k]), k)
<1> DEFINE n == Cardinality(Items(d))  item(i) == Timeline(d)[i]  new == Replay(c, item(k))
<1>1. n \in Nat /\ k \in Nat /\ k >= 1 /\ \A i \in 1..n : item(i) \in Items(d)
  BY TimelineSorted
<1>2. PICK x \in Items(d) : x = item(k)
  BY <1>1
<1>3. /\ x.at \in Nat /\ x.kind \in {"follow_up", "superseded", "stopped", "reopened"}
      /\ x.kind = "superseded" => x \in Events
  BY ItemShape DEF ItemsFit
<1>4. /\ c \in Commitments /\ new \in Commitments
      /\ new.stopped <=> x.kind = "stopped" \/ (x.kind # "reopened" /\ c.stopped)
      /\ new.open = IF x.kind = "follow_up" THEN {}
                    ELSE IF x.kind = "superseded" THEN c.open \cup {x}
                    ELSE c.open
      /\ ~PutsOff(x) => new.next = c.next
      /\ PutsOff(x) => new.next = IF c.next >= ReviewAfter(x) THEN c.next ELSE ReviewAfter(x)
  <2>1. c \in Commitments
    BY DEF PrefixFits
  <2>2. new = Replay(c, x)
    BY <1>2
  <2> HIDE DEF new
  <2> QED
    BY <1>3, <2>1, <2>2, ReplayItem
<1> HIDE DEF n, item, new
<1>5. \A i : i \in 1..k <=> i = k \/ i \in 1..(k-1)
  BY <1>1
<1>6. ASSUME NEW i \in 1..(k-1)
      PROVE  \A j : j \in (i+1)..k <=> j = k \/ j \in (i+1)..(k-1)
  BY <1>1
<1>7. \A j : j \notin (k+1)..k
  BY <1>1
<1>8. new.stopped <=> \E i \in 1..k : /\ item(i).kind = "stopped"
                                      /\ \A j \in (i+1)..k : item(j).kind # "reopened"
  <2>1. c.stopped <=> \E i \in 1..(k-1) : /\ item(i).kind = "stopped"
                                          /\ \A j \in (i+1)..(k-1) : item(j).kind # "reopened"
    BY DEF PrefixFits, item
  <2>2. CASE x.kind = "stopped"
    <3>1. new.stopped
      BY <1>4, <2>2
    <3>2. k \in 1..k /\ item(k).kind = "stopped" /\ \A j \in (k+1)..k : item(j).kind # "reopened"
      BY <1>1, <1>2, <1>7, <2>2
    <3> QED
      BY <3>1, <3>2
  <2>3. CASE x.kind = "reopened"
    <3>1. \A i \in 1..k : item(i).kind = "stopped" => i \in 1..(k-1)
      BY <1>2, <1>5, <2>3
    <3> QED
      BY <1>2, <1>4, <1>6, <2>3, <3>1
  <2>4. CASE x.kind \notin {"stopped", "reopened"}
    <3>1. \A i \in 1..k : item(i).kind = "stopped" => i \in 1..(k-1)
      BY <1>2, <1>5, <2>4
    <3>2. \A i \in 1..(k-1) : (\A j \in (i+1)..k : item(j).kind # "reopened")
                           <=> (\A j \in (i+1)..(k-1) : item(j).kind # "reopened")
      BY <1>2, <1>6, <2>4
    <3>3. new.stopped <=> c.stopped
      BY <1>4, <2>4 DEF Commitments
    <3> QED
      BY <1>5, <2>1, <3>1, <3>2, <3>3
  <2> QED
    BY <2>2, <2>3, <2>4
<1>9. new.open # {} <=> \E i \in 1..k : /\ item(i).kind = "superseded"
                                        /\ \A j \in (i+1)..k : item(j).kind # "follow_up"
  <2>1. c.open # {} <=> \E i \in 1..(k-1) : /\ item(i).kind = "superseded"
                                            /\ \A j \in (i+1)..(k-1) : item(j).kind # "follow_up"
    BY DEF PrefixFits, item
  <2>2. CASE x.kind = "superseded"
    <3>1. new.open = c.open \cup {x}
      BY <1>4, <2>2
    <3> QED
      BY <1>2, <1>5, <1>7, <2>2, <3>1
  <2>3. CASE x.kind = "follow_up"
    <3>1. \A i \in 1..k : item(i).kind = "superseded" => i \in 1..(k-1)
      BY <1>2, <1>5, <2>3
    <3>2. new.open = {}
      BY <1>4, <2>3
    <3> QED
      BY <1>2, <1>6, <2>3, <3>1, <3>2
  <2>4. CASE x.kind \notin {"superseded", "follow_up"}
    <3>1. \A i \in 1..k : item(i).kind = "superseded" => i \in 1..(k-1)
      BY <1>2, <1>5, <2>4
    <3>2. \A i \in 1..(k-1) : (\A j \in (i+1)..k : item(j).kind # "follow_up")
                           <=> (\A j \in (i+1)..(k-1) : item(j).kind # "follow_up")
      BY <1>2, <1>6, <2>4
    <3>3. new.open = c.open
      BY <1>4, <2>4
    <3> QED
      BY <1>5, <2>1, <3>1, <3>2, <3>3
  <2> QED
    BY <2>2, <2>3, <2>4
<1>10. /\ new.next >= decisions[d].due
       /\ \A i \in 1..k : PutsOff(item(i)) => new.next >= ReviewAfter(item(i))
       /\ \/ new.next = decisions[d].due
          \/ \E i \in 1..k : PutsOff(item(i)) /\ new.next = ReviewAfter(item(i))
  <2>1. /\ c.next >= decisions[d].due
        /\ \A i \in 1..(k-1) : PutsOff(item(i)) => c.next >= ReviewAfter(item(i))
        /\ \/ c.next = decisions[d].due
           \/ \E i \in 1..(k-1) : PutsOff(item(i)) /\ c.next = ReviewAfter(item(i))
    BY DEF PrefixFits, item
  <2>2. c.next \in Nat /\ new.next \in Nat /\ ReviewAfter(x) \in Nat
    BY <1>3, <1>4, ReviewAfterNat DEF Commitments
  <2>3. \A i \in 1..(k-1) : ReviewAfter(item(i)) \in Nat
    <3>1. ASSUME NEW i \in 1..(k-1) PROVE item(i).at \in Nat
      <4>1. i \in 1..n
        BY <1>1 DEF n
      <4>2. item(i) \in Items(d)
        BY <1>1, <4>1
      <4> QED
        BY <4>2, ItemShape
    <3> QED
      BY <3>1, ReviewAfterNat
  <2>4. CASE new.next = c.next /\ (PutsOff(x) => c.next >= ReviewAfter(x))
    BY <1>2, <1>5, <2>1, <2>4
  <2>5. CASE PutsOff(x) /\ new.next = ReviewAfter(x) /\ ReviewAfter(x) > c.next
    <3>1. new.next >= decisions[d].due
      BY <2>1, <2>2, <2>5
    <3>2. \A i \in 1..(k-1) : PutsOff(item(i)) => new.next >= ReviewAfter(item(i))
      BY <2>1, <2>2, <2>3, <2>5
    <3> QED
      BY <1>2, <1>5, <2>2, <2>5, <3>1, <3>2
  <2> QED
    BY <1>4, <2>2, <2>4, <2>5
<1> QED
  BY <1>4, <1>8, <1>9, <1>10 DEF PrefixFits, item, new

\* The replay of all of them.
LEMMA CommitmentFits ==
  ASSUME NEW d \in Decisions, ItemsFit(d), decisions[d].due \in Nat
  PROVE  PrefixFits(d, Commitment(d), Cardinality(Items(d)))
<1>0. PICK n, tl, base : n = Cardinality(Items(d)) /\ tl = Timeline(d)
                         /\ base = [stopped |-> FALSE, open |-> {}, next |-> decisions[d].due]
  OBVIOUS
<1>1. n \in Nat /\ DOMAIN tl = 1..n
  BY <1>0, TimelineSorted
<1>2. PICK r : /\ r[0] = base
               /\ \A k \in 1..n : r[k] = Replay(r[k-1], tl[k])
               /\ Replayed(base, tl) = r[n]
  BY <1>1, ReplaySteps
<1>3. Commitment(d) = r[n]
  BY <1>0, <1>2 DEF Commitment, Replayed
<1>4. PrefixFits(d, r[0], 0)
  <2>1. base \in Commitments /\ base.stopped = FALSE /\ base.open = {} /\ base.next = decisions[d].due
    BY <1>0 DEF Commitments
  <2>2. \A i : i \notin 1..0
    OBVIOUS
  <2> QED
    BY <1>2, <2>1, <2>2 DEF PrefixFits
<1> DEFINE Stuck == {k \in Nat : k <= n /\ ~PrefixFits(d, r[k], k)}
<1>5. ASSUME Stuck # {} PROVE FALSE
  <2>1. PICK k \in Stuck : \A m \in Stuck : <<m, k>> \notin OpToRel(<, Nat)
    BY <1>5, NatLessThanWellFounded, WFMin
  <2>2. \A m \in Stuck : ~(m < k)
    BY <2>1 DEF OpToRel
  <2>3. k # 0
    BY <1>4
  <2>4. k \in 1..n /\ k - 1 \in Nat /\ k - 1 <= n /\ k - 1 < k
    BY <1>1, <2>3
  <2>5. PrefixFits(d, r[k-1], k-1)
    BY <2>2, <2>4
  <2>6. PrefixFits(d, r[k], k)
    BY <1>0, <1>2, <2>4, <2>5, PrefixStep
  <2> QED
    BY <2>6
<1>6. PrefixFits(d, r[n], n)
  BY <1>1, <1>5
<1> QED
  BY <1>0, <1>3, <1>6

\* A commitment has an open supersession exactly when no follow-up was observed
\* after one of them.
LEMMA OpenSupersessions ==
  ASSUME NEW d \in Decisions, ItemsFit(d), decisions[d].due \in Nat
  PROVE  Commitment(d).open # {} <=>
           \E e \in Kind(d, "superseded") : \A f \in followups[d] : f.at <= e.at
<1> DEFINE n == Cardinality(Items(d))  item(i) == Timeline(d)[i]
<1>1. Commitment(d).open # {} <=> \E i \in 1..n : /\ item(i).kind = "superseded"
                                                  /\ \A j \in (i+1)..n : item(j).kind # "follow_up"
  BY CommitmentFits DEF PrefixFits
<1>2. /\ n \in Nat
      /\ \A i \in 1..n : item(i) \in Items(d)
      /\ \A x \in Items(d) : \E i \in 1..n : item(i) = x
      /\ \A i, j \in 1..n : i < j <=> Earlier(item(i), item(j))
  BY TimelineSorted
<1> HIDE DEF n, item
<1>3. \A i \in 1..n : \A j : j \in (i+1)..n <=> j \in 1..n /\ i < j
  BY <1>2
<1>4. \A x \in Items(d) : x.kind = "follow_up" <=> x \in followups[d]
  BY ItemShape DEF ItemsFit, FollowUps
<1>5. \A x : x \in Kind(d, "superseded") <=> x \in Items(d) /\ x.kind = "superseded"
  BY ItemShape DEF Kind, Items
<1>6. \A e \in Kind(d, "superseded"), f \in followups[d] : f.at <= e.at <=> ~Earlier(e, f)
  <2>1. \A f \in followups[d] : f \in Items(d) /\ f.kind = "follow_up" /\ f.at \in Nat
    BY <1>4, ItemShape DEF Items
  <2>2. \A e \in Kind(d, "superseded") : e.kind = "superseded" /\ e.at \in Nat
    BY <1>5, ItemShape
  <2> QED
    BY <2>1, <2>2 DEF Earlier
<1>7. ASSUME NEW i \in 1..n, item(i).kind = "superseded", \A j \in (i+1)..n : item(j).kind # "follow_up"
      PROVE  \E e \in Kind(d, "superseded") : \A f \in followups[d] : f.at <= e.at
  <2>1. item(i) \in Kind(d, "superseded")
    BY <1>2, <1>5, <1>7
  <2>2. ASSUME NEW f \in followups[d] PROVE ~Earlier(item(i), f)
    <3>1. PICK j \in 1..n : item(j) = f /\ item(j).kind = "follow_up"
      BY <1>2, <1>4 DEF Items
    <3> QED
      BY <1>2, <1>3, <1>7, <3>1
  <2> QED
    BY <1>6, <2>1, <2>2
<1>8. ASSUME NEW e \in Kind(d, "superseded"), \A f \in followups[d] : f.at <= e.at
      PROVE  \E i \in 1..n : /\ item(i).kind = "superseded"
                             /\ \A j \in (i+1)..n : item(j).kind # "follow_up"
  <2>1. PICK i \in 1..n : item(i) = e
    BY <1>2, <1>5
  <2>2. ASSUME NEW j \in (i+1)..n, item(j).kind = "follow_up" PROVE FALSE
    <3>1. j \in 1..n /\ i < j /\ item(j) \in followups[d]
      BY <1>2, <1>3, <1>4, <2>2
    <3> QED
      BY <1>2, <1>6, <1>8, <2>1, <3>1
  <2> QED
    BY <1>5, <2>1, <2>2
<1> QED
  BY <1>1, <1>7, <1>8

\* The replay and _is_stopped agree on what is stopped.
LEMMA StoppedByLast ==
  ASSUME NEW d \in Decisions, ItemsFit(d), decisions[d].due \in Nat
  PROVE  Commitment(d).stopped <=> IsStopped(d)
<1> DEFINE n == Cardinality(Items(d))  item(i) == Timeline(d)[i]
<1>1. Commitment(d).stopped <=> \E i \in 1..n : /\ item(i).kind = "stopped"
                                                /\ \A j \in (i+1)..n : item(j).kind # "reopened"
  BY CommitmentFits DEF PrefixFits
<1>2. /\ n \in Nat
      /\ \A i \in 1..n : item(i) \in Items(d)
      /\ \A x \in Items(d) : \E i \in 1..n : item(i) = x
      /\ \A i, j \in 1..n : i < j <=> Earlier(item(i), item(j))
  BY TimelineSorted
<1> HIDE DEF n, item
<1>3. \A i \in 1..n : \A j : j \in (i+1)..n <=> j \in 1..n /\ i < j
  BY <1>2
<1>4. \A kind \in {"stopped", "reopened"} :
        \A x : x \in Kind(d, kind) <=> x \in Items(d) /\ x.kind = kind
  BY ItemShape DEF Kind, Items
<1>5. \A s \in Kind(d, "stopped"), r \in Kind(d, "reopened") : r.at < s.at <=> ~Earlier(s, r)
  <2>1. ASSUME NEW s \in Kind(d, "stopped"), NEW r \in Kind(d, "reopened")
        PROVE  /\ s.kind = "stopped" /\ r.kind = "reopened" /\ s.at \in Nat /\ r.at \in Nat
               /\ s.at # r.at
    <3>1. s \in Items(d) /\ s.kind = "stopped" /\ r \in Items(d) /\ r.kind = "reopened"
      BY <1>4
    <3>2. s.at \in Nat /\ r.at \in Nat /\ s \in events[d] /\ r \in events[d]
      BY <3>1, ItemShape
    <3> QED
      BY <3>1, <3>2 DEF ItemsFit
  <2> QED
    BY <2>1 DEF Earlier
<1>6. ASSUME NEW i \in 1..n, item(i).kind = "stopped", \A j \in (i+1)..n : item(j).kind # "reopened"
      PROVE  IsStopped(d)
  <2>1. item(i) \in Kind(d, "stopped")
    BY <1>2, <1>4, <1>6
  <2>2. ASSUME NEW r \in Kind(d, "reopened") PROVE ~Earlier(item(i), r)
    <3>1. PICK j \in 1..n : item(j) = r /\ item(j).kind = "reopened"
      BY <1>2, <1>4
    <3> QED
      BY <1>2, <1>3, <1>6, <3>1
  <2> QED
    BY <1>5, <2>1, <2>2 DEF IsStopped
<1>7. ASSUME NEW s \in Kind(d, "stopped"), \A r \in Kind(d, "reopened") : r.at < s.at
      PROVE  \E i \in 1..n : /\ item(i).kind = "stopped"
                             /\ \A j \in (i+1)..n : item(j).kind # "reopened"
  <2>1. PICK i \in 1..n : item(i) = s
    BY <1>2, <1>4
  <2>2. ASSUME NEW j \in (i+1)..n, item(j).kind = "reopened" PROVE FALSE
    <3>1. j \in 1..n /\ i < j /\ item(j) \in Kind(d, "reopened")
      BY <1>2, <1>3, <1>4, <2>2
    <3> QED
      BY <1>2, <1>5, <1>7, <2>1, <3>1
  <2> QED
    BY <1>4, <2>1, <2>2
<1> QED
  BY <1>1, <1>6, <1>7 DEF IsStopped

\* The next review is the latest of the days the decision and its items ask for.
LEMMA NextIsLatest ==
  ASSUME NEW d \in Decisions, ItemsFit(d), decisions[d].due \in Nat
  PROVE  /\ Commitment(d).next \in Nat
         /\ Commitment(d).next >= decisions[d].due
         /\ \A x \in Items(d) : PutsOff(x) => Commitment(d).next >= ReviewAfter(x)
         /\ \/ Commitment(d).next = decisions[d].due
            \/ \E x \in Items(d) : PutsOff(x) /\ Commitment(d).next = ReviewAfter(x)
<1>1. PrefixFits(d, Commitment(d), Cardinality(Items(d)))
  BY CommitmentFits
<1>2. /\ \A i \in 1..Cardinality(Items(d)) : Timeline(d)[i] \in Items(d)
      /\ \A x \in Items(d) : \E i \in 1..Cardinality(Items(d)) : Timeline(d)[i] = x
  BY TimelineSorted
<1> QED
  BY <1>1, <1>2 DEF PrefixFits, Commitments

LEMMA StateIs ==
  ASSUME NEW d
  PROVE  /\ State(d) = "stopped" <=> Commitment(d).stopped
         /\ State(d) = "review_required" <=> ~Commitment(d).stopped /\ Commitment(d).open # {}
<1>1. CASE Commitment(d).stopped
  <2>1. State(d) = "stopped"
    BY <1>1 DEF State
  <2> QED
    BY <1>1, <2>1
<1>2. CASE ~Commitment(d).stopped /\ Commitment(d).open # {}
  <2>1. State(d) = "review_required"
    BY <1>2 DEF State
  <2> QED
    BY <1>2, <2>1
<1>3. CASE ~Commitment(d).stopped /\ Commitment(d).open = {}
  <2>1. State(d) = "review_due" \/ State(d) = "active"
    BY <1>3 DEF State
  <2> QED
    BY <1>3, <2>1
<1> QED
  BY <1>1, <1>2, <1>3

-----------------------------------------------------------------------------
(* The times of the records *)

\* Handlers that put the instant they began at on what they write.
Stamped(p) == job[p].op \notin {"idle", "recording", "pinning"}

HandlersApart ==
  /\ \A p \in Processes : Stamped(p) => job[p].now < clock
  /\ \A p, q \in Processes : Stamped(p) /\ Stamped(q) /\ job[p].now = job[q].now => p = q

\* A handler has written no event at its instant, but for a trace that is done
\* with the decision.
EventsApart ==
  \A d \in Decisions :
    /\ \A x \in events[d] :
         /\ x.at < clock
         /\ \A p \in Processes : Stamped(p) /\ job[p].now = x.at =>
              job[p].op = "tracing" /\ d \notin job[p].todo
    /\ \A x, y \in events[d] : x.at = y.at => x = y

FollowUpsApart ==
  \A d \in Decisions :
    /\ IsFiniteSet(followups[d])
    /\ \A x \in followups[d] :
         x.key < clock /\ \A p \in Processes : Stamped(p) => job[p].now # x.key
    /\ \A x, y \in followups[d] : x.key = y.key => x = y

TimesInv == HandlersApart /\ EventsApart /\ FollowUpsApart

\* A handler sets out at an instant nobody else has.
LEMMA TimesBegin ==
  ASSUME Typed, TimesInv, NEW p \in Processes, NEW new,
         job' = [job EXCEPT ![p] = new], clock' = clock + 1,
         UNCHANGED <<decisions, followups, events>>,
         new.op \notin {"idle", "recording", "pinning"} => new.now = clock
  PROVE  TimesInv'
<1>1. /\ job'[p] = new /\ \A q \in Processes \ {p} : job'[q] = job[q]
      /\ clock \in Nat /\ \A q \in Processes : job[q].now \in Nat
  BY DEF Typed, Instants, Jobs
<1>2. HandlersApart'
  BY <1>1 DEF TimesInv, HandlersApart, Stamped
<1>3. \A d \in Decisions : \A x \in events[d] : x.at \in Nat
  BY DEF Typed, Events, Instants
<1>4. \A d \in Decisions : \A x \in followups[d] : x.key \in Nat
  BY DEF Typed, FollowUps, Instants
<1>5. EventsApart'
  BY <1>1, <1>3 DEF TimesInv, EventsApart, Stamped
<1>6. FollowUpsApart'
  BY <1>1, <1>4 DEF TimesInv, FollowUpsApart, Stamped
<1> QED
  BY <1>2, <1>5, <1>6 DEF TimesInv

\* A handler that goes on without a record keeps its instant, or is done with it.
LEMMA TimesGoOn ==
  ASSUME Typed, TimesInv, NEW p \in Processes, NEW new,
         job' = [job EXCEPT ![p] = new], clock' = clock,
         UNCHANGED <<followups, events>>,
         \/ new.op \in {"idle", "recording", "pinning"}
         \/ Stamped(p) /\ new.now = job[p].now /\ job[p].op # "tracing"
  PROVE  TimesInv'
<1>1. job'[p] = new /\ \A q \in Processes \ {p} : job'[q] = job[q]
  BY DEF Typed
<1>2. HandlersApart'
  BY <1>1 DEF TimesInv, HandlersApart, Stamped
<1>3. EventsApart'
  BY <1>1 DEF TimesInv, EventsApart, Stamped
<1>4. FollowUpsApart'
  BY <1>1 DEF TimesInv, FollowUpsApart, Stamped
<1> QED
  BY <1>2, <1>3, <1>4 DEF TimesInv

\* A handler writes an event at its instant, and then goes, or goes on to
\* another decision.
LEMMA TimesAppend ==
  ASSUME Typed, TimesInv, NEW p \in Processes, NEW new, NEW d \in Decisions, NEW event,
         job' = [job EXCEPT ![p] = new], clock' = clock, followups' = followups,
         Stamped(p), event.at = job[p].now,
         job[p].op = "tracing" => d \in job[p].todo,
         events' = events \/ events' = [events EXCEPT ![d] = @ \cup {event}],
         \/ new.op = "idle"
         \/ new.op = "tracing" /\ new.now = job[p].now /\ new.todo = job[p].todo \ {d}
            /\ job[p].op = "tracing"
  PROVE  TimesInv'
<1>1. job'[p] = new /\ \A q \in Processes \ {p} : job'[q] = job[q]
  BY DEF Typed
<1>2. HandlersApart'
  BY <1>1 DEF TimesInv, HandlersApart, Stamped
<1>3. FollowUpsApart'
  BY <1>1 DEF TimesInv, FollowUpsApart, Stamped
<1>4. \A x \in events[d] : x.at # job[p].now
  BY DEF TimesInv, EventsApart
<1>5. job[p].now < clock
  BY DEF TimesInv, HandlersApart
<1>6. \A c \in Decisions : \A x \in events'[c] : x \in events[c] \/ (c = d /\ x = event)
  BY DEF Typed
<1>7. EventsApart'
  <2>1. ASSUME NEW c \in Decisions, NEW x \in events'[c]
        PROVE  /\ x.at < clock'
               /\ \A q \in Processes : Stamped(q)' /\ job'[q].now = x.at =>
                    job'[q].op = "tracing" /\ c \notin job'[q].todo
    <3>1. CASE x \in events[c]
      BY <1>1, <3>1 DEF TimesInv, EventsApart, Stamped
    <3>2. CASE c = d /\ x = event
      <4>1. ASSUME NEW q \in Processes, Stamped(q)', job'[q].now = x.at
            PROVE  job'[q].op = "tracing" /\ c \notin job'[q].todo
        <5>1. CASE q = p
          BY <1>1, <3>2, <4>1, <5>1 DEF Stamped
        <5>2. CASE q # p
          BY <1>1, <3>2, <4>1, <5>2 DEF Stamped, TimesInv, HandlersApart
        <5> QED
          BY <5>1, <5>2
      <4> QED
        BY <1>5, <3>2, <4>1
    <3> QED
      BY <1>6, <2>1, <3>1, <3>2
  <2>2. ASSUME NEW c \in Decisions, NEW x \in events'[c], NEW y \in events'[c], x.at = y.at
        PROVE  x = y
    BY <1>4, <1>6, <2>2 DEF TimesInv, EventsApart
  <2> QED
    BY <2>1, <2>2 DEF EventsApart
<1> QED
  BY <1>2, <1>3, <1>7 DEF TimesInv

\* A follow-up carries the instant of the request as its key.
LEMMA TimesFollowUp ==
  ASSUME Typed, TimesInv, NEW p \in Processes, NEW new, NEW d \in Decisions, NEW item,
         job' = [job EXCEPT ![p] = new], clock' = clock, events' = events,
         Stamped(p), new.op = "idle", item.key = job[p].now,
         followups' = [followups EXCEPT ![d] = @ \cup {item}]
  PROVE  TimesInv'
<1>1. job'[p] = new /\ \A q \in Processes \ {p} : job'[q] = job[q]
  BY DEF Typed
<1>2. HandlersApart'
  BY <1>1 DEF TimesInv, HandlersApart, Stamped
<1>3. EventsApart'
  BY <1>1 DEF TimesInv, EventsApart, Stamped
<1>4. /\ followups'[d] = followups[d] \cup {item}
      /\ \A c \in Decisions \ {d} : followups'[c] = followups[c]
  BY DEF Typed
<1>5. FollowUpsApart'
  <2>1. ASSUME NEW c \in Decisions PROVE IsFiniteSet(followups'[c])
    <3>1. IsFiniteSet(followups[c])
      BY DEF TimesInv, FollowUpsApart
    <3> QED
      BY <1>4, <3>1, FS_AddElement
  <2>2. job[p].now < clock /\ \A x \in followups[d] : x.key # job[p].now
    BY DEF TimesInv, HandlersApart, FollowUpsApart
  <2>3. ASSUME NEW c \in Decisions, NEW x \in followups'[c]
        PROVE  x.key < clock' /\ \A q \in Processes : Stamped(q)' => job'[q].now # x.key
    <3>1. CASE x \in followups[c]
      BY <1>1, <3>1 DEF TimesInv, FollowUpsApart, Stamped
    <3>2. CASE x = item
      BY <1>1, <2>2, <3>2 DEF TimesInv, HandlersApart, Stamped
    <3> QED
      BY <1>4, <2>3, <3>1, <3>2
  <2>4. ASSUME NEW c \in Decisions, NEW x \in followups'[c], NEW y \in followups'[c], x.key = y.key
        PROVE  x = y
    BY <1>4, <2>2, <2>4 DEF TimesInv, FollowUpsApart
  <2> QED
    BY <2>1, <2>3, <2>4 DEF FollowUpsApart
<1> QED
  BY <1>2, <1>3, <1>5 DEF TimesInv

LEMMA TimesInit == Init => TimesInv
<1> SUFFICES ASSUME Init PROVE TimesInv
  OBVIOUS
<1>1. \A p \in Processes : ~Stamped(p)
  BY DEF Init, Stamped, Idle
<1>2. IsFiniteSet({})
  BY FS_EmptySet
<1> QED
  BY <1>1, <1>2 DEF Init, TimesInv, HandlersApart, EventsApart, FollowUpsApart

LEMMA TimesKept == SafetyInv /\ TimesInv /\ [Next]_vars => TimesInv'
<1> SUFFICES ASSUME SafetyInv, TimesInv, [Next]_vars PROVE TimesInv'
  OBVIOUS
<1>1. Typed /\ \A p \in Processes : JobFits(p)
  BY TypeParts DEF SafetyInv, TypeInv
<1>2. ASSUME UNCHANGED <<followups, events, job>>, clock' = clock \/ clock' = clock + 1
      PROVE  TimesInv'
  <2>1. /\ clock \in Nat /\ \A q \in Processes : job[q].now \in Nat
        /\ \A d \in Decisions : \A x \in events[d] : x.at \in Nat
        /\ \A d \in Decisions : \A x \in followups[d] : x.key \in Nat
    BY <1>1 DEF Typed, Instants, Jobs, Events, FollowUps
  <2>2. HandlersApart'
    BY <1>2, <2>1 DEF TimesInv, HandlersApart, Stamped
  <2>3. EventsApart'
    BY <1>2, <2>1 DEF TimesInv, EventsApart, Stamped
  <2>4. FollowUpsApart'
    BY <1>2, <2>1 DEF TimesInv, FollowUpsApart, Stamped
  <2> QED
    BY <2>2, <2>3, <2>4 DEF TimesInv
<1>3. CASE UNCHANGED vars
  BY <1>2, <1>3 DEF vars, records
<1>4. CASE Wait
  BY <1>2, <1>4 DEF Wait
<1>5. ASSUME NEW e \in Evidence \cup {Unpublished}, Republish(e) PROVE TimesInv'
  BY <1>2, <1>5 DEF Republish
<1>6. ASSUME NEW p \in Processes, NEW new, Begin(p, new),
             new.op \notin {"idle", "recording", "pinning"} => new.now = clock
      PROVE  TimesInv'
  BY <1>1, <1>6, TimesBegin DEF Begin
<1>7. ASSUME NEW p \in Processes, NEW t \in Instants, NEW extra \in 0..1, BeginRecord(p, t, extra)
      PROVE  TimesInv'
  <2>1. PICK new : new = [Idle EXCEPT !.op = "recording", !.at = t, !.due = DayOf(t) + Window + extra]
    OBVIOUS
  <2>2. new.op = "recording"
    BY <2>1 DEF Idle
  <2> QED
    BY <1>6, <1>7, <2>1, <2>2 DEF BeginRecord
<1>8. ASSUME NEW p \in Processes, NEW d \in Decisions, NEW t \in Instants, BeginFollowUp(p, d, t)
      PROVE  TimesInv'
  <2>1. PICK new : new = [Idle EXCEPT !.op = "following", !.on = d, !.now = clock, !.at = t]
    OBVIOUS
  <2>2. new.now = clock
    BY <2>1 DEF Idle
  <2> QED
    BY <1>6, <1>8, <2>1, <2>2 DEF BeginFollowUp
<1>9. ASSUME NEW p \in Processes, NEW d \in Decisions, NEW op \in {"stopping", "reopening"},
             BeginEnd(p, d, op)
      PROVE  TimesInv'
  <2>1. PICK new : new = [Idle EXCEPT !.op = op, !.on = d, !.now = clock]
    OBVIOUS
  <2>2. new.now = clock
    BY <2>1 DEF Idle
  <2> QED
    BY <1>6, <1>9, <2>1, <2>2 DEF BeginEnd
<1>10. ASSUME NEW p \in Processes, BeginTrace(p) PROVE TimesInv'
  <2>1. PICK new : new = [Idle EXCEPT !.op = "listing", !.now = clock]
    OBVIOUS
  <2>2. new.now = clock
    BY <2>1 DEF Idle
  <2> QED
    BY <1>6, <1>10, <2>1, <2>2 DEF BeginTrace
<1>11. ASSUME NEW p \in Processes,
              ReadSubject(p) \/ ListDecisions(p) \/ LookUp(p) \/ Lose(p)
              \/ \E d \in Decisions : CreateDecision(p, d)
       PROVE  TimesInv'
  <2>0. job[p] \in Jobs
    BY <1>1 DEF Typed
  <2>1. CASE ReadSubject(p)
    <3>1. PICK new : new = [job[p] EXCEPT !.op = "pinning", !.found = published]
      OBVIOUS
    <3>2. new.op = "pinning" /\ job' = [job EXCEPT ![p] = new]
      BY <2>0, <2>1, <3>1 DEF ReadSubject, Jobs
    <3> QED
      BY <1>1, <2>1, <3>2, TimesGoOn DEF ReadSubject
  <2>2. CASE ListDecisions(p)
    <3>1. PICK new : new = [job[p] EXCEPT !.op = "looking", !.todo = Recorded]
      OBVIOUS
    <3>2. new.now = job[p].now /\ job' = [job EXCEPT ![p] = new] /\ Stamped(p) /\ job[p].op # "tracing"
      BY <2>0, <2>2, <3>1 DEF ListDecisions, Jobs, Busy, Stamped
    <3> QED
      BY <1>1, <2>2, <3>2, TimesGoOn DEF ListDecisions
  <2>3. CASE LookUp(p)
    <3>1. PICK new : new = [job[p] EXCEPT !.op = "tracing", !.found = published]
      OBVIOUS
    <3>2. new.now = job[p].now /\ job' = [job EXCEPT ![p] = new] /\ Stamped(p) /\ job[p].op # "tracing"
      BY <2>0, <2>3, <3>1 DEF LookUp, Jobs, Busy, Stamped
    <3> QED
      BY <1>1, <2>3, <3>2, TimesGoOn DEF LookUp
  <2>4. CASE Lose(p) \/ \E d \in Decisions : CreateDecision(p, d)
    <3>1. job' = [job EXCEPT ![p] = Idle] /\ UNCHANGED <<clock, followups, events>>
      BY <2>4 DEF Lose, CreateDecision, Done
    <3> QED
      BY <1>1, <3>1, IdleTyped, TimesGoOn
  <2> QED
    BY <1>11, <2>1, <2>2, <2>3, <2>4
<1>12. ASSUME NEW p \in Processes, NEW op \in {"stopping", "reopening"},
              NEW kind \in {"stopped", "reopened"}, ReadEvents(p, op, kind)
       PROVE  TimesInv'
  <2>1. PICK new : new = [job[p] EXCEPT !.op = kind, !.number = NextNumber(job[p].on, kind)]
    OBVIOUS
  <2>2. job[p] \in Jobs
    BY <1>1 DEF Typed
  <2>3. new.now = job[p].now /\ job' = [job EXCEPT ![p] = new] /\ Stamped(p) /\ job[p].op # "tracing"
    BY <1>12, <2>1, <2>2 DEF ReadEvents, Jobs, Busy, Stamped
  <2> QED
    BY <1>1, <1>12, <2>3, TimesGoOn DEF ReadEvents
<1>13. ASSUME NEW p \in Processes, AddFollowUp(p) PROVE TimesInv'
  <2>1. PICK d \in Decisions : d = job[p].on
    BY <1>1, <1>13 DEF AddFollowUp, Busy, JobFits
  <2>2. PICK item : item = [kind |-> "follow_up", key |-> job[p].now, at |-> job[p].at]
    OBVIOUS
  <2>3. /\ followups' = [followups EXCEPT ![d] = @ \cup {item}] /\ item.key = job[p].now
        /\ job' = [job EXCEPT ![p] = Idle] /\ clock' = clock /\ events' = events /\ Stamped(p)
    BY <1>13, <2>1, <2>2 DEF AddFollowUp, Done, Busy, Stamped
  <2> QED
    BY <1>1, <2>3, IdleTyped, TimesFollowUp
<1>14. ASSUME NEW p \in Processes, NEW kind \in {"stopped", "reopened"}, AppendEnd(p, kind)
       PROVE  TimesInv'
  <2>1. PICK d \in Decisions : d = job[p].on
    BY <1>1, <1>14 DEF AppendEnd, Busy, JobFits
  <2>2. PICK event : event = [kind |-> kind, key |-> job[p].number, at |-> job[p].now]
    OBVIOUS
  <2>3. /\ event.at = job[p].now /\ Stamped(p) /\ job[p].op # "tracing"
        /\ job' = [job EXCEPT ![p] = Idle] /\ clock' = clock /\ followups' = followups
    BY <1>14, <2>2 DEF AppendEnd, Done, Busy, Stamped
  <2>4. events' = events \/ events' = [events EXCEPT ![d] = @ \cup {event}]
    BY <1>14, <2>1, <2>2 DEF AppendEnd, AppendOnce
  <2> QED
    BY <1>1, <2>3, <2>4, IdleTyped, TimesAppend
<1>15. ASSUME NEW p \in Processes, NEW d \in Decisions, TraceOne(p, d) PROVE TimesInv'
  <2>1. PICK event : event = [kind |-> "superseded", key |-> job[p].found, at |-> job[p].now]
    OBVIOUS
  <2>2. /\ event.at = job[p].now /\ Stamped(p) /\ job[p].op = "tracing" /\ d \in job[p].todo
        /\ clock' = clock /\ followups' = followups /\ job[p] \in Jobs
    BY <1>1, <1>15, <2>1 DEF TraceOne, Busy, Stamped, Typed
  <2>3. events' = events \/ events' = [events EXCEPT ![d] = @ \cup {event}]
    BY <1>15, <2>1 DEF TraceOne, AppendOnce
  <2>4. CASE job' = [job EXCEPT ![p] = Idle]
    BY <1>1, <2>2, <2>3, <2>4, IdleTyped, TimesAppend
  <2>5. CASE job' = [job EXCEPT ![p].todo = @ \ {d}]
    <3>1. PICK new : new = [job[p] EXCEPT !.todo = @ \ {d}]
      OBVIOUS
    <3>2. /\ new.op = "tracing" /\ new.now = job[p].now /\ new.todo = job[p].todo \ {d}
          /\ job' = [job EXCEPT ![p] = new]
      BY <2>2, <2>5, <3>1 DEF Jobs
    <3> QED
      BY <1>1, <2>2, <2>3, <3>2, TimesAppend
  <2> QED
    BY <1>15, <2>4, <2>5 DEF TraceOne, Done
<1>16. ASSUME NEW p \in Apis, Request(p) PROVE TimesInv'
  <2>1. p \in Processes
    BY DEF Processes
  <2> QED
    BY <1>7, <1>8, <1>9, <1>11, <1>12, <1>13, <1>14, <1>16, <2>1 DEF Request, Stop, Reopen
<1>17. ASSUME NEW p \in Processes, Trace(p) PROVE TimesInv'
  BY <1>10, <1>11, <1>15, <1>17 DEF Trace
<1> QED
  BY <1>3, <1>4, <1>5, <1>16, <1>17 DEF Next

-----------------------------------------------------------------------------
(* What the replay shows *)

\* The inductive invariant of the replay: the types and the times.
LedgerInv == SafetyInv /\ TimesInv

LEMMA LedgerHolds == Spec => []LedgerInv
<1>1. Init => LedgerInv
  BY SafetyInit, TimesInit DEF LedgerInv
<1>2. LedgerInv /\ [Next]_vars => LedgerInv'
  BY SafetyKept, TimesKept DEF LedgerInv
<1> QED
  BY <1>1, <1>2, PTL DEF Spec

LEMMA AllItemsFit ==
  ASSUME LedgerInv, NEW d \in Decisions
  PROVE  ItemsFit(d) /\ decisions[d].due \in Nat
<1>1. Typed /\ EventsFinite
  BY TypeParts DEF LedgerInv, SafetyInv, TypeInv
<1>2. IsFiniteSet(followups[d]) /\ IsFiniteSet(events[d])
  BY <1>1 DEF LedgerInv, TimesInv, FollowUpsApart, EventsFinite
<1>3. IsFiniteSet(Items(d))
  BY <1>2, FS_Union DEF Items
<1> QED
  BY <1>1, <1>3 DEF Typed, Records, ItemsFit, LedgerInv, TimesInv, FollowUpsApart, EventsApart

\* What the replay shows is stopped is what the handlers find stopped.
StopCheckAgrees == \A d \in Decisions : State(d) = "stopped" <=> IsStopped(d)

LEMMA StopsFit == LedgerInv => StopCheckAgrees
<1> SUFFICES ASSUME LedgerInv PROVE StopCheckAgrees
  OBVIOUS
<1>1. ASSUME NEW d \in Decisions PROVE State(d) = "stopped" <=> IsStopped(d)
  BY AllItemsFit, StoppedByLast, StateIs
<1> QED
  BY <1>1 DEF StopCheckAgrees

LEMMA SupersessionsFit == LedgerInv => SupersessionStands
<1> SUFFICES ASSUME LedgerInv PROVE SupersessionStands
  OBVIOUS
<1>1. ASSUME NEW d \in Recorded, State(d) # "stopped"
      PROVE  State(d) = "review_required" <=>
               \E e \in Kind(d, "superseded") : \A f \in followups[d] : f.at <= e.at
  <2>1. d \in Decisions
    BY DEF Recorded
  <2> QED
    BY <1>1, <2>1, AllItemsFit, OpenSupersessions, StateIs
<1> QED
  BY <1>1 DEF SupersessionStands

NextFits ==
  \A d \in Decisions :
    /\ Commitment(d).next \in Nat
    /\ Commitment(d).next >= decisions[d].due
    /\ \A x \in Items(d) : PutsOff(x) => Commitment(d).next >= ReviewAfter(x)
    /\ \/ Commitment(d).next = decisions[d].due
       \/ \E x \in Items(d) : PutsOff(x) /\ Commitment(d).next = ReviewAfter(x)

LEMMA NextsFit == LedgerInv => NextFits
<1> SUFFICES ASSUME LedgerInv PROVE NextFits
  OBVIOUS
<1> QED
  BY AllItemsFit, NextIsLatest DEF NextFits

\* No record is ever taken back, and no decision's first review moves.
LEMMA RecordsGrow ==
  ASSUME LedgerInv, [Next]_vars, NEW d \in Recorded
  PROVE  Items(d) \subseteq Items(d)' /\ decisions'[d].due = decisions[d].due
<1>1. Typed /\ d \in Decisions
  BY TypeParts DEF LedgerInv, SafetyInv, TypeInv, Recorded
<1>2. CASE UNCHANGED <<decisions, followups, events>>
  BY <1>2 DEF Items
<1>3. ASSUME NEW p \in Processes, NEW c \in Decisions, CreateDecision(p, c)
      PROVE  Items(d)' = Items(d) /\ decisions'[d].due = decisions[d].due
  BY <1>1, <1>3 DEF CreateDecision, Items, Typed, Recorded
<1>4. ASSUME NEW p \in Processes, AddFollowUp(p)
      PROVE  Items(d) \subseteq Items(d)' /\ decisions' = decisions
  <2>1. events' = events /\ decisions' = decisions
    BY <1>4 DEF AddFollowUp
  <2>2. followups[d] \subseteq followups'[d]
    BY <1>1, <1>4 DEF AddFollowUp, Typed
  <2> QED
    BY <2>1, <2>2 DEF Items
<1>5. ASSUME NEW c, NEW event, AppendOnce(c, event) PROVE events[d] \subseteq events'[d]
  BY <1>1, <1>5 DEF AppendOnce, Typed
<1>6. ASSUME NEW p \in Processes, NEW kind \in {"stopped", "reopened"}, AppendEnd(p, kind)
      PROVE  Items(d) \subseteq Items(d)' /\ decisions' = decisions
  <2>1. PICK c, event : c = job[p].on /\ event = [kind |-> kind, key |-> job[p].number, at |-> job[p].now]
    OBVIOUS
  <2>2. AppendOnce(c, event) /\ UNCHANGED <<decisions, followups>>
    BY <1>6, <2>1 DEF AppendEnd
  <2>3. events[d] \subseteq events'[d]
    BY <1>5, <2>2
  <2> QED
    BY <2>2, <2>3 DEF Items
<1>7. ASSUME NEW p \in Processes, NEW c \in Decisions, TraceOne(p, c)
      PROVE  Items(d) \subseteq Items(d)' /\ decisions' = decisions
  <2>1. PICK event : event = [kind |-> "superseded", key |-> job[p].found, at |-> job[p].now]
    OBVIOUS
  <2>2. (AppendOnce(c, event) \/ events' = events) /\ UNCHANGED <<decisions, followups>>
    BY <1>7, <2>1 DEF TraceOne
  <2>3. events[d] \subseteq events'[d]
    BY <1>5, <2>2
  <2> QED
    BY <2>2, <2>3 DEF Items
<1>8. ASSUME NEW p \in Apis, Request(p)
      PROVE  Items(d) \subseteq Items(d)' /\ decisions'[d].due = decisions[d].due
  <2>1. p \in Processes
    BY DEF Processes
  <2>2. CASE \/ \E t \in Instants, extra \in 0..1 : BeginRecord(p, t, extra)
             \/ ReadSubject(p)
             \/ \E c \in Decisions, t \in Instants : BeginFollowUp(p, c, t)
             \/ \E c \in Decisions, op \in {"stopping", "reopening"} : BeginEnd(p, c, op)
             \/ ReadEvents(p, "stopping", "stopped") \/ ReadEvents(p, "reopening", "reopened")
    BY <1>2, <2>2 DEF BeginRecord, ReadSubject, BeginFollowUp, BeginEnd, ReadEvents, Begin
  <2>3. CASE AddFollowUp(p) \/ AppendEnd(p, "stopped") \/ AppendEnd(p, "reopened")
    BY <1>4, <1>6, <2>1, <2>3
  <2>4. CASE \E c \in Decisions : CreateDecision(p, c)
    BY <1>3, <2>1, <2>4
  <2> QED
    BY <1>8, <2>2, <2>3, <2>4 DEF Request, Stop, Reopen
<1>9. ASSUME NEW p \in Processes, Trace(p)
      PROVE  Items(d) \subseteq Items(d)' /\ decisions'[d].due = decisions[d].due
  <2>1. CASE BeginTrace(p) \/ ListDecisions(p) \/ LookUp(p) \/ Lose(p)
    BY <1>2, <2>1 DEF BeginTrace, Begin, ListDecisions, LookUp, Lose
  <2>2. CASE \E c \in Decisions : TraceOne(p, c)
    BY <1>7, <2>2
  <2> QED
    BY <1>9, <2>1, <2>2 DEF Trace
<1>10. CASE UNCHANGED vars \/ Wait \/ \E e \in Evidence \cup {Unpublished} : Republish(e)
  BY <1>2, <1>10 DEF vars, records, Wait, Republish
<1> QED
  BY <1>8, <1>9, <1>10 DEF Next

-----------------------------------------------------------------------------
(* Stops and reopenings *)

\* One API process serves one request after another.
OneApi == \A p, q \in Apis : p = q

EndOps == {"stopping", "stopped", "reopening", "reopened"}
EndKinds == {"stopped", "reopened"}

\* Stops and reopenings are numbered without a gap, and a handler that is about
\* to write the next knows its number and is later than the ones on record.
EndsInv ==
  /\ \A d \in Decisions, kind \in EndKinds : \A e \in Kind(d, kind) :
       e.key <= Cardinality(Kind(d, kind))
  /\ \A p \in Processes : job[p].op \in EndOps =>
       /\ p \in Apis
       /\ \A d \in Decisions, kind \in EndKinds : \A e \in Kind(d, kind) : e.at < job[p].now
  /\ \A p \in Processes, d \in Decisions, kind \in EndKinds :
       job[p].op = kind /\ job[p].on = d => job[p].number = NextNumber(d, kind)

\* A handler that writes no stop and no reopening.
LEMMA EndsGoOn ==
  ASSUME Typed, EndsInv, NEW p \in Processes, NEW new,
         job' = [job EXCEPT ![p] = new],
         \A d \in Decisions, kind \in EndKinds : Kind(d, kind)' = Kind(d, kind),
         new.op \notin EndOps
  PROVE  EndsInv'
<1>1. job'[p] = new /\ \A q \in Processes \ {p} : job'[q] = job[q]
  BY DEF Typed
<1>2. \A d \in Decisions, kind \in EndKinds : NextNumber(d, kind)' = NextNumber(d, kind)
  BY DEF NextNumber
<1>3. EndKinds \subseteq EndOps
  BY DEF EndKinds, EndOps
<1>4. \A d \in Decisions, kind \in EndKinds : \A e \in Kind(d, kind)' :
        e.key <= Cardinality(Kind(d, kind)')
  BY DEF EndsInv
<1>5. ASSUME NEW q \in Processes, job'[q].op \in EndOps
      PROVE  /\ q \in Apis
             /\ \A d \in Decisions, kind \in EndKinds : \A e \in Kind(d, kind)' : e.at < job'[q].now
  <2>1. job'[q] = job[q]
    BY <1>1, <1>5
  <2> QED
    BY <1>5, <2>1 DEF EndsInv
<1>6. ASSUME NEW q \in Processes, NEW d \in Decisions, NEW kind \in EndKinds,
             job'[q].op = kind, job'[q].on = d
      PROVE  job'[q].number = NextNumber(d, kind)'
  <2>1. job'[q] = job[q]
    BY <1>1, <1>3, <1>6
  <2> QED
    BY <1>2, <1>6, <2>1 DEF EndsInv
<1> QED
  BY <1>4, <1>5, <1>6 DEF EndsInv

\* A handler that reads, and writes nothing yet.
LEMMA EndsRead ==
  ASSUME Typed, EndsInv, NEW p \in Apis, NEW new, events' = events,
         job' = [job EXCEPT ![p] = new],
         new.op \in EndOps,
         \A d \in Decisions, kind \in EndKinds : \A e \in Kind(d, kind) : e.at < new.now,
         \A d \in Decisions, kind \in EndKinds :
           new.op = kind /\ new.on = d => new.number = NextNumber(d, kind)
  PROVE  EndsInv'
<1>1. p \in Processes
  BY DEF Processes
<1>2. job'[p] = new /\ \A q \in Processes \ {p} : job'[q] = job[q]
  BY <1>1 DEF Typed
<1>3. \A d, kind : Kind(d, kind)' = Kind(d, kind) /\ NextNumber(d, kind)' = NextNumber(d, kind)
  BY DEF Kind, NextNumber
<1>4. \A d \in Decisions, kind \in EndKinds : \A e \in Kind(d, kind)' :
        e.key <= Cardinality(Kind(d, kind)')
  BY <1>3 DEF EndsInv
<1>5. ASSUME NEW q \in Processes, job'[q].op \in EndOps
      PROVE  /\ q \in Apis
             /\ \A d \in Decisions, kind \in EndKinds : \A e \in Kind(d, kind)' : e.at < job'[q].now
  <2>1. CASE q = p
    BY <1>2, <1>3, <2>1
  <2>2. CASE q # p
    BY <1>2, <1>3, <1>5, <2>2 DEF EndsInv
  <2> QED
    BY <2>1, <2>2
<1>6. ASSUME NEW q \in Processes, NEW d \in Decisions, NEW kind \in EndKinds,
             job'[q].op = kind, job'[q].on = d
      PROVE  job'[q].number = NextNumber(d, kind)'
  <2>1. CASE q = p
    BY <1>2, <1>3, <1>6, <2>1
  <2>2. CASE q # p
    BY <1>2, <1>3, <1>6, <2>2 DEF EndsInv
  <2> QED
    BY <2>1, <2>2
<1> QED
  BY <1>4, <1>5, <1>6 DEF EndsInv

\* The number a handler has read is free, so its event is written.
LEMMA EndWritten ==
  ASSUME LedgerInv, EndsInv, NEW p \in Apis, NEW kind \in EndKinds, AppendEnd(p, kind)
  PROVE  \E d, event :
           /\ d \in Decisions /\ d = job[p].on
           /\ event = [kind |-> kind, key |-> job[p].number, at |-> job[p].now]
           /\ job[p].number = Cardinality(Kind(d, kind)) + 1 /\ Cardinality(Kind(d, kind)) \in Nat
           /\ IsFiniteSet(Kind(d, kind)) /\ event \notin Kind(d, kind)
           /\ Kind(d, kind)' = Kind(d, kind) \cup {event}
           /\ \A c \in Decisions, other \in EndKinds :
                c # d \/ other # kind => Kind(c, other)' = Kind(c, other)
<1>1. Typed /\ p \in Processes /\ JobFits(p) /\ EventsFinite
  BY TypeParts DEF LedgerInv, SafetyInv, TypeInv, Processes
<1>2. PICK d \in Decisions : d = job[p].on
  BY <1>1 DEF AppendEnd, Busy, JobFits, EndKinds
<1>3. PICK event : event = [kind |-> kind, key |-> job[p].number, at |-> job[p].now]
  OBVIOUS
<1>4. job[p].number = Cardinality(Kind(d, kind)) + 1
  BY <1>1, <1>2 DEF EndsInv, AppendEnd, Busy, NextNumber
<1>5. IsFiniteSet(Kind(d, kind)) /\ Cardinality(Kind(d, kind)) \in Nat
  <2>1. Kind(d, kind) \in SUBSET events[d] /\ IsFiniteSet(events[d])
    BY <1>1 DEF Kind, EventsFinite
  <2> QED
    BY <2>1, FS_Subset, FS_CardinalityType
<1>6. \A e \in Kind(d, kind) : e.key # event.key
  <2>1. ASSUME NEW e \in Kind(d, kind) PROVE e.key <= Cardinality(Kind(d, kind)) /\ e.key \in Nat
    BY <1>1 DEF EndsInv, Kind, Typed, Events, EndKinds
  <2> QED
    BY <1>3, <1>4, <1>5, <2>1
<1>7. events' = [events EXCEPT ![d] = @ \cup {event}]
  <2>1. AppendOnce(d, event) /\ event.kind = kind
    BY <1>2, <1>3 DEF AppendEnd
  <2> QED
    BY <1>6, <2>1 DEF AppendOnce
<1>8. events'[d] = events[d] \cup {event} /\ \A c \in Decisions \ {d} : events'[c] = events[c]
  BY <1>1, <1>7 DEF Typed
<1>9. Kind(d, kind)' = Kind(d, kind) \cup {event}
  BY <1>3, <1>8 DEF Kind
<1>10. \A c \in Decisions, other \in EndKinds : c # d \/ other # kind => Kind(c, other)' = Kind(c, other)
  BY <1>3, <1>8 DEF Kind
<1> QED
  BY <1>2, <1>3, <1>4, <1>5, <1>6, <1>9, <1>10

LEMMA EndsAppended ==
  ASSUME OneApi, LedgerInv, EndsInv, NEW p \in Apis, NEW kind \in EndKinds, AppendEnd(p, kind)
  PROVE  EndsInv'
<1>1. Typed /\ p \in Processes
  BY TypeParts DEF LedgerInv, SafetyInv, TypeInv, Processes
<1>2. job'[p].op = "idle" /\ \A q \in Processes \ {p} : job'[q] = job[q]
  BY <1>1, IdleTyped DEF AppendEnd, Done, Typed
<1>3. \A q \in Processes : job'[q].op \notin EndOps
  BY <1>2 DEF EndsInv, OneApi, EndOps
<1>4. PICK d, event :
        /\ d \in Decisions
        /\ event = [kind |-> kind, key |-> job[p].number, at |-> job[p].now]
        /\ job[p].number = Cardinality(Kind(d, kind)) + 1 /\ Cardinality(Kind(d, kind)) \in Nat
        /\ IsFiniteSet(Kind(d, kind)) /\ event \notin Kind(d, kind)
        /\ Kind(d, kind)' = Kind(d, kind) \cup {event}
        /\ \A c \in Decisions, other \in EndKinds :
             c # d \/ other # kind => Kind(c, other)' = Kind(c, other)
  BY EndWritten
<1>5. PICK n \in Nat : n = Cardinality(Kind(d, kind)) /\ Cardinality(Kind(d, kind)') = n + 1
  <2>1. PICK k : k = Kind(d, kind)
    OBVIOUS
  <2>2. IsFiniteSet(k) /\ event \notin k /\ Cardinality(k) \in Nat /\ Kind(d, kind)' = k \cup {event}
    BY <1>4, <2>1
  <2>3. Cardinality(k \cup {event}) = Cardinality(k) + 1
    BY <2>2, FS_AddElement
  <2> QED
    BY <2>1, <2>2, <2>3
<1>6. ASSUME NEW c \in Decisions, NEW other \in EndKinds, NEW e \in Kind(c, other)'
      PROVE  e.key <= Cardinality(Kind(c, other)')
  <2>1. CASE c # d \/ other # kind
    BY <1>4, <1>6, <2>1 DEF EndsInv
  <2>2. CASE c = d /\ other = kind /\ e \in Kind(d, kind)
    <3>1. e.key <= n /\ e.key \in Nat
      BY <1>1, <1>5, <2>2 DEF EndsInv, Kind, Typed, Events, EndKinds
    <3> QED
      BY <1>5, <2>2, <3>1
  <2>3. CASE c = d /\ other = kind /\ e = event
    <3>1. e.key = n + 1
      BY <1>4, <1>5, <2>3
    <3> QED
      BY <1>5, <2>3, <3>1
  <2> QED
    BY <1>4, <1>6, <2>1, <2>2, <2>3
<1> QED
  BY <1>3, <1>6 DEF EndsInv, EndKinds, EndOps

LEMMA EndsKept ==
  ASSUME OneApi
  PROVE  LedgerInv /\ EndsInv /\ [Next]_vars => EndsInv'
<1> SUFFICES ASSUME LedgerInv, EndsInv, [Next]_vars PROVE EndsInv'
  OBVIOUS
<1>1. Typed /\ \A p \in Processes : JobFits(p)
  BY TypeParts DEF LedgerInv, SafetyInv, TypeInv
<1>3. CASE UNCHANGED <<events, job>>
  BY <1>3 DEF EndsInv, Kind, NextNumber
<1>4. ASSUME NEW p \in Processes, NEW new, job' = [job EXCEPT ![p] = new],
             events' = events, new.op \notin EndOps
      PROVE  EndsInv'
  <2>1. \A d \in Decisions, kind \in EndKinds : Kind(d, kind)' = Kind(d, kind)
    BY <1>4 DEF Kind
  <2> QED
    BY <1>1, <1>4, <2>1, EndsGoOn
<1>5. ASSUME NEW p \in Processes, NEW t \in Instants, NEW extra \in 0..1, BeginRecord(p, t, extra)
      PROVE  EndsInv'
  <2>1. PICK new : new = [Idle EXCEPT !.op = "recording", !.at = t, !.due = DayOf(t) + Window + extra]
    OBVIOUS
  <2>2. new.op = "recording"
    BY <2>1 DEF Idle
  <2> QED
    BY <1>4, <1>5, <2>1, <2>2 DEF BeginRecord, Begin, EndOps
<1>6. ASSUME NEW p \in Processes, NEW d \in Decisions, NEW t \in Instants, BeginFollowUp(p, d, t)
      PROVE  EndsInv'
  <2>1. PICK new : new = [Idle EXCEPT !.op = "following", !.on = d, !.now = clock, !.at = t]
    OBVIOUS
  <2>2. new.op = "following"
    BY <2>1 DEF Idle
  <2> QED
    BY <1>4, <1>6, <2>1, <2>2 DEF BeginFollowUp, Begin, EndOps
<1>7. ASSUME NEW p \in Apis, NEW d \in Decisions, NEW op \in {"stopping", "reopening"},
             BeginEnd(p, d, op)
      PROVE  EndsInv'
  <2>1. PICK new : new = [Idle EXCEPT !.op = op, !.on = d, !.now = clock]
    OBVIOUS
  <2>2. new.op = op /\ new.now = clock
    BY <2>1 DEF Idle
  <2>3. \A c \in Decisions, kind \in EndKinds : \A e \in Kind(c, kind) : e.at < clock
    BY DEF LedgerInv, TimesInv, EventsApart, Kind
  <2>4. events' = events /\ job' = [job EXCEPT ![p] = new]
    BY <1>7, <2>1 DEF BeginEnd, Begin
  <2>5. new.op \in EndOps /\ new.op \notin EndKinds
    BY <2>2 DEF EndOps, EndKinds
  <2> QED
    BY <1>1, <2>2, <2>3, <2>4, <2>5, EndsRead
<1>8. ASSUME NEW p \in Apis, NEW op \in {"stopping", "reopening"}, NEW kind \in EndKinds,
             ReadEvents(p, op, kind)
      PROVE  EndsInv'
  <2>1. p \in Processes
    BY DEF Processes
  <2>2. PICK new : new = [job[p] EXCEPT !.op = kind, !.number = NextNumber(job[p].on, kind)]
    OBVIOUS
  <2>3. job[p] \in Jobs /\ job[p].op \in EndOps
    BY <1>1, <1>8, <2>1 DEF Typed, ReadEvents, Busy, EndOps
  <2>4. /\ new.op = kind /\ new.now = job[p].now /\ new.on = job[p].on
        /\ new.number = NextNumber(job[p].on, kind)
    BY <2>2, <2>3 DEF Jobs
  <2>5. events' = events /\ job' = [job EXCEPT ![p] = new]
    BY <1>8, <2>2 DEF ReadEvents
  <2>6. \A d \in Decisions, other \in EndKinds : \A e \in Kind(d, other) : e.at < new.now
    BY <2>1, <2>3, <2>4 DEF EndsInv
  <2>7. kind \in EndOps
    BY DEF EndOps, EndKinds
  <2> QED
    BY <1>1, <2>4, <2>5, <2>6, <2>7, EndsRead
<1>9. ASSUME NEW p \in Processes,
             \/ ReadSubject(p) \/ ListDecisions(p) \/ LookUp(p) \/ Lose(p) \/ AddFollowUp(p)
             \/ BeginTrace(p)
             \/ \E d \in Decisions : CreateDecision(p, d)
      PROVE  EndsInv'
  <2>0. job[p] \in Jobs
    BY <1>1 DEF Typed
  <2>1. CASE ReadSubject(p)
    <3>1. PICK new : new = [job[p] EXCEPT !.op = "pinning", !.found = published]
      OBVIOUS
    <3>2. new.op = "pinning" /\ job' = [job EXCEPT ![p] = new]
      BY <2>0, <2>1, <3>1 DEF ReadSubject, Jobs
    <3> QED
      BY <1>4, <2>1, <3>2 DEF ReadSubject, EndOps
  <2>2. CASE ListDecisions(p)
    <3>1. PICK new : new = [job[p] EXCEPT !.op = "looking", !.todo = Recorded]
      OBVIOUS
    <3>2. new.op = "looking" /\ job' = [job EXCEPT ![p] = new]
      BY <2>0, <2>2, <3>1 DEF ListDecisions, Jobs
    <3> QED
      BY <1>4, <2>2, <3>2 DEF ListDecisions, EndOps
  <2>3. CASE LookUp(p)
    <3>1. PICK new : new = [job[p] EXCEPT !.op = "tracing", !.found = published]
      OBVIOUS
    <3>2. new.op = "tracing" /\ job' = [job EXCEPT ![p] = new]
      BY <2>0, <2>3, <3>1 DEF LookUp, Jobs
    <3> QED
      BY <1>4, <2>3, <3>2 DEF LookUp, EndOps
  <2>4. CASE BeginTrace(p)
    <3>1. PICK new : new = [Idle EXCEPT !.op = "listing", !.now = clock]
      OBVIOUS
    <3>2. new.op = "listing"
      BY <3>1 DEF Idle
    <3> QED
      BY <1>4, <2>4, <3>1, <3>2 DEF BeginTrace, Begin, EndOps
  <2>5. CASE Lose(p) \/ AddFollowUp(p) \/ \E d \in Decisions : CreateDecision(p, d)
    <3>1. job' = [job EXCEPT ![p] = Idle] /\ events' = events
      BY <2>5 DEF Lose, AddFollowUp, CreateDecision, Done
    <3> QED
      BY <1>4, <3>1, IdleTyped DEF EndOps
  <2> QED
    BY <1>9, <2>1, <2>2, <2>3, <2>4, <2>5
<1>10. ASSUME NEW p \in Processes, NEW d \in Decisions, TraceOne(p, d) PROVE EndsInv'
  <2>1. PICK event : event = [kind |-> "superseded", key |-> job[p].found, at |-> job[p].now]
    OBVIOUS
  <2>2. events' = events \/ events' = [events EXCEPT ![d] = @ \cup {event}]
    BY <1>10, <2>1 DEF TraceOne, AppendOnce
  <2>3. \A c \in Decisions, kind \in EndKinds : Kind(c, kind)' = Kind(c, kind)
    BY <1>1, <2>1, <2>2 DEF Kind, EndKinds, Typed
  <2>4. PICK new : new = IF job[p].todo = {d} THEN Idle ELSE [job[p] EXCEPT !.todo = @ \ {d}]
    OBVIOUS
  <2>5. job' = [job EXCEPT ![p] = new]
    BY <1>10, <2>4 DEF TraceOne, Done
  <2>6. job[p] \in Jobs /\ job[p].op = "tracing"
    BY <1>1, <1>10 DEF Typed, TraceOne, Busy
  <2>7. new.op \in {"idle", "tracing"}
    BY <2>4, <2>6, IdleTyped DEF Jobs
  <2> QED
    BY <1>1, <2>3, <2>5, <2>7, EndsGoOn DEF EndOps
<1>11. ASSUME NEW p \in Apis, Request(p) PROVE EndsInv'
  <2>1. p \in Processes
    BY DEF Processes
  <2> QED
    BY <1>5, <1>6, <1>7, <1>8, <1>9, <1>11, <2>1, EndsAppended DEF Request, Stop, Reopen, EndKinds
<1>12. ASSUME NEW p \in Processes, Trace(p) PROVE EndsInv'
  BY <1>9, <1>10, <1>12 DEF Trace
<1>13. CASE UNCHANGED vars \/ Wait \/ \E e \in Evidence \cup {Unpublished} : Republish(e)
  BY <1>3, <1>13 DEF vars, records, Wait, Republish
<1> QED
  BY <1>11, <1>12, <1>13 DEF Next

LEMMA EndsInit == Init => EndsInv
  BY DEF Init, EndsInv, Kind, Idle, EndOps, EndKinds

-----------------------------------------------------------------------------
(* Theorems *)

\* The inductive invariant: types, finitely many events, handlers that write
\* about decisions that exist, and one review per revision.
THEOREM Safety == Spec => []SafetyInv
  BY SafetyInit, SafetyKept, PTL DEF Spec

\* Every variable keeps its type.
THEOREM TypeCorrect == Spec => []TypeOK
<1>1. SafetyInv => TypeOK
  BY DEF SafetyInv, TypeInv
<1> QED
  BY <1>1, Safety, PTL

\* However many traces run at a time, and however often they find a revision,
\* it is recorded once (the dedupe key of evidence_superseded).
THEOREM ReviewsAreUnique == Spec => []OneReviewPerRevision
<1>1. SafetyInv => OneReviewPerRevision
  BY DEF SafetyInv
<1> QED
  BY <1>1, Safety, PTL

\* Late records change what the replay says, and never make it say that a
\* supersession was followed up on by something observed before it.
THEOREM SupersessionsStand == Spec => []SupersessionStands
  BY LedgerHolds, SupersessionsFit, PTL

\* What stop_commitment and reopen_commitment check before they write
\* (_is_stopped, over the list of the events) is what the replay shows.
THEOREM StopChecksAgree == Spec => []StopCheckAgrees
  BY LedgerHolds, StopsFit, PTL

\* Whatever is recorded, and in whatever order, the next review is never
\* earlier than it was.
THEOREM ReviewsMoveLater == Spec => ReviewNeverBroughtForward
<1> DEFINE Step == \A d \in Recorded : Commitment(d)'.next >= Commitment(d).next
<1>1. LedgerInv /\ NextFits /\ NextFits' /\ [Next]_vars => Step
  <2> SUFFICES ASSUME LedgerInv, NextFits, NextFits', [Next]_vars, NEW d \in Recorded
               PROVE  Commitment(d)'.next >= Commitment(d).next
    OBVIOUS
  <2>1. d \in Decisions /\ Typed
    BY TypeParts DEF Recorded, LedgerInv, SafetyInv, TypeInv
  <2>2. Items(d) \subseteq Items(d)' /\ decisions'[d].due = decisions[d].due
    BY RecordsGrow
  <2>3. /\ Commitment(d)'.next >= decisions'[d].due
        /\ \A x \in Items(d)' : PutsOff(x) => Commitment(d)'.next >= ReviewAfter(x)
    BY <2>1 DEF NextFits
  <2>4. \/ Commitment(d).next = decisions[d].due
        \/ \E x \in Items(d) : PutsOff(x) /\ Commitment(d).next = ReviewAfter(x)
    BY <2>1 DEF NextFits
  <2> QED
    BY <2>2, <2>3, <2>4
<1>2. LedgerInv /\ LedgerInv' /\ [Next]_vars => [Step]_records
  <2>1. LedgerInv' => NextFits'
    BY NextsFit, PTL
  <2> QED
    BY <1>1, <2>1, NextsFit
<1> QED
  BY <1>2, LedgerHolds, PTL DEF Spec, ReviewNeverBroughtForward

\* With one API process, the number and the time of a stop or a reopening make
\* it the last word: the replay says so as soon as it is acknowledged.
THEOREM StopsTakeEffect ==
  ASSUME OneApi
  PROVE  Spec => StopsStick
<1> DEFINE Step == \A p \in Apis, d \in Recorded : job[p].on = d =>
                     /\ AppendEnd(p, "stopped") => State(d)' = "stopped"
                     /\ AppendEnd(p, "reopened") => State(d)' # "stopped"
<1>1. LedgerInv /\ EndsInv /\ StopCheckAgrees' => Step
  <2> SUFFICES ASSUME LedgerInv, EndsInv, StopCheckAgrees', NEW p \in Apis, NEW d \in Recorded,
                      job[p].on = d
               PROVE  /\ AppendEnd(p, "stopped") => State(d)' = "stopped"
                      /\ AppendEnd(p, "reopened") => State(d)' # "stopped"
    OBVIOUS
  <2>1. d \in Decisions /\ p \in Processes
    BY DEF Recorded, Processes
  <2>2. State(d)' = "stopped" <=> IsStopped(d)'
    BY <2>1 DEF StopCheckAgrees
  <2>3. ASSUME NEW kind \in EndKinds, AppendEnd(p, kind)
        PROVE  /\ \E e \in Kind(d, kind)' : e.at = job[p].now
               /\ \A other \in EndKinds \ {kind} : Kind(d, other)' = Kind(d, other)
    BY <2>3, EndWritten
  <2>4. ASSUME NEW kind \in EndKinds, AppendEnd(p, kind)
        PROVE  \A other \in EndKinds : \A e \in Kind(d, other) : e.at < job[p].now /\ e.at \in Nat
    <3>1. Typed /\ job[p].op \in EndOps
      BY <2>4, TypeParts DEF AppendEnd, Busy, EndOps, EndKinds, LedgerInv, SafetyInv, TypeInv
    <3> QED
      BY <2>1, <3>1 DEF EndsInv, Kind, Typed, Events, Instants, EndKinds
  <2>5. job[p].now \in Nat
    BY <2>1, TypeParts DEF LedgerInv, SafetyInv, TypeInv, Typed, Jobs, Instants
  <2>6. ASSUME AppendEnd(p, "stopped") PROVE IsStopped(d)'
    <3>1. PICK s \in Kind(d, "stopped")' : s.at = job[p].now
      BY <2>3, <2>6 DEF EndKinds
    <3>2. \A r \in Kind(d, "reopened")' : r.at < s.at
      BY <2>3, <2>4, <2>6, <3>1 DEF EndKinds
    <3> QED
      BY <3>1, <3>2 DEF IsStopped
  <2>7. ASSUME AppendEnd(p, "reopened") PROVE ~IsStopped(d)'
    <3>1. PICK r \in Kind(d, "reopened")' : r.at = job[p].now
      BY <2>3, <2>7 DEF EndKinds
    <3>2. \A s \in Kind(d, "stopped")' : ~(r.at < s.at)
      BY <2>3, <2>4, <2>5, <2>7, <3>1 DEF EndKinds
    <3> QED
      BY <3>1, <3>2 DEF IsStopped
  <2> QED
    BY <2>2, <2>6, <2>7
<1>2. LedgerInv /\ LedgerInv' /\ EndsInv /\ [Next]_vars => [Step]_vars
  <2>1. LedgerInv' => StopCheckAgrees'
    BY StopsFit, PTL
  <2> QED
    BY <1>1, <2>1
<1>3. EndsInv /\ LedgerInv /\ [Next]_vars => EndsInv'
  BY EndsKept
<1> QED
  BY <1>2, <1>3, EndsInit, LedgerHolds, PTL DEF Spec, StopsStick
=============================================================================

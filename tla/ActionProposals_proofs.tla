------------------------ MODULE ActionProposals_proofs ------------------------
(***************************************************************************)
(* Proofs about the action proposal queue, for every number of requests,   *)
(* replicas, proposals, keys and values and every bound.                   *)
(***************************************************************************)
EXTENDS ActionProposals, TLAPS

\* What the arguments and local variables of a handler are, by where it is: who
\* registers has an observation to register, who refreshes has seen a pending row,
\* who re-raises a resolved one; a dispatcher works on the gates of its policies,
\* without keys, and never releases.
Registering == {"find", "get", "refresh", "reopen", "reopenLost", "insert", "winner"}

DispatcherCall(label, c) ==
  /\ label \notin {"find", "winner"} \cup Releasing
  /\ c.key = NoKey /\ c.id \in Policies /\ c.value \in Raised \cup {"ok"}
  /\ c.op = "raise" => c.value \in Raised

CallFits(p, label, c) ==
  /\ label \in Registering => c.op \in {"draft", "raise"} /\ c.value \in Values
  /\ label = "refresh" => c.seen.status = "pending"
  /\ label = "reopen" => c.seen.status \in Resolved
  /\ p \in Replicas /\ label # "idle" => DispatcherCall(label, c)

CallsFit == \A p \in Procs : CallFits(p, at[p], call[p])

TypeInv == TypeOK /\ CallsFit

\* The last event of each proposal gives its status.
FeedFollows ==
  \A i \in Proposals :
     \/ EventsOf(i) = {} /\ proposal[i].status = "absent"
     \/ \E n \in EventsOf(i) : /\ \A m \in EventsOf(i) : m <= n
                               /\ proposal[i].status = StatusAfter(feed[n].kind)

NeverReopened(i) == \A n \in EventsOf(i) : feed[n].kind # "reopened"

\* While a resolution is being released, the proposal stays resolved.
ReleasersHold ==
  \A p \in Requests : at[p] \in Releasing /\ NeverReopened(call[p].id) =>
                         proposal[call[p].id].status \in Resolved

SafetyInv == TypeInv /\ FeedFollows /\ OneReleaser /\ ReleasersHold

-----------------------------------------------------------------------------
(* What a step can do *)

\* The row is rewritten while it is pending, and stays pending.
Restated(i) ==
  /\ \E row \in Row : /\ proposal[i].status = "pending" /\ row.status = "pending"
                      /\ proposal' = [proposal EXCEPT ![i] = row]
  /\ feed' = feed

\* The row is changed with an event that the gate allows.
Recorded(i, kind) ==
  /\ proposal[i].status \in Queue!Allowed(kind)
  /\ \E row \in Row : /\ row.status = StatusAfter(kind)
                      /\ proposal' = [proposal EXCEPT ![i] = row]
  /\ \E by \in Drafters \cup {Dispatcher} :
        feed' = Append(feed, [id |-> i, kind |-> kind, actor |-> by])

\* The process stays among the releasers only of the proposal it has been at.
Stays(p) == at'[p] \in Releasing => at[p] \in Releasing /\ call'[p].id = call[p].id

TablesStep(p) ==
  \/ UNCHANGED Tables /\ Stays(p)
  \/ Restated(call[p].id) /\ Stays(p)
  \/ \E kind \in {"drafted", "refreshed", "reopened"} : Recorded(call[p].id, kind) /\ Stays(p)
  \/ \E kind \in Resolved :
        /\ Recorded(call[p].id, kind)
        /\ at'[p] \in Releasing => call'[p].id = call[p].id
  \/ /\ Recorded(call[p].id, "release_failed")
     /\ at[p] \in Releasing /\ at'[p] \notin Releasing

Mover(p) == \A q \in Procs \ {p} : at'[q] = at[q] /\ call'[q] = call[q]

Step == \E p \in Procs : Mover(p) /\ TablesStep(p)

-----------------------------------------------------------------------------
(* Types: the parts a handler is made of *)

\* The moving process is somewhere its arguments fit, and the others stay.
ProcOK(p) ==
  /\ at' \in [Procs -> At]
  /\ call' \in [Procs -> Call]
  /\ CallsFit'
  /\ Mover(p)

PreviousOK == previous \in [Replicas -> [Policies -> Raised \cup {"ok", "none"}]]

TablesOK == proposal \in [Proposals -> Row] /\ feed \in Seq(Event)

\* Absent is a row and NoCall a call (the initial row of the table, the idle handler).
LEMMA Constants == Absent \in Row /\ NoCall \in Call
<1>1. Absent \in Row
  BY DEF Absent, Row
<1>2. (CHOOSE i \in Proposals : TRUE) \in Proposals
  BY ConstantsOK DEF ConstantsOK
<1> QED
  BY <1>1, <1>2 DEF NoCall, Call

\* A process may go where its arguments fit.
LEMMA Moves ==
  ASSUME TypeInv, NEW p \in Procs, NEW label \in At, NEW c \in Call,
         CallFits(p, label, c),
         at' = [at EXCEPT ![p] = label], call' = [call EXCEPT ![p] = c]
  PROVE  ProcOK(p) /\ at'[p] = label /\ call'[p] = c
<1>1. at \in [Procs -> At] /\ call \in [Procs -> Call]
  BY DEF TypeInv, TypeOK
<1>2. at'[p] = label /\ call'[p] = c
  BY <1>1
<1>3. Mover(p)
  BY <1>1 DEF Mover
<1>4. at' \in [Procs -> At] /\ call' \in [Procs -> Call]
  BY <1>1
<1>5. ASSUME NEW q \in Procs PROVE CallFits(q, at'[q], call'[q])
  <2>1. CASE q = p
    BY <1>2, <2>1
  <2>2. CASE q # p
    <3>1. at'[q] = at[q] /\ call'[q] = call[q]
      BY <1>3, <2>2 DEF Mover
    <3>2. CallFits(q, at[q], call[q])
      BY DEF TypeInv, CallsFit
    <3> QED
      BY <3>1, <3>2
  <2> QED
    BY <2>1, <2>2
<1>6. CallsFit'
  BY <1>5 DEF CallsFit
<1> QED
  BY <1>2, <1>3, <1>4, <1>6 DEF ProcOK

\* A handler that ends or dies (Stop, Fail, Done).
LEMMA Stops ==
  ASSUME TypeInv, NEW p \in Procs, Stop(p)
  PROVE  ProcOK(p) /\ at'[p] = "idle"
<1>1. CallFits(p, "idle", NoCall)
  BY DEF CallFits, Registering
<1>2. "idle" \in At
  BY DEF At
<1> QED
  BY <1>1, <1>2, Constants, Moves DEF Stop, Goto

LEMMA Ends ==
  ASSUME TypeInv, NEW p \in Procs, at[p] # "idle", Done(p) \/ Fail(p)
  PROVE  ProcOK(p) /\ at'[p] = "idle" /\ PreviousOK'
<1>1. Stop(p)
  BY DEF Done, Fail
<1>2. PreviousOK
  BY DEF TypeInv, TypeOK, PreviousOK
<1>3. CASE previous' = previous
  BY <1>1, <1>2, <1>3, Stops DEF PreviousOK
<1>4. CASE p \in Replicas /\ previous' = [previous EXCEPT ![p][call[p].id] = call[p].value]
  <2>1. call[p].id \in Policies /\ call[p].value \in Raised \cup {"ok"}
    BY <1>4 DEF TypeInv, CallsFit, CallFits, DispatcherCall
  <2>2. PreviousOK'
    BY <1>2, <1>4, <2>1 DEF PreviousOK
  <2> QED
    BY <1>1, <2>2, Stops
<1> QED
  BY <1>3, <1>4 DEF Done, Fail

\* A handler that goes on with what it knows.
LEMMA GoesOn ==
  ASSUME TypeInv, NEW p \in Procs, NEW label \in At, CallFits(p, label, call[p]),
         Goto(p, label), UNCHANGED call
  PROVE  ProcOK(p) /\ at'[p] = label /\ call'[p] = call[p]
<1>1. call \in [Procs -> Call]
  BY DEF TypeInv, TypeOK
<1>2. call[p] \in Call /\ call' = [call EXCEPT ![p] = call[p]]
  BY <1>1
<1> QED
  BY <1>2, Moves DEF Goto

\* A handler that goes on with the row it has just read.
LEMMA GoesOnWith ==
  ASSUME TypeInv, NEW p \in Procs, NEW label \in At, NEW i \in Proposals,
         label \in Registering => call[p].op \in {"draft", "raise"} /\ call[p].value \in Values,
         label = "refresh" => proposal[i].status = "pending",
         label = "reopen" => proposal[i].status \in Resolved,
         p \in Replicas => DispatcherCall(label, call[p]) /\ i = call[p].id,
         GotoWith(p, label, i)
  PROVE  ProcOK(p) /\ at'[p] = label /\ call'[p].id = i
<1> DEFINE c1 == [call[p] EXCEPT !.id = i]
           c2 == [c1 EXCEPT !.seen = proposal[i]]
<1>1. call \in [Procs -> Call] /\ proposal \in [Proposals -> Row]
  BY DEF TypeInv, TypeOK
<1>2. call[p] \in Call /\ proposal[i] \in Row
  BY <1>1
<1>3. /\ c1 \in Call
      /\ c1.id = i /\ c1.op = call[p].op /\ c1.key = call[p].key /\ c1.value = call[p].value
  BY <1>2 DEF Call
<1>4. c2 \in Call /\ c2.seen = proposal[i]
  BY <1>2, <1>3 DEF Call
<1>5. c2.id = i /\ c2.op = call[p].op /\ c2.key = call[p].key /\ c2.value = call[p].value
  BY <1>3 DEF Call
<1>6. call' = [call EXCEPT ![p] = c2]
  BY <1>1 DEF GotoWith
<1> HIDE DEF c1, c2
<1>7. p \in Replicas => DispatcherCall(label, c2)
  BY <1>5 DEF DispatcherCall
<1>8. CallFits(p, label, c2)
  BY <1>4, <1>5, <1>7 DEF CallFits
<1>9. at' = [at EXCEPT ![p] = label]
  BY DEF GotoWith, Goto
<1>10. ProcOK(p) /\ at'[p] = label /\ call'[p] = c2
  BY <1>4, <1>6, <1>8, <1>9, Moves
<1> QED
  BY <1>5, <1>10

\* update_action_proposal and the insert keep the tables well formed.
LEMMA Writes ==
  ASSUME TypeInv, NEW p \in Procs, NEW row \in Row, NEW kind \in Kinds,
         NEW events, events = feed \/ events = Log(p, kind),
         Write(p, row, events)
  PROVE  /\ TablesOK'
         /\ proposal' = [proposal EXCEPT ![call[p].id] = row]
         /\ feed' = events
<1>1. call[p] \in Call /\ proposal \in [Proposals -> Row] /\ feed \in Seq(Event)
  BY DEF TypeInv, TypeOK
<1>2. [id |-> call[p].id, kind |-> kind, actor |-> call[p].by] \in Event
  BY <1>1 DEF Call, Event
<1>3. Log(p, kind) \in Seq(Event)
  BY <1>1, <1>2 DEF Log
<1> QED
  BY <1>1, <1>3 DEF Write, TablesOK
-----------------------------------------------------------------------------
(* Every action preserves the types and is a step of the tables *)

Sound(p) == TypeInv' /\ Mover(p) /\ TablesStep(p)

LEMMA Together ==
  ASSUME TypeInv, NEW p \in Procs, ProcOK(p), TablesOK', PreviousOK', UNCHANGED Bounds
  PROVE  TypeInv' /\ Mover(p)
BY DEF TypeInv, TypeOK, ProcOK, TablesOK, PreviousOK, Bounds

\* A handler that leaves the tables and ends.
LEMMA EndsQuietly ==
  ASSUME TypeInv, NEW p \in Procs, at[p] # "idle", Done(p) \/ Fail(p),
         UNCHANGED <<Tables, Bounds>>
  PROVE  Sound(p)
<1>1. ProcOK(p) /\ at'[p] = "idle" /\ PreviousOK'
  BY Ends
<1>2. TablesOK'
  BY DEF TypeInv, TypeOK, TablesOK, Tables
<1>3. TypeInv' /\ Mover(p)
  BY <1>1, <1>2, Together
<1>4. TablesStep(p)
  BY <1>1 DEF TablesStep, Stays, Releasing
<1> QED
  BY <1>3, <1>4 DEF Sound

\* A handler that leaves the tables and goes on with the same proposal.
LEMMA GoesOnQuietly ==
  ASSUME TypeInv, NEW p \in Procs, ProcOK(p), Stays(p),
         UNCHANGED <<Tables, previous, Bounds>>
  PROVE  Sound(p)
<1>1. TablesOK' /\ PreviousOK'
  BY DEF TypeInv, TypeOK, TablesOK, PreviousOK, Tables
<1>2. TypeInv' /\ Mover(p)
  BY <1>1, Together
<1> QED
  BY <1>2 DEF Sound, TablesStep

\* A handler that writes the row with an event and ends.
LEMMA RecordsAndEnds ==
  ASSUME TypeInv, NEW p \in Procs, at[p] # "idle", Done(p),
         NEW row \in Row, NEW kind \in Kinds,
         row.status = StatusAfter(kind), Mine(p).status \in Queue!Allowed(kind),
         kind = "release_failed" => at[p] \in Releasing,
         Write(p, row, Log(p, kind)), UNCHANGED Bounds
  PROVE  Sound(p)
<1>1. ProcOK(p) /\ at'[p] = "idle" /\ PreviousOK'
  BY Ends
<1>2. /\ TablesOK'
      /\ proposal' = [proposal EXCEPT ![call[p].id] = row]
      /\ feed' = Log(p, kind)
  BY Writes
<1>3. TypeInv' /\ Mover(p)
  BY <1>1, <1>2, Together
<1>4. call[p].by \in Drafters \cup {Dispatcher}
  BY DEF TypeInv, TypeOK, Call
<1>5. Recorded(call[p].id, kind)
  BY <1>2, <1>4 DEF Recorded, Log, Mine
<1>6. at'[p] \notin Releasing
  BY <1>1 DEF Releasing
<1>7. TablesStep(p)
  BY <1>5, <1>6 DEF TablesStep, Stays, Kinds
<1> QED
  BY <1>3, <1>7 DEF Sound

\* The row a draft or a re-raise writes, whatever its key.
LEMMA DraftedRows ==
  ASSUME TypeInv, NEW p \in Procs, NEW key \in Keys \cup {NoKey},
         at[p] \in Registering
  PROVE  DraftedRow(p, key) \in Row /\ DraftedRow(p, key).status = "pending"
<1>1. call[p] \in Call /\ call[p].value \in Values
  BY DEF TypeInv, TypeOK, CallsFit, CallFits
<1> QED
  BY <1>1 DEF DraftedRow, Row, Call

LEMMA ReplayStep ==
  ASSUME TypeInv, NEW p \in Procs, NEW i \in Proposals, at[p] \in {"find", "winner"},
         Replay(p, i), UNCHANGED <<Tables, Bounds>>
  PROVE  Sound(p)
<1>1. CASE Done(p)
  BY <1>1, EndsQuietly
<1>2. CASE proposal[i].status = "pending" /\ GotoWith(p, "refresh", i) /\ UNCHANGED previous
  <2>1. CallFits(p, at[p], call[p])
    BY DEF TypeInv, CallsFit
  <2>2. call[p].op \in {"draft", "raise"} /\ call[p].value \in Values
    BY <2>1 DEF CallFits, Registering
  <2>3. p \notin Replicas
    BY <2>1 DEF CallFits, DispatcherCall
  <2>4. "refresh" \in At /\ "refresh" # "reopen" /\ "refresh" \notin Releasing
    BY DEF At, Releasing
  <2>5. ProcOK(p) /\ at'[p] = "refresh"
    BY <1>2, <2>2, <2>3, <2>4, GoesOnWith
  <2> QED
    BY <1>2, <2>4, <2>5, GoesOnQuietly DEF Stays
<1> QED
  BY <1>1, <1>2 DEF Replay

LEMMA RegisterStep ==
  ASSUME TypeInv, NEW p \in Procs, Register(p)
  PROVE  Sound(p)
<1>a. /\ call[p] \in Call /\ call[p].seen \in Row
      /\ call[p].id \in Proposals /\ Mine(p) \in Row
  BY DEF TypeInv, TypeOK, Call, Mine
<1>b. CallFits(p, at[p], call[p])
  BY DEF TypeInv, CallsFit
<1>c. /\ Mine(p).status \in Resolved \cup {"absent", "pending"}
      /\ {"get", "refresh", "reopen", "reopenLost", "insert", "winner"} \subseteq At \ Releasing
  BY <1>a DEF Row, At, Releasing
<1>1. CASE FindByKey(p)
  <2>1. CASE \E i \in Owning(call[p].key) : Replay(p, i)
    BY <1>1, <2>1, ReplayStep DEF FindByKey, Owning
  <2>2. CASE Goto(p, "get") /\ UNCHANGED <<call, previous>>
    <3>1. CallFits(p, "get", call[p])
      BY <1>1, <1>b DEF FindByKey, CallFits, Registering, DispatcherCall
    <3>2. ProcOK(p) /\ at'[p] = "get"
      BY <1>c, <2>2, <3>1, GoesOn
    <3> QED
      BY <1>1, <1>c, <2>2, <3>2, GoesOnQuietly DEF FindByKey, Stays
  <2> QED
    BY <1>1, <2>1, <2>2 DEF FindByKey
<1>2. CASE GetExisting(p)
  <2>a. at[p] = "get" /\ UNCHANGED <<Tables, Bounds>>
    BY <1>2 DEF GetExisting
  <2>b. /\ call[p].op \in {"draft", "raise"} /\ call[p].value \in Values
        /\ p \in Replicas => DispatcherCall("get", call[p])
    BY <1>b, <2>a DEF CallFits, Registering
  <2>c. /\ p \in Replicas => DispatcherCall("insert", call[p])
        /\ p \in Replicas => DispatcherCall("refresh", call[p])
        /\ p \in Replicas => DispatcherCall("reopen", call[p])
    BY <2>b DEF DispatcherCall, Releasing
  <2>1. CASE Goto(p, "insert") /\ UNCHANGED <<call, previous>>
    <3>1. CallFits(p, "insert", call[p])
      BY <2>b, <2>c DEF CallFits
    <3>2. ProcOK(p) /\ at'[p] = "insert"
      BY <1>c, <2>1, <3>1, GoesOn
    <3> QED
      BY <1>c, <2>a, <2>1, <3>2, GoesOnQuietly DEF Stays
  <2>2. CASE Fail(p)
    BY <2>a, <2>2, EndsQuietly
  <2>3. CASE /\ Mine(p).status = "pending"
             /\ GotoWith(p, "refresh", call[p].id) /\ UNCHANGED previous
    <3>1. proposal[call[p].id].status = "pending"
      BY <2>3 DEF Mine
    <3>2. ProcOK(p) /\ at'[p] = "refresh"
      BY <1>a, <1>c, <2>b, <2>c, <2>3, <3>1, GoesOnWith
    <3> QED
      BY <1>c, <2>a, <2>3, <3>2, GoesOnQuietly DEF Stays
  <2>4. CASE /\ Mine(p).status \in Resolved
             /\ GotoWith(p, "reopen", call[p].id) /\ UNCHANGED previous
    <3>1. proposal[call[p].id].status \in Resolved
      BY <2>4 DEF Mine
    <3>2. ProcOK(p) /\ at'[p] = "reopen"
      BY <1>a, <1>c, <2>b, <2>c, <2>4, <3>1, GoesOnWith
    <3> QED
      BY <1>c, <2>a, <2>4, <3>2, GoesOnQuietly DEF Stays
  <2> QED
    BY <1>2, <1>c, <2>1, <2>2, <2>3, <2>4 DEF GetExisting
<1>3. CASE Refresh(p)
  <2>a. at[p] = "refresh" /\ Done(p) /\ UNCHANGED Bounds
    BY <1>3 DEF Refresh
  <2>b. call[p].value \in Values /\ call[p].seen.status = "pending"
    BY <1>b, <2>a DEF CallFits, Registering
  <2>c. RefreshedRow(p) \in Row /\ RefreshedRow(p).status = "pending"
    BY <1>a, <2>b DEF RefreshedRow, Row
  <2>1. CASE UNCHANGED Tables
    BY <2>a, <2>1, EndsQuietly
  <2>2. CASE Matches(p, "pending") /\ Write(p, RefreshedRow(p), Log(p, "refreshed"))
    <3>1. "refreshed" \in Kinds /\ StatusAfter("refreshed") = "pending"
      BY DEF Kinds, StatusAfter, Resolved
    <3>2. Mine(p).status \in Queue!Allowed("refreshed")
      BY <2>2 DEF Matches, Queue!Allowed
    <3> QED
      BY <2>a, <2>c, <2>2, <3>1, <3>2, RecordsAndEnds
  <2>3. CASE Matches(p, "pending") /\ Write(p, RefreshedRow(p), feed)
    <3>1. /\ TablesOK'
          /\ proposal' = [proposal EXCEPT ![call[p].id] = RefreshedRow(p)]
          /\ feed' = feed
      BY <2>c, <2>3, Writes DEF Kinds
    <3>2. ProcOK(p) /\ at'[p] = "idle" /\ PreviousOK'
      BY <2>a, Ends
    <3>3. TypeInv' /\ Mover(p)
      BY <2>a, <3>1, <3>2, Together
    <3>4. Restated(call[p].id)
      BY <2>c, <2>3, <3>1 DEF Restated, Matches, Mine
    <3> QED
      BY <3>2, <3>3, <3>4 DEF Sound, TablesStep, Stays, Releasing
  <2> QED
    BY <1>3, <2>1, <2>2, <2>3 DEF Refresh
<1>4. CASE Reopen(p)
  <2>a. at[p] = "reopen" /\ UNCHANGED Bounds
    BY <1>4 DEF Reopen
  <2>b. call[p].seen.status \in Resolved
    BY <1>b, <2>a DEF CallFits
  <2>c. call[p].seen.key \in Keys \cup {NoKey}
    BY <1>a DEF Row
  <2>1. CASE /\ Matches(p, call[p].seen.status)
             /\ Write(p, DraftedRow(p, call[p].seen.key), Log(p, "reopened")) /\ Done(p)
    <3>1. "reopened" \in Kinds /\ StatusAfter("reopened") = "pending"
      BY DEF Kinds, StatusAfter, Resolved
    <3>2. Mine(p).status \in Queue!Allowed("reopened")
      BY <2>b, <2>1 DEF Matches, Queue!Allowed, Queue!Resolutions, Resolved
    <3>3. /\ DraftedRow(p, call[p].seen.key) \in Row
          /\ DraftedRow(p, call[p].seen.key).status = "pending"
      BY <2>a, <2>c, DraftedRows DEF Registering
    <3> QED
      BY <2>a, <2>1, <3>1, <3>2, <3>3, RecordsAndEnds
  <2>2. CASE Goto(p, "reopenLost") /\ UNCHANGED <<Tables, call, previous>>
    <3>1. CallFits(p, "reopenLost", call[p])
      BY <2>a, <1>b DEF CallFits, Registering, DispatcherCall, Releasing
    <3>2. ProcOK(p) /\ at'[p] = "reopenLost"
      BY <1>c, <2>2, <3>1, GoesOn
    <3> QED
      BY <2>a, <1>c, <2>2, <3>2, GoesOnQuietly DEF Stays
  <2> QED
    BY <1>4, <2>1, <2>2 DEF Reopen
<1>5. CASE ReopenLost(p)
  BY <1>5, EndsQuietly DEF ReopenLost
<1>6. CASE Insert(p)
  <2>a. at[p] = "insert" /\ UNCHANGED Bounds
    BY <1>6 DEF Insert
  <2>1. CASE /\ Mine(p).status = "absent"
             /\ Write(p, DraftedRow(p, call[p].key), Log(p, "drafted")) /\ Done(p)
    <3>1. "drafted" \in Kinds /\ StatusAfter("drafted") = "pending"
      BY DEF Kinds, StatusAfter, Resolved
    <3>2. Mine(p).status \in Queue!Allowed("drafted")
      BY <2>1 DEF Queue!Allowed
    <3>3. call[p].key \in Keys \cup {NoKey}
      BY <1>a DEF Call
    <3>4. /\ DraftedRow(p, call[p].key) \in Row
          /\ DraftedRow(p, call[p].key).status = "pending"
      BY <2>a, <3>3, DraftedRows DEF Registering
    <3> QED
      BY <2>a, <2>1, <3>1, <3>2, <3>4, RecordsAndEnds
  <2>2. CASE Fail(p) /\ UNCHANGED Tables
    BY <2>a, <2>2, EndsQuietly
  <2>3. CASE /\ call[p].key # NoKey /\ Goto(p, "winner")
             /\ UNCHANGED <<call, previous, Tables>>
    <3>1. CallFits(p, "winner", call[p])
      BY <2>a, <2>3, <1>b DEF CallFits, Registering, DispatcherCall
    <3>2. ProcOK(p) /\ at'[p] = "winner"
      BY <1>c, <2>3, <3>1, GoesOn
    <3> QED
      BY <2>a, <1>c, <2>3, <3>2, GoesOnQuietly DEF Stays
  <2> QED
    BY <1>6, <2>1, <2>2, <2>3 DEF Insert
<1>7. CASE InsertLost(p)
  <2>1. CASE \E i \in Owning(call[p].key) : Replay(p, i)
    BY <1>7, <2>1, ReplayStep DEF InsertLost, Owning
  <2>2. CASE Fail(p)
    BY <1>7, <2>2, EndsQuietly DEF InsertLost
  <2> QED
    BY <1>7, <2>1, <2>2 DEF InsertLost
<1> QED
  BY <1>1, <1>2, <1>3, <1>4, <1>5, <1>6, <1>7 DEF Register
LEMMA ReleaseStep ==
  ASSUME TypeInv, NEW p \in Procs, Release(p)
  PROVE  Sound(p)
<1>a. /\ call[p] \in Call /\ call[p].seen \in Row
      /\ call[p].id \in Proposals /\ Mine(p) \in Row
  BY DEF TypeInv, TypeOK, Call, Mine
<1>b. CallFits(p, at[p], call[p])
  BY DEF TypeInv, CallsFit
<1>c. at[p] \in Releasing => p \notin Replicas
  BY <1>b DEF CallFits, DispatcherCall, Releasing
<1>d. /\ {"resolve", "reread", "actuate", "notify", "revert", "undo"} \subseteq At \ Registering
      /\ {"reread", "actuate", "notify", "revert", "undo"} = Releasing
      /\ "resolve" \notin Releasing
  BY DEF At, Releasing, Registering
<1>e. Resolution(p) \in Resolved /\ Resolved \subseteq Kinds
  BY DEF Resolution, Resolved, Kinds
<1>1. CASE ReadPending(p)
  <2>a. at[p] = "read" /\ UNCHANGED <<Tables, Bounds>>
    BY <1>1 DEF ReadPending
  <2>1. CASE GotoWith(p, "resolve", call[p].id) /\ UNCHANGED previous
    <3>1. p \in Replicas => DispatcherCall("resolve", call[p])
      BY <1>b, <2>a DEF CallFits, DispatcherCall, Releasing
    <3>2. ProcOK(p) /\ at'[p] = "resolve"
      BY <1>a, <1>d, <2>1, <3>1, GoesOnWith
    <3> QED
      BY <1>d, <2>a, <2>1, <3>2, GoesOnQuietly DEF Stays
  <2>2. CASE Done(p)
    BY <2>a, <2>2, EndsQuietly
  <2> QED
    BY <1>1, <2>1, <2>2 DEF ReadPending
<1>2. CASE Resolve(p)
  <2> DEFINE row == [call[p].seen EXCEPT !.status = Resolution(p)]
  <2>a. at[p] = "resolve" /\ UNCHANGED Bounds
    BY <1>2 DEF Resolve
  <2>b. row \in Row /\ row.status = Resolution(p)
    BY <1>a, <1>e DEF Row
  <2>c. StatusAfter(Resolution(p)) = Resolution(p)
    BY <1>e DEF StatusAfter
  <2>1. CASE UNCHANGED Tables /\ Done(p)
    BY <2>a, <2>1, EndsQuietly
  <2>2. CASE Matches(p, "pending") /\ Write(p, row, Log(p, Resolution(p)))
    <3> HIDE DEF row
    <3>1. /\ TablesOK'
          /\ proposal' = [proposal EXCEPT ![call[p].id] = row]
          /\ feed' = Log(p, Resolution(p))
      BY <1>e, <2>b, <2>2, Writes
    <3>2. Mine(p).status = "pending" /\ Resolution(p) \in {"approved", "dismissed"}
      BY <1>e, <2>2 DEF Matches, Resolved
    <3>3. Mine(p).status \in Queue!Allowed(Resolution(p))
      BY <3>2, Zenon DEF Queue!Allowed, Resolution
    <3>4. CASE Done(p)
      <4>1. Resolution(p) # "release_failed"
        BY <3>2
      <4> QED
        BY <1>e, <2>a, <2>b, <2>c, <2>2, <3>3, <3>4, <4>1, RecordsAndEnds
    <3>5. CASE /\ p \notin Replicas /\ Goto(p, "reread") /\ UNCHANGED previous
               /\ call' = [call EXCEPT ![p].event = Len(feed')]
      <4> DEFINE c == [call[p] EXCEPT !.event = Len(feed')]
      <4>1. Len(feed') \in Nat
        BY <3>1 DEF TablesOK
      <4>2. c \in Call /\ c.id = call[p].id
        BY <1>a, <4>1 DEF Call
      <4>3. call' = [call EXCEPT ![p] = c]
        BY <3>5 DEF TypeInv, TypeOK
      <4> HIDE DEF c
      <4>4. CallFits(p, "reread", c)
        BY <1>d, <3>5 DEF CallFits
      <4>5. ProcOK(p) /\ at'[p] = "reread" /\ call'[p] = c
        BY <1>d, <3>5, <4>2, <4>3, <4>4, Moves DEF Goto
      <4>6. PreviousOK'
        BY <3>5 DEF TypeInv, TypeOK, PreviousOK
      <4>7. TypeInv' /\ Mover(p)
        BY <2>a, <3>1, <4>5, <4>6, Together
      <4>8. call[p].by \in Drafters \cup {Dispatcher}
        BY <1>a DEF Call
      <4>9. Recorded(call[p].id, Resolution(p))
        BY <2>b, <2>c, <3>1, <3>3, <4>8 DEF Recorded, Log, Mine
      <4> QED
        BY <1>e, <4>2, <4>5, <4>7, <4>9 DEF Sound, TablesStep
    <3> QED
      BY <1>2, <2>2, <3>4, <3>5 DEF Resolve
  <2> QED
    BY <1>2, <2>1, <2>2 DEF Resolve
<1>3. CASE ReadBack(p)
  <2>a. at[p] = "reread" /\ UNCHANGED <<Tables, Bounds>>
    BY <1>3 DEF ReadBack
  <2>1. CASE Done(p)
    BY <2>a, <2>1, EndsQuietly
  <2>2. ASSUME NEW label \in {"actuate", "notify"}, GotoWith(p, label, call[p].id),
               UNCHANGED previous
        PROVE  Sound(p)
    <3>1. /\ label \in At /\ label \notin Registering
          /\ label # "refresh" /\ label # "reopen"
      BY <1>d
    <3>2. ProcOK(p) /\ at'[p] = label /\ call'[p].id = call[p].id
      BY <1>a, <1>c, <1>d, <2>a, <2>2, <3>1, GoesOnWith
    <3> QED
      BY <1>d, <2>a, <2>2, <3>2, GoesOnQuietly DEF Stays
  <2> QED
    BY <1>3, <2>1, <2>2 DEF ReadBack
<1>4. ASSUME at[p] \in Releasing, NEW label \in {"notify", "revert"}, Goto(p, label),
             UNCHANGED <<Tables, call, previous, Bounds>>
      PROVE  Sound(p)
  <2>1. CallFits(p, label, call[p])
    BY <1>c, <1>d, <1>4 DEF CallFits
  <2>2. ProcOK(p) /\ at'[p] = label /\ call'[p] = call[p]
    BY <1>d, <1>4, <2>1, GoesOn
  <2> QED
    BY <1>4, <2>2, GoesOnQuietly DEF Stays
<1>5. CASE Actuate(p)
  BY <1>d, <1>4, <1>5 DEF Actuate
<1>6. CASE DismissNotification(p)
  BY <1>d, <1>4, <1>6, EndsQuietly DEF DismissNotification
<1>7. CASE ReadResolved(p)
  <2>a. at[p] = "revert" /\ UNCHANGED <<Tables, Bounds>>
    BY <1>7 DEF ReadResolved
  <2>1. CASE GotoWith(p, "undo", call[p].id) /\ UNCHANGED previous
    <3>1. ProcOK(p) /\ at'[p] = "undo" /\ call'[p].id = call[p].id
      BY <1>a, <1>c, <1>d, <2>a, <2>1, GoesOnWith
    <3> QED
      BY <1>d, <2>a, <2>1, <3>1, GoesOnQuietly DEF Stays
  <2>2. CASE Done(p)
    BY <2>a, <2>2, EndsQuietly
  <2> QED
    BY <1>7, <2>1, <2>2 DEF ReadResolved
<1>8. CASE Revert(p)
  <2> DEFINE row == [call[p].seen EXCEPT !.status = "pending"]
  <2>a. at[p] = "undo" /\ Done(p) /\ UNCHANGED Bounds
    BY <1>8 DEF Revert
  <2>1. CASE UNCHANGED Tables
    BY <2>a, <2>1, EndsQuietly
  <2>2. CASE Matches(p, Resolution(p)) /\ Write(p, row, Log(p, "release_failed"))
    <3>1. row \in Row /\ row.status = "pending"
      BY <1>a DEF Row
    <3> HIDE DEF row
    <3>2. "release_failed" \in Kinds /\ StatusAfter("release_failed") = "pending"
      BY DEF Kinds, StatusAfter, Resolved
    <3>3. Mine(p).status \in Queue!Allowed("release_failed")
      BY <1>e, <2>2 DEF Matches, Queue!Allowed, Queue!Resolutions, Resolved
    <3> QED
      BY <1>d, <2>a, <2>2, <3>1, <3>2, <3>3, RecordsAndEnds
  <2> QED
    BY <1>8, <2>1, <2>2 DEF Revert
<1> QED
  BY <1>1, <1>2, <1>3, <1>5, <1>6, <1>7, <1>8 DEF Release
\* A request or a dispatch cycle begins.
LEMMA BeginStep ==
  ASSUME TypeInv, NEW p \in Procs, NEW label \in At \ Releasing, NEW c \in Call,
         CallFits(p, label, c), Begin(p, label, c)
  PROVE  Sound(p)
<1>1. ProcOK(p) /\ at'[p] = label
  BY Moves DEF Begin, Goto
<1>2. TablesOK' /\ PreviousOK' /\ ops' \in 0..MaxOps /\ crashes' \in 0..MaxCrashes
  BY ConstantsOK DEF Begin, Tables, TypeInv, TypeOK, TablesOK, PreviousOK, ConstantsOK
<1>3. TypeInv' /\ Mover(p)
  BY <1>1, <1>2 DEF TypeInv, TypeOK, ProcOK, TablesOK, PreviousOK
<1>4. UNCHANGED Tables /\ Stays(p)
  BY <1>1 DEF Begin, Stays
<1> QED
  BY <1>3, <1>4 DEF Sound, TablesStep

LEMMA DraftStep ==
  ASSUME TypeInv, NEW r \in Requests, Draft(r)
  PROVE  Sound(r)
<1>1. r \in Procs /\ r \notin Replicas
  BY ConstantsOK DEF ConstantsOK, Procs
<1>2. PICK i \in Proposals, k \in Keys \cup {NoKey}, by \in Drafters, v \in Values, ha \in BOOLEAN :
        Begin(r, IF k = NoKey THEN "get" ELSE "find",
              [NoCall EXCEPT !.op = "draft", !.id = i, !.key = k, !.by = by,
                             !.value = v, !.ha = ha])
  BY DEF Draft
<1> DEFINE c == [NoCall EXCEPT !.op = "draft", !.id = i, !.key = k, !.by = by,
                               !.value = v, !.ha = ha]
           label == IF k = NoKey THEN "get" ELSE "find"
<1>3. c \in Call /\ c.op = "draft" /\ c.value \in Values
  BY Constants DEF NoCall, Call
<1>4. label \in At \ Releasing /\ label # "refresh" /\ label # "reopen"
  BY DEF At, Releasing
<1>5. Begin(r, label, c)
  BY <1>2
<1> HIDE DEF c, label
<1>6. CallFits(r, label, c)
  BY <1>1, <1>3, <1>4 DEF CallFits
<1> QED
  BY <1>1, <1>3, <1>4, <1>5, <1>6, BeginStep

LEMMA DecideStep ==
  ASSUME TypeInv, NEW r \in Requests, Decide(r)
  PROVE  Sound(r)
<1>1. r \in Procs /\ r \notin Replicas
  BY ConstantsOK DEF ConstantsOK, Procs
<1>2. PICK i \in Proposals, op \in RequestOps \cap {"approve", "dismiss"}, by \in Drafters :
        Begin(r, "read", [NoCall EXCEPT !.op = op, !.id = i, !.by = by])
  BY DEF Decide
<1> DEFINE c == [NoCall EXCEPT !.op = op, !.id = i, !.by = by]
<1>3. c \in Call
  BY Constants DEF NoCall, Call
<1>4. "read" \in At \ (Releasing \cup Registering)
  BY DEF At, Releasing, Registering
<1>5. Begin(r, "read", c)
  BY <1>2
<1> HIDE DEF c
<1>6. CallFits(r, "read", c)
  BY <1>1, <1>4 DEF CallFits
<1> QED
  BY <1>1, <1>3, <1>4, <1>5, <1>6, BeginStep

LEMMA EvaluateStep ==
  ASSUME TypeInv, NEW d \in Replicas, Evaluate(d)
  PROVE  Sound(d)
<1>1. d \in Procs
  BY DEF Procs
<1>2. PICK i \in Policies, v \in Raised \cup {"ok"} :
        \/ Begin(d, "post", [NoCall EXCEPT !.op = IF v = "ok" THEN "clear" ELSE "raise",
                                           !.id = i, !.value = v, !.ha = TRUE])
        \/ /\ previous' = [previous EXCEPT ![d][i] = v]
           /\ UNCHANGED <<Tables, at, call, Bounds>>
  BY DEF Evaluate
<1>3. /\ i \in Proposals /\ v \in Values \cup {"ok"}
      /\ v # "ok" => v \in Raised
  BY ConstantsOK DEF ConstantsOK
<1>4. CASE Begin(d, "post", [NoCall EXCEPT !.op = IF v = "ok" THEN "clear" ELSE "raise",
                                           !.id = i, !.value = v, !.ha = TRUE])
  <2> DEFINE op == IF v = "ok" THEN "clear" ELSE "raise"
             c == [NoCall EXCEPT !.op = op, !.id = i, !.value = v, !.ha = TRUE]
  <2>1. op \in {"clear", "raise"} /\ (op = "raise" => v # "ok")
    OBVIOUS
  <2>2. Begin(d, "post", c)
    BY <1>4
  <2> HIDE DEF op
  <2>3. /\ c \in Call /\ c.op = op /\ c.id = i /\ c.value = v /\ c.key = NoKey
    BY <1>3, <2>1, Constants DEF NoCall, Call
  <2> HIDE DEF c
  <2>4. "post" \in At \ (Releasing \cup Registering)
    BY DEF At, Releasing, Registering
  <2>5. DispatcherCall("post", c)
    BY <1>3, <2>1, <2>3, <2>4 DEF DispatcherCall
  <2>6. CallFits(d, "post", c)
    BY <2>4, <2>5 DEF CallFits
  <2> QED
    BY <1>1, <2>2, <2>3, <2>4, <2>6, BeginStep
<1>5. CASE /\ previous' = [previous EXCEPT ![d][i] = v]
           /\ UNCHANGED <<Tables, at, call, Bounds>>
  <2>1. PreviousOK'
    BY <1>5 DEF TypeInv, TypeOK, PreviousOK
  <2>2. ProcOK(d)
    BY <1>5 DEF TypeInv, TypeOK, ProcOK, CallsFit, Mover
  <2>3. TablesOK'
    BY <1>5 DEF TypeInv, TypeOK, TablesOK, Tables
  <2>4. TypeInv' /\ Mover(d)
    BY <1>1, <1>5, <2>1, <2>2, <2>3, Together
  <2> QED
    BY <1>5, <2>4 DEF Sound, TablesStep, Stays
<1> QED
  BY <1>2, <1>4, <1>5

LEMMA PostStep ==
  ASSUME TypeInv, NEW d \in Replicas, Post(d)
  PROVE  Sound(d)
<1>1. d \in Procs
  BY DEF Procs
<1>2. at[d] = "post" /\ UNCHANGED <<Tables, Bounds>>
  BY DEF Post
<1>3. CallFits(d, at[d], call[d])
  BY <1>1 DEF TypeInv, CallsFit
<1>4. DispatcherCall("post", call[d])
  BY <1>2, <1>3 DEF CallFits
<1>5. CASE Done(d)
  BY <1>1, <1>2, <1>5, EndsQuietly
<1>6. CASE Goto(d, IF call[d].op = "raise" THEN "get" ELSE "read") /\ UNCHANGED <<call, previous>>
  <2> DEFINE label == IF call[d].op = "raise" THEN "get" ELSE "read"
  <2>1. CASE call[d].op = "raise"
    <3>1. call[d].value \in Values
      BY <1>4, <2>1, ConstantsOK DEF DispatcherCall, ConstantsOK
    <3>2. "get" \in At \ Releasing
      BY DEF At, Releasing
    <3>3. CallFits(d, "get", call[d])
      BY <1>4, <2>1, <3>1, <3>2 DEF CallFits, DispatcherCall
    <3>4. ProcOK(d) /\ at'[d] = "get"
      BY <1>1, <1>6, <2>1, <3>2, <3>3, GoesOn
    <3> QED
      BY <1>1, <1>2, <1>6, <3>2, <3>4, GoesOnQuietly DEF Stays
  <2>2. CASE call[d].op # "raise"
    <3>1. "read" \in At \ (Releasing \cup Registering)
      BY DEF At, Releasing, Registering
    <3>2. CallFits(d, "read", call[d])
      BY <1>4, <3>1 DEF CallFits, DispatcherCall
    <3>3. ProcOK(d) /\ at'[d] = "read"
      BY <1>1, <1>6, <2>2, <3>1, <3>2, GoesOn
    <3> QED
      BY <1>1, <1>2, <1>6, <3>1, <3>3, GoesOnQuietly DEF Stays
  <2> QED
    BY <2>1, <2>2
<1> QED
  BY <1>5, <1>6 DEF Post

LEMMA CrashStep ==
  ASSUME TypeInv, NEW p \in Procs, Crash(p)
  PROVE  Sound(p)
<1>1. ProcOK(p) /\ at'[p] = "idle"
  BY Stops DEF Crash
<1>2. PreviousOK'
  BY DEF Crash, TypeInv, TypeOK, PreviousOK
<1>3. TablesOK' /\ ops' \in 0..MaxOps /\ crashes' \in 0..MaxCrashes
  BY ConstantsOK DEF Crash, Tables, TypeInv, TypeOK, TablesOK, ConstantsOK
<1>4. TypeInv' /\ Mover(p)
  BY <1>1, <1>2, <1>3 DEF TypeInv, TypeOK, ProcOK, TablesOK, PreviousOK
<1>5. UNCHANGED Tables /\ Stays(p)
  BY <1>1 DEF Crash, Stays, Releasing
<1> QED
  BY <1>4, <1>5 DEF Sound, TablesStep

\* Every step keeps the types, and is a step of the tables by one process.
LEMMA NextStep ==
  ASSUME TypeInv, [Next]_vars
  PROVE  TypeInv' /\ (Step \/ UNCHANGED <<proposal, feed, at, call>>)
<1>1. CASE \E p \in Procs : Register(p) \/ Release(p) \/ Crash(p)
  BY <1>1, RegisterStep, ReleaseStep, CrashStep DEF Sound, Step
<1>2. CASE \E r \in Requests : Draft(r) \/ Decide(r)
  BY <1>2, DraftStep, DecideStep DEF Sound, Step, Procs
<1>3. CASE \E d \in Replicas : Evaluate(d) \/ Post(d)
  BY <1>3, EvaluateStep, PostStep DEF Sound, Step, Procs
<1>4. CASE UNCHANGED vars
  BY <1>4 DEF vars, TypeInv, TypeOK, CallsFit
<1> QED
  BY <1>1, <1>2, <1>3, <1>4 DEF Next
-----------------------------------------------------------------------------
(* The feed and the rows *)

\* An event is the last one of its proposal and of no other.
LEMMA OneMore ==
  ASSUME feed \in Seq(Event), NEW e \in Event, feed' = Append(feed, e)
  PROVE  /\ feed' \in Seq(Event)
         /\ Len(feed') = Len(feed) + 1 /\ feed'[Len(feed')] = e
         /\ \A i \in Proposals : \A n \in EventsOf(i) : n \in EventsOf(i)' /\ feed'[n] = feed[n]
         /\ \A i \in Proposals : \A n \in EventsOf(i)' :
              \/ n \in EventsOf(i) /\ n <= Len(feed) /\ n \in Nat
              \/ n = Len(feed') /\ e.id = i
         /\ Len(feed') \in EventsOf(e.id)'
<1>1. /\ feed' \in Seq(Event) /\ Len(feed') = Len(feed) + 1 /\ Len(feed) \in Nat
      /\ feed'[Len(feed')] = e
      /\ DOMAIN feed = 1..Len(feed) /\ DOMAIN feed' = 1..Len(feed')
      /\ \A n \in 1..Len(feed) : feed'[n] = feed[n]
  OBVIOUS
<1> QED
  BY <1>1 DEF EventsOf

\* What a recorded event does to the tables.
LEMMA Records ==
  ASSUME TypeInv, NEW i \in Proposals, NEW kind \in Kinds, Recorded(i, kind)
  PROVE  \E e \in Event :
            /\ e.id = i /\ e.kind = kind /\ feed' = Append(feed, e)
            /\ proposal'[i].status = StatusAfter(kind)
            /\ \A j \in Proposals \ {i} : proposal'[j] = proposal[j]
<1>1. proposal \in [Proposals -> Row]
  BY DEF TypeInv, TypeOK
<1>2. PICK row \in Row : /\ row.status = StatusAfter(kind)
                         /\ proposal' = [proposal EXCEPT ![i] = row]
  BY DEF Recorded
<1>3. PICK by \in Drafters \cup {Dispatcher} :
        feed' = Append(feed, [id |-> i, kind |-> kind, actor |-> by])
  BY DEF Recorded
<1>4. [id |-> i, kind |-> kind, actor |-> by] \in Event
  BY DEF Event
<1> WITNESS [id |-> i, kind |-> kind, actor |-> by] \in Event
<1> QED
  BY <1>1, <1>2, <1>3

\* What the gate allows, kind by kind.
LEMMA AllowedKinds ==
  /\ Queue!Allowed("drafted") = {"absent"}
  /\ Queue!Allowed("refreshed") = {"pending"}
  /\ \A kind \in Resolved : Queue!Allowed(kind) = {"pending"}
  /\ Queue!Allowed("reopened") = Resolved
  /\ Queue!Allowed("release_failed") = Resolved
<1>1. Queue!Allowed("drafted") = {"absent"}
  BY DEF Queue!Allowed
<1>2. Queue!Allowed("refreshed") = {"pending"}
  BY DEF Queue!Allowed
<1>3. Queue!Allowed("approved") = {"pending"}
  BY DEF Queue!Allowed
<1>4. Queue!Allowed("dismissed") = {"pending"}
  BY DEF Queue!Allowed
<1>5. Queue!Allowed("reopened") = Resolved
  BY DEF Queue!Allowed, Queue!Resolutions, Resolved
<1>6. Queue!Allowed("release_failed") = Resolved
  BY DEF Queue!Allowed, Queue!Resolutions, Resolved
<1> QED
  BY <1>1, <1>2, <1>3, <1>4, <1>5, <1>6 DEF Resolved

\* A step leaves the tables, rewrites a pending row without an event, or records one.
LEMMA StepCases ==
  ASSUME TypeInv, NEW p \in Procs, TablesStep(p)
  PROVE  \/ UNCHANGED Tables
         \/ Restated(call[p].id)
         \/ \E kind \in Kinds : Recorded(call[p].id, kind)
BY DEF TablesStep, Kinds, Resolved

LEMMA FeedStep ==
  ASSUME TypeInv, FeedFollows, NEW p \in Procs, TablesStep(p)
  PROVE  FeedFollows'
<1>a. PICK i \in Proposals : i = call[p].id
  BY DEF TypeInv, TypeOK, Call
<1>1. CASE UNCHANGED Tables
  BY <1>1 DEF FeedFollows, EventsOf, Tables
<1>2. CASE Restated(i)
  <2>1. proposal \in [Proposals -> Row]
    BY DEF TypeInv, TypeOK
  <2>2. feed' = feed /\ \A j \in Proposals : proposal'[j].status = proposal[j].status
    BY <1>2, <2>1 DEF Restated
  <2> QED
    BY <2>2 DEF FeedFollows, EventsOf
<1>3. ASSUME NEW kind \in Kinds, Recorded(i, kind) PROVE FeedFollows'
  <2>a. feed \in Seq(Event)
    BY DEF TypeInv, TypeOK
  <2>1. PICK e \in Event :
            /\ e.id = i /\ e.kind = kind /\ feed' = Append(feed, e)
            /\ proposal'[i].status = StatusAfter(kind)
            /\ \A j \in Proposals \ {i} : proposal'[j] = proposal[j]
    BY <1>3, Records
  <2>2. /\ Len(feed') = Len(feed) + 1 /\ feed'[Len(feed')] = e
        /\ \A j \in Proposals : \A n \in EventsOf(j) : n \in EventsOf(j)' /\ feed'[n] = feed[n]
        /\ \A j \in Proposals : \A n \in EventsOf(j)' :
              \/ n \in EventsOf(j) /\ n <= Len(feed) /\ n \in Nat
              \/ n = Len(feed') /\ e.id = j
        /\ Len(feed') \in EventsOf(e.id)'
    BY <2>a, <2>1, OneMore
  <2>3. SUFFICES ASSUME NEW j \in Proposals
                 PROVE  \/ EventsOf(j)' = {} /\ proposal'[j].status = "absent"
                        \/ \E n \in EventsOf(j)' : /\ \A m \in EventsOf(j)' : m <= n
                                                  /\ proposal'[j].status = StatusAfter(feed'[n].kind)
    BY DEF FeedFollows, StatusAfter
  <2>4. CASE j = i
    <3>1. Len(feed) \in Nat
      BY <2>a
    <3>2. \A m \in EventsOf(j)' : m <= Len(feed')
      BY <2>2, <3>1
    <3>3. Len(feed') \in EventsOf(j)' /\ proposal'[j].status = StatusAfter(feed'[Len(feed')].kind)
      BY <2>1, <2>2, <2>4 DEF EventsOf
    <3> QED
      BY <3>2, <3>3
  <2>5. CASE j # i
    <3>1. EventsOf(j)' = EventsOf(j) /\ proposal'[j] = proposal[j]
      BY <2>1, <2>2, <2>5
    <3>2. \A n \in EventsOf(j) : feed'[n] = feed[n]
      BY <2>2
    <3>3. CASE EventsOf(j) = {} /\ proposal[j].status = "absent"
      BY <3>1, <3>3
    <3>4. ASSUME NEW n \in EventsOf(j), \A m \in EventsOf(j) : m <= n,
                 proposal[j].status = StatusAfter(feed[n].kind)
          PROVE  \E k \in EventsOf(j)' : /\ \A m \in EventsOf(j)' : m <= k
                                        /\ proposal'[j].status = StatusAfter(feed'[k].kind)
      BY <3>1, <3>2, <3>4
    <3> QED
      BY <3>3, <3>4 DEF FeedFollows
  <2> QED
    BY <2>4, <2>5
<1> QED
  BY <1>a, <1>1, <1>2, <1>3, StepCases
-----------------------------------------------------------------------------
(* The releasers of a proposal *)

LEMMA Grows ==
  ASSUME TypeInv, NEW p \in Procs, TablesStep(p), NEW i \in Proposals
  PROVE  /\ \A n \in EventsOf(i) : n \in EventsOf(i)' /\ feed'[n] = feed[n]
         /\ NeverReopened(i)' => NeverReopened(i)
<1>a. PICK j \in Proposals : j = call[p].id
  BY DEF TypeInv, TypeOK, Call
<1>1. CASE feed' = feed
  BY <1>1 DEF EventsOf, NeverReopened
<1>2. ASSUME NEW kind \in Kinds, Recorded(j, kind)
      PROVE  \A n \in EventsOf(i) : n \in EventsOf(i)' /\ feed'[n] = feed[n]
  <2>1. PICK e \in Event : feed' = Append(feed, e)
    BY <1>2, Records
  <2> QED
    BY <2>1, OneMore DEF TypeInv, TypeOK
<1>3. \A n \in EventsOf(i) : n \in EventsOf(i)' /\ feed'[n] = feed[n]
  <2>1. CASE UNCHANGED Tables \/ Restated(j)
    BY <1>1, <2>1 DEF Tables, Restated, EventsOf
  <2> QED
    BY <1>a, <1>2, <2>1, StepCases
<1> QED
  BY <1>3 DEF NeverReopened

\* A recorded re-raise is seen by NeverReopened.
LEMMA Reopens ==
  ASSUME TypeInv, NEW i \in Proposals, Recorded(i, "reopened")
  PROVE  ~NeverReopened(i)'
<1>1. PICK e \in Event : e.id = i /\ e.kind = "reopened" /\ feed' = Append(feed, e)
  BY Records DEF Kinds
<1>2. feed'[Len(feed')] = e /\ Len(feed') \in EventsOf(e.id)'
  BY <1>1, OneMore DEF TypeInv, TypeOK
<1>3. Len(feed') \in EventsOf(i)'
  BY <1>1, <1>2 DEF EventsOf
<1> QED
  BY <1>1, <1>2, <1>3 DEF NeverReopened

\* Who starts to release a proposal has resolved it in this step.
LEMMA Joins ==
  ASSUME TypeInv, NEW p \in Procs, Mover(p), TablesStep(p),
         NEW q \in Procs, NEW i \in Proposals,
         at'[q] \in Releasing, call'[q].id = i,
         ~(at[q] \in Releasing /\ call[q].id = i)
  PROVE  q = p /\ proposal[i].status = "pending" /\ proposal'[i].status \in Resolved
<1>1. q = p
  BY DEF Mover
<1>2. ~Stays(p)
  BY <1>1 DEF Stays
<1>3. PICK kind \in Resolved : Recorded(call[p].id, kind) /\ call'[p].id = call[p].id
  BY <1>1, <1>2 DEF TablesStep
<1>4. Recorded(i, kind)
  BY <1>1, <1>3
<1>5. proposal[i].status = "pending"
  BY <1>4, AllowedKinds DEF Recorded
<1>6. kind \in Kinds /\ StatusAfter(kind) \in Resolved
  BY DEF Kinds, Resolved, StatusAfter
<1>7. proposal'[i].status = StatusAfter(kind)
  BY <1>4, <1>6, Records
<1> QED
  BY <1>1, <1>5, <1>6, <1>7

\* A proposal stays resolved while it is being released, unless it is re-raised.
LEMMA Holds ==
  ASSUME SafetyInv, NEW p \in Procs, Mover(p), TablesStep(p),
         NEW q \in Requests, NEW i \in Proposals,
         at[q] \in Releasing, at'[q] \in Releasing, call[q].id = i, NeverReopened(i)'
  PROVE  proposal'[i].status \in Resolved
<1>a. TypeInv
  BY DEF SafetyInv
<1>b. NeverReopened(i)
  BY <1>a, Grows
<1>1. proposal[i].status \in Resolved
  BY <1>b DEF SafetyInv, ReleasersHold
<1>2. proposal[i].status # "absent" /\ proposal[i].status # "pending"
  BY <1>1 DEF Resolved
<1>c. PICK j \in Proposals : j = call[p].id
  BY <1>a DEF TypeInv, TypeOK, Call
<1>3. CASE j # i
  <2>1. CASE UNCHANGED Tables
    BY <1>1, <2>1 DEF Tables
  <2>2. CASE Restated(j)
    BY <1>a, <1>1, <1>3, <2>2 DEF Restated, TypeInv, TypeOK
  <2>3. ASSUME NEW kind \in Kinds, Recorded(j, kind) PROVE proposal'[i] = proposal[i]
    BY <1>a, <1>3, <2>3, Records
  <2> QED
    BY <1>a, <1>c, <1>1, <2>1, <2>2, <2>3, StepCases
<1>4. CASE j = i
  <2>1. CASE UNCHANGED Tables
    BY <1>1, <2>1 DEF Tables
  <2>2. ~Restated(i)
    BY <1>2 DEF Restated
  <2>3. ~Recorded(i, "drafted") /\ ~Recorded(i, "refreshed")
    BY <1>2, AllowedKinds DEF Recorded
  <2>4. ~Recorded(i, "reopened")
    BY <1>a, Reopens
  <2>5. \A kind \in Resolved : ~Recorded(i, kind)
    BY <1>2, AllowedKinds DEF Recorded
  <2>6. ~(at[p] \in Releasing /\ at'[p] \notin Releasing)
    <3>1. SUFFICES ASSUME at[p] \in Releasing, p # q PROVE FALSE
      OBVIOUS
    <3>2. p \in Requests
      BY <1>a, <3>1 DEF TypeInv, CallsFit, CallFits, DispatcherCall, Releasing, Procs
    <3>3. \E n \in EventsOf(i) : feed[n].kind = "reopened"
      BY <1>c, <1>4, <3>1, <3>2 DEF SafetyInv, OneReleaser
    <3> QED
      BY <1>b, <3>3 DEF NeverReopened
  <2> QED
    BY <1>c, <1>4, <2>1, <2>2, <2>3, <2>4, <2>5, <2>6 DEF TablesStep
<1> QED
  BY <1>3, <1>4

LEMMA ReleasersStep ==
  ASSUME SafetyInv, TypeInv', NEW p \in Procs, Mover(p), TablesStep(p)
  PROVE  ReleasersHold' /\ OneReleaser'
<1>a. TypeInv /\ Requests \subseteq Procs
  BY DEF SafetyInv, Procs
<1>b. \A q \in Procs : call[q].id \in Proposals /\ call'[q].id \in Proposals
  BY <1>a DEF TypeInv, TypeOK, Call
<1>1. ASSUME NEW q \in Requests, NEW i \in Proposals, i = call'[q].id,
             at'[q] \in Releasing, NeverReopened(i)'
      PROVE  proposal'[i].status \in Resolved
  BY <1>a, <1>1, Joins, Holds
<1>2. ReleasersHold'
  BY <1>a, <1>b, <1>1 DEF ReleasersHold, NeverReopened, EventsOf
<1>3. ASSUME NEW q \in Requests, NEW r \in Requests, NEW i \in Proposals, q # r,
             at'[q] \in Releasing, at'[r] \in Releasing,
             call'[q].id = i, call'[r].id = i, NeverReopened(i)'
      PROVE  at[q] \in Releasing /\ call[q].id = i
  <2>1. SUFFICES ASSUME ~(at[q] \in Releasing /\ call[q].id = i) PROVE FALSE
    OBVIOUS
  <2>2. q = p /\ proposal[i].status = "pending"
    BY <1>a, <1>3, <2>1, Joins
  <2>3. at[r] \in Releasing /\ call[r].id = i
    BY <1>a, <1>3, <2>2, Joins
  <2>4. NeverReopened(i)
    BY <1>a, <1>3, Grows
  <2>5. proposal[i].status \in Resolved
    BY <2>3, <2>4 DEF SafetyInv, ReleasersHold
  <2> QED
    BY <2>2, <2>5 DEF Resolved
<1>4. ASSUME NEW q \in Requests, NEW r \in Requests, NEW i \in Proposals, q # r,
             at'[q] \in Releasing, at'[r] \in Releasing,
             call'[q].id = i, call'[r].id = i
      PROVE  ~NeverReopened(i)'
  <2>1. SUFFICES ASSUME NeverReopened(i)' PROVE FALSE
    OBVIOUS
  <2>2. /\ at[q] \in Releasing /\ call[q].id = i
        /\ at[r] \in Releasing /\ call[r].id = i
    BY <1>3, <1>4, <2>1
  <2>3. \E n \in EventsOf(i) : feed[n].kind = "reopened"
    BY <1>4, <2>2 DEF SafetyInv, OneReleaser
  <2>4. NeverReopened(i)
    BY <1>a, <2>1, Grows
  <2> QED
    BY <2>3, <2>4 DEF NeverReopened
<1>5. OneReleaser'
  BY <1>a, <1>b, <1>4 DEF OneReleaser, NeverReopened, EventsOf
<1> QED
  BY <1>2, <1>5
-----------------------------------------------------------------------------
(* Theorems *)

LEMMA InitSafe == Init => SafetyInv
<1> SUFFICES ASSUME Init PROVE SafetyInv
  OBVIOUS
<1>1. /\ proposal \in [Proposals -> Row] /\ feed \in Seq(Event)
      /\ at \in [Procs -> At] /\ call \in [Procs -> Call]
  BY Constants DEF Init, At
<1>2. previous \in [Replicas -> [Policies -> Raised \cup {"ok", "none"}]]
  BY DEF Init
<1>3. ops \in 0..MaxOps /\ crashes \in 0..MaxCrashes
  BY ConstantsOK DEF Init, ConstantsOK
<1>4. CallsFit
  BY DEF Init, CallsFit, CallFits, Registering
<1>5. FeedFollows
  <2>1. \A i \in Proposals : EventsOf(i) = {} /\ proposal[i].status = "absent"
    BY DEF Init, EventsOf, Absent
  <2> QED
    BY <2>1 DEF FeedFollows
<1>6. \A p \in Requests : at[p] \notin Releasing
  BY DEF Init, Procs, Releasing
<1> QED
  BY <1>1, <1>2, <1>3, <1>4, <1>5, <1>6
  DEF SafetyInv, TypeInv, TypeOK, OneReleaser, ReleasersHold

LEMMA NextSafe ==
  ASSUME SafetyInv, [Next]_vars
  PROVE  SafetyInv'
<1>1. TypeInv' /\ (Step \/ UNCHANGED <<proposal, feed, at, call>>)
  BY NextStep DEF SafetyInv
<1>2. CASE Step
  BY <1>1, <1>2, FeedStep, ReleasersStep DEF SafetyInv, Step
<1>3. CASE UNCHANGED <<proposal, feed, at, call>>
  BY <1>1, <1>3 DEF SafetyInv, FeedFollows, EventsOf, OneReleaser, ReleasersHold, NeverReopened
<1> QED
  BY <1>1, <1>2, <1>3

\* The inductive invariant holds: the handlers are where their arguments fit, the
\* last event of each proposal gives its status, and what is being released stays
\* resolved by the one who releases it.
THEOREM Safety == Spec => []SafetyInv
<1>1. Init => SafetyInv
  BY InitSafe
<1>2. SafetyInv /\ [Next]_vars => SafetyInv'
  BY NextSafe
<1> QED
  BY <1>1, <1>2, PTL DEF Spec

\* The variables keep their types: rows, events, and the local state of the handlers.
THEOREM TypeCorrect == Spec => []TypeOK
<1>1. SafetyInv => TypeOK
  BY DEF SafetyInv, TypeInv
<1> QED
  BY <1>1, Safety, PTL

\* The status of every proposal is the one its last event in the changes feed gives
\* (update_action_proposal writes both in one transaction, and every handler writes
\* back a row it has read earlier).
THEOREM FeedIsFaithful == Spec => []StatusMatchesFeed
<1>1. ASSUME SafetyInv PROVE StatusMatchesFeed
  <2>1. SUFFICES ASSUME NEW i \in Proposals
                 PROVE  proposal[i].status = IF EventsOf(i) = {} THEN "absent"
                                             ELSE StatusAfter(feed[LastEvent(EventsOf(i))].kind)
    BY DEF StatusMatchesFeed
  <2>2. CASE EventsOf(i) = {} /\ proposal[i].status = "absent"
    BY <2>2
  <2>3. ASSUME NEW n \in EventsOf(i), \A m \in EventsOf(i) : m <= n,
               proposal[i].status = StatusAfter(feed[n].kind)
        PROVE  proposal[i].status = IF EventsOf(i) = {} THEN "absent"
                                    ELSE StatusAfter(feed[LastEvent(EventsOf(i))].kind)
    <3>1. \A m \in EventsOf(i) : m \in Nat
      BY <1>1 DEF SafetyInv, TypeInv, TypeOK, EventsOf
    <3>2. \A m \in EventsOf(i) : (\A k \in EventsOf(i) : k <= m) => m = n
      BY <2>3, <3>1
    <3>3. LastEvent(EventsOf(i)) = n
      BY <2>3, <3>2 DEF LastEvent
    <3> QED
      BY <2>3, <3>3
  <2> QED
    BY <1>1, <2>2, <2>3 DEF SafetyInv, FeedFollows
<1> QED
  BY <1>1, Safety, PTL

\* Two requests are never releasing the same proposal, unless its gate has been
\* re-raised (resolve_and_release after a won compare-and-set).
THEOREM ReleasesAreExclusive == Spec => []OneReleaser
<1>1. SafetyInv => OneReleaser
  BY DEF SafetyInv
<1> QED
  BY <1>1, Safety, PTL

\* A resolved proposal changes only with a recorded re-raise or a recorded failure of
\* its release, whatever late refreshes, drafts and resolutions are under way.
THEOREM DecisionsAreFinal == Spec => DecisionsStand
<1>1. ASSUME SafetyInv, [Next]_vars, NEW i \in Proposals,
             proposal[i].status \in Resolved, proposal'[i] # proposal[i]
      PROVE  /\ Len(feed') = Len(feed) + 1
             /\ feed'[Len(feed')].id = i
             /\ feed'[Len(feed')].kind \in {"reopened", "release_failed"}
  <2>a. TypeInv
    BY <1>1 DEF SafetyInv
  <2>1. PICK p \in Procs : TablesStep(p)
    BY <1>1, <2>a, NextStep DEF Step
  <2>2. PICK j \in Proposals : j = call[p].id
    BY <2>a DEF TypeInv, TypeOK, Call
  <2>b. proposal[i].status # "absent" /\ proposal[i].status # "pending"
    BY <1>1 DEF Resolved
  <2>3. ~UNCHANGED Tables
    BY <1>1 DEF Tables
  <2>4. ~Restated(j)
    BY <1>1, <2>a, <2>b DEF Restated, TypeInv, TypeOK
  <2>5. PICK kind \in Kinds : Recorded(j, kind)
    BY <2>a, <2>1, <2>2, <2>3, <2>4, StepCases
  <2>6. PICK e \in Event : /\ e.id = j /\ e.kind = kind /\ feed' = Append(feed, e)
                           /\ \A k \in Proposals \ {j} : proposal'[k] = proposal[k]
    BY <2>a, <2>5, Records
  <2>7. i = j
    BY <1>1, <2>6
  <2>8. kind \notin {"drafted", "refreshed"} \cup Resolved
    BY <2>b, <2>5, <2>7, AllowedKinds DEF Recorded
  <2>9. Len(feed') = Len(feed) + 1 /\ feed'[Len(feed')] = e
    BY <2>a, <2>6, OneMore DEF TypeInv, TypeOK
  <2> QED
    BY <2>6, <2>7, <2>8, <2>9 DEF Kinds
<1>2. SafetyInv /\ [Next]_vars =>
        [\A i \in Proposals :
            proposal[i].status \in Resolved /\ proposal'[i] # proposal[i] =>
               /\ Len(feed') = Len(feed) + 1
               /\ feed'[Len(feed')].id = i
               /\ feed'[Len(feed')].kind \in {"reopened", "release_failed"}]_vars
  BY <1>1
<1> QED
  BY <1>2, Safety, PTL DEF Spec, DecisionsStand

\* The tables implement the gate of ProposalQueue: what happens to a status is one of
\* the promised transitions, and its event is recorded in the same step.
THEOREM QueueImplemented == Spec => ImplementsQueue
<1> DEFINE status == [i \in Proposals |-> proposal[i].status]
           log == [n \in DOMAIN feed |-> [id |-> feed[n].id, kind |-> feed[n].kind]]
<1>1. Init => Queue!Init
  BY DEF Init, Queue!Init, Absent
<1>2. ASSUME SafetyInv, [Next]_vars PROVE [Queue!Next]_<<status, log>>
  <2>a. TypeInv
    BY <1>2 DEF SafetyInv
  <2>b. proposal \in [Proposals -> Row] /\ feed \in Seq(Event)
    BY <2>a DEF TypeInv, TypeOK
  <2>1. CASE UNCHANGED Tables
    BY <2>1 DEF Tables
  <2>2. ASSUME NEW p \in Procs, TablesStep(p), ~UNCHANGED Tables
        PROVE  [Queue!Next]_<<status, log>>
    <3>1. PICK j \in Proposals : j = call[p].id
      BY <2>a DEF TypeInv, TypeOK, Call
    <3>2. CASE Restated(j)
      <4>1. \A i \in Proposals : proposal'[i].status = proposal[i].status
        BY <2>b, <3>2 DEF Restated
      <4>2. status' = status
        BY <4>1
      <4>3. log' = log
        BY <3>2 DEF Restated
      <4> QED
        BY <4>2, <4>3
    <3>3. ASSUME NEW kind \in Kinds, Recorded(j, kind) PROVE Queue!Record(j, kind)
      <4>1. PICK e \in Event :
              /\ e.id = j /\ e.kind = kind /\ feed' = Append(feed, e)
              /\ proposal'[j].status = StatusAfter(kind)
              /\ \A i \in Proposals \ {j} : proposal'[i] = proposal[i]
        BY <2>a, <3>3, Records
      <4>2. status[j] \in Queue!Allowed(kind)
        BY <3>3 DEF Recorded
      <4>3. status' = [status EXCEPT ![j] = Queue!StatusAfter(kind)]
        BY <4>1 DEF StatusAfter, Resolved, Queue!StatusAfter, Queue!Resolutions
      <4>4. log' = Append(log, [id |-> j, kind |-> kind])
        BY <2>b, <4>1
      <4> QED
        BY <4>2, <4>3, <4>4 DEF Queue!Record
    <3>4. Kinds = Queue!Kinds
      BY DEF Kinds, Queue!Kinds, Resolved, Queue!Resolutions
    <3> QED
      BY <2>a, <2>2, <3>1, <3>2, <3>3, <3>4, StepCases DEF Queue!Next
  <2> QED
    BY <1>2, <2>a, <2>1, <2>2, NextStep DEF Step, Tables
<1>3. SafetyInv /\ [Next]_vars => [Queue!Next]_<<status, log>>
  BY <1>2
<1> QED
  BY <1>1, <1>3, Safety, PTL DEF Spec, ImplementsQueue, Queue!Spec
=============================================================================

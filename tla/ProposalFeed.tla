------------------------------ MODULE ProposalFeed ------------------------------
(***************************************************************************)
(* The changes feed of the proposal queue: the transactions that write a   *)
(* proposal and its event, the counter row that gives the event its place  *)
(* in the feed, and readers that page through the feed with a cursor.      *)
(*                                                                         *)
(* ActionProposals takes each of these transactions for one step.  Here    *)
(* they go statement by statement, as on Postgres: an UPDATE waits for the *)
(* lock of its row, a SELECT sees what is committed, and a connection may  *)
(* be lost before the commit.  SQLite's BEGIN IMMEDIATE, under which one   *)
(* writer runs at a time, allows fewer interleavings.                      *)
(***************************************************************************)
EXTENDS Naturals, Sequences, FiniteSets

CONSTANTS Writers, Readers, Proposals,
          Follows,   (* the proposals whose events a reader asks for           *)
          Nobody,
          Limits,    (* the page sizes                                         *)
          MaxOps     (* bound of the model: how many transactions begin        *)

ASSUME ConstantsOK ==
  /\ Nobody \notin Writers
  /\ Follows \in [Readers -> SUBSET Proposals]
  /\ Limits \subseteq Nat \ {0}
  /\ MaxOps \in Nat

VARIABLES status,         \* of each proposal, committed
          events,         \* action_proposal_events, committed
          counter,        \* action_proposal_feed_counter.last_position, committed
          rowHolder,      \* whose transaction has the row of a proposal locked
          counterHolder,  \* whose transaction has the counter row locked
          tx,             \* the transaction of a writer: the statement that comes
                          \* next, and the event it writes
          cursor, got,    \* the cursor of a reader, and the events it has received
          ops

writers == <<tx, ops>>
locks == <<rowHolder, counterHolder>>
readers == <<cursor, got>>
tables == <<status, events, counter>>
vars == <<tables, locks, writers, readers>>

\* The feed, event by event in the order of the positions.
Rank(e) == Cardinality({f \in events : f.position < e.position}) + 1
Log == [k \in 1..Cardinality(events) |->
          LET e == CHOOSE f \in events : Rank(f) = k IN [id |-> e.id, kind |-> e.kind]]

\* What the queue promises of the feed
Queue == INSTANCE ProposalQueue WITH log <- Log

Statuses == {"absent", "pending"} \cup Queue!Resolutions

\* A silent update rewrites a pending row and records nothing.
Kinds == Queue!Kinds \cup {"silent"}
Expects(kind) == IF kind = "silent" THEN {"pending"} ELSE Queue!Allowed(kind)
StatusAfter(kind) == IF kind = "silent" THEN "pending" ELSE Queue!StatusAfter(kind)

Event == [id : Proposals, kind : Queue!Kinds, sequence : Nat, position : Nat]
Tx == [at : {"write", "sequence", "reserve", "commit"}, id : Proposals, kind : Kinds,
       expected : Statuses, sequence : Nat, position : Nat]
Idle == [at |-> "idle"]

TypeOK ==
  /\ status \in [Proposals -> Statuses]
  /\ events \subseteq Event
  /\ counter \in Nat
  /\ rowHolder \in [Proposals -> Writers \cup {Nobody}]
  /\ counterHolder \in Writers \cup {Nobody}
  /\ tx \in [Writers -> Tx \cup {Idle}]
  /\ cursor \in [Readers -> Nat]
  /\ got \in [Readers -> SUBSET Event]
  /\ ops \in 0..MaxOps

Init ==
  /\ status = [i \in Proposals |-> "absent"]
  /\ events = {} /\ counter = 0
  /\ rowHolder = [i \in Proposals |-> Nobody] /\ counterHolder = Nobody
  /\ tx = [w \in Writers |-> Idle]
  /\ cursor = [r \in Readers |-> 0]
  /\ got = [r \in Readers |-> {}]
  /\ ops = 0

Goto(w, label) == tx' = [tx EXCEPT ![w].at = label]
End(w) == tx' = [tx EXCEPT ![w] = Idle]
Mine(w) == tx[w].id

-----------------------------------------------------------------------------
(* A write transaction: insert_action_proposal and update_action_proposal *)

\* A handler comes with a change and the status it has read before.
Begin(w, i, kind, expected) ==
  /\ tx[w] = Idle /\ ops < MaxOps /\ expected \in Expects(kind)
  /\ ops' = ops + 1
  /\ tx' = [tx EXCEPT ![w] = [at |-> "write", id |-> i, kind |-> kind, expected |-> expected,
                              sequence |-> 1, position |-> 0]]
  /\ UNCHANGED <<tables, locks, readers>>

\* The INSERT, or the UPDATE under WHERE status = expected, waits for the
\* transaction that has the row.
\* Mutant: it does not.
RowTaken(w) == TRUE
RowFree(w) == rowHolder[Mine(w)] = Nobody

\* The events of a draft are numbered from one, the others ask for the next number.
WriteRow(w) ==
  /\ tx[w].at = "write" /\ RowFree(w)
  /\ status[Mine(w)] = tx[w].expected
  /\ rowHolder' = [rowHolder EXCEPT ![Mine(w)] = w]
  /\ Goto(w, CASE tx[w].kind = "silent" -> "commit"
               [] tx[w].kind = "drafted" -> "reserve"
               [] OTHER -> "sequence")
  /\ UNCHANGED <<tables, counterHolder, ops, readers>>

\* No row has the expected status, or the new one is there already.
WriteLost(w) ==
  /\ tx[w].at = "write" /\ RowFree(w)
  /\ status[Mine(w)] # tx[w].expected
  /\ End(w)
  /\ UNCHANGED <<tables, locks, ops, readers>>

NextSequence(w) ==
  /\ tx[w].at = "sequence"
  /\ tx' = [tx EXCEPT ![w].at = "reserve",
                      ![w].sequence = Cardinality({e \in events : e.id = Mine(w)}) + 1]
  /\ UNCHANGED <<tables, locks, ops, readers>>

\* _reserve_feed_positions: the UPDATE keeps the counter row locked to the end.
\* Mutant: the position is reserved in a transaction of its own.
ReserveAhead(w) ==
  /\ counter' = counter + 1
  /\ UNCHANGED counterHolder
Reserve(w) ==
  /\ counterHolder = Nobody
  /\ counterHolder' = w
  /\ UNCHANGED counter

ReservePosition(w) ==
  /\ tx[w].at = "reserve"
  /\ Reserve(w)
  /\ tx' = [tx EXCEPT ![w].at = "commit", ![w].position = counter + 1]
  /\ UNCHANGED <<status, events, rowHolder, ops, readers>>

Unlock(w) ==
  /\ rowHolder' = [i \in Proposals |-> IF rowHolder[i] = w THEN Nobody ELSE rowHolder[i]]
  /\ counterHolder' = IF counterHolder = w THEN Nobody ELSE counterHolder

EventsOf(w) ==
  {[id |-> Mine(w), kind |-> kind, sequence |-> tx[w].sequence, position |-> tx[w].position] :
      kind \in {tx[w].kind} \ {"silent"}}

\* The INSERT of the event, which nobody sees before the commit, and the commit.
Commit(w) ==
  /\ tx[w].at = "commit"
  /\ status' = [status EXCEPT ![Mine(w)] = StatusAfter(tx[w].kind)]
  /\ events' = events \cup EventsOf(w)
  /\ counter' = IF counterHolder = w THEN tx[w].position ELSE counter
  /\ Unlock(w)
  /\ End(w)
  /\ UNCHANGED <<ops, readers>>

\* The connection is lost, or the process dies.
Rollback(w) ==
  /\ tx[w] # Idle
  /\ Unlock(w)
  /\ End(w)
  /\ UNCHANGED <<tables, ops, readers>>

-----------------------------------------------------------------------------
(* A reader: list_action_proposal_changes and proposal_changes_feed *)

Fresh(r) == {e \in events : e.position > cursor[r] /\ e.id \in Follows[r]}

\* The first events after the cursor
Page(r, limit) ==
  {e \in Fresh(r) : Cardinality({f \in Fresh(r) : f.position < e.position}) < limit}

\* The position of the last item of the page.
\* Mutant: the newest position there is.
NewestPosition(page) == {e.position : e \in {f \in events : \A g \in events : g.position <= f.position}}
LastPosition(page) == {e.position : e \in {f \in page : \A g \in page : g.position <= f.position}}

Read(r) ==
  \E limit \in Limits :
     /\ \E position \in LastPosition(Page(r, limit)) :
           cursor' = [cursor EXCEPT ![r] = position]
     /\ got' = [got EXCEPT ![r] = @ \cup Page(r, limit)]
     /\ UNCHANGED <<tables, locks, writers>>

-----------------------------------------------------------------------------

Step(w) == WriteRow(w) \/ WriteLost(w) \/ NextSequence(w) \/ ReservePosition(w) \/ Commit(w)

Next ==
  \/ \E w \in Writers :
        \/ \E i \in Proposals, kind \in Kinds, expected \in Statuses : Begin(w, i, kind, expected)
        \/ Step(w) \/ Rollback(w)
  \/ \E r \in Readers : Read(r)

Spec == Init /\ [][Next]_vars

\* A reader polls.
FairSpec == Spec /\ \A r \in Readers : WF_vars(Read(r))

-----------------------------------------------------------------------------
(* Properties *)

\* A reader that passes on its cursor never skips an event: whatever is committed at
\* or before the cursor it has received, and with an event all earlier ones of the
\* same proposal, although transactions overlap and end in any order.
NothingSkipped ==
  \A r \in Readers, e \in events : e.id \in Follows[r] =>
     /\ e.position <= cursor[r] => e \in got[r]
     /\ \A f \in got[r] : f.id = e.id /\ e.sequence < f.sequence => e \in got[r]

\* Overlapping transactions write the feed as if each took place at once: every
\* commit adds its event at the end, and only where the gate allows it.
ImplementsQueue == Queue!Spec

\* Every event reaches everybody who follows its proposal.
EveryEventArrives ==
  \A r \in Readers, n \in 1..MaxOps :
     Cardinality({e \in events : e.id \in Follows[r]}) >= n ~> Cardinality(got[r]) >= n
=============================================================================

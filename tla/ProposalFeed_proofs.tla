--------------------------- MODULE ProposalFeed_proofs ---------------------------
(***************************************************************************)
(* Proofs about the changes feed, for every number of writers, readers,    *)
(* proposals and transactions and every page size.                         *)
(***************************************************************************)
EXTENDS ProposalFeed, FiniteSetTheorems, SequenceTheorems, TLAPS

EventsOn(i) == {e \in events : e.id = i}

\* From its first write to its end a transaction has its row locked, so the row
\* keeps the status it was found with.
RowsHeld ==
  \A w \in Writers : tx[w].at \in {"sequence", "reserve", "commit"} =>
     rowHolder[tx[w].id] = w /\ status[tx[w].id] = tx[w].expected

\* A position that has been reserved is the next one, and only the transaction that
\* keeps the counter row locked has one.
CounterHeld ==
  \A w \in Writers :
     /\ counterHolder = w <=> tx[w].at = "commit" /\ tx[w].kind # "silent"
     /\ counterHolder = w => tx[w].position = counter + 1

\* A transaction that has numbered its event knows how many the proposal has.
SequencesFit ==
  \A w \in Writers :
     /\ tx[w] # Idle => tx[w].expected \in Expects(tx[w].kind)
     /\ tx[w].at = "write" => tx[w].sequence = 1
     /\ tx[w].at \in {"sequence", "reserve"} => tx[w].kind # "silent"
     /\ tx[w].at \in {"reserve", "commit"} /\ tx[w].kind # "silent" =>
           tx[w].sequence = Cardinality(EventsOn(tx[w].id)) + 1

\* The positions are given out in order, and the events of a proposal are numbered in
\* the order of their positions.
EventsFit ==
  /\ IsFiniteSet(events)
  /\ \A e \in events : /\ e.position \in 1..counter
                       /\ e.sequence \in 1..Cardinality(EventsOn(e.id))
                       /\ status[e.id] # "absent"
  /\ \A e, f \in events : e.id = f.id /\ e.sequence < f.sequence => e.position < f.position

\* What a reader has received lies at or before its cursor, which is not ahead.
ReadersFit ==
  \A r \in Readers : /\ cursor[r] <= counter
                     /\ \A f \in got[r] : f \in events /\ f.position <= cursor[r]

Received ==
  \A r \in Readers, e \in events : e.id \in Follows[r] /\ e.position <= cursor[r] => e \in got[r]

SafetyInv ==
  TypeOK /\ RowsHeld /\ CounterHeld /\ SequencesFit /\ EventsFit /\ ReadersFit /\ Received

-----------------------------------------------------------------------------
(* Transactions *)

LEMMA EventsFinite ==
  ASSUME SafetyInv, NEW i
  PROVE  IsFiniteSet(events) /\ IsFiniteSet(EventsOn(i)) /\ Cardinality(EventsOn(i)) \in Nat
<1>1. IsFiniteSet(events) /\ EventsOn(i) \subseteq events
  BY DEF SafetyInv, EventsFit, EventsOn
<1> QED
  BY <1>1, FS_Subset, FS_CardinalityType

LEMMA TxShape ==
  ASSUME TypeOK, NEW w \in Writers
  PROVE  /\ tx[w] = Idle \/ tx[w] \in Tx
         /\ tx[w].at # "idle" <=> tx[w] # Idle
         /\ tx[w] # Idle => tx[w] \in Tx
         /\ Idle.at = "idle" /\ w # Nobody
  BY ConstantsOK DEF ConstantsOK, TypeOK, Tx, Idle

\* A step that moves one transaction, touches neither the events nor the statuses
\* and takes or gives back only locks of its own.
LEMMA TxStep ==
  ASSUME SafetyInv, NEW w \in Writers, NEW new \in Tx \cup {Idle},
         tx' = [tx EXCEPT ![w] = new],
         UNCHANGED <<status, events, counter, readers>>, ops' \in 0..MaxOps,
         rowHolder' \in [Proposals -> Writers \cup {Nobody}],
         counterHolder' \in Writers \cup {Nobody},
         \A v \in Writers \ {w} : /\ \A i \in Proposals : rowHolder[i] = v => rowHolder'[i] = v
                                  /\ counterHolder' = v <=> counterHolder = v,
         new.at \in {"sequence", "reserve", "commit"} =>
            rowHolder'[new.id] = w /\ status[new.id] = new.expected,
         counterHolder' = w <=> new.at = "commit" /\ new.kind # "silent",
         counterHolder' = w => new.position = counter + 1,
         new # Idle => new.expected \in Expects(new.kind),
         new.at = "write" => new.sequence = 1,
         new.at \in {"sequence", "reserve"} => new.kind # "silent",
         new.at \in {"reserve", "commit"} /\ new.kind # "silent" =>
            new.sequence = Cardinality(EventsOn(new.id)) + 1
  PROVE  SafetyInv'
<1> USE DEF SafetyInv
<1>1. TypeOK'
  BY DEF TypeOK, readers
<1>2. tx'[w] = new /\ \A v \in Writers \ {w} : tx'[v] = tx[v]
  BY DEF TypeOK
<1>3. RowsHeld'
  <2> SUFFICES ASSUME NEW v \in Writers, tx'[v].at \in {"sequence", "reserve", "commit"}
               PROVE  rowHolder'[tx'[v].id] = v /\ status[tx'[v].id] = tx'[v].expected
    BY DEF RowsHeld
  <2>1. CASE v = w
    BY <1>2, <2>1
  <2>2. CASE v # w
    <3>1. tx'[v] = tx[v] /\ tx[v].id \in Proposals
      BY <1>2, <2>2, TxShape DEF Tx
    <3> QED
      BY <2>2, <3>1 DEF RowsHeld
  <2> QED
    BY <2>1, <2>2
<1>4. CounterHeld'
  BY <1>2 DEF CounterHeld
<1>5. SequencesFit'
  <2> SUFFICES ASSUME NEW v \in Writers
               PROVE  /\ tx'[v] # Idle => tx'[v].expected \in Expects(tx'[v].kind)
                      /\ tx'[v].at = "write" => tx'[v].sequence = 1
                      /\ tx'[v].at \in {"sequence", "reserve"} => tx'[v].kind # "silent"
                      /\ tx'[v].at \in {"reserve", "commit"} /\ tx'[v].kind # "silent" =>
                            tx'[v].sequence = Cardinality(EventsOn(tx'[v].id)) + 1
    BY DEF SequencesFit, EventsOn
  <2>1. CASE v = w
    BY <1>2, <2>1
  <2>2. CASE v # w
    BY <1>2, <2>2 DEF SequencesFit
  <2> QED
    BY <2>1, <2>2
<1>6. EventsFit' /\ ReadersFit' /\ Received'
  BY DEF EventsFit, ReadersFit, Received, EventsOn, readers
<1> QED
  BY <1>1, <1>3, <1>4, <1>5, <1>6

LEMMA BeginStep ==
  ASSUME SafetyInv, NEW w \in Writers, NEW i \in Proposals, NEW kind \in Kinds,
         NEW expected \in Statuses, Begin(w, i, kind, expected)
  PROVE  SafetyInv'
<1> DEFINE new == [at |-> "write", id |-> i, kind |-> kind, expected |-> expected,
                   sequence |-> 1, position |-> 0]
<1>1. new \in Tx
  BY DEF Tx
<1>2. ops' \in 0..MaxOps
  BY ConstantsOK DEF Begin, SafetyInv, TypeOK, ConstantsOK
<1>3. tx[w].at = "idle" /\ w # Nobody
  BY TxShape DEF SafetyInv, Begin
<1>4. counterHolder # w
  BY <1>3 DEF SafetyInv, CounterHeld
<1> HIDE DEF new
<1>5. /\ new.at = "write" /\ new.expected \in Expects(new.kind) /\ new.sequence = 1
      /\ tx' = [tx EXCEPT ![w] = new]
  BY DEF new, Begin
<1> QED
  BY <1>1, <1>2, <1>4, <1>5, TxStep DEF Begin, tables, locks, SafetyInv, TypeOK

\* The end of a transaction that has changed nothing gives its locks back.
LEMMA EndStep ==
  ASSUME SafetyInv, NEW w \in Writers, WriteLost(w) \/ Rollback(w)
  PROVE  SafetyInv'
<1> USE DEF SafetyInv
<1>1. Idle.at = "idle" /\ w # Nobody
  BY TxShape
<1>2. UNCHANGED <<status, events, counter, readers>> /\ ops' \in 0..MaxOps
  BY DEF WriteLost, Rollback, tables, TypeOK
<1>3. /\ rowHolder' \in [Proposals -> Writers \cup {Nobody}]
      /\ counterHolder' \in Writers \cup {Nobody}
      /\ counterHolder' # w
      /\ \A v \in Writers \ {w} : /\ \A i \in Proposals : rowHolder[i] = v => rowHolder'[i] = v
                                  /\ counterHolder' = v <=> counterHolder = v
  <2>1. CASE WriteLost(w)
    BY <2>1 DEF WriteLost, locks, TypeOK, CounterHeld
  <2>2. CASE Rollback(w)
    BY <1>1, <2>2, ConstantsOK DEF Rollback, Unlock, TypeOK, ConstantsOK
  <2> QED
    BY <2>1, <2>2
<1>4. tx' = [tx EXCEPT ![w] = Idle]
  BY DEF WriteLost, Rollback, End
<1> QED
  BY <1>1, <1>2, <1>3, <1>4, TxStep

LEMMA WriteStep ==
  ASSUME SafetyInv, NEW w \in Writers, WriteRow(w)
  PROVE  SafetyInv'
<1> USE DEF SafetyInv
<1>1. PICK me \in Tx : me = tx[w]
  BY TxShape DEF WriteRow
<1>2. PICK label \in {"commit", "reserve", "sequence"} :
         /\ label = (CASE me.kind = "silent" -> "commit" [] me.kind = "drafted" -> "reserve"
                       [] OTHER -> "sequence")
         /\ tx' = [tx EXCEPT ![w].at = label]
  BY <1>1 DEF WriteRow, Goto
<1>3. PICK new \in Tx : new = [me EXCEPT !.at = label]
  BY <1>1, <1>2 DEF Tx
<1>4. /\ tx' = [tx EXCEPT ![w] = new]
      /\ new.at = label /\ new.id = me.id /\ new.id \in Proposals /\ new.kind = me.kind
      /\ new.expected = me.expected /\ new.sequence = me.sequence
  BY <1>1, <1>2, <1>3 DEF Tx
<1>5. /\ me.at = "write" /\ me.sequence = 1 /\ me.expected \in Expects(me.kind)
      /\ rowHolder[me.id] = Nobody /\ status[me.id] = me.expected /\ w # Nobody
      /\ rowHolder' = [rowHolder EXCEPT ![me.id] = w]
      /\ counterHolder # w
  BY <1>1, TxShape DEF WriteRow, SequencesFit, RowFree, Mine, CounterHeld, Tx, Idle
<1>6. /\ UNCHANGED <<status, events, counter, readers>> /\ ops' \in 0..MaxOps
      /\ counterHolder' = counterHolder /\ counterHolder' \in Writers \cup {Nobody}
      /\ rowHolder' \in [Proposals -> Writers \cup {Nobody}]
      /\ rowHolder'[new.id] = w
      /\ \A v \in Writers \ {w}, i \in Proposals : rowHolder[i] = v => rowHolder'[i] = v
  BY <1>4, <1>5, ConstantsOK DEF WriteRow, tables, TypeOK, ConstantsOK
<1>7. label = "reserve" => me.kind = "drafted" /\ EventsOn(me.id) = {}
  <2>1. label = "reserve" => me.kind = "drafted"
    BY <1>2
  <2>2. me.kind = "drafted" => me.expected = "absent"
    BY <1>5 DEF Expects, Queue!Allowed, Queue!Resolutions
  <2>3. status[me.id] = "absent" => EventsOn(me.id) = {}
    BY DEF EventsFit, EventsOn
  <2> QED
    BY <1>5, <2>1, <2>2, <2>3
<1>8. label = "reserve" => new.sequence = Cardinality(EventsOn(new.id)) + 1
  BY <1>4, <1>5, <1>7, FS_EmptySet
<1>9. label = "commit" <=> me.kind = "silent"
  BY <1>2
<1>10. /\ new.at \in {"sequence", "reserve", "commit"} =>
             rowHolder'[new.id] = w /\ status[new.id] = new.expected
       /\ counterHolder' = w <=> new.at = "commit" /\ new.kind # "silent"
       /\ counterHolder' # w
  BY <1>4, <1>5, <1>6, <1>9
<1>11. /\ new # Idle => new.expected \in Expects(new.kind)
       /\ new.at = "write" => new.sequence = 1
       /\ new.at \in {"sequence", "reserve"} => new.kind # "silent"
       /\ new.at \in {"reserve", "commit"} /\ new.kind # "silent" =>
             new.sequence = Cardinality(EventsOn(new.id)) + 1
  BY <1>4, <1>5, <1>8, <1>9
<1>12. new \in Tx \cup {Idle} /\ tx' = [tx EXCEPT ![w] = new]
  BY <1>4
<1> QED
  BY <1>6, <1>10, <1>11, <1>12, TxStep

LEMMA SequenceStep ==
  ASSUME SafetyInv, NEW w \in Writers, NextSequence(w)
  PROVE  SafetyInv'
<1> USE DEF SafetyInv
<1>1. PICK me \in Tx : me = tx[w]
  BY TxShape DEF NextSequence
<1>2. PICK n \in Nat : n = Cardinality(EventsOn(me.id)) + 1
  BY EventsFinite
<1>3. PICK new \in Tx : new = [me EXCEPT !.at = "reserve", !.sequence = n]
  BY <1>1 DEF Tx
<1>4. /\ tx' = [tx EXCEPT ![w] = new]
      /\ new.at = "reserve" /\ new.id = me.id /\ new.kind = me.kind
      /\ new.expected = me.expected /\ new.sequence = n
  BY <1>1, <1>2, <1>3 DEF Tx, NextSequence, Mine, EventsOn
<1>5. /\ me.at = "sequence" /\ me.kind # "silent" /\ me.expected \in Expects(me.kind)
      /\ rowHolder[me.id] = w /\ status[me.id] = me.expected /\ counterHolder # w
  BY <1>1 DEF NextSequence, SequencesFit, RowsHeld, CounterHeld, Tx, Idle
<1>6. UNCHANGED <<status, events, counter, readers, rowHolder, counterHolder>> /\ ops' \in 0..MaxOps
  BY DEF NextSequence, tables, locks, TypeOK
<1> QED
  BY <1>2, <1>4, <1>5, <1>6, TxStep DEF TypeOK, Idle

LEMMA ReserveStep ==
  ASSUME SafetyInv, NEW w \in Writers, ReservePosition(w)
  PROVE  SafetyInv'
<1> USE DEF SafetyInv
<1>1. PICK me \in Tx : me = tx[w]
  BY TxShape DEF ReservePosition
<1>2. PICK n \in Nat : n = counter + 1
  BY DEF TypeOK
<1>3. PICK new \in Tx : new = [me EXCEPT !.at = "commit", !.position = n]
  BY <1>1 DEF Tx
<1>4. /\ tx' = [tx EXCEPT ![w] = new]
      /\ new.at = "commit" /\ new.id = me.id /\ new.kind = me.kind
      /\ new.expected = me.expected /\ new.sequence = me.sequence /\ new.position = n
  BY <1>1, <1>2, <1>3 DEF Tx, ReservePosition
<1>5. /\ me.at = "reserve" /\ me.kind # "silent" /\ me.expected \in Expects(me.kind)
      /\ rowHolder[me.id] = w /\ status[me.id] = me.expected
      /\ me.sequence = Cardinality(EventsOn(me.id)) + 1
  BY <1>1 DEF ReservePosition, SequencesFit, RowsHeld, Tx, Idle
<1>6. /\ UNCHANGED <<status, events, counter, readers, rowHolder>> /\ ops' \in 0..MaxOps
      /\ counterHolder = Nobody /\ counterHolder' = w
  BY DEF ReservePosition, Reserve, TypeOK
<1>7. \A v \in Writers : v # Nobody
  BY ConstantsOK DEF ConstantsOK
<1> QED
  BY <1>2, <1>4, <1>5, <1>6, <1>7, TxStep DEF TypeOK, Idle

\* The event of a commit takes the place after all others, in the feed and in the
\* history of its proposal.
LEMMA CommitStep ==
  ASSUME SafetyInv, NEW w \in Writers, Commit(w)
  PROVE  SafetyInv'
<1> USE DEF SafetyInv
<1>1. PICK me \in Tx : me = tx[w]
  BY TxShape DEF Commit
<1>2. /\ me.at = "commit" /\ me.expected \in Expects(me.kind) /\ me.id \in Proposals
      /\ me.kind \in Kinds /\ me.sequence \in Nat /\ me.position \in Nat
      /\ rowHolder[me.id] = w /\ status[me.id] = me.expected /\ counter \in Nat
      /\ counterHolder = w <=> me.kind # "silent"
      /\ counterHolder = w => me.position = counter + 1
      /\ me.kind # "silent" => me.sequence = Cardinality(EventsOn(me.id)) + 1
  BY <1>1 DEF Commit, SequencesFit, RowsHeld, CounterHeld, Tx, Idle, TypeOK
<1>3. StatusAfter(me.kind) \in Statuses \ {"absent"}
  BY <1>2 DEF StatusAfter, Statuses, Kinds, Queue!StatusAfter, Queue!Resolutions, Queue!Kinds
<1>4. /\ status' = [status EXCEPT ![me.id] = StatusAfter(me.kind)]
      /\ tx' = [tx EXCEPT ![w] = Idle] /\ tx'[w] = Idle
      /\ \A v \in Writers \ {w} : tx'[v] = tx[v]
      /\ UNCHANGED <<ops, cursor, got>>
      /\ Idle.at = "idle"
  BY <1>1 DEF Commit, Mine, End, TypeOK, readers, Idle
<1>5. /\ rowHolder' \in [Proposals -> Writers \cup {Nobody}]
      /\ counterHolder' \in Writers \cup {Nobody} /\ counterHolder' # w
      /\ \A v \in Writers \ {w} : /\ \A i \in Proposals : rowHolder[i] = v => rowHolder'[i] = v
                                  /\ counterHolder' = v <=> counterHolder = v
  BY ConstantsOK DEF Commit, Unlock, TypeOK, ConstantsOK
<1>6. \A v \in Writers \ {w} :
         tx[v].at \in {"sequence", "reserve", "commit"} => tx[v].id \in Proposals /\ tx[v].id # me.id
  <2> SUFFICES ASSUME NEW v \in Writers \ {w}, tx[v].at \in {"sequence", "reserve", "commit"}
               PROVE  tx[v].id \in Proposals /\ tx[v].id # me.id
    OBVIOUS
  <2>1. tx[v] \in Tx /\ rowHolder[tx[v].id] = v
    BY TxShape DEF RowsHeld
  <2> QED
    BY <1>2, <2>1 DEF Tx
<1>7. RowsHeld'
  <2> SUFFICES ASSUME NEW v \in Writers, tx'[v].at \in {"sequence", "reserve", "commit"}
               PROVE  rowHolder'[tx'[v].id] = v /\ status'[tx'[v].id] = tx'[v].expected
    BY DEF RowsHeld
  <2>1. v # w /\ tx'[v] = tx[v]
    BY <1>4
  <2> QED
    BY <1>4, <1>5, <1>6, <2>1 DEF RowsHeld, TypeOK
<1>8. CASE me.kind = "silent"
  <2>1. events' = events /\ counter' = counter
    BY <1>1, <1>2, <1>8 DEF Commit, EventsOf
  <2>2. TypeOK'
    BY <1>2, <1>3, <1>4, <1>5, <2>1 DEF TypeOK
  <2>3. CounterHeld'
    BY <1>4, <1>5, <2>1 DEF CounterHeld
  <2>4. SequencesFit'
    BY <1>4, <2>1 DEF SequencesFit, EventsOn
  <2>5. \A e \in events : status'[e.id] # "absent"
    BY <1>3, <1>4 DEF EventsFit, TypeOK, Event
  <2>6. EventsFit'
    BY <2>1, <2>5 DEF EventsFit, EventsOn
  <2>7. ReadersFit' /\ Received'
    BY <1>4, <2>1 DEF ReadersFit, Received
  <2> QED
    BY <1>7, <2>2, <2>3, <2>4, <2>6, <2>7
<1>9. CASE me.kind # "silent"
  <2> DEFINE new == [id |-> me.id, kind |-> me.kind, sequence |-> me.sequence,
                     position |-> me.position]
  <2>1. events' = events \cup {new}
    BY <1>1, <1>9 DEF Commit, EventsOf, Mine
  <2>2. new \in Event
    BY <1>2, <1>9 DEF Event, Kinds
  <2>3. /\ new.id = me.id /\ new.position = counter + 1
        /\ new.sequence = Cardinality(EventsOn(me.id)) + 1
    BY <1>2, <1>9
  <2> HIDE DEF new
  <2>4. counter' = counter + 1
    BY <1>1, <1>2, <1>9 DEF Commit
  <2>5. IsFiniteSet(events') /\ new \notin events
    BY <1>2, <2>1, <2>3, EventsFinite, FS_AddElement DEF EventsFit
  <2>6. /\ EventsOn(me.id)' = EventsOn(me.id) \cup {new} /\ new \notin EventsOn(me.id)
        /\ \A i \in Proposals \ {me.id} : EventsOn(i)' = EventsOn(i)
    BY <2>1, <2>3, <2>5 DEF EventsOn
  <2>7. PICK m \in Nat : m = Cardinality(EventsOn(me.id))
    BY EventsFinite
  <2>8. Cardinality(EventsOn(me.id)') = m + 1
    <3> DEFINE mine == EventsOn(me.id)
    <3>1. IsFiniteSet(mine) /\ new \notin mine /\ Cardinality(mine) = m
      BY <2>6, <2>7, EventsFinite
    <3> HIDE DEF mine
    <3>2. Cardinality(mine \cup {new}) = m + 1
      BY <2>7, <3>1, FS_AddElement
    <3> QED
      BY <2>6, <3>2 DEF mine
  <2>9. TypeOK'
    <3>1. status' \in [Proposals -> Statuses]
      <4>1. status \in [Proposals -> Statuses]
        BY DEF TypeOK
      <4> QED
        BY <1>3, <1>4, <4>1
    <3>2. events' \subseteq Event /\ counter' \in Nat
      BY <1>2, <2>1, <2>2, <2>4 DEF TypeOK
    <3>3. tx' \in [Writers -> Tx \cup {Idle}]
      BY <1>4 DEF TypeOK
    <3> QED
      BY <1>4, <1>5, <3>1, <3>2, <3>3 DEF TypeOK
  <2>10. CounterHeld'
    BY <1>2, <1>4, <1>5, <1>9 DEF CounterHeld
  <2>11. SequencesFit'
    <3>1. ASSUME NEW v \in Writers \ {w}, tx[v].at \in {"reserve", "commit"}
          PROVE  {e \in events' : e.id = tx[v].id} = EventsOn(tx[v].id)
      <4>1. tx[v].id # new.id
        BY <1>6, <2>3, <3>1
      <4> QED
        BY <2>1, <4>1 DEF EventsOn
    <3>2. ASSUME NEW v \in Writers
          PROVE  /\ tx'[v] # Idle => tx'[v].expected \in Expects(tx'[v].kind)
                 /\ tx'[v].at = "write" => tx'[v].sequence = 1
                 /\ tx'[v].at \in {"sequence", "reserve"} => tx'[v].kind # "silent"
                 /\ tx'[v].at \in {"reserve", "commit"} /\ tx'[v].kind # "silent" =>
                       tx'[v].sequence = Cardinality({e \in events' : e.id = tx'[v].id}) + 1
      <4>1. CASE v = w
        BY <1>4, <4>1
      <4>2. CASE v # w
        <5>1. tx'[v] = tx[v]
          BY <1>4, <4>2
        <5>2. tx[v].at \in {"reserve", "commit"} =>
                 {e \in events' : e.id = tx[v].id} = EventsOn(tx[v].id)
          BY <3>1, <4>2
        <5> HIDE DEF SafetyInv
        <5>3. SequencesFit
          BY DEF SafetyInv
        <5> QED
          BY <5>1, <5>2, <5>3 DEF SequencesFit
      <4> QED
        BY <4>1, <4>2
    <3> QED
      BY <3>2 DEF SequencesFit, EventsOn
  <2>12. EventsFit'
    <3>1. \A e \in events : /\ e.position \in 1..counter /\ e.id \in Proposals
                            /\ e.sequence \in 1..Cardinality(EventsOn(e.id))
                            /\ status[e.id] # "absent"
      BY DEF EventsFit, TypeOK, Event
    <3>2. \A e \in events : e.id = me.id => e.sequence \in 1..m
      BY <2>7, <3>1
    <3>3. ASSUME NEW e \in events'
          PROVE  /\ e.position \in 1..counter' /\ status'[e.id] # "absent"
                 /\ e.sequence \in 1..Cardinality(EventsOn(e.id)')
      <4>1. CASE e = new
        BY <1>2, <1>3, <1>4, <2>3, <2>4, <2>7, <2>8, <4>1 DEF TypeOK
      <4>2. CASE e \in events /\ e.id = me.id
        BY <1>2, <1>3, <1>4, <2>4, <2>7, <2>8, <3>1, <3>2, <4>2 DEF TypeOK
      <4>3. CASE e \in events /\ e.id # me.id
        BY <1>2, <1>4, <2>4, <2>6, <3>1, <4>3 DEF TypeOK
      <4> QED
        BY <2>1, <4>1, <4>2, <4>3
    <3>4. ASSUME NEW e \in events', NEW f \in events', e.id = f.id, e.sequence < f.sequence
          PROVE  e.position < f.position
      <4>1. CASE e \in events /\ f \in events
        BY <3>4, <4>1 DEF EventsFit
      <4>2. CASE f = new /\ e \in events
        BY <1>2, <2>3, <3>1, <4>2
      <4>3. CASE e = new /\ f \in events
        <5>1. f.sequence \in 1..m /\ e.sequence = m + 1
          BY <2>3, <2>7, <3>2, <3>4, <4>3
        <5> QED
          BY <3>4, <5>1
      <4>4. CASE e = new /\ f = new
        BY <1>2, <2>3, <2>7, <3>4, <4>4
      <4> QED
        BY <2>1, <4>1, <4>2, <4>3, <4>4
    <3> QED
      BY <2>5, <3>3, <3>4 DEF EventsFit, EventsOn
  <2>13. ReadersFit' /\ Received'
    <3>1. \A r \in Readers : cursor[r] \in Nat /\ cursor[r] <= counter
      BY DEF TypeOK, ReadersFit
    <3>2. \A r \in Readers : cursor[r] <= counter' /\ ~ (new.position <= cursor[r])
      BY <1>2, <2>3, <2>4, <3>1
    <3> QED
      BY <1>4, <2>1, <3>2 DEF ReadersFit, Received
  <2> QED
    BY <1>7, <2>9, <2>10, <2>11, <2>12, <2>13
<1> QED
  BY <1>8, <1>9

-----------------------------------------------------------------------------
(* Readers *)

\* A page holds every event that is not received yet up to the last one on it.
LEMMA ReadStep ==
  ASSUME SafetyInv, NEW r \in Readers, Read(r)
  PROVE  SafetyInv'
<1> USE DEF SafetyInv
<1>0. PICK limit \in Limits :
         /\ \E position \in LastPosition(Page(r, limit)) :
               cursor' = [cursor EXCEPT ![r] = position]
         /\ got' = [got EXCEPT ![r] = @ \cup Page(r, limit)]
         /\ UNCHANGED <<tables, locks, writers>>
  BY DEF Read
<1>1. PICK position \in LastPosition(Page(r, limit)) :
         /\ cursor' = [cursor EXCEPT ![r] = position]
         /\ got' = [got EXCEPT ![r] = @ \cup Page(r, limit)]
         /\ UNCHANGED <<tables, locks, writers>>
  BY <1>0
<1>2. PICK last \in Page(r, limit) :
         position = last.position /\ \A e \in Page(r, limit) : e.position <= last.position
  BY <1>1 DEF LastPosition
<1>3. Page(r, limit) \subseteq Fresh(r) /\ Fresh(r) \subseteq events /\ IsFiniteSet(events)
  BY DEF Page, Fresh, EventsFit
<1>4. /\ position \in Nat /\ cursor[r] \in Nat /\ counter \in Nat
      /\ cursor[r] < position /\ position <= counter
      /\ \A e \in events : e.position \in Nat
  BY <1>2, <1>3 DEF Fresh, TypeOK, Event, EventsFit
<1>5. ASSUME NEW e \in events, e.id \in Follows[r], e.position <= position
      PROVE  e \in got[r] \cup Page(r, limit)
  <2>1. CASE e.position <= cursor[r]
    BY <1>5, <2>1 DEF Received
  <2>2. CASE e.position > cursor[r]
    <3> DEFINE Before(x) == {f \in Fresh(r) : f.position < x.position}
    <3>1. e \in Fresh(r)
      BY <1>5, <2>2 DEF Fresh
    <3>2. Before(e) \subseteq Before(last) /\ Before(last) \subseteq events
      BY <1>2, <1>3, <1>4, <1>5
    <3>3. IsFiniteSet(Before(last))
      BY <1>3, <3>2, FS_Subset
    <3>4. IsFiniteSet(Before(e)) /\ Cardinality(Before(e)) <= Cardinality(Before(last))
      BY <3>2, <3>3, FS_Subset
    <3>5. Cardinality(Before(e)) \in Nat /\ Cardinality(Before(last)) \in Nat /\ limit \in Nat
      BY <3>3, <3>4, FS_CardinalityType, ConstantsOK DEF ConstantsOK
    <3>6. Cardinality(Before(last)) < limit
      BY <1>2 DEF Page
    <3>7. Cardinality(Before(e)) < limit
      BY <3>4, <3>5, <3>6
    <3> QED
      BY <3>1, <3>7 DEF Page
  <2> QED
    BY <1>4, <1>5, <2>1, <2>2
<1>6. /\ got'[r] = got[r] \cup Page(r, limit) /\ cursor'[r] = position
      /\ \A q \in Readers \ {r} : got'[q] = got[q] /\ cursor'[q] = cursor[q]
  BY <1>1 DEF TypeOK
<1>7. TypeOK'
  BY <1>1, <1>3, <1>4 DEF TypeOK, tables, locks, writers
<1>8. RowsHeld' /\ CounterHeld' /\ SequencesFit' /\ EventsFit'
  BY <1>1 DEF RowsHeld, CounterHeld, SequencesFit, EventsFit, EventsOn, tables, locks, writers
<1>9. ReadersFit'
  <2>1. \A f \in got[r] : f \in events /\ f.position <= position
    BY <1>4 DEF ReadersFit
  <2>2. \A f \in Page(r, limit) : f \in events /\ f.position <= position
    BY <1>2, <1>3
  <2>3. events' = events /\ counter' = counter
    BY <1>1 DEF tables
  <2> QED
    BY <1>4, <1>6, <2>1, <2>2, <2>3 DEF ReadersFit
<1>10. Received'
  <2>1. events' = events
    BY <1>1 DEF tables
  <2> QED
    BY <1>5, <1>6, <2>1 DEF Received
<1> QED
  BY <1>7, <1>8, <1>9, <1>10

-----------------------------------------------------------------------------

LEMMA InitSafe == Init => SafetyInv
<1> SUFFICES ASSUME Init PROVE SafetyInv
  OBVIOUS
<1>1. \A w \in Writers : tx[w] = Idle /\ tx[w].at = "idle" /\ counterHolder # w
  BY ConstantsOK DEF Init, Idle, ConstantsOK
<1>2. TypeOK
  BY ConstantsOK DEF Init, TypeOK, Statuses, ConstantsOK
<1>3. RowsHeld /\ CounterHeld /\ SequencesFit
  BY <1>1 DEF RowsHeld, CounterHeld, SequencesFit
<1>4. EventsFit /\ ReadersFit /\ Received
  BY FS_EmptySet DEF Init, EventsFit, ReadersFit, Received
<1> QED
  BY <1>2, <1>3, <1>4 DEF SafetyInv

LEMMA NextSafe == SafetyInv /\ [Next]_vars => SafetyInv'
<1> SUFFICES ASSUME SafetyInv, [Next]_vars PROVE SafetyInv'
  OBVIOUS
<1>1. CASE UNCHANGED vars
  BY <1>1 DEF SafetyInv, TypeOK, RowsHeld, CounterHeld, SequencesFit, EventsFit, ReadersFit,
     Received, EventsOn, vars, tables, locks, writers, readers
<1>2. CASE Next
  BY <1>2, BeginStep, EndStep, WriteStep, SequenceStep, ReserveStep, CommitStep, ReadStep
     DEF Next, Step
<1> QED
  BY <1>1, <1>2

\* The locks, the counter, the numbers of the events and the cursors fit together in
\* every reachable state.
THEOREM Safety == Spec => []SafetyInv
BY InitSafe, NextSafe, PTL DEF Spec

\* Every variable keeps its type.
THEOREM TypeCorrect == Spec => []TypeOK
<1>1. SafetyInv => TypeOK
  BY DEF SafetyInv
<1> QED
  BY <1>1, Safety, PTL

\* No reader ever skips an event, however the transactions overlap.
THEOREM ReadersMissNothing == Spec => []NothingSkipped
<1>1. SafetyInv => NothingSkipped
  <2> SUFFICES ASSUME SafetyInv, NEW r \in Readers, NEW e \in events, e.id \in Follows[r]
               PROVE  /\ e.position <= cursor[r] => e \in got[r]
                      /\ \A f \in got[r] : f.id = e.id /\ e.sequence < f.sequence => e \in got[r]
    BY DEF NothingSkipped
  <2>1. e.position <= cursor[r] => e \in got[r]
    BY DEF SafetyInv, Received
  <2>2. ASSUME NEW f \in got[r], f.id = e.id, e.sequence < f.sequence PROVE e \in got[r]
    <3>1. f \in events /\ f.position <= cursor[r]
      BY DEF SafetyInv, ReadersFit
    <3>2. e.position < f.position
      BY <2>2, <3>1 DEF SafetyInv, EventsFit
    <3>3. e.position \in Nat /\ f.position \in Nat /\ cursor[r] \in Nat
      BY <3>1 DEF SafetyInv, TypeOK, Event
    <3> QED
      BY <2>1, <3>1, <3>2, <3>3
  <2> QED
    BY <2>1, <2>2
<1> QED
  BY <1>1, Safety, PTL

-----------------------------------------------------------------------------
(* The feed implements the queue *)

\* Every position that has been given out is that of one committed event.
Gapless ==
  /\ \A k \in 1..counter : \E e \in events : e.position = k
  /\ \A e, f \in events : e.position = f.position => e = f

\* When positions are given out without gaps, as many events have a position up to m
\* as m says.
LEMMA Prefix ==
  ASSUME NEW E, NEW n \in Nat, NEW m \in 0..n,
         \A e \in E : e.position \in 1..n,
         \A k \in 1..n : \E e \in E : e.position = k,
         \A e, f \in E : e.position = f.position => e = f
  PROVE  Cardinality({e \in E : e.position <= m}) = m
<1> DEFINE S == {e \in E : e.position <= m}
           at == [k \in 1..m |-> CHOOSE e \in E : e.position = k]
<1>1. \A k \in 1..m : at[k] \in S /\ at[k].position = k
  <2> TAKE k \in 1..m
  <2>1. \E e \in E : e.position = k
    OBVIOUS
  <2> QED
    BY <2>1
<1>2. at \in [1..m -> S]
  BY <1>1
<1>3. \A k, l \in 1..m : at[k] = at[l] => k = l
  BY <1>1
<1>4. \A e \in S : e.position \in 1..m /\ at[e.position] = e
  BY <1>1
<1> HIDE DEF at, S
<1>5. at \in Bijection(1..m, S)
  BY <1>2, <1>3, <1>4 DEF Bijection, Injection, Surjection, IsInjective
<1>6. ExistsBijection(1..m, S)
  BY <1>5 DEF ExistsBijection
<1>7. IsFiniteSet(1..m) /\ Cardinality(1..m) = m
  BY FS_Interval
<1>8. Cardinality(S) = m
  BY <1>6, <1>7, FS_Bijection
<1> QED
  BY <1>8 DEF S

\* The rank of an event in the log is then its position.
LEMMA Ranks ==
  ASSUME SafetyInv, Gapless
  PROVE  /\ counter \in Nat /\ Cardinality(events) = counter
         /\ \A e \in events : Rank(e) = e.position /\ e.position \in 1..counter
<1>1. counter \in Nat /\ \A e \in events : e.position \in 1..counter
  BY DEF SafetyInv, TypeOK, EventsFit
<1>2. ASSUME NEW m \in 0..counter
      PROVE  Cardinality({e \in events : e.position <= m}) = m
  BY <1>1, Prefix DEF Gapless
<1>3. Cardinality(events) = counter
  <2>1. events = {e \in events : e.position <= counter}
    BY <1>1
  <2> QED
    BY <1>1, <1>2, <2>1
<1>4. ASSUME NEW e \in events
      PROVE  Rank(e) = e.position
  <2>1. e.position - 1 \in 0..counter
    BY <1>1
  <2>2. {f \in events : f.position < e.position} = {f \in events : f.position <= e.position - 1}
    BY <1>1
  <2>3. Cardinality({f \in events : f.position < e.position}) = e.position - 1
    BY <1>2, <2>1, <2>2
  <2> QED
    BY <1>1, <2>3 DEF Rank
<1> QED
  BY <1>1, <1>3, <1>4

\* So the log holds each event at its position.
LogFits ==
  /\ counter \in Nat
  /\ Log \in [1..counter -> [id : Proposals, kind : Queue!Kinds]]
  /\ \A e \in events : Log[e.position] = [id |-> e.id, kind |-> e.kind]

LEMMA LogIs == SafetyInv /\ Gapless => LogFits
<1> SUFFICES ASSUME SafetyInv, Gapless PROVE LogFits
  OBVIOUS
<1> DEFINE At(k) == CHOOSE f \in events : Rank(f) = k
<1>1. /\ counter \in Nat /\ Cardinality(events) = counter
      /\ \A e \in events : Rank(e) = e.position /\ e.position \in 1..counter
  BY Ranks
<1>2. ASSUME NEW k \in 1..counter
      PROVE  At(k) \in events /\ At(k).position = k
  <2>1. \E e \in events : Rank(e) = k
    BY <1>1 DEF Gapless
  <2>2. At(k) \in events /\ Rank(At(k)) = k
    BY <2>1
  <2> HIDE DEF At
  <2> QED
    BY <1>1, <2>2
<1>3. \A e \in events : At(e.position) = e
  <2> TAKE e \in events
  <2> HIDE DEF At
  <2> QED
    BY <1>1, <1>2 DEF Gapless
<1>4. Log = [k \in 1..counter |-> [id |-> At(k).id, kind |-> At(k).kind]]
  BY <1>1 DEF Log
<1>5. \A e \in events : e.id \in Proposals /\ e.kind \in Queue!Kinds
  BY DEF SafetyInv, TypeOK, Event
<1> HIDE DEF At
<1>6. Log \in [1..counter -> [id : Proposals, kind : Queue!Kinds]]
  BY <1>2, <1>4, <1>5
<1>7. \A e \in events : Log[e.position] = [id |-> e.id, kind |-> e.kind]
  BY <1>1, <1>3, <1>4
<1> QED
  BY <1>1, <1>6, <1>7 DEF LogFits

\* A commit records one event, at the next position and where the gate allows it, or
\* it is silent.
Records(i, kind, e) ==
  /\ events' = events \cup {e} /\ counter' = counter + 1
  /\ e.id = i /\ e.kind = kind /\ e.position = counter + 1
  /\ e.sequence = Cardinality(EventsOn(i)) + 1
  /\ status[i] \in Queue!Allowed(kind)
  /\ status' = [status EXCEPT ![i] = Queue!StatusAfter(kind)]

LEMMA CommitRecords ==
  ASSUME SafetyInv, NEW w \in Writers, Commit(w)
  PROVE  \/ UNCHANGED <<status, events, counter>>
         \/ \E i \in Proposals, kind \in Queue!Kinds : \E e : Records(i, kind, e)
<1>1. PICK me \in Tx : me = tx[w]
  BY TxShape DEF Commit, SafetyInv
<1>2. /\ me.at = "commit" /\ me.expected \in Expects(me.kind) /\ me.id \in Proposals
      /\ me.kind \in Kinds
      /\ status[me.id] = me.expected
      /\ counterHolder = w <=> me.kind # "silent"
      /\ counterHolder = w => me.position = counter + 1
      /\ me.kind # "silent" => me.sequence = Cardinality(EventsOn(me.id)) + 1
  BY <1>1 DEF Commit, SafetyInv, SequencesFit, RowsHeld, CounterHeld, Tx, Idle
<1>3. status' = [status EXCEPT ![me.id] = StatusAfter(me.kind)]
  BY <1>1 DEF Commit, Mine
<1>4. CASE me.kind = "silent"
  <2>1. events' = events /\ counter' = counter
    BY <1>1, <1>2, <1>4 DEF Commit, EventsOf
  <2>2. status[me.id] = "pending" /\ StatusAfter(me.kind) = "pending"
    BY <1>2, <1>4 DEF Expects, StatusAfter
  <2>3. status' = status
    BY <1>3, <2>2 DEF SafetyInv, TypeOK
  <2> QED
    BY <2>1, <2>3
<1>5. CASE me.kind # "silent"
  <2> DEFINE new == [id |-> me.id, kind |-> me.kind, sequence |-> me.sequence,
                     position |-> me.position]
  <2>1. events' = events \cup {new}
    BY <1>1, <1>5 DEF Commit, EventsOf, Mine
  <2>2. counter' = counter + 1 /\ new.position = counter + 1 /\ new.id = me.id
        /\ new.kind = me.kind /\ new.sequence = Cardinality(EventsOn(me.id)) + 1
    BY <1>1, <1>2, <1>5 DEF Commit
  <2>3. /\ me.kind \in Queue!Kinds /\ status[me.id] \in Queue!Allowed(me.kind)
        /\ StatusAfter(me.kind) = Queue!StatusAfter(me.kind)
    BY <1>2, <1>5 DEF Kinds, Expects, StatusAfter
  <2> HIDE DEF new
  <2>4. Records(me.id, me.kind, new)
    BY <1>3, <2>1, <2>2, <2>3 DEF Records
  <2> QED
    BY <1>2, <2>3, <2>4
<1> QED
  BY <1>4, <1>5

\* Every other step is silent.
LEMMA NextRecords ==
  ASSUME SafetyInv, [Next]_vars
  PROVE  \/ UNCHANGED <<status, events, counter>>
         \/ \E i \in Proposals, kind \in Queue!Kinds : \E e : Records(i, kind, e)
<1>1. CASE \E w \in Writers : Commit(w)
  BY <1>1, CommitRecords
<1>2. CASE UNCHANGED <<status, events, counter>>
  BY <1>2
<1>3. CASE UNCHANGED vars
  BY <1>2, <1>3 DEF vars, tables
<1>4. ASSUME NEW w \in Writers,
             \/ \E i \in Proposals, kind \in Kinds, expected \in Statuses : Begin(w, i, kind, expected)
             \/ WriteRow(w) \/ WriteLost(w) \/ NextSequence(w) \/ ReservePosition(w) \/ Rollback(w)
      PROVE  UNCHANGED <<status, events, counter>>
  BY <1>4 DEF Begin, WriteRow, WriteLost, NextSequence, ReservePosition, Reserve, Rollback, tables
<1>5. ASSUME NEW r \in Readers, Read(r)
      PROVE  UNCHANGED <<status, events, counter>>
  BY <1>5 DEF Read, tables
<1> QED
  BY <1>1, <1>2, <1>3, <1>4, <1>5 DEF Next, Step

LEMMA NextGapless == SafetyInv /\ Gapless /\ [Next]_vars => Gapless'
<1> SUFFICES ASSUME SafetyInv, Gapless, [Next]_vars PROVE Gapless'
  OBVIOUS
<1>1. CASE UNCHANGED <<status, events, counter>>
  BY <1>1 DEF Gapless
<1>2. ASSUME NEW i \in Proposals, NEW kind \in Queue!Kinds, NEW e, Records(i, kind, e)
      PROVE  Gapless'
  <2>1. /\ events' = events \cup {e} /\ counter' = counter + 1 /\ e.position = counter + 1
        /\ counter \in Nat /\ \A f \in events : f.position \in 1..counter
    BY <1>2 DEF Records, SafetyInv, TypeOK, EventsFit
  <2>2. \A k \in 1..counter' : \E f \in events' : f.position = k
    BY <2>1 DEF Gapless
  <2>3. \A f, g \in events' : f.position = g.position => f = g
    BY <2>1 DEF Gapless
  <2> QED
    BY <2>2, <2>3 DEF Gapless
<1> QED
  BY <1>1, <1>2, NextRecords

\* No position of the feed is left out and none is given twice.
THEOREM PositionsAreGapless == Spec => []Gapless
<1>1. Init => Gapless
  BY DEF Init, Gapless
<1> QED
  BY <1>1, NextGapless, Safety, PTL DEF Spec

\* The events of a proposal are numbered from one without gaps, and no two alike.
Numbered ==
  \A i \in Proposals :
     /\ \A k \in 1..Cardinality(EventsOn(i)) : \E e \in EventsOn(i) : e.sequence = k
     /\ \A e, f \in EventsOn(i) : e.sequence = f.sequence => e = f

LEMMA NextNumbered == SafetyInv /\ Numbered /\ [Next]_vars => Numbered'
<1> SUFFICES ASSUME SafetyInv, Numbered, [Next]_vars, NEW i \in Proposals
             PROVE  /\ \A k \in 1..Cardinality(EventsOn(i)') : \E e \in EventsOn(i)' : e.sequence = k
                    /\ \A e, f \in EventsOn(i)' : e.sequence = f.sequence => e = f
  BY DEF Numbered, EventsOn
<1>1. CASE UNCHANGED <<status, events, counter>>
  BY <1>1 DEF Numbered, EventsOn
<1>2. ASSUME NEW j \in Proposals, NEW kind \in Queue!Kinds, NEW new, Records(j, kind, new)
      PROVE  /\ \A k \in 1..Cardinality(EventsOn(i)') : \E e \in EventsOn(i)' : e.sequence = k
             /\ \A e, f \in EventsOn(i)' : e.sequence = f.sequence => e = f
  <2>1. /\ events' = events \cup {new} /\ new.id = j
        /\ new.sequence = Cardinality(EventsOn(j)) + 1
    BY <1>2 DEF Records
  <2>2. CASE i # j
    <3>1. EventsOn(i)' = EventsOn(i)
      BY <2>1, <2>2 DEF EventsOn
    <3> QED
      BY <3>1 DEF Numbered
  <2>3. CASE i = j
    <3>1. PICK n \in Nat : n = Cardinality(EventsOn(i)) /\ IsFiniteSet(EventsOn(i))
      BY EventsFinite
    <3>2. /\ \A k \in 1..n : \E e \in EventsOn(i) : e.sequence = k
          /\ \A e, f \in EventsOn(i) : e.sequence = f.sequence => e = f
      BY <3>1 DEF Numbered
    <3>3. \A e \in EventsOn(i) : e.sequence \in 1..n
      BY <3>1 DEF SafetyInv, EventsFit, EventsOn
    <3>4. new.sequence = n + 1 /\ new \notin EventsOn(i)
      BY <2>1, <2>3, <3>1, <3>3
    <3>5. EventsOn(i)' = EventsOn(i) \cup {new}
      BY <2>1, <2>3 DEF EventsOn
    <3>6. Cardinality(EventsOn(i)') = n + 1
      <4> DEFINE mine == EventsOn(i)
      <4>1. IsFiniteSet(mine) /\ new \notin mine /\ Cardinality(mine) = n
        BY <3>1, <3>4
      <4> HIDE DEF mine
      <4>2. Cardinality(mine \cup {new}) = n + 1
        BY <3>1, <4>1, FS_AddElement
      <4> QED
        BY <3>5, <4>2 DEF mine
    <3>7. ASSUME NEW k \in 1..(n + 1) PROVE \E e \in EventsOn(i)' : e.sequence = k
      <4>1. k \in 1..n \/ k = n + 1
        BY <3>1
      <4> QED
        BY <3>2, <3>4, <3>5, <4>1
    <3>8. ASSUME NEW e \in EventsOn(i)', NEW f \in EventsOn(i)', e.sequence = f.sequence PROVE e = f
      BY <3>1, <3>2, <3>3, <3>4, <3>5, <3>8
    <3> QED
      BY <3>6, <3>7, <3>8
  <2> QED
    BY <2>2, <2>3
<1> QED
  BY <1>1, <1>2, NextRecords

\* Whichever transactions abort or lose, the history of a proposal is numbered from
\* one without gaps, so the number after the highest is that of the next event, and
\* UNIQUE (action_id, sequence) refuses no event.
THEOREM HistoryIsGapless == Spec => []Numbered
<1>1. Init => Numbered
  BY FS_EmptySet DEF Init, Numbered, EventsOn
<1> QED
  BY <1>1, NextNumbered, Safety, PTL DEF Spec

-----------------------------------------------------------------------------
(* The locks *)

\* Whoever has a row locked is at work on it.
LocksBelong ==
  \A i \in Proposals : rowHolder[i] # Nobody =>
     LET me == tx[rowHolder[i]]
     IN me.at \in {"sequence", "reserve", "commit"} /\ me.id = i

LEMMA NextLocks == SafetyInv /\ LocksBelong /\ [Next]_vars => LocksBelong'
<1> SUFFICES ASSUME SafetyInv, LocksBelong, [Next]_vars, NEW i \in Proposals,
                    rowHolder'[i] # Nobody
             PROVE  tx'[rowHolder'[i]].at \in {"sequence", "reserve", "commit"}
                    /\ tx'[rowHolder'[i]].id = i
  BY DEF LocksBelong
<1>0. /\ rowHolder \in [Proposals -> Writers \cup {Nobody}] /\ tx \in [Writers -> Tx \cup {Idle}]
      /\ Nobody \notin Writers
  BY ConstantsOK DEF ConstantsOK, SafetyInv, TypeOK
<1>1. CASE UNCHANGED <<rowHolder, tx>>
  BY <1>1 DEF LocksBelong
<1>2. ASSUME NEW w \in Writers, rowHolder'[i] = rowHolder[i], rowHolder[i] # w,
             \A v \in Writers \ {w} : tx'[v] = tx[v]
      PROVE  tx'[rowHolder'[i]].at \in {"sequence", "reserve", "commit"}
             /\ tx'[rowHolder'[i]].id = i
  BY <1>0, <1>2 DEF LocksBelong
<1>3. ASSUME NEW w \in Writers, NEW j \in Proposals, NEW kind \in Kinds, NEW expected \in Statuses,
             Begin(w, j, kind, expected)
      PROVE  tx'[rowHolder'[i]].at \in {"sequence", "reserve", "commit"}
             /\ tx'[rowHolder'[i]].id = i
  <2>1. tx[w] = Idle /\ rowHolder' = rowHolder /\ \A v \in Writers \ {w} : tx'[v] = tx[v]
    BY <1>0, <1>3 DEF Begin, locks
  <2>2. rowHolder[i] # w
    BY <2>1 DEF LocksBelong, Idle
  <2> QED
    BY <1>2, <2>1, <2>2
<1>4. ASSUME NEW w \in Writers, WriteLost(w)
      PROVE  tx'[rowHolder'[i]].at \in {"sequence", "reserve", "commit"}
             /\ tx'[rowHolder'[i]].id = i
  <2>1. tx[w].at = "write" /\ rowHolder' = rowHolder /\ \A v \in Writers \ {w} : tx'[v] = tx[v]
    BY <1>0, <1>4 DEF WriteLost, locks, End
  <2>2. rowHolder[i] # w
    BY <2>1 DEF LocksBelong
  <2> QED
    BY <1>2, <2>1, <2>2
<1>5. ASSUME NEW w \in Writers, WriteRow(w)
      PROVE  tx'[rowHolder'[i]].at \in {"sequence", "reserve", "commit"}
             /\ tx'[rowHolder'[i]].id = i
  <2>1. PICK label \in {"sequence", "reserve", "commit"} : tx' = [tx EXCEPT ![w].at = label]
    BY <1>5 DEF WriteRow, Goto
  <2>2. tx[w].at = "write" /\ rowHolder' = [rowHolder EXCEPT ![tx[w].id] = w] /\ tx[w] \in Tx
    BY <1>5, TxShape DEF WriteRow, Mine, SafetyInv, Idle
  <2>3. tx'[w].at = label /\ tx'[w].id = tx[w].id /\ \A v \in Writers \ {w} : tx'[v] = tx[v]
    BY <1>0, <2>1, <2>2 DEF Tx
  <2>4. CASE i = tx[w].id
    BY <1>0, <2>2, <2>3, <2>4
  <2>5. CASE i # tx[w].id
    <3>1. rowHolder'[i] = rowHolder[i]
      BY <1>0, <2>2, <2>5
    <3>2. rowHolder[i] # w
      BY <2>2 DEF LocksBelong
    <3> QED
      BY <1>2, <2>3, <3>1, <3>2
  <2> QED
    BY <2>4, <2>5
<1>6. ASSUME NEW w \in Writers, NextSequence(w) \/ ReservePosition(w)
      PROVE  tx'[rowHolder'[i]].at \in {"sequence", "reserve", "commit"}
             /\ tx'[rowHolder'[i]].id = i
  <2>1. rowHolder' = rowHolder /\ tx[w].at \in {"sequence", "reserve"} /\ tx[w] \in Tx
    BY <1>6, TxShape DEF NextSequence, ReservePosition, locks, SafetyInv, Idle
  <2>2. /\ tx'[w].at \in {"reserve", "commit"} /\ tx'[w].id = tx[w].id
        /\ \A v \in Writers \ {w} : tx'[v] = tx[v]
    BY <1>0, <1>6, <2>1 DEF NextSequence, ReservePosition, Tx
  <2>3. CASE rowHolder[i] = w
    BY <1>0, <2>1, <2>2, <2>3 DEF LocksBelong
  <2>4. CASE rowHolder[i] # w
    BY <1>2, <2>1, <2>2, <2>4
  <2> QED
    BY <2>3, <2>4
<1>7. ASSUME NEW w \in Writers, Commit(w) \/ Rollback(w)
      PROVE  tx'[rowHolder'[i]].at \in {"sequence", "reserve", "commit"}
             /\ tx'[rowHolder'[i]].id = i
  <2>1. /\ rowHolder' = [j \in Proposals |-> IF rowHolder[j] = w THEN Nobody ELSE rowHolder[j]]
        /\ \A v \in Writers \ {w} : tx'[v] = tx[v]
    BY <1>0, <1>7 DEF Commit, Rollback, Unlock, End
  <2>2. rowHolder'[i] = rowHolder[i] /\ rowHolder[i] # w
    BY <2>1
  <2> QED
    BY <1>2, <2>1, <2>2
<1>8. CASE (\E r \in Readers : Read(r)) \/ UNCHANGED vars
  BY <1>1, <1>8 DEF Read, locks, writers, vars
<1> QED
  BY <1>3, <1>4, <1>5, <1>6, <1>7, <1>8 DEF Next, Step

\* The guard of the next statement of a transaction: its write waits for the row,
\* the reservation for the counter row, the rest for nobody.
MayGo(w) ==
  \/ tx[w].at = "write" /\ RowFree(w)
  \/ tx[w].at = "reserve" /\ counterHolder = Nobody
  \/ tx[w].at \in {"sequence", "commit"}

NoDeadlock ==
  (\E w \in Writers : tx[w] # Idle) => \E w \in Writers : MayGo(w)

\* Transactions never wait for each other in a circle: every one locks its row before
\* it locks the counter row, and whoever has the counter row goes on to the end.
THEOREM TransactionsNeverDeadlock == Spec => []NoDeadlock
<1>1. Init => LocksBelong
  BY DEF Init, LocksBelong
<1>2. SafetyInv /\ LocksBelong => NoDeadlock
  <2> SUFFICES ASSUME SafetyInv, LocksBelong, NEW w \in Writers, tx[w] # Idle
               PROVE  \E v \in Writers : MayGo(v)
    BY DEF NoDeadlock
  <2>1. \A v \in Writers : tx[v].at = "reserve" => \E u \in Writers : MayGo(u)
    <3> SUFFICES ASSUME NEW v \in Writers, tx[v].at = "reserve", counterHolder # Nobody
                 PROVE  \E u \in Writers : MayGo(u)
      BY DEF MayGo
    <3>1. counterHolder \in Writers
      BY DEF SafetyInv, TypeOK
    <3>2. tx[counterHolder].at = "commit"
      BY <3>1 DEF SafetyInv, CounterHeld
    <3> QED
      BY <3>1, <3>2 DEF MayGo
  <2>2. tx[w] \in Tx /\ tx[w].at \in {"write", "sequence", "reserve", "commit"}
        /\ tx[w].id \in Proposals
    BY TxShape DEF SafetyInv, Tx
  <2>3. CASE tx[w].at = "write" /\ ~RowFree(w)
    <3> DEFINE v == rowHolder[tx[w].id]
    <3>1. v # Nobody /\ v \in Writers
      BY <2>2, <2>3 DEF RowFree, Mine, SafetyInv, TypeOK
    <3>2. tx[v].at \in {"sequence", "reserve", "commit"}
      BY <2>2, <3>1 DEF LocksBelong
    <3> QED
      BY <2>1, <3>1, <3>2 DEF MayGo
  <2>4. CASE tx[w].at = "write" /\ RowFree(w)
    BY <2>4 DEF MayGo
  <2> QED
    BY <2>1, <2>2, <2>3, <2>4 DEF MayGo
<1> QED
  BY <1>1, <1>2, NextLocks, Safety, PTL DEF Spec

\* A recorded event goes to the end of the log.
LEMMA RecordAppends ==
  ASSUME LogFits, LogFits', SafetyInv, Gapless, NEW i \in Proposals, NEW kind \in Queue!Kinds,
         NEW e, Records(i, kind, e)
  PROVE  Queue!Record(i, kind)
<1> DEFINE Item == [id : Proposals, kind : Queue!Kinds]
           item == [id |-> i, kind |-> kind]
<1>1. /\ counter \in Nat /\ counter' = counter + 1
      /\ Log \in [1..counter -> Item] /\ Log' \in [1..(counter + 1) -> Item]
      /\ \A f \in events : f.position \in 1..counter /\ f \in events'
      /\ \A f \in events : Log[f.position] = [id |-> f.id, kind |-> f.kind]
      /\ \A f \in events' : Log'[f.position] = [id |-> f.id, kind |-> f.kind]
  BY DEF LogFits, Records, SafetyInv, EventsFit
<1>2. Log'[counter + 1] = item
  BY <1>1 DEF Records
<1>3. ASSUME NEW k \in 1..counter
      PROVE  Log'[k] = Log[k]
  <2>1. PICK f \in events : f.position = k
    BY DEF Gapless
  <2> QED
    BY <1>1, <2>1
<1> HIDE DEF item, Item
<1>4. Log \in Seq(Item) /\ Len(Log) = counter
  BY <1>1
<1>5. item \in Item
  BY DEF item, Item
<1>6. /\ Append(Log, item) \in Seq(Item) /\ Len(Append(Log, item)) = counter + 1
      /\ \A k \in 1..counter : Append(Log, item)[k] = Log[k]
      /\ Append(Log, item)[counter + 1] = item
  BY <1>4, <1>5, AppendProperties
<1>7. Log' \in Seq(Item) /\ Len(Log') = counter + 1
  BY <1>1
<1>8. Log' = Append(Log, item)
  <2>1. \A k \in 1..(counter + 1) : Log'[k] = Append(Log, item)[k]
    BY <1>1, <1>2, <1>3, <1>6
  <2> QED
    BY <1>6, <1>7, <2>1, SeqEqual
<1> QED
  BY <1>8 DEF Queue!Record, Records, item

\* The log that the events are in makes the feed an implementation of the queue:
\* overlapping transactions take effect one by one, in the order of the positions,
\* each where the gate allows it.
THEOREM QueueImplemented == Spec => ImplementsQueue
<1>1. Init => Queue!Init
  <2> SUFFICES ASSUME Init PROVE Queue!Init
    OBVIOUS
  <2>1. Cardinality(events) = 0
    BY FS_EmptySet DEF Init
  <2>2. Log = <<>>
    BY <2>1 DEF Log
  <2> QED
    BY <2>2 DEF Init, Queue!Init
<1>2. SafetyInv /\ Gapless /\ LogFits /\ LogFits' /\ [Next]_vars => [Queue!Next]_<<status, Log>>
  <2> SUFFICES ASSUME SafetyInv, Gapless, LogFits, LogFits', [Next]_vars
               PROVE  Queue!Next \/ UNCHANGED <<status, Log>>
    OBVIOUS
  <2>1. CASE UNCHANGED <<status, events, counter>>
    BY <2>1 DEF Log, Rank
  <2>2. CASE \E i \in Proposals, kind \in Queue!Kinds : \E e : Records(i, kind, e)
    BY <2>2, RecordAppends DEF Queue!Next
  <2> QED
    BY <2>1, <2>2, NextRecords
<1> QED
  BY <1>1, <1>2, LogIs, Safety, PositionsAreGapless, PTL DEF Spec, ImplementsQueue, Queue!Spec
=============================================================================

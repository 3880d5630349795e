-------------------------- MODULE ApiProcess_proofs --------------------------
(***************************************************************************)
(* Proofs about two parts of the API process: the warehouse handle, for    *)
(* every number of threads, leases, requests and foreign locks and every   *)
(* depth of nesting; and the Home Assistant bridge, which ingests through  *)
(* that handle, for every number of entities, every limit of a gap and     *)
(* every bound on time, faults, drops, posts and backfills.  The two share *)
(* no variable: what the bridge writes goes through a write lease of its   *)
(* own, and nothing that is proved of it depends on when it gets one.      *)
(***************************************************************************)
EXTENDS WarehouseSession, HaBridge, FiniteSetTheorems, SequenceTheorems,
        WellFoundedInduction, TLAPS

-----------------------------------------------------------------------------
(* The warehouse handle *)

\* The leases in flight, each a thread and a depth; _inflight counts them.
Slots == Threads \X (1..MaxDepth)
Held == {s \in Slots : s[2] <= Len(held[s[1]])}

Counted == inflight = Cardinality(Held) /\ active = Cardinality(inRequest)

\* A thread that is after a lease has room for it.
DepthFits ==
  \A t \in Threads : /\ Len(held[t]) <= MaxDepth
                     /\ want[t] \in Modes => Len(held[t]) < MaxDepth

\* While a thread opens the file nobody holds a lease.
OpenerFits == opener # Nobody => handle = "none" /\ inflight = 0 /\ want[opener] \in Modes

\* Only a thread without a lease sleeps or closes, and who sleeps is after something.
WaitersFit ==
  \A t \in Threads : /\ waits[t] => held[t] = <<>> /\ want[t] # "none"
                     /\ want[t] = "close" => held[t] = <<>>

SafetyInv ==
  TypeOK /\ Counted /\ DepthFits /\ OpenerFits /\ WaitersFit /\ LeasesFitHandle /\ NoLostWakeup

-----------------------------------------------------------------------------
(* Counting leases *)

LEMMA SlotsFinite == IsFiniteSet(Slots) /\ IsFiniteSet(Held)
<1>1. IsFiniteSet(1..MaxDepth)
  BY FS_Interval, ConstantsOK DEF ConstantsOK
<1>2. IsFiniteSet(Slots)
  BY <1>1, FS_Product, ConstantsOK DEF ConstantsOK, Slots
<1>3. Held \subseteq Slots
  BY DEF Held
<1> QED
  BY <1>2, <1>3, FS_Subset

\* No lease is counted exactly when no thread holds one.
LEMMA NoneHeld ==
  ASSUME TypeOK, Counted, DepthFits
  PROVE  /\ inflight \in Nat /\ active \in Nat
         /\ inflight = 0 <=> \A t \in Threads : held[t] = <<>>
<1>1. inflight \in Nat /\ active \in Nat
  BY DEF TypeOK
<1>2. inflight = 0 <=> Held = {}
  BY SlotsFinite, FS_EmptySet DEF Counted
<1>3. ASSUME Held = {}, NEW t \in Threads PROVE held[t] = <<>>
  <2>1. held[t] \in Seq(Modes) /\ Len(held[t]) \in Nat /\ MaxDepth \in Nat
        /\ Len(held[t]) <= MaxDepth
    BY ConstantsOK, LenProperties DEF TypeOK, DepthFits, ConstantsOK
  <2>2. ASSUME Len(held[t]) > 0 PROVE FALSE
    <3>1. 1 \in 1..MaxDepth /\ 1 <= Len(held[t])
      BY <2>1, <2>2
    <3>2. <<t, 1>> \in Held
      BY <3>1 DEF Held, Slots
    <3> QED
      BY <1>3, <3>2
  <2>3. Len(held[t]) = 0
    BY <2>1, <2>2
  <2> QED
    BY <2>1, <2>3, EmptySeq
<1>4. ASSUME \A t \in Threads : held[t] = <<>> PROVE Held = {}
  <2>1. ASSUME NEW s \in Held PROVE FALSE
    <3>1. s[1] \in Threads /\ s[2] \in 1..MaxDepth /\ s[2] <= Len(held[s[1]])
      BY DEF Held, Slots
    <3>2. Len(held[s[1]]) = 0
      BY <1>4, <3>1
    <3> QED
      BY <3>1, <3>2
  <2> QED
    BY <2>1
<1> QED
  BY <1>1, <1>2, <1>3, <1>4

\* The same of the state after a step.
NobodyHolds == inflight = 0 <=> \A t \in Threads : held[t] = <<>>

LEMMA NoneHeldNext ==
  TypeOK' /\ Counted' /\ DepthFits' => NobodyHolds'
<1>1. TypeOK /\ Counted /\ DepthFits => NobodyHolds
  BY NoneHeld DEF NobodyHolds
<1> QED
  BY <1>1, PTL

\* A lease is counted once it is held.
LEMMA LeaseCounts ==
  ASSUME TypeOK, DepthFits, NEW t \in Threads, NEW mode \in Modes, Len(held[t]) < MaxDepth,
         held' = [held EXCEPT ![t] = Append(@, mode)]
  PROVE  Cardinality(Held') = Cardinality(Held) + 1
<1>1. /\ held \in [Threads -> Seq(Modes)] /\ Len(held[t]) \in Nat /\ MaxDepth \in Nat
  BY ConstantsOK, LenProperties DEF TypeOK, ConstantsOK
<1>2. /\ held'[t] = Append(held[t], mode) /\ Len(held'[t]) = Len(held[t]) + 1
      /\ \A u \in Threads \ {t} : held'[u] = held[u]
  BY <1>1, AppendProperties
<1>3. PICK n \in 1..MaxDepth : n = Len(held[t]) + 1
  BY <1>1
<1>4. <<t, n>> \in Slots /\ <<t, n>> \notin Held
  BY <1>1, <1>3 DEF Slots, Held
<1>5. Held' = Held \cup {<<t, n>>}
  <2>1. ASSUME NEW u \in Threads, NEW k \in 1..MaxDepth
        PROVE  k <= Len(held'[u]) <=> k <= Len(held[u]) \/ <<u, k>> = <<t, n>>
    <3>1. CASE u = t
      <4>1. k <= Len(held[t]) + 1 <=> k <= Len(held[t]) \/ k = n
        BY <1>1, <1>3
      <4> QED
        BY <1>2, <3>1, <4>1
    <3>2. CASE u # t
      BY <1>2, <3>2
    <3> QED
      BY <3>1, <3>2
  <2> QED
    BY <1>4, <2>1 DEF Held, Slots
<1> QED
  BY <1>4, <1>5, SlotsFinite, FS_AddElement

\* And no longer when it has ended.
LEMMA ReleaseCounts ==
  ASSUME TypeOK, DepthFits, NEW t \in Threads, held[t] # <<>>,
         held' = [held EXCEPT ![t] = SubSeq(@, 1, Len(@) - 1)]
  PROVE  /\ Cardinality(Held') = Cardinality(Held) - 1
         /\ held' \in [Threads -> Seq(Modes)]
         /\ Len(held'[t]) = Len(held[t]) - 1
         /\ \A u \in Threads \ {t} : held'[u] = held[u]
         /\ \A k \in 1..(Len(held[t]) - 1) : held'[t][k] = held[t][k]
<1>1. /\ held \in [Threads -> Seq(Modes)] /\ Len(held[t]) \in Nat \ {0} /\ MaxDepth \in Nat
      /\ Len(held[t]) <= MaxDepth
  BY ConstantsOK, LenProperties, EmptySeq DEF TypeOK, ConstantsOK, DepthFits
<1>2. PICK s \in Seq(Modes) : s = held[t]
  BY <1>1
<1>3. /\ SubSeq(s, 1, Len(s) - 1) \in Seq(Modes)
      /\ Len(SubSeq(s, 1, Len(s) - 1)) = Len(s) - 1
      /\ \A k \in 1..(Len(s) - 1) : SubSeq(s, 1, Len(s) - 1)[k] = s[k]
  <2>1. PICK m \in Nat : m = Len(s) - 1
    BY <1>1, <1>2
  <2>2. 1 \in 1..(Len(s) + 1) /\ m \in (1 - 1)..Len(s)
    BY <1>1, <1>2, <2>1
  <2>3. SubSeq(s, 1, m) \in Seq(Modes)
    BY <2>2, SubSeqProperties
  <2>4. Len(SubSeq(s, 1, m)) = m
    BY <2>1, <2>2, SubSeqProperties
  <2>5. \A k \in 1..m : SubSeq(s, 1, m)[k] = s[k]
    BY <2>1, <2>2, SubSeqProperties
  <2> QED
    BY <2>1, <2>3, <2>4, <2>5
<1>4. held'[t] = SubSeq(s, 1, Len(s) - 1) /\ \A u \in Threads \ {t} : held'[u] = held[u]
  BY <1>1, <1>2
<1>5. held' \in [Threads -> Seq(Modes)]
  BY <1>1, <1>2, <1>3
<1>6. PICK n \in 1..MaxDepth : n = Len(held[t])
  BY <1>1
<1>7. <<t, n>> \in Held
  BY <1>6 DEF Slots, Held
<1>8. Held' = Held \ {<<t, n>>}
  <2>1. ASSUME NEW u \in Threads, NEW k \in 1..MaxDepth
        PROVE  k <= Len(held'[u]) <=> k <= Len(held[u]) /\ <<u, k>> # <<t, n>>
    <3>1. CASE u = t
      <4>1. k <= Len(held[t]) - 1 <=> k <= Len(held[t]) /\ k # n
        BY <1>1, <1>6
      <4> QED
        BY <1>2, <1>3, <1>4, <3>1, <4>1
    <3>2. CASE u # t
      BY <1>4, <3>2
    <3> QED
      BY <3>1, <3>2
  <2> QED
    BY <2>1 DEF Held, Slots
<1>9. Cardinality(Held') = Cardinality(Held) - 1
  BY <1>7, <1>8, SlotsFinite, FS_RemoveElement
<1> QED
  BY <1>2, <1>3, <1>4, <1>5, <1>9
-----------------------------------------------------------------------------
(* What three kinds of steps preserve *)

\* A step that gives and ends no lease, closes or opens no handle in use and puts to
\* sleep only who has no lease himself while another has one.
LEMMA QuietStep ==
  ASSUME SafetyInv, TypeOK', OpenerFits', active' = Cardinality(inRequest'),
         UNCHANGED <<held, inflight>>, handle' = handle \/ inflight = 0,
         \A u \in Threads : want'[u] \in Modes => want[u] \in Modes \/ Len(held[u]) < MaxDepth,
         \A u \in Threads : want'[u] = "close" => held[u] = <<>>,
         \A u \in Threads : waits'[u] => /\ waits[u] \/ inflight > 0
                                         /\ held[u] = <<>> /\ want'[u] # "none"
  PROVE  SafetyInv'
<1> USE DEF SafetyInv
<1>1. Counted'
  BY DEF Counted, Held, Slots
<1>2. DepthFits'
  BY DEF DepthFits
<1>3. WaitersFit'
  BY DEF WaitersFit
<1>4. LeasesFitHandle'
  <2>1. CASE handle' = handle
    BY <2>1 DEF LeasesFitHandle, Leases
  <2>2. CASE inflight = 0
    <3>1. \A t \in Threads : Len(held'[t]) = 0
      BY <2>2, NoneHeld
    <3>2. \A t \in Threads, n \in 1..MaxDepth : ~ (n <= Len(held'[t]))
      BY <3>1
    <3> QED
      BY <3>2 DEF LeasesFitHandle, Leases
  <2> QED
    BY <2>1, <2>2
<1>5. NoLostWakeup'
  <2> SUFFICES ASSUME NEW t \in Threads, waits'[t]
               PROVE  \E u \in Threads \ {t} : held[u] # <<>>
    BY DEF NoLostWakeup
  <2>1. held[t] = <<>> /\ (waits[t] \/ inflight > 0)
    OBVIOUS
  <2>2. CASE waits[t]
    BY <2>2 DEF NoLostWakeup
  <2>3. CASE inflight > 0
    <3>1. \E u \in Threads : held[u] # <<>>
      BY <2>3, NoneHeld
    <3> QED
      BY <2>1, <3>1
  <2> QED
    BY <2>1, <2>2, <2>3
<1> QED
  BY <1>1, <1>2, <1>3, <1>4, <1>5

\* A thread gets a lease of a handle that serves it, the open one or, when no lease
\* is left, the one just opened.
LEMMA LeaseStep ==
  ASSUME SafetyInv, NEW t \in Threads, NEW mode \in Modes, Len(held[t]) < MaxDepth,
         Lease(t, mode), handle' \in Modes, handle' = handle \/ inflight = 0,
         handle' = "read_write" \/ mode = "read_only",
         opener' = Nobody, UNCHANGED <<active, inRequest>>,
         closeWhenDrained' \in BOOLEAN, schemaReady' \in BOOLEAN, foreign' \in Modes \cup {"none"},
         leases' \in 0..MaxLeases, requests' \in 0..MaxRequests, toggles' \in 0..MaxForeign
  PROVE  SafetyInv'
<1> USE DEF SafetyInv
<1>1. /\ held' = [held EXCEPT ![t] = Append(@, mode)] /\ inflight' = inflight + 1
      /\ want' = [want EXCEPT ![t] = "none"] /\ waits' = [waits EXCEPT ![t] = FALSE]
  BY DEF Lease
<1>2. /\ held[t] \in Seq(Modes) /\ Len(held[t]) \in Nat /\ held \in [Threads -> Seq(Modes)]
      /\ inflight \in Nat /\ MaxDepth \in Nat
  BY ConstantsOK, LenProperties DEF TypeOK, ConstantsOK
<1>3. /\ held'[t] = Append(held[t], mode) /\ held'[t] \in Seq(Modes)
      /\ Len(held'[t]) = Len(held[t]) + 1 /\ held'[t][Len(held[t]) + 1] = mode
      /\ \A k \in 1..Len(held[t]) : held'[t][k] = held[t][k]
      /\ \A u \in Threads \ {t} : held'[u] = held[u]
  BY <1>1, <1>2, AppendProperties
<1>4. TypeOK'
  <2>1. held' \in [Threads -> Seq(Modes)]
    BY <1>1, <1>2, <1>3
  <2>2. inflight' \in Nat
    BY <1>1, <1>2
  <2>3. want' \in [Threads -> Modes \cup {"none", "close"}] /\ waits' \in [Threads -> BOOLEAN]
    BY <1>1 DEF TypeOK
  <2> QED
    BY <2>1, <2>2, <2>3 DEF TypeOK
<1>5. Counted'
  <2>1. Cardinality(Held') = Cardinality(Held) + 1
    BY <1>1, LeaseCounts
  <2> QED
    BY <1>1, <2>1 DEF Counted
<1>6. DepthFits'
  <2> SUFFICES ASSUME NEW u \in Threads
               PROVE  Len(held'[u]) <= MaxDepth /\ (want'[u] \in Modes => Len(held'[u]) < MaxDepth)
    BY DEF DepthFits
  <2>1. CASE u = t
    BY <1>1, <1>2, <1>3, <2>1 DEF TypeOK, Modes
  <2>2. CASE u # t
    BY <1>1, <1>3, <2>2 DEF TypeOK, DepthFits
  <2> QED
    BY <2>1, <2>2
<1>7. WaitersFit'
  BY <1>1, <1>3 DEF WaitersFit, TypeOK
<1>8. OpenerFits'
  BY DEF OpenerFits
<1>9. LeasesFitHandle'
  <2> SUFFICES ASSUME NEW u \in Threads, NEW n \in 1..MaxDepth, n <= Len(held'[u])
               PROVE  handle' = "read_write" \/ (handle' = "read_only" /\ held'[u][n] = "read_only")
    BY DEF LeasesFitHandle, Leases
  <2>1. CASE u = t /\ n = Len(held[t]) + 1
    BY <1>3, <2>1 DEF Modes
  <2>2. CASE n <= Len(held[u])
    <3>1. held'[u][n] = held[u][n]
      <4>1. CASE u = t
        BY <1>2, <1>3, <2>2, <4>1
      <4>2. CASE u # t
        BY <1>3, <4>2
      <4> QED
        BY <4>1, <4>2
    <3>2. inflight # 0
      <4>1. held[u] \in Seq(Modes) /\ Len(held[u]) # 0
        BY <1>2, <2>2
      <4>2. held[u] # <<>>
        BY <4>1
      <4> QED
        BY <4>2, NoneHeld
    <3> QED
      BY <2>2, <3>1, <3>2 DEF LeasesFitHandle, Leases
  <2> QED
    BY <1>2, <1>3, <2>1, <2>2
<1>10. NoLostWakeup'
  <2> SUFFICES ASSUME NEW u \in Threads, waits'[u]
               PROVE  \E v \in Threads \ {u} : held'[v] # <<>>
    BY DEF NoLostWakeup
  <2>1. u # t
    BY <1>1 DEF TypeOK
  <2>2. Len(held'[t]) # 0
    BY <1>2, <1>3
  <2>3. held'[t] # <<>>
    BY <2>2
  <2> QED
    BY <2>1, <2>3
<1> QED
  BY <1>4, <1>5, <1>6, <1>7, <1>8, <1>9, <1>10

\* The end of a lease wakes whoever sleeps.
LEMMA ReleaseStep ==
  ASSUME SafetyInv, NEW t \in Threads, Release(t)
  PROVE  SafetyInv'
<1> USE DEF SafetyInv
<1>1. /\ held' = [held EXCEPT ![t] = SubSeq(@, 1, Len(@) - 1)] /\ held[t] # <<>>
      /\ inflight' = inflight - 1 /\ waits' = [u \in Threads |-> FALSE]
      /\ opener = Nobody /\ want[t] = "none"
      /\ UNCHANGED <<active, schemaReady, opener, want, inRequest, foreign, bounds>>
      /\ handle' = handle \/ (inflight' = 0 /\ handle' = "none")
      /\ closeWhenDrained' \in BOOLEAN
  BY DEF SafetyInv, Release, WakeAll, Unlocked, TypeOK
<1>2. /\ Cardinality(Held') = Cardinality(Held) - 1
      /\ held' \in [Threads -> Seq(Modes)]
      /\ Len(held'[t]) = Len(held[t]) - 1
      /\ \A u \in Threads \ {t} : held'[u] = held[u]
      /\ \A k \in 1..(Len(held[t]) - 1) : held'[t][k] = held[t][k]
  BY <1>1, ReleaseCounts
<1>3. inflight \in Nat /\ inflight # 0 /\ Len(held[t]) \in Nat /\ MaxDepth \in Nat
  BY <1>1, NoneHeld, ConstantsOK, LenProperties DEF TypeOK, ConstantsOK
<1>4. TypeOK'
  BY <1>1, <1>2, <1>3 DEF TypeOK, bounds
<1>5. Counted'
  BY <1>1, <1>2 DEF Counted
<1>6. DepthFits'
  <2> SUFFICES ASSUME NEW u \in Threads
               PROVE  Len(held'[u]) <= MaxDepth /\ (want'[u] \in Modes => Len(held'[u]) < MaxDepth)
    BY DEF DepthFits
  <2>1. CASE u = t
    BY <1>1, <1>2, <1>3, <2>1 DEF DepthFits, Modes
  <2>2. CASE u # t
    BY <1>1, <1>2, <2>2 DEF DepthFits
  <2> QED
    BY <2>1, <2>2
<1>7. WaitersFit' /\ OpenerFits' /\ NoLostWakeup'
  BY <1>1, <1>2 DEF WaitersFit, OpenerFits, NoLostWakeup
<1>8. LeasesFitHandle'
  <2>1. CASE inflight' = 0
    <3>1. \A u \in Threads : held'[u] = <<>>
      BY <1>4, <1>5, <1>6, <2>1, NoneHeldNext DEF NobodyHolds
    <3>2. \A u \in Threads : Len(held'[u]) = 0
      BY <3>1
    <3>3. \A u \in Threads, n \in 1..MaxDepth : ~ (n <= Len(held'[u]))
      BY <3>2
    <3> QED
      BY <3>3 DEF LeasesFitHandle, Leases
  <2>2. CASE handle' = handle
    <3> SUFFICES ASSUME NEW u \in Threads, NEW n \in 1..MaxDepth, n <= Len(held'[u])
                 PROVE  n <= Len(held[u]) /\ held'[u][n] = held[u][n]
      BY <2>2 DEF LeasesFitHandle, Leases
    <3>1. CASE u = t
      BY <1>2, <1>3, <3>1
    <3>2. CASE u # t
      BY <1>2, <3>2
    <3> QED
      BY <3>1, <3>2
  <2> QED
    BY <1>1, <2>1, <2>2
<1> QED
  BY <1>4, <1>5, <1>6, <1>7, <1>8
-----------------------------------------------------------------------------
(* Every step preserves the invariant *)

LEMMA RequestSteps ==
  ASSUME SafetyInv, NEW t \in Threads, BeginRequest(t) \/ EndRequest(t)
  PROVE  SafetyInv' /\ held' = held /\ (handle' = handle \/ inflight = 0)
<1> USE DEF SafetyInv
<1>1. IsFiniteSet(inRequest) /\ inflight \in Nat /\ active \in Nat
  BY ConstantsOK, FS_Subset DEF ConstantsOK, TypeOK
<1>2. CASE BeginRequest(t)
  <2>1. active' = Cardinality(inRequest')
    BY <1>1, <1>2, FS_AddElement DEF BeginRequest, Counted
  <2>2. TypeOK' /\ OpenerFits'
    BY <1>1, <1>2, ConstantsOK DEF BeginRequest, TypeOK, OpenerFits, ConstantsOK
  <2> QED
    BY <1>2, <2>1, <2>2, QuietStep DEF BeginRequest, WaitersFit
<1>3. CASE EndRequest(t)
  <2>1. active' = Cardinality(inRequest') /\ active' \in Nat
    BY <1>1, <1>3, FS_RemoveElement, FS_CardinalityType, FS_Subset DEF EndRequest, Counted
  <2>2. handle' = handle \/ (inflight = 0 /\ handle' = "none")
    BY <1>3 DEF EndRequest, AfterRequest
  <2>3. TypeOK' /\ OpenerFits'
    BY <1>1, <1>3, <2>1, <2>2 DEF EndRequest, AfterRequest, TypeOK, OpenerFits, bounds
  <2> QED
    BY <1>3, <2>1, <2>2, <2>3, QuietStep DEF EndRequest, WaitersFit
<1> QED
  BY <1>2, <1>3

\* One round of the loop, of a thread that has room for the lease it asks for.
LEMMA TryLeaseStep ==
  ASSUME SafetyInv, NEW t \in Threads, NEW mode \in Modes, TryLease(t, mode),
         opener = Nobody, Len(held[t]) < MaxDepth,
         UNCHANGED <<active, closeWhenDrained, schemaReady, inRequest, foreign, toggles, requests>>,
         leases' \in 0..MaxLeases
  PROVE  SafetyInv' /\ (handle' = handle \/ inflight = 0)
<1> USE DEF SafetyInv
<1>1. t # Nobody /\ inflight \in Nat /\ mode # "none"
  BY ConstantsOK DEF ConstantsOK, TypeOK, Modes
<1>2. CASE Serves(mode) /\ Lease(t, mode) /\ UNCHANGED <<handle, opener>>
  <2>1. handle' \in Modes /\ (handle' = "read_write" \/ mode = "read_only")
    BY <1>2 DEF Serves, Modes
  <2> QED
    BY <1>2, <2>1, LeaseStep DEF TypeOK
<1>3. CASE /\ inflight = 0 /\ handle' = "none" /\ opener' = t
           /\ want' = [want EXCEPT ![t] = mode] /\ waits' = [waits EXCEPT ![t] = FALSE]
           /\ UNCHANGED <<inflight, held>>
  <2>1. TypeOK' /\ OpenerFits'
    BY <1>1, <1>3 DEF TypeOK, OpenerFits
  <2>2. \A u \in Threads : /\ want'[u] \in Modes => want[u] \in Modes \/ Len(held[u]) < MaxDepth
                           /\ want'[u] = "close" => held[u] = <<>>
    BY <1>3 DEF TypeOK, Modes, WaitersFit
  <2>3. \A u \in Threads : waits'[u] => waits[u] /\ held[u] = <<>> /\ want'[u] # "none"
    BY <1>1, <1>3 DEF TypeOK, WaitersFit
  <2> QED
    BY <1>3, <2>1, <2>2, <2>3, QuietStep DEF Counted
<1>4. CASE UNCHANGED <<handle, opener, inflight, held, want, waits>>
  <2>1. TypeOK' /\ OpenerFits'
    BY <1>4 DEF TypeOK, OpenerFits
  <2> QED
    BY <1>4, <2>1, QuietStep DEF Counted, WaitersFit
<1>5. CASE /\ inflight > 0 /\ ~Nested(t)
           /\ want' = [want EXCEPT ![t] = mode] /\ waits' = [waits EXCEPT ![t] = TRUE]
           /\ UNCHANGED <<handle, opener, inflight, held>>
  <2>1. TypeOK' /\ OpenerFits'
    BY <1>5 DEF TypeOK, OpenerFits
  <2>2. \A u \in Threads : /\ want'[u] \in Modes => want[u] \in Modes \/ Len(held[u]) < MaxDepth
                           /\ want'[u] = "close" => held[u] = <<>>
    BY <1>5 DEF TypeOK, Modes, WaitersFit
  <2>3. \A u \in Threads : waits'[u] => /\ waits[u] \/ inflight > 0
                                        /\ held[u] = <<>> /\ want'[u] # "none"
    BY <1>1, <1>5 DEF TypeOK, WaitersFit, Nested
  <2> QED
    BY <1>5, <2>1, <2>2, <2>3, QuietStep DEF Counted
<1> QED
  BY <1>2, <1>3, <1>4, <1>5 DEF TryLease

LEMMA LoopSteps ==
  ASSUME SafetyInv, NEW t \in Threads, Acquire(t) \/ Retry(t)
  PROVE  SafetyInv' /\ (handle' = handle \/ inflight = 0)
<1>1. TypeOK /\ DepthFits
  BY DEF SafetyInv
<1>2. CASE Acquire(t)
  <2>1. PICK mode \in Modes : TryLease(t, mode)
    BY <1>2 DEF Acquire
  <2>2. leases' \in 0..MaxLeases
    BY <1>1, <1>2, ConstantsOK DEF Acquire, TypeOK, ConstantsOK
  <2> QED
    BY <1>2, <2>1, <2>2, TryLeaseStep DEF Acquire, Unlocked
<1>3. CASE Retry(t)
  <2>1. want[t] \in Modes /\ Len(held[t]) < MaxDepth
    BY <1>1, <1>3 DEF Retry, DepthFits
  <2> QED
    BY <1>1, <1>3, <2>1, TryLeaseStep DEF Retry, Unlocked, bounds, TypeOK
<1> QED
  BY <1>2, <1>3

LEMMA OpeningSteps ==
  ASSUME SafetyInv, NEW t \in Threads, BootstrapSchema(t) \/ Open(t) \/ OpenFails(t)
  PROVE  SafetyInv' /\ (handle' = handle \/ inflight = 0)
<1> USE DEF SafetyInv
<1>1. /\ opener = t /\ t # Nobody /\ handle = "none" /\ inflight = 0
      /\ want[t] \in Modes /\ Len(held[t]) < MaxDepth
  BY ConstantsOK DEF ConstantsOK, BootstrapSchema, Open, OpenFails, OpenerFits, DepthFits
<1>2. CASE BootstrapSchema(t)
  <2>1. TypeOK' /\ OpenerFits'
    BY <1>2 DEF BootstrapSchema, TypeOK, OpenerFits, threads, bounds
  <2> QED
    BY <1>2, <2>1, QuietStep DEF BootstrapSchema, Counted, WaitersFit, threads
<1>3. CASE Open(t)
  <2>1. handle' = "read_write" \/ want[t] = "read_only"
    BY <1>1, <1>3 DEF Open, Modes
  <2> QED
    BY <1>1, <1>3, <2>1, LeaseStep DEF Open, TypeOK, bounds
<1>4. CASE OpenFails(t)
  <2>1. TypeOK' /\ OpenerFits'
    BY <1>4 DEF OpenFails, TypeOK, OpenerFits, bounds
  <2>2. \A u \in Threads : /\ want'[u] \in Modes => want[u] \in Modes
                           /\ want'[u] = "close" => held[u] = <<>>
    BY <1>4 DEF OpenFails, TypeOK, Modes, WaitersFit
  <2>3. \A u \in Threads : waits'[u] => u # t
    <3>1. \A u \in Threads : held[u] = <<>>
      BY <1>1, NoneHeld
    <3> QED
      BY <1>4, <3>1 DEF OpenFails, NoLostWakeup
  <2>4. \A u \in Threads : waits'[u] => waits[u] /\ held[u] = <<>> /\ want'[u] # "none"
    BY <1>4, <2>3 DEF OpenFails, TypeOK, WaitersFit
  <2> QED
    BY <1>4, <2>1, <2>2, <2>4, QuietStep DEF OpenFails, Counted
<1> QED
  BY <1>2, <1>3, <1>4

LEMMA ClosingSteps ==
  ASSUME SafetyInv, (\E t \in Threads : Close(t) \/ RetryClose(t)) \/ Reap
  PROVE  SafetyInv' /\ held' = held /\ (handle' = handle \/ inflight = 0)
<1> USE DEF SafetyInv
<1>1. inflight \in Nat /\ opener = Nobody
  BY DEF TypeOK, Close, RetryClose, Reap, Unlocked
<1>2. ASSUME NEW t \in Threads, Close(t)
      PROVE  SafetyInv' /\ held' = held /\ (handle' = handle \/ inflight = 0)
  <2>1. CASE inflight = 0
    <3>1. handle' = "none" /\ UNCHANGED <<want, waits>>
      BY <1>2, <2>1 DEF Close
    <3>2. TypeOK' /\ OpenerFits'
      BY <1>1, <1>2, <3>1, ConstantsOK DEF Close, TypeOK, OpenerFits, ConstantsOK
    <3> QED
      BY <1>2, <2>1, <3>1, <3>2, QuietStep DEF Close, Counted, WaitersFit
  <2>2. CASE inflight > 0
    <3>1. /\ want' = [want EXCEPT ![t] = "close"] /\ waits' = [waits EXCEPT ![t] = TRUE]
          /\ handle' = handle
      BY <1>2, <2>2 DEF Close
    <3>2. TypeOK' /\ OpenerFits'
      BY <1>1, <1>2, <3>1, ConstantsOK DEF Close, TypeOK, OpenerFits, ConstantsOK
    <3>3. \A u \in Threads : /\ want'[u] \in Modes => want[u] \in Modes
                             /\ want'[u] = "close" => held[u] = <<>>
      BY <1>2, <3>1 DEF Close, TypeOK, Modes, WaitersFit
    <3>4. \A u \in Threads : waits'[u] => held[u] = <<>> /\ want'[u] # "none"
      BY <1>2, <3>1 DEF Close, TypeOK, WaitersFit
    <3> QED
      BY <1>2, <2>2, <3>1, <3>2, <3>3, <3>4, QuietStep DEF Close, Counted
  <2> QED
    BY <1>1, <2>1, <2>2
<1>3. ASSUME NEW t \in Threads, RetryClose(t)
      PROVE  SafetyInv' /\ held' = held /\ (handle' = handle \/ inflight = 0)
  <2>1. TypeOK' /\ OpenerFits'
    BY <1>1, <1>3 DEF RetryClose, TypeOK, OpenerFits, Unlocked, bounds
  <2>2. \A u \in Threads : /\ want'[u] \in Modes => want[u] \in Modes
                           /\ want'[u] = "close" => held[u] = <<>>
    BY <1>3 DEF RetryClose, TypeOK, Modes, WaitersFit
  <2>3. CASE inflight = 0
    <3>1. \A u \in Threads : held[u] = <<>>
      BY <2>3, NoneHeld
    <3>2. \A u \in Threads : ~waits[u]
      BY <3>1 DEF NoLostWakeup
    <3> QED
      BY <1>3, <2>1, <2>2, <2>3, <3>2, QuietStep DEF RetryClose, Counted
  <2>4. CASE inflight > 0
    <3>1. held[t] = <<>>
      BY <1>3 DEF RetryClose, WaitersFit
    <3>2. \A u \in Threads : waits'[u] => held[u] = <<>> /\ want'[u] # "none"
      BY <1>1, <1>3, <2>4, <3>1 DEF RetryClose, TypeOK, WaitersFit
    <3> QED
      BY <1>1, <1>3, <2>1, <2>2, <2>4, <3>2, QuietStep DEF RetryClose, Counted
  <2> QED
    BY <1>1, <2>3, <2>4
<1>4. CASE Reap
  <2>1. TypeOK' /\ OpenerFits'
    BY <1>4 DEF Reap, TypeOK, OpenerFits, Unlocked, threads, bounds
  <2> QED
    BY <1>4, <2>1, QuietStep DEF Reap, Unused, Counted, WaitersFit, threads
<1> QED
  BY <1>2, <1>3, <1>4

LEMMA ForeignSteps ==
  ASSUME SafetyInv, ForeignLock \/ ForeignUnlock
  PROVE  SafetyInv' /\ UNCHANGED <<held, handle>>
<1> USE DEF SafetyInv
<1>1. TypeOK' /\ OpenerFits'
  BY ConstantsOK DEF ConstantsOK, ForeignLock, ForeignUnlock, TypeOK, OpenerFits, manager, threads,
     bounds
<1> QED
  BY <1>1, QuietStep DEF ForeignLock, ForeignUnlock, Counted, WaitersFit, manager, threads, bounds

LEMMA InitSafe == Init => SafetyInv
<1> SUFFICES ASSUME Init PROVE SafetyInv
  OBVIOUS
<1>1. \A t \in Threads : held[t] = <<>> /\ want[t] = "none" /\ waits[t] = FALSE
  BY DEF Init
<1>2. TypeOK
  <2>1. held \in [Threads -> Seq(Modes)]
    BY EmptySeq DEF Init
  <2>2. /\ want \in [Threads -> Modes \cup {"none", "close"}] /\ waits \in [Threads -> BOOLEAN]
        /\ inRequest \subseteq Threads
    BY DEF Init
  <2>3. leases \in 0..MaxLeases /\ requests \in 0..MaxRequests /\ toggles \in 0..MaxForeign
    BY ConstantsOK DEF Init, ConstantsOK
  <2>4. /\ handle \in Modes \cup {"none"} /\ foreign \in Modes \cup {"none"}
        /\ inflight \in Nat /\ active \in Nat /\ opener \in Threads \cup {Nobody}
        /\ closeWhenDrained \in BOOLEAN /\ schemaReady \in BOOLEAN
    BY DEF Init
  <2> QED
    BY <2>1, <2>2, <2>3, <2>4 DEF TypeOK
<1>3. \A t \in Threads, n \in 1..MaxDepth : ~ (n <= Len(held[t]))
  <2>1. \A t \in Threads : Len(held[t]) = 0
    BY <1>1
  <2> QED
    BY <2>1
<1>4. Counted
  <2>1. Held = {}
    BY <1>3 DEF Held, Slots
  <2> QED
    BY <2>1, FS_EmptySet DEF Counted, Init
<1>5. DepthFits /\ OpenerFits /\ WaitersFit
  BY <1>1, ConstantsOK DEF DepthFits, OpenerFits, WaitersFit, ConstantsOK, Init, Modes
<1>6. LeasesFitHandle /\ NoLostWakeup
  BY <1>1, <1>3 DEF LeasesFitHandle, Leases, NoLostWakeup
<1> QED
  BY <1>2, <1>4, <1>5, <1>6 DEF SafetyInv

\* What HandleStaysUnderLease says of one step
HandleStays ==
  (\E t \in Threads : held[t] # <<>> /\ held'[t] # <<>>) => handle' = handle

LEMMA NextSafe ==
  ASSUME SafetyInv, [Next]_vars
  PROVE  SafetyInv' /\ HandleStays
<1>1. inflight = 0 => \A t \in Threads : held[t] = <<>>
  BY NoneHeld DEF SafetyInv
<1>2. ASSUME NEW t \in Threads, BeginRequest(t) \/ EndRequest(t) PROVE SafetyInv' /\ HandleStays
  BY <1>1, <1>2, RequestSteps DEF HandleStays
<1>3. ASSUME NEW t \in Threads, Acquire(t) \/ Retry(t) PROVE SafetyInv' /\ HandleStays
  BY <1>1, <1>3, LoopSteps DEF HandleStays
<1>4. ASSUME NEW t \in Threads, BootstrapSchema(t) \/ Open(t) \/ OpenFails(t)
      PROVE  SafetyInv' /\ HandleStays
  BY <1>1, <1>4, OpeningSteps DEF HandleStays
<1>5. ASSUME NEW t \in Threads, Release(t) PROVE SafetyInv' /\ HandleStays
  <2>1. SafetyInv'
    BY <1>5, ReleaseStep
  <2>2. handle' = handle \/ inflight' = 0
    BY <1>5 DEF Release
  <2>3. inflight' = 0 => \A u \in Threads : held'[u] = <<>>
    BY <2>1, NoneHeldNext DEF SafetyInv, NobodyHolds
  <2> QED
    BY <2>1, <2>2, <2>3 DEF HandleStays
<1>6. ASSUME NEW t \in Threads, Close(t) \/ RetryClose(t) PROVE SafetyInv' /\ HandleStays
  BY <1>1, <1>6, ClosingSteps DEF HandleStays
<1>7. CASE Reap
  BY <1>1, <1>7, ClosingSteps DEF HandleStays
<1>8. CASE ForeignLock \/ ForeignUnlock
  BY <1>8, ForeignSteps DEF HandleStays
<1>9. CASE UNCHANGED vars
  BY <1>9 DEF SafetyInv, TypeOK, Counted, Held, Slots, DepthFits, OpenerFits, WaitersFit,
     LeasesFitHandle, Leases, NoLostWakeup, HandleStays, vars, manager, threads, bounds
<1> QED
  BY <1>2, <1>3, <1>4, <1>5, <1>6, <1>7, <1>8, <1>9 DEF Next, Step

\* The manager's counters agree with the leases and requests there are, and the handle
\* with the leases.
THEOREM Safety == Spec => []SafetyInv
<1>1. SafetyInv /\ [Next]_vars => SafetyInv'
  BY NextSafe
<1> QED
  BY <1>1, InitSafe, PTL DEF Spec

\* Every variable keeps its type: no counter goes below zero.
THEOREM TypeCorrect == Spec => []TypeOK
<1>1. SafetyInv => TypeOK
  BY DEF SafetyInv
<1> QED
  BY <1>1, Safety, PTL

\* A lease in flight has a handle open that serves its mode.
THEOREM LeasesFit == Spec => []LeasesFitHandle
<1>1. SafetyInv => LeasesFitHandle
  BY DEF SafetyInv
<1> QED
  BY <1>1, Safety, PTL

\* Whoever sleeps will be woken by the end of somebody else's lease.
THEOREM SleepersAreWoken == Spec => []NoLostWakeup
<1>1. SafetyInv => NoLostWakeup
  BY DEF SafetyInv
<1> QED
  BY <1>1, Safety, PTL

\* No step closes the handle or changes its mode while a lease goes on.
THEOREM HandleIsStable == Spec => HandleStaysUnderLease
<1>1. SafetyInv /\ [Next]_vars => [HandleStays]_vars
  BY NextSafe
<1>2. Spec => [][HandleStays]_vars
  BY <1>1, Safety, PTL DEF Spec
<1> QED
  BY <1>2 DEF HandleStaysUnderLease, HandleStays

\* Who holds a lease is after nothing: the refusal of a nested lease that would have
\* to wait keeps it so.
HoldersFree == \A t \in Threads : held[t] # <<>> => want[t] = "none"

LEMMA HoldersFreeStep == SafetyInv /\ HoldersFree /\ [Next]_vars => HoldersFree'
<1> SUFFICES ASSUME SafetyInv, HoldersFree, [Next]_vars PROVE HoldersFree'
  OBVIOUS
<1>0. /\ held \in [Threads -> Seq(Modes)] /\ want \in [Threads -> Modes \cup {"none", "close"}]
  BY DEF SafetyInv, TypeOK
<1>1. CASE UNCHANGED <<held, want>>
  BY <1>1 DEF HoldersFree
<1>2. ASSUME NEW t \in Threads, want'[t] = "none" \/ held'[t] = <<>>,
             \A u \in Threads \ {t} : held'[u] = held[u] /\ want'[u] = want[u]
      PROVE  HoldersFree'
  BY <1>2 DEF HoldersFree
<1>3. ASSUME NEW t \in Threads, NEW mode \in Modes, TryLease(t, mode)
      PROVE  HoldersFree'
  <2>1. CASE Lease(t, mode)
    <3>1. want'[t] = "none"
      BY <1>0, <2>1 DEF Lease
    <3>2. \A u \in Threads \ {t} : held'[u] = held[u] /\ want'[u] = want[u]
      BY <1>0, <2>1 DEF Lease
    <3> QED
      BY <1>2, <3>1, <3>2
  <2>2. CASE inflight = 0 /\ held' = held /\ want' = [want EXCEPT ![t] = mode]
    <3>1. held'[t] = <<>>
      BY <2>2, NoneHeld DEF SafetyInv
    <3> QED
      BY <1>0, <1>2, <2>2, <3>1
  <2>3. CASE UNCHANGED <<held, want>>
    BY <1>1, <2>3
  <2>4. CASE ~Nested(t) /\ held' = held /\ want' = [want EXCEPT ![t] = mode]
    BY <1>0, <1>2, <2>4 DEF Nested
  <2> QED
    BY <1>3, <2>1, <2>2, <2>3, <2>4 DEF TryLease
<1>4. ASSUME NEW t \in Threads, Acquire(t) \/ Retry(t)
      PROVE  HoldersFree'
  BY <1>3, <1>4 DEF Acquire, Retry
<1>5. ASSUME NEW t \in Threads, Open(t)
      PROVE  HoldersFree'
  <2>1. /\ held' = [held EXCEPT ![t] = Append(@, want[t])]
        /\ want' = [want EXCEPT ![t] = "none"]
    BY <1>5 DEF Open, Lease
  <2>2. want'[t] = "none"
    BY <1>0, <2>1
  <2>3. \A u \in Threads \ {t} : held'[u] = held[u] /\ want'[u] = want[u]
    BY <1>0, <2>1
  <2> QED
    BY <1>2, <2>2, <2>3
<1>6. ASSUME NEW t \in Threads, OpenFails(t) \/ Close(t) \/ RetryClose(t)
      PROVE  HoldersFree'
  <2>1. held' = held /\ \A u \in Threads \ {t} : want'[u] = want[u]
    BY <1>0, <1>6 DEF OpenFails, Close, RetryClose
  <2>2. want'[t] = "none" \/ held[t] = <<>>
    BY <1>0, <1>6 DEF OpenFails, Close, RetryClose, SafetyInv, WaitersFit
  <2> QED
    BY <1>2, <2>1, <2>2
<1>7. ASSUME NEW t \in Threads, Release(t)
      PROVE  HoldersFree'
  <2>1. want' = want /\ want[t] = "none" /\ \A u \in Threads \ {t} : held'[u] = held[u]
    BY <1>0, <1>7 DEF Release
  <2> QED
    BY <1>2, <2>1
<1>8. CASE \E t \in Threads : BeginRequest(t) \/ EndRequest(t) \/ BootstrapSchema(t)
  BY <1>1, <1>8 DEF BeginRequest, EndRequest, BootstrapSchema, threads
<1>9. CASE Reap \/ ForeignLock \/ ForeignUnlock \/ UNCHANGED vars
  BY <1>1, <1>9 DEF Reap, ForeignLock, ForeignUnlock, vars, threads
<1> QED
  BY <1>4, <1>5, <1>6, <1>7, <1>8, <1>9 DEF Next, Step

\* A thread in the middle of something meets the guard of a step of its own: it opens
\* the file and has it, is kept out, or creates the schema first; it goes round the
\* loop of lease() or close() again; or it ends a lease.
MayGo(t) ==
  \/ opener = t
  \/ Unlocked /\ want[t] # "none" /\ ~waits[t]
  \/ Unlocked /\ want[t] = "none" /\ held[t] # <<>>

NoDeadlock ==
  (\E t \in Threads : want[t] # "none" \/ held[t] # <<>>) => \E t \in Threads : MayGo(t)

\* As long as a thread sleeps, waits for the lock or holds a lease, some thread can go
\* on: the leases, the closing and the one opening of the file never wait for each
\* other, however deep leases nest.
THEOREM HandleNeverDeadlocks == Spec => []NoDeadlock
<1>1. Init => HoldersFree
  BY DEF Init, HoldersFree
<1>2. SafetyInv /\ HoldersFree => NoDeadlock
  <2> SUFFICES ASSUME SafetyInv, HoldersFree,
                      NEW t \in Threads, want[t] # "none" \/ held[t] # <<>>
               PROVE  \E u \in Threads : MayGo(u)
    BY DEF NoDeadlock
  <2>1. CASE opener # Nobody
    <3>1. opener \in Threads
      BY <2>1 DEF SafetyInv, TypeOK
    <3> QED
      BY <3>1 DEF MayGo
  <2>2. CASE opener = Nobody /\ ~waits[t]
    BY <2>2 DEF MayGo, Unlocked
  <2>3. CASE opener = Nobody /\ waits[t]
    <3>1. PICK u \in Threads : held[u] # <<>>
      BY <2>3 DEF SafetyInv, NoLostWakeup
    <3>2. want[u] = "none"
      BY <3>1 DEF HoldersFree
    <3> QED
      BY <2>3, <3>1, <3>2 DEF MayGo, Unlocked
  <2> QED
    BY <2>1, <2>2, <2>3
<1> QED
  BY <1>1, <1>2, HoldersFreeStep, Safety, PTL DEF Spec

-----------------------------------------------------------------------------
(* The Home Assistant bridge *)

\* Home Assistant's history and the bridge's loop have their types.
Typed ==
  /\ now \in Times /\ entered \in [Entities -> SUBSET Times]
  /\ pc \in {"connecting", "subscribed", "sleeping", "replaying"}
  /\ since \in Times \cup {Never}
  /\ inbox \in Seq(Facts) /\ posts \in Nat /\ backfills \in Nat

HistoryFits == \A e \in Entities : 0 \in entered[e] /\ \A c \in entered[e] : c <= now

\* A gap is open from the loss of a connection to its replay, and only a
\* subscription has anything under way.
LoopFits ==
  /\ pc \in {"sleeping", "replaying"} <=> since # Never
  /\ since <= now
  /\ pc # "subscribed" => inbox = <<>>

InOrder ==
  /\ \A i \in 1..Len(inbox) : inbox[i][2] <= now
  /\ \A i, j \in 1..Len(inbox) : i < j => inbox[i][2] < inbox[j][2]

\* As long as only the bridge writes, no entity is ahead of what is under way, nor
\* of the beginning of the gap, from where a replay starts.
RecencyFits ==
  posts = 0 /\ backfills = 0 =>
    /\ ~BackfillRunning
    /\ \A e \in Entities : dim[e] \in entered[e] \cup {Never}
    /\ since # Never => \A e \in Entities : dim[e] <= since
    /\ \A i \in 1..Len(inbox) : /\ dim[inbox[i][1]] <= inbox[i][2]
                                /\ inbox[i][2] \in entered[inbox[i][1]]

BridgeInv ==
  Typed /\ HistoryFits /\ LoopFits /\ InOrder /\ RecencyFits /\ EveryChangeAccounted

-----------------------------------------------------------------------------
(* The latest of some times *)

LEMMA LatestOfTimes ==
  ASSUME NEW S \in SUBSET Nat, NEW bound \in Nat, \A c \in S : c <= bound, S # {}
  PROVE  Max(S) \in S /\ \A c \in S : c <= Max(S)
<1> DEFINE Bounds == {b \in Nat : \A c \in S : c <= b}
<1>1. bound \in Bounds
  OBVIOUS
<1>2. PICK least \in Bounds : \A b \in Bounds : ~(b < least)
  <2>1. PICK b \in Bounds : \A a \in Bounds : <<a, b>> \notin OpToRel(<, Nat)
    BY <1>1, NatLessThanWellFounded, WFMin
  <2> QED
    BY <2>1 DEF OpToRel
<1>3. least \in S
  <2>1. SUFFICES ASSUME least \notin S PROVE FALSE
    OBVIOUS
  <2>2. PICK c \in S : TRUE
    OBVIOUS
  <2>3. c \in Nat /\ c < least
    BY <1>2, <2>1
  <2>4. \A x \in S : x <= least - 1
    BY <1>2, <2>1
  <2>5. least - 1 \in Bounds
    BY <2>3, <2>4
  <2> QED
    BY <1>2, <2>3, <2>5
<1>4. \A y \in S : least >= y
  BY <1>2
<1> QED
  BY <1>3, <1>4, Zenon DEF Max

LEMMA MaxOfOne ==
  ASSUME NEW t \in Int
  PROVE  Max({t}) = t
  BY DEF Max

\* Of times that all lie in another set and hold its latest, the latest is that.
LEMMA SameLatest ==
  ASSUME NEW S \in SUBSET Int, NEW t \in S, \A c \in S : c <= t
  PROVE  Max(S) = t
<1>1. \A y \in S : t >= y
  OBVIOUS
<1>2. \A x \in S : (\A y \in S : x >= y) => x = t
  OBVIOUS
<1> QED
  BY <1>1, <1>2, Zenon DEF Max

\* What the replay of a gap brings is, for every entity, its current state.
LEMMA ReplayIsCurrent ==
  ASSUME Typed, HistoryFits, since \in Times, since <= now, NEW e \in Entities
  PROVE  /\ Latest(e) \in entered[e] /\ \A c \in entered[e] : c <= Latest(e)
         /\ e \in EntitiesOf(GapRows) /\ NewestOf(GapRows, e) = Latest(e)
<1>1. /\ entered[e] \in SUBSET Nat /\ now \in Nat /\ entered[e] # {} /\ since \in Nat
      /\ \A c \in entered[e] : c <= now
  BY DEF Typed, HistoryFits, Times
<1>2. Latest(e) \in entered[e] /\ \A c \in entered[e] : c <= Latest(e)
  BY <1>1, LatestOfTimes DEF Latest
<1> DEFINE Newest(rows) == {f[2] : f \in {r \in rows : r[1] = e}}
<1>3. CASE GapIsLong
  <2>1. GapRows = CurrentStates
    BY <1>3 DEF GapRows
  <2>2. <<e, Latest(e)>> \in CurrentStates
    BY DEF CurrentStates
  <2>3. Newest(CurrentStates) = {Latest(e)}
    <3>1. \A f \in CurrentStates : f[1] = e => f[2] = Latest(e)
      BY DEF CurrentStates
    <3>2. \A t \in Newest(CurrentStates) : t = Latest(e)
      BY <3>1
    <3>3. Latest(e) \in Newest(CurrentStates)
      BY <2>2
    <3> QED
      BY <3>2, <3>3
  <2>4. Max({Latest(e)}) = Latest(e)
    BY <1>1, <1>2, MaxOfOne
  <2> QED
    BY <1>2, <2>1, <2>2, <2>3, <2>4 DEF NewestOf, EntitiesOf
<1>4. CASE ~GapIsLong
  <2>1. GapRows = History(since, now)
    BY <1>4 DEF GapRows
  <2>2. AsOf(e, since) \in entered[e] /\ \A c \in entered[e] : c <= since => c <= AsOf(e, since)
    <3>1. PICK S : S = {c \in entered[e] : c <= since}
      OBVIOUS
    <3>2. S \in SUBSET Nat /\ S # {} /\ \A c \in S : c <= since
      BY <1>1, <3>1 DEF HistoryFits
    <3>3. Max(S) \in S /\ \A c \in S : c <= Max(S)
      BY <1>1, <3>2, LatestOfTimes
    <3>4. AsOf(e, since) = Max(S)
      BY <3>1 DEF AsOf
    <3> QED
      BY <3>1, <3>3, <3>4
  <2>3. <<e, AsOf(e, since)>> \in History(since, now)
    BY DEF History
  <2>4. \A f \in History(since, now) : f[1] = e => f[2] \in entered[e]
    BY <2>2 DEF History
  <2>5. <<e, Latest(e)>> \in History(since, now)
    <3>1. CASE Latest(e) <= since
      <4>1. AsOf(e, since) = Latest(e)
        BY <1>1, <1>2, <2>2, <3>1
      <4> QED
        BY <2>3, <4>1
    <3>2. CASE since < Latest(e)
      <4>1. <<e, Latest(e)>> \in Facts /\ Latest(e) <= now
        BY <1>1, <1>2 DEF Typed, Facts
      <4> QED
        BY <1>2, <3>2, <4>1 DEF History
    <3> QED
      BY <1>1, <1>2, <3>1, <3>2
  <2>6. /\ Newest(History(since, now)) \subseteq entered[e]
        /\ Latest(e) \in Newest(History(since, now))
    BY <2>4, <2>5
  <2>7. Max(Newest(History(since, now))) = Latest(e)
    <3>1. PICK S : S = Newest(History(since, now))
      OBVIOUS
    <3>2. S \in SUBSET Int /\ Latest(e) \in S /\ \A c \in S : c <= Latest(e)
      BY <1>1, <1>2, <2>6, <3>1
    <3> QED
      BY <3>1, <3>2, SameLatest
  <2> QED
    BY <1>2, <2>1, <2>3, <2>7 DEF NewestOf, EntitiesOf
<1> QED
  BY <1>3, <1>4

-----------------------------------------------------------------------------
(* What is under way *)

LEMMA InboxAppend ==
  ASSUME NEW s \in Seq(Facts), NEW f \in Facts
  PROVE  /\ Append(s, f) \in Seq(Facts) /\ Len(Append(s, f)) = Len(s) + 1 /\ Len(s) \in Nat
         /\ \A i \in 1..Len(s) : Append(s, f)[i] = s[i]
         /\ Append(s, f)[Len(s) + 1] = f
         /\ Range(Append(s, f)) = Range(s) \cup {f}
<1>1. /\ Append(s, f) \in Seq(Facts) /\ Len(Append(s, f)) = Len(s) + 1 /\ Len(s) \in Nat
      /\ \A i \in 1..Len(s) : Append(s, f)[i] = s[i]
      /\ Append(s, f)[Len(s) + 1] = f
  BY AppendProperties, LenProperties
<1>2. DOMAIN Append(s, f) = 1..(Len(s) + 1) /\ DOMAIN s = 1..Len(s)
  BY <1>1, LenProperties
<1>3. Range(Append(s, f)) = Range(s) \cup {f}
  <2>1. \A x : x \in Range(Append(s, f)) <=> \E i \in 1..(Len(s) + 1) : x = Append(s, f)[i]
    BY <1>2, Zenon DEF Range
  <2>2. \A x : x \in Range(s) <=> \E i \in 1..Len(s) : x = s[i]
    BY <1>2, Zenon DEF Range
  <2>3. \A i : i \in 1..(Len(s) + 1) <=> i \in 1..Len(s) \/ i = Len(s) + 1
    BY <1>1
  <2> QED
    BY <1>1, <2>1, <2>2, <2>3
<1> QED
  BY <1>1, <1>3

LEMMA InboxTail ==
  ASSUME NEW s \in Seq(Facts), s # <<>>
  PROVE  /\ Tail(s) \in Seq(Facts) /\ Len(s) \in Nat /\ Len(s) > 0 /\ Len(Tail(s)) = Len(s) - 1
         /\ \A i \in 1..Len(Tail(s)) : i + 1 \in 1..Len(s) /\ Tail(s)[i] = s[i+1]
         /\ Head(s) = s[1] /\ Head(s) \in Facts
         /\ Range(s) \subseteq {Head(s)} \cup Range(Tail(s))
<1>1. /\ Len(s) \in Nat /\ Len(s) > 0
      /\ Tail(s) \in Seq(Facts) /\ Len(Tail(s)) = Len(s) - 1 /\ Head(s) = s[1] /\ Head(s) \in Facts
      /\ \A i \in 1..Len(Tail(s)) : Tail(s)[i] = s[i+1]
  BY HeadTailProperties, EmptySeq, LenProperties
<1>2. DOMAIN Tail(s) = 1..(Len(s) - 1) /\ DOMAIN s = 1..Len(s)
  BY <1>1, LenProperties
<1>3. ASSUME NEW i \in 1..Len(s) PROVE s[i] \in {Head(s)} \cup Range(Tail(s))
  <2>1. CASE i = 1
    BY <1>1, <2>1
  <2>2. CASE i # 1
    <3>1. i - 1 \in 1..(Len(s) - 1) /\ Tail(s)[i-1] = s[i]
      BY <1>1, <2>2
    <3> QED
      BY <1>2, <3>1 DEF Range
  <2> QED
    BY <2>1, <2>2
<1>4. Range(s) \subseteq {Head(s)} \cup Range(Tail(s))
  BY <1>2, <1>3 DEF Range
<1> QED
  BY <1>1, <1>4

\* Nothing is lost from the account by a step that lets go of what is stored,
\* excused or still under way, and closes the gap with all of it.
LEMMA AccountKept ==
  ASSUME EveryChangeAccounted, entered' = entered,
         facts \subseteq facts', excused \subseteq excused',
         Range(inbox) \subseteq facts' \cup excused' \cup Range(inbox'),
         \/ since' = since \/ since = Never
         \/ \A e \in Entities : \A c \in entered[e] :
              c >= since => <<e, c>> \in facts' \cup excused'
  PROVE  EveryChangeAccounted'
<1> SUFFICES ASSUME NEW e \in Entities, NEW c \in entered[e]
             PROVE  \/ <<e, c>> \in facts' \cup excused' \cup Range(inbox')
                    \/ since' # Never /\ c >= since'
  BY DEF EveryChangeAccounted
<1>1. \/ <<e, c>> \in facts \cup excused \cup Range(inbox)
      \/ since # Never /\ c >= since
  BY DEF EveryChangeAccounted
<1> QED
  BY <1>1

\* The historian gets no older state of an entity than it has, as long as only
\* the bridge writes.
Advances ==
  posts' = 0 /\ backfills' = 0 => \A e \in Entities : dim'[e] >= dim[e]

\* A step of the loop that leaves Home Assistant and the other writers alone.
LEMMA LoopStep ==
  ASSUME BridgeInv, UNCHANGED <<now, entered, window, posts, backfills>>,
         pc' \in {"connecting", "subscribed", "sleeping", "replaying"},
         since' \in Times \cup {Never}, inbox' \in Seq(Facts),
         pc' \in {"sleeping", "replaying"} <=> since' # Never,
         since' <= now, pc' # "subscribed" => inbox' = <<>>,
         \/ since' \in {now, Never}
         \/ since' = since /\ dim' = dim,
         EveryChangeAccounted', InOrder',
         posts = 0 /\ backfills = 0 => \A e \in Entities :
           dim'[e] >= dim[e] /\ dim'[e] \in entered[e] \cup {Never},
         posts = 0 /\ backfills = 0 => \A i \in 1..Len(inbox') :
           /\ dim'[inbox'[i][1]] <= inbox'[i][2]
           /\ inbox'[i][2] \in entered[inbox'[i][1]]
  PROVE  BridgeInv' /\ Advances
<1>1. Typed'
  BY DEF BridgeInv, Typed
<1>2. HistoryFits' /\ LoopFits'
  BY DEF BridgeInv, HistoryFits, LoopFits
<1>3. RecencyFits'
  <2>1. CASE since' # Never /\ posts = 0 /\ backfills = 0
    <3>1. ASSUME since' = now, NEW e \in Entities PROVE dim'[e] <= since'
      <4>1. \A c \in entered[e] : c <= now
        BY DEF BridgeInv, HistoryFits
      <4>2. Never <= now
        BY DEF BridgeInv, Typed, Times, Never
      <4> QED
        BY <2>1, <3>1, <4>1, <4>2
    <3>2. \A e \in Entities : dim'[e] <= since'
      BY <2>1, <3>1 DEF BridgeInv, RecencyFits
    <3> QED
      BY <2>1, <3>2 DEF BridgeInv, RecencyFits, BackfillRunning
  <2>2. CASE ~(since' # Never /\ posts = 0 /\ backfills = 0)
    BY <2>2 DEF BridgeInv, RecencyFits, BackfillRunning
  <2> QED
    BY <2>1, <2>2
<1>4. Advances
  BY DEF Advances
<1> QED
  BY <1>1, <1>2, <1>3, <1>4 DEF BridgeInv

\* What the invariant says of recency, in terms of numbers.
LEMMA DimTimes ==
  ASSUME BridgeInv, posts = 0, backfills = 0, NEW e \in Entities
  PROVE  dim[e] \in Int /\ dim[e] \in entered[e] \cup {Never} /\ entered[e] \in SUBSET Nat
  BY DEF BridgeInv, RecencyFits, Typed, Times, Never

\* The store is left as it is.
LEMMA StoreStays ==
  ASSUME BridgeInv, dim' = dim, posts = 0, backfills = 0
  PROVE  \A e \in Entities : dim'[e] >= dim[e] /\ dim'[e] \in entered[e] \cup {Never}
  BY DimTimes

LEMMA ConnectionSteps ==
  ASSUME BridgeInv, Connect \/ ConnectFails \/ Wake
  PROVE  BridgeInv' /\ Advances
<1>1. /\ Typed /\ LoopFits /\ InOrder /\ RecencyFits /\ EveryChangeAccounted
      /\ Never \notin Times /\ now \in Times /\ now <= now
  BY DEF BridgeInv, Typed, Times, Never
<1>2. UNCHANGED <<now, entered, window, posts, backfills, inbox, facts, dim, excused>>
  BY DEF Connect, ConnectFails, Wake, world, store, bridgeBounds, bridge
<1>3. InOrder'
  BY <1>1, <1>2 DEF InOrder
<1>4. /\ since' = since \/ since = Never
      /\ since' \in {now, since}
  BY DEF Connect, ConnectFails, Wake, Disconnected
<1>5. EveryChangeAccounted'
  BY <1>1, <1>2, <1>4, AccountKept
<1>6. /\ pc' \in {"connecting", "subscribed", "sleeping", "replaying"}
      /\ since' \in Times \cup {Never} /\ (pc' \in {"sleeping", "replaying"} <=> since' # Never)
      /\ since' <= now /\ inbox = <<>>
  BY <1>1 DEF Connect, ConnectFails, Wake, Disconnected, Typed, LoopFits
<1>7. inbox' \in Seq(Facts) /\ Len(inbox') = 0
  BY <1>1, <1>2, <1>6, EmptySeq DEF Typed
<1> QED
  BY <1>2, <1>3, <1>4, <1>5, <1>6, <1>7, StoreStays, LoopStep

LEMMA LossSteps ==
  ASSUME BridgeInv, Drop \/ Restart
  PROVE  BridgeInv' /\ Advances
<1>1. /\ Typed /\ LoopFits /\ EveryChangeAccounted
      /\ Never \notin Times /\ now \in Times /\ now \in Nat /\ now <= now /\ Never <= now
  BY DEF BridgeInv, Typed, Times, Never
<1>2. UNCHANGED <<now, entered, window, posts, backfills, facts, dim>> /\ inbox' = <<>>
  BY DEF Drop, Restart, world, store, bridgeBounds, bridge
<1>3. inbox' \in Seq(Facts) /\ Len(inbox') = 0 /\ InOrder'
  BY <1>2, EmptySeq DEF InOrder
<1>4. /\ pc' \in {"connecting", "sleeping"}
      /\ since' \in Times \cup {Never} /\ (pc' \in {"sleeping", "replaying"} <=> since' # Never)
      /\ since' <= now /\ since' \in {now, since, Never}
  BY <1>1 DEF Drop, Restart, Disconnected, Typed, LoopFits
<1>5. excused \subseteq excused' /\ Range(inbox) \subseteq excused'
  BY DEF Drop, Restart
<1>6. \/ since' = since \/ since = Never
      \/ \A e \in Entities : \A c \in entered[e] : c >= since => <<e, c>> \in facts' \cup excused'
  <2>1. CASE Drop
    BY <2>1 DEF Drop, Disconnected
  <2>2. ASSUME Restart, since # Never, NEW e \in Entities, NEW c \in entered[e], c >= since
        PROVE  <<e, c>> \in excused'
    <3>1. <<e, c>> \in Facts
      BY <1>1 DEF Typed, Facts
    <3> QED
      BY <2>2, <3>1 DEF Restart
  <2> QED
    BY <2>1, <2>2
<1>7. EveryChangeAccounted'
  BY <1>1, <1>2, <1>5, <1>6, AccountKept
<1> QED
  BY <1>2, <1>3, <1>4, <1>7, StoreStays, LoopStep

\* The one event of a batch is the newest of its entity, and of no other.
LEMMA OneEvent ==
  ASSUME NEW f \in Facts
  PROVE  /\ EntitiesOf({f}) = {f[1]} /\ f[1] \in Entities /\ f[2] \in Int
         /\ NewestOf({f}, f[1]) = f[2]
<1>1. f[1] \in Entities /\ f[2] \in Int
  BY DEF Facts, Times
<1>2. EntitiesOf({f}) = {f[1]}
  BY DEF EntitiesOf
<1>3. {g[2] : g \in {r \in {f} : r[1] = f[1]}} = {f[2]}
  OBVIOUS
<1>4. NewestOf({f}, f[1]) = f[2]
  BY <1>1, <1>3, MaxOfOne DEF NewestOf
<1> QED
  BY <1>1, <1>2, <1>4

LEMMA EventSteps ==
  ASSUME BridgeInv, HandleEvent \/ HandleEventFails
  PROVE  BridgeInv' /\ Advances
<1>1. /\ Typed /\ LoopFits /\ InOrder /\ RecencyFits /\ EveryChangeAccounted
      /\ inbox \in Seq(Facts) /\ inbox # <<>> /\ pc = "subscribed"
  BY DEF BridgeInv, Typed, HandleEvent, HandleEventFails, Connected
<1>2. UNCHANGED <<now, entered, window, posts, backfills, pc, since>> /\ inbox' = Tail(inbox)
  BY DEF HandleEvent, HandleEventFails, world, bridgeBounds
<1>3. PICK f \in Facts : f = Head(inbox)
  BY <1>1, InboxTail
<1>4. /\ inbox' \in Seq(Facts) /\ Len(inbox) \in Nat
      /\ Len(inbox) > 0 /\ Len(inbox') = Len(inbox) - 1
      /\ \A i \in 1..Len(inbox') : i + 1 \in 1..Len(inbox) /\ inbox'[i] = inbox[i+1]
      /\ f = inbox[1] /\ Range(inbox) \subseteq {f} \cup Range(inbox')
  BY <1>1, <1>2, <1>3, InboxTail
<1>5. /\ f \in facts' \cup excused' /\ facts \subseteq facts' /\ excused \subseteq excused'
      /\ \A e \in Entities : dim'[e] = dim[e] \/ (e = f[1] /\ dim'[e] = f[2])
  <2>1. CASE HandleEvent
    BY <1>3, <2>1, OneEvent DEF HandleEvent, Ingest
  <2>2. CASE HandleEventFails
    <3>1. f \in excused' /\ excused \subseteq excused' /\ IngestPartly({f})
      BY <1>3, <2>2 DEF HandleEventFails
    <3>2. CASE dim' = dim
      BY <3>1, <3>2 DEF IngestPartly
    <3>3. ASSUME NEW last \in {f}, NEW done \in SUBSET (EntitiesOf({f}) \ {last[1]}),
                 dim' = [e \in Entities |-> CASE e = last[1] -> last[2]
                                              [] e \in done -> NewestOf({f}, e)
                                              [] OTHER -> dim[e]]
          PROVE  \A e \in Entities : dim'[e] = dim[e] \/ (e = f[1] /\ dim'[e] = f[2])
      <4>1. last = f /\ done = {}
        BY OneEvent
      <4>2. dim' = [e \in Entities |-> CASE e = f[1] -> f[2] [] OTHER -> dim[e]]
        BY <3>3, <4>1
      <4> QED
        BY <4>2
    <3> QED
      BY <3>1, <3>2, <3>3 DEF IngestPartly
  <2> QED
    BY <2>1, <2>2
<1>6. EveryChangeAccounted'
  <2>1. Range(inbox) \subseteq facts' \cup excused' \cup Range(inbox')
    BY <1>4, <1>5
  <2> QED
    BY <1>1, <1>2, <1>5, <2>1, AccountKept
<1>7. InOrder'
  <2>1. \A i \in 1..Len(inbox') : inbox'[i][2] <= now'
    BY <1>1, <1>2, <1>4 DEF InOrder
  <2>2. ASSUME NEW i \in 1..Len(inbox'), NEW j \in 1..Len(inbox'), i < j
        PROVE  inbox'[i][2] < inbox'[j][2]
    <3>1. i + 1 \in 1..Len(inbox) /\ j + 1 \in 1..Len(inbox) /\ i + 1 < j + 1
      BY <1>4, <2>2
    <3> QED
      BY <1>1, <1>4, <3>1 DEF InOrder
  <2> QED
    BY <2>1, <2>2 DEF InOrder
<1>8. ASSUME posts = 0, backfills = 0
      PROVE  /\ \A e \in Entities : dim'[e] >= dim[e] /\ dim'[e] \in entered[e] \cup {Never}
             /\ \A i \in 1..Len(inbox') : /\ dim'[inbox'[i][1]] <= inbox'[i][2]
                                          /\ inbox'[i][2] \in entered[inbox'[i][1]]
  <2>1. \A i \in 1..Len(inbox) : /\ dim[inbox[i][1]] <= inbox[i][2]
                                 /\ inbox[i][2] \in entered[inbox[i][1]]
    BY <1>1, <1>8 DEF RecencyFits
  <2>2. 1 \in 1..Len(inbox)
    BY <1>4
  <2>3. dim[f[1]] <= f[2] /\ f[2] \in entered[f[1]] /\ f[2] \in Int
    BY <1>4, <2>1, <2>2, OneEvent
  <2>4. ASSUME NEW e \in Entities PROVE dim'[e] >= dim[e] /\ dim'[e] \in entered[e] \cup {Never}
    BY <1>5, <1>8, <2>3, DimTimes
  <2>5. ASSUME NEW i \in 1..Len(inbox')
        PROVE  /\ dim'[inbox'[i][1]] <= inbox'[i][2]
               /\ inbox'[i][2] \in entered[inbox'[i][1]]
    <3>1. PICK j \in 1..Len(inbox) : j = i + 1 /\ 1 < j
      BY <1>4
    <3>2. /\ inbox'[i] = inbox[j] /\ inbox[j][1] \in Entities
          /\ f[2] < inbox[j][2] /\ inbox[j][2] \in Int
      <4>1. inbox[j] \in Facts
        BY <1>1, <3>1, ElementOfSeq
      <4>2. f[2] < inbox[j][2]
        BY <1>1, <1>4, <2>2, <3>1 DEF InOrder
      <4> QED
        BY <1>4, <3>1, <4>1, <4>2, OneEvent
    <3> QED
      BY <1>5, <2>1, <2>3, <3>1, <3>2
  <2> QED
    BY <2>4, <2>5
<1>9. /\ since' = Never /\ since' \in Times \cup {Never} /\ since' <= now /\ pc' = "subscribed"
      /\ (pc' \in {"sleeping", "replaying"} <=> since' # Never)
  BY <1>1, <1>2 DEF Typed, LoopFits
<1> QED
  BY <1>2, <1>4, <1>6, <1>7, <1>8, <1>9, LoopStep

\* Whatever a replay brings of an entity is a state it was in, and none that is older
\* than the one at the beginning of the gap.
LEMMA ReplayIsLater ==
  ASSUME Typed, HistoryFits, since \in Times, NEW f \in GapRows, NEW e \in Entities, f[1] = e
  PROVE  f[2] \in entered[e] /\ \A c \in entered[e] : c <= since => c <= f[2]
<1>1. /\ entered[e] \in SUBSET Nat /\ 0 \in entered[e] /\ now \in Nat /\ since \in Nat
      /\ \A c \in entered[e] : c <= now
  BY DEF Typed, HistoryFits, Times
<1>2. Latest(e) \in entered[e] /\ \A c \in entered[e] : c <= Latest(e)
  BY <1>1, LatestOfTimes DEF Latest
<1>3. AsOf(e, since) \in entered[e] /\ \A c \in entered[e] : c <= since => c <= AsOf(e, since)
  <2>1. PICK S : S = {c \in entered[e] : c <= since}
    OBVIOUS
  <2>2. S \in SUBSET Nat /\ S # {} /\ \A c \in S : c <= since
    BY <1>1, <2>1
  <2>3. Max(S) \in S /\ \A c \in S : c <= Max(S)
    BY <1>1, <2>2, LatestOfTimes
  <2>4. AsOf(e, since) = Max(S)
    BY <2>1 DEF AsOf
  <2> QED
    BY <1>1, <2>1, <2>3, <2>4
<1>4. CASE f = <<e, Latest(e)>>
  BY <1>2, <1>4
<1>5. CASE f = <<e, AsOf(e, since)>>
  BY <1>3, <1>5
<1>6. CASE f[2] \in entered[e] /\ since < f[2]
  BY <1>1, <1>6
<1>7. f \in CurrentStates \/ f \in History(since, now)
  BY DEF GapRows
<1> QED
  BY <1>4, <1>5, <1>6, <1>7 DEF CurrentStates, History

\* The replay: after it, whatever was in the gap is stored or excused.
LEMMA GapSteps ==
  ASSUME BridgeInv, Replay \/ ReplayFails
  PROVE  BridgeInv' /\ Advances
<1>1. /\ Typed /\ HistoryFits /\ LoopFits /\ InOrder /\ RecencyFits /\ EveryChangeAccounted
      /\ pc = "replaying" /\ since \in Times /\ since <= now /\ since \in Nat /\ now \in Nat
      /\ Never <= now
  BY DEF BridgeInv, Typed, LoopFits, Replay, ReplayFails, Times, Never
<1>2. /\ UNCHANGED <<now, entered, window, posts, backfills, inbox>>
      /\ pc' = "connecting" /\ since' = Never
  BY DEF Replay, ReplayFails, world, bridgeBounds
<1>3. inbox' \in Seq(Facts) /\ inbox' = <<>> /\ Len(inbox') = 0 /\ InOrder'
  BY <1>1, <1>2, EmptySeq DEF LoopFits, Typed, InOrder
<1>4. /\ facts \subseteq facts' /\ excused \subseteq excused'
      /\ \A e \in Entities : \/ dim'[e] = dim[e] \/ dim'[e] = NewestOf(GapRows, e)
                            \/ \E f \in GapRows : f[1] = e /\ dim'[e] = f[2]
  <2>1. PICK rows : rows = GapRows
    OBVIOUS
  <2>2. (Ingest(rows) \/ IngestPartly(rows)) /\ excused \subseteq excused'
    BY <2>1 DEF Replay, ReplayFails
  <2>3. /\ facts \subseteq facts'
        /\ \A e \in Entities : \/ dim'[e] = dim[e] \/ dim'[e] = NewestOf(rows, e)
                              \/ \E f \in rows : f[1] = e /\ dim'[e] = f[2]
    BY <2>2 DEF Ingest, IngestPartly
  <2> QED
    BY <2>1, <2>2, <2>3
<1>5. ASSUME NEW e \in Entities, NEW c \in entered[e], c >= since
      PROVE  <<e, c>> \in facts' \cup excused'
  <2>1. <<e, c>> \in Facts /\ c \in Nat /\ c <= now
    BY <1>1 DEF Typed, HistoryFits, Facts, Times
  <2>2. CASE ReplayFails
    BY <1>5, <2>1, <2>2 DEF ReplayFails
  <2>3. CASE Replay /\ GapIsLong
    BY <1>5, <2>1, <2>3 DEF Replay, Skipped
  <2>4. CASE Replay /\ ~GapIsLong
    <3>1. History(since, now) \subseteq facts'
      BY <2>4 DEF Replay, Ingest, GapRows
    <3>2. CASE since < c
      BY <2>1, <3>1, <3>2 DEF History
    <3>3. CASE c = since
      <4>1. PICK S : S = {x \in entered[e] : x <= since}
        OBVIOUS
      <4>2. S \in SUBSET Int /\ c \in S /\ \A x \in S : x <= c
        BY <1>1, <3>3, <4>1 DEF Typed, Times
      <4>3. AsOf(e, since) = c
        BY <4>1, <4>2, SameLatest DEF AsOf
      <4> QED
        BY <3>1, <4>3 DEF History
    <3> QED
      BY <1>1, <1>5, <2>1, <3>2, <3>3
  <2> QED
    BY <2>2, <2>3, <2>4
<1>6. EveryChangeAccounted'
  BY <1>1, <1>2, <1>4, <1>5, AccountKept
<1>7. ASSUME posts = 0, backfills = 0, NEW e \in Entities
      PROVE  dim'[e] >= dim[e] /\ dim'[e] \in entered[e] \cup {Never}
  <2>1. /\ NewestOf(GapRows, e) = Latest(e) /\ Latest(e) \in entered[e]
        /\ \A c \in entered[e] : c <= Latest(e)
    BY <1>1, ReplayIsCurrent
  <2>2. dim[e] \in Int /\ dim[e] \in entered[e] \cup {Never} /\ entered[e] \in SUBSET Nat
    BY <1>7, DimTimes
  <2>3. Latest(e) >= dim[e]
    BY <2>1, <2>2 DEF Never
  <2>4. ASSUME NEW f \in GapRows, f[1] = e PROVE f[2] >= dim[e] /\ f[2] \in entered[e]
    <3>1. f[2] \in entered[e] /\ \A c \in entered[e] : c <= since => c <= f[2]
      BY <1>1, <2>4, ReplayIsLater
    <3>2. dim[e] <= since
      BY <1>1, <1>7 DEF RecencyFits, Times, Never
    <3> QED
      BY <2>2, <3>1, <3>2 DEF Never
  <2> QED
    BY <1>4, <2>1, <2>2, <2>3, <2>4
<1>8. /\ pc' \in {"connecting", "subscribed", "sleeping", "replaying"}
      /\ since' \in Times \cup {Never} /\ (pc' \in {"sleeping", "replaying"} <=> since' # Never)
      /\ since' <= now
  BY <1>1, <1>2
<1> QED
  BY <1>2, <1>3, <1>6, <1>7, <1>8, LoopStep

\* Time passes, and maybe an entity changes.
LEMMA WorldSteps ==
  ASSUME BridgeInv, Tick \/ \E e \in Entities : Change(e)
  PROVE  BridgeInv' /\ Advances
<1>1. /\ Typed /\ HistoryFits /\ LoopFits /\ InOrder /\ RecencyFits /\ EveryChangeAccounted
  BY DEF BridgeInv
<1>2. /\ now' = now + 1 /\ now' \in Times /\ now' \in Nat /\ now \in Nat /\ now < now'
      /\ since \in Int /\ since <= now /\ since <= now'
  BY <1>1, BridgeConstantsOK DEF Tick, Change, Typed, LoopFits, Times, Never, BridgeConstantsOK
<1>3. UNCHANGED <<pc, since, facts, dim, window, posts, backfills>>
  BY DEF Tick, Change, bridge, store, bridgeBounds
<1>4. Advances
  BY <1>3, DimTimes DEF Advances
<1>5. CASE Tick
  <2>1. UNCHANGED <<entered, inbox, excused>>
    BY <1>5 DEF Tick, bridge
  <2>2. Typed' /\ RecencyFits' /\ EveryChangeAccounted'
    BY <1>1, <1>2, <1>3, <2>1 DEF Typed, RecencyFits, BackfillRunning, EveryChangeAccounted
  <2>3. HistoryFits'
    BY <1>1, <1>2, <2>1 DEF HistoryFits, Typed, Times
  <2>4. LoopFits'
    BY <1>1, <1>2, <1>3, <2>1 DEF LoopFits
  <2>5. \A i \in 1..Len(inbox) : inbox[i][2] \in Int
    BY <1>1, ElementOfSeq, OneEvent DEF Typed
  <2>6. InOrder'
    BY <1>1, <1>2, <2>1, <2>5 DEF InOrder
  <2> QED
    BY <1>4, <2>2, <2>3, <2>4, <2>6 DEF BridgeInv
<1>6. ASSUME NEW e \in Entities, Change(e) PROVE BridgeInv' /\ Advances
  <2>1. /\ entered' = [entered EXCEPT ![e] = @ \cup {now'}]
        /\ inbox' = IF Connected THEN Append(inbox, <<e, now'>>) ELSE inbox
        /\ excused' = IF Connected \/ since # Never THEN excused ELSE excused \cup {<<e, now'>>}
    BY <1>6 DEF Change
  <2>2. /\ entered'[e] = entered[e] \cup {now'}
        /\ \A x \in Entities \ {e} : entered'[x] = entered[x]
        /\ \A x \in Entities : entered[x] \subseteq entered'[x]
    BY <1>1, <2>1 DEF Typed
  <2>3. <<e, now'>> \in Facts /\ inbox \in Seq(Facts) /\ Len(inbox) \in Nat
    BY <1>1, <1>2, LenProperties DEF Typed, Facts
  <2>4. /\ inbox' \in Seq(Facts)
        /\ \A i \in 1..Len(inbox') : \/ i \in 1..Len(inbox) /\ inbox'[i] = inbox[i]
                                     \/ i = Len(inbox) + 1 /\ inbox'[i] = <<e, now'>>
        /\ Range(inbox) \subseteq Range(inbox')
        /\ Connected => <<e, now'>> \in Range(inbox')
    <3>1. CASE Connected
      <4>1. PICK f \in Facts : f = <<e, now'>>
        BY <2>3
      <4>2. inbox' = Append(inbox, f)
        BY <2>1, <3>1, <4>1
      <4>3. /\ inbox' \in Seq(Facts) /\ Len(inbox') = Len(inbox) + 1
            /\ \A i \in 1..Len(inbox) : inbox'[i] = inbox[i]
            /\ inbox'[Len(inbox) + 1] = f /\ Range(inbox') = Range(inbox) \cup {f}
        BY <2>3, <4>2, InboxAppend
      <4>4. \A i \in 1..Len(inbox') : i \in 1..Len(inbox) \/ i = Len(inbox) + 1
        BY <2>3, <4>3
      <4> QED
        BY <4>1, <4>3, <4>4
    <3>2. CASE ~Connected
      BY <2>1, <2>3, <3>2
    <3> QED
      BY <3>1, <3>2
  <2>5. Typed'
    BY <1>1, <1>2, <1>3, <2>1, <2>4 DEF Typed
  <2>6. HistoryFits'
    <3>1. ASSUME NEW x \in Entities PROVE 0 \in entered'[x] /\ \A c \in entered'[x] : c <= now'
      <4>1. 0 \in entered[x] /\ \A c \in entered[x] : c <= now /\ c \in Nat
        BY <1>1 DEF HistoryFits, Typed, Times
      <4> QED
        BY <1>2, <2>2, <4>1
    <3> QED
      BY <3>1 DEF HistoryFits
  <2>7. LoopFits'
    BY <1>1, <1>2, <1>3, <2>1 DEF LoopFits, Connected
  <2>8. \A i \in 1..Len(inbox) :
          inbox[i] \in Facts /\ inbox[i][1] \in Entities /\ inbox[i][2] \in Int
    BY <2>3, ElementOfSeq, OneEvent
  <2>9. InOrder'
    <3>1. \A i \in 1..Len(inbox') : inbox'[i][2] <= now'
      BY <1>1, <1>2, <2>4, <2>8 DEF InOrder
    <3>2. ASSUME NEW i \in 1..Len(inbox'), NEW j \in 1..Len(inbox'), i < j
          PROVE  inbox'[i][2] < inbox'[j][2]
      <4>1. i \in 1..Len(inbox) /\ inbox'[i] = inbox[i]
        <5>1. \/ i \in 1..Len(inbox) /\ inbox'[i] = inbox[i]
              \/ i = Len(inbox) + 1
          BY <2>4
        <5>2. j \in 1..Len(inbox) \/ j = Len(inbox) + 1
          BY <2>4
        <5> QED
          BY <2>3, <3>2, <5>1, <5>2
      <4>2. CASE j \in 1..Len(inbox) /\ inbox'[j] = inbox[j]
        BY <1>1, <3>2, <4>1, <4>2 DEF InOrder
      <4>3. CASE inbox'[j] = <<e, now'>>
        BY <1>1, <1>2, <2>8, <4>1, <4>3 DEF InOrder
      <4> QED
        BY <2>4, <4>2, <4>3
    <3> QED
      BY <3>1, <3>2 DEF InOrder
  <2>10. RecencyFits'
    <3>1. SUFFICES ASSUME posts = 0, backfills = 0
                   PROVE  /\ ~BackfillRunning'
                          /\ \A x \in Entities : dim'[x] \in entered'[x] \cup {Never}
                          /\ since' # Never => \A x \in Entities : dim'[x] <= since'
                          /\ \A i \in 1..Len(inbox') : /\ dim'[inbox'[i][1]] <= inbox'[i][2]
                                                       /\ inbox'[i][2] \in entered'[inbox'[i][1]]
      BY <1>3 DEF RecencyFits
    <3>2. ~BackfillRunning'
      BY <1>1, <1>3, <3>1 DEF RecencyFits, BackfillRunning
    <3>3. \A x \in Entities : dim'[x] \in entered'[x] \cup {Never}
      BY <1>3, <2>2, <3>1, DimTimes
    <3>4. dim[e] <= now' /\ now' \in entered'[e]
      <4>1. dim[e] \in entered[e] \cup {Never}
        BY <3>1, DimTimes
      <4>2. \A c \in entered[e] : c <= now /\ c \in Nat
        BY <1>1 DEF HistoryFits, Typed, Times
      <4> QED
        BY <1>2, <2>2, <4>1, <4>2 DEF Never
    <3>5. ASSUME NEW i \in 1..Len(inbox')
          PROVE  /\ dim'[inbox'[i][1]] <= inbox'[i][2]
                 /\ inbox'[i][2] \in entered'[inbox'[i][1]]
      <4>1. CASE i \in 1..Len(inbox) /\ inbox'[i] = inbox[i]
        BY <1>1, <1>3, <2>2, <2>8, <3>1, <4>1 DEF RecencyFits
      <4>2. CASE inbox'[i] = <<e, now'>>
        BY <1>3, <3>4, <4>2
      <4> QED
        BY <2>4, <4>1, <4>2
    <3>6. since' # Never => \A x \in Entities : dim'[x] <= since'
      BY <1>1, <1>3, <3>1 DEF RecencyFits
    <3> QED
      BY <3>2, <3>3, <3>5, <3>6
  <2>11. EveryChangeAccounted'
    <3>1. SUFFICES ASSUME NEW x \in Entities, NEW c \in entered'[x]
                   PROVE  \/ <<x, c>> \in facts' \cup excused' \cup Range(inbox')
                          \/ since' # Never /\ c >= since'
      BY DEF EveryChangeAccounted
    <3>2. CASE c \in entered[x]
      <4>1. \/ <<x, c>> \in facts \cup excused \cup Range(inbox)
            \/ since # Never /\ c >= since
        BY <1>1, <3>2 DEF EveryChangeAccounted
      <4> QED
        BY <1>3, <2>1, <2>4, <4>1
    <3>3. CASE x = e /\ c = now'
      BY <1>2, <1>3, <2>1, <2>4, <3>3
    <3> QED
      BY <2>2, <3>1, <3>2, <3>3
  <2> QED
    BY <1>4, <2>5, <2>6, <2>7, <2>9, <2>10, <2>11 DEF BridgeInv
<1> QED
  BY <1>5, <1>6

\* The other writers: what they do to recency is theirs, and they take nothing
\* from the historian.
LEMMA WriterSteps ==
  ASSUME BridgeInv,
         \/ \E t \in 0..now : PostStates(t)
         \/ \E start, stop \in 0..now : StartBackfill(start, stop)
         \/ BackfillChunk \/ BackfillChunkFails
  PROVE  BridgeInv' /\ Advances
<1>1. /\ Typed /\ HistoryFits /\ LoopFits /\ InOrder /\ RecencyFits /\ EveryChangeAccounted
      /\ posts \in Nat /\ backfills \in Nat
  BY DEF BridgeInv, Typed
<1>2. UNCHANGED <<now, entered, pc, since, inbox, excused>> /\ facts \subseteq facts'
  <2>1. CASE \E t \in 0..now : PostStates(t)
    BY <2>1 DEF PostStates, Ingest, world, bridge
  <2>2. CASE \E start, stop \in 0..now : StartBackfill(start, stop)
    BY <2>2 DEF StartBackfill, store, world, bridge
  <2>3. CASE BackfillChunk
    BY <2>3 DEF BackfillChunk, IngestHistory, world, bridge
  <2>4. CASE BackfillChunkFails
    BY <2>4 DEF BackfillChunkFails, store, world, bridge
  <2> QED
    BY <2>1, <2>2, <2>3, <2>4
<1>3. posts' \in Nat /\ backfills' \in Nat /\ ~(posts' = 0 /\ backfills' = 0)
  <2>1. CASE \E t \in 0..now : PostStates(t)
    BY <1>1, <2>1 DEF PostStates
  <2>2. CASE \E start, stop \in 0..now : StartBackfill(start, stop)
    BY <1>1, <2>2 DEF StartBackfill
  <2>3. CASE BackfillChunk \/ BackfillChunkFails
    <3>1. BackfillRunning /\ posts' = posts /\ backfills' = backfills
      BY <2>3 DEF BackfillChunk, BackfillChunkFails, bridgeBounds
    <3> QED
      BY <1>1, <3>1 DEF RecencyFits
  <2> QED
    BY <2>1, <2>2, <2>3
<1>4. Typed' /\ HistoryFits' /\ LoopFits' /\ InOrder'
  BY <1>1, <1>2, <1>3 DEF Typed, HistoryFits, LoopFits, InOrder
<1>5. EveryChangeAccounted'
  BY <1>1, <1>2, AccountKept
<1> QED
  BY <1>3, <1>4, <1>5 DEF BridgeInv, RecencyFits, Advances

-----------------------------------------------------------------------------
(* Theorems *)

LEMMA BridgeBegins == BridgeInit => BridgeInv
<1> SUFFICES ASSUME BridgeInit PROVE BridgeInv
  OBVIOUS
<1>1. 0 \in Times /\ Never \notin Times /\ Never <= 0
  BY BridgeConstantsOK DEF BridgeConstantsOK, Times, Never
<1>2. inbox \in Seq(Facts) /\ Len(inbox) = 0
  BY EmptySeq DEF BridgeInit
<1>3. Typed /\ HistoryFits /\ LoopFits /\ InOrder
  BY <1>1, <1>2 DEF BridgeInit, Typed, HistoryFits, LoopFits, InOrder
<1>4. RecencyFits
  BY <1>2 DEF BridgeInit, RecencyFits, BackfillRunning, NoWindow
<1>5. EveryChangeAccounted
  BY DEF BridgeInit, EveryChangeAccounted
<1> QED
  BY <1>3, <1>4, <1>5 DEF BridgeInv

LEMMA BridgeStep == BridgeInv /\ [BridgeNext]_bridgeVars => BridgeInv' /\ [Advances]_bridgeVars
<1> SUFFICES ASSUME BridgeInv, [BridgeNext]_bridgeVars PROVE BridgeInv' /\ [Advances]_bridgeVars
  OBVIOUS
<1>1. CASE UNCHANGED bridgeVars
  <2>1. UNCHANGED <<now, entered, pc, since, inbox, facts, dim, window, excused, posts, backfills>>
    BY <1>1 DEF bridgeVars, world, bridge, store, bridgeBounds
  <2>2. Typed' /\ HistoryFits' /\ LoopFits' /\ InOrder'
    BY <2>1 DEF BridgeInv, Typed, HistoryFits, LoopFits, InOrder
  <2>3. RecencyFits' /\ EveryChangeAccounted'
    BY <2>1 DEF BridgeInv, RecencyFits, BackfillRunning, EveryChangeAccounted
  <2> QED
    BY <1>1, <2>2, <2>3 DEF BridgeInv
<1>2. CASE BridgeNext
  BY <1>2, WorldSteps, ConnectionSteps, LossSteps, EventSteps, GapSteps, WriterSteps
     DEF BridgeNext, Run
<1> QED
  BY <1>1, <1>2

\* The inductive invariant of the bridge: a gap is open from the loss of the
\* connection to its replay, what is under way is in the order of the changes,
\* recency is behind it, and every change is accounted for.
THEOREM BridgeSafety == BridgeSpec => []BridgeInv
  BY BridgeBegins, BridgeStep, PTL DEF BridgeSpec

\* Every change is in the historian, under way, due in the replay of the open
\* gap, or one the bridge gave up on, however connections break, replays and
\* inserts fail, the process restarts and others write beside it.
THEOREM ChangesAreAccounted == BridgeSpec => []EveryChangeAccounted
<1>1. BridgeInv => EveryChangeAccounted
  BY DEF BridgeInv
<1> QED
  BY <1>1, BridgeSafety, PTL

\* As long as only the bridge writes, no entity's current state steps back
\* (_replay_gap runs between two subscriptions).
THEOREM RecencyStands == BridgeSpec => CurrentNeverRegresses
<1>1. BridgeInv /\ [BridgeNext]_bridgeVars =>
        [(posts' = 0 /\ backfills' = 0) => \A e \in Entities : dim'[e] >= dim[e]]_bridgeVars
  BY BridgeStep DEF Advances
<1> QED
  BY <1>1, BridgeSafety, PTL DEF BridgeSpec, CurrentNeverRegresses

-----------------------------------------------------------------------------
(* What the historian holds *)

\* The states the entities have been in.
States == {f \in Facts : f[2] \in entered[f[1]]}

DimensionsHeld == \A e \in Entities : dim[e] # Never => <<e, dim[e]>> \in facts

\* The historian holds nothing that did not happen, and the current state of an
\* entity is one that it holds.
HistorianTrue == facts \subseteq States /\ DimensionsHeld

HistorianFits ==
  /\ HistorianTrue /\ Range(inbox) \subseteq States
  /\ window \in [cursor : Nat, stop : Nat]

\* What Home Assistant answers are states its entities have been in.
LEMMA AnswersReal ==
  ASSUME BridgeInv
  PROVE  /\ CurrentStates \subseteq States
         /\ \A t \in Nat : {<<e, AsOf(e, t)>> : e \in Entities} \subseteq States
         /\ \A from \in Nat : \A to : History(from, to) \subseteq States
<1>1. \A e \in Entities : entered[e] \in SUBSET Nat /\ entered[e] \subseteq Times
                          /\ 0 \in entered[e] /\ \A c \in entered[e] : c <= now
  BY DEF BridgeInv, Typed, HistoryFits, Times
<1>2. now \in Nat
  BY DEF BridgeInv, Typed, Times
<1>3. ASSUME NEW e \in Entities PROVE <<e, Latest(e)>> \in States
  <2>1. Latest(e) \in entered[e]
    BY <1>1, <1>2, LatestOfTimes DEF Latest
  <2> QED
    BY <1>1, <2>1 DEF States, Facts
<1>4. ASSUME NEW e \in Entities, NEW t \in Nat PROVE <<e, AsOf(e, t)>> \in States
  <2>1. PICK S : S = {c \in entered[e] : c <= t}
    OBVIOUS
  <2>2. S \in SUBSET Nat /\ S # {} /\ \A c \in S : c <= t
    BY <1>1, <2>1
  <2>3. AsOf(e, t) = Max(S) /\ Max(S) \in S
    BY <2>1, <2>2, LatestOfTimes DEF AsOf
  <2>4. AsOf(e, t) \in entered[e]
    BY <2>1, <2>3
  <2> QED
    BY <1>1, <2>4 DEF States, Facts
<1>5. \A t \in Nat : {<<e, AsOf(e, t)>> : e \in Entities} \subseteq States
  BY <1>4
<1>6. ASSUME NEW from \in Nat, NEW to PROVE History(from, to) \subseteq States
  BY <1>5 DEF History, States
<1> QED
  BY <1>3, <1>5, <1>6 DEF CurrentStates

\* The newest state of an entity in a batch is in the batch.
LEMMA NewestInBatch ==
  ASSUME NEW rows \in SUBSET Facts, NEW e \in EntitiesOf(rows)
  PROVE  <<e, NewestOf(rows, e)>> \in rows
<1>1. PICK S : S = {f[2] : f \in {r \in rows : r[1] = e}}
  OBVIOUS
<1>2. PICK g \in rows : g[1] = e
  BY DEF EntitiesOf
<1>3. \A f \in rows : f = <<f[1], f[2]>> /\ f[2] \in Times
  BY DEF Facts
<1>4. S \in SUBSET Nat /\ S # {} /\ MaxTime \in Nat /\ \A c \in S : c <= MaxTime
  BY <1>1, <1>2, <1>3, BridgeConstantsOK DEF Times, BridgeConstantsOK
<1>5. NewestOf(rows, e) \in S
  BY <1>1, <1>4, LatestOfTimes DEF NewestOf
<1>6. PICK f \in rows : f[1] = e /\ f[2] = NewestOf(rows, e)
  BY <1>1, <1>5
<1> QED
  BY <1>3, <1>6

\* A batch of real states leaves the historian true, ingested whole, partly or
\* as history.
LEMMA BatchIngested ==
  ASSUME HistorianTrue, NEW rows \in SUBSET States,
         Ingest(rows) \/ IngestPartly(rows) \/ IngestHistory(rows)
  PROVE  facts' \subseteq States /\ DimensionsHeld'
<1>1. rows \in SUBSET Facts
  BY DEF States
<1>2. facts \subseteq States /\ DimensionsHeld
  BY DEF HistorianTrue
<1>3. facts \subseteq facts' /\ facts' \subseteq States
  BY <1>2 DEF Ingest, IngestPartly, IngestHistory
<1>4. ASSUME NEW e \in Entities, dim'[e] # Never
      PROVE  <<e, dim'[e]>> \in facts'
  <2>1. CASE dim'[e] = dim[e]
    BY <1>2, <1>3, <1>4, <2>1 DEF DimensionsHeld
  <2>2. CASE e \in EntitiesOf(rows) /\ dim'[e] = NewestOf(rows, e) /\ rows \subseteq facts'
    BY <1>1, <2>2, NewestInBatch
  <2>3. CASE /\ e \in EntitiesOf(rows \ facts) /\ dim'[e] = NewestOf(rows \ facts, e)
             /\ rows \ facts \subseteq facts'
    BY <1>1, <2>3, NewestInBatch
  <2>4. CASE Ingest(rows)
    BY <2>1, <2>2, <2>4 DEF Ingest
  <2>5. CASE IngestPartly(rows)
    <3>1. CASE dim' = dim
      BY <2>1, <3>1
    <3>2. ASSUME NEW last \in rows, NEW done \in SUBSET (EntitiesOf(rows) \ {last[1]}),
                 facts' = facts \cup rows,
                 dim' = [x \in Entities |-> CASE x = last[1] -> last[2]
                                              [] x \in done -> NewestOf(rows, x)
                                              [] OTHER -> dim[x]]
          PROVE  <<e, dim'[e]>> \in facts'
      <4>1. CASE e = last[1]
        <5>1. last = <<last[1], last[2]>>
          BY <1>1 DEF Facts
        <5> QED
          BY <3>2, <4>1, <5>1
      <4>2. CASE e # last[1] /\ e \in done
        BY <2>2, <3>2, <4>2
      <4>3. CASE e # last[1] /\ e \notin done
        BY <2>1, <3>2, <4>3
      <4> QED
        BY <4>1, <4>2, <4>3
    <3> QED
      BY <2>5, <3>1, <3>2 DEF IngestPartly
  <2>6. CASE IngestHistory(rows)
    <3>1. /\ facts' = facts \cup (rows \ facts)
          /\ dim' = [x \in Entities |-> IF x \in EntitiesOf(rows \ facts) /\ dim[x] = Never
                                        THEN NewestOf(rows \ facts, x) ELSE dim[x]]
      BY <2>6 DEF IngestHistory
    <3> QED
      BY <2>1, <2>3, <3>1
  <2> QED
    BY <2>4, <2>5, <2>6
<1> QED
  BY <1>3, <1>4 DEF DimensionsHeld

\* What a step means for the historian that leaves Home Assistant alone.
LEMMA HistorianKept ==
  ASSUME HistorianFits, UNCHANGED entered,
         \/ UNCHANGED store
         \/ facts' \subseteq States /\ DimensionsHeld',
         Range(inbox') \subseteq Range(inbox),
         window' \in [cursor : Nat, stop : Nat]
  PROVE  HistorianFits'
<1>1. States' = States
  BY DEF States
<1> QED
  BY <1>1 DEF HistorianFits, HistorianTrue, DimensionsHeld, store

\* Home Assistant moves on, and the subscription is told what happened.
LEMMA WorldHistorian ==
  ASSUME BridgeInv, HistorianFits, Tick \/ \E e \in Entities : Change(e)
  PROVE  HistorianFits'
<1>1. UNCHANGED <<facts, dim, window>>
  BY DEF Tick, Change, store
<1>2. CASE Tick
  BY <1>1, <1>2, HistorianKept DEF Tick, HistorianFits, bridge, store
<1>3. ASSUME NEW e \in Entities, Change(e)
      PROVE  HistorianFits'
  <2>1. /\ entered' = [entered EXCEPT ![e] = @ \cup {now'}] /\ now' \in Times
        /\ inbox' = IF Connected THEN Append(inbox, <<e, now'>>) ELSE inbox
    BY <1>3, BridgeConstantsOK DEF Change, BridgeInv, Typed, Times, BridgeConstantsOK
  <2>2. entered'[e] = entered[e] \cup {now'}
        /\ \A x \in Entities : entered[x] \subseteq entered'[x]
    BY <2>1 DEF BridgeInv, Typed
  <2>3. States \subseteq States' /\ <<e, now'>> \in States'
    BY <2>1, <2>2 DEF States, Facts
  <2>4. Range(inbox') \subseteq Range(inbox) \cup {<<e, now'>>}
    <3>1. PICK f \in Facts : f = <<e, now'>>
      BY <2>1 DEF Facts
    <3>2. inbox \in Seq(Facts)
      BY DEF BridgeInv, Typed
    <3>3. Range(Append(inbox, f)) = Range(inbox) \cup {f}
      BY <3>2, InboxAppend
    <3> QED
      BY <2>1, <3>1, <3>3
  <2> QED
    BY <1>1, <2>3, <2>4 DEF HistorianFits, HistorianTrue, DimensionsHeld
<1> QED
  BY <1>2, <1>3

\* The loop of the bridge stores what Home Assistant said, or nothing.
LEMMA RunHistorian ==
  ASSUME BridgeInv, HistorianFits, Run \/ Drop \/ Restart
  PROVE  HistorianFits'
<1>1. inbox \in Seq(Facts) /\ UNCHANGED <<entered, window>>
      /\ window' \in [cursor : Nat, stop : Nat]
  BY DEF BridgeInv, Typed, HistorianFits, Run, Connect, ConnectFails, HandleEvent,
     HandleEventFails, Wake, Replay, ReplayFails, Drop, Restart, world
<1>2. CASE Connect \/ ConnectFails \/ Wake
  BY <1>1, <1>2, HistorianKept DEF Connect, ConnectFails, Wake
<1>3. CASE Drop \/ Restart
  <2>1. Range(inbox') = {} /\ UNCHANGED store
    BY <1>3 DEF Drop, Restart, Range
  <2> QED
    BY <1>1, <2>1, HistorianKept
<1>4. CASE HandleEvent \/ HandleEventFails
  <2>1. inbox # <<>> /\ inbox' = Tail(inbox)
        /\ (Ingest({Head(inbox)}) \/ IngestPartly({Head(inbox)}))
    BY <1>4 DEF HandleEvent, HandleEventFails
  <2>2. /\ Len(inbox) \in Nat /\ Len(inbox) > 0 /\ Len(Tail(inbox)) = Len(inbox) - 1
        /\ Tail(inbox) \in Seq(Facts) /\ Head(inbox) = inbox[1]
        /\ \A i \in 1..Len(Tail(inbox)) : i + 1 \in 1..Len(inbox) /\ Tail(inbox)[i] = inbox[i+1]
    BY <1>1, <2>1, InboxTail
  <2>3. DOMAIN inbox = 1..Len(inbox) /\ DOMAIN Tail(inbox) = 1..Len(Tail(inbox))
    BY <1>1, <2>2, LenProperties
  <2>4. Range(inbox') \subseteq Range(inbox)
    BY <2>1, <2>2, <2>3 DEF Range
  <2>5. Head(inbox) \in States
    <3>1. inbox[1] \in Range(inbox)
      BY <2>2, <2>3 DEF Range
    <3> QED
      BY <2>2, <3>1 DEF HistorianFits
  <2>6. facts' \subseteq States /\ DimensionsHeld'
    BY <2>1, <2>5, BatchIngested DEF HistorianFits
  <2> QED
    BY <1>1, <2>4, <2>6, HistorianKept
<1>5. CASE Replay \/ ReplayFails
  <2>1. pc = "replaying" /\ inbox' = inbox /\ (Ingest(GapRows) \/ IngestPartly(GapRows))
    BY <1>5 DEF Replay, ReplayFails
  <2>2. since \in Nat
    BY <2>1 DEF BridgeInv, Typed, LoopFits, Times
  <2>3. GapRows \in SUBSET States
    BY <2>2, AnswersReal DEF GapRows
  <2>4. facts' \subseteq States /\ DimensionsHeld'
    BY <2>1, <2>3, BatchIngested DEF HistorianFits
  <2> QED
    BY <1>1, <2>1, <2>4, HistorianKept
<1> QED
  BY <1>2, <1>3, <1>4, <1>5 DEF Run

\* So do the clients that post states and the backfills.
LEMMA WriterHistorian ==
  ASSUME BridgeInv, HistorianFits,
         \/ \E t \in 0..now : PostStates(t)
         \/ \E start, stop \in 0..now : StartBackfill(start, stop)
         \/ BackfillChunk \/ BackfillChunkFails
  PROVE  HistorianFits'
<1>1. now \in Nat /\ window \in [cursor : Nat, stop : Nat] /\ Chunk \in Nat
  BY BridgeConstantsOK DEF BridgeInv, Typed, Times, HistorianFits, BridgeConstantsOK
<1>2. UNCHANGED <<entered, inbox>>
  BY DEF PostStates, StartBackfill, BackfillChunk, BackfillChunkFails, world, bridge
<1>3. ASSUME NEW t \in 0..now, PostStates(t)
      PROVE  HistorianFits'
  <2>1. t \in Nat /\ {<<e, AsOf(e, t)>> : e \in Entities} \in SUBSET States
    BY <1>1, AnswersReal
  <2>2. Ingest({<<e, AsOf(e, t)>> : e \in Entities}) /\ window' = window
    BY <1>3 DEF PostStates
  <2>3. facts' \subseteq States /\ DimensionsHeld'
    BY <2>1, <2>2, BatchIngested DEF HistorianFits
  <2> QED
    BY <1>1, <1>2, <2>2, <2>3, HistorianKept
<1>4. ASSUME NEW start \in 0..now, NEW stop \in 0..now, StartBackfill(start, stop)
      PROVE  HistorianFits'
  <2>1. window' = [cursor |-> start, stop |-> stop] /\ UNCHANGED store
        /\ start \in Nat /\ stop \in Nat
    BY <1>1, <1>4 DEF StartBackfill
  <2> QED
    BY <1>2, <2>1, HistorianKept
<1>5. CASE BackfillChunk \/ BackfillChunkFails
  <2>1. Upper \in Nat
    <3>1. window.cursor + Chunk \in Nat /\ window.stop \in Nat
      BY <1>1
    <3>2. \A a, b \in Nat : Min({a, b}) \in Nat
      <4> SUFFICES ASSUME NEW a \in Nat, NEW b \in Nat
                   PROVE  Min({a, b}) \in Nat
        OBVIOUS
      <4>1. \E x \in {a, b} : \A y \in {a, b} : x <= y
        <5>1. CASE a <= b
          BY <5>1
        <5>2. CASE b <= a
          BY <5>2
        <5> QED
          BY <5>1, <5>2
      <4>2. Min({a, b}) \in {a, b}
        BY <4>1 DEF Min
      <4> QED
        BY <4>2
    <3> QED
      BY <3>1, <3>2 DEF Upper
  <2>2. window' = [window EXCEPT !.cursor = Upper] /\ window' \in [cursor : Nat, stop : Nat]
    BY <1>1, <1>5, <2>1 DEF BackfillChunk, BackfillChunkFails
  <2>3. \/ UNCHANGED store
        \/ facts' \subseteq States /\ DimensionsHeld'
    <3>1. CASE BackfillChunkFails
      BY <3>1 DEF BackfillChunkFails
    <3>2. CASE BackfillChunk
      <4>1. History(window.cursor, Upper) \in SUBSET States
        BY <1>1, AnswersReal
      <4> QED
        BY <3>2, <4>1, BatchIngested DEF BackfillChunk, HistorianFits
    <3> QED
      BY <1>5, <3>1, <3>2
  <2> QED
    BY <1>2, <2>2, <2>3, HistorianKept
<1> QED
  BY <1>3, <1>4, <1>5

\* Whatever breaks half-way and whoever else writes, the historian holds only
\* states the entities were in, and the current state of an entity is never one
\* the historian lacks (ingest_ha_states inserts the facts before it updates the
\* entities).
THEOREM HistorianIsTrue == BridgeSpec => []HistorianTrue
<1>1. BridgeInit => HistorianFits
  <2> SUFFICES ASSUME BridgeInit PROVE HistorianFits
    OBVIOUS
  <2>1. Range(inbox) = {}
    BY DEF BridgeInit, Range
  <2> QED
    BY <2>1 DEF BridgeInit, HistorianFits, HistorianTrue, DimensionsHeld, NoWindow
<1>2. BridgeInv /\ HistorianFits /\ [BridgeNext]_bridgeVars => HistorianFits'
  <2> SUFFICES ASSUME BridgeInv, HistorianFits, [BridgeNext]_bridgeVars
               PROVE  HistorianFits'
    OBVIOUS
  <2>1. CASE UNCHANGED bridgeVars
    <3>1. UNCHANGED <<entered, inbox, store, window>>
      BY <2>1 DEF bridgeVars, world, bridge
    <3> QED
      BY <3>1, HistorianKept DEF HistorianFits
  <2>2. CASE BridgeNext
    BY <2>2, WorldHistorian, RunHistorian, WriterHistorian DEF BridgeNext
  <2> QED
    BY <2>1, <2>2
<1>3. HistorianFits => HistorianTrue
  BY DEF HistorianFits
<1> QED
  BY <1>1, <1>2, <1>3, BridgeSafety, PTL DEF BridgeSpec
=============================================================================

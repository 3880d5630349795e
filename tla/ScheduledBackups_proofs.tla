----------------------- MODULE ScheduledBackups_proofs -----------------------
(***************************************************************************)
(* Proofs about the scheduled backups, for every number of runs, loops,    *)
(* commands, faults and bundles to keep.                                   *)
(***************************************************************************)
EXTENDS ScheduledBackups, SequenceTheorems, TLAPS

Locked == {"control", "opening", "copying", "landing", "staged", "pruning", "removing"}
Bundle == [rows : SUBSET Ingested, facts : SUBSET Ingested,
           payloads : SUBSET Ingested, held : SUBSET Ingested, whole : BOOLEAN]

\* Ingestion writes a payload before its row and a row before its facts.
Ordered == facts \subseteq rows /\ rows \subseteq payloads

\* What a backup has captured so far is in the live stores, and what it set out
\* to hold is in each store it has captured.
CaptureFits(me) ==
  /\ me.pc # "idle" => me.held \subseteq facts
  /\ me.pc \in {"opening", "copying", "landing", "staged", "pruning", "removing"} =>
       me.held \subseteq me.rows /\ me.rows \subseteq rows
  /\ me.pc \in {"landing", "staged", "pruning", "removing"} =>
       me.held \subseteq me.facts /\ me.facts \subseteq facts
  /\ me.pc \in {"staged", "pruning", "removing"} =>
       me.rows \cup me.facts \cup me.held \subseteq me.payloads

CapturesFit == \A r \in Runners : CaptureFits(runner[r])

\* A backup has the lock from its first capture to the end of its pruning, and
\* while it removes a bundle there is one too many.
LockFits(r) ==
  /\ runner[r].pc \in Locked => lock = r
  /\ runner[r].pc = "removing" => Len(bundles) > Retention

LocksFit == \A r \in Runners : LockFits(r)

Coherent(b) ==
  /\ b.rows \cup b.facts \subseteq b.payloads
  /\ b.held \subseteq b.rows \cap b.facts \cap b.payloads

Coherence == \A n \in DOMAIN bundles : Coherent(bundles[n])

SafetyInv == TypeOK /\ Ordered /\ CapturesFit /\ LocksFit /\ Coherence

-----------------------------------------------------------------------------
(* Sequences *)

\* Removing the first element leaves the others in their order.
LEMMA FirstRemoved ==
  ASSUME NEW S, NEW s \in Seq(S), s # <<>>
  PROVE  /\ RemoveAt(s, 1) \in Seq(S)
         /\ Len(RemoveAt(s, 1)) = Len(s) - 1
         /\ \A n \in 1..(Len(s) - 1) : RemoveAt(s, 1)[n] = s[n + 1]
<1>1. Len(s) \in Nat \ {0}
  BY EmptySeq, LenProperties
<1>2. RemoveAt(s, 1) = SubSeq(s, 1, 0) \o SubSeq(s, 2, Len(s))
  BY DEF RemoveAt
<1>3. SubSeq(s, 1, 0) = <<>>
  BY SMT
<1>4. SubSeq(s, 2, Len(s)) \in Seq(S) /\ Len(SubSeq(s, 2, Len(s))) = Len(s) - 1
  <2>1. 2 \in 1..(Len(s) + 1) /\ Len(s) \in (2 - 1)..Len(s)
    BY <1>1
  <2>2. SubSeq(s, 2, Len(s)) \in Seq(S)
    BY <2>1, SubSeqProperties
  <2>3. Len(SubSeq(s, 2, Len(s))) = IF 2 <= Len(s) THEN Len(s) - 2 + 1 ELSE 0
    BY <2>1, SubSeqProperties
  <2>4. CASE 2 <= Len(s)
    BY <1>1, <2>2, <2>3, <2>4
  <2>5. CASE Len(s) = 1
    BY <2>2, <2>3, <2>5
  <2>6. \A n \in Nat \ {0} : 2 <= n \/ n = 1
    OBVIOUS
  <2> QED
    BY <1>1, <2>4, <2>5, <2>6
<1>5. \A n \in 1..(Len(s) - 1) : SubSeq(s, 2, Len(s))[n] = s[n + 1]
  BY <1>1, SubSeqProperties
<1>6. RemoveAt(s, 1) = SubSeq(s, 2, Len(s))
  BY <1>2, <1>3, <1>4, ConcatEmptySeq
<1> QED
  BY <1>4, <1>5, <1>6

\* What is inserted in a sequence takes its place, and the others keep their order.
LEMMA OneInserted ==
  ASSUME NEW S, NEW s \in Seq(S), NEW e \in S, NEW i \in 1..(Len(s) + 1)
  PROVE  /\ InsertAt(s, i, e) \in Seq(S)
         /\ Len(InsertAt(s, i, e)) = Len(s) + 1
         /\ \A n \in 1..(Len(s) + 1) :
              InsertAt(s, i, e)[n] = IF n < i THEN s[n] ELSE IF n = i THEN e ELSE s[n - 1]
<1> DEFINE front == SubSeq(s, 1, i - 1)
           back == SubSeq(s, i, Len(s))
           upto == front \o <<e>>
<1>1. Len(s) \in Nat /\ i \in Nat /\ 1 <= i /\ i <= Len(s) + 1
  BY LenProperties
<1>2. /\ front \in Seq(S) /\ Len(front) = i - 1
      /\ \A n \in 1..(i - 1) : front[n] = s[n]
  <2>1. 1 \in 1..(Len(s) + 1) /\ i - 1 \in (1 - 1)..Len(s)
    BY <1>1
  <2>2. /\ front \in Seq(S)
        /\ Len(front) = IF 1 <= i - 1 THEN (i - 1) - 1 + 1 ELSE 0
        /\ \A n \in 1..((i - 1) - 1 + 1) : front[n] = s[1 + n - 1]
    BY <2>1, SubSeqProperties
  <2> HIDE DEF front
  <2>3. Len(front) = i - 1
    BY <1>1, <2>2
  <2>4. \A n \in 1..(i - 1) : n \in 1..((i - 1) - 1 + 1) /\ 1 + n - 1 = n
    BY <1>1
  <2> QED
    BY <2>2, <2>3, <2>4
<1>3. /\ back \in Seq(S) /\ Len(back) = Len(s) - i + 1
      /\ \A n \in 1..(Len(s) - i + 1) : back[n] = s[i + n - 1]
  <2>1. i \in 1..(Len(s) + 1) /\ Len(s) \in (i - 1)..Len(s)
    BY <1>1
  <2>2. /\ back \in Seq(S)
        /\ Len(back) = IF i <= Len(s) THEN Len(s) - i + 1 ELSE 0
        /\ \A n \in 1..(Len(s) - i + 1) : back[n] = s[i + n - 1]
    BY <2>1, SubSeqProperties
  <2> HIDE DEF back
  <2> QED
    BY <1>1, <2>2
<1>4. <<e>> \in Seq(S) /\ Len(<<e>>) = 1 /\ <<e>>[1] = e
  OBVIOUS
<1> HIDE DEF front, back
<1>5. /\ upto \in Seq(S) /\ Len(upto) = i
      /\ \A n \in 1..i : upto[n] = IF n < i THEN s[n] ELSE e
  <2>1. /\ upto \in Seq(S) /\ Len(upto) = Len(front) + Len(<<e>>)
        /\ \A n \in 1..(Len(front) + Len(<<e>>)) :
             upto[n] = IF n <= Len(front) THEN front[n] ELSE <<e>>[n - Len(front)]
    BY <1>2, <1>4, ConcatProperties
  <2> HIDE DEF upto
  <2>2. ASSUME NEW n \in 1..i PROVE upto[n] = IF n < i THEN s[n] ELSE e
    <3>1. CASE n < i
      BY <1>1, <1>2, <1>4, <2>1, <3>1
    <3>2. CASE n = i
      <4>1. n - Len(front) = 1 /\ ~(n <= Len(front)) /\ n \in 1..(Len(front) + Len(<<e>>))
        BY <1>1, <1>2, <1>4, <3>2
      <4>2. upto[n] = <<e>>[1]
        BY <2>1, <4>1
      <4> QED
        BY <1>1, <1>4, <3>2, <4>2
    <3> QED
      BY <1>1, <3>1, <3>2
  <2> QED
    BY <1>1, <1>2, <1>4, <2>1, <2>2
<1> HIDE DEF upto
<1>6. InsertAt(s, i, e) = upto \o back
  BY DEF InsertAt, upto, front, back
<1>7. /\ upto \o back \in Seq(S) /\ Len(upto \o back) = Len(upto) + Len(back)
      /\ \A n \in 1..(Len(upto) + Len(back)) :
           (upto \o back)[n] = IF n <= Len(upto) THEN upto[n] ELSE back[n - Len(upto)]
  BY <1>3, <1>5, ConcatProperties
<1>8. ASSUME NEW n \in 1..(Len(s) + 1)
      PROVE  (upto \o back)[n] = IF n < i THEN s[n] ELSE IF n = i THEN e ELSE s[n - 1]
  <2>1. n \in 1..(Len(upto) + Len(back))
    BY <1>1, <1>3, <1>5
  <2>2. CASE n <= i
    BY <1>1, <1>5, <1>7, <2>1, <2>2
  <2>3. CASE n > i
    <3>1. n - i \in 1..(Len(s) - i + 1) /\ i + (n - i) - 1 = n - 1
      BY <1>1, <2>3
    <3>2. back[n - i] = s[n - 1]
      BY <1>3, <3>1
    <3> QED
      BY <1>1, <1>5, <1>7, <2>1, <2>3, <3>2
  <2>4. n <= i \/ n > i
    BY <1>1
  <2> QED
    BY <2>2, <2>3, <2>4, Zenon
<1> QED
  BY <1>1, <1>3, <1>5, <1>6, <1>7, <1>8

-----------------------------------------------------------------------------
(* Type correctness *)

Pcs == {"idle", "failing"} \cup {"locking"} \cup Locked
Attempts == [pc : Pcs, age : Ages, previous : StatusType, overtaken : Nat,
             held : SUBSET Ingested, rows : SUBSET Ingested, facts : SUBSET Ingested, payloads : SUBSET Ingested]

\* The type invariant but for what the backups are doing.
StoresTyped ==
  /\ payloads \subseteq Ingested /\ rows \subseteq Ingested /\ facts \subseteq Ingested
  /\ warehouse \in Runners \cup {Nobody, Writer} /\ lock \in Runners \cup {Nobody}
  /\ bundles \in Seq(Bundle)
  /\ status \in StatusType
  /\ commands \in 0..MaxCommands /\ faults \in 0..MaxFaults

LEMMA TypeParts == TypeOK <=> StoresTyped /\ runner \in [Runners -> Attempts]
  <1>1. Pcs = {"idle", "locking", "control", "opening", "copying", "landing", "staged",
               "pruning", "removing", "failing"}
    BY DEF Pcs, Locked
  <1> QED
    BY <1>1, Zenon DEF TypeOK, StoresTyped, Attempts, Bundle

\* What one backup does leaves the others where they are.
LEMMA Updated ==
  ASSUME runner \in [Runners -> Attempts], NEW r \in Runners, NEW me \in Attempts,
         runner' = [runner EXCEPT ![r] = me]
  PROVE  /\ runner' \in [Runners -> Attempts]
         /\ runner'[r] = me
         /\ \A q \in Runners \ {r} : runner'[q] = runner[q]
  OBVIOUS

LEMMA PcTyped ==
  ASSUME NEW me \in Attempts, NEW pc \in Pcs
  PROVE  /\ [me EXCEPT !.pc = pc] \in Attempts
         /\ [me EXCEPT !.pc = pc].pc = pc
         /\ [me EXCEPT !.pc = pc].held = me.held
         /\ [me EXCEPT !.pc = pc].rows = me.rows
         /\ [me EXCEPT !.pc = pc].facts = me.facts
         /\ [me EXCEPT !.pc = pc].payloads = me.payloads
  BY DEF Attempts

LEMMA RestingTyped == Resting \in Attempts /\ Resting.pc = "idle"
<1>1. Interval \in Ages /\ 0 \in Ages
  BY ConstantsOK DEF ConstantsOK, Ages
<1> QED
  BY <1>1 DEF Resting, Attempts, StatusType, Pcs

LEMMA ClockTyped ==
  ASSUME NEW age \in Ages
  PROVE  Older(age) \in Ages
<1>1. Interval \in Nat
  BY ConstantsOK DEF ConstantsOK
<1>2. CASE age + 1 <= Interval
  <2>1. age + 1 \in {age + 1, Interval} /\ \A y \in {age + 1, Interval} : age + 1 <= y
    BY <1>1, <1>2 DEF Ages
  <2>2. Min({age + 1, Interval}) \in {age + 1, Interval}
    BY <2>1 DEF Min
  <2> QED
    BY <1>1, <1>2, <2>2 DEF Older, Ages
<1>3. CASE age = Interval
  <2>1. Interval \in {age + 1, Interval} /\ \A y \in {age + 1, Interval} : Interval <= y
    BY <1>1, <1>3
  <2>2. \A x \in {age + 1, Interval} : (\A y \in {age + 1, Interval} : x <= y) => x = Interval
    BY <1>1, <1>3
  <2>3. Min({age + 1, Interval}) = Interval
    BY <2>1, <2>2 DEF Min
  <2> QED
    BY <1>1, <2>3 DEF Older, Ages
<1> QED
  BY <1>1, <1>2, <1>3 DEF Ages
-----------------------------------------------------------------------------
(* The invariant *)

LEMMA AttemptStep ==
  ASSUME SafetyInv, NEW r \in Runners, NEW me \in Attempts,
         runner' = [runner EXCEPT ![r] = me],
         UNCHANGED live, StoresTyped',
         CaptureFits(me),
         me.pc \in Locked => lock' = r,
         me.pc = "removing" => Len(bundles') > Retention,
         lock' = lock \/ lock \in {r, Nobody},
         bundles' = bundles \/ lock = r,
         Coherence'
  PROVE  SafetyInv'
<1>1. /\ runner \in [Runners -> Attempts]
  BY TypeParts DEF SafetyInv
<1>2. /\ runner' \in [Runners -> Attempts]
      /\ runner'[r] = me
      /\ \A q \in Runners \ {r} : runner'[q] = runner[q]
  BY <1>1, Updated
<1>3. TypeOK'
  <2>1. StoresTyped' /\ (runner \in [Runners -> Attempts])'
    BY <1>2
  <2> QED
    BY <2>1, TypeParts, PTL
<1>4. Ordered'
  BY DEF SafetyInv, Ordered, live
<1>5. CapturesFit'
  BY <1>2 DEF SafetyInv, CapturesFit, CaptureFits, live
<1>6. ASSUME NEW q \in Runners PROVE LockFits(q)'
  <2>1. CASE q = r
    BY <1>2, <2>1 DEF LockFits
  <2>2. CASE q # r
    <3>1. runner'[q] = runner[q] /\ LockFits(q) /\ q # Nobody
      BY <1>2, <2>2, ConstantsOK DEF SafetyInv, LocksFit, ConstantsOK
    <3>2. CASE runner[q].pc \in Locked
      BY <2>2, <3>1, <3>2 DEF LockFits
    <3>3. CASE runner[q].pc \notin Locked
      BY <3>1, <3>3 DEF LockFits, Locked
    <3> QED
      BY <3>2, <3>3
  <2> QED
    BY <2>1, <2>2
<1> QED
  BY <1>3, <1>4, <1>5, <1>6 DEF SafetyInv, LocksFit

LEMMA GotoStep ==
  ASSUME SafetyInv, NEW r \in Runners, NEW pc \in Pcs,
         Goto(r, pc), UNCHANGED <<live, bundles>>, StoresTyped',
         CaptureFits([runner[r] EXCEPT !.pc = pc]),
         pc \in Locked => lock' = r,
         pc = "removing" => Len(bundles) > Retention,
         lock' = lock \/ lock \in {r, Nobody}
  PROVE  SafetyInv'
<1> DEFINE me == [runner[r] EXCEPT !.pc = pc]
<1>1. runner[r] \in Attempts
  BY TypeParts DEF SafetyInv
<1>2. me \in Attempts /\ me.pc = pc
  BY <1>1, PcTyped
<1>3. runner' = [runner EXCEPT ![r] = me]
  BY DEF Goto
<1>4. Coherence'
  BY DEF SafetyInv, Coherence
<1>5. CaptureFits(me)
  OBVIOUS
<1> HIDE DEF me
<1> QED
  BY <1>2, <1>3, <1>4, <1>5, AttemptStep

\* Nobody is left with a lock by who lets go of it.
LEMMA LettingGo ==
  ASSUME StoresTyped, NEW r \in Runners, LetGo(r)
  PROVE  /\ lock' = lock \/ lock \in {r, Nobody}
         /\ lock' \in Runners \cup {Nobody}
         /\ warehouse' \in Runners \cup {Nobody, Writer}
  BY DEF StoresTyped, LetGo
\* A bundle is published coherent and removed as it was.
LEMMA InsertCoherent ==
  ASSUME bundles \in Seq(Bundle), Coherence, NEW b \in Bundle, Coherent(b),
         NEW i \in 1..(Len(bundles) + 1)
  PROVE  /\ InsertAt(bundles, i, b) \in Seq(Bundle)
         /\ \A n \in DOMAIN InsertAt(bundles, i, b) : Coherent(InsertAt(bundles, i, b)[n])
<1> DEFINE longer == InsertAt(bundles, i, b)
<1>1. /\ longer \in Seq(Bundle) /\ Len(longer) = Len(bundles) + 1
      /\ \A n \in 1..(Len(bundles) + 1) :
           longer[n] = IF n < i THEN bundles[n] ELSE IF n = i THEN b ELSE bundles[n - 1]
  BY OneInserted
<1>2. DOMAIN bundles = 1..Len(bundles) /\ Len(bundles) \in Nat
      /\ DOMAIN longer = 1..(Len(bundles) + 1)
  BY <1>1, LenProperties
<1> HIDE DEF longer
<1>3. ASSUME NEW n \in DOMAIN longer PROVE Coherent(longer[n])
  <2>1. CASE n = i
    BY <1>1, <1>2, <2>1
  <2>2. CASE n < i
    <3>1. longer[n] = bundles[n] /\ n \in DOMAIN bundles
      BY <1>1, <1>2, <2>2
    <3> QED
      BY <3>1, Zenon DEF Coherence
  <2>3. CASE n > i
    <3>1. longer[n] = bundles[n - 1] /\ n - 1 \in DOMAIN bundles
      BY <1>1, <1>2, <2>3
    <3> QED
      BY <3>1, Zenon DEF Coherence
  <2> QED
    BY <1>2, <2>1, <2>2, <2>3
<1> QED
  BY <1>1, <1>3 DEF longer

\* A bundle is inserted after those with an earlier stamp, and above the rest.
LEMMA LaterBounded ==
  ASSUME bundles \in Seq(Bundle), NEW r \in Runners, runner[r] \in Attempts
  PROVE  LaterBundles(r) \in 0..Len(bundles)
<1>1. Len(bundles) \in Nat /\ runner[r].overtaken \in Nat
  BY LenProperties DEF Attempts
<1> DEFINE S == {runner[r].overtaken, Len(bundles)}
<1>2. \E x \in S : \A y \in S : x <= y
  <2>1. CASE runner[r].overtaken <= Len(bundles)
    BY <1>1, <2>1
  <2>2. CASE Len(bundles) <= runner[r].overtaken
    BY <1>1, <2>2
  <2> QED
    BY <1>1, <2>1, <2>2
<1>3. Min(S) \in S /\ \A y \in S : Min(S) <= y
  BY <1>2 DEF Min
<1> QED
  BY <1>1, <1>3 DEF LaterBundles

LEMMA RemovalCoherent ==
  ASSUME bundles \in Seq(Bundle), Coherence, bundles # <<>>
  PROVE  /\ RemoveAt(bundles, 1) \in Seq(Bundle)
         /\ \A n \in DOMAIN RemoveAt(bundles, 1) : Coherent(RemoveAt(bundles, 1)[n])
<1> DEFINE rest == RemoveAt(bundles, 1)
<1>1. /\ rest \in Seq(Bundle)
      /\ Len(rest) = Len(bundles) - 1
      /\ \A n \in 1..(Len(bundles) - 1) : rest[n] = bundles[n + 1]
  BY FirstRemoved
<1>2. DOMAIN bundles = 1..Len(bundles) /\ Len(bundles) \in Nat /\ DOMAIN rest = 1..Len(rest)
  BY <1>1, LenProperties
<1> HIDE DEF rest
<1>3. ASSUME NEW n \in DOMAIN rest PROVE Coherent(rest[n])
  <2>1. n \in 1..(Len(bundles) - 1) /\ n + 1 \in DOMAIN bundles
    BY <1>1, <1>2
  <2> QED
    BY <1>1, <2>1, Zenon DEF Coherence
<1> QED
  BY <1>1, <1>3 DEF rest

LEMMA PruningCoherent ==
  ASSUME bundles \in Seq(Bundle), Coherence, Len(bundles) > 0,
         NEW rest, rest = [bundles EXCEPT ![1].whole = FALSE]
  PROVE  /\ rest \in Seq(Bundle) /\ Len(rest) = Len(bundles)
         /\ \A n \in DOMAIN rest : Coherent(rest[n])
<1>1. DOMAIN bundles = 1..Len(bundles) /\ Len(bundles) \in Nat
  BY LenProperties
<1>2. 1 \in DOMAIN bundles /\ bundles[1] \in Bundle
  BY <1>1, ElementOfSeq
<1>3. PICK b : b = [bundles[1] EXCEPT !.whole = FALSE]
  OBVIOUS
<1>4. /\ b \in Bundle /\ b.rows = bundles[1].rows /\ b.facts = bundles[1].facts
      /\ b.payloads = bundles[1].payloads /\ b.held = bundles[1].held
  BY <1>2, <1>3 DEF Bundle
<1>5. Coherent(b)
  BY <1>2, <1>4 DEF Coherence, Coherent
<1>6. rest = [bundles EXCEPT ![1] = b]
  BY <1>3
<1>7. rest \in Seq(Bundle) /\ Len(rest) = Len(bundles) /\ DOMAIN rest = DOMAIN bundles
  <2>1. 1 \in 1..Len(bundles) /\ b \in Bundle
    BY <1>1, <1>2, <1>4
  <2>2. [bundles EXCEPT ![1] = b] \in Seq(Bundle)
        /\ Len([bundles EXCEPT ![1] = b]) = Len(bundles)
    BY <2>1, ExceptSeq
  <2>3. DOMAIN [bundles EXCEPT ![1] = b] = DOMAIN bundles
    OBVIOUS
  <2> QED
    BY <1>6, <2>2, <2>3
<1>8. \A n \in DOMAIN rest : rest[n] = IF n = 1 THEN b ELSE bundles[n]
  BY <1>6, <1>7
<1> QED
  BY <1>5, <1>7, <1>8 DEF Coherence
\* Live ingestion writes the stores in its order.
LEMMA IngestStep ==
  ASSUME SafetyInv, Ingest
  PROVE  SafetyInv'
<1>1. /\ UNCHANGED <<runner, lock, bundles, status, commands, faults>>
      /\ payloads \subseteq payloads' /\ rows \subseteq rows' /\ facts \subseteq facts'
      /\ payloads' \subseteq Ingested /\ rows' \subseteq Ingested /\ facts' \subseteq Ingested
      /\ warehouse' \in Runners \cup {Nobody, Writer}
  BY DEF SafetyInv, TypeOK, Ingest, WritePayload, CreateRun, LoadFacts, OpenForWriting, live
<1>2. Ordered'
  BY DEF SafetyInv, Ordered, Ingest, WritePayload, CreateRun, LoadFacts, OpenForWriting, live
<1>3. TypeOK'
  BY <1>1 DEF SafetyInv, TypeOK
<1>4. ASSUME NEW r \in Runners PROVE CaptureFits(runner[r])'
  <2>1. CaptureFits(runner[r])
    BY DEF SafetyInv, CapturesFit
  <2> QED
    BY <1>1, <2>1 DEF CaptureFits
<1>5. LocksFit' /\ Coherence'
  BY <1>1 DEF SafetyInv, LocksFit, LockFits, Coherence
<1> QED
  BY <1>2, <1>3, <1>4, <1>5 DEF SafetyInv, CapturesFit

\* Time changes nothing but ages.
LEMMA TickStep ==
  ASSUME SafetyInv, Tick
  PROVE  SafetyInv'
<1>1. UNCHANGED <<live, warehouse, lock, bundles, commands, faults>>
  BY DEF Tick
<1>2. StoresTyped /\ runner \in [Runners -> Attempts]
  BY TypeParts DEF SafetyInv
<1>3. \A st \in StatusType : OlderStatus(st) \in StatusType
  BY ClockTyped DEF OlderStatus, StatusType
<1>4. StoresTyped'
  BY <1>1, <1>2, <1>3 DEF StoresTyped, Tick, live
<1>5. ASSUME NEW r \in Runners
      PROVE  /\ runner'[r] \in Attempts
             /\ runner'[r].pc = runner[r].pc /\ runner'[r].held = runner[r].held
             /\ runner'[r].rows = runner[r].rows /\ runner'[r].facts = runner[r].facts
             /\ runner'[r].payloads = runner[r].payloads
  <2>1. PICK me \in Attempts : me = runner[r]
    BY <1>2
  <2>2. PICK age \in Ages : age = Older(me.age)
    BY ClockTyped, <2>1 DEF Attempts
  <2>3. PICK previous \in StatusType : previous = OlderStatus(me.previous)
    BY <1>3, <2>1 DEF Attempts
  <2>4. \/ runner'[r] = me
        \/ runner'[r] = [me EXCEPT !.age = age, !.previous = previous]
    BY <2>1, <2>2, <2>3 DEF Tick
  <2>5. CASE runner'[r] = me
    BY <2>1, <2>5
  <2>6. CASE runner'[r] = [me EXCEPT !.age = age, !.previous = previous]
    BY <2>1, <2>6 DEF Attempts
  <2> QED
    BY <2>4, <2>5, <2>6
<1>6. runner' \in [Runners -> Attempts]
  <2>1. runner' = [r \in Runners |-> runner'[r]]
    BY DEF Tick
  <2> QED
    BY <1>5, <2>1
<1>7. TypeOK'
  <2>1. StoresTyped' /\ (runner \in [Runners -> Attempts])'
    BY <1>4, <1>6
  <2> QED
    BY <2>1, TypeParts, PTL
<1>8. ASSUME NEW r \in Runners PROVE CaptureFits(runner[r])'
  <2>1. CaptureFits(runner[r])
    BY DEF SafetyInv, CapturesFit
  <2> QED
    BY <1>1, <1>5, <2>1 DEF CaptureFits, live
<1>9. ASSUME NEW r \in Runners PROVE LockFits(r)'
  <2>1. LockFits(r)
    BY DEF SafetyInv, LocksFit
  <2> QED
    BY <1>1, <1>5, <2>1 DEF LockFits
<1>10. Ordered' /\ Coherence'
  BY <1>1 DEF SafetyInv, Ordered, Coherence, live
<1> QED
  BY <1>7, <1>8, <1>9, <1>10 DEF SafetyInv, CapturesFit, LocksFit

\* A backup sets out to hold what is in all three stores when it begins.
LEMMA BeginStep ==
  ASSUME SafetyInv, NEW r \in Runners, Begin(r), commands' \in 0..MaxCommands
  PROVE  SafetyInv'
<1>1. StoresTyped
  BY TypeParts DEF SafetyInv
<1>2. PICK held \in SUBSET Ingested : held = payloads \cap rows \cap facts
  BY <1>1 DEF StoresTyped
<1>3. PICK me : me = [Resting EXCEPT !.pc = "locking", !.previous = status, !.held = held]
  OBVIOUS
<1>4. me \in Attempts /\ me.pc = "locking" /\ me.held = held
  BY <1>1, <1>2, <1>3, RestingTyped DEF Attempts, Pcs, StoresTyped
<1>5. runner' = [runner EXCEPT ![r] = me]
  BY <1>2, <1>3 DEF Begin
<1>6. UNCHANGED live /\ UNCHANGED <<warehouse, lock, bundles, status, faults>>
  BY DEF Begin
<1>7. StoresTyped'
  BY <1>1, <1>6 DEF StoresTyped, live
<1>8. CaptureFits(me)
  BY <1>2, <1>4 DEF CaptureFits
<1>9. Coherence'
  BY <1>6 DEF SafetyInv, Coherence
<1> QED
  BY <1>4, <1>5, <1>6, <1>7, <1>8, <1>9, AttemptStep DEF Locked
\* The steps of an attempt that only move it on.
LEMMA LockSteps ==
  ASSUME SafetyInv, NEW r \in Runners,
         TakeLock(r) \/ LockTaken(r) \/ OpenWarehouse(r) \/ WarehouseBusy(r)
  PROVE  SafetyInv'
<1>1. StoresTyped /\ runner[r] \in Attempts
  BY TypeParts DEF SafetyInv
<1>2. CaptureFits(runner[r]) /\ LockFits(r)
  BY DEF SafetyInv, CapturesFit, LocksFit
<1>3. CASE TakeLock(r)
  <2>1. CaptureFits([runner[r] EXCEPT !.pc = "control"])
    BY <1>1, <1>2, <1>3, PcTyped DEF CaptureFits, TakeLock, At, Pcs, Locked
  <2>2. StoresTyped'
    BY <1>1, <1>3 DEF StoresTyped, TakeLock, live
  <2> QED
    BY <1>3, <2>1, <2>2, GotoStep DEF TakeLock, Pcs, Locked
<1>4. CASE LockTaken(r)
  <2>1. CaptureFits([runner[r] EXCEPT !.pc = "failing"])
    BY <1>1, <1>2, <1>4, PcTyped DEF CaptureFits, LockTaken, At, Pcs, Locked
  <2>2. StoresTyped'
    BY <1>1, <1>4 DEF StoresTyped, LockTaken, live
  <2> QED
    BY <1>4, <2>1, <2>2, GotoStep DEF LockTaken, Pcs, Locked
<1>5. CASE OpenWarehouse(r)
  <2>1. CaptureFits([runner[r] EXCEPT !.pc = "copying"])
    BY <1>1, <1>2, <1>5, PcTyped DEF CaptureFits, OpenWarehouse, At, Pcs, Locked
  <2>2. StoresTyped'
    BY <1>1, <1>5 DEF StoresTyped, OpenWarehouse, live
  <2>3. lock' = lock /\ lock = r
    BY <1>2, <1>5 DEF OpenWarehouse, LockFits, At, Locked
  <2> QED
    BY <1>5, <2>1, <2>2, <2>3, GotoStep DEF OpenWarehouse, Pcs, Locked
<1>6. CASE WarehouseBusy(r)
  <2>1. CaptureFits([runner[r] EXCEPT !.pc = "failing"])
    BY <1>1, <1>2, <1>6, PcTyped DEF CaptureFits, WarehouseBusy, At, Pcs, Locked
  <2>2. lock' = lock \/ lock \in {r, Nobody}
    BY <1>1, <1>6, LettingGo DEF WarehouseBusy
  <2>3. StoresTyped'
    BY <1>1, <1>6, LettingGo DEF StoresTyped, WarehouseBusy, live
  <2> QED
    BY <1>6, <2>1, <2>2, <2>3, GotoStep DEF WarehouseBusy, Pcs, Locked
<1> QED
  BY <1>3, <1>4, <1>5, <1>6

\* Each store is captured as it is at that moment, and the stores only grow.
LEMMA CaptureSteps ==
  ASSUME SafetyInv, NEW r \in Runners,
         CaptureControlPlane(r) \/ CaptureWarehouse(r) \/ CaptureLanding(r)
  PROVE  SafetyInv'
<1>1. StoresTyped /\ runner[r] \in Attempts
  BY TypeParts DEF SafetyInv
<1>2. CaptureFits(runner[r]) /\ LockFits(r) /\ Ordered /\ Coherence
  BY DEF SafetyInv, CapturesFit, LocksFit
<1>3. CASE CaptureControlPlane(r)
  <2>1. PICK me : me = [runner[r] EXCEPT !.pc = "opening", !.rows = rows]
    OBVIOUS
  <2>2. /\ me \in Attempts /\ me.pc = "opening" /\ me.rows = rows /\ me.held = runner[r].held
    BY <1>1, <2>1 DEF Attempts, Pcs, Locked, StoresTyped
  <2>3. CaptureFits(me)
    BY <1>2, <1>3, <2>2 DEF CaptureFits, Ordered, CaptureControlPlane, At
  <2>4. /\ runner' = [runner EXCEPT ![r] = me] /\ lock' = lock /\ lock = r
        /\ UNCHANGED <<live, bundles>> /\ StoresTyped' /\ Coherence'
    BY <1>1, <1>2, <1>3, <2>1
    DEF CaptureControlPlane, LockFits, At, Locked, StoresTyped, Coherence, live
  <2> QED
    BY <2>2, <2>3, <2>4, AttemptStep
<1>4. CASE CaptureWarehouse(r)
  <2>1. PICK me : me = [runner[r] EXCEPT !.pc = "landing", !.facts = facts]
    OBVIOUS
  <2>2. /\ me \in Attempts /\ me.pc = "landing" /\ me.facts = facts
        /\ me.rows = runner[r].rows /\ me.held = runner[r].held
    BY <1>1, <2>1 DEF Attempts, Pcs, Locked, StoresTyped
  <2>3. CaptureFits(me)
    BY <1>2, <1>4, <2>2 DEF CaptureFits, CaptureWarehouse, At
  <2>4. /\ runner' = [runner EXCEPT ![r] = me] /\ lock' = lock /\ lock = r
        /\ UNCHANGED <<live, bundles>> /\ StoresTyped' /\ Coherence'
    BY <1>1, <1>2, <1>4, <2>1
    DEF CaptureWarehouse, LockFits, At, Locked, StoresTyped, Coherence, live
  <2> QED
    BY <2>2, <2>3, <2>4, AttemptStep
<1>5. CASE CaptureLanding(r)
  <2>1. PICK me : me = [runner[r] EXCEPT !.pc = "staged", !.payloads = payloads]
    OBVIOUS
  <2>2. /\ me \in Attempts /\ me.pc = "staged" /\ me.payloads = payloads
        /\ me.rows = runner[r].rows /\ me.facts = runner[r].facts /\ me.held = runner[r].held
    BY <1>1, <2>1 DEF Attempts, Pcs, Locked, StoresTyped
  <2>3. CaptureFits(me)
    BY <1>2, <1>5, <2>2 DEF CaptureFits, Ordered, CaptureLanding, At
  <2>4. /\ runner' = [runner EXCEPT ![r] = me] /\ lock' = lock /\ lock = r
        /\ UNCHANGED <<live, bundles>> /\ StoresTyped' /\ Coherence'
    BY <1>1, <1>2, <1>5, <2>1
    DEF CaptureLanding, PayloadsFound, LockFits, At, Locked, StoresTyped, Coherence, live
  <2> QED
    BY <2>2, <2>3, <2>4, AttemptStep
<1> QED
  BY <1>3, <1>4, <1>5
\* All that a publication may change of an attempt: where it is, and how many
\* have overtaken it.
Overtaking(q, pc) ==
  /\ runner'[q] \in Attempts
  /\ runner'[q].pc = pc
  /\ runner'[q].held = runner[q].held /\ runner'[q].rows = runner[q].rows
  /\ runner'[q].facts = runner[q].facts /\ runner'[q].payloads = runner[q].payloads

\* Bundles appear, are marked and disappear under the lock.
LEMMA BundleSteps ==
  ASSUME SafetyInv, NEW r \in Runners, Publish(r) \/ Prune(r) \/ FinishRemoval(r)
  PROVE  SafetyInv'
<1>1. StoresTyped /\ runner[r] \in Attempts /\ Retention \in Nat /\ bundles \in Seq(Bundle)
  BY TypeParts, ConstantsOK DEF SafetyInv, ConstantsOK, StoresTyped
<1>2. CaptureFits(runner[r]) /\ LockFits(r) /\ Coherence
  BY DEF SafetyInv, CapturesFit, LocksFit
<1>3. lock = r /\ lock' = lock /\ UNCHANGED <<live, warehouse, status, commands, faults>>
  BY <1>2 DEF Publish, Prune, FinishRemoval, At, LockFits, Locked
<1>4. ASSUME NEW pc \in {"pruning", "removing"}, Goto(r, pc), runner[r].pc \in {"staged", "pruning", "removing"},
             bundles' \in Seq(Bundle), Coherence', pc = "removing" => Len(bundles') > Retention
      PROVE  SafetyInv'
  <2>1. PICK me : me = [runner[r] EXCEPT !.pc = pc]
    OBVIOUS
  <2>2. /\ me \in Attempts /\ me.pc = pc /\ me.held = runner[r].held /\ me.rows = runner[r].rows
        /\ me.facts = runner[r].facts /\ me.payloads = runner[r].payloads
    <3>1. pc \in Pcs
      BY DEF Pcs, Locked
    <3> QED
      BY <1>1, <2>1, <3>1, PcTyped
  <2>3. CaptureFits(me)
    BY <1>2, <1>4, <2>2 DEF CaptureFits
  <2>4. runner' = [runner EXCEPT ![r] = me]
    BY <1>4, <2>1 DEF Goto
  <2>5. StoresTyped'
    BY <1>1, <1>3, <1>4 DEF StoresTyped, live
  <2> QED
    BY <1>3, <1>4, <2>2, <2>3, <2>4, <2>5, AttemptStep
<1>5. \A q \in Runners : runner[q] \in Attempts
  BY TypeParts DEF SafetyInv
<1>6. CASE Publish(r)
  <2>1. PICK b : b = [rows |-> runner[r].rows, facts |-> runner[r].facts,
                      payloads |-> runner[r].payloads, held |-> runner[r].held, whole |-> TRUE]
    OBVIOUS
  <2>2. b \in Bundle /\ Coherent(b)
    BY <1>1, <1>2, <1>6, <2>1 DEF Bundle, Coherent, Attempts, CaptureFits, Publish, At
  <2>3. bundles' = InsertAt(bundles, Len(bundles) + 1 - LaterBundles(r), b)
    BY <1>6, <2>1 DEF Publish
  <2>4. Len(bundles) + 1 - LaterBundles(r) \in 1..(Len(bundles) + 1)
    BY <1>1, LaterBounded, LenProperties
  <2>5. bundles' \in Seq(Bundle) /\ Coherence'
    BY <1>1, <1>2, <2>2, <2>3, <2>4, InsertCoherent DEF Coherence
  <2>6. Overtaking(r, "pruning")
    <3>1. PICK me \in Attempts : me = runner[r]
      BY <1>1
    <3>2. runner'[r] = [me EXCEPT !.pc = "pruning", !.overtaken = 0]
      BY <1>6, <3>1 DEF Publish
    <3>3. "pruning" \in Pcs /\ 0 \in Nat
      BY DEF Pcs, Locked
    <3>4. /\ runner'[r] \in Attempts /\ runner'[r].pc = "pruning"
      BY <3>1, <3>2, <3>3 DEF Attempts
    <3>5. /\ runner'[r].held = me.held /\ runner'[r].rows = me.rows
          /\ runner'[r].facts = me.facts /\ runner'[r].payloads = me.payloads
      BY <3>1, <3>2 DEF Attempts
    <3> QED
      BY <3>1, <3>4, <3>5 DEF Overtaking
  <2>7. ASSUME NEW q \in Runners \ {r} PROVE Overtaking(q, runner[q].pc)
    <3>1. PICK later \in Nat : later = LaterBundles(q) + 1
      BY <1>1, <1>5, LaterBounded, LenProperties
    <3>2. PICK me \in Attempts : me = runner[q]
      BY <1>5
    <3>3. runner'[q] = [me EXCEPT !.overtaken = later] \/ runner'[q] = me
      BY <1>6, <3>1, <3>2 DEF Publish
    <3>4. CASE runner'[q] = [me EXCEPT !.overtaken = later]
      BY <3>2, <3>4 DEF Overtaking, Attempts
    <3> QED
      BY <3>2, <3>3, <3>4 DEF Overtaking
  <2>8. runner' = [q \in Runners |-> runner'[q]]
    BY <1>6 DEF Publish
  <2>9. StoresTyped'
    BY <1>1, <1>3, <2>5 DEF StoresTyped, live
  <2>10. TypeOK'
    <3>1. StoresTyped' /\ (runner \in [Runners -> Attempts])'
      BY <2>6, <2>7, <2>8, <2>9 DEF Overtaking
    <3> QED
      BY <3>1, TypeParts, PTL
  <2>11. runner[r].pc = "staged"
    BY <1>6 DEF Publish, At
  <2>12. CapturesFit'
    <3>1. ASSUME NEW q \in Runners PROVE CaptureFits(runner[q])'
      <4>1. CaptureFits(runner[q])
        BY DEF SafetyInv, CapturesFit
      <4>2. CASE q = r
        BY <1>3, <2>6, <2>11, <4>1, <4>2 DEF CaptureFits, Overtaking, live
      <4>3. CASE q # r
        BY <1>3, <2>7, <4>1, <4>3 DEF CaptureFits, Overtaking, live
      <4> QED
        BY <4>2, <4>3
    <3> QED
      BY <3>1 DEF CapturesFit
  <2>13. LocksFit'
    <3>1. ASSUME NEW q \in Runners PROVE LockFits(q)'
      <4>1. CASE q = r
        <5>1. runner'[q].pc = "pruning" /\ lock' = q
          BY <1>3, <2>6, <4>1 DEF Overtaking
        <5> QED
          BY <5>1 DEF LockFits
      <4>2. CASE q # r
        <5>1. LockFits(q) /\ lock # q /\ runner'[q].pc = runner[q].pc
          BY <1>3, <2>7, <4>2 DEF Overtaking, SafetyInv, LocksFit
        <5> QED
          BY <5>1 DEF LockFits, Locked
      <4> QED
        BY <4>1, <4>2
    <3> QED
      BY <3>1 DEF LocksFit
  <2>14. Ordered'
    BY <1>3 DEF SafetyInv, Ordered, live
  <2> QED
    BY <2>5, <2>10, <2>12, <2>14, <2>13 DEF SafetyInv
<1>7. CASE Prune(r)
  <2>1. /\ bundles' = [bundles EXCEPT ![1].whole = FALSE] /\ Goto(r, "removing")
        /\ runner[r].pc = "pruning" /\ Len(bundles) > Retention
    BY <1>7 DEF Prune, At, Doomed
  <2>2. Len(bundles) > 0
    BY <1>1, <2>1, LenProperties
  <2>3. bundles' \in Seq(Bundle) /\ Len(bundles') = Len(bundles) /\ Coherence'
    BY <1>1, <1>2, <2>1, <2>2, PruningCoherent DEF Coherence
  <2> QED
    BY <1>4, <2>1, <2>3
<1>8. CASE FinishRemoval(r)
  <2>1. bundles' = RemoveAt(bundles, 1) /\ Goto(r, "pruning") /\ runner[r].pc = "removing"
    BY <1>8 DEF FinishRemoval, At, Doomed
  <2>2. Len(bundles) > Retention
    BY <1>2, <2>1 DEF LockFits
  <2>3. bundles # <<>>
    BY <1>1, <2>2
  <2>4. bundles' \in Seq(Bundle) /\ Coherence'
    BY <1>1, <1>2, <2>1, <2>3, RemovalCoherent DEF Coherence
  <2> QED
    BY <1>4, <2>1, <2>4
<1> QED
  BY <1>6, <1>7, <1>8

\* However an attempt ends, it leaves the bundles coherent.
LEMMA EndSteps ==
  ASSUME SafetyInv, NEW r \in Runners,
         RecordSuccess(r) \/ RecordFailure(r) \/ Fail(r) \/ Crash(r)
  PROVE  SafetyInv'
<1>1. StoresTyped /\ runner[r] \in Attempts /\ Retention \in Nat /\ bundles \in Seq(Bundle)
  BY TypeParts, ConstantsOK DEF SafetyInv, ConstantsOK, StoresTyped
<1>2. CaptureFits(runner[r]) /\ LockFits(r) /\ Coherence
  BY DEF SafetyInv, CapturesFit, LocksFit
<1>3. CaptureFits(Resting) /\ Resting \in Attempts /\ Resting.pc = "idle"
  BY RestingTyped DEF CaptureFits, Resting
<1>4. CASE RecordSuccess(r)
  <2>1. /\ runner' = [runner EXCEPT ![r] = Resting] /\ lock = r /\ lock' = Nobody
        /\ UNCHANGED <<live, warehouse, bundles, commands, faults>>
    BY <1>2, <1>4 DEF RecordSuccess, LockFits, At, Locked
  <2>2. status' \in StatusType
    BY <1>1, <1>4 DEF RecordSuccess, StatusType, Attempts
  <2>3. StoresTyped' /\ Coherence'
    BY <1>1, <1>2, <2>1, <2>2 DEF StoresTyped, Coherence, live
  <2> QED
    BY <1>3, <2>1, <2>3, AttemptStep DEF Locked
<1>5. CASE RecordFailure(r)
  <2>1. /\ runner' = [runner EXCEPT ![r] = Resting]
        /\ UNCHANGED <<live, warehouse, lock, bundles, commands, faults>>
    BY <1>5 DEF RecordFailure
  <2>2. status' \in StatusType
    BY <1>1, <1>5 DEF RecordFailure, FailureStatus, StatusType, Attempts
  <2>3. StoresTyped' /\ Coherence'
    BY <1>1, <1>2, <2>1, <2>2 DEF StoresTyped, Coherence, live
  <2> QED
    BY <1>3, <2>1, <2>3, AttemptStep DEF Locked
<1>6. ASSUME NEW me \in Attempts, me.pc \notin Locked, CaptureFits(me), LetGo(r), StoppedRemoving(r),
             runner' = [runner EXCEPT ![r] = me], faults' \in 0..MaxFaults,
             UNCHANGED <<live, status, commands>>
      PROVE  SafetyInv'
  <2>1. \/ bundles' = bundles
        \/ runner[r].pc = "removing" /\ bundles' = RemoveAt(bundles, 1)
    BY <1>6 DEF StoppedRemoving, At, Doomed
  <2>2. /\ lock' = lock \/ lock \in {r, Nobody}
        /\ lock' \in Runners \cup {Nobody} /\ warehouse' \in Runners \cup {Nobody, Writer}
    BY <1>1, <1>6, LettingGo
  <2>3. CASE bundles' = bundles
    <3>1. StoresTyped' /\ Coherence'
      BY <1>1, <1>2, <1>6, <2>2, <2>3 DEF StoresTyped, Coherence, live
    <3> QED
      BY <1>6, <2>2, <2>3, <3>1, AttemptStep DEF Locked
  <2>4. CASE runner[r].pc = "removing" /\ bundles' = RemoveAt(bundles, 1)
    <3>1. Len(bundles) > Retention /\ lock = r
      BY <1>2, <2>4 DEF LockFits, Locked
    <3>2. bundles # <<>>
      BY <1>1, <3>1
    <3>3. bundles' \in Seq(Bundle) /\ Coherence'
      BY <1>1, <1>2, <2>4, <3>2, RemovalCoherent DEF Coherence
    <3>4. StoresTyped'
      BY <1>1, <1>6, <2>2, <3>3 DEF StoresTyped, live
    <3> QED
      BY <1>6, <2>2, <3>1, <3>3, <3>4, AttemptStep DEF Locked
  <2> QED
    BY <2>1, <2>3, <2>4
<1>7. CASE Fail(r)
  <2>1. PICK me : me = [runner[r] EXCEPT !.pc = "failing"]
    OBVIOUS
  <2>2. me \in Attempts /\ me.pc = "failing" /\ me.held = runner[r].held
    BY <1>1, <2>1, PcTyped DEF Pcs
  <2>3. CaptureFits(me)
    BY <1>2, <1>7, <2>2 DEF CaptureFits, Fail
  <2>4. runner' = [runner EXCEPT ![r] = me]
    BY <1>7, <2>1 DEF Fail, Goto
  <2>5. faults' \in 0..MaxFaults
    BY <1>1, <1>7, ConstantsOK DEF Fail, StoresTyped, ConstantsOK
  <2> QED
    BY <1>6, <1>7, <2>2, <2>3, <2>4, <2>5 DEF Fail, Locked
<1>8. CASE Crash(r)
  <2>1. faults' \in 0..MaxFaults
    BY <1>1, <1>8, ConstantsOK DEF Crash, StoresTyped, ConstantsOK
  <2> QED
    BY <1>3, <1>6, <1>8, <2>1 DEF Crash, Locked
<1> QED
  BY <1>4, <1>5, <1>7, <1>8
-----------------------------------------------------------------------------
(* Theorems *)

LEMMA SafetyInit == Init => SafetyInv
<1> SUFFICES ASSUME Init PROVE SafetyInv
  OBVIOUS
<1>1. Interval \in Ages
  BY ConstantsOK DEF ConstantsOK, Ages
<1>2. <<>> \in Seq(Bundle) /\ DOMAIN <<>> = {}
  BY EmptySeq
<1>3. StoresTyped
  BY <1>1, <1>2, ConstantsOK DEF Init, StoresTyped, StatusType, ConstantsOK
<1>4. runner \in [Runners -> Attempts]
  BY RestingTyped DEF Init
<1>5. TypeOK
  BY <1>3, <1>4, TypeParts
<1>6. CapturesFit /\ LocksFit
  BY RestingTyped DEF Init, CapturesFit, CaptureFits, LocksFit, LockFits, Locked
<1>7. Ordered /\ Coherence
  BY <1>2 DEF Init, Ordered, Coherence
<1> QED
  BY <1>5, <1>6, <1>7 DEF SafetyInv

LEMMA SafetyKept == SafetyInv /\ [Next]_vars => SafetyInv'
<1> SUFFICES ASSUME SafetyInv, [Next]_vars PROVE SafetyInv'
  OBVIOUS
<1>1. CASE UNCHANGED vars
  BY <1>1 DEF vars, live, SafetyInv, TypeOK, Ordered, CapturesFit, CaptureFits, LocksFit, LockFits,
     Coherence
<1>2. ASSUME NEW r \in Runners, BackupDue /\ Begin(r) /\ UNCHANGED commands PROVE SafetyInv'
  BY <1>2, BeginStep DEF SafetyInv, TypeOK
<1>3. ASSUME NEW r \in Runners, BeginCommand(r) PROVE SafetyInv'
  <2>1. commands' \in 0..MaxCommands
    BY <1>3, ConstantsOK DEF BeginCommand, SafetyInv, TypeOK, ConstantsOK
  <2> QED
    BY <1>3, <2>1, BeginStep DEF BeginCommand
<1>4. ASSUME NEW r \in Runners, Attempt(r) PROVE SafetyInv'
  BY <1>4, LockSteps, CaptureSteps, BundleSteps, EndSteps DEF Attempt
<1>5. Loops \subseteq Runners /\ Operators \subseteq Runners
  BY DEF Runners
<1> QED
  BY <1>1, <1>2, <1>3, <1>4, <1>5, IngestStep, TickStep, EndSteps DEF Next, BeginScheduled

\* The inductive invariant: types, the order of the stores, what each attempt
\* has captured, the lock, and the bundles.
THEOREM Safety == Spec => []SafetyInv
  BY SafetyInit, SafetyKept, PTL DEF Spec

\* Every variable keeps its type.
THEOREM TypeCorrect == Spec => []TypeOK
<1>1. SafetyInv => TypeOK
  BY DEF SafetyInv
<1> QED
  BY <1>1, Safety, PTL

\* Every bundle, captured store by store beside any amount of ingestion, holds
\* the payload of every row and fact in it, and all that was ingested when the
\* backup began (create_backup's order of capture).
THEOREM BundlesAreCoherent == Spec => []BundlesCoherent
<1>1. SafetyInv => BundlesCoherent
  <2> SUFFICES ASSUME SafetyInv, NEW b \in Range(bundles) PROVE Coherent(b)
    BY DEF BundlesCoherent, Coherent
  <2>1. PICK n \in DOMAIN bundles : b = bundles[n]
    BY DEF Range
  <2> QED
    BY <2>1 DEF SafetyInv, Coherence
<1> QED
  BY <1>1, Safety, PTL

\* Once there is a bundle to restore there always is one: pruning, wherever it
\* stops, never touches the newest (prune_bundles, retention_count >= 1).
THEOREM RestorableStays == Spec => AlwaysRestorable
<1>1. ASSUME SafetyInv, [Next]_vars, Restorable PROVE Restorable'
  <2>1. bundles \in Seq(Bundle) /\ Retention \in Nat \ {0} /\ bundles # <<>> /\ bundles[Len(bundles)].whole
    BY <1>1, TypeParts, ConstantsOK DEF SafetyInv, StoresTyped, ConstantsOK, Restorable, Last
  <2>2. /\ DOMAIN bundles = 1..Len(bundles) /\ Len(bundles) \in Nat
    BY <2>1, LenProperties
  <2>3. CASE bundles' = bundles
    BY <2>1, <2>3 DEF Restorable, Last
  <2>4. ASSUME NEW r \in Runners, Publish(r) PROVE Restorable'
    <3>1. PICK b : /\ b = [rows |-> runner[r].rows, facts |-> runner[r].facts,
                           payloads |-> runner[r].payloads, held |-> runner[r].held, whole |-> TRUE]
                   /\ bundles' = InsertAt(bundles, Len(bundles) + 1 - LaterBundles(r), b)
      BY <2>4 DEF Publish
    <3>2. runner[r] \in Attempts
      BY <1>1, TypeParts DEF SafetyInv
    <3>3. b \in Bundle /\ b.whole
      BY <3>1, <3>2 DEF Attempts, Bundle
    <3>4. PICK i \in 1..(Len(bundles) + 1) : bundles' = InsertAt(bundles, i, b)
      BY <2>1, <2>2, <3>1, <3>2, LaterBounded
    <3>5. /\ bundles' \in Seq(Bundle) /\ Len(bundles') = Len(bundles) + 1
          /\ bundles'[Len(bundles) + 1] = IF i = Len(bundles) + 1 THEN b ELSE bundles[Len(bundles)]
      <4>1. /\ bundles' \in Seq(Bundle) /\ Len(bundles') = Len(bundles) + 1
            /\ \A n \in 1..(Len(bundles) + 1) :
                 bundles'[n] = IF n < i THEN bundles[n] ELSE IF n = i THEN b ELSE bundles[n - 1]
        BY <2>1, <3>3, <3>4, OneInserted
      <4> QED
        BY <2>2, <4>1
    <3>6. bundles'[Len(bundles')].whole /\ bundles' # <<>>
      BY <2>1, <2>2, <3>3, <3>5
    <3> QED
      BY <3>6 DEF Restorable, Last
  <2>5. ASSUME NEW r \in Runners, Prune(r) PROVE Restorable'
    <3>1. Len(bundles) > 1 /\ bundles' = [bundles EXCEPT ![1].whole = FALSE]
      BY <2>1, <2>2, <2>5 DEF Prune, Doomed
    <3>2. bundles'[Len(bundles)] = bundles[Len(bundles)] /\ Len(bundles') = Len(bundles)
      BY <2>1, <2>2, <3>1
    <3> QED
      BY <2>1, <2>2, <3>1, <3>2 DEF Restorable, Last
  <2>6. ASSUME NEW r \in Runners, runner[r].pc = "removing", bundles' = RemoveAt(bundles, 1)
        PROVE  Restorable'
    <3>1. Len(bundles) > 1
      BY <1>1, <2>1, <2>2, <2>6 DEF SafetyInv, LocksFit, LockFits
    <3>2. Len(bundles') = Len(bundles) - 1 /\ bundles' \in Seq(Bundle)
          /\ \A n \in 1..(Len(bundles) - 1) : bundles'[n] = bundles[n + 1]
      BY <2>1, <2>6, FirstRemoved
    <3>3. bundles'[Len(bundles')] = bundles[Len(bundles)]
      BY <2>2, <3>1, <3>2
    <3>4. bundles' # <<>>
      BY <2>2, <3>1, <3>2
    <3> QED
      BY <2>1, <3>3, <3>4 DEF Restorable, Last
  <2>7. CASE UNCHANGED vars
    BY <2>3, <2>7 DEF vars
  <2>8. CASE Ingest \/ Tick
    BY <2>3, <2>8 DEF Ingest, Tick, WritePayload, CreateRun, LoadFacts, OpenForWriting
  <2>9. ASSUME NEW r \in Runners, BeginScheduled(r) \/ BeginCommand(r) PROVE Restorable'
    BY <2>3, <2>9 DEF BeginScheduled, BeginCommand, Begin
  <2>10. ASSUME NEW r \in Runners, Attempt(r) PROVE Restorable'
    <3>1. CASE Publish(r) \/ Prune(r)
      BY <3>1, <2>4, <2>5
    <3>2. CASE FinishRemoval(r)
      BY <3>2, <2>6 DEF FinishRemoval, At, Doomed
    <3>3. CASE \/ TakeLock(r) \/ LockTaken(r) \/ CaptureControlPlane(r) \/ OpenWarehouse(r)
               \/ CaptureWarehouse(r) \/ CaptureLanding(r) \/ RecordSuccess(r)
               \/ WarehouseBusy(r) \/ RecordFailure(r)
      BY <2>3, <3>3 DEF TakeLock, LockTaken, CaptureControlPlane, OpenWarehouse, CaptureWarehouse,
         CaptureLanding, RecordSuccess, WarehouseBusy, RecordFailure
    <3> QED
      BY <2>10, <3>1, <3>2, <3>3 DEF Attempt
  <2>11. ASSUME NEW r \in Runners, Fail(r) \/ Crash(r) PROVE Restorable'
    <3>1. bundles' = bundles \/ (runner[r].pc = "removing" /\ bundles' = RemoveAt(bundles, 1))
      BY <2>11 DEF Fail, Crash, StoppedRemoving, At, Doomed
    <3> QED
      BY <2>3, <2>6, <3>1
  <2>12. Loops \subseteq Runners /\ Operators \subseteq Runners
    BY DEF Runners
  <2> QED
    BY <1>1, <2>7, <2>8, <2>9, <2>10, <2>11, <2>12 DEF Next
<1>2. SafetyInv /\ [Next]_vars => (Restorable => Restorable')
  BY <1>1
<1>3. SafetyInv /\ [Next]_vars => [Restorable => Restorable']_vars
  BY <1>2
<1> QED
  BY <1>3, Safety, PTL DEF Spec, AlwaysRestorable

-----------------------------------------------------------------------------
(* Nothing stays locked *)

\* Whoever holds the lock is between its first capture and the end of its
\* pruning, and a backup that has the warehouse is copying it.
HoldersWork ==
  /\ lock # Nobody => runner[lock].pc \in Locked
  /\ warehouse \in Runners => At(warehouse, "copying")

\* No lock outlives the attempt that took it, the warehouse is held inside the
\* lock, and a backup that opens the warehouse waits for no other backup.
LocksLetGo ==
  /\ lock # Nobody => lock \in Runners /\ runner[lock].pc \in Locked
  /\ \A r \in Runners :
       /\ warehouse = r => lock = r /\ At(r, "copying")
       /\ At(r, "opening") => warehouse \in {Nobody, Writer}

\* What the holders need of the step of one backup.
LEMMA HoldersKept ==
  ASSUME SafetyInv, HoldersWork, NEW r \in Runners,
         \A q \in Runners \ {r} : runner'[q].pc = runner[q].pc,
         lock' \in {lock, r, Nobody}, lock' = r => runner'[r].pc \in Locked,
         warehouse' \in {warehouse, r, Nobody, Writer},
         warehouse' = r => runner'[r].pc = "copying"
  PROVE  HoldersWork'
<1>1. lock \in Runners \cup {Nobody} /\ Writer \notin Runners /\ Nobody \notin Runners
  BY ConstantsOK DEF ConstantsOK, SafetyInv, TypeOK
<1>2. lock' # Nobody => runner'[lock'].pc \in Locked
  BY <1>1 DEF HoldersWork
<1>3. warehouse' \in Runners => runner'[warehouse'].pc = "copying"
  BY <1>1 DEF HoldersWork, At
<1> QED
  BY <1>2, <1>3 DEF HoldersWork, At

\* A step that moves one backup to another place.
LEMMA GotoHolders ==
  ASSUME SafetyInv, HoldersWork, NEW r \in Runners, NEW me,
         runner' = [runner EXCEPT ![r] = me],
         lock' \in {lock, r, Nobody}, lock' = r => me.pc \in Locked,
         warehouse' \in {warehouse, r, Nobody, Writer}, warehouse' = r => me.pc = "copying"
  PROVE  HoldersWork'
<1>1. runner'[r] = me /\ \A q \in Runners \ {r} : runner'[q] = runner[q]
  BY TypeParts DEF SafetyInv
<1>2. \A q \in Runners \ {r} : runner'[q].pc = runner[q].pc
  BY <1>1
<1> QED
  BY <1>1, <1>2, HoldersKept

\* What a backup holds where it stands.
LEMMA HeldBy ==
  ASSUME SafetyInv, HoldersWork, NEW r \in Runners
  PROVE  /\ runner[r] \in Attempts
         /\ lock = r => runner[r].pc \in Locked
         /\ warehouse = r => runner[r].pc = "copying"
<1>1. runner[r] \in Attempts /\ r # Nobody
  BY TypeParts, ConstantsOK DEF SafetyInv, ConstantsOK
<1> QED
  BY <1>1 DEF HoldersWork, At

LEMMA TickHolders ==
  ASSUME SafetyInv, HoldersWork, Tick
  PROVE  HoldersWork'
<1>1. lock' = lock /\ warehouse' = warehouse /\ lock \in Runners \cup {Nobody}
  BY DEF Tick, SafetyInv, TypeOK
<1>2. ASSUME NEW q \in Runners PROVE runner'[q].pc = runner[q].pc
  <2>1. runner[q] \in Attempts
    BY TypeParts DEF SafetyInv
  <2>2. runner'[q] = IF At(q, "idle") THEN runner[q]
                     ELSE [runner[q] EXCEPT !.age = Older(@), !.previous = OlderStatus(@)]
    BY DEF Tick
  <2> QED
    BY <2>1, <2>2 DEF Attempts
<1> QED
  BY <1>1, <1>2 DEF HoldersWork, At

LEMMA AttemptHolders ==
  ASSUME SafetyInv, HoldersWork, NEW r \in Runners, Attempt(r)
  PROVE  HoldersWork'
<1> USE HeldBy
<1>1. CASE TakeLock(r)
  <2> DEFINE me == [runner[r] EXCEPT !.pc = "control"]
  <2>1. /\ runner' = [runner EXCEPT ![r] = me] /\ me.pc = "control" /\ runner[r].pc = "locking"
        /\ lock' = r /\ warehouse' = warehouse
    BY <1>1 DEF TakeLock, Goto, At, Attempts
  <2> QED
    BY <2>1, GotoHolders DEF Locked
<1>2. CASE LockTaken(r)
  <2> DEFINE me == [runner[r] EXCEPT !.pc = "failing"]
  <2>1. /\ runner' = [runner EXCEPT ![r] = me] /\ runner[r].pc = "locking"
        /\ lock' = lock /\ warehouse' = warehouse
    BY <1>2 DEF LockTaken, Goto, At
  <2> QED
    BY <2>1, GotoHolders DEF Locked
<1>3. CASE CaptureControlPlane(r)
  <2> DEFINE me == [runner[r] EXCEPT !.pc = "opening", !.rows = rows]
  <2>1. /\ runner' = [runner EXCEPT ![r] = me] /\ me.pc = "opening" /\ runner[r].pc = "control"
        /\ lock' = lock /\ warehouse' = warehouse
    BY <1>3 DEF CaptureControlPlane, At, Attempts
  <2> QED
    BY <2>1, GotoHolders DEF Locked
<1>4. CASE OpenWarehouse(r)
  <2> DEFINE me == [runner[r] EXCEPT !.pc = "copying"]
  <2>1. /\ runner' = [runner EXCEPT ![r] = me] /\ me.pc = "copying"
        /\ lock' = lock /\ warehouse' = r
    BY <1>4 DEF OpenWarehouse, Goto, Attempts
  <2> QED
    BY <2>1, GotoHolders DEF Locked
<1>5. CASE CaptureWarehouse(r)
  <2> DEFINE me == [runner[r] EXCEPT !.pc = "landing", !.facts = facts]
  <2>1. /\ runner' = [runner EXCEPT ![r] = me] /\ me.pc = "landing"
        /\ lock' = lock /\ warehouse' = Nobody
    BY <1>5 DEF CaptureWarehouse, Attempts
  <2>2. Nobody # r
    BY ConstantsOK DEF ConstantsOK
  <2> QED
    BY <2>1, <2>2, GotoHolders DEF Locked
<1>6. CASE CaptureLanding(r)
  <2> DEFINE me == [runner[r] EXCEPT !.pc = "staged", !.payloads = PayloadsFound(r)]
  <2>1. /\ runner' = [runner EXCEPT ![r] = me] /\ me.pc = "staged" /\ runner[r].pc = "landing"
        /\ lock' = lock /\ warehouse' = warehouse
    BY <1>6 DEF CaptureLanding, At, Attempts
  <2> QED
    BY <2>1, GotoHolders DEF Locked
<1>7. CASE Publish(r)
  <2>1. PICK behind \in Overtaken(r) :
          runner' = [q \in Runners |->
            IF q = r THEN [runner[r] EXCEPT !.pc = "pruning", !.overtaken = 0]
            ELSE IF q \in behind THEN [runner[q] EXCEPT !.overtaken = LaterBundles(q) + 1]
            ELSE runner[q]]
    BY <1>7 DEF Publish
  <2>2. runner'[r] = [runner[r] EXCEPT !.pc = "pruning", !.overtaken = 0]
    BY <2>1
  <2>3. runner'[r].pc = "pruning" /\ runner[r].pc = "staged"
        /\ lock' = lock /\ warehouse' = warehouse
    BY <1>7, <2>2 DEF Publish, At, Attempts
  <2>4. ASSUME NEW q \in Runners \ {r} PROVE runner'[q].pc = runner[q].pc
    <3>1. runner'[q] = IF q \in behind THEN [runner[q] EXCEPT !.overtaken = LaterBundles(q) + 1]
                       ELSE runner[q]
      BY <2>1
    <3> QED
      BY <3>1 DEF Attempts
  <2> QED
    BY <2>3, <2>4, HoldersKept DEF Locked
<1>8. CASE Prune(r) \/ FinishRemoval(r)
  <2> DEFINE me == IF Prune(r) THEN [runner[r] EXCEPT !.pc = "removing"]
                   ELSE [runner[r] EXCEPT !.pc = "pruning"]
  <2>1. /\ runner' = [runner EXCEPT ![r] = me] /\ runner[r].pc \in {"pruning", "removing"}
        /\ lock' = lock /\ warehouse' = warehouse
    BY <1>8 DEF Prune, FinishRemoval, Goto, At
  <2>2. me.pc \in {"pruning", "removing"}
    BY DEF Attempts
  <2> HIDE DEF me
  <2> QED
    BY <2>1, <2>2, GotoHolders DEF Locked
<1>9. CASE RecordSuccess(r)
  <2>1. /\ runner' = [runner EXCEPT ![r] = Resting] /\ runner[r].pc = "pruning"
        /\ lock' = Nobody /\ warehouse' = warehouse
    BY <1>9 DEF RecordSuccess, At
  <2>2. Nobody # r
    BY ConstantsOK DEF ConstantsOK
  <2> QED
    BY <2>1, <2>2, GotoHolders DEF Locked
<1>10. CASE WarehouseBusy(r)
  <2> DEFINE me == [runner[r] EXCEPT !.pc = "failing"]
  <2>1. runner' = [runner EXCEPT ![r] = me] /\ LetGo(r) /\ Nobody # r
    BY <1>10, ConstantsOK DEF WarehouseBusy, Goto, ConstantsOK
  <2> QED
    BY <2>1, GotoHolders DEF LetGo
<1>11. CASE RecordFailure(r)
  <2>1. /\ runner' = [runner EXCEPT ![r] = Resting] /\ runner[r].pc = "failing"
        /\ lock' = lock /\ warehouse' = warehouse
    BY <1>11 DEF RecordFailure, At
  <2> QED
    BY <2>1, GotoHolders DEF Locked
<1> QED
  BY <1>1, <1>2, <1>3, <1>4, <1>5, <1>6, <1>7, <1>8, <1>9, <1>10, <1>11 DEF Attempt

LEMMA HoldersStep == SafetyInv /\ HoldersWork /\ [Next]_vars => HoldersWork'
<1> SUFFICES ASSUME SafetyInv, HoldersWork, [Next]_vars
             PROVE  HoldersWork'
  OBVIOUS
<1>1. CASE UNCHANGED vars
  BY <1>1 DEF vars, HoldersWork, At
<1>2. CASE Ingest
  <2>1. /\ runner' = runner /\ lock' = lock /\ warehouse' \in {warehouse, Writer, Nobody}
        /\ Writer \notin Runners /\ Nobody \notin Runners
    BY <1>2, ConstantsOK DEF Ingest, WritePayload, CreateRun, OpenForWriting, LoadFacts, ConstantsOK
  <2> QED
    BY <2>1 DEF HoldersWork, At
<1>3. ASSUME NEW r \in Runners, Begin(r)
      PROVE  HoldersWork'
  <2> DEFINE me == [Resting EXCEPT !.pc = "locking", !.previous = status,
                      !.held = payloads \cap rows \cap facts]
  <2>1. /\ runner' = [runner EXCEPT ![r] = me] /\ runner[r].pc = "idle"
        /\ lock' = lock /\ warehouse' = warehouse
    BY <1>3 DEF Begin, At
  <2>2. lock' # r /\ warehouse' # r
    BY <2>1, HeldBy DEF Locked
  <2> HIDE DEF me
  <2> QED
    BY <2>1, <2>2, GotoHolders
<1>4. ASSUME NEW r \in Runners, Fail(r) \/ Crash(r)
      PROVE  HoldersWork'
  <2> DEFINE me == IF Fail(r) THEN [runner[r] EXCEPT !.pc = "failing"] ELSE Resting
  <2>1. runner' = [runner EXCEPT ![r] = me] /\ LetGo(r) /\ Nobody # r
    BY <1>4, ConstantsOK DEF Fail, Crash, Goto, ConstantsOK
  <2>2. lock' \in {lock, Nobody} /\ lock' # r /\ warehouse' \in {warehouse, Nobody} /\ warehouse' # r
    BY <2>1 DEF LetGo
  <2> HIDE DEF me
  <2> QED
    BY <2>1, <2>2, GotoHolders
<1>5. Loops \subseteq Runners /\ Operators \subseteq Runners
  BY DEF Runners
<1> QED
  BY <1>1, <1>2, <1>3, <1>4, <1>5, TickHolders, AttemptHolders
     DEF Next, BeginScheduled, BeginCommand

\* The advisory lock and the read-only guard are let go of however an attempt
\* ends (the finally of _exclusive_lock, a dead process): no failure blocks
\* the backups that follow, and two backups never wait for each other.
THEOREM LocksAreLetGo == Spec => []LocksLetGo
<1>1. Init => HoldersWork
  BY ConstantsOK DEF Init, HoldersWork, ConstantsOK
<1>2. SafetyInv /\ HoldersWork => LocksLetGo
  <2> SUFFICES ASSUME SafetyInv, HoldersWork
               PROVE  LocksLetGo
    OBVIOUS
  <2>1. lock \in Runners \cup {Nobody} /\ warehouse \in Runners \cup {Nobody, Writer}
        /\ Nobody \notin Runners
    BY ConstantsOK DEF SafetyInv, TypeOK, ConstantsOK
  <2>2. ASSUME NEW r \in Runners, warehouse = r PROVE lock = r /\ At(r, "copying")
    BY <2>2 DEF HoldersWork, SafetyInv, LocksFit, LockFits, At, Locked
  <2>3. ASSUME NEW r \in Runners, At(r, "opening") PROVE warehouse \notin Runners
    <3>1. lock = r
      BY <2>3 DEF SafetyInv, LocksFit, LockFits, At, Locked
    <3> QED
      BY <2>2, <2>3, <3>1 DEF At
  <2> QED
    BY <2>1, <2>2, <2>3 DEF LocksLetGo, HoldersWork
<1> QED
  BY <1>1, <1>2, HoldersStep, Safety, PTL DEF Spec
=============================================================================

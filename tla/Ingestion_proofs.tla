--------------------------- MODULE Ingestion_proofs ---------------------------
(***************************************************************************)
(* Proofs about the ingestion, for every number of files, transactions,    *)
(* workers, commands, requests and failures, and whatever the files hold.  *)
(***************************************************************************)
EXTENDS Ingestion, SequenceTheorems, TLAPS

Places == {"elsewhere", "inbox", "processed", "failed"}
Labels == {"idle", "scanning", "landing", "moving", "promoting", "loading",
           "reconciling", "refreshing", "filling", "publishing"}
Run == [content : Contents, passed : BOOLEAN, recorded : BOOLEAN]
Process == [pc : Labels, file : Files \cup {"none"}, content : Contents \cup {"none"},
            retry : BOOLEAN, run : Nat, duplicate : BOOLEAN, left : SUBSET Files,
            todo : Seq(Nat \ {0}), copy : SUBSET Transactions]

StoresTyped ==
  /\ place \in [Files -> Places]
  /\ runs \in Seq(Run)
  /\ handle \in Procs \cup {Nobody}
  /\ factOf \in [Transactions -> Nat]
  /\ current \in [Transactions -> Descriptions \cup {Blank, Unknown}]
  /\ mart \subseteq Transactions /\ published \subseteq Transactions
  /\ reconciled \subseteq Nat /\ torn \subseteq Nat
  /\ abandoned \subseteq Nat /\ returned \subseteq Nat
  /\ uploads \in Nat /\ promotes \in Nat /\ faults \in Nat

\* Every variable holds a value of its kind.
TypeOK == StoresTyped /\ proc \in [Procs -> Process]

\* The transactions of a run are current.
Arrived(r) == DOMAIN Rows(r) \subseteq Known

Reached(r) == Arrived(r) \/ r \in torn

Loaded == {"loading", "reconciling", "refreshing", "filling"}

\* A run is promoted after it is recorded, a run that is landing is not; what is
\* refreshed has been reconciled or was torn; and between loading and
\* reconciling, and between emptying and filling, the warehouse is not let go.
ProcFits(p) ==
  LET me == proc[p] IN
  /\ Range(me.todo) \subseteq Recorded
  /\ me.pc \in {"idle", "publishing"} => me.todo = <<>>
  /\ me.pc = "landing" =>
       /\ me.run \in DOMAIN runs \ Recorded
       /\ me.file = "none" => me.todo = <<>>
  /\ me.pc \in Loaded => me.todo # <<>> /\ Doing(p) \in Passed
  /\ me.pc \in {"reconciling", "filling"} => handle = p
  /\ me.pc \in {"refreshing", "filling"} => Reached(Doing(p))

ProcsFit == \A p \in Procs : ProcFits(p)

\* Two processes never land the same run.
LandingsDiffer ==
  \A p, q \in Procs :
    At(p, "landing") /\ At(q, "landing") /\ proc[p].run = proc[q].run => p = q

Reconciling(r) == \E p \in Procs : At(p, "reconciling") /\ Doing(p) = r

\* A fact comes from a run that passed, whose transactions are current, or are
\* being reconciled, or the run was torn.
FactsFit ==
  \A t \in Transactions : factOf[t] # 0 =>
    factOf[t] \in Passed /\ (Reached(factOf[t]) \/ Reconciling(factOf[t]))

RunsFit ==
  /\ \A r \in reconciled : r \in Recorded /\ Arrived(r)
  /\ \A r \in returned : r \in Recorded /\ Reached(r)
  /\ torn \subseteq abandoned \cap Recorded

SafetyInv ==
  /\ TypeOK /\ ProcsFit /\ LandingsDiffer /\ FactsFit /\ RunsFit
  /\ PassedRunsArrive /\ CurrentIsRichest /\ MartFollowsCurrent

\* No transaction is loaded that no run which passed has brought.
FactsComeFromPassedRuns ==
  \A t \in Transactions : factOf[t] # 0 => factOf[t] \in Passed

\* A promotion that ends well without the run's transactions being current is
\* always that of a run loaded by a process that failed before reconciling it.
OnlyTornRunsAreMissed ==
  \A r \in returned : DOMAIN Rows(r) \subseteq Known \/ r \in torn
-----------------------------------------------------------------------------
(* Sequences, the constants and the types *)

\* What a list of runs holds after one is added, and after the first is taken.
LEMMA RangesOf ==
  ASSUME NEW s \in Seq(Nat \ {0}), NEW r \in Nat \ {0}
  PROVE  /\ Range(<<>>) = {} /\ Range(<<r>>) = {r}
         /\ Range(Append(s, r)) = Range(s) \cup {r}
         /\ Append(s, r) \in Seq(Nat \ {0}) /\ <<r>> \in Seq(Nat \ {0})
         /\ <<>> \in Seq(Nat \ {0})
         /\ s # <<>> => /\ Head(s) \in Range(s) /\ Head(s) \in Nat \ {0}
                        /\ Tail(s) \in Seq(Nat \ {0})
                        /\ Range(Tail(s)) \subseteq Range(s)
                        /\ Range(s) \subseteq Range(Tail(s)) \cup {Head(s)}
<1>1. Range(<<>>) = {} /\ Range(<<r>>) = {r} /\ <<r>> \in Seq(Nat \ {0}) /\ <<>> \in Seq(Nat \ {0})
  BY DEF Range
<1>2. DOMAIN s = 1..Len(s) /\ Len(s) \in Nat
  BY LenProperties
<1>3. Append(s, r) \in Seq(Nat \ {0}) /\ DOMAIN Append(s, r) = 1..(Len(s) + 1)
      /\ \A n \in 1..(Len(s) + 1) :
           Append(s, r)[n] = IF n <= Len(s) THEN s[n] ELSE r
  BY <1>2
<1>4. Range(Append(s, r)) = Range(s) \cup {r}
  <2>1. ASSUME NEW x \in Range(Append(s, r)) PROVE x \in Range(s) \cup {r}
    BY <1>2, <1>3 DEF Range
  <2>2. ASSUME NEW x \in Range(s) PROVE x \in Range(Append(s, r))
    <3>1. PICK n \in 1..Len(s) : x = s[n]
      BY <1>2 DEF Range
    <3>2. n \in 1..(Len(s) + 1) /\ Append(s, r)[n] = x
      BY <1>2, <1>3, <3>1
    <3> QED
      BY <1>3, <3>2 DEF Range
  <2>3. r \in Range(Append(s, r))
    <3>1. Len(s) + 1 \in 1..(Len(s) + 1) /\ Append(s, r)[Len(s) + 1] = r
      BY <1>2, <1>3
    <3> QED
      BY <1>3, <3>1 DEF Range
  <2> QED
    BY <2>1, <2>2, <2>3
<1>5. ASSUME s # <<>>
      PROVE  /\ Head(s) \in Range(s) /\ Head(s) \in Nat \ {0}
             /\ Tail(s) \in Seq(Nat \ {0})
             /\ Range(Tail(s)) \subseteq Range(s)
             /\ Range(s) \subseteq Range(Tail(s)) \cup {Head(s)}
  <2>1. Len(s) \in Nat \ {0} /\ Head(s) = s[1] /\ 1 \in 1..Len(s)
    <3>1. Len(s) \in Nat \ {0}
      BY <1>5, EmptySeq
    <3> QED
      BY <3>1
  <2>2. /\ Head(s) \in Nat \ {0} /\ Tail(s) \in Seq(Nat \ {0})
        /\ Len(Tail(s)) = Len(s) - 1
        /\ \A n \in 1..Len(Tail(s)) : Tail(s)[n] = s[n + 1]
    BY <1>5, HeadTailProperties
  <2>3. DOMAIN Tail(s) = 1..(Len(s) - 1)
    BY <2>2, LenProperties
  <2>4. ASSUME NEW x \in Range(s) PROVE x \in Range(Tail(s)) \cup {Head(s)}
    <3>1. PICK n \in 1..Len(s) : x = s[n]
      BY <1>2 DEF Range
    <3>2. CASE n = 1
      BY <2>1, <3>1, <3>2
    <3>3. CASE n # 1
      <4>1. n - 1 \in 1..(Len(s) - 1) /\ Tail(s)[n - 1] = x
        BY <1>2, <2>2, <3>1, <3>3
      <4> QED
        BY <2>3, <4>1 DEF Range
    <3> QED
      BY <3>2, <3>3
  <2>5. ASSUME NEW x \in Range(Tail(s)) PROVE x \in Range(s)
    <3>1. PICK n \in 1..(Len(s) - 1) : x = Tail(s)[n]
      BY <2>3 DEF Range
    <3>2. n + 1 \in 1..Len(s) /\ x = s[n + 1]
      BY <1>2, <2>2, <3>1
    <3> QED
      BY <1>2, <3>2 DEF Range
  <2>6. Head(s) \in Range(s)
    BY <1>2, <2>1 DEF Range
  <2> QED
    BY <2>2, <2>4, <2>5, <2>6
<1> QED
  BY <1>1, <1>3, <1>4, <1>5

\* A run brings transactions the warehouse can know, each with a description or
\* a blank.
LEMMA RowsFit ==
  ASSUME TypeOK, NEW r \in DOMAIN runs
  PROVE  /\ DOMAIN Rows(r) \subseteq Transactions
         /\ \A t \in DOMAIN Rows(r) : Rows(r)[t] \in Descriptions \cup {Blank}
<1>1. runs[r].content \in Contents
  <2>1. runs[r] \in Run
    BY ElementOfSeq, LenProperties DEF TypeOK, StoresTyped
  <2> QED
    BY <2>1 DEF Run
<1>2. PICK ts \in SUBSET Transactions :
        RowsOf[runs[r].content] \in [ts -> Descriptions \cup {Blank}]
  BY <1>1, ConstantsOK DEF ConstantsOK
<1> QED
  BY <1>2 DEF Rows

LEMMA RunTyped ==
  ASSUME TypeOK, NEW r \in DOMAIN runs
  PROVE  /\ runs[r] \in Run /\ r \in Nat \ {0} /\ r \in 1..Len(runs)
         /\ DOMAIN runs = 1..Len(runs) /\ Len(runs) \in Nat
<1>1. DOMAIN runs = 1..Len(runs) /\ Len(runs) \in Nat /\ runs \in [1..Len(runs) -> Run]
  BY LenProperties DEF TypeOK, StoresTyped
<1> QED
  BY <1>1

LEMMA ProcTyped ==
  ASSUME TypeOK, NEW p \in Procs
  PROVE  /\ proc[p] \in Process /\ proc[p].todo \in Seq(Nat \ {0})
         /\ proc[p].run \in Nat /\ proc[p].pc \in Labels
         /\ proc[p].content \in Contents \cup {"none"}
         /\ proc[p].copy \subseteq Transactions
<1>1. proc[p] \in Process
  BY DEF TypeOK
<1> QED
  BY <1>1 DEF Process

LEMMA IdleTyped == Idle \in Process /\ Idle.pc = "idle" /\ Idle.todo = <<>> /\ Range(Idle.todo) = {}
<1>1. <<>> \in Seq(Nat \ {0}) /\ Range(<<>>) = {}
  BY DEF Range
<1> QED
  BY <1>1 DEF Idle, Process, Labels

\* A process that moves on leaves the others as they were.
LEMMA Updated ==
  ASSUME TypeOK, NEW p \in Procs, NEW new \in Process, proc' = [proc EXCEPT ![p] = new]
  PROVE  /\ proc' \in [Procs -> Process] /\ proc'[p] = new
         /\ \A q \in Procs : q # p => proc'[q] = proc[q]
BY DEF TypeOK

\* Nobody is not a process.
LEMMA NobodyApart == Nobody \notin Procs
BY ConstantsOK DEF ConstantsOK, Procs

-----------------------------------------------------------------------------
(* What no step undoes *)

\* Runs are added and recorded, and then stay as they are.
RunsGrow ==
  \A r \in DOMAIN runs :
    /\ r \in DOMAIN runs' /\ runs'[r].content = runs[r].content
    /\ r \in Recorded => runs'[r] = runs[r]

StoresGrow == RunsGrow /\ Known \subseteq Known' /\ torn \subseteq torn'

LEMMA Onward ==
  ASSUME TypeOK, StoresGrow
  PROVE  /\ Recorded \subseteq Recorded' /\ Passed \subseteq Passed'
         /\ \A r \in Recorded : r \in Passed' => r \in Passed
         /\ \A r \in DOMAIN runs : /\ Rows(r)' = Rows(r)
                                   /\ Arrived(r) => Arrived(r)'
                                   /\ Reached(r) => Reached(r)'
<1>1. Recorded \subseteq Recorded' /\ Passed \subseteq Passed'
      /\ \A r \in Recorded : r \in Passed' => r \in Passed
  BY DEF StoresGrow, RunsGrow, Recorded, Passed
<1>2. \A r \in DOMAIN runs : Rows(r)' = Rows(r)
  BY DEF StoresGrow, RunsGrow, Rows
<1>3. \A r \in DOMAIN runs : Arrived(r) => Arrived(r)'
  BY <1>2 DEF StoresGrow, Arrived
<1> QED
  BY <1>1, <1>2, <1>3 DEF Reached, StoresGrow

\* The other processes still fit when one moves on, unless it takes the
\* warehouse from them or records the run they land.
LEMMA OthersFit ==
  ASSUME TypeOK, ProcsFit, StoresGrow, NEW p \in Procs,
         \A q \in Procs : q # p => proc'[q] = proc[q],
         \A q \in Procs : q # p /\ handle = q => handle' = q,
         \A q \in Procs : q # p /\ At(q, "landing") => proc[q].run \notin Recorded'
  PROVE  \A q \in Procs : q # p => ProcFits(q)'
<1> SUFFICES ASSUME NEW q \in Procs, q # p
             PROVE  ProcFits(q)'
  OBVIOUS
<1>1. proc'[q] = proc[q] /\ ProcFits(q) /\ Doing(q)' = Doing(q)
  BY DEF ProcsFit, Doing
<1>2. Range(proc[q].todo) \subseteq Recorded'
  BY <1>1, Onward DEF ProcFits
<1>3. At(q, "landing") => proc[q].run \in DOMAIN runs' \ Recorded'
  BY <1>1 DEF ProcFits, At, StoresGrow, RunsGrow
<1>4. proc[q].pc \in Loaded => Doing(q) \in Passed'
  BY <1>1, Onward DEF ProcFits
<1>5. proc[q].pc \in {"refreshing", "filling"} => Reached(Doing(q))'
  <2> SUFFICES ASSUME proc[q].pc \in {"refreshing", "filling"}
               PROVE  Reached(Doing(q))'
    OBVIOUS
  <2>1. Doing(q) \in DOMAIN runs /\ Reached(Doing(q))
    BY <1>1 DEF ProcFits, Loaded, Passed, Recorded
  <2>2. \A r \in DOMAIN runs : Reached(r) => Reached(r)'
    BY Onward
  <2>3. \A r \in DOMAIN runs : r = Doing(q) => Reached(Doing(q))'
    BY <1>1, <2>1, <2>2 DEF Reached, Arrived, Rows, Known
  <2> QED
    BY <2>1, <2>3
<1> QED
  BY <1>1, <1>2, <1>3, <1>4, <1>5 DEF ProcFits, At

\* A step that leaves the facts, the current transactions, the mart and the
\* history alone.
QuietStep(p) ==
  /\ RunsGrow
  /\ UNCHANGED <<factOf, current, mart, reconciled, history>>
  /\ \A q \in Procs : q # p => proc'[q] = proc[q]
  /\ \A q \in Procs : q # p /\ handle = q => handle' = q
  /\ \A q \in Procs : q # p /\ At(q, "landing") =>
       /\ proc[q].run \notin Recorded'
       /\ At(p, "landing")' => proc'[p].run # proc[q].run
  /\ proc[p].pc \notin {"reconciling", "refreshing", "filling"}
  /\ \A r \in Passed' : \/ r \in Passed /\ r \notin Range(proc[p].todo)
                        \/ r \in Range(proc'[p].todo)

LEMMA QuietKept ==
  ASSUME SafetyInv, NEW p \in Procs, QuietStep(p), TypeOK', ProcFits(p)'
  PROVE  SafetyInv'
<1> USE DEF SafetyInv
<1>1. StoresGrow /\ Known' = Known /\ torn' = torn /\ abandoned' = abandoned
      /\ reconciled' = reconciled /\ returned' = returned /\ factOf' = factOf /\ mart' = mart
  BY DEF QuietStep, StoresGrow, Known, history
<1>2. \A q \in Procs : q # p => proc'[q] = proc[q]
  BY DEF QuietStep
<1>3. ProcsFit'
  <2>1. \A q \in Procs : q # p => ProcFits(q)'
    BY <1>1, OthersFit DEF QuietStep
  <2> QED
    BY <2>1 DEF ProcsFit
<1>4. LandingsDiffer'
  BY DEF QuietStep, LandingsDiffer, At
<1>5. FactsFit'
  <2> SUFFICES ASSUME NEW t \in Transactions, factOf[t] # 0
               PROVE  factOf[t] \in Passed'
                      /\ (Reached(factOf[t])' \/ Reconciling(factOf[t])')
    BY <1>1 DEF FactsFit, Reached, Arrived, Rows, Reconciling, Doing, Known, At
  <2> DEFINE r == factOf[t]
  <2>1. r \in Passed /\ (Reached(r) \/ Reconciling(r))
    BY DEF FactsFit
  <2>2. r \in DOMAIN runs /\ r \in Passed'
    BY <1>1, <2>1, Onward DEF Passed, Recorded
  <2>3. CASE Reached(r)
    <3>1. \A s \in DOMAIN runs : Reached(s) => Reached(s)'
      BY <1>1, Onward
    <3> QED
      BY <1>1, <2>2, <2>3, <3>1 DEF Reached, Arrived, Rows, Known
  <2>4. CASE Reconciling(r)
    <3>1. PICK q \in Procs : At(q, "reconciling") /\ Doing(q) = r
      BY <2>4 DEF Reconciling
    <3>2. q # p
      BY <3>1 DEF QuietStep, At
    <3>3. proc'[q] = proc[q]
      BY <1>2, <3>2
    <3> QED
      BY <1>1, <2>2, <3>1, <3>3 DEF Reconciling, At, Doing
  <2> QED
    BY <2>1, <2>2, <2>3, <2>4
<1>6. RunsFit'
  <2>1. \A r \in reconciled : r \in Recorded' /\ Arrived(r)'
    BY <1>1, Onward DEF RunsFit, Recorded
  <2>2. \A r \in returned : r \in Recorded' /\ Reached(r)'
    BY <1>1, Onward DEF RunsFit, Recorded
  <2>3. torn \subseteq abandoned \cap Recorded'
    BY <1>1, Onward DEF RunsFit
  <2> QED
    BY <1>1, <2>1, <2>2, <2>3 DEF RunsFit
<1>7. PassedRunsArrive'
  <2> SUFFICES ASSUME NEW r \in Passed'
               PROVE  Arrived(r)' \/ r \in abandoned \/ \E q \in Procs : r \in Range(proc'[q].todo)
    BY <1>1 DEF PassedRunsArrive, Arrived
  <2>1. CASE r \in Range(proc'[p].todo)
    BY <2>1
  <2>2. CASE r \notin Range(proc'[p].todo)
    <3>1. r \in Passed /\ r \notin Range(proc[p].todo)
      BY <2>2 DEF QuietStep
    <3>2. Arrived(r) \/ r \in abandoned \/ \E q \in Procs : r \in Range(proc[q].todo)
      BY <3>1 DEF PassedRunsArrive, Arrived
    <3>3. Arrived(r) => Arrived(r)'
      BY <1>1, <3>1, Onward DEF Passed, Recorded
    <3> QED
      BY <1>2, <3>1, <3>2, <3>3
  <2> QED
    BY <2>1, <2>2
<1>8. CurrentIsRichest'
  <2>1. \A r \in reconciled : r \in DOMAIN runs
    BY DEF RunsFit, Recorded
  <2>2. \A r \in reconciled : Rows(r)' = Rows(r)
    BY <1>1, <2>1, Onward
  <2>3. current' = current
    BY DEF QuietStep
  <2> QED
    BY <1>1, <2>2, <2>3 DEF CurrentIsRichest
<1>9. MartFollowsCurrent'
  <2>1. CASE abandoned # {}
    BY <1>1, <2>1 DEF MartFollowsCurrent
  <2>2. CASE abandoned = {} /\ mart # Known
    <3>1. PICK q \in Procs : proc[q].pc \in {"refreshing", "filling"}
      BY <2>2 DEF MartFollowsCurrent
    <3>2. q # p
      BY <3>1 DEF QuietStep
    <3> QED
      BY <1>2, <3>1, <3>2 DEF MartFollowsCurrent
  <2>3. CASE mart = Known
    BY <1>1, <2>3 DEF MartFollowsCurrent
  <2> QED
    BY <2>1, <2>2, <2>3
<1> QED
  BY <1>3, <1>4, <1>5, <1>6, <1>7, <1>8, <1>9

-----------------------------------------------------------------------------
(* Landing *)

\* Steps of one process that leave the stores alone.
LEMMA ProcStep ==
  ASSUME SafetyInv, NEW p \in Procs, NEW new \in Process,
         proc' = [proc EXCEPT ![p] = new],
         UNCHANGED <<runs, factOf, current, mart, reconciled, history>>, StoresTyped',
         \A q \in Procs : q # p /\ handle = q => handle' = q,
         proc[p].pc \notin {"reconciling", "refreshing", "filling"}, new.pc # "landing",
         \A r \in Range(proc[p].todo) : r \in Passed => r \in Range(new.todo),
         ProcFits(p)'
  PROVE  SafetyInv'
<1>1. TypeOK'
  BY Updated DEF TypeOK, SafetyInv
<1>2. proc'[p] = new /\ \A q \in Procs : q # p => proc'[q] = proc[q]
  BY Updated DEF SafetyInv
<1>3. RunsGrow /\ Recorded' = Recorded /\ Passed' = Passed
  BY DEF RunsGrow, Recorded, Passed
<1>4. \A q \in Procs : At(q, "landing") => proc[q].run \notin Recorded
  BY DEF SafetyInv, ProcsFit, ProcFits, At
<1>5. QuietStep(p)
  BY <1>2, <1>3, <1>4 DEF QuietStep, At
<1> QED
  BY <1>1, <1>5, QuietKept

LEMMA LandStep ==
  ASSUME SafetyInv, NEW p \in Procs, NEW c \in Contents, NEW retry \in BOOLEAN,
         NEW next \in Process, Land(p, c, retry, next), proc[p].pc \in {"idle", "scanning"},
         next.todo = proc[p].todo, next.file = "none" => next.todo = <<>>,
         uploads' \in Nat, promotes' \in Nat, faults' \in Nat
  PROVE  SafetyInv'
<1> USE DEF SafetyInv
<1> DEFINE row == [NoRun EXCEPT !.content = c]
           n == Len(runs) + 1
           new == [next EXCEPT !.pc = "landing", !.content = c, !.retry = retry,
                     !.run = n, !.duplicate = ~retry /\ AlreadyLanded(c)]
<1>1. runs \in Seq(Run) /\ Len(runs) \in Nat /\ DOMAIN runs = 1..Len(runs)
  BY LenProperties DEF TypeOK, StoresTyped
<1>2. row \in Run /\ row.recorded = FALSE
  BY DEF Run, NoRun
<1>3. runs' = Append(runs, row) /\ runs' \in Seq(Run) /\ Len(runs') = n
  BY <1>1, <1>2 DEF Land
<1>4. /\ DOMAIN runs' = 1..n /\ runs'[n] = row
      /\ \A r \in DOMAIN runs : r \in 1..n /\ runs'[r] = runs[r]
  BY <1>1, <1>2, <1>3, LenProperties
<1>5. new \in Process /\ new.pc = "landing" /\ new.run = n
      /\ new.todo = next.todo /\ new.file = next.file
  <2> DEFINE dup == ~retry /\ AlreadyLanded(c)
  <2>1. dup \in BOOLEAN
    OBVIOUS
  <2>2. n \in Nat
    BY <1>1
  <2> HIDE DEF dup, n
  <2> QED
    BY <2>1, <2>2 DEF Process, Labels
<1>6. proc' = [proc EXCEPT ![p] = new]
  BY <1>3 DEF Land
<1>7. StoresTyped'
  BY <1>3 DEF Land, TypeOK, StoresTyped, warehouse, history
<1>8. TypeOK' /\ proc'[p] = new /\ \A q \in Procs : q # p => proc'[q] = proc[q]
  BY <1>5, <1>6, <1>7, Updated DEF TypeOK
<1>9. RunsGrow
  BY <1>4 DEF RunsGrow
<1>10. Recorded' = Recorded /\ Passed' = Passed
  <2>1. \A r \in 1..n : r = n \/ r \in DOMAIN runs
    BY <1>1
  <2>2. \A r \in Recorded' : r # n
    BY <1>2, <1>4 DEF Recorded
  <2>3. Recorded' = Recorded
    BY <1>4, <2>1, <2>2 DEF Recorded
  <2> QED
    BY <1>4, <2>3 DEF Passed, Recorded
<1>11. n \in DOMAIN runs' \ Recorded' /\ \A q \in Procs : At(q, "landing") => proc[q].run # n
  BY <1>1, <1>4, <1>2, <1>10 DEF Recorded, ProcsFit, ProcFits, At
<1>12. ProcFits(p) /\ ProcFits(p)'
  <2>1. ProcFits(p)
    BY DEF ProcsFit
  <2> QED
    BY <1>5, <1>8, <1>10, <1>11, <2>1 DEF ProcFits, Loaded
<1>13. \A q \in Procs : At(q, "landing") => proc[q].run \notin Recorded
  BY DEF ProcsFit, ProcFits, At
<1>14. QuietStep(p)
  BY <1>5, <1>8, <1>9, <1>10, <1>11, <1>13 DEF QuietStep, Land, warehouse, At
<1> QED
  BY <1>8, <1>12, <1>14, QuietKept

LEMMA TakeStep ==
  ASSUME SafetyInv, NEW w \in Workers, NEW f \in Files, TakeFile(w, f)
  PROVE  SafetyInv'
<1> USE DEF SafetyInv
<1> DEFINE next == [proc[w] EXCEPT !.file = f, !.left = @ \ {f}]
<1>1. w \in Procs /\ proc[w] \in Process
  BY ProcTyped DEF Procs
<1>2. next \in Process /\ next.todo = proc[w].todo /\ next.file = f
  BY <1>1 DEF Process
<1>3. ContentOf[f] \in Contents /\ f # "none"
  BY ConstantsOK DEF ConstantsOK
<1>4. Land(w, ContentOf[f], FALSE, next) /\ proc[w].pc \in {"idle", "scanning"}
  BY DEF TakeFile, At
<1>5. uploads' \in Nat /\ promotes' \in Nat /\ faults' \in Nat
  BY DEF TakeFile, bounds, TypeOK, StoresTyped
<1> QED
  BY <1>1, <1>2, <1>3, <1>4, <1>5, LandStep

LEMMA UploadStep ==
  ASSUME SafetyInv, NEW p \in Clients, NEW c \in Contents, NEW retry \in BOOLEAN,
         Uploading(p), Land(p, c, retry, Idle)
  PROVE  SafetyInv'
<1> USE DEF SafetyInv
<1>1. p \in Procs
  BY DEF Procs
<1>2. proc[p].pc = "idle" /\ proc[p].todo = <<>>
  BY <1>1 DEF Uploading, At, ProcsFit, ProcFits
<1>3. uploads' \in Nat /\ promotes' \in Nat /\ faults' \in Nat
  BY DEF Uploading, TypeOK, StoresTyped
<1> QED
  BY <1>1, <1>2, <1>3, IdleTyped, LandStep

LEMMA CreateRunStep ==
  ASSUME SafetyInv, NEW p \in Procs, CreateRun(p)
  PROVE  SafetyInv'
<1> USE DEF SafetyInv
<1> DEFINE me == proc[p]
           n == me.run
           passed == me.content \in Valid /\ ~me.duplicate
           new == IF me.file # "none" THEN [me EXCEPT !.pc = "moving", !.todo = Append(@, n)]
                  ELSE IF passed THEN [me EXCEPT !.pc = "promoting", !.todo = <<n>>]
                  ELSE Idle
<1>1. me \in Process /\ me.todo \in Seq(Nat \ {0}) /\ me.pc = "landing" /\ ProcFits(p)
  BY ProcTyped DEF CreateRun, At, ProcsFit
<1>2. /\ n \in DOMAIN runs \ Recorded /\ n \in Nat \ {0} /\ n \in 1..Len(runs)
      /\ runs[n] \in Run /\ DOMAIN runs = 1..Len(runs)
  <2>1. n \in DOMAIN runs \ Recorded
    BY <1>1 DEF ProcFits
  <2> QED
    BY <2>1, RunTyped
<1>3. passed \in BOOLEAN
  BY <1>1 DEF Process
<1>4. /\ runs' \in Seq(Run) /\ DOMAIN runs' = DOMAIN runs
      /\ runs'[n].content = runs[n].content
      /\ runs'[n].passed = passed /\ runs'[n].recorded = TRUE
      /\ \A r \in DOMAIN runs : r # n => runs'[r] = runs[r]
  <2> DEFINE row == [runs[n] EXCEPT !.passed = passed, !.recorded = TRUE]
  <2>1. row \in Run /\ row.content = runs[n].content /\ row.passed = passed /\ row.recorded = TRUE
    BY <1>2, <1>3 DEF Run
  <2>2. runs' = [runs EXCEPT ![n] = row]
    BY <1>2 DEF CreateRun, Run
  <2>3. runs \in Seq(Run)
    BY DEF TypeOK, StoresTyped
  <2> HIDE DEF row, passed, n
  <2>4. runs' \in Seq(Run) /\ Len(runs') = Len(runs)
        /\ \A r \in 1..Len(runs) : runs'[r] = IF r = n THEN row ELSE runs[r]
    BY <1>2, <2>1, <2>2, <2>3, ExceptSeq
  <2>5. DOMAIN runs' = DOMAIN runs
    BY <1>2, <2>4, LenProperties
  <2> QED
    BY <1>2, <2>1, <2>4, <2>5
<1>5. Recorded' = Recorded \cup {n} /\ Passed' = Passed \cup (IF passed THEN {n} ELSE {})
  <2> HIDE DEF passed, n
  <2>1. Recorded' = Recorded \cup {n}
    BY <1>2, <1>4 DEF Recorded
  <2> QED
    BY <1>2, <1>3, <1>4, <2>1 DEF Passed, Recorded
<1>6. proc' = [proc EXCEPT ![p] = new]
  BY DEF CreateRun
<1>7. new \in Process /\ new.pc \in {"moving", "promoting", "idle"}
      /\ Range(new.todo) \subseteq Range(me.todo) \cup {n}
      /\ (new.pc = "idle" => new.todo = <<>>)
  <2>1. CASE me.file # "none"
    <3> DEFINE longer == Append(me.todo, n)
    <3>1. longer \in Seq(Nat \ {0}) /\ Range(longer) = Range(me.todo) \cup {n}
      BY <1>1, <1>2, RangesOf
    <3>2. new = [me EXCEPT !.pc = "moving", !.todo = longer]
      BY <1>1, <2>1 DEF Process
    <3> HIDE DEF longer, new
    <3> QED
      BY <1>1, <3>1, <3>2 DEF Process, Labels
  <2>2. CASE me.file = "none" /\ passed
    <3>1. <<n>> \in Seq(Nat \ {0}) /\ Range(<<n>>) = {n}
      BY <1>1, <1>2, RangesOf
    <3> QED
      BY <1>1, <2>2, <3>1 DEF Process, Labels
  <2>3. CASE me.file = "none" /\ ~passed
    BY <2>3, IdleTyped
  <2> QED
    BY <1>3, <2>1, <2>2, <2>3
<1>8. /\ Range(me.todo) \subseteq Range(new.todo)
      /\ passed => n \in Range(new.todo)
  <2>1. CASE me.file # "none"
    <3>1. Range(Append(me.todo, n)) = Range(me.todo) \cup {n}
      BY <1>1, <1>2, RangesOf
    <3>2. new.todo = Append(me.todo, n)
      BY <1>1, <2>1 DEF Process
    <3> QED
      BY <3>1, <3>2
  <2>2. CASE me.file = "none"
    <3>1. me.todo = <<>> /\ Range(me.todo) = {}
      BY <1>1, <1>2, <2>2, RangesOf DEF ProcFits
    <3> QED
      BY <1>1, <1>2, <2>2, <3>1, RangesOf DEF Process
  <2> QED
    BY <2>1, <2>2
<1>9. StoresTyped'
  BY <1>4 DEF CreateRun, TypeOK, StoresTyped, warehouse, history, bounds
<1>10. TypeOK' /\ proc'[p] = new /\ \A q \in Procs : q # p => proc'[q] = proc[q]
  BY <1>6, <1>7, <1>9, Updated DEF TypeOK
<1> HIDE DEF new, passed, n, me
<1>11. RunsGrow
  BY <1>2, <1>4 DEF RunsGrow
<1>12. ProcFits(p)'
  <2>1. Range(me.todo) \subseteq Recorded
    BY <1>1 DEF ProcFits, me
  <2> QED
    BY <1>5, <1>7, <1>10, <2>1 DEF ProcFits, Loaded
<1>13. \A q \in Procs : q # p /\ At(q, "landing") => proc[q].run \notin Recorded'
  BY <1>1, <1>5 DEF LandingsDiffer, ProcsFit, ProcFits, At, n, me
<1>14. \A r \in Passed' : \/ r \in Passed /\ r \notin Range(me.todo)
                         \/ r \in Range(new.todo)
  BY <1>3, <1>5, <1>8
<1>15. QuietStep(p)
  BY <1>1, <1>7, <1>10, <1>11, <1>13, <1>14
     DEF QuietStep, CreateRun, warehouse, At, me
<1> QED
  BY <1>10, <1>12, <1>15, QuietKept

\* The invariant says nothing about where the files are.
LEMMA FilesApart ==
  ASSUME SafetyInv, StoresTyped',
         UNCHANGED <<runs, proc, handle, factOf, current, mart, reconciled, history>>
  PROVE  SafetyInv'
<1> USE DEF SafetyInv, history
<1>1. TypeOK' /\ Recorded' = Recorded /\ Passed' = Passed /\ Known' = Known
  BY DEF TypeOK, Recorded, Passed, Known
<1>2. ProcsFit' /\ LandingsDiffer'
  BY <1>1 DEF ProcsFit, ProcFits, LandingsDiffer, At, Reached, Arrived, Rows, Doing, Known, Recorded, Passed
<1>3. FactsFit' /\ RunsFit'
  BY <1>1 DEF FactsFit, RunsFit, Reconciling, At, Reached, Arrived, Rows, Doing, Known, Recorded, Passed
<1>4. PassedRunsArrive' /\ CurrentIsRichest' /\ MartFollowsCurrent'
  BY <1>1 DEF PassedRunsArrive, CurrentIsRichest, MartFollowsCurrent, Rows
<1> QED
  BY <1>1, <1>2, <1>3, <1>4

LEMMA ArriveStep ==
  ASSUME SafetyInv, NEW f \in Files, Arrive(f)
  PROVE  SafetyInv'
<1>1. StoresTyped'
  <2>1. place' \in [Files -> Places]
    BY DEF SafetyInv, TypeOK, StoresTyped, Arrive, Places
  <2> QED
    BY <2>1 DEF SafetyInv, TypeOK, StoresTyped, Arrive, warehouse, history, bounds
<1> QED
  BY <1>1, FilesApart DEF Arrive, warehouse

LEMMA StartStep ==
  ASSUME SafetyInv, NEW w \in Workers, StartDispatch(w)
  PROVE  SafetyInv'
<1> USE DEF SafetyInv
<1> DEFINE new == [Idle EXCEPT !.pc = "scanning", !.left = Inbox]
<1>1. w \in Procs /\ ProcFits(w) /\ proc[w].pc = "idle"
  BY DEF StartDispatch, ProcsFit, At, Procs
<1>2. new \in Process /\ new.pc = "scanning" /\ new.todo = <<>> /\ Range(new.todo) = {}
  BY IdleTyped DEF Process, Labels, Inbox
<1>3. proc[w].todo = <<>> /\ Range(proc[w].todo) = {}
  BY <1>1, IdleTyped DEF ProcFits
<1>4. proc'[w] = new /\ proc' = [proc EXCEPT ![w] = new]
  BY <1>1, <1>2, Updated DEF StartDispatch
<1>5. StoresTyped'
  BY DEF StartDispatch, TypeOK, StoresTyped, folder, warehouse, history, bounds
<1>6. ProcFits(w)'
  BY <1>2, <1>4 DEF ProcFits, Loaded
<1> QED
  BY <1>1, <1>2, <1>3, <1>4, <1>5, <1>6, ProcStep DEF StartDispatch, folder, warehouse

LEMMA MoveStep ==
  ASSUME SafetyInv, NEW w \in Workers, MoveFile(w)
  PROVE  SafetyInv'
<1> USE DEF SafetyInv
<1> DEFINE me == proc[w]
           new == [me EXCEPT !.pc = "scanning", !.file = "none"]
<1>1. w \in Procs /\ ProcFits(w) /\ me.pc = "moving" /\ me \in Process
  BY ProcTyped DEF MoveFile, ProcsFit, At, Procs
<1>2. new \in Process /\ new.pc = "scanning" /\ new.todo = me.todo
  BY <1>1 DEF Process, Labels
<1>3. proc'[w] = new /\ proc' = [proc EXCEPT ![w] = new]
  BY <1>1, <1>2, Updated DEF MoveFile
<1>4. StoresTyped'
  <2>1. place' \in [Files -> Places]
    <3>1. place' = [place EXCEPT ![me.file] = Destination(me.run)]
      BY DEF MoveFile
    <3>2. Destination(me.run) \in Places
      BY DEF Destination, Places
    <3> QED
      BY <3>1, <3>2 DEF TypeOK, StoresTyped
  <2> QED
    BY <2>1 DEF MoveFile, TypeOK, StoresTyped, warehouse, history, bounds
<1>5. ProcFits(w)'
  BY <1>1, <1>2, <1>3 DEF ProcFits, Loaded, MoveFile, Recorded
<1> QED
  BY <1>1, <1>2, <1>3, <1>4, <1>5, ProcStep DEF MoveFile, warehouse

LEMMA EndScanStep ==
  ASSUME SafetyInv, NEW w \in Workers, EndScan(w)
  PROVE  SafetyInv'
<1> USE DEF SafetyInv
<1> DEFINE me == proc[w]
           new == IF me.todo = <<>> THEN Idle ELSE [me EXCEPT !.pc = "promoting"]
<1>1. w \in Procs /\ ProcFits(w) /\ me.pc = "scanning" /\ me \in Process
  BY ProcTyped DEF EndScan, ProcsFit, At, Procs
<1>2. new \in Process /\ new.pc \in {"promoting", "idle"} /\ new.todo = me.todo
  BY <1>1, IdleTyped DEF Process, Labels
<1>3. new.pc = "idle" => me.todo = <<>>
  BY <1>1, IdleTyped DEF Process
<1>4. proc'[w] = new /\ proc' = [proc EXCEPT ![w] = new]
  BY <1>1, <1>2, Updated DEF EndScan
<1>5. StoresTyped'
  BY DEF EndScan, TypeOK, StoresTyped, folder, warehouse, history, bounds
<1> HIDE DEF new
<1>6. ProcFits(w)'
  BY <1>1, <1>2, <1>3, <1>4 DEF ProcFits, Loaded, EndScan, folder, Recorded
<1> QED
  BY <1>1, <1>2, <1>4, <1>5, <1>6, ProcStep DEF EndScan, folder, warehouse

-----------------------------------------------------------------------------
(* Promotion *)

LEMMA PromoteStep ==
  ASSUME SafetyInv, NEW p \in Commands, NEW r \in Recorded, PromoteRun(p, r)
  PROVE  SafetyInv'
<1> USE DEF SafetyInv
<1> DEFINE new == [Idle EXCEPT !.pc = "promoting", !.todo = <<r>>]
<1>1. p \in Procs /\ ProcFits(p) /\ proc[p].pc = "idle" /\ r \in Nat \ {0}
  <2>1. r \in DOMAIN runs
    BY DEF Recorded
  <2> QED
    BY <2>1, RunTyped DEF PromoteRun, ProcsFit, At, Procs
<1>2. <<r>> \in Seq(Nat \ {0}) /\ Range(<<r>>) = {r}
  BY <1>1, RangesOf DEF Range
<1>3. new \in Process /\ new.pc = "promoting" /\ new.todo = <<r>>
  BY <1>2, IdleTyped DEF Process, Labels, Idle
<1>4. Range(proc[p].todo) = {}
  BY <1>1, IdleTyped DEF ProcFits
<1>5. proc'[p] = new /\ proc' = [proc EXCEPT ![p] = new]
  BY <1>1, <1>3, Updated DEF PromoteRun
<1>6. StoresTyped'
  BY DEF PromoteRun, TypeOK, StoresTyped, folder, warehouse, history
<1> HIDE DEF new
<1>7. ProcFits(p)'
  <2>1. proc'[p].pc = "promoting" /\ proc'[p].todo = <<r>>
    BY <1>3, <1>5
  <2>2. Recorded' = Recorded
    BY DEF PromoteRun, folder, Recorded
  <2>3. Range(proc'[p].todo) \subseteq Recorded'
    BY <1>2, <2>1, <2>2
  <2> QED
    BY <2>1, <2>3 DEF ProcFits, Loaded
<1> QED
  BY <1>1, <1>3, <1>4, <1>5, <1>6, <1>7, ProcStep DEF PromoteRun, folder, warehouse

\* Who may come in takes the warehouse from nobody.
LEMMA Undisturbed ==
  ASSUME NEW p \in Procs, handle \in {Nobody, p}
  PROVE  \A q \in Procs : q # p => handle # q
BY NobodyApart

LEMMA SkipStep ==
  ASSUME SafetyInv, NEW p \in Procs, SkipUnpassed(p)
  PROVE  SafetyInv'
<1> USE DEF SafetyInv
<1> DEFINE me == proc[p]
           new == [me EXCEPT !.todo = Tail(@)]
<1>1. /\ ProcFits(p) /\ me.pc = "promoting" /\ me.todo # <<>> /\ me \in Process
      /\ me.todo \in Seq(Nat \ {0})
  BY ProcTyped DEF SkipUnpassed, Promoting, ProcsFit, At
<1>2. /\ Tail(me.todo) \in Seq(Nat \ {0}) /\ Range(Tail(me.todo)) \subseteq Range(me.todo)
      /\ Range(me.todo) \subseteq Range(Tail(me.todo)) \cup {Head(me.todo)}
  <2>1. 1 \in Nat \ {0}
    OBVIOUS
  <2> QED
    BY <1>1, <2>1, RangesOf
<1>3. new \in Process /\ new.pc = "promoting" /\ new.todo = Tail(me.todo)
  BY <1>1, <1>2 DEF Process, Labels
<1>4. proc' = [proc EXCEPT ![p] = new]
  BY <1>1 DEF SkipUnpassed, TypeOK
<1>5. proc'[p] = new
  BY <1>3, <1>4, Updated
<1>6. StoresTyped'
  BY DEF SkipUnpassed, Leave, TypeOK, StoresTyped, folder, warehouse, history, bounds
<1>7. ProcFits(p)'
  BY <1>1, <1>2, <1>3, <1>5 DEF ProcFits, Loaded, SkipUnpassed, folder, Recorded
<1>8. \A r \in Range(me.todo) : r \in Passed => r \in Range(new.todo)
  BY <1>2, <1>3 DEF Passed, SkipUnpassed, Doing
<1>9. \A q \in Procs : q # p => handle # q
  BY Undisturbed DEF SkipUnpassed
<1> QED
  BY <1>1, <1>3, <1>4, <1>6, <1>7, <1>8, <1>9, ProcStep DEF SkipUnpassed, folder, warehouse

\* A run counts as promoted only when its transactions are current or it was
\* torn: while it is being reconciled nobody else may look.
LEMMA CountStep ==
  ASSUME SafetyInv, NEW p \in Procs, CountExisting(p)
  PROVE  SafetyInv'
<1> USE DEF SafetyInv
<1> DEFINE me == proc[p]
           r == Doing(p)
           new == [me EXCEPT !.pc = IF AlreadyPromoted(r) THEN "refreshing" ELSE "loading"]
<1>1. /\ ProcFits(p) /\ me.pc = "promoting" /\ me.todo # <<>> /\ me \in Process
      /\ me.todo \in Seq(Nat \ {0})
  BY ProcTyped DEF CountExisting, Promoting, ProcsFit, At
<1>2. r \in Range(me.todo) /\ r \in Nat \ {0}
  <2>1. 1 \in Nat \ {0}
    OBVIOUS
  <2> QED
    BY <1>1, <2>1, RangesOf DEF Doing
<1>3. r \in Passed
  BY <1>1, <1>2 DEF ProcFits, Passed, CountExisting
<1>4. \A q \in Procs : q # p => handle # q
  BY Undisturbed DEF CountExisting
<1>5. AlreadyPromoted(r) => Reached(r)
  <2> SUFFICES ASSUME NEW t \in Transactions, factOf[t] = r
               PROVE  Reached(r)
    BY DEF AlreadyPromoted
  <2>1. Reached(r) \/ Reconciling(r)
    BY <1>2 DEF FactsFit
  <2>2. ~Reconciling(r)
    BY <1>1, <1>4 DEF Reconciling, ProcsFit, ProcFits, At
  <2> QED
    BY <2>1, <2>2
<1>6. new \in Process /\ new.pc \in {"refreshing", "loading"} /\ new.todo = me.todo
      /\ (new.pc = "refreshing" => AlreadyPromoted(r))
  <2> HIDE DEF r
  <2> QED
    BY <1>1 DEF Process, Labels
<1>7. proc' = [proc EXCEPT ![p] = new]
  BY <1>1 DEF CountExisting, TypeOK
<1>8. proc'[p] = new
  BY <1>6, <1>7, Updated
<1>9. StoresTyped'
  BY DEF CountExisting, Leave, TypeOK, StoresTyped, folder, warehouse, history, bounds
<1>10. UNCHANGED <<runs, current, torn>> /\ Recorded' = Recorded /\ Passed' = Passed
  BY DEF CountExisting, folder, warehouse, history, Recorded, Passed
<1>11. Doing(p)' = r /\ (Reached(r) => Reached(Doing(p))')
  <2>1. Doing(p)' = r
    BY <1>6, <1>8 DEF Doing
  <2> QED
    BY <2>1, <1>10 DEF Reached, Arrived, Rows, Known
<1> HIDE DEF new, r
<1>12. ProcFits(p)'
  BY <1>1, <1>3, <1>5, <1>6, <1>8, <1>10, <1>11 DEF ProcFits, Loaded
<1> QED
  BY <1>1, <1>4, <1>6, <1>7, <1>9, <1>12, ProcStep DEF CountExisting, folder, warehouse

LEMMA PublishSteps ==
  ASSUME SafetyInv, NEW p \in Procs, ReadMart(p) \/ ReplaceRows(p)
  PROVE  SafetyInv'
<1> USE DEF SafetyInv
<1> DEFINE me == proc[p]
<1>1. ProcFits(p) /\ me \in Process /\ me.copy \subseteq Transactions
  BY ProcTyped DEF ProcsFit
<1>2. CASE ReadMart(p)
  <2> DEFINE new == [me EXCEPT !.pc = "publishing", !.copy = mart]
  <2>1. me.pc = "promoting" /\ me.todo = <<>> /\ Range(me.todo) = {}
    BY <1>2, IdleTyped DEF ReadMart, At
  <2>2. new \in Process /\ new.pc = "publishing" /\ new.todo = <<>> /\ Range(new.todo) = {}
    BY <1>1, <2>1 DEF Process, Labels, TypeOK, StoresTyped
  <2>3. proc' = [proc EXCEPT ![p] = new] /\ proc'[p] = new
    BY <1>2, <2>2, Updated DEF ReadMart
  <2>4. StoresTyped'
    BY <1>2 DEF ReadMart, Leave, TypeOK, StoresTyped, folder, warehouse, history, bounds
  <2>5. ProcFits(p)'
    BY <2>2, <2>3 DEF ProcFits, Loaded
  <2>6. \A q \in Procs : q # p => handle # q
    BY <1>2, Undisturbed DEF ReadMart
  <2> QED
    BY <1>2, <2>1, <2>2, <2>3, <2>4, <2>5, <2>6, ProcStep DEF ReadMart, folder, warehouse
<1>3. CASE ReplaceRows(p)
  <2>1. me.pc = "publishing" /\ me.todo = <<>> /\ Range(me.todo) = {}
    BY <1>1, <1>3, IdleTyped DEF ReplaceRows, At, ProcFits
  <2>2. proc' = [proc EXCEPT ![p] = Idle] /\ proc'[p] = Idle
    BY <1>3, IdleTyped, Updated DEF ReplaceRows
  <2>3. StoresTyped'
    BY <1>1, <1>3 DEF ReplaceRows, TypeOK, StoresTyped, folder, history, bounds
  <2>4. ProcFits(p)'
    BY <2>2, IdleTyped DEF ProcFits, Loaded
  <2>5. \A q \in Procs : q # p /\ handle = q => handle' = q
    BY <1>3 DEF ReplaceRows
  <2> QED
    BY <1>3, <2>1, <2>2, <2>3, <2>4, <2>5, IdleTyped, ProcStep DEF ReplaceRows, folder
<1> QED
  BY <1>2, <1>3

\* What any step of a promotion leaves as it was.
LEMMA BusyStep ==
  ASSUME SafetyInv, NEW p \in Procs, NEW new \in Process, new.pc # "landing",
         proc' = [proc EXCEPT ![p] = new], runs' = runs,
         Known \subseteq Known', torn \subseteq torn', StoresTyped',
         \A q \in Procs : q # p /\ handle = q => handle' = q,
         ProcFits(p)'
  PROVE  /\ TypeOK' /\ ProcsFit' /\ LandingsDiffer' /\ StoresGrow
         /\ proc'[p] = new /\ \A q \in Procs : q # p => proc'[q] = proc[q]
         /\ Recorded' = Recorded /\ Passed' = Passed
         /\ \A r : Rows(r)' = Rows(r)
         /\ \A r \in Recorded : (Arrived(r) => Arrived(r)') /\ (Reached(r) => Reached(r)')
<1> USE DEF SafetyInv
<1>1. TypeOK' /\ proc'[p] = new /\ \A q \in Procs : q # p => proc'[q] = proc[q]
  BY Updated DEF TypeOK
<1>2. StoresGrow /\ Recorded' = Recorded /\ Passed' = Passed /\ \A r : Rows(r)' = Rows(r)
  BY DEF StoresGrow, RunsGrow, Recorded, Passed, Rows
<1>3. \A q \in Procs : At(q, "landing") => proc[q].run \notin Recorded'
  BY <1>2 DEF ProcsFit, ProcFits, At
<1>4. \A q \in Procs : q # p => ProcFits(q)'
  BY <1>1, <1>2, <1>3, OthersFit
<1>5. ProcsFit'
  BY <1>4 DEF ProcsFit
<1>6. LandingsDiffer'
  BY <1>1 DEF LandingsDiffer, At
<1>7. \A r \in Recorded : (Arrived(r) => Arrived(r)') /\ (Reached(r) => Reached(r)')
  BY <1>2, Onward DEF Recorded
<1> QED
  BY <1>1, <1>2, <1>5, <1>6, <1>7

\* Where a process is that is in the middle of a promotion.
LEMMA Busy ==
  ASSUME SafetyInv, NEW p \in Procs, proc[p].pc \in Loaded
  PROVE  /\ ProcFits(p) /\ proc[p] \in Process /\ proc[p].todo \in Seq(Nat \ {0})
         /\ proc[p].todo # <<>> /\ Doing(p) \in Passed /\ Doing(p) \in Recorded
         /\ Doing(p) \in DOMAIN runs /\ Doing(p) \in Nat \ {0}
         /\ Doing(p) \in Range(proc[p].todo)
         /\ Tail(proc[p].todo) \in Seq(Nat \ {0})
         /\ Range(Tail(proc[p].todo)) \subseteq Range(proc[p].todo)
         /\ Range(proc[p].todo) \subseteq Range(Tail(proc[p].todo)) \cup {Doing(p)}
<1>1. /\ ProcFits(p) /\ proc[p] \in Process /\ proc[p].todo \in Seq(Nat \ {0})
      /\ proc[p].todo # <<>>
  BY ProcTyped DEF SafetyInv, ProcsFit, ProcFits
<1>2. Doing(p) \in Passed /\ Doing(p) \in Recorded /\ Doing(p) \in DOMAIN runs
  BY <1>1 DEF ProcFits, Passed, Recorded
<1>3. 1 \in Nat \ {0}
  OBVIOUS
<1> QED
  BY <1>1, <1>2, <1>3, RangesOf DEF Doing

\* Facts that stay as they are still fit, when a process that was reconciling
\* has reached what it was reconciling.
LEMMA FactsKept ==
  ASSUME SafetyInv, NEW p \in Procs, factOf' = factOf, Passed' = Passed,
         \A q \in Procs : q # p => proc'[q] = proc[q],
         \A s \in Recorded : Reached(s) => Reached(s)',
         \A s \in Recorded : proc[p].pc = "reconciling" /\ Doing(p) = s => Reached(s)'
  PROVE  FactsFit'
<1> SUFFICES ASSUME NEW t \in Transactions, NEW s, s = factOf[t], s # 0
             PROVE  s \in Passed' /\ (Reached(s)' \/ Reconciling(s)')
  BY DEF FactsFit, Reached, Arrived, Rows, Reconciling, Doing, Known, At
<1>1. s \in Passed /\ s \in Recorded /\ (Reached(s) \/ Reconciling(s))
  BY DEF SafetyInv, FactsFit, Passed, Reached, Arrived, Rows, Reconciling
<1>2. CASE Reconciling(s)
  <2>1. PICK q \in Procs : At(q, "reconciling") /\ Doing(q) = s
    BY <1>2 DEF Reconciling
  <2>2. CASE q = p
    BY <1>1, <2>1, <2>2 DEF At
  <2>3. CASE q # p
    BY <1>1, <2>1, <2>3 DEF Reconciling, At, Doing
  <2> QED
    BY <2>2, <2>3
<1> QED
  BY <1>1, <1>2

LEMMA LoadStep ==
  ASSUME SafetyInv, NEW p \in Procs, Load(p)
  PROVE  SafetyInv'
<1> USE DEF SafetyInv
<1> DEFINE me == proc[p]
           r == Doing(p)
           new == [me EXCEPT !.pc = "reconciling"]
<1>1. me.pc = "loading" /\ me.pc \in Loaded
  BY DEF Load, At, Loaded
<1>2. /\ ProcFits(p) /\ me \in Process /\ me.todo # <<>> /\ r \in Passed
      /\ r \in Recorded /\ r \in Nat \ {0}
  BY <1>1, Busy
<1>3. new \in Process /\ new.pc = "reconciling" /\ new.todo = me.todo
  BY <1>2 DEF Process, Labels
<1>4. proc' = [proc EXCEPT ![p] = new] /\ proc'[p] = new
  <2>1. proc' = [proc EXCEPT ![p] = new]
    BY <1>2 DEF Load, TypeOK
  <2> QED
    BY <1>3, <2>1, Updated
<1>5. /\ factOf' \in [Transactions -> Nat]
      /\ \A t \in Transactions : factOf'[t] = r \/ factOf'[t] = factOf[t]
  BY <1>2 DEF Load, TypeOK, StoresTyped
<1>6. StoresTyped'
  BY <1>5 DEF Load, Enter, TypeOK, StoresTyped, folder, history, bounds
<1>7. UNCHANGED <<runs, current, mart, reconciled, torn, abandoned, returned>> /\ Known' = Known
      /\ handle \in {Nobody, p} /\ handle' = p
  BY DEF Load, Enter, folder, history, Known
<1>8. \A q \in Procs : q # p => handle # q
  BY <1>7, Undisturbed
<1>9. Doing(p)' = r /\ Recorded' = Recorded /\ Passed' = Passed
  BY <1>3, <1>4, <1>7 DEF Doing, Recorded, Passed
<1>10. ProcFits(p)'
  BY <1>2, <1>3, <1>4, <1>7, <1>9 DEF ProcFits, Loaded
<1>11. /\ TypeOK' /\ ProcsFit' /\ LandingsDiffer'
       /\ \A q \in Procs : q # p => proc'[q] = proc[q]
       /\ \A s : Rows(s)' = Rows(s)
       /\ \A s \in Recorded : (Arrived(s) => Arrived(s)') /\ (Reached(s) => Reached(s)')
  BY <1>3, <1>4, <1>6, <1>7, <1>8, <1>10, BusyStep
<1>12. FactsFit'
  <2> SUFFICES ASSUME NEW t \in Transactions, NEW s, s = factOf'[t], s # 0
               PROVE  s \in Passed' /\ (Reached(s)' \/ Reconciling(s)')
    BY DEF FactsFit, Reached, Arrived, Rows, Reconciling, Doing, Known, At
  <2>1. CASE s = r
    <3>1. Reconciling(s)'
      BY <1>3, <1>4, <1>9, <2>1 DEF Reconciling, At
    <3> QED
      BY <1>2, <1>9, <2>1, <3>1
  <2>2. CASE s = factOf[t]
    <3>1. s \in Passed /\ s \in Recorded /\ (Reached(s) \/ Reconciling(s))
      BY <2>2 DEF FactsFit, Passed, Reached, Arrived, Rows, Reconciling
    <3>2. CASE Reached(s)
      BY <1>9, <1>11, <3>1, <3>2
    <3>3. CASE Reconciling(s)
      <4>1. PICK q \in Procs : At(q, "reconciling") /\ Doing(q) = s
        BY <3>3 DEF Reconciling
      <4>2. q # p
        BY <1>1, <4>1 DEF At
      <4> QED
        BY <1>9, <1>11, <3>1, <4>1, <4>2 DEF Reconciling, At, Doing
    <3> QED
      BY <1>9, <3>1, <3>2, <3>3
  <2> QED
    BY <1>5, <2>1, <2>2
<1>13. RunsFit'
  BY <1>7, <1>9, <1>11 DEF RunsFit
<1>14. PassedRunsArrive'
  <2>1. \A q \in Procs : proc'[q].todo = proc[q].todo
    BY <1>3, <1>4, <1>11
  <2> QED
    BY <1>7, <1>9, <1>11, <2>1 DEF PassedRunsArrive
<1>15. CurrentIsRichest'
  BY <1>7, <1>11 DEF CurrentIsRichest
<1>16. MartFollowsCurrent'
  BY <1>1, <1>7, <1>11 DEF MartFollowsCurrent
<1> QED
  BY <1>11, <1>12, <1>13, <1>14, <1>15, <1>16

\* What is known stays known, and a description stands.
LEMMA Richer ==
  ASSUME NEW known \in Descriptions \cup {Blank, Unknown},
         NEW seen \in Descriptions \cup {Blank}
  PROVE  /\ RicherOf(known, seen) \in Descriptions \cup {Blank}
         /\ known \in Descriptions => RicherOf(known, seen) = known
         /\ RicherOf(known, seen) = Blank <=> known \in {Blank, Unknown} /\ seen = Blank
         /\ RicherOf(known, seen) # Unknown
<1>1. Blank # Unknown /\ Blank \notin Descriptions /\ Unknown \notin Descriptions
  BY ConstantsOK DEF ConstantsOK, Blank, Unknown
<1> QED
  BY <1>1 DEF RicherOf

LEMMA ReconcileStep ==
  ASSUME SafetyInv, NEW p \in Procs, Reconcile(p)
  PROVE  SafetyInv'
<1> USE DEF SafetyInv
<1> DEFINE me == proc[p]
           r == Doing(p)
           new == [me EXCEPT !.pc = "refreshing"]
<1>1. me.pc = "reconciling" /\ me.pc \in Loaded
  BY DEF Reconcile, At, Loaded
<1>2. /\ ProcFits(p) /\ me \in Process /\ me.todo # <<>> /\ r \in Passed
      /\ r \in Recorded /\ r \in Nat \ {0} /\ r \in DOMAIN runs
  BY <1>1, Busy
<1>3. new \in Process /\ new.pc = "refreshing" /\ new.todo = me.todo
  BY <1>2 DEF Process, Labels
<1>4. proc' = [proc EXCEPT ![p] = new] /\ proc'[p] = new
  <2>1. proc' = [proc EXCEPT ![p] = new]
    BY <1>2 DEF Reconcile, TypeOK
  <2> QED
    BY <1>3, <2>1, Updated
<1>5. /\ DOMAIN Rows(r) \subseteq Transactions
      /\ \A t \in DOMAIN Rows(r) : Rows(r)[t] \in Descriptions \cup {Blank}
  BY <1>2, RowsFit
<1>6. /\ current' \in [Transactions -> Descriptions \cup {Blank, Unknown}]
      /\ \A t \in DOMAIN Rows(r) : current'[t] = RicherOf(current[t], Rows(r)[t])
      /\ \A t \in Transactions : t \notin DOMAIN Rows(r) => current'[t] = current[t]
  <2>1. current' = [t \in Transactions |->
          IF t \in DOMAIN Rows(r) THEN RicherOf(current[t], Rows(r)[t]) ELSE current[t]]
    BY DEF Reconcile
  <2>2. \A t \in Transactions : current[t] \in Descriptions \cup {Blank, Unknown}
    BY DEF TypeOK, StoresTyped
  <2>3. \A t \in DOMAIN Rows(r) :
          RicherOf(current[t], Rows(r)[t]) \in Descriptions \cup {Blank, Unknown}
    BY <1>5, <2>2, Richer
  <2> QED
    BY <1>5, <2>1, <2>2, <2>3
<1>7. /\ UNCHANGED <<runs, factOf, mart, torn, abandoned, returned>> /\ handle = p
      /\ reconciled' = reconciled \cup {r}
  BY DEF Reconcile, folder, history
<1>8. StoresTyped'
  BY <1>2, <1>6, <1>7 DEF Reconcile, Leave, TypeOK, StoresTyped, folder, bounds, history
<1>9. Known \subseteq Known' /\ DOMAIN Rows(r) \subseteq Known'
  <2>1. \A t \in DOMAIN Rows(r) : t \in Transactions /\ current'[t] # Unknown
    <3> SUFFICES ASSUME NEW t \in DOMAIN Rows(r)
                 PROVE  t \in Transactions /\ current'[t] # Unknown
      OBVIOUS
    <3>1. t \in Transactions /\ current[t] \in Descriptions \cup {Blank, Unknown}
      BY <1>5 DEF TypeOK, StoresTyped
    <3> QED
      BY <1>5, <1>6, <3>1, Richer
  <2>2. \A t \in Known : current'[t] # Unknown
    BY <1>6, <2>1 DEF Known
  <2> QED
    BY <2>1, <2>2 DEF Known
<1>10. Doing(p)' = r /\ Recorded' = Recorded /\ Passed' = Passed /\ Rows(r)' = Rows(r)
  BY <1>3, <1>4, <1>7 DEF Doing, Recorded, Passed, Rows
<1>11. Arrived(r)' /\ Reached(Doing(p))'
  BY <1>9, <1>10 DEF Arrived, Reached, Known, Rows
<1>12. ProcFits(p)'
  BY <1>2, <1>3, <1>4, <1>10, <1>11 DEF ProcFits, Loaded
<1>13. \A q \in Procs : q # p => handle # q
  BY <1>7, Undisturbed
<1>14. /\ TypeOK' /\ ProcsFit' /\ LandingsDiffer'
       /\ \A q \in Procs : q # p => proc'[q] = proc[q]
       /\ \A s : Rows(s)' = Rows(s)
       /\ \A s \in Recorded : (Arrived(s) => Arrived(s)') /\ (Reached(s) => Reached(s)')
  BY <1>3, <1>4, <1>7, <1>8, <1>9, <1>12, <1>13, BusyStep
<1>15. FactsFit'
  <2> SUFFICES ASSUME NEW t \in Transactions, factOf[t] # 0
               PROVE  factOf[t] \in Passed' /\ (Reached(factOf[t])' \/ Reconciling(factOf[t])')
    BY <1>7 DEF FactsFit, Reached, Arrived, Rows, Reconciling, Doing, Known, At
  <2> DEFINE s == factOf[t]
  <2>1. s \in Passed /\ s \in Recorded /\ (Reached(s) \/ Reconciling(s))
    BY DEF FactsFit, Passed
  <2>2. CASE Reached(s)
    BY <1>7, <1>10, <1>14, <2>1, <2>2 DEF Reached, Arrived, Rows, Known
  <2>3. CASE Reconciling(s)
    <3>1. PICK q \in Procs : At(q, "reconciling") /\ Doing(q) = s
      BY <2>3 DEF Reconciling
    <3>2. CASE q = p
      BY <1>7, <1>10, <1>11, <2>1, <3>1, <3>2 DEF Reached, Arrived, Rows, Known
    <3>3. CASE q # p
      BY <1>7, <1>10, <1>14, <2>1, <3>1, <3>3 DEF Reconciling, At, Doing
    <3> QED
      BY <3>2, <3>3
  <2> QED
    BY <2>1, <2>2, <2>3
<1>16. RunsFit'
  BY <1>2, <1>7, <1>10, <1>11, <1>14 DEF RunsFit
<1>17. PassedRunsArrive'
  <2>1. \A q \in Procs : proc'[q].todo = proc[q].todo
    BY <1>3, <1>4, <1>14
  <2>2. \A s \in Passed : s \in Recorded
    BY DEF Passed
  <2>3. \A s \in Passed : DOMAIN Rows(s) \subseteq Known => DOMAIN Rows(s)' \subseteq Known'
    BY <1>9, <1>14
  <2> QED
    BY <1>7, <1>10, <2>1, <2>3 DEF PassedRunsArrive
<1>18. CurrentIsRichest'
  <2> SUFFICES ASSUME NEW t \in Transactions, current'[t] = Blank,
                      NEW s \in reconciled \cup {r}, t \in DOMAIN Rows(s)
               PROVE  Rows(s)[t] = Blank
    BY <1>7, <1>14 DEF CurrentIsRichest
  <2>1. current[t] \in Descriptions \cup {Blank, Unknown}
    BY DEF TypeOK, StoresTyped
  <2>2. CASE s = r
    BY <1>5, <1>6, <2>1, <2>2, Richer
  <2>3. CASE s \in reconciled
    <3>1. t \in Known /\ current[t] # Unknown
      BY <2>3 DEF RunsFit, Arrived, Known
    <3>2. current[t] = Blank
      <4>1. CASE t \in DOMAIN Rows(r)
        BY <1>5, <1>6, <2>1, <3>1, <4>1, Richer
      <4>2. CASE t \notin DOMAIN Rows(r)
        BY <1>6, <4>2
      <4> QED
        BY <4>1, <4>2
    <3> QED
      BY <2>3, <3>2 DEF CurrentIsRichest
  <2> QED
    BY <2>2, <2>3
<1>19. MartFollowsCurrent'
  BY <1>3, <1>4 DEF MartFollowsCurrent
<1> QED
  BY <1>14, <1>15, <1>16, <1>17, <1>18, <1>19

LEMMA ClearStep ==
  ASSUME SafetyInv, NEW p \in Procs, ClearMart(p)
  PROVE  SafetyInv'
<1> USE DEF SafetyInv
<1> DEFINE me == proc[p]
           r == Doing(p)
           new == [me EXCEPT !.pc = "filling"]
<1>1. me.pc = "refreshing" /\ me.pc \in Loaded
  BY DEF ClearMart, At, Loaded
<1>2. /\ ProcFits(p) /\ me \in Process /\ me.todo # <<>> /\ r \in Passed
      /\ r \in Recorded /\ Reached(r)
  BY <1>1, Busy DEF ProcFits
<1>3. new \in Process /\ new.pc = "filling" /\ new.todo = me.todo
  BY <1>2 DEF Process, Labels
<1>4. proc' = [proc EXCEPT ![p] = new] /\ proc'[p] = new
  <2>1. proc' = [proc EXCEPT ![p] = new]
    BY <1>2 DEF ClearMart, TypeOK
  <2> QED
    BY <1>3, <2>1, Updated
<1>5. StoresTyped'
  BY DEF ClearMart, Enter, TypeOK, StoresTyped, folder, history, bounds
<1>6. UNCHANGED <<runs, factOf, current, reconciled, torn, abandoned, returned>> /\ Known' = Known
      /\ handle \in {Nobody, p} /\ handle' = p
  BY DEF ClearMart, Enter, folder, history, Known
<1>7. \A q \in Procs : q # p => handle # q
  BY <1>6, Undisturbed
<1>8. Doing(p)' = r /\ Recorded' = Recorded /\ Passed' = Passed /\ Reached(Doing(p))'
  <2>1. Recorded' = Recorded /\ Passed' = Passed
    BY <1>6 DEF Recorded, Passed
  <2>2. UNCHANGED <<runs, current, torn>>
    BY <1>6
  <2>3. Doing(p)' = r
    BY <1>3, <1>4 DEF Doing
  <2> HIDE DEF r
  <2>4. Reached(Doing(p))'
    <3>1. Reached(r)
      BY <1>2
    <3>2. Rows(Doing(p))' = Rows(r) /\ Known' = Known
      BY <1>6, <2>2, <2>3 DEF Rows
    <3> QED
      BY <2>2, <2>3, <3>1, <3>2 DEF Reached, Arrived
  <2> QED
    BY <2>1, <2>3, <2>4
<1> HIDE DEF new
<1>9. ProcFits(p)'
  <2>1. proc'[p].pc = "filling" /\ proc'[p].todo = me.todo
    BY <1>3, <1>4
  <2>2. Range(proc'[p].todo) \subseteq Recorded'
    BY <1>2, <1>8, <2>1 DEF ProcFits
  <2>3. proc'[p].todo # <<>> /\ Doing(p)' \in Passed'
    BY <1>2, <1>8, <2>1
  <2> HIDE DEF me, r
  <2> QED
    BY <1>6, <1>8, <2>1, <2>2, <2>3 DEF ProcFits, Loaded
<1>10. /\ TypeOK' /\ ProcsFit' /\ LandingsDiffer'
       /\ \A q \in Procs : q # p => proc'[q] = proc[q]
       /\ \A s : Rows(s)' = Rows(s)
       /\ \A s \in Recorded : (Arrived(s) => Arrived(s)') /\ (Reached(s) => Reached(s)')
  BY <1>3, <1>4, <1>5, <1>6, <1>7, <1>9, BusyStep
<1>11. FactsFit'
  BY <1>1, <1>4, <1>6, <1>8, <1>10, FactsKept
<1>12. RunsFit'
  BY <1>6, <1>8, <1>10 DEF RunsFit
<1>13. PassedRunsArrive'
  <2>1. \A q \in Procs : proc'[q].todo = proc[q].todo
    BY <1>3, <1>4, <1>10
  <2> QED
    BY <1>6, <1>8, <1>10, <2>1 DEF PassedRunsArrive
<1>14. CurrentIsRichest'
  BY <1>6, <1>10 DEF CurrentIsRichest
<1>15. MartFollowsCurrent'
  BY <1>3, <1>4 DEF MartFollowsCurrent
<1> QED
  BY <1>10, <1>11, <1>12, <1>13, <1>14, <1>15

LEMMA FillStep ==
  ASSUME SafetyInv, NEW p \in Procs, FillMart(p)
  PROVE  SafetyInv'
<1> USE DEF SafetyInv
<1> DEFINE me == proc[p]
           r == Doing(p)
           new == [me EXCEPT !.pc = "promoting", !.todo = Tail(@)]
<1>1. me.pc = "filling" /\ me.pc \in Loaded
  BY DEF FillMart, At, Loaded
<1>2. /\ ProcFits(p) /\ me \in Process /\ me.todo # <<>> /\ r \in Recorded
      /\ r \in Nat \ {0} /\ Reached(r) /\ Tail(me.todo) \in Seq(Nat \ {0})
      /\ Range(Tail(me.todo)) \subseteq Range(me.todo)
      /\ Range(me.todo) \subseteq Range(Tail(me.todo)) \cup {r}
  BY <1>1, Busy DEF ProcFits
<1>3. new \in Process /\ new.pc = "promoting" /\ new.todo = Tail(me.todo)
  BY <1>2 DEF Process, Labels
<1>4. proc' = [proc EXCEPT ![p] = new] /\ proc'[p] = new
  <2>1. proc' = [proc EXCEPT ![p] = new]
    BY DEF FillMart
  <2> QED
    BY <1>3, <2>1, Updated
<1>5. /\ UNCHANGED <<runs, factOf, current, reconciled, torn, abandoned>> /\ Known' = Known
      /\ handle = p /\ mart' = Known /\ returned' = returned \cup {r}
  BY DEF FillMart, folder, Known, MartRows
<1>6. StoresTyped'
  BY <1>2, <1>5 DEF FillMart, Leave, TypeOK, StoresTyped, folder, bounds, Known
<1>7. \A q \in Procs : q # p => handle # q
  BY <1>5, Undisturbed
<1>8. Recorded' = Recorded /\ Passed' = Passed
  BY <1>5 DEF Recorded, Passed
<1>9. ProcFits(p)'
  BY <1>2, <1>3, <1>4, <1>8 DEF ProcFits, Loaded
<1>10. /\ TypeOK' /\ ProcsFit' /\ LandingsDiffer'
       /\ \A q \in Procs : q # p => proc'[q] = proc[q]
       /\ \A s : Rows(s)' = Rows(s)
       /\ \A s \in Recorded : (Arrived(s) => Arrived(s)') /\ (Reached(s) => Reached(s)')
  BY <1>3, <1>4, <1>5, <1>6, <1>7, <1>9, BusyStep
<1>11. FactsFit'
  BY <1>1, <1>5, <1>8, <1>10, FactsKept
<1>12. RunsFit'
  BY <1>2, <1>5, <1>8, <1>10 DEF RunsFit
<1>13. PassedRunsArrive'
  <2> SUFFICES ASSUME NEW s \in Passed
               PROVE  DOMAIN Rows(s) \subseteq Known \/ s \in abandoned
                      \/ \E q \in Procs : s \in Range(proc'[q].todo)
    BY <1>5, <1>8, <1>10 DEF PassedRunsArrive
  <2>1. CASE s = r
    <3>1. r \in abandoned \/ DOMAIN Rows(r) \subseteq Known
      BY <1>2 DEF Reached, Arrived, RunsFit
    <3> QED
      BY <2>1, <3>1
  <2>2. CASE s # r
    <3>1. DOMAIN Rows(s) \subseteq Known \/ s \in abandoned
          \/ \E q \in Procs : s \in Range(proc[q].todo)
      BY DEF PassedRunsArrive
    <3>2. \A q \in Procs : s \in Range(proc[q].todo) => s \in Range(proc'[q].todo)
      BY <1>2, <1>3, <1>4, <1>10, <2>2
    <3> QED
      BY <3>1, <3>2
  <2> QED
    BY <2>1, <2>2
<1>14. CurrentIsRichest'
  BY <1>5, <1>10 DEF CurrentIsRichest
<1>15. MartFollowsCurrent'
  BY <1>5 DEF MartFollowsCurrent
<1> QED
  BY <1>10, <1>11, <1>12, <1>13, <1>14, <1>15

\* A process that fails leaves what it had still to promote behind.
LEMMA AbandonStep ==
  ASSUME SafetyInv, NEW p \in Procs, Abandon(p)
  PROVE  SafetyInv'
<1> USE DEF SafetyInv
<1> DEFINE me == proc[p]
<1>1. me \in Process /\ ProcFits(p) /\ me.todo \in Seq(Nat \ {0})
  BY ProcTyped DEF ProcsFit
<1>2. Range(me.todo) \subseteq Recorded /\ Range(me.todo) \subseteq Nat
  <2>1. Recorded \subseteq Nat
    BY RunTyped DEF Recorded
  <2> QED
    BY <1>1, <2>1 DEF ProcFits
<1>3. abandoned' = abandoned \cup Range(me.todo)
  <2>1. CASE me.pc = "publishing"
    <3>1. Range(me.todo) = {}
      BY <1>1, <2>1, IdleTyped DEF ProcFits
    <3> QED
      BY <2>1, <3>1 DEF Abandon
  <2>2. CASE me.pc # "publishing"
    BY <2>2 DEF Abandon
  <2> QED
    BY <2>1, <2>2
<1>4. me.pc \in Loaded => Doing(p) \in Range(me.todo) /\ Doing(p) \in Recorded
  BY Busy
<1>5. /\ torn \subseteq torn' /\ torn' \subseteq torn \cup Range(me.todo)
      /\ me.pc = "reconciling" => Doing(p) \in torn'
  BY <1>4 DEF Abandon, Loaded
<1>6. /\ UNCHANGED <<runs, factOf, current, mart, reconciled, returned>> /\ Known' = Known
      /\ Recorded' = Recorded /\ Passed' = Passed
  BY DEF Abandon, folder, warehouse, Known, Recorded, Passed
<1>7. StoresTyped'
  <2>1. torn' \subseteq Nat /\ abandoned' \subseteq Nat
    BY <1>2, <1>3, <1>5 DEF TypeOK, StoresTyped
  <2> QED
    BY <2>1 DEF Abandon, TypeOK, StoresTyped, folder, warehouse
<1>8. proc' = [proc EXCEPT ![p] = Idle] /\ proc'[p] = Idle
  BY IdleTyped, Updated DEF Abandon
<1>9. ProcFits(p)'
  BY <1>8, IdleTyped DEF ProcFits, Loaded
<1>10. \A q \in Procs : q # p /\ handle = q => handle' = q
  BY DEF Abandon
<1>11. /\ TypeOK' /\ ProcsFit' /\ LandingsDiffer'
       /\ \A q \in Procs : q # p => proc'[q] = proc[q]
       /\ \A s : Rows(s)' = Rows(s)
       /\ \A s \in Recorded : (Arrived(s) => Arrived(s)') /\ (Reached(s) => Reached(s)')
  BY <1>5, <1>6, <1>7, <1>8, <1>9, <1>10, IdleTyped, BusyStep
<1>12. FactsFit'
  <2>1. \A s \in Recorded : me.pc = "reconciling" /\ Doing(p) = s => Reached(s)'
    BY <1>5 DEF Reached
  <2> QED
    BY <1>6, <1>11, <2>1, FactsKept
<1>13. RunsFit'
  BY <1>2, <1>3, <1>5, <1>6, <1>11 DEF RunsFit
<1>14. PassedRunsArrive'
  <2> SUFFICES ASSUME NEW s \in Passed
               PROVE  DOMAIN Rows(s) \subseteq Known \/ s \in abandoned'
                      \/ \E q \in Procs : s \in Range(proc'[q].todo)
    BY <1>6, <1>11 DEF PassedRunsArrive
  <2>1. DOMAIN Rows(s) \subseteq Known \/ s \in abandoned
        \/ \E q \in Procs : s \in Range(proc[q].todo)
    BY DEF PassedRunsArrive
  <2> QED
    BY <1>3, <1>11, <2>1
<1>15. CurrentIsRichest'
  BY <1>6, <1>11 DEF CurrentIsRichest
<1>16. MartFollowsCurrent'
  <2>1. CASE me.pc \in {"refreshing", "filling"}
    BY <1>3, <1>4, <2>1 DEF MartFollowsCurrent, Loaded
  <2>2. CASE me.pc \notin {"refreshing", "filling"}
    BY <1>3, <1>6, <1>11, <2>2 DEF MartFollowsCurrent
  <2> QED
    BY <2>1, <2>2
<1> QED
  BY <1>11, <1>12, <1>13, <1>14, <1>15, <1>16

-----------------------------------------------------------------------------
(* The theorems *)

LEMMA SafetyInit == Init => SafetyInv
<1> SUFFICES ASSUME Init
             PROVE  SafetyInv
  OBVIOUS
<1> USE DEF Init
<1>1. /\ DOMAIN runs = {} /\ runs \in Seq(Run) /\ Recorded = {} /\ Passed = {} /\ Known = {}
  BY DEF Recorded, Passed, Known
<1>2. TypeOK
  <2>1. StoresTyped
    BY <1>1 DEF StoresTyped, Places
  <2> QED
    BY <2>1, IdleTyped DEF TypeOK
<1>3. ProcsFit /\ LandingsDiffer
  <2>1. \A p \in Procs : proc[p] = Idle
    OBVIOUS
  <2> QED
    BY <2>1, IdleTyped DEF ProcsFit, ProcFits, Loaded, LandingsDiffer, At
<1>4. FactsFit /\ RunsFit
  BY DEF FactsFit, RunsFit
<1>5. PassedRunsArrive /\ CurrentIsRichest /\ MartFollowsCurrent
  BY <1>1 DEF PassedRunsArrive, CurrentIsRichest, MartFollowsCurrent
<1> QED
  BY <1>2, <1>3, <1>4, <1>5 DEF SafetyInv

LEMMA SafetyKept == SafetyInv /\ [Next]_vars => SafetyInv'
<1> SUFFICES ASSUME SafetyInv, [Next]_vars
             PROVE  SafetyInv'
  OBVIOUS
<1>1. CASE UNCHANGED vars
  <2>1. StoresTyped'
    BY <1>1 DEF SafetyInv, TypeOK, StoresTyped, vars, folder, warehouse, history, bounds
  <2> QED
    BY <1>1, <2>1, FilesApart DEF vars, folder, warehouse, history
<1>2. ASSUME NEW f \in Files, Arrive(f)
      PROVE  SafetyInv'
  BY <1>2, ArriveStep
<1>3. ASSUME NEW w \in Workers, Dispatch(w)
      PROVE  SafetyInv'
  BY <1>3, StartStep, TakeStep, MoveStep, EndScanStep DEF Dispatch
<1>4. ASSUME NEW p \in Commands, NEW r \in Recorded, PromoteRun(p, r)
      PROVE  SafetyInv'
  BY <1>4, PromoteStep
<1>5. ASSUME NEW p \in Clients, NEW c \in Contents, Upload(p, c)
      PROVE  SafetyInv'
  BY <1>5, UploadStep DEF Upload
<1>6. ASSUME NEW p \in Clients, NEW r \in Recorded, Retry(p, r)
      PROVE  SafetyInv'
  <2>1. runs[r].content \in Contents
    BY RunTyped DEF SafetyInv, Recorded, Run
  <2> QED
    BY <1>6, <2>1, UploadStep DEF Retry
<1>7. ASSUME NEW p \in Procs, CreateRun(p) \/ Promotion(p) \/ Abandon(p)
      PROVE  SafetyInv'
  BY <1>7, CreateRunStep, SkipStep, CountStep, LoadStep, ReconcileStep, ClearStep, FillStep,
     PublishSteps, AbandonStep DEF Promotion
<1> QED
  BY <1>1, <1>2, <1>3, <1>4, <1>5, <1>6, <1>7 DEF Next

\* The inductive invariant holds in every reachable state.
THEOREM Safety == Spec => []SafetyInv
<1> QED
  BY SafetyInit, SafetyKept, PTL DEF Spec

\* Every variable of the ingestion keeps its type.
THEOREM TypeCorrect == Spec => []TypeOK
<1>1. SafetyInv => TypeOK
  BY DEF SafetyInv
<1> QED
  BY <1>1, Safety, PTL

\* A run that passed is current, or somebody still has it to promote, or the
\* process that had it failed.
THEOREM RunsArrive == Spec => []PassedRunsArrive
<1>1. SafetyInv => PassedRunsArrive
  BY DEF SafetyInv
<1> QED
  BY <1>1, Safety, PTL

\* A description is blank only when no reconciled statement has one.
THEOREM RichestStands == Spec => []CurrentIsRichest
<1>1. SafetyInv => CurrentIsRichest
  BY DEF SafetyInv
<1> QED
  BY <1>1, Safety, PTL

\* Without failures, a mart that is behind is about to be refreshed.
THEOREM MartIsRefreshed == Spec => []MartFollowsCurrent
<1>1. SafetyInv => MartFollowsCurrent
  BY DEF SafetyInv
<1> QED
  BY <1>1, Safety, PTL

\* Whatever is loaded comes from a run that passed.
THEOREM OnlyPassedRunsLoad == Spec => []FactsComeFromPassedRuns
<1>1. SafetyInv => FactsComeFromPassedRuns
  BY DEF SafetyInv, FactsFit, FactsComeFromPassedRuns
<1> QED
  BY <1>1, Safety, PTL

\* promote_run is retry-safe except in one place: when a run's transactions are
\* not current although a promotion of it ended well, a process failed between
\* loading and reconciling it.
THEOREM RetryGapIsTorn == Spec => []OnlyTornRunsAreMissed
<1>1. SafetyInv => OnlyTornRunsAreMissed
  BY DEF SafetyInv, RunsFit, Reached, Arrived, OnlyTornRunsAreMissed
<1> QED
  BY <1>1, Safety, PTL

\* Reconciliation leaves a description as it stands, and nothing else writes it.
THEOREM DescriptionsStand == Spec => DescriptionStands
<1>1. SafetyInv /\ [Next]_vars =>
        [\A t \in Transactions : current[t] \in Descriptions => current'[t] = current[t]]_vars
  <2> SUFFICES ASSUME SafetyInv, [Next]_vars,
                      NEW t \in Transactions, current[t] \in Descriptions
               PROVE  current'[t] = current[t]
    OBVIOUS
  <2>1. CASE current' = current
    BY <2>1
  <2>2. ASSUME NEW p \in Procs, Reconcile(p)
        PROVE  current'[t] = current[t]
    <3>1. Doing(p) \in DOMAIN runs
      BY <2>2, Busy DEF Reconcile, At, Loaded
    <3>2. t \in DOMAIN Rows(Doing(p)) => Rows(Doing(p))[t] \in Descriptions \cup {Blank}
      BY <3>1, RowsFit DEF SafetyInv
    <3>3. current'[t] = IF t \in DOMAIN Rows(Doing(p))
                        THEN RicherOf(current[t], Rows(Doing(p))[t]) ELSE current[t]
      BY <2>2 DEF Reconcile
    <3> QED
      BY <3>2, <3>3, Richer
  <2>3. current' = current \/ \E p \in Procs : Reconcile(p)
    BY DEF Next, vars, folder, warehouse, bounds, Arrive, Dispatch, StartDispatch, TakeFile,
           MoveFile, EndScan, Land, PromoteRun, Upload, Retry, CreateRun, Promotion,
           SkipUnpassed, CountExisting, Load, ClearMart, FillMart, ReadMart, ReplaceRows, Abandon
  <2> QED
    BY <2>1, <2>2, <2>3
<1> QED
  BY <1>1, Safety, PTL DEF Spec, DescriptionStands

-----------------------------------------------------------------------------
(* What is published *)

\* A fact is in the statement of the run it carries.
FactsBrought == \A t \in Transactions : factOf[t] # 0 => t \in DOMAIN Rows(factOf[t])

\* What is reconciled, or being reconciled, has been loaded.
LoadedFirst ==
  /\ \A t \in Known : factOf[t] # 0
  /\ \A p \in Procs : At(p, "reconciling") => \A t \in DOMAIN Rows(Doing(p)) : factOf[t] # 0

\* A current transaction reads as a statement that was reconciled has it.
Attested(t) == \E r \in reconciled : t \in DOMAIN Rows(r) /\ Rows(r)[t] = current[t]

\* The mart, the copies that are read from it and the published rows only add up
\* what is current.
CopiesKnown ==
  /\ mart \subseteq Known /\ published \subseteq Known
  /\ \A p \in Procs : proc[p].copy \subseteq Known

Backed == FactsBrought /\ LoadedFirst /\ (\A t \in Known : Attested(t)) /\ CopiesKnown

\* Whatever the published copy adds up was loaded from a run that passed and has
\* it in its statement, and reads as a reconciled statement has it.
PublishedIsBacked ==
  \A t \in published :
    /\ factOf[t] \in Passed /\ t \in DOMAIN Rows(factOf[t])
    /\ Attested(t)

\* What a step means for that which leaves the facts and the current transactions
\* alone, and brings no process to its reconciliation.
LEMMA BackedKept ==
  ASSUME SafetyInv, Backed, RunsGrow,
         UNCHANGED <<factOf, current, reconciled>>,
         mart' \subseteq Known, published' \subseteq Known,
         \A q \in Procs : proc'[q].copy \subseteq Known,
         \A q \in Procs : proc'[q].pc = "reconciling" => proc'[q] = proc[q]
  PROVE  Backed'
<1>1. Known' = Known /\ \A r \in DOMAIN runs : Rows(r)' = Rows(r)
  BY DEF Known, RunsGrow, Rows
<1>2. \A r \in Passed \cup reconciled : r \in DOMAIN runs
  BY DEF SafetyInv, RunsFit, Passed, Recorded
<1>3. FactsBrought'
  <2> SUFFICES ASSUME NEW t \in Transactions, factOf[t] # 0
               PROVE  t \in DOMAIN Rows(factOf[t])'
    BY DEF FactsBrought, Rows
  <2>1. factOf[t] \in DOMAIN runs /\ t \in DOMAIN Rows(factOf[t])
    BY <1>2 DEF Backed, FactsBrought, SafetyInv, FactsFit
  <2> QED
    BY <2>1 DEF RunsGrow, Rows
<1>4. LoadedFirst'
  <2>1. \A t \in Known' : factOf'[t] # 0
    BY <1>1 DEF Backed, LoadedFirst
  <2>2. ASSUME NEW q \in Procs, At(q, "reconciling")'
        PROVE  \A t \in DOMAIN Rows(Doing(q))' : factOf'[t] # 0
    <3>1. proc'[q] = proc[q] /\ At(q, "reconciling") /\ Doing(q)' = Doing(q)
      BY <2>2 DEF At, Doing
    <3>2. Doing(q) \in DOMAIN runs
      BY <3>1, Busy DEF At, Loaded
    <3>3. Rows(Doing(q))' = Rows(Doing(q))
      BY <3>1, <3>2 DEF RunsGrow, Rows
    <3> QED
      BY <3>1, <3>3 DEF Backed, LoadedFirst
  <2> QED
    BY <2>1, <2>2 DEF LoadedFirst
<1>5. \A t \in Known' : Attested(t)'
  <2> SUFFICES ASSUME NEW t \in Known
               PROVE  Attested(t)'
    BY <1>1
  <2>1. PICK r \in reconciled : t \in DOMAIN Rows(r) /\ Rows(r)[t] = current[t]
    BY DEF Backed, Attested
  <2>2. r \in DOMAIN runs /\ r \in reconciled'
    BY <1>2
  <2>3. t \in DOMAIN Rows(r)' /\ Rows(r)'[t] = current'[t]
    BY <2>1, <2>2 DEF RunsGrow, Rows
  <2> QED
    BY <2>2, <2>3 DEF Attested, Rows
<1>6. CopiesKnown'
  BY <1>1 DEF CopiesKnown
<1> QED
  BY <1>3, <1>4, <1>5, <1>6 DEF Backed

\* The step of one process p that goes anywhere but to its reconciliation.
LEMMA MoverBacked ==
  ASSUME SafetyInv, Backed, RunsGrow, NEW p \in Procs, NEW new,
         proc' = [proc EXCEPT ![p] = new], new.pc # "reconciling",
         new.copy \subseteq Known, mart' \subseteq Known, published' \subseteq Known,
         UNCHANGED <<factOf, current, reconciled>>
  PROVE  Backed'
<1>1. proc'[p] = new /\ \A q \in Procs : q # p => proc'[q] = proc[q]
  BY DEF SafetyInv, TypeOK
<1>2. \A q \in Procs : proc'[q].copy \subseteq Known
  BY <1>1 DEF Backed, CopiesKnown
<1> QED
  BY <1>1, <1>2, BackedKept

\* Runs that stay as they are have not lost anything.
LEMMA RunsStay ==
  ASSUME runs' = runs
  PROVE  RunsGrow
BY DEF RunsGrow

LEMMA LandBacked ==
  ASSUME SafetyInv, Backed, NEW p \in Procs, NEW c \in Contents, NEW retry \in BOOLEAN,
         NEW next \in Process, Land(p, c, retry, next), next.copy \subseteq Known
  PROVE  Backed'
<1> DEFINE new == [next EXCEPT !.pc = "landing", !.content = c, !.retry = retry,
                     !.run = Len(runs'), !.duplicate = ~retry /\ AlreadyLanded(c)]
<1>1. runs \in Seq(Run) /\ Len(runs) \in Nat /\ DOMAIN runs = 1..Len(runs)
  BY LenProperties DEF SafetyInv, TypeOK, StoresTyped
<1>2. [NoRun EXCEPT !.content = c] \in Run
  BY DEF Run, NoRun
<1>3. RunsGrow
  <2>1. runs' = Append(runs, [NoRun EXCEPT !.content = c])
    BY DEF Land
  <2>2. \A r \in DOMAIN runs : r \in DOMAIN runs' /\ runs'[r] = runs[r]
    BY <1>1, <1>2, <2>1, LenProperties
  <2> QED
    BY <2>2 DEF RunsGrow
<1>4. proc' = [proc EXCEPT ![p] = new]
  BY DEF Land
<1>5. new.pc = "landing" /\ new.copy = next.copy
  BY DEF Process
<1>6. UNCHANGED <<factOf, current, mart, published, reconciled>>
  BY DEF Land, warehouse
<1> HIDE DEF new
<1> QED
  BY <1>3, <1>4, <1>5, <1>6, MoverBacked DEF Backed, CopiesKnown

LEMMA CreateRunBacked ==
  ASSUME SafetyInv, Backed, NEW p \in Procs, CreateRun(p)
  PROVE  Backed'
<1> DEFINE me == proc[p]
           passed == me.content \in Valid /\ ~me.duplicate
           new == IF me.file # "none"
                  THEN [me EXCEPT !.pc = "moving", !.todo = Append(@, me.run)]
                  ELSE IF passed THEN [me EXCEPT !.pc = "promoting", !.todo = <<me.run>>]
                  ELSE Idle
<1>1. me \in Process /\ me.copy \subseteq Known
  BY ProcTyped DEF SafetyInv, Backed, CopiesKnown
<1>2. me.run \in DOMAIN runs \ Recorded /\ runs[me.run] \in Run
  <2>1. me.run \in DOMAIN runs \ Recorded
    BY DEF CreateRun, At, SafetyInv, ProcsFit, ProcFits
  <2> QED
    BY <2>1, RunTyped DEF SafetyInv
<1>3. RunsGrow
  <2>1. runs' = [runs EXCEPT ![me.run].passed = passed, ![me.run].recorded = TRUE]
    BY DEF CreateRun
  <2>2. DOMAIN runs' = DOMAIN runs /\ \A r \in DOMAIN runs : r # me.run => runs'[r] = runs[r]
    BY <2>1
  <2>3. runs'[me.run].content = runs[me.run].content
    BY <1>2, <2>1 DEF Run
  <2> QED
    BY <1>2, <2>2, <2>3 DEF RunsGrow
<1>4. proc' = [proc EXCEPT ![p] = new]
  BY DEF CreateRun
<1>5. new.pc # "reconciling" /\ new.copy \subseteq Known
  <2>1. CASE me.file # "none"
    BY <1>1, <2>1 DEF Process
  <2>2. CASE me.file = "none" /\ passed
    BY <1>1, <2>2 DEF Process
  <2>3. CASE me.file = "none" /\ ~passed
    BY <2>3 DEF Idle
  <2> QED
    BY <2>1, <2>2, <2>3
<1>6. UNCHANGED <<factOf, current, mart, published, reconciled>>
  BY DEF CreateRun, warehouse
<1> HIDE DEF new
<1> QED
  BY <1>3, <1>4, <1>5, <1>6, MoverBacked DEF Backed, CopiesKnown

\* Every other step of a process than these two leaves what is current alone.
LEMMA LoadBacked ==
  ASSUME SafetyInv, Backed, NEW p \in Procs, Load(p)
  PROVE  Backed'
<1> DEFINE me == proc[p]
           r == Doing(p)
           new == [me EXCEPT !.pc = "reconciling"]
<1>1. /\ me \in Process /\ r \in Passed /\ r \in DOMAIN runs /\ r \in Nat \ {0}
      /\ DOMAIN Rows(r) \subseteq Transactions
  <2>1. me \in Process /\ r \in Passed /\ r \in DOMAIN runs /\ r \in Nat \ {0}
    BY Busy DEF Load, At, Loaded
  <2> QED
    BY <2>1, RowsFit DEF SafetyInv
<1>2. proc' = [proc EXCEPT ![p] = new] /\ new \in Process /\ new.todo = me.todo
      /\ new.copy = me.copy
  BY <1>1 DEF Load, Process, Labels
<1>3. proc'[p] = new /\ \A q \in Procs : q # p => proc'[q] = proc[q]
  BY <1>2, Updated DEF SafetyInv
<1>4. UNCHANGED <<current, mart, published, reconciled>> /\ Known' = Known
      /\ \A s \in Nat : Rows(s)' = Rows(s)
  BY DEF Load, folder, Known, Rows
<1>5. /\ \A t \in Transactions : factOf[t] # 0 => factOf'[t] = factOf[t]
      /\ \A t \in DOMAIN Rows(r) : factOf'[t] # 0
      /\ \A t \in Transactions : \/ factOf'[t] = factOf[t]
                                 \/ t \in DOMAIN Rows(r) /\ factOf'[t] = r
  <2> HIDE DEF r
  <2>1. \A t \in Transactions :
          factOf'[t] = IF t \in DOMAIN Rows(r) /\ factOf[t] = 0 THEN r ELSE factOf[t]
    BY DEF Load, r
  <2>2. r # 0 /\ DOMAIN Rows(r) \subseteq Transactions
    BY <1>1
  <2>3. \A t \in Transactions : /\ factOf[t] # 0 => factOf'[t] = factOf[t]
                                /\ \/ factOf'[t] = factOf[t]
                                   \/ t \in DOMAIN Rows(r) /\ factOf'[t] = r
    BY <2>1
  <2>4. ASSUME NEW t \in DOMAIN Rows(r) PROVE factOf'[t] # 0
    BY <2>1, <2>2
  <2> QED
    BY <2>3, <2>4
<1>6. FactsBrought'
  <2> SUFFICES ASSUME NEW t \in Transactions, factOf'[t] # 0
               PROVE  t \in DOMAIN Rows(factOf'[t])
    BY <1>4 DEF FactsBrought, Rows, Load, folder
  <2> QED
    BY <1>5 DEF Backed, FactsBrought
<1>7. LoadedFirst'
  <2>1. \A t \in Known' : factOf'[t] # 0
    BY <1>4, <1>5 DEF Backed, LoadedFirst, Known
  <2>2. ASSUME NEW q \in Procs, At(q, "reconciling")'
        PROVE  \A t \in DOMAIN Rows(Doing(q))' : factOf'[t] # 0
    <3>1. CASE q = p
      <4>1. Doing(q)' = r
        BY <1>2, <1>3, <3>1 DEF Doing
      <4> QED
        BY <1>5, <4>1 DEF Rows, Load, folder
    <3>2. CASE q # p
      <4>1. At(q, "reconciling") /\ Doing(q)' = Doing(q) /\ Doing(q) \in DOMAIN runs
        BY <1>3, <2>2, <3>2, Busy DEF At, Doing, Loaded
      <4>2. DOMAIN Rows(Doing(q)) \subseteq Transactions
        BY <4>1, RowsFit DEF SafetyInv
      <4>3. Rows(Doing(q))' = Rows(Doing(q))
        BY <4>1 DEF Rows, Load, folder
      <4> QED
        BY <1>5, <4>1, <4>2, <4>3 DEF Backed, LoadedFirst
    <3> QED
      BY <3>1, <3>2
  <2> QED
    BY <2>1, <2>2 DEF LoadedFirst
<1>8. \A t \in Known' : Attested(t)'
  BY <1>4 DEF Backed, Attested, Rows, Load, folder
<1>9. CopiesKnown'
  BY <1>2, <1>3, <1>4 DEF Backed, CopiesKnown
<1> QED
  BY <1>6, <1>7, <1>8, <1>9 DEF Backed

LEMMA ReconcileBacked ==
  ASSUME SafetyInv, Backed, NEW p \in Procs, Reconcile(p)
  PROVE  Backed'
<1> DEFINE me == proc[p]
           r == Doing(p)
           new == [me EXCEPT !.pc = "refreshing"]
<1>1. /\ me \in Process /\ r \in DOMAIN runs /\ DOMAIN Rows(r) \subseteq Transactions
      /\ \A t \in DOMAIN Rows(r) : Rows(r)[t] \in Descriptions \cup {Blank}
  <2>1. me \in Process /\ r \in DOMAIN runs
    BY Busy DEF Reconcile, At, Loaded
  <2> QED
    BY <2>1, RowsFit DEF SafetyInv
<1>2. proc' = [proc EXCEPT ![p] = new] /\ new \in Process /\ new.pc = "refreshing"
      /\ new.copy = me.copy
  BY <1>1 DEF Reconcile, Process, Labels
<1>3. proc'[p] = new /\ \A q \in Procs : q # p => proc'[q] = proc[q]
  BY <1>2, Updated DEF SafetyInv
<1>4. /\ UNCHANGED <<runs, factOf, mart, published>> /\ reconciled' = reconciled \cup {r}
      /\ \A t \in Transactions : current'[t] =
           IF t \in DOMAIN Rows(r) THEN RicherOf(current[t], Rows(r)[t]) ELSE current[t]
  BY DEF Reconcile, folder
<1>5. \A t \in Transactions : current[t] \in Descriptions \cup {Blank, Unknown}
  BY DEF SafetyInv, TypeOK, StoresTyped
<1>6. Known \subseteq Known' /\ Known' \subseteq Known \cup DOMAIN Rows(r)
  BY <1>1, <1>4, <1>5, Richer DEF Known
<1>7. FactsBrought'
  BY <1>4 DEF Backed, FactsBrought, Rows
<1>8. LoadedFirst'
  <2>1. \A t \in Known' : factOf'[t] # 0
    BY <1>4, <1>6 DEF Backed, LoadedFirst, Reconcile
  <2>2. ASSUME NEW q \in Procs, At(q, "reconciling")'
        PROVE  \A t \in DOMAIN Rows(Doing(q))' : factOf'[t] # 0
    <3>1. q # p
      BY <1>2, <1>3, <2>2 DEF At
    <3>2. At(q, "reconciling") /\ Rows(Doing(q))' = Rows(Doing(q))
      BY <1>3, <1>4, <2>2, <3>1 DEF At, Doing, Rows
    <3> QED
      BY <1>4, <3>2 DEF Backed, LoadedFirst
  <2> QED
    BY <2>1, <2>2 DEF LoadedFirst
<1>9. ASSUME NEW t \in Known' PROVE Attested(t)'
  <2>1. t \in Transactions /\ current'[t] # Unknown
    BY DEF Known
  <2>2. CASE t \in DOMAIN Rows(r) /\ current'[t] = Rows(r)[t]
    BY <1>4, <2>2 DEF Attested, Rows
  <2>3. CASE current'[t] = current[t]
    <3>1. t \in Known
      BY <2>1, <2>3 DEF Known
    <3>2. PICK s \in reconciled : t \in DOMAIN Rows(s) /\ Rows(s)[t] = current[t]
      BY <3>1 DEF Backed, Attested
    <3> QED
      BY <1>4, <2>3, <3>2 DEF Attested, Rows
  <2> QED
    BY <1>4, <2>1, <2>2, <2>3 DEF RicherOf
<1>10. CopiesKnown'
  <2>1. \A q \in Procs : proc'[q].copy = proc[q].copy
    BY <1>2, <1>3
  <2> QED
    BY <1>4, <1>6, <2>1 DEF Backed, CopiesKnown
<1> QED
  BY <1>7, <1>8, <1>9, <1>10 DEF Backed

\* The steps of a process that only move it on, or write the mart or the
\* published rows.
LEMMA ProcessBacked ==
  ASSUME SafetyInv, Backed, NEW p \in Procs, runs' = runs,
         \/ StartDispatch(p) \/ MoveFile(p) \/ EndScan(p) \/ SkipUnpassed(p)
         \/ CountExisting(p) \/ ClearMart(p) \/ FillMart(p) \/ ReadMart(p)
         \/ ReplaceRows(p) \/ Abandon(p) \/ \E r \in Recorded : PromoteRun(p, r)
  PROVE  Backed'
<1>1. proc[p] \in Process /\ proc[p].copy \subseteq Known
      /\ mart \subseteq Known /\ published \subseteq Known
  BY ProcTyped DEF SafetyInv, Backed, CopiesKnown
<1>2. UNCHANGED <<factOf, current, reconciled>> /\ RunsGrow
  BY RunsStay DEF StartDispatch, MoveFile, EndScan, SkipUnpassed, CountExisting, ClearMart,
     FillMart, ReadMart, ReplaceRows, Abandon, PromoteRun, warehouse
<1>3. mart' \subseteq Known /\ published' \subseteq Known
  BY <1>1 DEF StartDispatch, MoveFile, EndScan, SkipUnpassed, CountExisting, ClearMart,
     FillMart, MartRows, ReadMart, ReplaceRows, Abandon, PromoteRun, warehouse
<1>4. \E new : /\ proc' = [proc EXCEPT ![p] = new]
               /\ new.pc # "reconciling" /\ new.copy \subseteq Known
  <2>1. CASE StartDispatch(p)
    <3> DEFINE new == [Idle EXCEPT !.pc = "scanning", !.left = Inbox]
    <3>1. proc' = [proc EXCEPT ![p] = new] /\ new.pc = "scanning" /\ new.copy = {}
      BY <2>1 DEF StartDispatch, Idle
    <3> QED
      BY <3>1
  <2>9. CASE Abandon(p) \/ ReplaceRows(p)
    <3>1. proc' = [proc EXCEPT ![p] = Idle] /\ Idle.pc = "idle" /\ Idle.copy = {}
      BY <2>9 DEF Abandon, ReplaceRows, Idle
    <3> QED
      BY <3>1
  <2>10. ASSUME NEW r \in Recorded, PromoteRun(p, r)
         PROVE  \E new : /\ proc' = [proc EXCEPT ![p] = new]
                         /\ new.pc # "reconciling" /\ new.copy \subseteq Known
    <3> DEFINE new == [Idle EXCEPT !.pc = "promoting", !.todo = <<r>>]
    <3>1. proc' = [proc EXCEPT ![p] = new] /\ new.pc = "promoting" /\ new.copy = {}
      BY <2>10 DEF PromoteRun, Idle
    <3> QED
      BY <3>1
  <2>2. CASE MoveFile(p)
    <3> DEFINE new == [proc[p] EXCEPT !.pc = "scanning", !.file = "none"]
    <3>1. proc' = [proc EXCEPT ![p] = new] /\ new.pc = "scanning" /\ new.copy = proc[p].copy
      BY <1>1, <2>2 DEF MoveFile, Process
    <3> QED
      BY <1>1, <3>1
  <2>3. CASE EndScan(p)
    <3> DEFINE on == [proc[p] EXCEPT !.pc = "promoting"]
               new == IF proc[p].todo = <<>> THEN Idle ELSE on
    <3>1. on.pc = "promoting" /\ on.copy = proc[p].copy
          /\ Idle.pc = "idle" /\ Idle.copy = {}
      BY <1>1 DEF Process, Idle
    <3>2. proc' = [proc EXCEPT ![p] = new]
      BY <2>3 DEF EndScan
    <3> HIDE DEF on
    <3> QED
      BY <1>1, <3>1, <3>2
  <2>4. CASE SkipUnpassed(p)
    <3> DEFINE new == [proc[p] EXCEPT !.todo = Tail(@)]
    <3>1. proc' = [proc EXCEPT ![p] = new]
      BY <1>1, <2>4 DEF SkipUnpassed
    <3>2. new.pc = "promoting" /\ new.copy = proc[p].copy
      BY <1>1, <2>4 DEF SkipUnpassed, Promoting, At, Process
    <3> QED
      BY <1>1, <3>1, <3>2
  <2>5. CASE CountExisting(p)
    <3> DEFINE pc == IF AlreadyPromoted(Doing(p)) THEN "refreshing" ELSE "loading"
               new == [proc[p] EXCEPT !.pc = pc]
    <3>1. proc' = [proc EXCEPT ![p] = new]
      BY <2>5 DEF CountExisting
    <3>2. new.pc # "reconciling" /\ new.copy = proc[p].copy
      BY <1>1 DEF Process
    <3> QED
      BY <1>1, <3>1, <3>2
  <2>6. CASE ClearMart(p)
    <3> DEFINE new == [proc[p] EXCEPT !.pc = "filling"]
    <3>1. proc' = [proc EXCEPT ![p] = new] /\ new.pc = "filling" /\ new.copy = proc[p].copy
      BY <1>1, <2>6 DEF ClearMart, Process
    <3> QED
      BY <1>1, <3>1
  <2>7. CASE FillMart(p)
    <3> DEFINE new == [proc[p] EXCEPT !.pc = "promoting", !.todo = Tail(@)]
    <3>1. proc' = [proc EXCEPT ![p] = new]
      BY <2>7 DEF FillMart
    <3>2. new.pc = "promoting" /\ new.copy = proc[p].copy
      BY <1>1 DEF Process
    <3> QED
      BY <1>1, <3>1, <3>2
  <2>8. CASE ReadMart(p)
    <3> DEFINE new == [proc[p] EXCEPT !.pc = "publishing", !.copy = mart]
    <3>1. proc' = [proc EXCEPT ![p] = new] /\ new.pc = "publishing" /\ new.copy = mart
      BY <1>1, <2>8 DEF ReadMart, Process
    <3> QED
      BY <1>1, <3>1
  <2> QED
    BY <2>1, <2>2, <2>3, <2>4, <2>5, <2>6, <2>7, <2>8, <2>9, <2>10
<1> QED
  BY <1>2, <1>3, <1>4, MoverBacked

LEMMA BackedInit == Init => Backed
<1> SUFFICES ASSUME Init
             PROVE  Backed
  OBVIOUS
<1>1. Known = {}
  BY DEF Init, Known
<1>2. \A p \in Procs : proc[p].pc = "idle" /\ proc[p].copy = {}
  BY DEF Init, Idle
<1> QED
  BY <1>1, <1>2 DEF Init, Backed, FactsBrought, LoadedFirst, CopiesKnown, At

LEMMA BackedStep == SafetyInv /\ Backed /\ [Next]_vars => Backed'
<1> SUFFICES ASSUME SafetyInv, Backed, [Next]_vars
             PROVE  Backed'
  OBVIOUS
<1>1. ASSUME \/ UNCHANGED vars
             \/ \E f \in Files : Arrive(f)
      PROVE  Backed'
  BY <1>1, RunsStay, BackedKept DEF Arrive, vars, folder, warehouse, Backed, CopiesKnown
<1>2. ASSUME NEW w \in Workers, Dispatch(w)
      PROVE  Backed'
  <2>1. w \in Procs /\ proc[w] \in Process /\ proc[w].copy \subseteq Known
    BY ProcTyped DEF Procs, SafetyInv, Backed, CopiesKnown
  <2>2. ASSUME NEW f \in Files, TakeFile(w, f)
        PROVE  Backed'
    <3> DEFINE next == [proc[w] EXCEPT !.file = f, !.left = @ \ {f}]
    <3>1. next \in Process /\ next.copy = proc[w].copy
      BY <2>1 DEF Process
    <3>2. ContentOf[f] \in Contents /\ Land(w, ContentOf[f], FALSE, next)
      BY <2>2, ConstantsOK DEF ConstantsOK, TakeFile
    <3> QED
      BY <2>1, <3>1, <3>2, LandBacked
  <2>3. CASE StartDispatch(w) \/ MoveFile(w) \/ EndScan(w)
    <3>1. runs' = runs
      BY <2>3 DEF StartDispatch, MoveFile, EndScan, folder
    <3> QED
      BY <2>1, <2>3, <3>1, ProcessBacked
  <2> QED
    BY <1>2, <2>2, <2>3 DEF Dispatch
<1>3. ASSUME NEW p \in Commands, NEW r \in Recorded, PromoteRun(p, r)
      PROVE  Backed'
  <2>1. p \in Procs /\ runs' = runs
    BY <1>3 DEF Procs, PromoteRun, folder
  <2> QED
    BY <1>3, <2>1, ProcessBacked
<1>4. ASSUME NEW p \in Clients,
             \/ \E c \in Contents : Upload(p, c)
             \/ \E r \in Recorded : Retry(p, r)
      PROVE  Backed'
  <2>1. p \in Procs /\ Idle \in Process /\ Idle.copy \subseteq Known
    BY IdleTyped DEF Procs, Idle
  <2>2. ASSUME NEW r \in Recorded
        PROVE  runs[r].content \in Contents
    BY RunTyped DEF SafetyInv, Recorded, Run
  <2> QED
    BY <1>4, <2>1, <2>2, LandBacked DEF Upload, Retry
<1>5. ASSUME NEW p \in Procs, CreateRun(p) \/ Promotion(p) \/ Abandon(p)
      PROVE  Backed'
  <2>1. CASE CreateRun(p)
    BY <2>1, CreateRunBacked
  <2>2. CASE Load(p) \/ Reconcile(p)
    BY <2>2, LoadBacked, ReconcileBacked
  <2>3. CASE \/ SkipUnpassed(p) \/ CountExisting(p) \/ ClearMart(p) \/ FillMart(p)
             \/ ReadMart(p) \/ ReplaceRows(p) \/ Abandon(p)
    <3>1. runs' = runs
      BY <2>3 DEF SkipUnpassed, CountExisting, ClearMart, FillMart, ReadMart, ReplaceRows,
                  Abandon, folder
    <3> QED
      BY <2>3, <3>1, ProcessBacked
  <2> QED
    BY <1>5, <2>1, <2>2, <2>3 DEF Promotion
<1> QED
  BY <1>1, <1>2, <1>3, <1>4, <1>5 DEF Next

\* The published copy is never made up: every transaction in it was loaded from a
\* run that passed its validation and has it, and its description is one that a
\* reconciled statement gives, whatever failed in between.
THEOREM PublicationsAreBacked == Spec => []PublishedIsBacked
<1>1. SafetyInv /\ Backed => PublishedIsBacked
  <2> SUFFICES ASSUME SafetyInv, Backed, NEW t \in published
               PROVE  /\ factOf[t] \in Passed /\ t \in DOMAIN Rows(factOf[t])
                      /\ Attested(t)
    BY DEF PublishedIsBacked
  <2>1. t \in Known /\ t \in Transactions /\ factOf[t] # 0
    BY DEF Backed, CopiesKnown, LoadedFirst, Known
  <2> QED
    BY <2>1 DEF SafetyInv, FactsFit, Backed, FactsBrought
<1> QED
  BY <1>1, Safety, BackedInit, BackedStep, PTL DEF Spec
=============================================================================

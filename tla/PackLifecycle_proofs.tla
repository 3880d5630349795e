----------------------- MODULE PackLifecycle_proofs -----------------------
(***************************************************************************)
(* Proofs about the lifecycle of packs, for every number of packs,         *)
(* versions, publications and registry sources, whatever entries declare.  *)
(* What the refusals add up to is proved for changes that do not overlap   *)
(* (OneAtATime), the last section is about changes that do.                *)
(***************************************************************************)
EXTENDS PackLifecycle, WellFoundedInduction, TLAPS

OneAtATime == \A o, q \in Operators : o = q

Installed(p) == installation[p].version # NoVersion

\* What is not installed is blank, and what is installed has a digest.
RowsFit ==
  \A p \in Packs :
    IF Installed(p) THEN installation[p].digest # NoEntry
    ELSE ~installation[p].enabled /\ installation[p].pinned = NoVersion

\* The cache has what is installed, unless the registry has changed it.
InstalledMatches ==
  \A p \in Packs :
    Installed(p) /\ <<p, installation[p].version>> \notin changed =>
      Cached[p][installation[p].version] = installation[p].digest

\* The entries a request works with are those of the cache, unless the registry
\* has changed them since.
EntriesMatch(o) ==
  /\ \A p \in Packs, v \in Versions :
       plan[o].entries[p][v] # NoEntry /\ <<p, v>> \notin changed =>
         Cached[p][v] = plan[o].entries[p][v]
  /\ \A p \in Packs :
       Installed(p) /\ <<p, installation[p].version>> \notin changed =>
         plan[o].entries[p][installation[p].version] = installation[p].digest

Past(o, labels) == at[o] \notin labels \cup {"idle"}

\* What a request has found out is still so.
OwnRead(o) ==
  LET pl == plan[o] IN
  /\ pl.from = installation[pl.pack]
  /\ pl.target = EntryAt(pl.entries, pl.pack, pl.version)
  /\ pl.action = "rollback" => pl.version = pl.from.previous
  /\ pl.action = "enable" => pl.version = pl.from.version
  /\ pl.action \in {"disable", "pin", "unpin"} => pl.version = NoVersion
  /\ pl.allowed => Legal(pl.from, pl.action, pl.version, pl.target)
Assessed(o) ==
  LET pl == plan[o] IN
  pl.allowed /\ pl.target # NoEntry /\ (pl.action \in {"install", "enable"} \/ pl.from.enabled)
    => Assess(pl.pack, Content[pl.target], pl.entries)
Compared(o) == plan[o].allowed => NoRequirerBroken(plan[o])
DependentsChecked(o) ==
  plan[o].allowed /\ plan[o].from.enabled /\ plan[o].action \in {"disable", "upgrade", "rollback"}
    => NoDependentBroken(plan[o])

PlanHolds(o) ==
  /\ Past(o, {}) => EntriesMatch(o)
  /\ Past(o, {"plan"}) => OwnRead(o)
  /\ Past(o, {"plan", "assess"}) => Assessed(o)
  /\ Past(o, {"plan", "assess", "changes"}) => Compared(o)
  /\ Past(o, {"plan", "assess", "changes", "dependents"}) => DependentsChecked(o)
  /\ at[o] = "apply" => plan[o].allowed /\ current[o] = installation[plan[o].pack]

PlansHold == \A o \in Operators : PlanHolds(o)

SafetyInv ==
  /\ TypeOK /\ RowsFit /\ InstalledMatches /\ PlansHold
  /\ DependenciesSatisfied /\ ProvidersUnique /\ PinHolds

-----------------------------------------------------------------------------
(* The cache *)

LEMMA Smallest ==
  ASSUME NEW S \in SUBSET Nat, S # {}
  PROVE  \E m \in S : \A n \in S : m <= n
<1>1. PICK m \in S : \A n \in S : ~(<<n, m>> \in OpToRel(<, Nat))
  BY NatLessThanWellFounded, WFMin
<1>2. ASSUME NEW n \in S, n < m PROVE FALSE
  <2>1. <<n, m>> \in Nat \X Nat
    OBVIOUS
  <2>2. <<n, m>> \in OpToRel(<, Nat)
    BY <1>2, <2>1 DEF OpToRel
  <2> QED
    BY <1>1, <2>2
<1> QED
  BY <1>2

LEMMA EntriesFit ==
  ASSUME source \in [Sources -> Source], NEW s \in Sources
  PROVE  Entries(s) \in Cache
<1>1. EmptyCache \in Cache
  BY DEF EmptyCache, Cache
<1> QED
  BY <1>1 DEF Entries, Source

\* Discovery always yields a cache.
LEMMA CachedFits ==
  ASSUME source \in [Sources -> Source]
  PROVE  Cached \in Cache
<1> SUFFICES ASSUME NEW p \in Packs, NEW v \in Versions, Advertisers(p, v) # {}
             PROVE  LET first == CHOOSE s \in Advertisers(p, v) :
                                    \A r \in Advertisers(p, v) : s <= r
                    IN Entries(first)[p][v] \in Digests \cup {NoEntry}
  BY DEF Cached, Cache
<1>1. Advertisers(p, v) \in SUBSET Sources /\ Advertisers(p, v) \in SUBSET Nat
  BY ConstantsOK DEF Advertisers, ConstantsOK
<1>2. \E s \in Advertisers(p, v) : \A r \in Advertisers(p, v) : s <= r
  BY <1>1, Smallest
<1> DEFINE first == CHOOSE s \in Advertisers(p, v) : \A r \in Advertisers(p, v) : s <= r
<1>3. first \in Sources
  BY <1>1, <1>2
<1>4. Entries(first) \in Cache
  BY <1>3, EntriesFit
<1> QED
  BY <1>4 DEF Cache

LEMMA LatestFits ==
  ASSUME NEW entries \in Cache, NEW p \in Packs
  PROVE  Latest(entries, p) \in Versions \cup {NoVersion}
<1> DEFINE S == Offered(entries, p)
<1>1. CASE S = {}
  BY <1>1 DEF Latest
<1>2. CASE S # {}
  <2> DEFINE T == {MaxVersion - v : v \in S}
  <2>1. S \subseteq Versions /\ MaxVersion \in Nat
    BY ConstantsOK DEF Offered, ConstantsOK
  <2>2. T \in SUBSET Nat /\ T # {}
    BY <1>2, <2>1 DEF Versions
  <2>3. PICK m \in T : \A n \in T : m <= n
    BY <2>2, Smallest
  <2>4. PICK v \in S : m = MaxVersion - v
    OBVIOUS
  <2>5. \A u \in S : u <= v
    <3> TAKE u \in S
    <3>1. MaxVersion - v <= MaxVersion - u
      BY <2>3, <2>4
    <3> QED
      BY <2>1, <3>1 DEF Versions
  <2>6. (CHOOSE w \in S : \A u \in S : u <= w) \in S
    BY <2>5
  <2> QED
    BY <1>2, <2>1, <2>6 DEF Latest
<1> QED
  BY <1>1, <1>2

\* What the registry does not note as changed is as it was.
LEMMA NotedOrKept ==
  ASSUME Note
  PROVE  /\ changed \subseteq changed'
         /\ \A p \in Packs, v \in Versions :
              Cached[p][v] # NoEntry /\ <<p, v>> \notin changed' => Cached'[p][v] = Cached[p][v]
<1>1. changed' = changed \cup {pv \in Packs \X Versions :
                    Cached[pv[1]][pv[2]] \notin {NoEntry, Cached'[pv[1]][pv[2]]}}
  BY DEF Note
<1>2. ASSUME NEW p \in Packs, NEW v \in Versions, Cached[p][v] # NoEntry,
             Cached'[p][v] # Cached[p][v]
      PROVE  <<p, v>> \in changed'
  <2>1. <<p, v>> \in Packs \X Versions /\ <<p, v>>[1] = p /\ <<p, v>>[2] = v
    OBVIOUS
  <2> QED
    BY <1>1, <1>2, <2>1
<1> QED
  BY <1>1, <1>2

-----------------------------------------------------------------------------
(* Types *)

LEMMA InitType == Init => TypeOK
<1> SUFFICES ASSUME Init PROVE TypeOK
  OBVIOUS
<1>1. NotInstalled \in Row /\ EmptyCache \in Cache
  BY DEF NotInstalled, Row, EmptyCache, Cache
<1>2. source \in [Sources -> Source]
  <2>1. PICK m \in [Sources -> UNION {Manifests[s] : s \in Sources}] :
          /\ \A s \in Sources : m[s] \in Manifests[s]
          /\ source = [s \in Sources |-> [enabled |-> TRUE, archived |-> FALSE, core |-> TRUE,
                          validated |-> {}, manifest |-> m[s], kept |-> EmptyCache]]
    BY DEF Init
  <2>2. \A s \in Sources : m[s] \in Cache
    BY <2>1, ConstantsOK DEF ConstantsOK, Cache
  <2> QED
    BY <1>1, <2>1, <2>2 DEF Source
<1> QED
  BY <1>1, <1>2, ConstantsOK DEF Init, TypeOK, ConstantsOK

LEMMA SyncType ==
  ASSUME TypeOK, NEW s \in Sources, Sync(s)
  PROVE  TypeOK'
<1>1. source[s] \in Source
  BY DEF TypeOK
<1> DEFINE k == [p \in Packs |-> [v \in Versions |->
              IF source[s].manifest[p][v] # NoEntry THEN source[s].manifest[p][v]
              ELSE source[s].kept[p][v]]]
<1>2. k \in Cache
  BY <1>1 DEF Source, Cache
<1>3. source' = [source EXCEPT ![s] =
         [source[s] EXCEPT !.validated = @ \cup {source[s].core}, !.kept = k]]
  BY DEF Sync, TypeOK
<1>4. source' \in [Sources -> Source]
  BY <1>1, <1>2, <1>3 DEF TypeOK, Source
<1>5. changed' \subseteq Packs \X Versions
  BY DEF Sync, Note, TypeOK
<1> QED
  BY <1>4, <1>5 DEF Sync, TypeOK

LEMMA EditType ==
  ASSUME TypeOK, NEW s \in Sources, NEW new \in Source, Edit(s, new)
  PROVE  TypeOK'
<1>1. changed' \subseteq Packs \X Versions
  BY DEF Edit, Note, TypeOK
<1> QED
  BY <1>1, ConstantsOK DEF Edit, TypeOK, ConstantsOK

\* Every change of the registry is a synchronisation or an edit of one source.
LEMMA EditsFit ==
  ASSUME TypeOK, NEW s \in Sources,
         \/ Archive(s) \/ Enable(s)
         \/ \E m \in Manifests[s], core \in BOOLEAN : Rewrite(s, m, core)
  PROVE  \E new \in Source : Edit(s, new)
<1>1. source[s] \in Source
  BY DEF TypeOK
<1>2. CASE Archive(s)
  <2>1. [source[s] EXCEPT !.archived = ~@] \in Source
    BY <1>1 DEF Source
  <2> QED
    BY <1>2, <2>1 DEF Archive
<1>3. CASE Enable(s)
  <2>1. [source[s] EXCEPT !.enabled = ~@] \in Source
    BY <1>1 DEF Source
  <2> QED
    BY <1>3, <2>1 DEF Enable
<1>4. ASSUME NEW m \in Manifests[s], NEW core \in BOOLEAN, Rewrite(s, m, core)
      PROVE  \E new \in Source : Edit(s, new)
  <2>1. m \in Cache
    BY ConstantsOK DEF ConstantsOK, Cache
  <2>2. [source[s] EXCEPT !.manifest = m, !.core = core] \in Source
    BY <1>1, <2>1 DEF Source
  <2> QED
    BY <1>4, <2>2 DEF Rewrite
<1> QED
  BY <1>2, <1>3, <1>4

\* What a step of a request leaves alone.
LEMMA RegistryStays ==
  ASSUME UNCHANGED registry
  PROVE  Cached' = Cached /\ changed' = changed /\ source' = source /\ edits' = edits
<1>1. source' = source
  BY DEF registry
<1>2. Cached' = Cached
  BY <1>1 DEF Cached, Advertisers, Entries
<1> QED
  BY <1>1, <1>2 DEF registry

-----------------------------------------------------------------------------
(* Steps that change no row *)

TableInv == RowsFit /\ InstalledMatches /\ DependenciesSatisfied /\ ProvidersUnique /\ PinHolds

LEMMA TableStays ==
  ASSUME TableInv, UNCHANGED <<installation, registry>>
  PROVE  TableInv'
<1>1. Cached' = Cached /\ changed' = changed /\ installation' = installation
  BY RegistryStays
<1>2. RowsFit' /\ PinHolds'
  BY <1>1 DEF TableInv, RowsFit, PinHolds, Installed
<1>3. InstalledMatches'
  BY <1>1 DEF TableInv, InstalledMatches, Installed
<1>4. On' = On /\ Steady' = Steady /\ \A p : Declared(p)' = Declared(p)
  BY <1>1 DEF On, Steady, Declared
<1>5. DependenciesSatisfied'
  BY <1>1, <1>4 DEF TableInv, DependenciesSatisfied
<1>6. ProvidersUnique'
  BY <1>4 DEF TableInv, ProvidersUnique
<1> QED
  BY <1>2, <1>3, <1>5, <1>6 DEF TableInv

LEMMA RegistryStep ==
  ASSUME SafetyInv, Note, TypeOK', UNCHANGED <<installation, at, plan, current>>
  PROVE  SafetyInv'
<1>1. changed \subseteq changed'
  BY NotedOrKept
<1>2. \A p \in Packs, v \in Versions :
        Cached[p][v] # NoEntry /\ <<p, v>> \notin changed' => Cached'[p][v] = Cached[p][v]
  BY NotedOrKept
<1>3. RowsFit' /\ PinHolds'
  BY DEF SafetyInv, RowsFit, PinHolds, Installed
<1>4. InstalledMatches'
  <2> SUFFICES ASSUME NEW p \in Packs, Installed(p),
                      <<p, installation[p].version>> \notin changed'
               PROVE  Cached'[p][installation[p].version] = installation[p].digest
    BY DEF InstalledMatches, Installed
  <2>1. installation[p].version \in Versions /\ installation[p].digest # NoEntry
    BY DEF SafetyInv, TypeOK, Row, Installed, RowsFit
  <2>2. Cached[p][installation[p].version] = installation[p].digest
    BY <1>1 DEF SafetyInv, InstalledMatches
  <2> QED
    BY <1>2, <2>1, <2>2
<1>5. On' = On /\ Steady' \subseteq Steady /\ \A p : Declared(p)' = Declared(p)
  BY <1>1 DEF On, Steady, Declared
<1>6. DependenciesSatisfied'
  BY <1>5 DEF SafetyInv, DependenciesSatisfied
<1>7. ProvidersUnique'
  BY <1>5 DEF SafetyInv, ProvidersUnique
<1>8. ASSUME NEW o \in Operators PROVE PlanHolds(o)'
  <2>1. EntriesMatch(o) => EntriesMatch(o)'
    <3> SUFFICES ASSUME EntriesMatch(o) PROVE EntriesMatch(o)'
      OBVIOUS
    <3>1. \A p \in Packs, v \in Versions :
            plan[o].entries[p][v] # NoEntry /\ <<p, v>> \notin changed' =>
              Cached'[p][v] = plan[o].entries[p][v]
      BY <1>1, <1>2 DEF EntriesMatch
    <3>2. \A p \in Packs : Installed(p) /\ <<p, installation[p].version>> \notin changed' =>
            plan[o].entries[p][installation[p].version] = installation[p].digest
      BY <1>1 DEF EntriesMatch
    <3> QED
      BY <3>1, <3>2 DEF EntriesMatch, Installed
  <2>2. OwnRead(o)' = OwnRead(o)
    BY DEF OwnRead
  <2>3. Assessed(o)' = Assessed(o)
    BY DEF Assessed, Assess, DependenciesFit, NoPublicationConflict, Enabled, Described, EntryOf
  <2>4. Compared(o)' = Compared(o)
    BY DEF Compared, NoRequirerBroken, Breaking, Described, Enabled, EntryOf, Before, After
  <2>5. DependentsChecked(o)' = DependentsChecked(o)
    BY DEF DependentsChecked, NoDependentBroken, Described, Enabled, EntryOf
  <2>6. PlanHolds(o)
    BY DEF SafetyInv, PlansHold
  <2> QED
    BY <2>1, <2>2, <2>3, <2>4, <2>5, <2>6 DEF PlanHolds, Past
<1> QED
  BY <1>3, <1>4, <1>6, <1>7, <1>8 DEF SafetyInv, PlansHold

LEMMA RequestStep ==
  ASSUME OneAtATime, SafetyInv, NEW o \in Operators, UNCHANGED <<installation, registry>>,
         TypeOK', PlanHolds(o)'
  PROVE  SafetyInv'
<1>1. TableInv'
  BY TableStays DEF SafetyInv, TableInv
<1>2. PlansHold'
  BY DEF OneAtATime, PlansHold
<1> QED
  BY <1>1, <1>2 DEF SafetyInv, TableInv

LEMMA BeginStep ==
  ASSUME OneAtATime, SafetyInv, NEW o \in Operators, Begin(o)
  PROVE  SafetyInv'
<1>1. Cached \in Cache /\ Cached' = Cached /\ changed' = changed
  BY CachedFits, RegistryStays DEF SafetyInv, TypeOK, Begin
<1>2. PICK p \in Packs, action \in Actions, asked \in Versions \cup {NoVersion} :
        plan' = [plan EXCEPT ![o] =
              [pack |-> p, action |-> action, entries |-> Cached, from |-> NotInstalled,
               version |-> asked, target |-> NoEntry, allowed |-> TRUE]]
  BY DEF Begin
<1>3. plan'[o] \in Plan /\ plan'[o].entries = Cached
  BY <1>1, <1>2 DEF SafetyInv, TypeOK, Plan, NotInstalled, Row
<1>4. at' = [at EXCEPT ![o] = "plan"] /\ installation' = installation
  BY DEF Begin, Goto
<1>5. TypeOK'
  <2>1. ops' \in 0..MaxOps
    BY ConstantsOK DEF Begin, ConstantsOK, SafetyInv, TypeOK
  <2>2. \A q \in Operators : at'[q] # "idle" => plan'[q] \in Plan
    BY <1>2, <1>3, <1>4 DEF SafetyInv, TypeOK
  <2>3. \A q \in Operators : at'[q] = "apply" => current'[q] \in Row
    BY <1>4 DEF SafetyInv, TypeOK, Begin
  <2> QED
    BY <1>2, <1>3, <1>4, <2>1, <2>2, <2>3 DEF SafetyInv, TypeOK, Begin, registry
<1>6. EntriesMatch(o)'
  BY <1>1, <1>3, <1>4 DEF EntriesMatch, SafetyInv, InstalledMatches, Installed
<1>7. PlanHolds(o)'
  BY <1>4, <1>6 DEF PlanHolds, Past, SafetyInv, TypeOK
<1> QED
  BY <1>5, <1>7, RequestStep DEF Begin

\* A request goes on with the entries it has, and makes something of them.
LEMMA GoesOn ==
  ASSUME SafetyInv, NEW o \in Operators, NEW label, at[o] # "idle",
         label \in {"plan", "assess", "changes", "dependents", "reread"}, Goto(o, label),
         NEW pl \in Plan, plan' = [plan EXCEPT ![o] = pl], pl.entries = plan[o].entries,
         UNCHANGED <<installation, registry, current, ops>>
  PROVE  TypeOK' /\ EntriesMatch(o)' /\ at'[o] = label /\ plan'[o] = pl
<1>1. at' = [at EXCEPT ![o] = label] /\ at'[o] = label /\ plan'[o] = pl
  BY DEF Goto, SafetyInv, TypeOK
<1>2. TypeOK'
  BY <1>1 DEF SafetyInv, TypeOK, registry
<1>3. EntriesMatch(o)
  BY DEF SafetyInv, PlansHold, PlanHolds, Past
<1>4. Cached' = Cached /\ changed' = changed /\ installation' = installation
  BY RegistryStays
<1>5. EntriesMatch(o)'
  BY <1>1, <1>3, <1>4 DEF EntriesMatch, Installed
<1> QED
  BY <1>1, <1>2, <1>5

LEMMA ReadOwnStep ==
  ASSUME OneAtATime, SafetyInv, NEW o \in Operators, ReadOwn(o)
  PROVE  SafetyInv'
<1> DEFINE old == plan[o]
           row == installation[old.pack]
           version == VersionFor(old.entries, old.pack, row, old.action, old.version)
           target == EntryAt(old.entries, old.pack, version)
           pl == [old EXCEPT !.from = row, !.version = version, !.target = target,
                             !.allowed = Legal(row, old.action, version, target)]
<1>1. plan' = [plan EXCEPT ![o] = pl] /\ at[o] = "plan" /\ Goto(o, "assess")
  BY DEF ReadOwn
<1>2. old \in Plan /\ row \in Row
  BY <1>1 DEF SafetyInv, TypeOK, Plan
<1>3. version \in Versions \cup {NoVersion}
  BY <1>2, LatestFits DEF VersionFor, Plan, Row
<1>4. target \in Digests \cup {NoEntry}
  BY <1>2, <1>3 DEF EntryAt, Plan, Cache
<1>5. Legal(row, old.action, version, target) \in BOOLEAN
  BY <1>2 DEF Legal, Plan, Actions, Row, PinAllows
<1>6. pl \in Plan /\ pl.entries = old.entries /\ pl.pack = old.pack /\ pl.action = old.action
      /\ pl.from = row /\ pl.version = version /\ pl.target = target
      /\ pl.allowed = Legal(row, old.action, version, target)
  BY <1>2, <1>3, <1>4, <1>5 DEF Plan
<1> HIDE DEF pl
<1>7. TypeOK' /\ EntriesMatch(o)' /\ at'[o] = "assess" /\ plan'[o] = pl
  BY <1>1, <1>6, GoesOn DEF ReadOwn
<1>8. OwnRead(o)'
  <2>1. /\ old.action = "rollback" => version = row.previous
        /\ old.action = "enable" => version = row.version
        /\ old.action \in {"disable", "pin", "unpin"} => version = NoVersion
    BY DEF VersionFor
  <2> QED
    BY <1>6, <1>7, <2>1 DEF OwnRead, ReadOwn
<1>9. PlanHolds(o)'
  BY <1>7, <1>8 DEF PlanHolds, Past
<1> QED
  BY <1>7, <1>9, RequestStep DEF ReadOwn

\* A check changes nothing of a plan but whether it is allowed, and can only refuse it.
SameRequest(new, old) ==
  /\ new.pack = old.pack /\ new.action = old.action /\ new.entries = old.entries
  /\ new.from = old.from /\ new.version = old.version /\ new.target = old.target

LEMMA CheckStep ==
  ASSUME SafetyInv, NEW o \in Operators, NEW label, NEW next,
         NEW applies \in BOOLEAN, NEW verdict \in BOOLEAN,
         label \in {"assess", "changes", "dependents"}, next \in {"changes", "dependents", "reread"},
         Check(o, label, next, applies, verdict)
  PROVE  /\ TypeOK' /\ EntriesMatch(o)' /\ OwnRead(o)' /\ at'[o] = next
         /\ plan'[o] \in Plan /\ SameRequest(plan'[o], plan[o])
         /\ plan'[o].allowed => plan[o].allowed /\ (applies => verdict)
<1> DEFINE pl == [plan[o] EXCEPT !.allowed = @ /\ (applies => verdict)]
<1>1. at[o] = label /\ plan[o] \in Plan
  BY DEF Check, SafetyInv, TypeOK
<1>2. pl \in Plan /\ SameRequest(pl, plan[o])
      /\ (pl.allowed => plan[o].allowed /\ (applies => verdict))
  BY <1>1 DEF Plan, SameRequest
<1>3. plan' = [plan EXCEPT ![o] = pl]
  BY <1>1 DEF Check, SafetyInv, TypeOK
<1> HIDE DEF pl
<1>4. TypeOK' /\ EntriesMatch(o)' /\ at'[o] = next /\ plan'[o] = pl
  BY <1>1, <1>2, <1>3, GoesOn DEF Check, SameRequest
<1>5. OwnRead(o)
  BY <1>1 DEF SafetyInv, PlansHold, PlanHolds, Past
<1>6. OwnRead(o)'
  BY <1>2, <1>4, <1>5 DEF OwnRead, SameRequest, Check
<1> QED
  BY <1>2, <1>4, <1>6

\* The verdicts depend on nothing a check changes.
\* Who is enabled and described, and by which entries, is the same for the same
\* request over the same installations.
LEMMA OthersStay ==
  ASSUME NEW o \in Operators, installation' = installation, SameRequest(plan'[o], plan[o])
  PROVE  /\ Described(plan[o].pack, plan[o].entries)' = Described(plan[o].pack, plan[o].entries)
         /\ \A q : EntryOf(q, plan[o].entries)' = EntryOf(q, plan[o].entries)
BY DEF SameRequest, Described, Enabled, EntryOf

LEMMA RequirersStay ==
  ASSUME NEW o \in Operators, installation' = installation, SameRequest(plan'[o], plan[o])
  PROVE  NoRequirerBroken(plan[o])' <=> NoRequirerBroken(plan[o])
<1>1. Breaking(plan'[o]) = Breaking(plan[o])
  BY DEF Breaking, Before, After, SameRequest
<1>2. Breaking(plan[o])' = Breaking(plan'[o])
  BY DEF Breaking, Before, After
<1> QED
  BY <1>1, <1>2, OthersStay DEF NoRequirerBroken

LEMMA DependentsStay ==
  ASSUME NEW o \in Operators, installation' = installation, SameRequest(plan'[o], plan[o])
  PROVE  NoDependentBroken(plan[o])' <=> NoDependentBroken(plan[o])
<1>1. plan'[o].pack = plan[o].pack /\ plan'[o].action = plan[o].action
      /\ plan'[o].version = plan[o].version
  BY DEF SameRequest
<1> QED
  BY <1>1, OthersStay DEF NoDependentBroken

LEMMA AssessedStays ==
  ASSUME NEW o \in Operators, Assessed(o), installation' = installation,
         SameRequest(plan'[o], plan[o]), plan'[o].allowed => plan[o].allowed
  PROVE  Assessed(o)'
BY DEF Assessed, SameRequest, Assess, DependenciesFit, NoPublicationConflict, Enabled, Described,
       EntryOf

LEMMA ComparedStays ==
  ASSUME NEW o \in Operators, Compared(o), installation' = installation,
         SameRequest(plan'[o], plan[o]), plan'[o].allowed => plan[o].allowed
  PROVE  Compared(o)'
BY RequirersStay DEF Compared

LEMMA AssessStep ==
  ASSUME OneAtATime, SafetyInv, NEW o \in Operators, AssessTarget(o)
  PROVE  SafetyInv'
<1> DEFINE pl == plan[o]
           applies == pl.target # NoEntry /\ (pl.action \in {"install", "enable"} \/ pl.from.enabled)
           verdict == Assess(pl.pack, Content[pl.target], pl.entries)
<1>1. Check(o, "assess", "changes", applies, verdict)
  BY DEF AssessTarget
<1>2. at[o] = "assess" /\ pl \in Plan
  BY <1>1 DEF Check, SafetyInv, TypeOK
<1>3. applies \in BOOLEAN
  BY <1>2 DEF Plan, Row
<1>4. applies => verdict \in BOOLEAN
  BY <1>2, ConstantsOK DEF Plan, Assess, ConstantsOK, Entry
<1>5. UNCHANGED <<installation, registry>>
  BY <1>1 DEF Check
<1>6. /\ TypeOK' /\ EntriesMatch(o)' /\ OwnRead(o)' /\ at'[o] = "changes"
      /\ SameRequest(plan'[o], pl) /\ (plan'[o].allowed => (applies => verdict))
  <2>1. CASE applies
    <3>1. verdict \in BOOLEAN
      BY <1>4, <2>1
    <3> HIDE DEF applies, verdict
    <3> QED
      BY <1>1, <1>3, <3>1, CheckStep
  <2>2. CASE ~applies
    <3>1. Check(o, "assess", "changes", applies, TRUE)
      BY <1>1, <2>2 DEF Check
    <3> QED
      BY <1>3, <2>2, <3>1, CheckStep
  <2> QED
    BY <2>1, <2>2
<1>7. Assessed(o)'
  BY <1>5, <1>6 DEF Assessed, SameRequest, Assess, DependenciesFit, NoPublicationConflict, Enabled,
     Described, EntryOf
<1>8. PlanHolds(o)'
  BY <1>6, <1>7 DEF PlanHolds, Past
<1> QED
  BY <1>5, <1>6, <1>8, RequestStep

LEMMA CompareStep ==
  ASSUME OneAtATime, SafetyInv, NEW o \in Operators, ComparePublications(o)
  PROVE  SafetyInv'
<1>1. Check(o, "changes", "dependents", TRUE, NoRequirerBroken(plan[o]))
  BY DEF ComparePublications
<1>2. at[o] = "changes" /\ UNCHANGED <<installation, registry>>
  BY <1>1 DEF Check
<1>3. NoRequirerBroken(plan[o]) \in BOOLEAN
  BY DEF NoRequirerBroken
<1>4. /\ TypeOK' /\ EntriesMatch(o)' /\ OwnRead(o)' /\ at'[o] = "dependents"
      /\ SameRequest(plan'[o], plan[o])
      /\ plan'[o].allowed => plan[o].allowed /\ NoRequirerBroken(plan[o])
  <2> DEFINE verdict == NoRequirerBroken(plan[o])
             applies == TRUE
  <2>1. verdict \in BOOLEAN /\ applies \in BOOLEAN
        /\ Check(o, "changes", "dependents", applies, verdict)
    BY <1>1, <1>3
  <2> HIDE DEF verdict, applies
  <2>2. /\ TypeOK' /\ EntriesMatch(o)' /\ OwnRead(o)' /\ at'[o] = "dependents"
        /\ SameRequest(plan'[o], plan[o]) /\ (plan'[o].allowed => plan[o].allowed /\ (applies => verdict))
    BY <2>1, CheckStep
  <2> QED
    BY <2>2 DEF verdict, applies
<1>5. Assessed(o)
  BY <1>2 DEF SafetyInv, PlansHold, PlanHolds, Past
<1>6. Assessed(o)'
  BY <1>2, <1>4, <1>5, AssessedStays
<1>7. Compared(o)'
  BY <1>2, <1>4, RequirersStay DEF Compared
<1>8. PlanHolds(o)'
  BY <1>4, <1>6, <1>7 DEF PlanHolds, Past
<1> QED
  BY <1>2, <1>4, <1>8, RequestStep

LEMMA DependentsStep ==
  ASSUME OneAtATime, SafetyInv, NEW o \in Operators, CheckDependents(o)
  PROVE  SafetyInv'
<1> DEFINE applies == plan[o].from.enabled /\ plan[o].action \in {"disable", "upgrade", "rollback"}
<1>1. Check(o, "dependents", "reread", applies, NoDependentBroken(plan[o]))
  BY DEF CheckDependents
<1>2. at[o] = "dependents" /\ UNCHANGED <<installation, registry>> /\ plan[o] \in Plan
  BY <1>1 DEF Check, SafetyInv, TypeOK
<1>3. NoDependentBroken(plan[o]) \in BOOLEAN /\ applies \in BOOLEAN
  BY <1>2 DEF NoDependentBroken, Plan, Row
<1>4. /\ TypeOK' /\ EntriesMatch(o)' /\ OwnRead(o)' /\ at'[o] = "reread"
      /\ SameRequest(plan'[o], plan[o])
      /\ plan'[o].allowed => plan[o].allowed /\ (applies => NoDependentBroken(plan[o]))
  <2> HIDE DEF applies
  <2> QED
    BY <1>1, <1>3, CheckStep
<1>5. Assessed(o) /\ Compared(o)
  BY <1>2 DEF SafetyInv, PlansHold, PlanHolds, Past
<1>6. Assessed(o)' /\ Compared(o)'
  BY <1>2, <1>4, <1>5, AssessedStays, ComparedStays
<1>7. DependentsChecked(o)'
  <2>1. plan'[o].from = plan[o].from /\ plan'[o].action = plan[o].action
    BY <1>4 DEF SameRequest
  <2> QED
    BY <1>2, <1>4, <2>1, DependentsStay DEF DependentsChecked
<1>8. PlanHolds(o)'
  BY <1>4, <1>6, <1>7 DEF PlanHolds, Past
<1> QED
  BY <1>2, <1>4, <1>8, RequestStep

\* The row that is read again is the one that was planned with.
LEMMA ReadAgainStep ==
  ASSUME OneAtATime, SafetyInv, NEW o \in Operators, ReadAgain(o)
  PROVE  SafetyInv'
<1>1. at[o] = "reread" /\ plan[o] \in Plan /\ UNCHANGED <<installation, registry, ops>>
  BY DEF ReadAgain, SafetyInv, TypeOK
<1>2. PlanHolds(o)
  BY DEF SafetyInv, PlansHold
<1>3. CASE plan[o].allowed
  <2>1. /\ current' = [current EXCEPT ![o] = installation[plan[o].pack]]
        /\ at' = [at EXCEPT ![o] = "apply"] /\ plan' = plan
    BY <1>3 DEF ReadAgain, Goto
  <2>2. installation[plan[o].pack] \in Row
    BY <1>1 DEF SafetyInv, TypeOK, Plan
  <2>3. TypeOK'
    BY <1>1, <2>1, <2>2 DEF SafetyInv, TypeOK, registry
  <2>4. at'[o] = "apply" /\ current'[o] = installation[plan[o].pack]
    BY <2>1 DEF SafetyInv, TypeOK
  <2>5. EntriesMatch(o)'
    BY <1>1, <1>2, <2>1, RegistryStays DEF PlanHolds, Past, EntriesMatch, Installed
  <2>6. OwnRead(o)' /\ DependentsChecked(o)'
    BY <1>1, <1>2, <2>1 DEF PlanHolds, Past, OwnRead, DependentsChecked, NoDependentBroken,
       Described, Enabled, EntryOf
  <2>7. SameRequest(plan'[o], plan[o]) /\ (plan'[o].allowed => plan[o].allowed)
    BY <2>1 DEF SameRequest
  <2>8. Assessed(o)' /\ Compared(o)'
    BY <1>1, <1>2, <2>7, AssessedStays, ComparedStays DEF PlanHolds, Past
  <2>9. PlanHolds(o)'
    BY <1>1, <1>3, <2>1, <2>4, <2>5, <2>6, <2>8 DEF PlanHolds, Past
  <2> QED
    BY <1>1, <2>3, <2>9, RequestStep
<1>4. CASE ~plan[o].allowed
  <2>1. /\ at' = [at EXCEPT ![o] = "idle"] /\ plan' = [plan EXCEPT ![o] = NoEntry]
        /\ current' = current
    BY <1>4 DEF ReadAgain, Goto
  <2>2. TypeOK'
    BY <1>1, <2>1 DEF SafetyInv, TypeOK, registry
  <2>3. PlanHolds(o)'
    BY <2>1 DEF PlanHolds, Past, SafetyInv, TypeOK
  <2> QED
    BY <1>1, <2>2, <2>3, RequestStep
<1> QED
  BY <1>3, <1>4

-----------------------------------------------------------------------------
(* Applying a plan *)

New(o) == NextInstallation(plan[o], installation[plan[o].pack])

\* The plan still describes the row, which becomes what was planned.
LEMMA ApplyChanges ==
  ASSUME SafetyInv, NEW o \in Operators, Apply(o)
  PROVE  /\ plan[o] \in Plan /\ plan[o].allowed /\ installation[plan[o].pack] \in Row
         /\ EntriesMatch(o) /\ OwnRead(o) /\ Assessed(o) /\ Compared(o) /\ DependentsChecked(o)
         /\ installation' = [installation EXCEPT ![plan[o].pack] = New(o)]
<1>1. at[o] = "apply" /\ plan[o] \in Plan
  BY DEF Apply, SafetyInv, TypeOK
<1>2. PlanHolds(o)
  BY DEF SafetyInv, PlansHold
<1>3. current[o] = installation[plan[o].pack] /\ plan[o].allowed
  BY <1>1, <1>2 DEF PlanHolds
<1>4. MatchesExpectation(installation[plan[o].pack], current[o])
  BY <1>3 DEF MatchesExpectation
<1>5. installation' = [installation EXCEPT ![plan[o].pack] = New(o)]
  BY <1>3, <1>4 DEF Apply, New
<1>6. installation[plan[o].pack] \in Row
  BY <1>1 DEF SafetyInv, TypeOK, Plan
<1> QED
  BY <1>1, <1>2, <1>3, <1>5, <1>6 DEF PlanHolds, Past

\* The rows a plan leads to.
SwitchedOff(pl, row, new) ==
  /\ pl.action = "disable" /\ row.enabled /\ ~new.enabled
  /\ new.version = row.version /\ new.digest = row.digest /\ new.pinned = row.pinned
PinMoved(pl, row, new) ==
  /\ pl.action \in {"pin", "unpin"} /\ new.enabled = row.enabled
  /\ new.version = row.version /\ new.digest = row.digest
  /\ new.pinned \in {NoVersion, row.version}
SwitchedOn(pl, row, new) ==
  /\ pl.action \in {"install", "enable"} /\ ~row.enabled /\ new.enabled
  /\ new.version = pl.version /\ new.digest = pl.target
  /\ \/ new.pinned = NoVersion
     \/ new.pinned = row.pinned /\ new.version = row.version
Moved(pl, row, new) ==
  /\ pl.action \in {"upgrade", "rollback"} /\ new.enabled = row.enabled
  /\ new.version = pl.version /\ new.digest = pl.target
  /\ new.pinned = row.pinned /\ PinAllows(row, new.version)

LEMMA NewRow ==
  ASSUME SafetyInv, NEW o \in Operators, Apply(o)
  PROVE  LET pl == plan[o]  row == installation[pl.pack]  new == New(o) IN
         /\ new \in Row
         /\ \/ SwitchedOff(pl, row, new) \/ PinMoved(pl, row, new)
            \/ SwitchedOn(pl, row, new) \/ Moved(pl, row, new)
         /\ SwitchedOn(pl, row, new) \/ Moved(pl, row, new) =>
              /\ pl.target # NoEntry /\ pl.version \in Versions
              /\ pl.entries[pl.pack][pl.version] = pl.target
<1> DEFINE pl == plan[o]
           row == installation[pl.pack]
           new == New(o)
<1>1. /\ pl \in Plan /\ row \in Row
      /\ pl.target = EntryAt(pl.entries, pl.pack, pl.version)
      /\ pl.action = "enable" => pl.version = row.version
      /\ Legal(row, pl.action, pl.version, pl.target)
  BY ApplyChanges DEF OwnRead
<1>2. RowsFit
  BY DEF SafetyInv
<1>3. pl.pack \in Packs /\ pl.action \in Actions /\ pl.version \in Versions \cup {NoVersion}
      /\ pl.target \in Digests \cup {NoEntry}
  BY <1>1 DEF Plan
<1>4. new = NextInstallation(pl, row)
  BY DEF New
<1>5. NotInstalled \in Row
  BY DEF NotInstalled, Row
<1>6. CASE pl.action = "install"
  <2>1. row.version = NoVersion /\ pl.target # NoEntry
    BY <1>1, <1>6 DEF Legal
  <2>2. new = [NotInstalled EXCEPT !.version = pl.version, !.enabled = TRUE, !.digest = pl.target]
    BY <1>4, <1>6 DEF NextInstallation
  <2>3. ~row.enabled
    BY <1>2, <1>3, <2>1 DEF RowsFit, Installed
  <2>4. pl.version \in Versions /\ pl.entries[pl.pack][pl.version] = pl.target
    BY <1>1, <1>3, <2>1 DEF EntryAt
  <2>5. new \in Row /\ new.enabled /\ new.digest = pl.target /\ new.version = pl.version
        /\ new.pinned = NoVersion
    BY <1>3, <1>5, <2>2 DEF Row, NotInstalled
  <2> QED
    BY <1>6, <2>1, <2>3, <2>4, <2>5 DEF SwitchedOn
<1>7. CASE pl.action \in {"upgrade", "rollback"}
  <2>1. pl.target # NoEntry /\ PinAllows(row, pl.version)
    BY <1>1, <1>7 DEF Legal
  <2>2. new = [row EXCEPT !.version = pl.version, !.previous = row.version,
                          !.digest = pl.target, !.previousDigest = row.digest]
    BY <1>4, <1>7 DEF NextInstallation
  <2>3. pl.version \in Versions /\ pl.entries[pl.pack][pl.version] = pl.target
    BY <1>1, <1>3, <2>1 DEF EntryAt
  <2>4. new \in Row /\ new.enabled = row.enabled /\ new.digest = pl.target
        /\ new.version = pl.version /\ new.pinned = row.pinned
    BY <1>1, <1>3, <2>2 DEF Row
  <2> QED
    BY <1>7, <2>1, <2>3, <2>4 DEF Moved
<1>8. CASE pl.action = "disable"
  <2>1. row.version # NoVersion /\ row.enabled /\ new = [row EXCEPT !.enabled = FALSE]
    BY <1>1, <1>4, <1>8 DEF Legal, NextInstallation
  <2> QED
    BY <1>1, <1>8, <2>1 DEF Row, SwitchedOff, PinMoved, SwitchedOn, Moved
<1>9. CASE pl.action = "enable"
  <2>1. ~row.enabled /\ pl.target # NoEntry /\ pl.target = row.digest
        /\ new = [row EXCEPT !.enabled = TRUE]
    BY <1>1, <1>4, <1>9 DEF Legal, NextInstallation
  <2>2. pl.version \in Versions /\ pl.entries[pl.pack][pl.version] = pl.target
    BY <1>1, <1>3, <2>1 DEF EntryAt
  <2>3. new \in Row /\ new.enabled /\ new.digest = row.digest /\ new.version = row.version
        /\ new.pinned = row.pinned
    BY <1>1, <2>1 DEF Row
  <2> QED
    BY <1>1, <1>9, <2>1, <2>2, <2>3 DEF SwitchedOn
<1>10. CASE pl.action = "pin"
  <2>1. row.version # NoVersion /\ new = [row EXCEPT !.pinned = row.version]
    BY <1>1, <1>4, <1>10 DEF Legal, NextInstallation
  <2> QED
    BY <1>1, <1>10, <2>1 DEF Row, PinMoved, SwitchedOn, Moved
<1>11. CASE pl.action = "unpin"
  <2>1. new = [row EXCEPT !.pinned = NoVersion]
    BY <1>1, <1>4, <1>11 DEF NextInstallation
  <2> QED
    BY <1>1, <1>11, <2>1 DEF Row, PinMoved, SwitchedOn, Moved
<1> QED
  BY <1>3, <1>6, <1>7, <1>8, <1>9, <1>10, <1>11 DEF Actions

\* Only the row of the request's pack is another one.
LEMMA ApplyFrame ==
  ASSUME SafetyInv, NEW o \in Operators, Apply(o)
  PROVE  LET p == plan[o].pack IN
         /\ p \in Packs /\ installation'[p] = New(o)
         /\ \A q \in Packs \ {p} : installation'[q] = installation[q]
         /\ changed' = changed /\ Cached' = Cached
         /\ On' \ {p} = On \ {p} /\ Steady' \ {p} = Steady \ {p}
         /\ p \in On' <=> New(o).enabled
         /\ p \in Steady' <=> New(o).enabled /\ <<p, New(o).version>> \notin changed
<1> DEFINE p == plan[o].pack
<1>1. installation' = [installation EXCEPT ![p] = New(o)] /\ plan[o] \in Plan
  BY ApplyChanges
<1>2. p \in Packs /\ installation'[p] = New(o)
  BY <1>1 DEF Plan, SafetyInv, TypeOK
<1>3. \A q \in Packs \ {p} : installation'[q] = installation[q]
  BY <1>1 DEF SafetyInv, TypeOK
<1>4. changed' = changed /\ Cached' = Cached
  BY RegistryStays DEF Apply
<1> QED
  BY <1>2, <1>3, <1>4 DEF On, Steady

LEMMA ApplyRows ==
  ASSUME SafetyInv, NEW o \in Operators, Apply(o)
  PROVE  RowsFit' /\ InstalledMatches' /\ PinHolds'
<1> DEFINE pl == plan[o]
           p == pl.pack
           row == installation[p]
           new == New(o)
<1>1. /\ p \in Packs /\ installation'[p] = new
      /\ \A q \in Packs \ {p} : installation'[q] = installation[q]
      /\ changed' = changed /\ Cached' = Cached
  BY ApplyFrame
<1>2. /\ \/ SwitchedOff(pl, row, new) \/ PinMoved(pl, row, new)
         \/ SwitchedOn(pl, row, new) \/ Moved(pl, row, new)
      /\ SwitchedOn(pl, row, new) \/ Moved(pl, row, new) =>
           /\ pl.target # NoEntry /\ pl.version \in Versions
           /\ pl.entries[p][pl.version] = pl.target
  BY NewRow
<1>3. RowsFit /\ InstalledMatches /\ PinHolds /\ EntriesMatch(o)
  BY ApplyChanges DEF SafetyInv
<1>4. \A v \in Versions : v # NoVersion
  BY DEF Versions, NoVersion
<1> HIDE DEF new, pl
<1>5. IF new.version # NoVersion THEN new.digest # NoEntry
      ELSE ~new.enabled /\ new.pinned = NoVersion
  BY <1>1, <1>2, <1>3, <1>4 DEF RowsFit, Installed, SwitchedOff, PinMoved, SwitchedOn, Moved
<1>6. RowsFit'
  BY <1>1, <1>3, <1>5 DEF RowsFit, Installed
<1>7. new.version # NoVersion /\ <<p, new.version>> \notin changed =>
         Cached[p][new.version] = new.digest
  <2> SUFFICES ASSUME new.version # NoVersion, <<p, new.version>> \notin changed
               PROVE  Cached[p][new.version] = new.digest
    OBVIOUS
  <2>1. CASE SwitchedOff(pl, row, new) \/ PinMoved(pl, row, new)
    BY <1>1, <1>3, <2>1 DEF InstalledMatches, Installed, SwitchedOff, PinMoved
  <2>2. CASE SwitchedOn(pl, row, new) \/ Moved(pl, row, new)
    <3>1. new.version = pl.version /\ new.digest = pl.target
      BY <2>2 DEF SwitchedOn, Moved
    <3> QED
      BY <1>1, <1>2, <1>3, <2>2, <3>1 DEF EntriesMatch, pl
  <2> QED
    BY <1>2, <2>1, <2>2
<1>8. InstalledMatches'
  BY <1>1, <1>3, <1>7 DEF InstalledMatches, Installed
<1>9. new.pinned # NoVersion => new.version = new.pinned
  BY <1>1, <1>2, <1>3 DEF PinHolds, SwitchedOff, PinMoved, SwitchedOn, Moved, PinAllows
<1>10. PinHolds'
  BY <1>1, <1>3, <1>9 DEF PinHolds
<1> QED
  BY <1>6, <1>8, <1>10

\* A steady pack is described, as it was when it was installed.
LEMMA SteadyDescribed ==
  ASSUME SafetyInv, NEW o \in Operators, EntriesMatch(o), NEW q \in Steady
  PROVE  /\ plan[o].entries[q][installation[q].version] = installation[q].digest
         /\ EntryOf(q, plan[o].entries) = Declared(q)
         /\ \A p \in Packs \ {q} : q \in Described(p, plan[o].entries)
<1>1. q \in Packs /\ installation[q].enabled /\ <<q, installation[q].version>> \notin changed
  BY DEF Steady, On
<1>2. Installed(q) /\ installation[q].digest # NoEntry
  BY <1>1 DEF SafetyInv, RowsFit
<1>3. plan[o].entries[q][installation[q].version] = installation[q].digest
  BY <1>1, <1>2 DEF EntriesMatch
<1> QED
  BY <1>1, <1>2, <1>3 DEF EntryOf, Declared, Described, Enabled

\* What the request's own pack declares, once it is enabled, has been assessed.
LEMMA OwnAssessed ==
  ASSUME SafetyInv, NEW o \in Operators, Apply(o), New(o).enabled,
         ~PinMoved(plan[o], installation[plan[o].pack], New(o))
  PROVE  Assess(plan[o].pack, Content[New(o).digest], plan[o].entries)
<1> DEFINE pl == plan[o]
           row == installation[pl.pack]
           new == New(o)
<1>1. /\ \/ SwitchedOff(pl, row, new) \/ PinMoved(pl, row, new)
         \/ SwitchedOn(pl, row, new) \/ Moved(pl, row, new)
      /\ SwitchedOn(pl, row, new) \/ Moved(pl, row, new) => pl.target # NoEntry
  BY NewRow
<1>2. SwitchedOn(pl, row, new) \/ Moved(pl, row, new)
  BY <1>1 DEF SwitchedOff
<1>3. pl.allowed /\ pl.from = row /\ Assessed(o)
  BY ApplyChanges DEF OwnRead
<1>4. new.digest = pl.target /\ pl.target # NoEntry
      /\ (pl.action \in {"install", "enable"} \/ pl.from.enabled)
  BY <1>1, <1>2, <1>3 DEF SwitchedOn, Moved
<1> QED
  BY <1>3, <1>4 DEF Assessed

\* The packs that depend on it still find what they need.
LEMMA DependentsKept ==
  ASSUME SafetyInv, NEW o \in Operators, Apply(o), NEW q \in Steady, q # plan[o].pack,
         plan[o].pack \in DOMAIN Declared(q).needs
  PROVE  New(o).enabled /\ New(o).version \in Declared(q).needs[plan[o].pack]
<1> DEFINE pl == plan[o]
           p == pl.pack
           row == installation[p]
           new == New(o)
<1>1. row.enabled /\ row.version \in Declared(q).needs[p]
  BY DEF SafetyInv, DependenciesSatisfied, On
<1>2. /\ pl.allowed /\ pl.from = row /\ DependentsChecked(o) /\ EntriesMatch(o)
      /\ p \in Packs
  BY ApplyChanges, ApplyFrame DEF OwnRead
<1>3. q \in Packs /\ q \in Described(p, pl.entries) /\ EntryOf(q, pl.entries) = Declared(q)
  BY <1>2, SteadyDescribed DEF Steady, On
<1>4. \/ SwitchedOff(pl, row, new) \/ PinMoved(pl, row, new)
      \/ SwitchedOn(pl, row, new) \/ Moved(pl, row, new)
  BY NewRow
<1>5. CASE PinMoved(pl, row, new)
  BY <1>1, <1>5 DEF PinMoved
<1>6. CASE SwitchedOff(pl, row, new) \/ Moved(pl, row, new)
  <2>1. pl.action \in {"disable", "upgrade", "rollback"}
    BY <1>6 DEF SwitchedOff, Moved
  <2>2. NoDependentBroken(pl)
    BY <1>1, <1>2, <2>1 DEF DependentsChecked
  <2>3. pl.action # "disable" /\ pl.version \in Declared(q).needs[p]
    BY <1>3, <2>2 DEF NoDependentBroken
  <2> QED
    BY <1>1, <1>6, <2>3 DEF SwitchedOff, Moved
<1> QED
  BY <1>1, <1>4, <1>5, <1>6 DEF SwitchedOn

LEMMA ApplyDependencies ==
  ASSUME SafetyInv, NEW o \in Operators, Apply(o)
  PROVE  DependenciesSatisfied'
<1> DEFINE pl == plan[o]
           new == New(o)
<1>0. PICK p : p = pl.pack
  OBVIOUS
<1> DEFINE row == installation[p]
<1>1. /\ p \in Packs /\ installation'[p] = new
      /\ \A q \in Packs \ {p} : installation'[q] = installation[q]
      /\ On' \ {p} = On \ {p} /\ Steady' \ {p} = Steady \ {p}
      /\ p \in On' <=> new.enabled
      /\ p \in Steady' <=> new.enabled /\ <<p, new.version>> \notin changed
      /\ changed' = changed
  BY <1>0, ApplyFrame
<1>2. DependenciesSatisfied /\ On \subseteq Packs /\ Steady \subseteq On
  BY DEF SafetyInv, On, Steady
<1>3. \A q \in Packs : Declared(q)' = Content[installation'[q].digest]
  BY DEF Declared
<1> HIDE DEF new, pl
<1>4. ASSUME NEW q \in Steady', NEW r \in DOMAIN Declared(q)'.needs, q # p
      PROVE  r \in On' /\ installation'[r].version \in Declared(q)'.needs[r]
  <2>1. q \in Steady /\ Declared(q)' = Declared(q)
    BY <1>1, <1>2, <1>3, <1>4 DEF Declared
  <2>2. r \in On /\ installation[r].version \in Declared(q).needs[r]
    BY <1>2, <1>4, <2>1 DEF DependenciesSatisfied
  <2>3. CASE r = p
    BY <1>0, <1>1, <1>4, <2>1, <2>3, DependentsKept DEF new, pl
  <2>4. CASE r # p
    BY <1>1, <1>2, <2>1, <2>2, <2>4
  <2> QED
    BY <2>3, <2>4
<1>5. ASSUME p \in Steady', NEW r \in DOMAIN Declared(p)'.needs
      PROVE  r \in On' /\ installation'[r].version \in Declared(p)'.needs[r]
  <2>1. Declared(p)' = Content[new.digest] /\ new.enabled
    BY <1>1, <1>3, <1>5
  <2>2. CASE PinMoved(pl, row, new)
    <3>1. row.enabled /\ new.version = row.version /\ new.digest = row.digest
      BY <2>1, <2>2 DEF PinMoved
    <3>2. changed' = changed /\ <<p, row.version>> \notin changed
      BY <1>1, <1>5, <3>1
    <3>3. p \in Steady /\ Declared(p)' = Declared(p)
      BY <1>1, <2>1, <3>1, <3>2 DEF Steady, On, Declared
    <3>4. r \in On /\ installation[r].version \in Declared(p).needs[r]
      BY <1>2, <1>5, <3>3 DEF DependenciesSatisfied
    <3> QED
      BY <1>1, <1>2, <2>1, <3>1, <3>3, <3>4
  <2>3. CASE ~PinMoved(pl, row, new)
    <3>1. DependenciesFit(p, Content[new.digest])
      BY <1>0, <2>1, <2>3, OwnAssessed DEF Assess, new, pl
    <3>2. r \in Enabled(p) /\ installation[r].version \in Content[new.digest].needs[r]
      BY <1>5, <2>1, <3>1 DEF DependenciesFit
    <3>3. r \in On /\ r # p
      BY <3>2 DEF Enabled, On
    <3> QED
      BY <1>1, <1>2, <2>1, <3>2, <3>3
  <2> QED
    BY <2>2, <2>3
<1> QED
  BY <1>4, <1>5 DEF DependenciesSatisfied

LEMMA ApplyProviders ==
  ASSUME SafetyInv, NEW o \in Operators, Apply(o)
  PROVE  ProvidersUnique'
<1> DEFINE pl == plan[o]
           new == New(o)
<1>0. PICK p : p = pl.pack
  OBVIOUS
<1> DEFINE row == installation[p]
<1>1. /\ p \in Packs /\ installation'[p] = new
      /\ \A q \in Packs \ {p} : installation'[q] = installation[q]
      /\ On' \ {p} = On \ {p} /\ Steady' \ {p} = Steady \ {p}
      /\ p \in On' <=> new.enabled
      /\ p \in Steady' <=> new.enabled /\ <<p, new.version>> \notin changed
      /\ changed' = changed
  BY <1>0, ApplyFrame
<1>2. ProvidersUnique /\ On \subseteq Packs /\ Steady \subseteq On /\ Steady' \subseteq On'
  BY DEF SafetyInv, On, Steady
<1>3. \A q \in Packs : Declared(q)' = Content[installation'[q].digest]
  BY DEF Declared
<1>4. EntriesMatch(o)
  BY ApplyChanges
<1> HIDE DEF new, pl
<1>5. ASSUME NEW q \in On', q # p
      PROVE  q \in On /\ Declared(q)' = Declared(q) /\ (q \in Steady' => q \in Steady)
  BY <1>1, <1>2, <1>3, <1>5 DEF Declared
<1>6. ASSUME p \in On', NEW k \in Publications, Provides(Declared(p)', k)
      PROVE  /\ k \notin Platform
             /\ \A q \in Steady' : p \in Steady' /\ Provides(Declared(q)', k) => q = p
  <2>1. Declared(p)' = Content[new.digest] /\ new.enabled
    BY <1>1, <1>3, <1>6
  <2>2. CASE PinMoved(pl, row, new)
    <3>1. p \in On /\ Declared(p)' = Declared(p) /\ (p \in Steady' => p \in Steady)
      BY <1>1, <2>1, <2>2 DEF PinMoved, On, Steady, Declared
    <3> QED
      BY <1>2, <1>5, <1>6, <3>1 DEF ProvidersUnique
  <2>3. CASE ~PinMoved(pl, row, new)
    <3>1. NoPublicationConflict(p, Content[new.digest], pl.entries)
      BY <1>0, <2>1, <2>3, OwnAssessed DEF Assess, new, pl
    <3>2. k \notin Platform
      BY <1>6, <2>1, <3>1 DEF NoPublicationConflict
    <3>3. ASSUME NEW q \in Steady', q # p, Provides(Declared(q)', k) PROVE FALSE
      <4>1. q \in Steady /\ Declared(q)' = Declared(q)
        BY <1>2, <1>5, <3>3
      <4>2. q \in Described(p, pl.entries) /\ EntryOf(q, pl.entries) = Declared(q)
        BY <1>1, <1>4, <3>3, <4>1, SteadyDescribed DEF pl
      <4> QED
        BY <1>6, <2>1, <3>1, <3>3, <4>1, <4>2 DEF NoPublicationConflict
    <3> QED
      BY <3>2, <3>3
  <2> QED
    BY <2>2, <2>3
<1>7. ASSUME NEW q \in On', q # p, NEW k \in Publications, Provides(Declared(q)', k)
      PROVE  /\ k \notin Platform
             /\ \A r \in Steady' : q \in Steady' /\ Provides(Declared(r)', k) => q = r
  <2>1. q \in On /\ Declared(q)' = Declared(q) /\ k \notin Platform
    BY <1>2, <1>5, <1>7 DEF ProvidersUnique
  <2>2. ASSUME NEW r \in Steady', q \in Steady', Provides(Declared(r)', k) PROVE q = r
    <3>1. CASE r = p
      BY <1>2, <1>6, <1>7, <2>2, <3>1
    <3>2. CASE r # p
      BY <1>2, <1>5, <1>7, <2>1, <2>2, <3>2 DEF ProvidersUnique
    <3> QED
      BY <3>1, <3>2
  <2> QED
    BY <2>1, <2>2
<1>8. ASSUME NEW q \in On', NEW k \in Publications, Provides(Declared(q)', k)
      PROVE  /\ k \notin Platform
             /\ \A r \in Steady' : q \in Steady' /\ Provides(Declared(r)', k) => q = r
  BY <1>6, <1>7, <1>8
<1> QED
  BY <1>8 DEF ProvidersUnique, Provides

LEMMA ApplyType ==
  ASSUME SafetyInv, NEW o \in Operators, Apply(o)
  PROVE  TypeOK'
<1>1. installation' = [installation EXCEPT ![plan[o].pack] = New(o)] /\ New(o) \in Row
  BY ApplyChanges, NewRow
<1>2. at' = [at EXCEPT ![o] = "idle"] /\ plan' = [plan EXCEPT ![o] = NoEntry]
      /\ current' = [current EXCEPT ![o] = NoEntry] /\ UNCHANGED <<registry, ops>>
  BY DEF Apply, Goto
<1>3. installation' \in [Packs -> Row]
  BY <1>1 DEF SafetyInv, TypeOK
<1> QED
  BY <1>2, <1>3 DEF SafetyInv, TypeOK, registry

LEMMA ApplyStep ==
  ASSUME OneAtATime, SafetyInv, NEW o \in Operators, Apply(o)
  PROVE  SafetyInv'
<1>1. at'[o] = "idle"
  BY DEF Apply, Goto, SafetyInv, TypeOK
<1>2. PlansHold'
  BY <1>1 DEF OneAtATime, PlansHold, PlanHolds, Past
<1> QED
  BY <1>2, ApplyType, ApplyRows, ApplyDependencies, ApplyProviders DEF SafetyInv

\* What another pack requires stays provided, with the same schema major.
LEMMA ApplyRequirements ==
  ASSUME SafetyInv, NEW o \in Operators, Apply(o),
         NEW p \in Steady, NEW q \in Steady, NEW k \in Publications, p # q,
         Provides(Declared(p), k), k \in Declared(q).requires
  PROVE  /\ installation'[p].enabled
         /\ Content[installation'[p].digest].provides[k] = Declared(p).provides[k]
<1> DEFINE pl == plan[o]
           row == installation[pl.pack]
           new == New(o)
<1>1. /\ installation'[pl.pack] = new
      /\ \A r \in Packs \ {pl.pack} : installation'[r] = installation[r]
  BY ApplyFrame
<1>2. p \in Packs /\ q \in Packs /\ installation[p].enabled
  BY DEF Steady, On
<1>3. CASE p # pl.pack
  BY <1>1, <1>2, <1>3 DEF Declared
<1>4. CASE p = pl.pack
  <2>1. /\ pl \in Plan /\ row \in Row /\ pl.from = row /\ pl.allowed
        /\ EntriesMatch(o) /\ Compared(o)
    BY ApplyChanges DEF OwnRead
  <2>2. row.enabled /\ row.version # NoVersion /\ row.digest # NoEntry /\ row.digest \in Digests
    BY <1>2, <1>4, <2>1 DEF SafetyInv, RowsFit, Installed, Row
  <2>3. pl.entries[p][row.version] = row.digest
    BY <1>4, <2>1, SteadyDescribed
  <2>4. Before(pl) = Content[row.digest].provides
    BY <1>4, <2>1, <2>2, <2>3 DEF Before, EntryAt
  <2>5. Declared(p) = Content[row.digest] /\ Before(pl)[k] > 0
    BY <1>4, <2>4 DEF Declared, Provides
  <2>6. k \notin Breaking(pl)
    <3>1. q \in Described(pl.pack, pl.entries) /\ EntryOf(q, pl.entries) = Declared(q)
      BY <1>2, <1>4, <2>1, SteadyDescribed
    <3> QED
      BY <2>1, <3>1 DEF Compared, NoRequirerBroken
  <2>7. After(pl)[k] = Before(pl)[k]
    BY <2>5, <2>6 DEF Breaking
  <2>8. /\ \/ SwitchedOff(pl, row, new) \/ PinMoved(pl, row, new)
           \/ SwitchedOn(pl, row, new) \/ Moved(pl, row, new)
        /\ SwitchedOn(pl, row, new) \/ Moved(pl, row, new) => pl.target # NoEntry
    BY NewRow
  <2>9. CASE PinMoved(pl, row, new)
    BY <1>1, <1>4, <2>2, <2>5, <2>9 DEF PinMoved
  <2>10. CASE SwitchedOff(pl, row, new)
    <3>1. pl.action = "disable"
      BY <2>10 DEF SwitchedOff
    <3>2. After(pl) = Nothing
      BY <3>1 DEF After
    <3>3. After(pl)[k] = 0
      BY <3>2 DEF Nothing
    <3> QED
      BY <2>5, <2>7, <3>3
  <2>11. CASE Moved(pl, row, new)
    <3>1. pl.action \in {"upgrade", "rollback"} /\ new.enabled /\ new.digest = pl.target
      BY <2>2, <2>11 DEF Moved
    <3>2. After(pl) = Content[pl.target].provides
      BY <2>1, <2>2, <2>8, <2>11, <3>1 DEF After
    <3> QED
      BY <1>1, <1>4, <2>4, <2>5, <2>7, <3>1, <3>2
  <2> QED
    BY <2>2, <2>8, <2>9, <2>10, <2>11 DEF SwitchedOn
<1> QED
  BY <1>3, <1>4

-----------------------------------------------------------------------------
(* The theorems *)

LEMMA InitSafety == Init => SafetyInv
<1> SUFFICES ASSUME Init PROVE SafetyInv
  OBVIOUS
<1>1. installation = [p \in Packs |-> NotInstalled] /\ at = [o \in Operators |-> "idle"]
  BY DEF Init
<1>2. RowsFit /\ InstalledMatches /\ PinHolds
  BY <1>1 DEF RowsFit, InstalledMatches, PinHolds, Installed, NotInstalled
<1>3. On = {} /\ Steady = {}
  BY <1>1 DEF On, Steady, NotInstalled
<1>4. DependenciesSatisfied /\ ProvidersUnique
  BY <1>3 DEF DependenciesSatisfied, ProvidersUnique
<1>5. PlansHold
  BY <1>1 DEF PlansHold, PlanHolds, Past
<1> QED
  BY <1>2, <1>4, <1>5, InitType DEF SafetyInv

LEMMA RegistrySafety ==
  ASSUME SafetyInv, NEW s \in Sources,
         \/ Sync(s) \/ Archive(s) \/ Enable(s)
         \/ \E m \in Manifests[s], core \in BOOLEAN : Rewrite(s, m, core)
  PROVE  SafetyInv'
<1>1. TypeOK
  BY DEF SafetyInv
<1>2. CASE Sync(s)
  BY <1>1, <1>2, SyncType, RegistryStep DEF Sync
<1>3. CASE \/ Archive(s) \/ Enable(s)
           \/ \E m \in Manifests[s], core \in BOOLEAN : Rewrite(s, m, core)
  <2>1. PICK new \in Source : Edit(s, new)
    BY <1>1, <1>3, EditsFit
  <2> QED
    BY <1>1, <2>1, EditType, RegistryStep DEF Edit
<1> QED
  BY <1>2, <1>3

LEMMA StutterSafety ==
  ASSUME SafetyInv, UNCHANGED vars
  PROVE  SafetyInv'
<1>1. UNCHANGED <<installation, registry, at, plan, current, ops>>
  BY DEF vars
<1>2. TableInv'
  BY <1>1, TableStays DEF SafetyInv, TableInv
<1>3. TypeOK'
  BY <1>1 DEF SafetyInv, TypeOK, registry
<1>4. ASSUME NEW o \in Operators PROVE PlanHolds(o)'
  <2>1. PlanHolds(o) /\ Cached' = Cached /\ changed' = changed
    BY <1>1, RegistryStays DEF SafetyInv, PlansHold
  <2>2. EntriesMatch(o)' = EntriesMatch(o)
    BY <1>1, <2>1 DEF EntriesMatch, Installed
  <2>3. OwnRead(o)' = OwnRead(o)
    BY <1>1 DEF OwnRead
  <2>4. Assessed(o)' = Assessed(o)
    BY <1>1 DEF Assessed, Assess, DependenciesFit, NoPublicationConflict, Enabled, Described, EntryOf
  <2>5. Compared(o)' = Compared(o)
    BY <1>1 DEF Compared, NoRequirerBroken, Breaking, Described, Enabled, EntryOf, Before, After
  <2>6. DependentsChecked(o)' = DependentsChecked(o)
    BY <1>1 DEF DependentsChecked, NoDependentBroken, Described, Enabled, EntryOf
  <2> QED
    BY <1>1, <2>1, <2>2, <2>3, <2>4, <2>5, <2>6 DEF PlanHolds, Past
<1> QED
  BY <1>2, <1>3, <1>4 DEF SafetyInv, TableInv, PlansHold

LEMMA NextSafety ==
  ASSUME OneAtATime, SafetyInv, [Next]_vars
  PROVE  SafetyInv'
<1>1. CASE UNCHANGED vars
  BY <1>1, StutterSafety
<1>2. ASSUME NEW s \in Sources,
             \/ Sync(s) \/ Archive(s) \/ Enable(s)
             \/ \E m \in Manifests[s], core \in BOOLEAN : Rewrite(s, m, core)
      PROVE  SafetyInv'
  BY <1>2, RegistrySafety
<1>3. ASSUME NEW o \in Operators,
             \/ Begin(o) \/ ReadOwn(o) \/ AssessTarget(o) \/ ComparePublications(o)
             \/ CheckDependents(o) \/ ReadAgain(o) \/ Apply(o)
      PROVE  SafetyInv'
  BY <1>3, BeginStep, ReadOwnStep, AssessStep, CompareStep, DependentsStep, ReadAgainStep, ApplyStep
<1> QED
  BY <1>1, <1>2, <1>3 DEF Next

\* The invariant that the changes of packs keep, as long as one of them is planned and
\* applied before the next begins (plan_pack_change, apply_pack_change).
THEOREM Safety ==
  ASSUME OneAtATime
  PROVE  Spec => []SafetyInv
<1>1. Init => SafetyInv
  BY InitSafety
<1>2. SafetyInv /\ [Next]_vars => SafetyInv'
  BY NextSafety
<1> QED
  BY <1>1, <1>2, PTL DEF Spec

\* No sequence of changes takes from an enabled pack what it declares to depend on, nor
\* moves it to a version outside the constraint, while its entry stands.
THEOREM DependenciesHold ==
  ASSUME OneAtATime
  PROVE  Spec => []DependenciesSatisfied
<1>1. SafetyInv => DependenciesSatisfied
  BY DEF SafetyInv
<1> QED
  BY <1>1, Safety, PTL

\* No sequence of changes gives a publication two providers.
THEOREM ProvidersAreUnique ==
  ASSUME OneAtATime
  PROVE  Spec => []ProvidersUnique
<1>1. SafetyInv => ProvidersUnique
  BY DEF SafetyInv
<1> QED
  BY <1>1, Safety, PTL

\* A pinned pack is never anywhere but at its pin.
THEOREM PinsHold ==
  ASSUME OneAtATime
  PROVE  Spec => []PinHolds
<1>1. SafetyInv => PinHolds
  BY DEF SafetyInv
<1> QED
  BY <1>1, Safety, PTL

\* No change takes from an enabled pack a publication it requires, nor changes the schema
\* major it is provided with.
THEOREM RequirementsAreKept ==
  ASSUME OneAtATime
  PROVE  Spec => RequirementsKept
<1> DEFINE Kept == \A p, q \in Steady, k \in Publications :
        /\ p # q
        /\ Provides(Declared(p), k) /\ k \in Declared(q).requires
        /\ installation'[q] = installation[q]
        => /\ installation'[p].enabled
           /\ Content[installation'[p].digest].provides[k] = Declared(p).provides[k]
<1>1. SafetyInv /\ [Next]_vars => [Kept]_vars
  <2> SUFFICES ASSUME SafetyInv, [Next]_vars PROVE Kept
    OBVIOUS
  <2>1. CASE installation' = installation
    BY <2>1 DEF Steady, On, Declared
  <2>2. ASSUME NEW o \in Operators, Apply(o) PROVE Kept
    BY <2>2, ApplyRequirements
  <2>3. installation' = installation \/ \E o \in Operators : Apply(o)
    BY DEF Next, vars, Sync, Archive, Enable, Rewrite, Edit, Begin, ReadOwn, AssessTarget,
       ComparePublications, CheckDependents, Check, ReadAgain
  <2> QED
    BY <2>1, <2>2, <2>3
<1> QED
  BY <1>1, Safety, PTL DEF Spec, RequirementsKept

-----------------------------------------------------------------------------
(* Requests that overlap *)

\* A row is blank, or has a digest with its version; and what it can be rolled
\* back to has both as well.
Whole(row) ==
  /\ row.version = NoVersion => row = NotInstalled
  /\ row.version # NoVersion => row.digest # NoEntry
  /\ row.previous = NoVersion <=> row.previousDigest = NoEntry

RowsWhole == \A p \in Packs : Whole(installation[p])

InstalledStays == \A p \in Packs : Installed(p) => Installed(p)'

\* What is still true of an allowed plan when others have changed what it was
\* made from.
Ready(pl) ==
  /\ pl.action \in {"install", "upgrade", "rollback"} =>
       pl.target # NoEntry /\ pl.version # NoVersion
  /\ pl.action # "install" => Installed(pl.pack)

RequestFits(o) ==
  /\ Past(o, {"plan"}) => (plan[o].allowed => Ready(plan[o]))
  /\ at[o] = "apply" =>
       /\ plan[o].allowed /\ Whole(current[o])
       /\ plan[o].action # "install" => current[o].version # NoVersion

OverlapInv == TypeOK /\ RowsWhole /\ \A o \in Operators : RequestFits(o)

\* What the step of one request means for the others.
LEMMA OverlapStep ==
  ASSUME OverlapInv, NEW o \in Operators, TypeOK', RowsWhole', InstalledStays, RequestFits(o)',
         \A q \in Operators \ {o} :
           at'[q] = at[q] /\ plan'[q] = plan[q] /\ current'[q] = current[q]
  PROVE  OverlapInv'
<1> SUFFICES ASSUME NEW q \in Operators, q # o
             PROVE  RequestFits(q)'
  BY DEF OverlapInv
<1>1. /\ RequestFits(q) /\ at'[q] = at[q] /\ plan'[q] = plan[q] /\ current'[q] = current[q]
      /\ at[q] # "idle" => plan[q] \in Plan
  BY DEF OverlapInv, TypeOK
<1>2. Past(q, {"plan"})' = Past(q, {"plan"})
  BY <1>1 DEF Past
<1>3. Past(q, {"plan"}) => plan[q].pack \in Packs
  BY <1>1 DEF Past, Plan
<1>4. Past(q, {"plan"}) /\ Ready(plan[q]) => Ready(plan[q])'
  BY <1>1, <1>3 DEF Ready, InstalledStays, Installed
<1> QED
  BY <1>1, <1>2, <1>4 DEF RequestFits, Whole

\* A step that leaves the rows alone.
LEMMA RowsStay ==
  ASSUME OverlapInv, installation' = installation
  PROVE  RowsWhole' /\ InstalledStays
BY DEF OverlapInv, RowsWhole, InstalledStays, Installed, Whole

\* A request goes on with a plan that is well-formed, and ready if it is allowed.
LEMMA GoesOnFits ==
  ASSUME OverlapInv, NEW o \in Operators, NEW label,
         label \in {"plan", "assess", "changes", "dependents", "reread"}, Goto(o, label),
         NEW pl \in Plan, plan' = [plan EXCEPT ![o] = pl],
         label # "plan" => (pl.allowed => Ready(pl)),
         UNCHANGED <<installation, registry, current>>, ops' \in 0..MaxOps
  PROVE  OverlapInv'
<1>1. /\ at' = [at EXCEPT ![o] = label] /\ at'[o] = label /\ plan'[o] = pl
      /\ \A q \in Operators \ {o} : at'[q] = at[q] /\ plan'[q] = plan[q]
  BY DEF Goto, OverlapInv, TypeOK
<1>2. TypeOK'
  BY <1>1 DEF OverlapInv, TypeOK, registry
<1>3. RequestFits(o)'
  BY <1>1 DEF RequestFits, Past, Ready, Installed
<1> QED
  BY <1>1, <1>2, <1>3, RowsStay, OverlapStep

LEMMA BeginFits ==
  ASSUME OverlapInv, NEW o \in Operators, Begin(o)
  PROVE  OverlapInv'
<1>1. Cached \in Cache
  BY CachedFits DEF OverlapInv, TypeOK
<1>2. PICK p \in Packs, action \in Actions, asked \in Versions \cup {NoVersion} :
        plan' = [plan EXCEPT ![o] =
              [pack |-> p, action |-> action, entries |-> Cached, from |-> NotInstalled,
               version |-> asked, target |-> NoEntry, allowed |-> TRUE]]
  BY DEF Begin
<1> DEFINE pl == [pack |-> p, action |-> action, entries |-> Cached, from |-> NotInstalled,
                  version |-> asked, target |-> NoEntry, allowed |-> TRUE]
<1>3. pl \in Plan
  BY <1>1 DEF Plan, NotInstalled, Row
<1>4. ops' \in 0..MaxOps
  BY ConstantsOK DEF Begin, ConstantsOK, OverlapInv, TypeOK
<1> HIDE DEF pl
<1>5. plan' = [plan EXCEPT ![o] = pl]
  BY <1>2 DEF pl
<1> QED
  BY <1>3, <1>4, <1>5, GoesOnFits DEF Begin

\* What the own row and the entries allow is ready.
LEMMA ReadOwnFits ==
  ASSUME OverlapInv, NEW o \in Operators, ReadOwn(o)
  PROVE  OverlapInv'
<1> DEFINE old == plan[o]
           row == installation[old.pack]
           version == VersionFor(old.entries, old.pack, row, old.action, old.version)
           target == EntryAt(old.entries, old.pack, version)
           pl == [old EXCEPT !.from = row, !.version = version, !.target = target,
                             !.allowed = Legal(row, old.action, version, target)]
<1>1. /\ plan' = [plan EXCEPT ![o] = pl] /\ at[o] = "plan" /\ Goto(o, "assess")
      /\ UNCHANGED <<installation, registry, current, ops>>
  BY DEF ReadOwn
<1>2. old \in Plan /\ old.pack \in Packs /\ row \in Row /\ Whole(row)
  BY <1>1 DEF OverlapInv, TypeOK, Plan, RowsWhole
<1>3. version \in Versions \cup {NoVersion}
  BY <1>2, LatestFits DEF VersionFor, Plan, Row
<1>4. target \in Digests \cup {NoEntry} /\ (target # NoEntry => version # NoVersion)
  BY <1>2, <1>3 DEF EntryAt, Plan, Cache
<1>5. Legal(row, old.action, version, target) \in BOOLEAN
  BY <1>2 DEF Legal, Plan, Actions, Row, PinAllows
<1>6. pl \in Plan /\ pl.pack = old.pack /\ pl.action = old.action
      /\ pl.version = version /\ pl.target = target
      /\ pl.allowed = Legal(row, old.action, version, target)
  BY <1>2, <1>3, <1>4, <1>5 DEF Plan
<1>7. old.action \in Actions
  BY <1>2 DEF Plan
<1>8. ASSUME Legal(row, old.action, version, target)
      PROVE  /\ old.action \in {"install", "upgrade", "rollback"} => target # NoEntry
             /\ old.action # "install" => row.version # NoVersion
  <2>1. row.version = NoVersion => row.previous = NoVersion /\ row.pinned = NoVersion
    BY <1>2 DEF Whole, NotInstalled
  <2> HIDE DEF row, version, target
  <2> QED
    BY <1>7, <1>8, <2>1 DEF Legal, Actions
<1> HIDE DEF pl
<1>9. pl.allowed => Ready(pl)
  BY <1>4, <1>6, <1>8 DEF Ready, Installed
<1>10. ops' \in 0..MaxOps
  BY <1>1 DEF OverlapInv, TypeOK
<1> QED
  BY <1>1, <1>6, <1>9, <1>10, GoesOnFits

LEMMA CheckFits ==
  ASSUME OverlapInv, NEW o \in Operators, NEW label, NEW next,
         NEW applies \in BOOLEAN, NEW verdict \in BOOLEAN,
         label \in {"assess", "changes", "dependents"}, next \in {"changes", "dependents", "reread"},
         Check(o, label, next, applies, verdict)
  PROVE  OverlapInv'
<1> DEFINE pl == [plan[o] EXCEPT !.allowed = @ /\ (applies => verdict)]
<1>1. at[o] = label /\ plan[o] \in Plan
  BY DEF Check, OverlapInv, TypeOK
<1>2. pl \in Plan /\ SameRequest(pl, plan[o]) /\ (pl.allowed => plan[o].allowed)
  BY <1>1 DEF Plan, SameRequest
<1>3. plan' = [plan EXCEPT ![o] = pl]
  BY <1>1 DEF Check, OverlapInv, TypeOK
<1>4. plan[o].allowed => Ready(plan[o])
  BY <1>1 DEF OverlapInv, RequestFits, Past
<1> HIDE DEF pl
<1>5. pl.allowed => Ready(pl)
  BY <1>2, <1>4 DEF Ready, SameRequest
<1>6. Goto(o, next) /\ UNCHANGED <<installation, registry, current, ops>>
  BY DEF Check
<1>7. ops' \in 0..MaxOps
  BY <1>6 DEF OverlapInv, TypeOK
<1>8. pl \in Plan /\ next \in {"plan", "assess", "changes", "dependents", "reread"}
  BY <1>2
<1> QED
  BY <1>3, <1>5, <1>6, <1>7, <1>8, GoesOnFits

LEMMA ChecksFit ==
  ASSUME OverlapInv, NEW o \in Operators,
         AssessTarget(o) \/ ComparePublications(o) \/ CheckDependents(o)
  PROVE  OverlapInv'
<1> DEFINE pl == plan[o]
<1>1. at[o] \in {"assess", "changes", "dependents"} /\ pl \in Plan
  BY DEF AssessTarget, ComparePublications, CheckDependents, Check, OverlapInv, TypeOK
<1>2. CASE AssessTarget(o)
  <2> DEFINE applies == /\ pl.target # NoEntry
                        /\ pl.action \in {"install", "enable"} \/ pl.from.enabled
             verdict == Assess(pl.pack, Content[pl.target], pl.entries)
  <2>1. Check(o, "assess", "changes", applies, verdict)
    BY <1>2 DEF AssessTarget
  <2>2. applies \in BOOLEAN
    BY <1>1 DEF Plan, Row
  <2>3. CASE applies
    <3>1. verdict \in BOOLEAN
      BY <1>1, <2>3, ConstantsOK DEF Plan, Assess, ConstantsOK, Entry
    <3> HIDE DEF applies, verdict
    <3> QED
      BY <2>1, <2>2, <3>1, CheckFits
  <2>4. CASE ~applies
    <3>1. Check(o, "assess", "changes", applies, TRUE)
      BY <2>1, <2>4 DEF Check
    <3> HIDE DEF applies
    <3> QED
      BY <2>2, <3>1, CheckFits
  <2> QED
    BY <2>2, <2>3, <2>4
<1>3. CASE ComparePublications(o)
  <2>1. NoRequirerBroken(plan[o]) \in BOOLEAN
    BY DEF NoRequirerBroken
  <2> QED
    BY <1>3, <2>1, CheckFits DEF ComparePublications
<1>4. CASE CheckDependents(o)
  <2> DEFINE applies == /\ pl.from.enabled
                        /\ pl.action \in {"disable", "upgrade", "rollback"}
  <2>1. NoDependentBroken(plan[o]) \in BOOLEAN /\ applies \in BOOLEAN
    BY <1>1 DEF NoDependentBroken, Plan, Row
  <2>2. Check(o, "dependents", "reread", applies, NoDependentBroken(plan[o]))
    BY <1>4 DEF CheckDependents
  <2> HIDE DEF applies
  <2> QED
    BY <2>1, <2>2, CheckFits
<1> QED
  BY <1>2, <1>3, <1>4

\* The row that is read again may be another one than was planned with.
LEMMA ReadAgainFits ==
  ASSUME OverlapInv, NEW o \in Operators, ReadAgain(o)
  PROVE  OverlapInv'
<1>1. at[o] = "reread" /\ plan[o] \in Plan /\ UNCHANGED <<installation, registry, ops>>
  BY DEF ReadAgain, OverlapInv, TypeOK
<1>2. CASE plan[o].allowed
  <2> DEFINE row == installation[plan[o].pack]
  <2>1. /\ current' = [current EXCEPT ![o] = row]
        /\ at' = [at EXCEPT ![o] = "apply"] /\ plan' = plan
    BY <1>2 DEF ReadAgain, Goto
  <2>2. row \in Row /\ Whole(row)
    BY <1>1 DEF OverlapInv, TypeOK, Plan, RowsWhole
  <2>3. TypeOK'
    BY <1>1, <2>1, <2>2 DEF OverlapInv, TypeOK, registry
  <2>4. at'[o] = "apply" /\ current'[o] = row /\ plan'[o] = plan[o]
    BY <2>1 DEF OverlapInv, TypeOK
  <2>5. Ready(plan[o])
    BY <1>1, <1>2 DEF OverlapInv, RequestFits, Past
  <2>6. plan[o].action # "install" => row.version # NoVersion
    BY <2>5 DEF Ready, Installed
  <2>7. Ready(plan[o])'
    BY <1>1, <2>4, <2>5 DEF Ready, Installed
  <2>8. RequestFits(o)'
    BY <1>2, <2>2, <2>4, <2>6, <2>7 DEF RequestFits, Whole
  <2>9. \A q \in Operators \ {o} :
          at'[q] = at[q] /\ plan'[q] = plan[q] /\ current'[q] = current[q]
    BY <2>1 DEF OverlapInv, TypeOK
  <2> QED
    BY <1>1, <2>3, <2>8, <2>9, RowsStay, OverlapStep
<1>3. CASE ~plan[o].allowed
  <2>1. /\ at' = [at EXCEPT ![o] = "idle"] /\ plan' = [plan EXCEPT ![o] = NoEntry]
        /\ current' = current
    BY <1>3 DEF ReadAgain, Goto
  <2>2. TypeOK' /\ RequestFits(o)'
    BY <1>1, <2>1 DEF OverlapInv, TypeOK, registry, RequestFits, Past
  <2>3. \A q \in Operators \ {o} :
          at'[q] = at[q] /\ plan'[q] = plan[q] /\ current'[q] = current[q]
    BY <2>1 DEF OverlapInv, TypeOK
  <2> QED
    BY <1>1, <2>2, <2>3, RowsStay, OverlapStep
<1> QED
  BY <1>2, <1>3

\* What a ready plan makes of a whole row.
LEMMA NextWhole ==
  ASSUME NEW pl \in Plan, Ready(pl), NEW row \in Row, Whole(row),
         pl.action # "install" => row.version # NoVersion,
         NEW new, new = NextInstallation(pl, row)
  PROVE  new \in Row /\ Whole(new) /\ new.version # NoVersion
<1>1. /\ pl.action \in Actions /\ pl.version \in Versions \cup {NoVersion}
      /\ pl.target \in Digests \cup {NoEntry}
  BY DEF Plan
<1>2. /\ row.previous = NoVersion <=> row.previousDigest = NoEntry
      /\ row.version # NoVersion => row.digest # NoEntry
  BY DEF Whole
<1>3. CASE pl.action = "install"
  <2>1. new = [NotInstalled EXCEPT !.version = pl.version, !.enabled = TRUE, !.digest = pl.target]
    BY <1>3 DEF NextInstallation
  <2>2. pl.version # NoVersion /\ pl.target # NoEntry
    BY <1>3 DEF Ready
  <2>3. /\ new \in Row /\ new.version = pl.version /\ new.digest = pl.target
        /\ new.previous = NoVersion /\ new.previousDigest = NoEntry
    BY <1>1, <2>1 DEF NotInstalled, Row
  <2> QED
    BY <2>2, <2>3 DEF Whole
<1>4. CASE pl.action \in {"upgrade", "rollback"}
  <2>1. new = [row EXCEPT !.version = pl.version, !.previous = row.version,
                          !.digest = pl.target, !.previousDigest = row.digest]
    BY <1>4 DEF NextInstallation
  <2>2. pl.version # NoVersion /\ pl.target # NoEntry /\ row.version # NoVersion
    BY <1>4 DEF Ready
  <2>3. /\ new \in Row /\ new.version = pl.version /\ new.digest = pl.target
        /\ new.previous = row.version /\ new.previousDigest = row.digest
    BY <1>1, <2>1 DEF Row
  <2> QED
    BY <1>2, <2>2, <2>3 DEF Whole
<1>5. CASE pl.action \in {"disable", "enable", "pin", "unpin"}
  <2>1. \/ new = [row EXCEPT !.enabled = FALSE] \/ new = [row EXCEPT !.enabled = TRUE]
        \/ new = [row EXCEPT !.pinned = row.version] \/ new = [row EXCEPT !.pinned = NoVersion]
    BY <1>5 DEF NextInstallation
  <2>2. /\ new \in Row /\ new.version = row.version /\ new.digest = row.digest
        /\ new.previous = row.previous /\ new.previousDigest = row.previousDigest
    BY <2>1 DEF Row
  <2>3. row.version # NoVersion
    BY <1>5
  <2> QED
    BY <1>2, <2>2, <2>3 DEF Whole
<1> QED
  BY <1>1, <1>3, <1>4, <1>5 DEF Actions

LEMMA ApplyFits ==
  ASSUME OverlapInv, NEW o \in Operators, Apply(o)
  PROVE  OverlapInv' /\ InstalledStays
<1> DEFINE pl == plan[o]
           new == NextInstallation(pl, current[o])
<1>1. at[o] = "apply" /\ pl \in Plan /\ pl.pack \in Packs /\ current[o] \in Row
  BY DEF Apply, OverlapInv, TypeOK, Plan
<1>2. pl.allowed /\ Ready(pl) /\ Whole(current[o])
      /\ (pl.action # "install" => current[o].version # NoVersion)
  BY <1>1 DEF OverlapInv, RequestFits, Past
<1>3. new \in Row /\ Whole(new) /\ new.version # NoVersion
  BY <1>1, <1>2, NextWhole
<1> HIDE DEF new
<1>4. installation' = installation \/ installation' = [installation EXCEPT ![pl.pack] = new]
  BY DEF Apply, new
<1>5. installation' \in [Packs -> Row] /\ RowsWhole' /\ InstalledStays
  <2>1. \A p \in Packs : \/ installation'[p] = installation[p]
                         \/ installation'[p] = new
    BY <1>4 DEF OverlapInv, TypeOK
  <2>2. installation' \in [Packs -> Row]
    BY <1>3, <1>4 DEF OverlapInv, TypeOK
  <2>3. \A p \in Packs : Whole(installation[p])
    BY DEF OverlapInv, RowsWhole
  <2> QED
    BY <1>3, <2>1, <2>2, <2>3 DEF RowsWhole, InstalledStays, Installed, Whole
<1>6. at' = [at EXCEPT ![o] = "idle"] /\ plan' = [plan EXCEPT ![o] = NoEntry]
      /\ current' = [current EXCEPT ![o] = NoEntry] /\ UNCHANGED <<registry, ops>>
  BY DEF Apply, Goto
<1>7. TypeOK' /\ RequestFits(o)'
  BY <1>5, <1>6 DEF OverlapInv, TypeOK, registry, RequestFits, Past
<1>8. \A q \in Operators \ {o} :
        at'[q] = at[q] /\ plan'[q] = plan[q] /\ current'[q] = current[q]
  BY <1>6 DEF OverlapInv, TypeOK
<1> QED
  BY <1>5, <1>7, <1>8, OverlapStep

LEMMA NextFits ==
  ASSUME OverlapInv, [Next]_vars
  PROVE  OverlapInv' /\ InstalledStays
<1>1. ASSUME UNCHANGED <<installation, at, plan, current>>, TypeOK'
      PROVE  OverlapInv' /\ InstalledStays
  <2>1. RowsWhole' /\ InstalledStays
    BY <1>1, RowsStay
  <2>2. ASSUME NEW o \in Operators PROVE RequestFits(o)'
    <3>1. RequestFits(o)
      BY DEF OverlapInv
    <3> QED
      BY <1>1, <3>1 DEF RequestFits, Past, Ready, Installed, Whole
  <2> QED
    BY <1>1, <2>1, <2>2 DEF OverlapInv
<1>2. CASE UNCHANGED vars
  <2>1. TypeOK'
    BY <1>2 DEF OverlapInv, TypeOK, vars, registry
  <2> QED
    BY <1>1, <1>2, <2>1 DEF vars
<1>3. ASSUME NEW s \in Sources,
             \/ Sync(s) \/ Archive(s) \/ Enable(s)
             \/ \E m \in Manifests[s], core \in BOOLEAN : Rewrite(s, m, core)
      PROVE  OverlapInv' /\ InstalledStays
  <2>1. TypeOK
    BY DEF OverlapInv
  <2>2. TypeOK'
    BY <1>3, <2>1, SyncType, EditType, EditsFit
  <2> QED
    BY <1>1, <1>3, <2>2 DEF Sync, Archive, Enable, Rewrite, Edit
<1>4. ASSUME NEW o \in Operators,
             \/ Begin(o) \/ ReadOwn(o) \/ AssessTarget(o) \/ ComparePublications(o)
             \/ CheckDependents(o) \/ ReadAgain(o)
      PROVE  OverlapInv' /\ InstalledStays
  <2>1. OverlapInv'
    BY <1>4, BeginFits, ReadOwnFits, ChecksFit, ReadAgainFits
  <2>2. installation' = installation
    BY <1>4 DEF Begin, ReadOwn, AssessTarget, ComparePublications, CheckDependents, Check, ReadAgain
  <2> QED
    BY <2>1, <2>2, RowsStay
<1> QED
  BY <1>2, <1>3, <1>4, ApplyFits DEF Next

\* However requests overlap, a plan is applied to a row it makes sense of: rows
\* and plans are well-formed in every reachable state.
LEMMA OverlapSafe == Spec => []OverlapInv
<1>1. Init => OverlapInv
  <2> SUFFICES ASSUME Init PROVE OverlapInv
    OBVIOUS
  <2>1. /\ \A p \in Packs : installation[p] = NotInstalled
        /\ \A o \in Operators : at[o] = "idle"
    BY DEF Init
  <2>2. RowsWhole
    <3>1. /\ NotInstalled.version = NoVersion /\ NotInstalled.previous = NoVersion
          /\ NotInstalled.previousDigest = NoEntry
      BY DEF NotInstalled
    <3>2. Whole(NotInstalled)
      BY <3>1 DEF Whole
    <3> QED
      BY <2>1, <3>2 DEF RowsWhole
  <2>3. \A o \in Operators : RequestFits(o)
    BY <2>1 DEF RequestFits, Past
  <2> QED
    BY <2>2, <2>3, InitType DEF OverlapInv
<1>2. OverlapInv /\ [Next]_vars => OverlapInv'
  BY NextFits
<1> QED
  BY <1>1, <1>2, PTL DEF Spec

\* Rows, sources and plans are always well-formed, also when requests overlap.
THEOREM TypeCorrect == Spec => []TypeOK
<1>1. OverlapInv => TypeOK
  BY DEF OverlapInv
<1> QED
  BY <1>1, OverlapSafe, PTL

\* The compare-and-set expects only the version, the enablement and the pin of a
\* row that was read after the plan was made (apply_pack_change).  However requests
\* overlap, that is enough for a row to have a digest with its version and with the
\* version it can be rolled back to, and for no installed pack to vanish.
THEOREM RowsStayWhole == Spec => []RowsWhole /\ [][InstalledStays]_vars
<1>1. OverlapInv => RowsWhole
  BY DEF OverlapInv
<1>2. OverlapInv /\ [Next]_vars => [InstalledStays]_vars
  BY NextFits
<1> QED
  BY <1>1, <1>2, OverlapSafe, PTL DEF Spec
=============================================================================

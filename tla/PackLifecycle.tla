----------------------------- MODULE PackLifecycle -----------------------------
(***************************************************************************)
(* The lifecycle of extension packs: the registry sources whose validated  *)
(* manifests are the cache of pack entries, the table pack_installations   *)
(* that is checked against it, and the operators who plan a change against *)
(* several reads and then apply it under a compare-and-set on one row.     *)
(*                                                                         *)
(* Every read of the store is a step of its own; applying is one           *)
(* transaction.  An entry digest stands for the content it is the digest   *)
(* of; versions are numbered in their order, and so are the sources, in    *)
(* the order of their creation.                                            *)
(***************************************************************************)
EXTENDS Integers, FiniteSets

CONSTANTS Operators,   (* requests that change a pack                            *)
          Packs,       (* pack keys                                              *)
          MaxVersion,  (* versions are 1..MaxVersion                             *)
          Publications,
          Platform,    (* publications that packs of the platform provide        *)
          Digests,     (* entry digests                                          *)
          Content,     (* what the entry with a digest declares                  *)
          Sources,     (* registry sources                                       *)
          GitSources,  (* those of kind git; the others are paths                *)
          Manifests,   (* what may be found at the location of a source          *)
          MaxOps, MaxEdits   (* bounds of the model                              *)

Versions == 1..MaxVersion
NoVersion == 0
Actions == {"install", "upgrade", "rollback", "disable", "enable", "pin", "unpin"}

\* provides: the schema major of each publication, 0 if it is not provided;
\* needs: the versions of each pack it depends on that satisfy the constraint;
\* fits: the platform version is right, and no verified trust is claimed.
Entry == [provides: [Publications -> Nat], requires: SUBSET Publications,
          needs: UNION {[P -> SUBSET Versions] : P \in SUBSET Packs}, fits: BOOLEAN]

CONSTANT NoEntry

ASSUME ConstantsOK ==
  /\ MaxVersion \in Nat /\ MaxOps \in Nat /\ MaxEdits \in Nat
  /\ Platform \subseteq Publications
  /\ Content \in [Digests -> Entry]
  /\ Sources \subseteq Nat /\ GitSources \subseteq Sources
  /\ Manifests \in [Sources -> SUBSET [Packs -> [Versions -> Digests \cup {NoEntry}]]]
  /\ NoEntry \notin Digests

VARIABLES installation,  \* pack_installations
          source,        \* the registry sources, what is at their location, and
                         \* what their validated revisions have kept of it
          changed,       \* entries withdrawn or rewritten since they were advertised
          at,            \* where each operator's request is in apply_pack_change
          plan,          \* what it has planned so far
          current,       \* the row it has read again to apply the plan to
          ops, edits     \* requests, and changes of the registry, made so far

registry == <<source, changed, edits>>
vars == <<installation, registry, at, plan, current, ops>>

Row == [version: Versions \cup {NoVersion}, enabled: BOOLEAN,
        pinned: Versions \cup {NoVersion}, previous: Versions \cup {NoVersion},
        digest: Digests \cup {NoEntry}, previousDigest: Digests \cup {NoEntry}]

NotInstalled == [version |-> NoVersion, enabled |-> FALSE, pinned |-> NoVersion,
                 previous |-> NoVersion, digest |-> NoEntry, previousDigest |-> NoEntry]

Cache == [Packs -> [Versions -> Digests \cup {NoEntry}]]
EmptyCache == [p \in Packs |-> [v \in Versions |-> NoEntry]]

\* The part of a manifest that its digest covers has one of two contents (core).
Source == [enabled: BOOLEAN, archived: BOOLEAN, core: BOOLEAN, validated: SUBSET BOOLEAN,
           manifest: Cache, kept: Cache]

Plan == [pack: Packs, action: Actions, entries: Cache, from: Row,
         version: Versions \cup {NoVersion}, target: Digests \cup {NoEntry},
         allowed: BOOLEAN]

TypeOK ==
  /\ installation \in [Packs -> Row]
  /\ source \in [Sources -> Source]
  /\ changed \subseteq Packs \X Versions
  /\ at \in [Operators -> {"idle", "plan", "assess", "changes", "dependents", "reread",
                           "apply"}]
  /\ plan \in [Operators -> Plan \cup {NoEntry}]
  /\ current \in [Operators -> Row \cup {NoEntry}]
  /\ \A o \in Operators : at[o] # "idle" => plan[o] \in Plan
  /\ \A o \in Operators : at[o] = "apply" => current[o] \in Row
  /\ ops \in 0..MaxOps /\ edits \in 0..MaxEdits

Init ==
  /\ installation = [p \in Packs |-> NotInstalled]
  /\ \E m \in [Sources -> UNION {Manifests[s] : s \in Sources}] :
       /\ \A s \in Sources : m[s] \in Manifests[s]
       /\ source = [s \in Sources |-> [enabled |-> TRUE, archived |-> FALSE, core |-> TRUE,
                                      validated |-> {}, manifest |-> m[s], kept |-> EmptyCache]]
  /\ changed = {}
  /\ at = [o \in Operators |-> "idle"]
  /\ plan = [o \in Operators |-> NoEntry]
  /\ current = [o \in Operators |-> NoEntry]
  /\ ops = 0 /\ edits = 0

-----------------------------------------------------------------------------
(* The registry: sync_extension_registry_source and discover_cached_pack_entries *)

\* Every revision of a path source has the live manifest for its own, and counts while
\* the part that its digest covers is as it was; a revision of a git source has its own
\* checkout, and the newest that has an entry wins.
Entries(s) ==
  IF ~source[s].enabled \/ source[s].archived THEN EmptyCache
  ELSE IF s \in GitSources THEN source[s].kept
  ELSE IF source[s].core \in source[s].validated THEN source[s].manifest
  ELSE EmptyCache

\* Of two sources that advertise the same version the older is used.
Advertisers(p, v) == {s \in Sources : Entries(s)[p][v] # NoEntry}
Cached ==
  [p \in Packs |-> [v \in Versions |->
     IF Advertisers(p, v) = {} THEN NoEntry
     ELSE LET first == CHOOSE s \in Advertisers(p, v) : \A r \in Advertisers(p, v) : s <= r
          IN Entries(first)[p][v]]]

\* The entries that this step withdraws or rewrites.
Note ==
  LET before == Cached  after == Cached'
  IN changed' = changed \cup
       {pv \in Packs \X Versions :
          before[pv[1]][pv[2]] \notin {NoEntry, after[pv[1]][pv[2]]}}

Sync(s) ==
  /\ source[s].enabled /\ ~source[s].archived
  /\ source' = [source EXCEPT
       ![s].validated = @ \cup {source[s].core},
       ![s].kept = [p \in Packs |-> [v \in Versions |->
          IF source[s].manifest[p][v] # NoEntry THEN source[s].manifest[p][v] ELSE @[p][v]]]]
  /\ Note
  /\ UNCHANGED <<installation, at, plan, current, ops, edits>>

Edit(s, new) ==
  /\ edits < MaxEdits
  /\ edits' = edits + 1
  /\ source' = [source EXCEPT ![s] = new]
  /\ Note
  /\ UNCHANGED <<installation, at, plan, current, ops>>

\* set_extension_registry_source_archived_state, update_extension_registry_source
Archive(s) == Edit(s, [source[s] EXCEPT !.archived = ~@])
Enable(s) == Edit(s, [source[s] EXCEPT !.enabled = ~@])

\* Somebody changes what is at the location of a source.
Rewrite(s, m, core) == Edit(s, [source[s] EXCEPT !.manifest = m, !.core = core])

-----------------------------------------------------------------------------
(* plan_pack_change *)

Goto(o, label) == at' = [at EXCEPT ![o] = label]

Offered(entries, p) == {v \in Versions : entries[p][v] # NoEntry}
Latest(entries, p) ==
  IF Offered(entries, p) = {} THEN NoVersion
  ELSE CHOOSE v \in Offered(entries, p) : \A u \in Offered(entries, p) : u <= v
EntryAt(entries, p, v) == IF v = NoVersion THEN NoEntry ELSE entries[p][v]

\* The version a change goes to.
VersionFor(entries, p, row, action, asked) ==
  CASE action \in {"install", "upgrade"} ->
         IF asked = NoVersion THEN Latest(entries, p) ELSE asked
    [] action = "rollback" -> row.previous
    [] action = "enable" -> row.version
    [] OTHER -> NoVersion

\* Mutant: the pin is not looked at.
UnpinnedFor(row, version) == TRUE
PinAllows(row, version) == row.pinned \in {NoVersion, version}

\* The transition is legal, its target is cached and unchanged, the pin allows it.
Legal(row, action, version, target) ==
  CASE action = "install" -> row.version = NoVersion /\ target # NoEntry
    [] action = "upgrade" ->
         /\ row.version # NoVersion /\ version > row.version /\ target # NoEntry
         /\ PinAllows(row, version)
    [] action = "rollback" ->
         /\ row.previous # NoVersion /\ target # NoEntry
         /\ row.previousDigest \in {NoEntry, target}
         /\ PinAllows(row, version)
    [] action = "disable" -> row.version # NoVersion /\ row.enabled
    [] action = "enable" ->
         row.version # NoVersion /\ ~row.enabled /\ target # NoEntry /\ target = row.digest
    [] action = "pin" -> row.version # NoVersion /\ row.pinned = NoVersion
    [] action = "unpin" -> row.pinned # NoVersion

\* What a read of the store finds: the enabled packs other than p, and those of them
\* that the request's entries describe.
Enabled(p) == {q \in Packs \ {p} : installation[q].enabled}
Described(p, entries) == {q \in Enabled(p) : entries[q][installation[q].version] # NoEntry}
EntryOf(q, entries) == Content[entries[q][installation[q].version]]

Provides(entry, k) == entry.provides[k] > 0

\* Mutant: an enabled pack satisfies a dependency whatever its version.
AnyVersionFits(p, entry) == DOMAIN entry.needs \subseteq Enabled(p)
DependenciesFit(p, entry) ==
  /\ DOMAIN entry.needs \subseteq Enabled(p)
  /\ \A q \in DOMAIN entry.needs : installation[q].version \in entry.needs[q]

\* Mutant: publications of other extension packs are not compared.
PlatformOnly(p, entry, entries) == \A k \in Platform : ~Provides(entry, k)
NoPublicationConflict(p, entry, entries) ==
  \A k \in Publications : Provides(entry, k) =>
     /\ k \notin Platform
     /\ \A q \in Described(p, entries) : ~Provides(EntryOf(q, entries), k)

\* assess_entry
Assess(p, entry, entries) ==
  entry.fits /\ DependenciesFit(p, entry) /\ NoPublicationConflict(p, entry, entries)

\* What is provided, with which major, before and after the change.
Nothing == [k \in Publications |-> 0]
Before(pl) ==
  LET d == EntryAt(pl.entries, pl.pack, pl.from.version)
  IN IF pl.from.enabled /\ d # NoEntry THEN Content[d].provides ELSE Nothing
After(pl) ==
  CASE pl.action \in {"install", "enable"} /\ pl.target # NoEntry -> Content[pl.target].provides
    [] pl.action \in {"upgrade", "rollback"} /\ pl.target # NoEntry /\ pl.from.enabled ->
         Content[pl.target].provides
    [] pl.action \in {"pin", "unpin"} -> Before(pl)
    [] OTHER -> Nothing

Breaking(pl) == {k \in Publications : Before(pl)[k] > 0 /\ After(pl)[k] # Before(pl)[k]}

\* _publication_changes
\* Mutant: only a removed publication is looked at.
OnlyRemovals(pl) ==
  \A k \in Breaking(pl) : After(pl)[k] = 0 =>
     \A q \in Described(pl.pack, pl.entries) : k \notin EntryOf(q, pl.entries).requires
NoRequirerBroken(pl) ==
  \A k \in Breaking(pl), q \in Described(pl.pack, pl.entries) :
     k \notin EntryOf(q, pl.entries).requires

\* _dependent_pack_diagnostics
NoDependentBroken(pl) ==
  \A q \in Described(pl.pack, pl.entries) :
     LET needs == EntryOf(q, pl.entries).needs
     IN pl.pack \in DOMAIN needs =>
           pl.action # "disable" /\ pl.version \in needs[pl.pack]

Begin(o) ==
  /\ at[o] = "idle" /\ ops < MaxOps
  /\ LET entries == Cached IN
     \E p \in Packs, action \in Actions, asked \in Versions \cup {NoVersion} :
        /\ asked # NoVersion => action \in {"install", "upgrade"}
        /\ plan' = [plan EXCEPT ![o] =
              [pack |-> p, action |-> action, entries |-> entries, from |-> NotInstalled,
               version |-> asked, target |-> NoEntry, allowed |-> TRUE]]
  /\ Goto(o, "plan")
  /\ ops' = ops + 1
  /\ UNCHANGED <<installation, registry, current>>

ReadOwn(o) ==
  /\ at[o] = "plan"
  /\ LET pl == plan[o]
         row == installation[pl.pack]
         version == VersionFor(pl.entries, pl.pack, row, pl.action, pl.version)
         target == EntryAt(pl.entries, pl.pack, version)
     IN plan' = [plan EXCEPT ![o] =
                   [pl EXCEPT !.from = row, !.version = version, !.target = target,
                              !.allowed = Legal(row, pl.action, version, target)]]
  /\ Goto(o, "assess")
  /\ UNCHANGED <<installation, registry, current, ops>>

\* One of the reads of the other packs, and what the plan makes of it.
Check(o, label, next, applies, verdict) ==
  /\ at[o] = label
  /\ plan' = [plan EXCEPT ![o].allowed = @ /\ (applies => verdict)]
  /\ Goto(o, next)
  /\ UNCHANGED <<installation, registry, current, ops>>

AssessTarget(o) ==
  LET pl == plan[o]
  IN Check(o, "assess", "changes",
           /\ pl.target # NoEntry
           /\ pl.action \in {"install", "enable"} \/ pl.from.enabled,
           Assess(pl.pack, Content[pl.target], pl.entries))

ComparePublications(o) ==
  Check(o, "changes", "dependents", TRUE, NoRequirerBroken(plan[o]))

CheckDependents(o) ==
  Check(o, "dependents", "reread",
        plan[o].from.enabled /\ plan[o].action \in {"disable", "upgrade", "rollback"},
        NoDependentBroken(plan[o]))

-----------------------------------------------------------------------------
(* apply_pack_change *)

\* The row is read again, and it is this reading that the change is made to and
\* that the compare-and-set expects; a refused plan is only recorded.
ReadAgain(o) ==
  /\ at[o] = "reread"
  /\ IF plan[o].allowed
     THEN /\ current' = [current EXCEPT ![o] = installation[plan[o].pack]]
          /\ Goto(o, "apply")
          /\ UNCHANGED plan
     ELSE /\ Goto(o, "idle")
          /\ plan' = [plan EXCEPT ![o] = NoEntry]
          /\ UNCHANGED current
  /\ UNCHANGED <<installation, registry, ops>>

\* _next_installation
NextInstallation(pl, row) ==
  CASE pl.action = "install" ->
         [NotInstalled EXCEPT !.version = pl.version, !.enabled = TRUE, !.digest = pl.target]
    [] pl.action \in {"upgrade", "rollback"} ->
         [row EXCEPT !.version = pl.version, !.previous = row.version,
                     !.digest = pl.target, !.previousDigest = row.digest]
    [] pl.action = "disable" -> [row EXCEPT !.enabled = FALSE]
    [] pl.action = "enable" -> [row EXCEPT !.enabled = TRUE]
    [] pl.action = "pin" -> [row EXCEPT !.pinned = row.version]
    [] pl.action = "unpin" -> [row EXCEPT !.pinned = NoVersion]

\* matches_expectation
MatchesExpectation(row, expected) ==
  /\ row.version = expected.version
  /\ row.enabled = expected.enabled
  /\ row.pinned = expected.pinned

Apply(o) ==
  /\ at[o] = "apply"
  /\ LET pl == plan[o]
     IN installation' = IF MatchesExpectation(installation[pl.pack], current[o])
                        THEN [installation EXCEPT ![pl.pack] = NextInstallation(pl, current[o])]
                        ELSE installation
  /\ Goto(o, "idle")
  /\ plan' = [plan EXCEPT ![o] = NoEntry]
  /\ current' = [current EXCEPT ![o] = NoEntry]
  /\ UNCHANGED <<registry, ops>>

Next ==
  \/ \E s \in Sources : \/ Sync(s) \/ Archive(s) \/ Enable(s)
                        \/ \E m \in Manifests[s], core \in BOOLEAN : Rewrite(s, m, core)
  \/ \E o \in Operators : \/ Begin(o) \/ ReadOwn(o) \/ AssessTarget(o)
                          \/ ComparePublications(o) \/ CheckDependents(o)
                          \/ ReadAgain(o) \/ Apply(o)

Spec == Init /\ [][Next]_vars

-----------------------------------------------------------------------------
(* Properties.  They are what the refusals add up to over any sequence of    *)
(* changes that do not overlap.  A pack counts as long as its entry is        *)
(* steady: the plan reads what other packs declare in the cache, so that it   *)
(* cannot see a dependency or a publication of a pack whose entry has been    *)
(* withdrawn, nor the right one if it was rewritten after the installation.   *)

Declared(p) == Content[installation[p].digest]
On == {p \in Packs : installation[p].enabled}
Steady == {p \in On : <<p, installation[p].version>> \notin changed}

\* Every dependency that an enabled pack declares is enabled, in a version that
\* satisfies it: no legal sequence of installs, upgrades, rollbacks and disables of
\* either side leads away from that, whatever becomes of the other packs' entries
\* (assess_entry, _dependent_pack_diagnostics).
DependenciesSatisfied ==
  \A p \in Steady : \A q \in DOMAIN Declared(p).needs :
     q \in On /\ installation[q].version \in Declared(p).needs[q]

\* A publication has one provider (the publication_conflict refusal), also when a pack
\* that was disabled meanwhile comes back.
ProvidersUnique ==
  \A p \in On, k \in Publications : Provides(Declared(p), k) =>
     /\ k \notin Platform
     /\ \A q \in Steady : p \in Steady /\ Provides(Declared(q), k) => p = q

\* A pinned pack is at the version it was pinned to.
PinHolds ==
  \A p \in Packs : installation[p].pinned # NoVersion =>
                      installation[p].version = installation[p].pinned

\* A publication that an enabled pack requires keeps its provider and its schema major
\* as long as the pack is there unchanged (the would_break_publication refusal).
RequirementsKept ==
  [][\A p, q \in Steady, k \in Publications :
        /\ p # q
        /\ Provides(Declared(p), k) /\ k \in Declared(q).requires
        /\ installation'[q] = installation[q]
        => /\ installation'[p].enabled
           /\ Content[installation'[p].digest].provides[k] = Declared(p).provides[k]]_vars

=============================================================================

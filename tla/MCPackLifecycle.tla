---------------------------- MODULE MCPackLifecycle ----------------------------
(* Small instances of the pack lifecycle for TLC. *)
EXTENDS PackLifecycle, TLC

CONSTANTS o1, o2, energy, tariff, prices, usage

\* tariff provides prices; its version 2 either does so with another schema major or
\* provides usage as well.  energy provides usage; it requires prices in version 1,
\* which may also come as an entry that claims verified trust, and needs version 1 of
\* tariff in version 2.
Provide(majors) == [k \in Publications |-> IF k \in DOMAIN majors THEN majors[k] ELSE 0]
Needing(p, versions) == p :> versions
NeedingNothing == [p \in {} |-> {}]

Declares ==
  [tariff1 |-> [provides |-> Provide(prices :> 1), requires |-> {},
                needs |-> NeedingNothing, fits |-> TRUE],
   tariff2 |-> [provides |-> Provide(prices :> 2), requires |-> {},
                needs |-> NeedingNothing, fits |-> TRUE],
   tariff2b |-> [provides |-> Provide(prices :> 1 @@ usage :> 1), requires |-> {},
                 needs |-> NeedingNothing, fits |-> TRUE],
   energy1 |-> [provides |-> Provide(usage :> 1), requires |-> {prices},
                needs |-> NeedingNothing, fits |-> TRUE],
   energy2 |-> [provides |-> Provide(usage :> 1), requires |-> {},
                needs |-> Needing(tariff, {1}), fits |-> TRUE],
   verified |-> [provides |-> Provide(usage :> 1), requires |-> {},
                 needs |-> NeedingNothing, fits |-> FALSE]]

\* Source 1 has tariff; source 2, a repository, has energy and perhaps tariff as well.
Manifest(t1, t2, e1, e2) ==
  [p \in Packs |-> [v \in Versions |->
     CASE p = tariff /\ v = 1 -> t1
       [] p = tariff /\ v = 2 -> t2
       [] p = energy /\ v = 1 -> e1
       [] p = energy /\ v = 2 -> e2]]

Shelves ==
  [s \in Sources |->
     CASE s = 1 -> {Manifest("tariff1", t2, NoEntry, NoEntry) : t2 \in {"tariff2", "tariff2b"}}
       [] s = 2 -> {Manifest(NoEntry, NoEntry, "energy1", "energy2"),
                    Manifest(NoEntry, "tariff2b", "verified", NoEntry)}]
=============================================================================

---------------------------- MODULE ActionProposals ----------------------------
(***************************************************************************)
(* The approval-gated action queue: the tables action_proposals and        *)
(* action_proposal_events, the registry that drafts, refreshes, re-raises, *)
(* resolves and reverts proposals, the API requests that resolve one and   *)
(* then release it through Home Assistant, and the dispatcher of each API  *)
(* replica that raises and clears the gate of a policy.                    *)
(*                                                                         *)
(* Every store call is one transaction and one step.  A handler keeps the  *)
(* row it has read and writes that row back, changed, in a later step; the *)
(* other replicas, and during an await the same one, get in between.       *)
(***************************************************************************)
EXTENDS Integers, Sequences, FiniteSets

CONSTANTS Requests,    (* requests that draft, approve or dismiss                 *)
          Replicas,    (* API replicas whose publisher loop runs a dispatcher     *)
          Proposals,   (* action ids                                              *)
          Policies,    (* the action ids that stand for the gate of a policy      *)
          Keys, NoKey, (* idempotency keys, and none                              *)
          Drafters,    (* identities of drafters                                  *)
          Dispatcher,  (* the identity ha_action_dispatcher, and of no drafter    *)
          Values,      (* verdict, value and metadata of a proposal               *)
          Observed,    (* verdict and value alone, what a refresh compares        *)
          Raised,      (* the verdicts that raise a gate                          *)
          Actuating,   (* the values that carry an approval_action                *)
          RequestOps,  (* the kinds of request a run includes                     *)
          MaxOps, MaxCrashes  (* bounds of the model                              *)

ASSUME ConstantsOK ==
  /\ Requests \cap Replicas = {}
  /\ Proposals # {} /\ Policies \subseteq Proposals
  /\ NoKey \notin Keys
  /\ Dispatcher \notin Drafters
  /\ DOMAIN Observed = Values
  /\ Raised \subseteq Values /\ Actuating \subseteq Values
  /\ {"ok", "none"} \cap Values = {}
  /\ MaxOps \in Nat /\ MaxCrashes \in Nat

VARIABLES proposal,  \* action_proposals
          feed,      \* action_proposal_events in the order of feed_position
          at,        \* where each process is in its handler
          call,      \* the arguments and local variables of the handler
          previous,  \* _previous_verdicts of each dispatcher
          ops, crashes \* how much of the bounds has been used

vars == <<proposal, feed, at, call, previous, ops, crashes>>

-----------------------------------------------------------------------------
(* Rows, events and calls *)

Procs == Requests \cup Replicas
Resolved == {"approved", "dismissed"}
Kinds == {"drafted", "refreshed", "reopened", "release_failed"} \cup Resolved

Row == [status: {"absent", "pending"} \cup Resolved, key: Keys \cup {NoKey},
        by: Drafters \cup {Dispatcher}, value: Values \cup {"none"}, ha: BOOLEAN]

Absent == [status |-> "absent", key |-> NoKey, by |-> Dispatcher, value |-> "none",
           ha |-> FALSE]

Event == [id: Proposals, kind: Kinds, actor: Drafters \cup {Dispatcher}]

Call == [op: {"none", "draft", "approve", "dismiss", "raise", "clear"},
         id: Proposals, key: Keys \cup {NoKey}, by: Drafters \cup {Dispatcher},
         value: Values \cup {"ok", "none"}, ha: BOOLEAN, seen: Row, event: Nat]

NoCall == [op |-> "none", id |-> CHOOSE i \in Proposals : TRUE, key |-> NoKey,
           by |-> Dispatcher, value |-> "none", ha |-> FALSE, seen |-> Absent,
           event |-> 0]

At == {"idle", "find", "get", "refresh", "reopen", "reopenLost", "insert", "winner",
       "read", "resolve", "reread", "actuate", "notify", "revert", "undo", "post"}

Releasing == {"reread", "actuate", "notify", "revert", "undo"}

TypeOK ==
  /\ proposal \in [Proposals -> Row]
  /\ feed \in Seq(Event)
  /\ at \in [Procs -> At]
  /\ call \in [Procs -> Call]
  /\ previous \in [Replicas -> [Policies -> Raised \cup {"ok", "none"}]]
  /\ ops \in 0..MaxOps
  /\ crashes \in 0..MaxCrashes

Init ==
  /\ proposal = [i \in Proposals |-> Absent]
  /\ feed = <<>>
  /\ at = [p \in Procs |-> "idle"]
  /\ call = [p \in Procs |-> NoCall]
  /\ previous = [d \in Replicas |-> [i \in Policies |-> "none"]]
  /\ ops = 0
  /\ crashes = 0

Mine(p) == proposal[call[p].id]
Resolution(p) == IF call[p].op = "approve" THEN "approved" ELSE "dismissed"

-----------------------------------------------------------------------------
(* How a handler goes on, and how it ends *)

Goto(p, label) == at' = [at EXCEPT ![p] = label]

\* Going on with the row that has just been read.
GotoWith(p, label, i) ==
  /\ Goto(p, label)
  /\ call' = [call EXCEPT ![p].id = i, ![p].seen = proposal[i]]

Stop(p) ==
  /\ Goto(p, "idle")
  /\ call' = [call EXCEPT ![p] = NoCall]

\* An exception that leaves the handler; a dispatcher then keeps the old verdict.
Fail(p) == Stop(p) /\ UNCHANGED previous

Done(p) ==
  /\ Stop(p)
  /\ previous' = IF p \in Replicas
                 THEN [previous EXCEPT ![p][call[p].id] = call[p].value]
                 ELSE previous

\* update_action_proposal, in one transaction: if the status is still the expected
\* one, the row is overwritten as a whole and the event takes the next position.
Log(p, kind) == Append(feed, [id |-> call[p].id, kind |-> kind, actor |-> call[p].by])

\* Mutant: the status is not compared.
MatchesAny(p, expected) == Mine(p).status # "absent"
Matches(p, expected) == Mine(p).status = expected

Write(p, row, events) ==
  /\ proposal' = [proposal EXCEPT ![call[p].id] = row]
  /\ feed' = events

Tables == <<proposal, feed>>
Bounds == <<ops, crashes>>

-----------------------------------------------------------------------------
(* ActionProposalRegistry.register, for drafts and for re-raised gates *)

\* _replay_idempotent
Replay(p, i) ==
  IF proposal[i].by # call[p].by \/ proposal[i].status # "pending"
  THEN Done(p)
  ELSE GotoWith(p, "refresh", i) /\ UNCHANGED previous

Owning(key) == {i \in Proposals : proposal[i].status # "absent" /\ proposal[i].key = key}

FindByKey(p) ==
  /\ at[p] = "find"
  /\ \/ \E i \in Owning(call[p].key) : Replay(p, i)
     \/ Owning(call[p].key) = {} /\ Goto(p, "get") /\ UNCHANGED <<call, previous>>
  /\ UNCHANGED <<Tables, Bounds>>

GetExisting(p) ==
  /\ at[p] = "get"
  /\ CASE Mine(p).status = "absent" -> Goto(p, "insert") /\ UNCHANGED <<call, previous>>
       [] Mine(p).status # "absent" /\ Mine(p).key # call[p].key -> Fail(p)
       [] Mine(p).status = "pending" /\ Mine(p).key = call[p].key ->
            GotoWith(p, "refresh", call[p].id) /\ UNCHANGED previous
       [] Mine(p).status \in Resolved /\ Mine(p).key = call[p].key ->
            IF call[p].op = "raise"
            THEN GotoWith(p, "reopen", call[p].id) /\ UNCHANGED previous
            ELSE Fail(p)
  /\ UNCHANGED <<Tables, Bounds>>

\* _refresh: new metadata alone are stored without an event.
RefreshedRow(p) == [call[p].seen EXCEPT !.value = call[p].value]

Refresh(p) ==
  /\ at[p] = "refresh"
  /\ IF Matches(p, "pending")
     THEN Write(p, RefreshedRow(p),
                IF Observed[call[p].seen.value] # Observed[call[p].value]
                THEN Log(p, "refreshed") ELSE feed)
     ELSE UNCHANGED Tables
  /\ Done(p)
  /\ UNCHANGED Bounds

DraftedRow(p, key) == [status |-> "pending", key |-> key, by |-> call[p].by,
                       value |-> call[p].value, ha |-> call[p].ha]

Reopen(p) ==
  /\ at[p] = "reopen"
  /\ IF Matches(p, call[p].seen.status)
     THEN Write(p, DraftedRow(p, call[p].seen.key), Log(p, "reopened")) /\ Done(p)
     ELSE Goto(p, "reopenLost") /\ UNCHANGED <<Tables, call, previous>>
  /\ UNCHANGED Bounds

\* Somebody else was faster: fine if the gate is open, otherwise an exception that
\* ends the dispatch.
ReopenLost(p) ==
  /\ at[p] = "reopenLost"
  /\ IF Mine(p).status = "pending" THEN Done(p) ELSE Fail(p)
  /\ UNCHANGED <<Tables, Bounds>>

Insert(p) ==
  /\ at[p] = "insert"
  /\ IF Mine(p).status = "absent" /\ (call[p].key = NoKey \/ Owning(call[p].key) = {})
     THEN Write(p, DraftedRow(p, call[p].key), Log(p, "drafted")) /\ Done(p)
     ELSE /\ IF call[p].key = NoKey THEN Fail(p)
             ELSE Goto(p, "winner") /\ UNCHANGED <<call, previous>>
          /\ UNCHANGED Tables
  /\ UNCHANGED Bounds

\* The draft lost the race of inserts: what its key names is the answer.
InsertLost(p) ==
  /\ at[p] = "winner"
  /\ \/ \E i \in Owning(call[p].key) : Replay(p, i)
     \/ Owning(call[p].key) = {} /\ Fail(p)
  /\ UNCHANGED <<Tables, Bounds>>

Register(p) ==
  \/ FindByKey(p) \/ GetExisting(p) \/ Refresh(p) \/ Reopen(p) \/ ReopenLost(p)
  \/ Insert(p) \/ InsertLost(p)

-----------------------------------------------------------------------------
(* _resolve, for requests and for the dispatcher, then resolve_and_release *)

ReadPending(p) ==
  /\ at[p] = "read"
  /\ IF Mine(p).status = "pending"
     THEN GotoWith(p, "resolve", call[p].id) /\ UNCHANGED previous
     ELSE Done(p)
  /\ UNCHANGED <<Tables, Bounds>>

Resolve(p) ==
  /\ at[p] = "resolve"
  /\ IF Matches(p, "pending")
     THEN /\ Write(p, [call[p].seen EXCEPT !.status = Resolution(p)], Log(p, Resolution(p)))
          /\ IF p \in Replicas THEN Done(p)
             ELSE /\ Goto(p, "reread")
                  /\ call' = [call EXCEPT ![p].event = Len(feed')]
                  /\ UNCHANGED previous
     ELSE UNCHANGED Tables /\ Done(p)
  /\ UNCHANGED Bounds

\* The row that is released is read once more after the resolution.
ReadBack(p) ==
  /\ at[p] = "reread"
  /\ IF ~Mine(p).ha THEN Done(p)
     ELSE /\ GotoWith(p, IF call[p].op = "approve" /\ Mine(p).value \in Actuating
                         THEN "actuate" ELSE "notify", call[p].id)
          /\ UNCHANGED previous
  /\ UNCHANGED <<Tables, Bounds>>

\* The service call of the approval_action, and then the dismissal of the
\* notification: each may fail, or be taken to have failed.
Actuate(p) ==
  /\ at[p] = "actuate"
  /\ \E next \in {"notify", "revert"} : Goto(p, next)
  /\ UNCHANGED <<Tables, call, previous, Bounds>>

DismissNotification(p) ==
  /\ at[p] = "notify"
  /\ \/ Done(p)
     \/ Goto(p, "revert") /\ UNCHANGED <<call, previous>>
  /\ UNCHANGED <<Tables, Bounds>>

\* revert_failed_release
ReadResolved(p) ==
  /\ at[p] = "revert"
  /\ IF Mine(p).status = Resolution(p)
     THEN GotoWith(p, "undo", call[p].id) /\ UNCHANGED previous
     ELSE Done(p)
  /\ UNCHANGED <<Tables, Bounds>>

Revert(p) ==
  /\ at[p] = "undo"
  /\ IF Matches(p, Resolution(p))
     THEN Write(p, [call[p].seen EXCEPT !.status = "pending"], Log(p, "release_failed"))
     ELSE UNCHANGED Tables
  /\ Done(p)
  /\ UNCHANGED Bounds

Release(p) ==
  \/ ReadPending(p) \/ Resolve(p) \/ ReadBack(p) \/ Actuate(p)
  \/ DismissNotification(p) \/ ReadResolved(p) \/ Revert(p)

-----------------------------------------------------------------------------
(* Requests and dispatch cycles begin, and processes die *)

Begin(p, label, args) ==
  /\ at[p] = "idle" /\ ops < MaxOps
  /\ ops' = ops + 1
  /\ Goto(p, label)
  /\ call' = [call EXCEPT ![p] = args]
  /\ UNCHANGED <<Tables, previous, crashes>>

\* POST /api/actions/proposals and /api/ha/actions/proposals
Draft(r) ==
  /\ "draft" \in RequestOps
  /\ \E i \in Proposals, k \in Keys \cup {NoKey}, by \in Drafters, v \in Values, ha \in BOOLEAN :
        Begin(r, IF k = NoKey THEN "get" ELSE "find",
              [NoCall EXCEPT !.op = "draft", !.id = i, !.key = k, !.by = by,
                             !.value = v, !.ha = ha])

\* POST .../{action_id}/approve and .../dismiss, by an operator
Decide(r) ==
  \E i \in Proposals, op \in RequestOps \cap {"approve", "dismiss"}, by \in Drafters :
     /\ proposal[i].status # "absent"
     /\ Begin(r, "read", [NoCall EXCEPT !.op = op, !.id = i, !.by = by])

\* determine_actions: what a policy's new verdict asks for.  A verdict that is
\* unavailable or the previous one asks for nothing and changes nothing.
Evaluate(d) ==
  \E i \in Policies, v \in Raised \cup {"ok"} :
     /\ v # previous[d][i]
     /\ \/ /\ v \in Raised \/ previous[d][i] \in Raised
           /\ Begin(d, "post", [NoCall EXCEPT !.op = IF v = "ok" THEN "clear" ELSE "raise",
                                              !.id = i, !.value = v, !.ha = TRUE])
        \/ /\ v = "ok" /\ previous[d][i] = "none"
           /\ at[d] = "idle"
           /\ previous' = [previous EXCEPT ![d][i] = v]
           /\ UNCHANGED <<Tables, at, call, Bounds>>

\* _execute_action: the notification is created or dismissed in Home Assistant
\* first, and the queue is only told when that has worked.
Post(d) ==
  /\ at[d] = "post"
  /\ \/ Goto(d, IF call[d].op = "raise" THEN "get" ELSE "read") /\ UNCHANGED <<call, previous>>
     \/ Done(d)
  /\ UNCHANGED <<Tables, Bounds>>

\* The process dies in the middle of its handler; a dispatcher forgets the verdicts.
Crash(p) ==
  /\ crashes < MaxCrashes
  /\ at[p] # "idle" \/ p \in Replicas
  /\ Stop(p)
  /\ previous' = IF p \in Replicas
                 THEN [previous EXCEPT ![p] = [i \in Policies |-> "none"]] ELSE previous
  /\ crashes' = crashes + 1
  /\ UNCHANGED <<Tables, ops>>

Next ==
  \/ \E p \in Procs : Register(p) \/ Release(p) \/ Crash(p)
  \/ \E r \in Requests : Draft(r) \/ Decide(r)
  \/ \E d \in Replicas : Evaluate(d) \/ Post(d)

Spec == Init /\ [][Next]_vars

-----------------------------------------------------------------------------
(* Properties *)

StatusAfter(kind) == IF kind \in Resolved THEN kind ELSE "pending"

EventsOf(i) == {n \in DOMAIN feed : feed[n].id = i}
LastEvent(events) == CHOOSE n \in events : \A m \in events : m <= n

\* A reader of the changes feed who follows the statuses of the events knows the
\* status of every proposal, although a handler writes back rows it read long ago.
StatusMatchesFeed ==
  \A i \in Proposals :
     proposal[i].status = IF EventsOf(i) = {} THEN "absent"
                          ELSE StatusAfter(feed[LastEvent(EventsOf(i))].kind)

\* Of several resolvers racing on one proposal only one releases it, as long as no
\* dispatcher re-raises the gate in the meantime (resolve_and_release).
OneReleaser ==
  \A p, q \in Requests :
     /\ p # q
     /\ at[p] \in Releasing /\ at[q] \in Releasing
     /\ call[p].id = call[q].id
     => \E n \in EventsOf(call[p].id) : feed[n].kind = "reopened"

\* A decision stands, and nothing about the proposal changes any more, until the gate
\* is re-raised or the release has failed, and both are recorded: no late refresh,
\* draft or second resolution touches it.
DecisionsStand ==
  [][\A i \in Proposals :
        proposal[i].status \in Resolved /\ proposal'[i] # proposal[i] =>
           /\ Len(feed') = Len(feed) + 1
           /\ feed'[Len(feed')].id = i
           /\ feed'[Len(feed')].kind \in {"reopened", "release_failed"}]_vars

\* The queue as the tables keep it implements the gate of ProposalQueue.
Queue == INSTANCE ProposalQueue
           WITH status <- [i \in Proposals |-> proposal[i].status],
                log <- [n \in DOMAIN feed |-> [id |-> feed[n].id, kind |-> feed[n].kind]]
ImplementsQueue == Queue!Spec

=============================================================================

-------------------------------- MODULE HaBridge --------------------------------
(***************************************************************************)
(* The Home Assistant bridge and the historian it feeds: HaBridgeWorker    *)
(* subscribes to state changes, and after a disconnection replays the gap  *)
(* over REST before it subscribes again; a worker command backfills closed *)
(* windows of history and a route accepts batches of states.               *)
(*                                                                         *)
(* A state is known by the time it was entered, so a fact is a pair of an  *)
(* entity and a time.  The historian keeps duplicates; the model keeps     *)
(* which states it holds.  How long the bridge sleeps (the backoff) only   *)
(* bears on when Wake happens, which is left open.                         *)
(* The specification has the bridge's name in its parts (BridgeInit, ...), *)
(* to be used beside that of the warehouse handle in the same process.     *)
(***************************************************************************)
EXTENDS Integers, Sequences, FiniteSets, FiniteSetsExt, Functions

CONSTANTS Entities,
          GapLimit,   \* _GAP_REPLAY_SECONDS: longer gaps get the current states only
          Chunk,      \* the width of a backfill request
          MaxTime, MaxFaults, MaxDrops, MaxPosts, MaxBackfills  \* bounds of the model

ASSUME BridgeConstantsOK ==
  /\ IsFiniteSet(Entities)
  /\ GapLimit \in Nat /\ Chunk \in Nat \ {0}
  /\ MaxTime \in Nat /\ MaxFaults \in Nat /\ MaxDrops \in Nat
  /\ MaxPosts \in Nat /\ MaxBackfills \in Nat

Never == -1
Times == 0..MaxTime
Facts == Entities \X Times

VARIABLES now,       \* the clock the two programs share
          entered,   \* when each entity entered each of its states, in Home Assistant
          pc,        \* where the loop of _run is
          since,     \* disconnected_at, or Never
          inbox,     \* the changes sent to the subscription and not handled yet
          facts,     \* the rows of fact_ha_state_change
          dim,       \* last_seen of each row of dim_ha_entity, or Never
          window,    \* the cursor and the end of the running backfill
          excused,   \* changes the bridge gave up on, by its own account
          faults, drops, posts, backfills   \* how much of the bounds has been used

world == <<now, entered>>
bridge == <<pc, since, inbox>>
store == <<facts, dim>>
bridgeBounds == <<faults, drops, posts, backfills>>
bridgeVars == <<world, bridge, store, window, excused, bridgeBounds>>

NoWindow == [cursor |-> 0, stop |-> 0]

BridgeInit ==
  /\ now = 0 /\ entered = [e \in Entities |-> {0}]
  /\ pc = "connecting" /\ since = Never /\ inbox = <<>>
  /\ facts = {} /\ dim = [e \in Entities |-> Never]
  /\ window = NoWindow
  /\ excused = {<<e, 0>> : e \in Entities}
  /\ faults = 0 /\ drops = 0 /\ posts = 0 /\ backfills = 0

Connected == pc = "subscribed"

Latest(e) == Max(entered[e])

\* what the entity was at a time, as the history API starts every answer
AsOf(e, t) == Max({c \in entered[e] : c <= t})

\* the answer of /api/history/period/<from> up to a time
History(from, to) ==
  {<<e, AsOf(e, from)>> : e \in Entities}
    \cup {f \in Facts : f[2] \in entered[f[1]] /\ from < f[2] /\ f[2] <= to}

\* the answer of /api/states
CurrentStates == {<<e, Latest(e)>> : e \in Entities}

NewestOf(rows, e) == Max({f[2] : f \in {r \in rows : r[1] = e}})
EntitiesOf(rows) == {f[1] : f \in rows}

-----------------------------------------------------------------------------
(* Home Assistant *)

\* an entity changes; the subscription, if there is one, is told
Change(e) ==
  /\ now < MaxTime
  /\ now' = now + 1
  /\ entered' = [entered EXCEPT ![e] = @ \cup {now'}]
  /\ inbox' = IF Connected THEN Append(inbox, <<e, now'>>) ELSE inbox
  /\ excused' = IF Connected \/ since # Never THEN excused ELSE excused \cup {<<e, now'>>}
  /\ UNCHANGED <<pc, since, store, window, bridgeBounds>>

Tick ==
  /\ now < MaxTime
  /\ now' = now + 1
  /\ UNCHANGED <<entered, bridge, store, window, excused, bridgeBounds>>

-----------------------------------------------------------------------------
(* Ingestion *)

\* ingest_ha_states: every fact is appended, then the entities are updated row
\* by row, the last state of a batch winning.  A batch that fails half-way leaves
\* some of the facts; or all of them and the entities as they were after one of
\* its rows.  Batches have the states of one entity after those of another, oldest
\* first, so that only the entity of that row can be left at an earlier state.
Ingest(rows) ==
  /\ facts' = facts \cup rows
  /\ dim' = [e \in Entities |-> IF e \in EntitiesOf(rows) THEN NewestOf(rows, e) ELSE dim[e]]

IngestPartly(rows) ==
  \/ \E kept \in SUBSET rows : facts' = facts \cup kept /\ UNCHANGED dim
  \/ \E last \in rows : \E done \in SUBSET (EntitiesOf(rows) \ {last[1]}) :
       /\ facts' = facts \cup rows
       /\ dim' = [e \in Entities |-> CASE e = last[1] -> last[2]
                                       [] e \in done -> NewestOf(rows, e)
                                       [] OTHER -> dim[e]]

Fault == faults < MaxFaults /\ faults' = faults + 1

-----------------------------------------------------------------------------
(* The loop of the bridge *)

\* mutant: the task ends with the connection
DisconnectedForGood ==
  /\ since' = IF since = Never THEN now ELSE since
  /\ pc' = "stopped"

\* the loop after a connection that failed or ended: the gap begins now
\* unless one is open already
Disconnected ==
  /\ since' = IF since = Never THEN now ELSE since
  /\ pc' = "sleeping"

Connect ==
  /\ pc = "connecting"
  /\ pc' = "subscribed"
  /\ UNCHANGED <<world, since, inbox, store, window, excused, bridgeBounds>>

ConnectFails ==
  /\ pc = "connecting" /\ Fault
  /\ Disconnected
  /\ UNCHANGED <<world, inbox, store, window, excused, drops, posts, backfills>>

\* mutant: events that were received and not handled survive the connection
DropKeepingQueue ==
  /\ Connected /\ drops < MaxDrops
  /\ drops' = drops + 1
  /\ Disconnected
  /\ UNCHANGED <<world, inbox, excused, store, window, faults, posts, backfills>>

\* the connection breaks: what was sent and not handled goes with it
Drop ==
  /\ Connected /\ drops < MaxDrops
  /\ drops' = drops + 1
  /\ Disconnected
  /\ inbox' = <<>> /\ excused' = excused \cup Range(inbox)
  /\ UNCHANGED <<world, store, window, faults, posts, backfills>>

\* _handle_event
HandleEvent ==
  /\ Connected /\ inbox # <<>>
  /\ inbox' = Tail(inbox)
  /\ Ingest({Head(inbox)})
  /\ UNCHANGED <<world, pc, since, window, excused, bridgeBounds>>

\* an event that cannot be stored is logged and dropped
HandleEventFails ==
  /\ Connected /\ inbox # <<>> /\ Fault
  /\ inbox' = Tail(inbox)
  /\ IngestPartly({Head(inbox)})
  /\ excused' = excused \cup {Head(inbox)}
  /\ UNCHANGED <<world, pc, since, window, drops, posts, backfills>>

Wake ==
  /\ pc = "sleeping"
  /\ pc' = "replaying"
  /\ UNCHANGED <<world, since, inbox, store, window, excused, bridgeBounds>>

GapIsLong == now - since > GapLimit

\* mutant: only the current states are replayed, however short the gap
GapRowsCurrent == CurrentStates

\* what _replay_gap asks Home Assistant for
GapRows == IF GapIsLong THEN CurrentStates ELSE History(since, now)

\* what a resync of the current states may not bring back
Skipped == IF GapIsLong THEN {f \in Facts : f[2] \in entered[f[1]] /\ f[2] >= since} ELSE {}

\* _replay_gap, after which the gap counts as closed
Replay ==
  /\ pc = "replaying"
  /\ pc' = "connecting" /\ since' = Never
  /\ Ingest(GapRows)
  /\ excused' = excused \cup Skipped
  /\ UNCHANGED <<world, inbox, window, bridgeBounds>>

\* a request or an ingest that failed is logged, and the gap counts as closed
\* all the same
ReplayFails ==
  /\ pc = "replaying" /\ Fault
  /\ pc' = "connecting" /\ since' = Never
  /\ IngestPartly(GapRows)
  /\ excused' = excused \cup {f \in Facts : f[2] \in entered[f[1]] /\ f[2] >= since}
  /\ UNCHANGED <<world, inbox, window, drops, posts, backfills>>

\* the API process stops and starts: the new worker knows of no gap
Restart ==
  /\ drops < MaxDrops
  /\ drops' = drops + 1
  /\ pc' = "connecting" /\ since' = Never /\ inbox' = <<>>
  /\ excused' = excused \cup Range(inbox)
       \cup (IF since = Never THEN {}
             ELSE {f \in Facts : f[2] \in entered[f[1]] /\ f[2] >= since})
  /\ UNCHANGED <<world, store, window, faults, posts, backfills>>

-----------------------------------------------------------------------------
(* The other writers *)

\* POST /api/ha/ingest: a client sends the states it read some time ago
PostStates(t) ==
  /\ posts < MaxPosts
  /\ posts' = posts + 1
  /\ Ingest({<<e, AsOf(e, t)>> : e \in Entities})
  /\ UNCHANGED <<world, bridge, window, excused, faults, drops, backfills>>

BackfillRunning == window.cursor < window.stop

StartBackfill(start, stop) ==
  /\ ~BackfillRunning /\ start < stop
  /\ backfills < MaxBackfills
  /\ backfills' = backfills + 1
  /\ window' = [cursor |-> start, stop |-> stop]
  /\ UNCHANGED <<world, bridge, store, excused, faults, drops, posts>>

Upper == Min({window.cursor + Chunk, window.stop})

\* ingest_ha_history_states: states already held are left out, and only an
\* entity the table does not have gets a row
IngestHistory(rows) ==
  LET new == rows \ facts IN
    /\ facts' = facts \cup new
    /\ dim' = [e \in Entities |-> IF e \in EntitiesOf(new) /\ dim[e] = Never
                                    THEN NewestOf(new, e) ELSE dim[e]]

BackfillChunk ==
  /\ BackfillRunning
  /\ IngestHistory(History(window.cursor, Upper))
  /\ window' = [window EXCEPT !.cursor = Upper]
  /\ UNCHANGED <<world, bridge, excused, bridgeBounds>>

\* a chunk Home Assistant does not answer is reported and left out
BackfillChunkFails ==
  /\ BackfillRunning /\ Fault
  /\ window' = [window EXCEPT !.cursor = Upper]
  /\ UNCHANGED <<world, bridge, store, excused, drops, posts, backfills>>

-----------------------------------------------------------------------------
Run ==
  \/ Connect \/ ConnectFails
  \/ HandleEvent \/ HandleEventFails
  \/ Wake \/ Replay \/ ReplayFails

BridgeNext ==
  \/ \E e \in Entities : Change(e)
  \/ Tick
  \/ Run \/ Drop \/ Restart
  \/ \E t \in 0..now : PostStates(t)
  \/ \E start, stop \in 0..now : StartBackfill(start, stop)
  \/ BackfillChunk \/ BackfillChunkFails

BridgeSpec == BridgeInit /\ [][BridgeNext]_bridgeVars

\* the event loop keeps running the bridge's task
FairBridgeSpec == BridgeSpec /\ WF_bridgeVars(Run)

-----------------------------------------------------------------------------
(* Properties *)

\* Every change of an entity is in the historian, on its way there, due in the
\* replay of the open gap, or one the bridge gave up on: it was sent to a
\* connection that broke, it fell between a replay and the next subscription
\* or before the first one, storing it failed, or the gap was long.
EveryChangeAccounted ==
  \A e \in Entities : \A c \in entered[e] :
    \/ <<e, c>> \in facts \cup excused \cup Range(inbox)
    \/ since # Never /\ c >= since

\* The bridge never moves the current state of an entity back: its replays and
\* resyncs read Home Assistant after the connection is lost and before the next
\* one, so that nothing older is still to come.  (A client that posts states, or
\* a backfill that meets an entity nobody has seen, can be ahead of the events
\* on their way, which then step back.)
CurrentNeverRegresses ==
  [][ (posts' = 0 /\ backfills' = 0) => \A e \in Entities : dim'[e] >= dim[e] ]_bridgeVars

\* A bridge that has lost Home Assistant, or not found it yet, subscribes (again).
Reconnects == ~Connected ~> Connected

=============================================================================

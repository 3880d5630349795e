---------------------------- MODULE WarehouseSession ----------------------------
(***************************************************************************)
(* The warehouse handle of an API process: WarehouseSessionManager opens   *)
(* the DuckDB file read-only for reads, read-write for writes, shares the  *)
(* handle between the leases in flight and closes it when it is idle.      *)
(*                                                                         *)
(* What a method does while it holds the condition variable's lock is one  *)
(* step, except that opening the file, which other processes lock too, is  *)
(* several; the opening thread keeps the lock all the while.               *)
(***************************************************************************)
EXTENDS Integers, Sequences, FiniteSets

CONSTANTS Threads,
          Nobody,      (* no thread is opening the file                        *)
          MaxDepth,    (* how deep leases nest on one thread                   *)
          IdleTimeout, (* idle_timeout_seconds > 0                             *)
          MaxLeases, MaxRequests, MaxForeign  (* bounds of the model           *)

Modes == {"read_only", "read_write"}

ASSUME ConstantsOK ==
  /\ Nobody \notin Threads /\ IsFiniteSet(Threads)
  /\ MaxDepth \in Nat /\ MaxLeases \in Nat /\ MaxRequests \in Nat /\ MaxForeign \in Nat
  /\ IdleTimeout \in BOOLEAN

VARIABLES handle,      \* _mode of the open handle, or "none"
          inflight,    \* _inflight
          active,      \* _active_requests
          closeWhenDrained,  \* _close_when_drained
          schemaReady, \* _schema_ready
          opener,      \* the thread that is opening the file under the lock
          held,        \* the modes of the leases each thread holds, outermost first
          want,        \* what a thread in lease() or close() is after, or "none"
          waits,       \* whether it sleeps on the condition variable
          inRequest,   \* the threads that serve a request
          foreign,     \* the lock another process has on the file, or "none"
          leases, requests, toggles  \* how much of the bounds has been used

manager == <<handle, inflight, active, closeWhenDrained, schemaReady, opener>>
threads == <<held, want, waits, inRequest>>
bounds == <<leases, requests, toggles>>
vars == <<manager, threads, foreign, bounds>>

TypeOK ==
  /\ handle \in Modes \cup {"none"}
  /\ inflight \in Nat /\ active \in Nat
  /\ closeWhenDrained \in BOOLEAN /\ schemaReady \in BOOLEAN
  /\ opener \in Threads \cup {Nobody}
  /\ held \in [Threads -> Seq(Modes)]
  /\ want \in [Threads -> Modes \cup {"none", "close"}]
  /\ waits \in [Threads -> BOOLEAN]
  /\ inRequest \subseteq Threads
  /\ foreign \in Modes \cup {"none"}
  /\ leases \in 0..MaxLeases /\ requests \in 0..MaxRequests /\ toggles \in 0..MaxForeign

Init ==
  /\ handle = "none" /\ inflight = 0 /\ active = 0
  /\ closeWhenDrained = FALSE /\ schemaReady = FALSE
  /\ opener = Nobody
  /\ held = [t \in Threads |-> <<>>]
  /\ want = [t \in Threads |-> "none"]
  /\ waits = [t \in Threads |-> FALSE]
  /\ inRequest = {}
  /\ foreign = "none"
  /\ leases = 0 /\ requests = 0 /\ toggles = 0

Unlocked == opener = Nobody

-----------------------------------------------------------------------------
(* Requests *)

\* begin_request
BeginRequest(t) ==
  /\ Unlocked /\ want[t] = "none" /\ held[t] = <<>> /\ t \notin inRequest
  /\ requests < MaxRequests
  /\ requests' = requests + 1
  /\ active' = active + 1
  /\ inRequest' = inRequest \cup {t}
  /\ UNCHANGED <<handle, inflight, closeWhenDrained, schemaReady, opener, held, want, waits,
                 foreign, leases, toggles>>

\* end_request: the last one closes the handle, or leaves that to a background
\* lease that is still running.
AfterRequest ==
  \/ active' > 0 /\ UNCHANGED <<handle, closeWhenDrained>>
  \/ active' = 0 /\ inflight > 0 /\ closeWhenDrained' = TRUE /\ UNCHANGED handle
  \/ active' = 0 /\ inflight = 0 /\ handle' = "none" /\ UNCHANGED closeWhenDrained

EndRequest(t) ==
  /\ Unlocked /\ want[t] = "none" /\ held[t] = <<>> /\ t \in inRequest
  /\ active' = active - 1
  /\ AfterRequest
  /\ inRequest' = inRequest \ {t}
  /\ UNCHANGED <<inflight, schemaReady, opener, held, want, waits, foreign, bounds>>

-----------------------------------------------------------------------------
(* Leases *)

\* The open handle serves a lease of this mode.
\* Mutant: any open handle does.
AnyHandle(mode) == handle # "none"
Serves(mode) == handle = "read_write" \/ (handle = "read_only" /\ mode = "read_only")

\* A thread gets a lease of the open handle.
Lease(t, mode) ==
  /\ inflight' = inflight + 1
  /\ held' = [held EXCEPT ![t] = Append(@, mode)]
  /\ want' = [want EXCEPT ![t] = "none"]
  /\ waits' = [waits EXCEPT ![t] = FALSE]

\* A thread that already holds a lease must not wait for the leases to drain.
\* Mutant: it may.
NeverNested(t) == FALSE
Nested(t) == held[t] # <<>>

\* One round of the loop in lease(): take the handle, or open one when none is in
\* use, or refuse, or sleep.
TryLease(t, mode) ==
  \/ /\ Serves(mode)
     /\ Lease(t, mode)
     /\ UNCHANGED <<handle, opener>>
  \/ /\ ~Serves(mode) /\ inflight = 0
     /\ handle' = "none"
     /\ opener' = t
     /\ want' = [want EXCEPT ![t] = mode]
     /\ waits' = [waits EXCEPT ![t] = FALSE]
     /\ UNCHANGED <<inflight, held>>
  \/ /\ ~Serves(mode) /\ inflight > 0 /\ Nested(t)
     /\ UNCHANGED <<handle, opener, inflight, held, want, waits>>
  \/ /\ ~Serves(mode) /\ inflight > 0 /\ ~Nested(t)
     /\ want' = [want EXCEPT ![t] = mode]
     /\ waits' = [waits EXCEPT ![t] = TRUE]
     /\ UNCHANGED <<handle, opener, inflight, held>>

Acquire(t) ==
  /\ Unlocked /\ want[t] = "none" /\ Len(held[t]) < MaxDepth
  /\ leases < MaxLeases
  /\ leases' = leases + 1
  /\ \E mode \in Modes : TryLease(t, mode)
  /\ UNCHANGED <<active, closeWhenDrained, schemaReady, inRequest, foreign, requests, toggles>>

\* A notified thread goes round the loop again.
Retry(t) ==
  /\ Unlocked /\ want[t] \in Modes /\ ~waits[t]
  /\ TryLease(t, want[t])
  /\ UNCHANGED <<active, closeWhenDrained, schemaReady, inRequest, foreign, bounds>>

\* Another process's lock is in the way of opening the file.
Busy(mode) == foreign = "read_write" \/ (foreign = "read_only" /\ mode = "read_write")

\* _bootstrap_schema: a short read-write open, given up when the file is locked.
BootstrapSchema(t) ==
  /\ opener = t /\ ~schemaReady /\ ~Busy("read_write")
  /\ schemaReady' = TRUE
  /\ UNCHANGED <<handle, inflight, active, closeWhenDrained, opener, threads, foreign, bounds>>

Open(t) ==
  /\ opener = t /\ (schemaReady \/ Busy("read_write")) /\ ~Busy(want[t])
  /\ handle' = want[t]
  /\ Lease(t, want[t])
  /\ opener' = Nobody
  /\ UNCHANGED <<active, closeWhenDrained, schemaReady, inRequest, foreign, bounds>>

\* WarehouseBusyError, after the retries
OpenFails(t) ==
  /\ opener = t /\ Busy(want[t])
  /\ want' = [want EXCEPT ![t] = "none"]
  /\ opener' = Nobody
  /\ UNCHANGED <<handle, inflight, active, closeWhenDrained, schemaReady, held, waits,
                 inRequest, foreign, bounds>>

\* Mutant: nobody is woken.
WakeNobody == UNCHANGED waits
WakeAll == waits' = [t \in Threads |-> FALSE]

\* The end of a lease
Release(t) ==
  /\ Unlocked /\ want[t] = "none" /\ held[t] # <<>>
  /\ inflight' = inflight - 1
  /\ held' = [held EXCEPT ![t] = SubSeq(@, 1, Len(@) - 1)]
  /\ IF inflight' = 0 /\ active = 0 /\ (closeWhenDrained \/ ~IdleTimeout)
     THEN closeWhenDrained' = FALSE /\ handle' = "none"
     ELSE UNCHANGED <<closeWhenDrained, handle>>
  /\ WakeAll
  /\ UNCHANGED <<active, schemaReady, opener, want, inRequest, foreign, bounds>>

-----------------------------------------------------------------------------
(* Closing *)

\* close(): waits for the leases in flight
Close(t) ==
  /\ Unlocked /\ want[t] = "none" /\ held[t] = <<>> /\ t \notin inRequest
  /\ leases < MaxLeases
  /\ leases' = leases + 1
  /\ IF inflight = 0 THEN handle' = "none" /\ UNCHANGED <<want, waits>>
     ELSE /\ want' = [want EXCEPT ![t] = "close"]
          /\ waits' = [waits EXCEPT ![t] = TRUE]
          /\ UNCHANGED handle
  /\ UNCHANGED <<inflight, active, closeWhenDrained, schemaReady, opener, held, inRequest,
                 foreign, requests, toggles>>

RetryClose(t) ==
  /\ Unlocked /\ want[t] = "close" /\ ~waits[t]
  /\ IF inflight = 0 THEN handle' = "none" /\ want' = [want EXCEPT ![t] = "none"] /\ UNCHANGED waits
     ELSE waits' = [waits EXCEPT ![t] = TRUE] /\ UNCHANGED <<handle, want>>
  /\ UNCHANGED <<inflight, active, closeWhenDrained, schemaReady, opener, held, inRequest,
                 foreign, bounds>>

\* close_if_idle, from the reaper thread: the timeout may have run out whenever the
\* handle is not in use.
\* Mutant: it closes a handle in use.
InUse == handle # "none"
Unused == handle # "none" /\ inflight = 0

Reap ==
  /\ IdleTimeout /\ Unlocked /\ Unused
  /\ handle' = "none"
  /\ UNCHANGED <<inflight, active, closeWhenDrained, schemaReady, opener, threads, foreign, bounds>>

-----------------------------------------------------------------------------
(* Other processes: the worker's promotions and backups *)

ForeignLock ==
  /\ foreign = "none" /\ toggles < MaxForeign
  /\ toggles' = toggles + 1
  /\ \E mode \in Modes :
        /\ handle = "none" \/ (handle = "read_only" /\ mode = "read_only")
        /\ foreign' = mode
  /\ UNCHANGED <<manager, threads, leases, requests>>

ForeignUnlock ==
  /\ foreign # "none"
  /\ foreign' = "none"
  /\ UNCHANGED <<manager, threads, bounds>>

Step(t) ==
  \/ EndRequest(t) \/ Retry(t) \/ BootstrapSchema(t) \/ Open(t) \/ OpenFails(t)
  \/ Release(t) \/ RetryClose(t)

Next ==
  \/ \E t \in Threads : BeginRequest(t) \/ Acquire(t) \/ Close(t) \/ Step(t)
  \/ Reap \/ ForeignLock \/ ForeignUnlock

Spec == Init /\ [][Next]_vars

\* A thread that has begun something goes on with it: leases and requests end, a
\* notified thread runs.  Nothing is assumed of the reaper or of other processes.
FairSpec == Spec /\ \A t \in Threads : WF_vars(Step(t))

-----------------------------------------------------------------------------
(* Properties *)

Leases(t) == Len(held[t])

\* A lease in flight has an open handle to work on, and one it may write through if
\* it is for writing: whoever closes, drains, reaps or reopens leaves the handle
\* alone until then.
LeasesFitHandle ==
  \A t \in Threads, n \in 1..MaxDepth : n <= Leases(t) =>
     handle = "read_write" \/ (handle = "read_only" /\ held[t][n] = "read_only")

\* The handle a lease has been given stays the same to its end: no reader sees the
\* file closed, or opened in another mode, under its hands.
HandleStaysUnderLease ==
  [][(\E t \in Threads : held[t] # <<>> /\ held'[t] # <<>>) => handle' = handle]_vars

\* Nobody sleeps when no lease is left whose end would wake him.
NoLostWakeup ==
  \A t \in Threads : waits[t] => \E u \in Threads \ {t} : held[u] # <<>>

\* Whoever waits for the handle gets on: no two leases wait for each other's end,
\* nor one thread for its own.
WaiterGetsOn ==
  \A t \in Threads : waits[t] ~> want[t] = "none"
=============================================================================

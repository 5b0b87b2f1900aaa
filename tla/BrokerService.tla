---------------------------- MODULE BrokerService ----------------------------
(***************************************************************************)
(* The threads of the broker's process: request handlers limited by a      *)
(* semaphore, the worker and its wake event, and the way they stop.  What  *)
(* handlers and worker do with the store is in JobQueue and Publication;   *)
(* here a handler may queue a job and notify, and the worker takes it.     *)
(***************************************************************************)
EXTENDS Naturals, FiniteSets

CONSTANTS
  Conns,        \* connections
  MaxHandlers,  \* service.maxRequestHandlers
  MaxFaults     \* bound: store errors and threads that cannot be started

VARIABLES
  slots,        \* free permits of _handler_slots
  handlers,       \* _active_handlers
  conn,         \* what became of each connection
  accepting,    \* the connection the accept loop is working on, or none
  queued,       \* jobs committed as queued and not claimed
  told,         \* connections whose handler has called notify
  wake, stop,   \* BrokerWorker.wake, BrokerWorker.stop
  worker,       \* the worker thread: where it stands
  blind,        \* its last look at the store failed
  server,       \* "on", "closing" (serve_forever has returned), "off"
  open,         \* the store is open
  faults

\* No connection has the name of no connection, and permits are counted.
NoConn == "none"
ServiceAssumption == NoConn \notin Conns /\ MaxHandlers \in Nat

pool == <<slots, handlers, accepting>>
work == <<queued, told>>
loop == <<worker, blind>>
vars == <<slots, handlers, conn, accepting, queued, told, wake, stop, worker, blind,
          server, open, faults>>

Init ==
  /\ slots = MaxHandlers /\ handlers = 0
  /\ conn = [c \in Conns |-> "new"] /\ accepting = NoConn
  /\ queued = {} /\ told = {}
  /\ wake = FALSE /\ stop = FALSE
  /\ worker = "scan" /\ blind = FALSE
  /\ server = "on" /\ open = TRUE
  /\ faults = 0

Become(c, s) == conn' = [conn EXCEPT ![c] = s]

-----------------------------------------------------------------------------
(* The accept loop: one connection at a time *)

\* No permit is free: 503 at once.
Turn(c) ==
  /\ server = "on" /\ accepting = NoConn /\ conn[c] = "new" /\ slots = 0
  /\ Become(c, "refused")
  /\ UNCHANGED <<pool, work, wake, stop, loop, server, open, faults>>

Acquire(c) ==
  /\ server = "on" /\ accepting = NoConn /\ conn[c] = "new" /\ slots > 0
  /\ slots' = slots - 1 /\ handlers' = handlers + 1
  /\ accepting' = c
  /\ UNCHANGED <<conn, work, wake, stop, loop, server, open, faults>>

\* The handler's thread is started.
Spawn(c) ==
  /\ accepting = c /\ accepting' = NoConn
  /\ Become(c, "running")
  /\ UNCHANGED <<slots, handlers, work, wake, stop, loop, server, open, faults>>

\* Mutant: a thread that cannot be started keeps its permit.
SpawnFailsKeeps(c) ==
  /\ accepting = c /\ accepting' = NoConn
  /\ faults < MaxFaults /\ faults' = faults + 1
  /\ Become(c, "dropped")
  /\ UNCHANGED <<slots, handlers, work, wake, stop, loop, server, open>>

\* It cannot be started: permit and count are given back before the error goes on.
SpawnFails(c) ==
  /\ accepting = c /\ accepting' = NoConn
  /\ faults < MaxFaults /\ faults' = faults + 1
  /\ handlers' = handlers - 1 /\ slots' = slots + 1
  /\ Become(c, "dropped")
  /\ UNCHANGED <<work, wake, stop, loop, server, open>>

-----------------------------------------------------------------------------
(* Handlers *)

\* The request is committed to the store as a queued job.
Commit(c) ==
  /\ conn[c] = "running" /\ c \notin queued \cup told /\ open
  /\ queued' = queued \cup {c} /\ Become(c, "queued")
  /\ UNCHANGED <<pool, told, wake, stop, loop, server, open, faults>>

Notify(c) ==
  /\ conn[c] = "queued"
  /\ wake' = TRUE /\ told' = told \cup {c} /\ Become(c, "answered")
  /\ UNCHANGED <<pool, queued, stop, loop, server, open, faults>>

\* The handler ends, normally or by any exception: count, then permit.
Finish(c) ==
  /\ conn[c] \in {"running", "queued", "answered"}
  /\ handlers' = handlers - 1 /\ Become(c, "leaving")
  /\ UNCHANGED <<slots, accepting, work, wake, stop, loop, server, open, faults>>

Release(c) ==
  /\ conn[c] = "leaving"
  /\ slots' = slots + 1 /\ Become(c, "done")
  /\ UNCHANGED <<handlers, accepting, work, wake, stop, loop, server, open, faults>>

-----------------------------------------------------------------------------
(* The worker's loop *)

\* One round of recovery and claim, or its failure.
Scan ==
  /\ worker = "scan" /\ ~stop
  /\ \/ /\ blind' = FALSE
        /\ IF queued = {}
           THEN worker' = "idle" /\ UNCHANGED queued
           ELSE worker' = "scan" /\ \E j \in queued : queued' = queued \ {j}
        /\ UNCHANGED faults
     \/ /\ faults < MaxFaults /\ faults' = faults + 1
        /\ blind' = TRUE /\ worker' = "idle" /\ UNCHANGED queued
  /\ UNCHANGED <<pool, conn, told, wake, stop, server, open>>

\* Mutant: the event is cleared on the way to the wait instead of after it.
SleepClears ==
  /\ worker = "idle" /\ worker' = "wait" /\ wake' = FALSE
  /\ UNCHANGED <<pool, conn, work, stop, blind, server, open, faults>>

\* Nothing to do: _wait is entered.
Sleep ==
  /\ worker = "idle" /\ worker' = "wait"
  /\ UNCHANGED <<pool, conn, work, wake, stop, blind, server, open, faults>>

\* The event is set, or the timeout passes: wait returns.
Wait ==
  /\ worker = "wait" /\ worker' = "woken"
  /\ UNCHANGED <<pool, conn, work, wake, stop, blind, server, open, faults>>

\* The event is cleared, and a round follows.
Clear ==
  /\ worker = "woken" /\ worker' = "scan"
  /\ wake' = FALSE
  /\ UNCHANGED <<pool, conn, work, stop, blind, server, open, faults>>

\* The loop's condition.
Leave ==
  /\ worker = "scan" /\ stop /\ worker' = "gone"
  /\ UNCHANGED <<pool, conn, work, wake, stop, blind, server, open, faults>>

-----------------------------------------------------------------------------
(* serve: a signal ends serve_forever; the worker is stopped and joined, then *)
(* the store is closed, whatever handlers still run as daemon threads *)

Shutdown ==
  /\ server = "on" /\ accepting = NoConn /\ server' = "closing"
  /\ UNCHANGED <<pool, conn, work, wake, stop, loop, open, faults>>

\* BrokerWorker.close.
StopWorker ==
  /\ server = "closing" /\ ~stop
  /\ stop' = TRUE /\ wake' = TRUE
  /\ UNCHANGED <<pool, conn, work, loop, server, open, faults>>

\* Mutant: the worker is not joined.
CloseStoreEarly ==
  /\ server = "closing" /\ stop
  /\ server' = "off" /\ open' = FALSE
  /\ UNCHANGED <<pool, conn, work, wake, stop, loop, faults>>

CloseStore ==
  /\ server = "closing" /\ stop /\ worker = "gone"
  /\ server' = "off" /\ open' = FALSE
  /\ UNCHANGED <<pool, conn, work, wake, stop, loop, faults>>

Next ==
  \/ Scan \/ Sleep \/ Wait \/ Clear \/ Leave \/ Shutdown \/ StopWorker \/ CloseStore
  \/ \E c \in Conns : \/ Turn(c) \/ Acquire(c) \/ Spawn(c) \/ SpawnFails(c)
                      \/ Commit(c) \/ Notify(c) \/ Finish(c) \/ Release(c)

Spec == Init /\ [][Next]_vars

-----------------------------------------------------------------------------
\* The connections that hold a permit, and those that are about to give it back.
Busy == {"running", "queued", "answered"}
Held == {c \in Conns : conn[c] \in Busy \/ accepting = c}
Leaving == {c \in Conns : conn[c] = "leaving"}

\* Every permit is either free or held by exactly one connection that is being
\* accepted, handled or about to leave: no error path keeps or doubles one, so the
\* server never ends up refusing everybody; the count trails it by the leaving.
SlotsBalance ==
  /\ slots + Cardinality(Held) + Cardinality(Leaving) = MaxHandlers
  /\ handlers = Cardinality(Held)

\* A worker asleep on a clear event has looked at the store after every job its
\* handler has announced, unless that look failed: no notification is lost between
\* the return of wait and clear.
WakeIsNotLost ==
  worker = "wait" /\ ~wake /\ ~blind => queued \cap told = {}

\* The worker never meets a closed store; only handler threads may.
StoreOutlivesWorker == worker # "gone" => open

\* The process keeps serving until it is told to stop: it keeps its permits, its
\* notifications and its store.
ServerKeepsServing == SlotsBalance /\ WakeIsNotLost /\ StoreOutlivesWorker
=============================================================================

--------------------------- MODULE JanitorLifecycle ---------------------------
(***************************************************************************)
(* Start and stop of the in-memory store's janitor (inmemory.go).          *)
(*                                                                         *)
(* NewInMemoryStore with cleanupInterval > 0 calls runJanitor, which       *)
(* starts the goroutine j.Run(c), and sets stopJanitor as the finalizer of *)
(* the returned *InMemoryStore.  j.Run assigns j.stop = make(chan bool)    *)
(* inside the new goroutine, then loops on select { <-tick:               *)
(* DeleteExpired; <-j.stop: return }.  When the store becomes unreachable *)
(* the runtime's single finalizer goroutine calls stopJanitor, which sends *)
(* true on c.janitor.stop.                                                 *)
(*                                                                         *)
(* Nothing orders the goroutine's write of j.stop before the finalizer's  *)
(* read of it: the store can become unreachable, and be collected, before *)
(* the new goroutine has run.  The collection cycle that queues the        *)
(* finalizer stops the world, so the read sees a write made before it.    *)
(* A send on a nil channel blocks forever.  What                           *)
(* DeleteExpired does to the entries is the janitor of InMemoryStore.      *)
(***************************************************************************)
EXTENDS Naturals

CONSTANTS
    CleanupInterval  \* > 0: NewInMemoryStore starts a janitor

VARIABLES
    janitor,   \* "none", "starting" (go j.Run not yet run), "select",
               \* "deleting" (in DeleteExpired), "returned"
    stopChan,  \* j.stop: "nil" until j.Run makes the channel
    store,     \* the returned *InMemoryStore: "reachable", "unreachable",
               \* "finalizing" (stopJanitor blocked in its send), "finalized"
    sendOn     \* the value of c.janitor.stop stopJanitor sends on

vars == <<janitor, stopChan, store, sendOn>>

TypeOK ==
    /\ janitor \in {"none", "starting", "select", "deleting", "returned"}
    /\ stopChan \in {"nil", "chan"}
    /\ store \in {"reachable", "unreachable", "finalizing", "finalized"}
    /\ sendOn \in {"nil", "chan"}

(* NewInMemoryStore: runJanitor and runtime.SetFinalizer only when         *)
(* cleanupInterval > 0.                                                    *)
Init ==
    /\ janitor = IF CleanupInterval > 0 THEN "starting" ELSE "none"
    /\ stopChan = "nil"
    /\ store = "reachable"
    /\ sendOn = "nil"

(* j.Run: j.stop = make(chan bool); tick := time.Tick(j.Interval).         *)
RunStart ==
    /\ janitor = "starting"
    /\ janitor' = "select"
    /\ stopChan' = "chan"
    /\ UNCHANGED <<store, sendOn>>

(* case <-tick: c.DeleteExpired(), then back to the select.               *)
TickCase ==
    /\ janitor = "select"
    /\ janitor' = "deleting"
    /\ UNCHANGED <<stopChan, store, sendOn>>

DeleteExpiredDone ==
    /\ janitor = "deleting"
    /\ janitor' = "select"
    /\ UNCHANGED <<stopChan, store, sendOn>>

(* The caller drops its last reference to the store.                       *)
Drop ==
    /\ store = "reachable"
    /\ store' = "unreachable"
    /\ UNCHANGED <<janitor, stopChan, sendOn>>

(* The collector finds the store unreachable.  With a finalizer set, the  *)
(* finalizer goroutine runs stopJanitor: it reads c.janitor.stop, nil if   *)
(* j.Run has not run yet, and blocks sending on it.                        *)
Collect ==
    /\ store = "unreachable"
    /\ IF janitor = "none"
       THEN store' = "finalized" /\ UNCHANGED sendOn
       ELSE /\ store' = "finalizing"
            /\ sendOn' = stopChan
    /\ UNCHANGED <<janitor, stopChan>>

(* case <-j.stop: the send completes and j.Run returns.                    *)
StopCase ==
    /\ store = "finalizing" /\ sendOn = "chan" /\ janitor = "select"
    /\ janitor' = "returned"
    /\ store' = "finalized"
    /\ UNCHANGED <<stopChan, sendOn>>

Next ==
    \/ RunStart \/ TickCase \/ DeleteExpiredDone \/ StopCase
    \/ Drop \/ Collect

(* Goroutines that can run are scheduled, the ticker keeps firing and the *)
(* collector eventually finalizes an unreachable object; the caller may   *)
(* keep the store for ever.  select picks uniformly among its ready cases, *)
(* so a pending send on j.stop, ready at every select, is eventually       *)
(* received (strong fairness).                                             *)
Spec == Init /\ [][Next]_vars
        /\ WF_vars(RunStart) /\ WF_vars(TickCase) /\ WF_vars(DeleteExpiredDone)
        /\ SF_vars(StopCase) /\ WF_vars(Collect)

(* Once the store is unreachable its finalizer returns and the janitor     *)
(* goroutine ends: the finalizer goroutine, which runs every finalizer of *)
(* the program one after another, is never blocked for good, and the      *)
(* janitor does not leak.                                                  *)
FinalizerReturns == (store = "unreachable") ~> (store = "finalized" /\ janitor # "select")
====

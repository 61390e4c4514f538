--------------------------- MODULE CacheStoreSpec ---------------------------
(***************************************************************************)
(* What a CacheStore promises its callers (spec 6, spec 7, spec 8), as an  *)
(* abstract specification: every operation takes effect atomically, an     *)
(* expired entry is a miss to every operation, and counters are uint64     *)
(* values that Increment wraps and Decrement floors at 0.  The store holds *)
(* only the entries a caller can see; time passing drops expired ones.     *)
(* A write may evict one other entry (a bounded store).  Which value a     *)
(* write stores is left open: GenericCache.tla checks values and expiry    *)
(* deadlines; this specification is about when operations succeed.        *)
(* A caller may have invoked an operation that has not taken effect yet   *)
(* (pending); its effect is then one atomic step, judged against the      *)
(* store at that step.                                                    *)
(***************************************************************************)
EXTENDS Integers

CONSTANTS Clients, Keys, NoEntry, Ns, W

VARIABLES now, store, ret, pending

Ops == {"get", "set", "add", "replace", "update", "delete", "incr", "decr", "flush"}
Idle == [op |-> "none", key |-> NoEntry]

Mod  == 2^W
Half == 2^(W-1)
AsInt(u) == IF u < Half THEN u ELSE u - Mod
AsUint(i) == i % Mod

Gone(e, t) == e # NoEntry /\ e.expiresAt # 0 /\ e.expiresAt <= t

(* The entries still visible at time t.                                    *)
Visible(s, t) == [k \in Keys |-> IF Gone(s[k], t) THEN NoEntry ELSE s[k]]

Init ==
    /\ now = 1
    /\ store = [k \in Keys |-> NoEntry]
    /\ ret = [c \in Clients |-> "none"]
    /\ pending = [c \in Clients |-> Idle]

Returns(c, code) == ret' = [ret EXCEPT ![c] = code]

(* The store keeps every entry other than k, except at most one evicted.   *)
OthersKept(k) ==
    \E j \in Keys : \A i \in Keys \ {k} : store'[i] = store[i] \/ (i = j /\ store'[i] = NoEntry)

Write(c, k) == OthersKept(k) /\ Returns(c, "ok")
NotStored(c) == UNCHANGED store /\ Returns(c, "notStored")
Miss(c) == UNCHANGED store /\ Returns(c, "miss")

Get(c, k) ==
    /\ UNCHANGED store
    /\ ret'[c] \in IF store[k] = NoEntry THEN {"miss"} ELSE {"hit", "panic", "notSupported"}
    /\ \A o \in Clients \ {c} : ret'[o] = ret[o]

Set(c, k) == Write(c, k)

Add(c, k) ==
    \/ store[k] = NoEntry /\ Write(c, k)
    \/ store[k] # NoEntry /\ NotStored(c)

(* Replace and Update write only over a visible entry.                     *)
Replace(c, k) ==
    \/ store[k] # NoEntry /\ Write(c, k)
    \/ store[k] = NoEntry /\ NotStored(c)

Delete(c, k) ==
    \/ store[k] # NoEntry /\ store' = [store EXCEPT ![k] = NoEntry] /\ Returns(c, "ok")
    \/ store[k] = NoEntry /\ Miss(c)

IncrementBy(d, n) == AsInt((AsUint(d) + n) % Mod)
DecrementBy(d, n) == AsInt(IF n > AsUint(d) THEN 0 ELSE AsUint(d) - n)

Counter(c, k, op) ==
    \/ store[k] = NoEntry /\ Miss(c)
    \/ store[k] # NoEntry /\ store[k].data.t # "int"
       /\ UNCHANGED store /\ Returns(c, "notSupported")
    \/ store[k] # NoEntry /\ store[k].data.t = "int"
       /\ \E n \in Ns :
             store' = [store EXCEPT ![k].data.v =
                          IF op = "incr" THEN IncrementBy(@, n) ELSE DecrementBy(@, n)]
       /\ Returns(c, "ok")

Flush(c) ==
    /\ store' = [k \in Keys |-> NoEntry]
    /\ Returns(c, "ok")

(* The effect of operation op on key k.                                   *)
Do(c, op, k) ==
    CASE op = "get" -> Get(c, k)
      [] op = "set" -> Set(c, k)
      [] op = "add" -> Add(c, k)
      [] op \in {"replace", "update"} -> Replace(c, k)
      [] op = "delete" -> Delete(c, k)
      [] op \in {"incr", "decr"} -> Counter(c, k, op)
      [] op = "flush" -> Flush(c)

Invoke(c) ==
    /\ pending[c] = Idle
    /\ \E op \in Ops, k \in Keys : pending' = [pending EXCEPT ![c] = [op |-> op, key |-> k]]
    /\ UNCHANGED <<now, store, ret>>

Complete(c) ==
    /\ pending[c] # Idle
    /\ Do(c, pending[c].op, pending[c].key)
    /\ pending' = [pending EXCEPT ![c] = Idle]
    /\ UNCHANGED now

(* An operation invoked and taking effect in one step.                      *)
Immediate(c) ==
    /\ pending[c] = Idle
    /\ \E op \in Ops, k \in Keys : Do(c, op, k)
    /\ UNCHANGED <<now, pending>>

Tick ==
    /\ now' = now + 1
    /\ store' = Visible(store, now')
    /\ UNCHANGED <<ret, pending>>

Next ==
    \/ Tick
    \/ \E c \in Clients : Invoke(c) \/ Complete(c) \/ Immediate(c)

Spec == Init /\ [][Next]_<<now, store, ret, pending>>

=============================================================================

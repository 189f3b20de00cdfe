------------------------------ MODULE KVStore -------------------------------
(***************************************************************************)
(* What a column family promises to its users, whatever goes on inside: a  *)
(* map from keys to values that every write changes at once, snapshots     *)
(* that never change, and after a crash the map of some earlier moment, no *)
(* earlier than what is durable.                                           *)
(***************************************************************************)
EXTENDS Integers

CONSTANTS
    Key,      \* user keys
    Seq0,     \* sequence numbers
    Snap      \* identities of snapshots

VARIABLES
    log,      \* the writes so far, without those a crash lost
    durable,  \* a crash loses no write up to this sequence number
    db,       \* the current value of every key; 0: none
    views     \* for every snapshot, the value of every key it shows

vars == <<log, durable, db, views>>

\* The value of the newest of the writes W ...
Newest(W) ==
    IF W = {} THEN 0 ELSE (CHOOSE w \in W : \A x \in W : x.seq <= w.seq).org

\* ... and of key k after them.
Last(W, k) == Newest({w \in W : w.key = k})

Init ==
    /\ log = {} /\ durable = 0
    /\ db = [k \in Key |-> 0]
    /\ views = [s \in {} |-> db]

Write(k, n, v) ==
    /\ \A w \in log : w.seq < n
    /\ log' = log \cup {[key |-> k, seq |-> n, org |-> v]}
    /\ db' = [db EXCEPT ![k] = v]
    /\ UNCHANGED <<durable, views>>

Sync(n) ==
    /\ durable <= n /\ durable' = n
    /\ UNCHANGED <<log, db, views>>

TakeSnapshot(s) ==
    /\ s \notin DOMAIN views
    /\ views' = [x \in DOMAIN views \cup {s} |-> IF x = s THEN db ELSE views[x]]
    /\ UNCHANGED <<log, durable, db>>

Release(s) ==
    /\ views' = [x \in DOMAIN views \ {s} |-> views[x]]
    /\ UNCHANGED <<log, durable, db>>

Crash(n) ==
    /\ durable <= n /\ durable' = n
    /\ log' = {w \in log : w.seq <= n}
    /\ db' = [k \in Key |-> Last(log', k)]
    /\ views' = [s \in {} |-> db]

Next ==
    \/ \E k \in Key, n, v \in Seq0 : Write(k, n, v)
    \/ \E n \in Seq0 : Sync(n) \/ Crash(n)
    \/ \E s \in Snap : TakeSnapshot(s) \/ Release(s)

Spec == Init /\ [][Next]_vars
=============================================================================

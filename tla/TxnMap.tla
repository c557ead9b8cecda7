------------------------------- MODULE TxnMap -------------------------------
(***************************************************************************)
(* What transactions over KopiDB promise when every writer stages its      *)
(* writes: one map from keys to versions that changes only when a          *)
(* transaction commits, then by all of its writes at once, and a           *)
(* transaction that validates its reads commits only if they still hold.   *)
(* No memtable, SST, log, lock or checkpoint is visible here.              *)
(***************************************************************************)
EXTENDS Integers

CONSTANTS Keys, Tx

VARIABLES
    store,      \* key -> committed version
    status,     \* transaction -> "idle", "active", "committed", "aborted"
    validates,  \* transaction -> does it check its reads at commit
    staged,     \* transaction -> key -> value it will write
    seen        \* transaction -> key -> version its repeated reads return

mapVars == <<store, status, validates, staged, seen>>

Nothing == [k \in Keys |-> "unset"]
Unseen == [k \in Keys |-> [ver |-> 0, val |-> "unset"]]
Missing == [ver |-> 0, val |-> "none"]

MapInit ==
    /\ store = [k \in Keys |-> Missing]
    /\ status = [t \in Tx |-> "idle"]
    /\ validates = [t \in Tx |-> FALSE]
    /\ staged = [t \in Tx |-> Nothing]
    /\ seen = [t \in Tx |-> Unseen]

Start(t) ==
    /\ status[t] = "idle"
    /\ status' = [status EXCEPT ![t] = "active"]
    /\ \E b \in BOOLEAN : validates' = [validates EXCEPT ![t] = b]
    /\ UNCHANGED <<store, staged, seen>>

Stage(t, k) ==
    /\ status[t] = "active"
    /\ \E v \in {"val", "del"} : staged' = [staged EXCEPT ![t][k] = v]
    /\ UNCHANGED <<store, status, validates, seen>>

\* The first read of k by t; which version it returns is not fixed here, only
\* that t's later reads and its validation use the same one.
Observe(t, k) ==
    /\ status[t] = "active" /\ seen[t][k] = Unseen[k]
    /\ \E ver \in {0} \cup Tx :
         seen' = [seen EXCEPT ![t][k] =
                    IF ver = 0 THEN Missing ELSE [ver |-> ver, val |-> "val"]]
    /\ UNCHANGED <<store, status, validates, staged>>

Finish(t, how) ==
    /\ status[t] = "active"
    /\ status' = [status EXCEPT ![t] = how]
    /\ staged' = [staged EXCEPT ![t] = Nothing]
    /\ seen' = [seen EXCEPT ![t] = Unseen]
    /\ UNCHANGED validates

Publish(t) ==
    /\ Finish(t, "committed")
    /\ validates[t] => \A k \in Keys : seen[t][k] \in {Unseen[k], store[k]}
    /\ store' = [k \in Keys |-> CASE staged[t][k] = "unset" -> store[k]
                                  [] staged[t][k] = "del" -> Missing
                                  [] staged[t][k] = "val" -> [ver |-> t, val |-> "val"]]

Withdraw(t) == Finish(t, "aborted") /\ UNCHANGED store

MapNext ==
    \E t \in Tx : \/ Start(t) \/ Publish(t) \/ Withdraw(t)
                  \/ \E k \in Keys : Stage(t, k) \/ Observe(t, k)

MapSpec == MapInit /\ [][MapNext]_mapVars
=============================================================================

---------------------------- MODULE SnapshotStore ----------------------------
(***************************************************************************)
(* What the object database promises the code that uses it.  A view or a   *)
(* transaction sees, for as long as it is open, the store as it was when   *)
(* it was opened, under its own writes.  The writes of a transaction reach *)
(* the store all at once, and only if no other transaction did so since it *)
(* was opened.                                                             *)
(*                                                                         *)
(* ObjectDatabase is the implementation.                                   *)
(***************************************************************************)
EXTENDS Integers

CONSTANTS Views, Keys, Vals, None, NotWritten

VARIABLES
    store,      \* what was committed, None where there is nothing
    version,    \* how many transactions were committed
    open        \* open[v]: what the view sees, or Closed

storeVars == <<store, version, open>>

Contents == [Keys -> Vals \cup {None}]
Closed == [mode |-> "closed"]
Nothing == [k \in Keys |-> NotWritten]

Init ==
    /\ store \in Contents
    /\ version = 0
    /\ open = [v \in Views |-> Closed]

Open(v, mode) ==
    /\ UNCHANGED <<store, version>>
    /\ open[v] = Closed
    /\ open' = [open EXCEPT ![v] = [mode |-> mode, base |-> version,
                                    seen |-> store, writes |-> Nothing]]

Write(v, k, x) ==
    /\ UNCHANGED <<store, version>>
    /\ open[v].mode = "transaction"
    /\ open' = [open EXCEPT ![v] = [open[v] EXCEPT !.writes = [open[v].writes EXCEPT ![k] = x]]]

Commit(v) ==
    /\ version' = version + 1
    /\ open[v].mode = "transaction"
    /\ open[v].base = version
    /\ store' = [k \in Keys |-> IF open[v].writes[k] = NotWritten THEN store[k]
                                ELSE open[v].writes[k]]
    /\ open' = [open EXCEPT ![v] = Closed]

(* A view ends, or a transaction that is not committed. *)
Close(v) ==
    /\ UNCHANGED <<store, version>>
    /\ open' = [open EXCEPT ![v] = Closed]

Next ==
    \E v \in Views :
        \/ \E mode \in {"view", "transaction"} : Open(v, mode)
        \/ \E k \in Keys, x \in Vals \cup {None} : Write(v, k, x)
        \/ Commit(v)
        \/ Close(v)

Spec == Init /\ [][Next]_storeVars
==============================================================================

----------------------------- MODULE AtomicStore -----------------------------
(***************************************************************************)
(* What the storage engine under the application's database (the write-    *)
(* ahead log of sqlcipher/src/wal.c) promises to its connections: a read   *)
(* transaction sees one state of the database from its beginning to its    *)
(* end, a write transaction happens at one instant and only if nobody has  *)
(* committed since it began, and a process killed at any moment loses at   *)
(* most the transaction whose commit was under way, wholly or not at all.  *)
(* WalLog.tla implements this module.                                      *)
(***************************************************************************)
EXTENDS Integers

CONSTANTS
    Conn,      \* the connections
    Page,      \* the pages of the database
    Tx,        \* the numbers of write transactions, from 1
    NoView     \* what a connection outside a transaction sees

VARIABLES
    store,     \* store[p]: the transaction that wrote page p last
    view,      \* view[c]: the state connection c reads, or NoView
    offer      \* the state a commit under way would lead to, or NoView

vars == <<store, view, offer>>

Init ==
    /\ store = [p \in Page |-> 0]
    /\ view = [c \in Conn |-> NoView]
    /\ offer = NoView

Begin(c) ==
    /\ view[c] = NoView /\ view'[c] # NoView
    /\ view' = [view EXCEPT ![c] = store]
    /\ UNCHANGED <<store, offer>>

End(c) ==
    /\ view[c] # NoView /\ view'[c] = NoView
    /\ view' = [view EXCEPT ![c] = NoView]
    /\ UNCHANGED <<store, offer>>

\* A transaction that read the present state asks to replace some pages by
\* versions never seen before.
Offer(c) ==
    /\ offer = NoView /\ offer' # NoView
    /\ view[c] = store
    /\ \E W \in (SUBSET Page) \ {{}}, t \in Tx :
          /\ \A p \in Page : store[p] < t
          /\ offer' = [p \in Page |-> IF p \in W THEN t ELSE store[p]]
    /\ UNCHANGED <<store, view>>

Commit(c) ==
    /\ offer # NoView /\ view[c] = store
    /\ store' = offer
    /\ view' = [view EXCEPT ![c] = offer]
    /\ offer' = NoView

Kill ==
    /\ view' = [c \in Conn |-> NoView]
    /\ store' \in {store, IF offer = NoView THEN store ELSE offer}
    /\ offer' = NoView

Next ==
    \/ \E c \in Conn : Begin(c) \/ End(c) \/ Offer(c) \/ Commit(c)
    \/ Kill

Spec == Init /\ [][Next]_vars
=============================================================================

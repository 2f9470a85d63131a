--------------------------- MODULE CoverageLedger ---------------------------
(***************************************************************************)
(* What the coverage store promises its writers, whatever the number of    *)
(* worker processes: writes are transactions, one at a time, each on a     *)
(* private copy of the content the previous one left, and the content      *)
(* changes only when a transaction whose edits have all been made commits. *)
(* A transaction may also be abandoned, which leaves the content alone.    *)
(* With Lossy, a transaction may find the content unreadable and start     *)
(* from the empty list instead.                                            *)
(***************************************************************************)
EXTENDS CoverageList

CONSTANTS
  Requests,   \* the edits one write may ask for
  AmsFiles,   \* the provisioning files an operator may have written
  Lossy,      \* may a transaction start from the empty list?
  NoTxn

VARIABLES store, txn

ledgerVars == <<store, txn>>

Init == store = <<>> /\ txn = NoTxn

Begin(program) ==
  /\ txn = NoTxn
  /\ \E copy \in {store} \cup (IF Lossy THEN {<<>>} ELSE {}) :
       txn' = [copy |-> copy, left |-> program]
  /\ UNCHANGED store

Edit ==
  /\ txn # NoTxn
  /\ txn.left # <<>>
  /\ ~Raises(txn.copy, Head(txn.left))
  /\ txn' = [copy |-> ApplyOp(txn.copy, Head(txn.left)),
             left |-> Tail(txn.left)]
  /\ UNCHANGED store

Provision(file) ==
  /\ txn # NoTxn
  /\ txn.left = <<>>
  /\ txn' = [txn EXCEPT !.left = Asserts(file)]
  /\ UNCHANGED store

Commit ==
  /\ txn # NoTxn
  /\ txn.left = <<>>
  /\ store' = txn.copy
  /\ txn' = NoTxn

Abandon ==
  /\ txn # NoTxn
  /\ txn' = NoTxn
  /\ UNCHANGED store

Next ==
  \/ \E program \in Requests : Begin(program)
  \/ Edit
  \/ \E file \in AmsFiles : Provision(file)
  \/ Commit
  \/ Abandon

Spec == Init /\ [][Next]_ledgerVars
=============================================================================

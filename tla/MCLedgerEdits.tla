---------------------------- MODULE MCLedgerEdits ----------------------------
(* Small instances of LedgerEdits for TLC. *)
EXTENDS LedgerEdits, TLC
CONSTANTS a1, a2, a3, t1, t2, t3, t4, t5, x1, x2, n1, n2, n3

MCCents == {-1, 1}

\* Two accounts, a transaction in the first, a transfer from the first to the second.
MCStart ==
  [accounts |-> a1 :> [name |-> n1, closed |-> FALSE] @@ a2 :> [name |-> n2, closed |-> FALSE],
   transactions |->
     t1 :> [account |-> a1, amount |-> 1, clearance |-> "Cleared", transfer |-> NoTransfer]
       @@ t2 :> [account |-> a1, amount |-> -1, clearance |-> "Uncleared", transfer |-> x1]
       @@ t3 :> [account |-> a2, amount |-> 1, clearance |-> "Uncleared", transfer |-> x1],
   assignments |-> <<>>]
=============================================================================

---------------------------- MODULE MCReportCache ----------------------------
(* A small instance of ReportCache for TLC. *)
EXTENDS ReportCache, TLC
CONSTANTS a1, t1, t2, n1

MCCents == {-1, 1}

MCStart ==
  [accounts |-> a1 :> [name |-> n1, closed |-> FALSE],
   transactions |->
     t1 :> [account |-> a1, amount |-> 1, clearance |-> "Cleared", transfer |-> NoTransfer],
   assignments |-> <<>>]
=============================================================================

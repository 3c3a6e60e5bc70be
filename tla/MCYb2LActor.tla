---------------------------- MODULE MCYb2LActor ----------------------------
(* Yb2LActor from a fresh ledger and from checkpoints with little cash, with *)
(* pending interest, with interest collected and not donated, and with a     *)
(* collateral gap that is tolerated or too large.                            *)
EXTENDS Yb2LActor

MCLedgers ==
  {[coll |-> 3, debt |-> 3, cash |-> 3, minted |-> 3, redeemed |-> 0, lt |-> 0],
   [coll |-> 3, debt |-> 3, cash |-> 0, minted |-> 4, redeemed |-> 2, lt |-> 0],
   [coll |-> 2, debt |-> 2, cash |-> 2, minted |-> 3, redeemed |-> 1, lt |-> 1]}
MCSupplies == 1 .. 5
MCSlips == -2 .. 2
=============================================================================

------------------------------ MODULE YbLedger ------------------------------
(***************************************************************************)
(* What a fill of the YieldBasis 2L actor promises of its ledger (the head *)
(* of yb_2l.hpp: "the complete route rolls back atomically on any failed   *)
(* leg"): it happens as a whole or not at all, moves as much debt as cash, *)
(* and hands the pool all the interest that the cash covers.  No leg of a  *)
(* route appears here; Yb2LActor implements this with them.                *)
(***************************************************************************)
EXTENDS Integers

VARIABLES
  cash,                \* stablecoin in the LEVAMM
  debt,                \* what is owed to it now, interest included
  unpaid,              \* the part of debt that is interest not yet collected
  held,                \* interest collected and not yet given to the pool
  given                \* interest the pool was given

lvars == <<cash, debt, unpaid, held, given>>

LeastOf(a, b) == IF a <= b THEN a ELSE b

Init ==
  /\ {cash, debt, unpaid, held} \subseteq Nat
  /\ given = 0

\* Time passes: debt grows by interest.
Accrue ==
  /\ debt' > debt
  /\ unpaid' = unpaid + (debt' - debt)
  /\ UNCHANGED <<cash, held, given>>

\* A fill that repays debt (debt' < debt) or borrows, and settles the interest.
Fill ==
  LET paid      == debt - debt'
      collected == LeastOf(unpaid, cash + paid) IN
  /\ paid # 0
  /\ debt' >= 0 /\ cash + paid >= 0
  /\ cash' = cash + paid - collected
  /\ unpaid' = unpaid - collected
  /\ held' = 0
  /\ given' = given + held + collected

Next == Accrue \/ Fill

Spec == Init /\ [][Next]_lvars
=============================================================================

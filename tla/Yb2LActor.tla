----------------------------- MODULE Yb2LActor -----------------------------
(***************************************************************************)
(* The YieldBasis 2L actor (yb_2l.hpp): try_fire, the route of one fill    *)
(* through the pool, leg by leg, with the ledger it keeps.  Between two    *)
(* calls debt accrues interest.                                            *)
(*                                                                         *)
(* Quantities are integers, a unit being far above the 1e-6 of collected   *)
(* interest that donate_interest leaves as a residue.  How a fill is sized *)
(* is left open: a decision may offer any fill that propose_fill's limits  *)
(* admit, and refuse at any time.  An add mints its target up to a slip;   *)
(* Tol stands for lp_reconciliation_tolerance.  The pool is the LP in      *)
(* circulation, which only the actor changes, and what was donated to it.  *)
(* donation_candidate, which replaces the actor or is dropped with the     *)
(* route, is the ledger itself.                                            *)
(***************************************************************************)
EXTENDS Integers

CONSTANTS
  Ledgers,             \* ledgers a run may start with
  Supplies,            \* LP that may circulate when a run starts
  Slips,               \* by how much an add may miss the LP it aims at
  Tol,                 \* the miss that is accepted
  GapLimit,            \* 1e-2: a larger collateral gap stops the actor
  MaxAdd,              \* bound: LP a fill may add
  MaxDebt,             \* bound: time stops when the debt would pass it
  MaxFills             \* bound: fills of one run

LedgerSet == [coll : Nat, debt : Nat, cash : Nat, minted : Nat, redeemed : Nat, lt : Nat]

\* A checkpoint is taken from the contract, which mints no more than is owed or
\* was redeemed; a fresh ledger has minted its debt.
ASSUME LedgersAssumption ==
  /\ Ledgers \subseteq LedgerSet
  /\ \A l \in Ledgers : l.coll > 0 /\ l.minted <= l.debt + l.redeemed
ASSUME BoundsAssumption ==
  /\ Supplies \subseteq Nat /\ Slips \subseteq Int
  /\ {Tol, GapLimit, MaxAdd, MaxDebt, MaxFills} \subseteq Nat

VARIABLES
  ledger,              \* Yb2LState
  owed,                \* projected_debt(now) - debt: interest since rate_time
  pool,                \* [lp, donated]: circulating LP, interest donated
  pc,                  \* where in try_fire
  saved,               \* pre_attempt_actor and pre_attempt_pool
  fill,                \* the chosen proposal: what it pays in and takes out
  added,               \* ledgered_lp
  fills                \* number of fills

vars == <<ledger, owed, pool, pc, saved, fill, added, fills>>

\* A negative payment is stablecoin paid out, a negative taking LP put in.
NoFill == [pays |-> 0, takes |-> 0]

Init ==
  /\ ledger \in Ledgers
  /\ owed = 0
  /\ \E s \in Supplies : pool = [lp |-> s, donated |-> 0]
  /\ pc = "idle"
  /\ saved = [ledger |-> ledger, owed |-> owed, pool |-> pool]
  /\ fill = NoFill /\ added = 0 /\ fills = 0

-----------------------------------------------------------------------------
Positive(x)    == IF x > 0 THEN x ELSE 0
Lesser(a, b)   == IF a <= b THEN a ELSE b
Near(a, b, by) == a - b <= by /\ b - a <= by

\* projected_debt: interest grows with the time since rate_time.
Elapse(k) ==
  /\ pc = "idle"
  /\ ledger.debt + owed + k <= MaxDebt
  /\ owed' = owed + k
  /\ UNCHANGED <<ledger, pool, pc, saved, fill, added, fills>>

\* propose_fill: LP is bought with at most the debt and less than the collateral,
\* or added against at most the cash there is.
Offers ==
  [pays : 1 .. ledger.debt + owed, takes : 1 .. ledger.coll - 1]
    \cup [pays : -ledger.cash .. -1, takes : -MaxAdd .. -1]

\* pending_interest
Pending(l) == Positive(l.debt + l.redeemed - l.minted)

\* Mutant of Settled: pending interest is written off as minted.
SettledForgiving(f) ==
  LET due == ledger.debt + owed - f.pays
      out == ledger.redeemed + Positive(f.pays) IN
  [ledger EXCEPT !.coll = @ - f.takes, !.debt = due, !.cash = @ + f.pays,
                 !.redeemed = out, !.minted = due + out]

\* Debt is brought up to date and the fill is booked; minted is set so that the
\* pending interest stays what it is.
Settled(f) ==
  LET now == [ledger EXCEPT !.debt = @ + owed]
      due == now.debt - f.pays
      out == ledger.redeemed + Positive(f.pays) IN
  [ledger EXCEPT !.coll = @ - f.takes, !.debt = due, !.cash = @ + f.pays,
                 !.redeemed = out, !.minted = due + out - Pending(now)]

\* accrue_interest on a ledger whose debt is up to date.
Collected(l) ==
  LET interest == Lesser(Pending(l), Positive(l.cash)) IN
  [l EXCEPT !.minted = @ + interest, !.cash = @ - interest, !.lt = @ + interest]

-----------------------------------------------------------------------------
(* try_fire *)

\* A fill is chosen, the ledger agrees with the pool, and both are saved.
Choose(f) ==
  /\ pc = "idle" /\ fills < MaxFills
  /\ f \in Offers
  /\ Near(ledger.coll, pool.lp, GapLimit)
  /\ saved' = [ledger |-> ledger, owed |-> owed, pool |-> pool]
  /\ fill' = f
  /\ added' = 0
  /\ pc' = IF f.takes < 0 THEN "add" ELSE "settle"
  /\ UNCHANGED <<ledger, owed, pool, fills>>

\* The route's LP becomes x.
AddedIs(x) ==
  /\ added' = x
  /\ pool' = [pool EXCEPT !.lp = @ + (x - added)]

\* add_liquidity_to_mint
FirstAdd ==
  /\ pc = "add"
  /\ \E s \in Slips :
       /\ s - fill.takes > 0 /\ Near(s, 0, Tol)
       /\ AddedIs(s - fill.takes)
  /\ pc' = "again"
  /\ UNCHANGED <<ledger, owed, saved, fill, fills>>

\* The decision is taken again on the pool as the add has left it.
ChooseAgain(f) ==
  /\ pc = "again"
  /\ f \in Offers /\ f.takes < 0
  /\ fill' = f
  /\ pc' = "correct"
  /\ UNCHANGED <<ledger, owed, pool, saved, added, fills>>

\* Mutant of TopUp: the correction is not checked.
TopUpUnchecked ==
  /\ pc = "correct"
  /\ -fill.takes - added > Tol
  /\ \E s \in Slips :
       /\ s - fill.takes > added
       /\ AddedIs(s - fill.takes)
  /\ pc' = "settle"
  /\ UNCHANGED <<ledger, owed, saved, fill, fills>>

\* The LP that was added is corrected to the new fill, up or ...
TopUp ==
  /\ pc = "correct"
  /\ -fill.takes - added > Tol
  /\ \E s \in Slips :
       /\ s - fill.takes > added /\ Near(s, 0, Tol)
       /\ AddedIs(s - fill.takes)
  /\ pc' = "settle"
  /\ UNCHANGED <<ledger, owed, saved, fill, fills>>

\* ... down (remove_liquidity_leg), or is near enough.
Trim ==
  /\ pc = "correct"
  /\ added + fill.takes > Tol
  /\ added + fill.takes <= pool.lp
  /\ AddedIs(-fill.takes)
  /\ pc' = "settle"
  /\ UNCHANGED <<ledger, owed, saved, fill, fills>>

KeepAdd ==
  /\ pc = "correct"
  /\ Near(added, -fill.takes, Tol)
  /\ pc' = "settle"
  /\ UNCHANGED <<ledger, owed, pool, saved, fill, added, fills>>

\* advance_debt, and the fill is booked.
Settle ==
  /\ pc = "settle"
  /\ ledger' = Settled(fill)
  /\ owed' = 0
  /\ pc' = "donate"
  /\ UNCHANGED <<pool, saved, fill, added, fills>>

\* donate_interest: what was collected goes to the pool.  A fill that put LP in
\* is then complete.
DonateInterest ==
  /\ pc = "donate"
  /\ LET after == Collected(ledger) IN
       /\ ledger' = [after EXCEPT !.lt = 0]
       /\ pool' = [pool EXCEPT !.donated = @ + after.lt]
  /\ IF fill.takes < 0 THEN pc' = "idle" /\ fills' = fills + 1
     ELSE pc' = "remove" /\ UNCHANGED fills
  /\ UNCHANGED <<owed, saved, fill, added>>

\* The LP that was bought is burnt.
RemoveLp ==
  /\ pc = "remove"
  /\ fill.takes <= pool.lp
  /\ pool' = [pool EXCEPT !.lp = @ - fill.takes]
  /\ pc' = "idle" /\ fills' = fills + 1
  /\ UNCHANGED <<ledger, owed, saved, fill, added>>

\* Mutant of Rollback: the ledger is left as it is.
RollbackPool ==
  /\ pool' = saved.pool
  /\ UNCHANGED <<ledger, owed>>

Rollback ==
  /\ pool' = saved.pool
  /\ ledger' = saved.ledger /\ owed' = saved.owed

\* rollback_route: a leg fails, misses its target or is refused by the pool.
Refuse ==
  /\ pc \in {"add", "again", "correct", "donate", "remove"}
  /\ Rollback
  /\ pc' = "idle"
  /\ UNCHANGED <<saved, fill, added, fills>>

-----------------------------------------------------------------------------
Next ==
  \/ \E k \in 1 .. MaxDebt : Elapse(k)
  \/ \E f \in Offers : Choose(f) \/ ChooseAgain(f)
  \/ FirstAdd \/ TopUp \/ Trim \/ KeepAdd
  \/ Settle \/ DonateInterest \/ RemoveLp
  \/ Refuse

Spec == Init /\ [][Next]_vars

-----------------------------------------------------------------------------
\* The caller sees a route when try_fire returns; until then, what was saved.
Seen == IF pc = "idle" THEN [ledger |-> ledger, owed |-> owed, pool |-> pool] ELSE saved

DebtNow == Seen.ledger.debt + Seen.owed

Promise == INSTANCE YbLedger WITH
  cash   <- Seen.ledger.cash,
  debt   <- DebtNow,
  unpaid <- DebtNow + Seen.ledger.redeemed - Seen.ledger.minted,
  held   <- Seen.ledger.lt,
  given  <- Seen.pool.donated

\* "the complete route rolls back atomically on any failed leg": try_fire, with
\* its legs, refusals and rollback, is one atomic fill or nothing.
ImplementsLedger == Promise!Spec

\* "must leave collateral equal to the circulating LP": after a fill, of either
\* direction, corrected or not, the ledger's collateral is the pool's LP up to
\* the gap the actor tolerates before it and one reconciliation error.
CollateralTracksPool ==
  pc = "idle" /\ fills > 0 => Near(ledger.coll, pool.lp, GapLimit + Tol)

\* The cash is what was redeemed less what was minted, from start to end: no leg
\* pays out or takes in stablecoin that the books do not show.
CashMatchesBooks ==
  [][ledger'.cash + ledger'.minted - ledger'.redeemed
       = ledger.cash + ledger.minted - ledger.redeemed]_vars
=============================================================================

-------------------------- MODULE Yb2LActorProofs --------------------------
(***************************************************************************)
(* Yb2LActor implements YbLedger, keeps its books and its collateral, for  *)
(* every ledger, slip, tolerance and limit.  The inductive invariant says  *)
(* what has happened to ledger and pool since they were saved, for each    *)
(* place in the route.                                                     *)
(***************************************************************************)
EXTENDS Yb2LActor, TLAPS

PoolSet  == [lp : Nat, donated : Nat]
SavedSet == [ledger : LedgerSet, owed : Nat, pool : PoolSet]

FillSet == [pays : Int, takes : Int]

Steps == {"idle", "add", "again", "correct", "settle", "donate", "remove"}

\* A ledger has collateral and minted no more than is owed or was redeemed.
Solvent(l, o) == l.coll > 0 /\ l.minted <= l.debt + o + l.redeemed

TypeInv ==
  /\ ledger \in LedgerSet /\ owed \in Nat /\ pool \in PoolSet
  /\ pc \in Steps
  /\ saved \in SavedSet
  /\ fill \in FillSet
  /\ added \in Int /\ fills \in Nat
  /\ Solvent(ledger, owed) /\ Solvent(saved.ledger, saved.owed)

\* The fill in progress respects the limits of propose_fill.
FillInv ==
  pc # "idle" =>
    /\ \/ fill.pays > 0 /\ fill.takes > 0 /\ pc \notin {"add", "again", "correct"}
       \/ fill.pays < 0 /\ fill.takes < 0 /\ pc # "remove"
    /\ fill.pays <= saved.ledger.debt + saved.owed
    /\ fill.takes < saved.ledger.coll
    /\ saved.ledger.cash + fill.pays >= 0

\* Interest owed when the route began.
Unpaid == saved.ledger.debt + saved.owed + saved.ledger.redeemed - saved.ledger.minted

Settlement == Lesser(Unpaid, saved.ledger.cash + fill.pays)

\* What the legs so far have done to the ledger.
LedgerInv ==
  /\ pc \in {"add", "again", "correct", "settle"} =>
       /\ ledger = saved.ledger /\ owed = saved.owed
       /\ pool.donated = saved.pool.donated
  /\ pc \in {"donate", "remove"} =>
       /\ owed = 0
       /\ ledger.coll = saved.ledger.coll - fill.takes
       /\ ledger.debt = saved.ledger.debt + saved.owed - fill.pays
       /\ ledger.redeemed = saved.ledger.redeemed + Positive(fill.pays)
  /\ pc = "donate" =>
       /\ ledger.cash = saved.ledger.cash + fill.pays
       /\ ledger.minted = ledger.debt + ledger.redeemed - Unpaid
       /\ ledger.lt = saved.ledger.lt
       /\ pool.donated = saved.pool.donated
  /\ pc = "remove" =>
       /\ ledger.cash = saved.ledger.cash + fill.pays - Settlement
       /\ ledger.minted = ledger.debt + ledger.redeemed - Unpaid + Settlement
       /\ ledger.lt = 0
       /\ pool.donated = saved.pool.donated + saved.ledger.lt + Settlement

\* What they have done to the circulating LP.
SupplyInv ==
  /\ pc # "idle" => Near(saved.ledger.coll, saved.pool.lp, GapLimit)
  /\ pc \in {"add", "remove"} => pool.lp = saved.pool.lp
  /\ pc = "add" => added = 0
  /\ pc \in {"again", "correct"} => pool.lp = saved.pool.lp + added
  /\ pc \in {"settle", "donate"} =>
       \/ fill.takes > 0 /\ pool.lp = saved.pool.lp
       \/ fill.takes < 0 /\ pool.lp = saved.pool.lp + added /\ Near(added, -fill.takes, Tol)

IInv == TypeInv /\ FillInv /\ LedgerInv /\ SupplyInv /\ CollateralTracksPool

-----------------------------------------------------------------------------
LEMMA InitInv == Init => IInv
BY LedgersAssumption, BoundsAssumption
DEF Init, IInv, TypeInv, FillInv, LedgerInv, SupplyInv, CollateralTracksPool, NoFill,
    LedgerSet, PoolSet, SavedSet, FillSet, Steps, Solvent

\* An offer pays and takes in one direction, within what there is.
LEMMA OfferBounds ==
  ASSUME TypeInv, NEW f \in Offers
  PROVE  /\ f \in FillSet
         /\ f.pays <= ledger.debt + owed /\ f.takes < ledger.coll
         /\ ledger.cash + f.pays >= 0
         /\ \/ f.pays > 0 /\ f.takes > 0
            \/ f.pays < 0 /\ f.takes < 0
BY BoundsAssumption DEF Offers, TypeInv, LedgerSet, FillSet

LEMMA ElapseInv == ASSUME IInv, NEW k \in 1 .. MaxDebt, Elapse(k) PROVE IInv'
BY BoundsAssumption
DEF IInv, TypeInv, FillInv, LedgerInv, SupplyInv, CollateralTracksPool, Elapse, Solvent,
    LedgerSet, PoolSet, SavedSet, Steps, Near, Unpaid, Settlement

LEMMA ChooseInv == ASSUME IInv, NEW f \in Offers, Choose(f) PROVE IInv'
<1>1. TypeInv
  BY DEF IInv
<1>2. TypeInv'
  BY <1>1, OfferBounds, BoundsAssumption DEF TypeInv, Choose, SavedSet, Steps
<1>3. saved' = [ledger |-> ledger, owed |-> owed, pool |-> pool] /\ fill' = f
  BY DEF Choose
<1>4. FillInv'
  BY <1>1, <1>3, OfferBounds DEF FillInv, Choose, FillSet
<1>5. LedgerInv'
  BY <1>3 DEF LedgerInv, Choose
<1>6. SupplyInv' /\ CollateralTracksPool'
  BY <1>1, <1>3, OfferBounds DEF SupplyInv, CollateralTracksPool, Choose, TypeInv, PoolSet, LedgerSet, Near
<1> QED
  BY <1>2, <1>4, <1>5, <1>6 DEF IInv

LEMMA ChooseAgainInv == ASSUME IInv, NEW f \in Offers, ChooseAgain(f) PROVE IInv'
<1>1. TypeInv /\ LedgerInv /\ pc = "again"
  BY DEF IInv, ChooseAgain
<1>2. TypeInv'
  BY <1>1, OfferBounds DEF TypeInv, ChooseAgain, Steps
<1>3. FillInv'
  BY <1>1, OfferBounds DEF FillInv, ChooseAgain, LedgerInv, FillSet
<1>4. LedgerInv' /\ SupplyInv' /\ CollateralTracksPool'
  BY <1>1 DEF IInv, LedgerInv, SupplyInv, CollateralTracksPool, ChooseAgain, Near
<1> QED
  BY <1>2, <1>3, <1>4 DEF IInv

\* The steps that add LP or take back what was added too much.
LEMMA AddInv ==
  ASSUME IInv, FirstAdd \/ TopUp \/ Trim \/ KeepAdd PROVE IInv'
<1>1. /\ TypeInv /\ FillInv
      /\ UNCHANGED <<ledger, owed, saved, fill, fills>>
      /\ pc \in {"add", "correct"} /\ pc' \in {"again", "settle"}
      /\ fill.takes < 0
  BY DEF IInv, FillInv, FirstAdd, TopUp, Trim, KeepAdd
<1>2. pool' \in PoolSet /\ added' \in Int /\ pool'.donated = pool.donated
      /\ pool'.lp = saved.pool.lp + added'
  <2>1. CASE FirstAdd
    BY <1>1, <2>1, BoundsAssumption
    DEF IInv, FirstAdd, AddedIs, TypeInv, SupplyInv, PoolSet, SavedSet, FillSet
  <2>2. CASE TopUp
    BY <1>1, <2>2, BoundsAssumption
    DEF IInv, TopUp, AddedIs, TypeInv, SupplyInv, PoolSet, SavedSet, FillSet
  <2>3. CASE Trim
    BY <1>1, <2>3 DEF IInv, Trim, AddedIs, TypeInv, SupplyInv, PoolSet, SavedSet, FillSet
  <2>4. CASE KeepAdd
    BY <1>1, <2>4 DEF IInv, KeepAdd, TypeInv, SupplyInv, PoolSet, SavedSet, FillSet
  <2> QED
    BY <2>1, <2>2, <2>3, <2>4
<1>3. pc' = "settle" => Near(added', -fill.takes, Tol)
  BY <1>1, BoundsAssumption DEF FirstAdd, TopUp, Trim, KeepAdd, AddedIs, TypeInv, FillSet, Near
<1>4. TypeInv'
  BY <1>1, <1>2 DEF TypeInv, Steps, Solvent
<1>5. FillInv'
  BY <1>1 DEF FillInv
<1>6. LedgerInv'
  BY <1>1, <1>2 DEF IInv, LedgerInv
<1>7. SupplyInv' /\ CollateralTracksPool'
  BY <1>1, <1>2, <1>3 DEF IInv, SupplyInv, CollateralTracksPool, Near
<1> QED
  BY <1>4, <1>5, <1>6, <1>7 DEF IInv

LEMMA UnpaidIsNat == ASSUME TypeInv PROVE Unpaid \in Nat
BY DEF TypeInv, Solvent, Unpaid, SavedSet, LedgerSet

\* The fill is booked, and what was pending stays pending.
LEMMA SettleEffect ==
  ASSUME IInv, Settle
  PROVE  /\ ledger'.coll = saved.ledger.coll - fill.takes
         /\ ledger'.debt = saved.ledger.debt + saved.owed - fill.pays
         /\ ledger'.cash = saved.ledger.cash + fill.pays
         /\ ledger'.redeemed = saved.ledger.redeemed + Positive(fill.pays)
         /\ ledger'.minted = ledger'.debt + ledger'.redeemed - Unpaid
         /\ ledger'.lt = saved.ledger.lt
<1>1. TypeInv /\ ledger = saved.ledger /\ owed = saved.owed
  BY DEF IInv, Settle, LedgerInv
<1>2. Unpaid \in Nat
  BY <1>1, UnpaidIsNat
<1>3. Pending([ledger EXCEPT !.debt = @ + owed]) = Unpaid
  BY <1>1, <1>2 DEF TypeInv, Pending, Positive, Unpaid, LedgerSet, SavedSet
<1> QED
  BY <1>1, <1>2, <1>3 DEF Settle, Settled, TypeInv, LedgerSet, SavedSet, FillSet

LEMMA SettleInv == ASSUME IInv, Settle PROVE IInv'
<1>1. /\ TypeInv /\ FillInv /\ LedgerInv /\ SupplyInv /\ pc = "settle"
      /\ ledger = saved.ledger /\ owed = saved.owed
  BY DEF IInv, Settle, LedgerInv
<1>2. UNCHANGED <<pool, saved, fill, added, fills>> /\ pc' = "donate" /\ owed' = 0
  BY DEF Settle
<1>3. Unpaid \in Nat
  BY <1>1, UnpaidIsNat
<1>6. TypeInv'
  <2>1. ledger' = [coll |-> ledger'.coll, debt |-> ledger'.debt, cash |-> ledger'.cash,
                   minted |-> ledger'.minted, redeemed |-> ledger'.redeemed,
                   lt |-> ledger'.lt]
    BY <1>1 DEF Settle, Settled, TypeInv, LedgerSet
  <2>2. {fill.pays, fill.takes} \subseteq Int /\ saved.ledger \in LedgerSet /\ saved.owed \in Nat
    BY <1>1 DEF TypeInv, FillSet, SavedSet
  <2>3. /\ saved.ledger.coll - fill.takes > 0
        /\ saved.ledger.debt + saved.owed - fill.pays >= 0
        /\ saved.ledger.cash + fill.pays >= 0
    BY <1>1, <2>2 DEF FillInv, LedgerSet
  <2>4. ledger'.redeemed \in Nat /\ ledger'.minted \in Nat
    BY SettleEffect, <2>2 DEF LedgerSet, Positive, Unpaid
  <2>5. /\ ledger'.coll \in Nat /\ ledger'.debt \in Nat /\ ledger'.cash \in Nat
        /\ ledger'.lt \in Nat
    BY <2>2, <2>3, SettleEffect DEF LedgerSet
  <2>6. ledger' \in LedgerSet
    BY <2>1, <2>4, <2>5 DEF LedgerSet
  <2>7. Solvent(ledger, owed)'
    BY <1>2, <1>3, SettleEffect, <2>3, <2>4, <2>5 DEF Solvent
  <2> QED
    BY <1>1, <1>2, <2>6, <2>7 DEF TypeInv, Steps
<1>7. FillInv'
  BY <1>1, <1>2 DEF FillInv
<1>8. LedgerInv'
  BY <1>1, <1>2, SettleEffect DEF LedgerInv, Unpaid
<1>9. SupplyInv' /\ CollateralTracksPool'
  BY <1>1, <1>2 DEF SupplyInv, CollateralTracksPool, Near
<1> QED
  BY <1>6, <1>7, <1>8, <1>9 DEF IInv

\* What a route has done to the ledger when its interest is donated.
LEMMA DonateEffect ==
  ASSUME IInv, DonateInterest
  PROVE  /\ Settlement \in Nat /\ Settlement <= Unpaid
         /\ Settlement <= saved.ledger.cash + fill.pays
         /\ ledger' \in LedgerSet
         /\ ledger'.coll = ledger.coll
         /\ ledger'.debt = ledger.debt
         /\ ledger'.redeemed = ledger.redeemed
         /\ ledger'.cash = saved.ledger.cash + fill.pays - Settlement
         /\ ledger'.minted = ledger.debt + ledger.redeemed - Unpaid + Settlement
         /\ ledger'.lt = 0
         /\ pool' \in PoolSet
         /\ pool'.lp = pool.lp
         /\ pool'.donated = saved.pool.donated + saved.ledger.lt + Settlement
<1>1. TypeInv /\ FillInv /\ LedgerInv /\ pc = "donate"
  BY DEF IInv, DonateInterest
<1>2. Unpaid \in Nat
  BY <1>1, UnpaidIsNat
<1>3. /\ ledger.cash = saved.ledger.cash + fill.pays
      /\ ledger.minted = ledger.debt + ledger.redeemed - Unpaid
      /\ ledger.lt = saved.ledger.lt
      /\ pool.donated = saved.pool.donated
  BY <1>1 DEF LedgerInv
<1>4. ledger \in LedgerSet /\ pool \in PoolSet /\ Unpaid \in Nat
  BY <1>1, <1>2 DEF TypeInv
<1>5. Lesser(Pending(ledger), Positive(ledger.cash)) = Settlement
  BY <1>3, <1>4 DEF Pending, Positive, Settlement, LedgerSet
<1>6. Settlement \in Nat /\ Settlement <= Unpaid /\ Settlement <= ledger.cash
  BY <1>3, <1>4 DEF Settlement, Lesser, LedgerSet
<1>7. /\ ledger' = [ledger EXCEPT !.minted = @ + Settlement, !.cash = @ - Settlement, !.lt = 0]
      /\ pool' = [pool EXCEPT !.donated = @ + (ledger.lt + Settlement)]
  BY <1>4, <1>5, <1>6 DEF DonateInterest, Collected, LedgerSet
<1>8. /\ ledger'.coll = ledger.coll /\ ledger'.debt = ledger.debt
      /\ ledger'.redeemed = ledger.redeemed
      /\ ledger'.minted = ledger.minted + Settlement
      /\ ledger'.cash = ledger.cash - Settlement /\ ledger'.lt = 0
      /\ ledger' = [coll |-> ledger'.coll, debt |-> ledger'.debt, cash |-> ledger'.cash,
                    minted |-> ledger'.minted, redeemed |-> ledger'.redeemed,
                    lt |-> ledger'.lt]
  BY <1>4, <1>7 DEF LedgerSet
<1>9. /\ pool' \in PoolSet /\ pool'.lp = pool.lp
      /\ pool'.donated = pool.donated + (ledger.lt + Settlement)
  BY <1>4, <1>6, <1>7 DEF LedgerSet, PoolSet
<1>10. pool'.donated = saved.pool.donated + saved.ledger.lt + Settlement
  BY <1>1, <1>3, <1>6, <1>9 DEF TypeInv, SavedSet, PoolSet, LedgerSet
<1>11. ledger' \in LedgerSet
  <2>1. {ledger'.coll, ledger'.debt, ledger'.cash, ledger'.minted, ledger'.redeemed,
         ledger'.lt} \subseteq Nat
    BY <1>4, <1>6, <1>8 DEF LedgerSet
  <2> QED
    BY <1>8, <2>1 DEF LedgerSet
<1>12. /\ Settlement <= saved.ledger.cash + fill.pays
       /\ ledger'.cash = saved.ledger.cash + fill.pays - Settlement
       /\ ledger'.minted = ledger.debt + ledger.redeemed - Unpaid + Settlement
  BY <1>1, <1>3, <1>4, <1>6, <1>8 DEF TypeInv, SavedSet, LedgerSet, FillSet
<1> QED
  BY <1>6, <1>8, <1>9, <1>10, <1>11, <1>12

LEMMA DonateInv == ASSUME IInv, DonateInterest PROVE IInv'
<1>1. TypeInv /\ FillInv /\ LedgerInv /\ SupplyInv /\ pc = "donate" /\ Unpaid \in Nat
  BY UnpaidIsNat DEF IInv, DonateInterest
<1>2. /\ UNCHANGED <<owed, saved, fill, added>> /\ fills' \in Nat
      /\ \/ fill.takes < 0 /\ pc' = "idle"
         \/ fill.takes > 0 /\ pc' = "remove"
  BY <1>1 DEF DonateInterest, TypeInv, FillInv
<1>3. /\ Unpaid' = Unpaid /\ Settlement' = Settlement
  BY <1>2 DEF Unpaid, Settlement, Lesser
<1>4. Solvent(ledger', owed')
  BY <1>1, <1>2, DonateEffect DEF Solvent, TypeInv, LedgerSet
<1>5. TypeInv'
  BY <1>1, <1>2, <1>4, DonateEffect DEF TypeInv, Steps
<1>6. FillInv'
  BY <1>1, <1>2 DEF FillInv, TypeInv, FillSet
<1>7. LedgerInv'
  BY <1>1, <1>2, <1>3, DonateEffect DEF LedgerInv
<1>8. SupplyInv'
  BY <1>1, <1>2, DonateEffect DEF SupplyInv, TypeInv, FillSet
<1>9. CollateralTracksPool'
  <2>1. CASE pc' = "remove"
    BY <2>1 DEF CollateralTracksPool
  <2>2. CASE pc' = "idle"
    <3>1. /\ Near(saved.ledger.coll, saved.pool.lp, GapLimit)
          /\ Near(added, -fill.takes, Tol)
          /\ ledger'.coll = saved.ledger.coll - fill.takes
          /\ pool'.lp = saved.pool.lp + added
      BY <1>1, <1>2, <2>2, DonateEffect DEF SupplyInv, LedgerInv, TypeInv, FillSet
    <3> QED
      BY <1>1, <3>1, BoundsAssumption
      DEF CollateralTracksPool, Near, TypeInv, SavedSet, LedgerSet, PoolSet, FillSet
  <2> QED
    BY <1>2, <2>1, <2>2
<1> QED
  BY <1>5, <1>6, <1>7, <1>8, <1>9 DEF IInv

LEMMA RemoveInv == ASSUME IInv, RemoveLp PROVE IInv'
<1>1. TypeInv /\ FillInv /\ LedgerInv /\ SupplyInv /\ pc = "remove"
  BY DEF IInv, RemoveLp
<1>2. pc' = "idle" /\ UNCHANGED <<ledger, owed, saved, fill, added>>
  BY DEF RemoveLp
<1>3. /\ pool' \in PoolSet /\ pool'.lp = pool.lp - fill.takes /\ fills' \in Nat
  BY <1>1 DEF RemoveLp, TypeInv, FillInv, PoolSet, FillSet
<1>4. TypeInv'
  BY <1>1, <1>2, <1>3 DEF TypeInv, Steps, Solvent
<1>5. FillInv' /\ LedgerInv' /\ SupplyInv'
  BY <1>2 DEF FillInv, LedgerInv, SupplyInv
<1>6. CollateralTracksPool'
  BY <1>1, <1>2, <1>3, BoundsAssumption
  DEF CollateralTracksPool, LedgerInv, SupplyInv, Near, TypeInv, SavedSet, LedgerSet, PoolSet,
      FillSet
<1> QED
  BY <1>4, <1>5, <1>6 DEF IInv
LEMMA RefuseInv == ASSUME IInv, Refuse PROVE IInv'
<1>1. TypeInv /\ SupplyInv /\ pc # "idle"
  BY DEF IInv, Refuse
<1>2. /\ pc' = "idle" /\ UNCHANGED <<saved, fill, added, fills>>
      /\ ledger' = saved.ledger /\ owed' = saved.owed /\ pool' = saved.pool
  BY DEF Refuse, Rollback
<1>3. TypeInv'
  BY <1>1, <1>2 DEF TypeInv, SavedSet, Steps, Solvent
<1>4. FillInv' /\ LedgerInv' /\ SupplyInv'
  BY <1>2 DEF FillInv, LedgerInv, SupplyInv
<1>5. CollateralTracksPool'
  BY <1>1, <1>2, BoundsAssumption
  DEF CollateralTracksPool, SupplyInv, Near, TypeInv, SavedSet, LedgerSet, PoolSet
<1> QED
  BY <1>3, <1>4, <1>5 DEF IInv

LEMMA StutterInv == ASSUME IInv, UNCHANGED vars PROVE IInv'
BY DEF IInv, vars, TypeInv, FillInv, LedgerInv, SupplyInv, CollateralTracksPool, Solvent,
       Unpaid, Settlement, Near

LEMMA NextInv == ASSUME IInv, [Next]_vars PROVE IInv'
BY ElapseInv, ChooseInv, ChooseAgainInv, AddInv, SettleInv, DonateInv, RemoveInv, RefuseInv,
   StutterInv
DEF Next

LEMMA Inductive == Spec => []IInv
BY InitInv, NextInv, PTL DEF Spec

-----------------------------------------------------------------------------
\* The types, with a solvent ledger in every state, also in the middle of a
\* route: no fill, collection or rollback drives a book below zero.
THEOREM LedgerStaysSolvent == Spec => []TypeInv
<1>1. IInv => TypeInv
  BY DEF IInv
<1> QED
  BY Inductive, <1>1, PTL

\* After a fill the collateral is the circulating LP, up to the gap the actor
\* tolerates and one reconciliation error, whatever the slips of the adds.
THEOREM CollateralCorrect == Spec => []CollateralTracksPool
<1>1. IInv => CollateralTracksPool
  BY DEF IInv
<1> QED
  BY Inductive, <1>1, PTL
-----------------------------------------------------------------------------
Books(l) == l.cash + l.minted - l.redeemed

\* No leg of a route changes what the books say of the cash.
LEMMA BooksKept == ASSUME IInv, [Next]_vars PROVE Books(ledger') = Books(ledger)
<1>1. TypeInv /\ LedgerInv /\ Unpaid \in Nat
  BY UnpaidIsNat DEF IInv
<1>2. CASE UNCHANGED ledger
  BY <1>2
<1>3. CASE Settle
  BY <1>1, <1>3, SettleEffect
  DEF Books, Settle, LedgerInv, Unpaid, TypeInv, SavedSet, LedgerSet, FillSet, Positive
<1>4. CASE DonateInterest
  <2>1. /\ Settlement \in Nat
        /\ ledger.cash = saved.ledger.cash + fill.pays
        /\ ledger.minted = ledger.debt + ledger.redeemed - Unpaid
    BY <1>1, <1>4, DonateEffect DEF LedgerInv, DonateInterest
  <2> QED
    BY <1>1, <1>4, <2>1, DonateEffect DEF Books, TypeInv, SavedSet, LedgerSet, FillSet
<1>5. CASE Refuse
  <2>1. ledger' = saved.ledger
    BY <1>5 DEF Refuse, Rollback
  <2>2. CASE pc \in {"add", "again", "correct"}
    BY <1>1, <2>1, <2>2 DEF LedgerInv
  <2>3. CASE pc = "donate"
    BY <1>1, <2>1, <2>3
    DEF LedgerInv, TypeInv, Books, Unpaid, SavedSet, LedgerSet, FillSet, Positive
  <2>4. CASE pc = "remove"
    <3>1. Settlement \in Int
      BY <1>1 DEF Settlement, Lesser, TypeInv, SavedSet, LedgerSet, FillSet
    <3> QED
      BY <1>1, <2>1, <2>4, <3>1
      DEF LedgerInv, TypeInv, Books, Unpaid, SavedSet, LedgerSet, FillSet, Positive
  <2> QED
    BY <1>5, <2>2, <2>3, <2>4 DEF Refuse
<1> QED
  BY <1>2, <1>3, <1>4, <1>5
  DEF Next, vars, Elapse, Choose, ChooseAgain, FirstAdd, TopUp, Trim, KeepAdd, RemoveLp

\* Cash plus what was minted less what was redeemed is the same at every step,
\* inside a route as between routes.
THEOREM BooksCorrect == Spec => CashMatchesBooks
<1>1. IInv /\ [Next]_vars
        => [ledger'.cash + ledger'.minted - ledger'.redeemed
              = ledger.cash + ledger.minted - ledger.redeemed]_vars
  BY BooksKept DEF Books
<1> QED
  BY Inductive, <1>1, PTL DEF Spec, CashMatchesBooks

-----------------------------------------------------------------------------
(* The refinement *)

LEMMA InitRefines == Init => Promise!Init
<1> SUFFICES ASSUME Init PROVE Promise!Init
  OBVIOUS
<1>1. TypeInv /\ pc = "idle" /\ pool.donated = 0
  BY InitInv DEF IInv, Init
<1>2. Seen = [ledger |-> ledger, owed |-> owed, pool |-> pool]
  BY <1>1 DEF Seen
<1> QED
  BY <1>1, <1>2 DEF Promise!Init, DebtNow, TypeInv, Solvent, LedgerSet, PoolSet

\* A step inside a route, its start and its refusal are not seen.
LEMMA HiddenSteps ==
  ASSUME IInv, [Next]_vars,
         ~ \E k \in 1 .. MaxDebt : Elapse(k),
         ~ (DonateInterest /\ fill.takes < 0), ~ RemoveLp
  PROVE  Seen' = Seen
<1>1. CASE UNCHANGED vars
  BY <1>1 DEF Seen, vars
<1>2. CASE \E f \in Offers : Choose(f)
  BY <1>2 DEF Seen, Choose
<1>3. CASE Refuse
  <2>1. saved \in SavedSet
    BY DEF IInv, TypeInv
  <2>2. saved = [ledger |-> saved.ledger, owed |-> saved.owed, pool |-> saved.pool]
    BY <2>1 DEF SavedSet
  <2> QED
    BY <1>3, <2>2 DEF Seen, Refuse, Rollback
<1>4. CASE /\ FirstAdd \/ TopUp \/ Trim \/ KeepAdd \/ Settle \/ DonateInterest
              \/ \E f \in Offers : ChooseAgain(f)
           /\ ~ (DonateInterest /\ fill.takes < 0)
  <2>1. pc # "idle" /\ pc' # "idle" /\ saved' = saved
    BY <1>4 DEF FirstAdd, TopUp, Trim, KeepAdd, Settle, DonateInterest, ChooseAgain
  <2> QED
    BY <2>1 DEF Seen
<1> QED
  BY <1>1, <1>2, <1>3, <1>4 DEF Next
\* A route that ends with its interest settled is one fill of the abstract ledger.
LEMMA RouteIsFill ==
  ASSUME TypeInv, FillInv, pc # "idle", pc' = "idle",
         ledger' \in LedgerSet, owed' = 0,
         ledger'.debt = saved.ledger.debt + saved.owed - fill.pays,
         ledger'.redeemed = saved.ledger.redeemed + Positive(fill.pays),
         ledger'.cash = saved.ledger.cash + fill.pays - Settlement,
         ledger'.minted = ledger'.debt + ledger'.redeemed - Unpaid + Settlement,
         ledger'.lt = 0,
         pool'.donated = saved.pool.donated + saved.ledger.lt + Settlement
  PROVE  Promise!Fill
<1>1. Seen = saved /\ Seen' = [ledger |-> ledger', owed |-> owed', pool |-> pool']
  BY DEF Seen
<1>2. /\ DebtNow = saved.ledger.debt + saved.owed
      /\ DebtNow' = DebtNow - fill.pays
      /\ {DebtNow, DebtNow', fill.pays} \subseteq Int
  BY <1>1 DEF DebtNow, TypeInv, SavedSet, LedgerSet, FillSet
<1>3. DebtNow - DebtNow' = fill.pays
  BY <1>2
<1>4. /\ DebtNow + Seen.ledger.redeemed - Seen.ledger.minted = Unpaid
      /\ (DebtNow + Seen.ledger.redeemed - Seen.ledger.minted)' = Unpaid - Settlement
  BY <1>1, <1>2 DEF Unpaid, Settlement, Lesser, DebtNow, TypeInv, SavedSet, LedgerSet, FillSet
<1>5. Promise!LeastOf(Unpaid, Seen.ledger.cash + fill.pays) = Settlement
  BY <1>1 DEF Promise!LeastOf, Settlement, Lesser
<1>6. /\ fill.pays # 0 /\ DebtNow' >= 0 /\ Seen.ledger.cash + fill.pays >= 0
  BY <1>1, <1>2 DEF FillInv, TypeInv, SavedSet, LedgerSet, FillSet
<1>7. /\ Seen'.ledger.cash = Seen.ledger.cash + fill.pays - Settlement
      /\ Seen'.ledger.lt = 0
      /\ Seen'.pool.donated = Seen.pool.donated + Seen.ledger.lt + Settlement
  BY <1>1
<1> QED
  BY <1>3, <1>4, <1>5, <1>6, <1>7 DEF Promise!Fill

LEMMA NextRefines == ASSUME IInv, [Next]_vars PROVE [Promise!Next]_(Promise!lvars)
<1>1. TypeInv /\ FillInv /\ LedgerInv
  BY DEF IInv
<1>2. CASE Seen' = Seen
  BY <1>2 DEF Promise!lvars, DebtNow
<1>3. ASSUME NEW k \in 1 .. MaxDebt, Elapse(k) PROVE Promise!Accrue
  <2>1. k \in Nat /\ k > 0
    BY BoundsAssumption
  <2>2. /\ Seen = [ledger |-> ledger, owed |-> owed, pool |-> pool]
        /\ Seen' = [ledger |-> ledger, owed |-> owed + k, pool |-> pool]
    BY <1>3 DEF Elapse, Seen
  <2>3. DebtNow = ledger.debt + owed /\ DebtNow' = ledger.debt + (owed + k)
    BY <2>2 DEF DebtNow
  <2> QED
    BY <1>1, <2>1, <2>2, <2>3 DEF Promise!Accrue, TypeInv, LedgerSet
<1>4. ASSUME DonateInterest, fill.takes < 0 PROVE Promise!Fill
  BY <1>1, <1>4, DonateEffect, RouteIsFill DEF DonateInterest, LedgerInv
<1>5. ASSUME RemoveLp PROVE Promise!Fill
  BY <1>1, <1>5, RouteIsFill DEF RemoveLp, LedgerInv, TypeInv
<1> QED
  BY <1>2, <1>3, <1>4, <1>5, HiddenSteps DEF Promise!Next

\* try_fire is atomic: seen from its caller, every step is an accrual of
\* interest, one whole fill, or nothing.
THEOREM RouteIsAtomic == Spec => ImplementsLedger
BY Inductive, InitRefines, NextRefines, PTL DEF Spec, ImplementsLedger, Promise!Spec
=============================================================================

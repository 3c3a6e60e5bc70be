----------------------------- MODULE ArbDecision -----------------------------
(***************************************************************************)
(* execute_arb (event_loop.hpp): the native arbitrageur at one event.  The *)
(* trade is sized under the context the event starts with and again under  *)
(* every alternative: each report on offer, or no report at all.  Only the *)
(* research context changes between these searches; the best of them is    *)
(* committed once, under the context it was sized for.                     *)
(*                                                                         *)
(* MayAct is the fast cursor's test of the same event, which must not      *)
(* skip one at which execute_arb would trade or record a loss.             *)
(***************************************************************************)
EXTENDS TradeSizing

VARIABLES
  alts,                \* contexts still to be compared
  dec, win,            \* dec and winning_context
  answers              \* history: the decision of each context sized

decisionVars == <<alts, dec, win, answers>>
arbVars == <<sizingVars, decisionVars>>

Unsized == [sized |-> FALSE, trade |-> FALSE, dx |-> 0, profit |-> 0]

-----------------------------------------------------------------------------
(* The gates before any sizing, and the fast cursor's. *)

\* native_may_trade: the event price clears the fee floor in a direction.
NativeMayTrade(e) == \E d \in Directions : Edge(e, d) > e.floor

\* The context of the event: one-shot policies have the report already.
StartContext(e) ==
  IF e.reports \in {"latest", "cached"} /\ e.offered > 0 THEN 1 ELSE 0

\* The contexts compared with it: withholding a report that was delivered, the one
\* report of a fixed or drawn offset, or every report of the window.
Alternatives(e) ==
  IF e.offered = 0 THEN << >>
  ELSE CASE e.reports = "cached"  -> <<0>>
         [] e.reports = "one"     -> <<1>>
         [] e.reports = "many"    -> [k \in 1 .. e.offered |-> k]
         [] OTHER                 -> << >>

\* The first unit's edge, at the fee of the context, clears the entry threshold.
EntryClears(e) ==
  e.entry > 0 =>
    \E d \in Directions : Edge(e, d) - e.fee[StartContext(e)] > e.entry

\* Mutant of ReportedMayAct: only what the reports might earn is looked at.
ReportsAloneMayAct(e) ==
  \E c \in 1 .. e.offered, d \in Directions : Edge(e, d) > e.floor /\ e.may[c][d]

\* reported_sizing_may_act: withholding is sized first, and even its loss counts;
\* an offered report acts only through the policy's profit bound.
ReportedMayAct(e) ==
  \/ \A d \in Directions : e.least[0][d] <= e.floor
  \/ \E d \in Directions : Edge(e, d) > e.least[0][d]
  \/ \E c \in 1 .. e.offered, d \in Directions : Edge(e, d) > e.floor /\ e.may[c][d]

\* indexed_may_act, the native part.
MayAct(e) ==
  NativeMayTrade(e) /\ (e.reports \in {"one", "many"} => ReportedMayAct(e))

-----------------------------------------------------------------------------
NoPreviews == [s \in {Slot[k] : k \in DOMAIN Slot} |-> Empty]

\* A search starts with nothing of the last one.
Cleared ==
  /\ dir' = 0 /\ seed' = 0 /\ cap' = 0 /\ rungs' = {} /\ seen' = << >>
  /\ evals' = 0 /\ best' = NoBest /\ tri' = NoTri /\ back' = "none"
  /\ ends' = NoEnds /\ tries' = 0 /\ answer' = NoTrade

Init ==
  /\ ev \in Events /\ ctx = 0 /\ only = FALSE /\ phase = "event"
  /\ dir = 0 /\ seed = 0 /\ cap = 0 /\ rungs = {} /\ seen = << >>
  /\ evals = 0 /\ best = NoBest /\ tri = NoTri /\ back = "none"
  /\ ends = NoEnds /\ tries = 0 /\ answer = NoTrade
  /\ previews = NoPreviews
  /\ alts = << >> /\ dec = Unsized /\ win = 0 /\ answers = {}

\* execute_arb gets past its gates.
ExecuteArb(e) ==
  /\ phase = "event"
  /\ NativeMayTrade(e) /\ EntryClears(e)
  /\ ev' = e /\ ctx' = StartContext(e) /\ alts' = Alternatives(e)
  /\ only' = FALSE /\ phase' = "gate"
  /\ previews' = NoPreviews
  /\ dec' = Unsized /\ win' = 0 /\ answers' = {}
  /\ UNCHANGED searchVars

\* Mutant of Replaces: the last trade wins.
ReplacesAlways == ~dec.sized \/ answer.trade

\* The first decision stands, profitable or not, until a better trade replaces it.
Replaces ==
  ~dec.sized \/ (answer.trade /\ (~dec.trade \/ answer.profit > dec.profit))

Decision ==
  [sized |-> TRUE, trade |-> answer.trade, dx |-> answer.dx, profit |-> answer.profit]

\* consider: the decision of this context is compared and the next one is sized.
Consider ==
  /\ phase = "sized"
  /\ answers' = answers \cup {[trade |-> answer.trade, profit |-> answer.profit]}
  /\ dec' = IF Replaces THEN Decision ELSE dec
  /\ win' = IF Replaces THEN ctx ELSE win
  /\ IF alts = << >>
     THEN phase' = "decided" /\ ctx' = win' /\ previews' = NoPreviews /\ UNCHANGED <<alts, only>>
     ELSE phase' = "gate" /\ ctx' = Head(alts) /\ alts' = Tail(alts) /\ only' = TRUE
          /\ UNCHANGED previews
  /\ Cleared
  /\ UNCHANGED ev

\* No trade; a loss that was only guarded against is recorded, or the best trade is
\* committed under its context, or reverts.
Finish ==
  /\ phase = "decided"
  /\ phase' = "event"
  /\ ctx' = 0 /\ only' = FALSE /\ dec' = Unsized /\ win' = 0 /\ answers' = {}
  /\ UNCHANGED <<ev, searchVars, alts, previews>>

Next ==
  \/ \E e \in Events : ExecuteArb(e)
  \/ SizingStep /\ UNCHANGED decisionVars
  \/ Consider \/ Finish

Spec == Init /\ [][Next]_arbVars

-----------------------------------------------------------------------------
\* What is committed was sized under the context the pool is in when it is, earns
\* there what was promised, and no context that was compared promised more.
BestActionWins ==
  phase = "decided" =>
    /\ ctx = win
    /\ dec.trade => dec.profit = Value(ctx, dec.dx) /\ dec.profit > 0
    /\ \A a \in answers : a.trade => dec.trade /\ a.profit <= dec.profit

\* "skipping it changes nothing": where the fast cursor's test is false,
\* execute_arb neither trades nor records a loss.
SkipTestSound ==
  phase = "decided" /\ ~MayAct(ev) => ~dec.trade /\ dec.profit = 0
=============================================================================

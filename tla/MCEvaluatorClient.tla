-------------------------- MODULE MCEvaluatorClient --------------------------
(* EvaluatorClient with calls that succeed, calls the evaluator refuses and a *)
(* batch whose sidecar directory cannot be made.                             *)
EXTENDS EvaluatorClient

Req(type, sid, g, cands, flaws) ==
  [NoRequest EXCEPT !.type = type, !.sid = sid, !.grid = g, !.cands = cands, !.flaws = flaws]

MCRequests ==
  {Req("open_session", "s1", "", <<>>, f) : f \in {{}, {"load"}, {"reply"}}} \cup
  {Req("open_session", "s2", "", <<>>, {})} \cup
  {Req("register_grid", "", "g1", <<>>, {})} \cup
  {Req("evaluate_batch", "", "", <<1>>, f) : f \in {{}, {"directory"}}} \cup
  {Req("close_session", s, "", <<>>, {}) : s \in {"", "s2"}}
=============================================================================

-------------------------- MODULE MCEvaluatorServer --------------------------
(* EvaluatorServer with a peer that sends requests of every kind: two sessions, *)
(* two grids, batches in and out of order, and one flaw of each group.          *)
EXTENDS EvaluatorServer

Req(type, sid, g, cands, flaws) ==
  [rid |-> 0, type |-> type, sid |-> sid, grid |-> g, cands |-> cands, flaws |-> flaws]

Sids == {"s1", "s2"}

Opens ==
  {Req("open_session", s, "", <<>>, {}) : s \in Sids \cup {""}} \cup
  {Req("open_session", "s1", "", <<>>, f) : f \in {{"argument"}, {"load"}, {"reply"}}}

Grids ==
  {Req("register_grid", "s1", g, <<>>, {}) : g \in {"", "g1", "g2"}} \cup
  {Req("register_grid", "s2", "g1", <<>>, {}),
   Req("register_grid", "s1", "g1", <<>>, {"argument"})}

\* A batch of candidates, and one of grid ranges, in order, out of order and malformed.
Batches ==
  {Req("evaluate_batch", "s1", "", c, {}) : c \in {<<>>, <<1, 1>>, <<2, 1>>}} \cup
  {Req("evaluate_batch", "s1", "", <<2, 1>>, {f}) :
     f \in {"argument", "observation", "candidate", "not_finite", "scenario", "directory", "reply"}} \cup
  {Req("evaluate_batch", "s1", g, <<1, 2>>, {}) : g \in {"g1", "g2"}} \cup
  {Req("evaluate_batch", "s1", "g1", <<2, 1>>, {}),
   Req("evaluate_batch", "s1", "g1", <<>>, {"ranges"}),
   Req("evaluate_batch", "s2", "", <<1>>, {})}

Closes == {Req("close_session", s, "", <<>>, {}) : s \in Sids}

Others ==
  {Req("shutdown", "", "", <<>>, f) : f \in {{}, {"field"}}} \cup
  {Req("evaluate_batch", "s1", "", <<1>>, {f}) : f \in {"json", "object", "protocol"}} \cup
  {Req("cancel_batch", "s1", "", <<>>, {})}

\* A session, and a full-trace batch whose artifact directory cannot be made.
DirectoryRequests ==
  Opens \cup {Req("evaluate_batch", "s1", "", <<1>>, f) : f \in {{}, {"directory"}}}

MCRequests == Opens \cup Grids \cup Batches \cup Closes \cup Others
=============================================================================

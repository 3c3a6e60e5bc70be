----------------------------- MODULE MCEventLoop -----------------------------
(* EventLoop on tapes with regular events, with a gap longer than the periods *)
(* of the schedules, and with a start before the first event.                 *)
EXTENDS EventLoop

MCTapes == {<<1, 2, 3, 4, 5, 6>>, <<2, 3, 5, 7, 8>>, <<3, 4, 9, 10, 11>>}
MCPrices == 1 .. 4
MCLevels == 0 .. 2
MCAccrued == [t \in 0 .. 14 |-> t \div 3]
=============================================================================

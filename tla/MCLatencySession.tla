-------------------------- MODULE MCLatencySession --------------------------
(***************************************************************************)
(* A client with two orders and two cancellations for TLC.  Every order    *)
(* can be filled at once, in part, or be left to rest or expire, by the    *)
(* order the messages come in.                                             *)
(***************************************************************************)
EXTENDS LatencySession

Order(side, price, quantity) == [side |-> side, price |-> price, quantity |-> quantity]

\* A bid that crosses the touch and rests in part, a market order that finds
\* too little.
MCRequests == {Order("BUY", 101, 3), Order("SELL", 0, 3)}

\* An ask moved into the bids.
MCQuotes == {Order("SELL", 99, 3)}

MCSweeps == {Order("SELL", 0, 3)}

\* A name of the simulated market's own and one it shares with the client.
MCNames == {-3, 1}

\* The best ask and an order of the client's.
MCTargets == {-2, 1}
=============================================================================

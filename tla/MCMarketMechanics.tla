------------------------- MODULE MCMarketMechanics -------------------------
(***************************************************************************)
(* Three small markets for TLC: one per self-trade prevention mode for the *)
(* continuous session and for auctions, and one with protections, a        *)
(* schedule and a minimum quantity.                                        *)
(***************************************************************************)
EXTENDS MarketMechanics

Order(type, side, quantity, price, account, lifetime) ==
  [type |-> type, side |-> side, quantity |-> quantity, price |-> price,
   account |-> account, lifetime |-> lifetime, postOnly |-> FALSE,
   auction |-> FALSE, until |-> 0]

Continuous ==
  {Order("LIMIT", "SELL", 2, 10, "A", "DAY"),
   Order("LIMIT", "SELL", 1, 11, "B", "GTC"),
   Order("LIMIT", "BUY", 2, 11, "A", "FOK"),
   Order("LIMIT", "BUY", 2, 10, "B", "SESSION"),
   [Order("LIMIT", "BUY", 1, 10, "A", "GTC") EXCEPT !.postOnly = TRUE]}

Auction ==
  {[q EXCEPT !.auction = TRUE] : q \in
     {Order("MARKET", "BUY", 2, 0, "A", "DAY"),
      Order("LIMIT", "SELL", 1, 10, "A", "GTC"),
      Order("LIMIT", "SELL", 2, 11, "B", "DAY"),
      Order("LIMIT", "BUY", 1, 11, "B", "GTC"),
      [Order("LIMIT", "BUY", 3, 12, "B", "GOOD_UNTIL_TIME") EXCEPT !.until = 1]}}

Protected ==
  {Order("LIMIT", "SELL", 2, 10, "A", "GTC"),
   Order("LIMIT", "SELL", 3, 12, "B", "SESSION"),
   Order("MARKET", "BUY", 3, 0, "B", "DAY"),
   Order("LIMIT", "BUY", 3, 10, "B", "IOC"),
   Order("MARKETABLE_LIMIT", "BUY", 3, 12, "A", "DAY"),
   [Order("LIMIT", "BUY", 3, 11, "A", "GOOD_UNTIL_TIME") EXCEPT !.until = 2]}

MCRequests(r) == CASE r.flow = "continuous" -> Continuous
                   [] r.flow = "auction"    -> Auction
                   [] r.flow = "protected"  -> Protected

Modes == {"NONE", "CANCEL_AGGRESSOR", "CANCEL_RESTING", "CANCEL_BOTH"}

MCRules ==
  {[flow |-> f, reference |-> 10, minimum |-> 1, collar |-> 0, volatility |-> 0,
    keepsPriority |-> TRUE, schedule |-> <<>>,
    stp |-> [a \in {"A", "B"} |-> IF a = "A" THEN m ELSE "NONE"]] :
      f \in {"continuous", "auction"}, m \in Modes}
  \cup
  {[flow |-> "protected", reference |-> 10, minimum |-> 2, collar |-> c,
    volatility |-> 3 - c, keepsPriority |-> FALSE,
    schedule |-> <<[time |-> 1, state |-> "CONTINUOUS"],
                   [time |-> 2, state |-> "CLOSING_AUCTION"]>>,
    stp |-> [a \in {"A", "B"} |-> "NONE"]] : c \in {1, 2}}
=============================================================================

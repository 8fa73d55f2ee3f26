----------------------------- MODULE PriceTime -----------------------------
(***************************************************************************)
(* Price-time priority in closed form, with no queue and no loop.  A book  *)
(* is a set R of resting orders, each with a side, a price, an arrival and *)
(* a quantity; an incoming order of quantity q gives every resting order   *)
(* what all those that precede it leave of q.  PriceTimeMarket is built    *)
(* from these operators and OrderBook implements it; the engines that wrap *)
(* an order book use them for the book they wrap.                          *)
(***************************************************************************)
EXTENDS Integers, FiniteSetsExt

Least(a, b) == IF a < b THEN a ELSE b

\* The orders of R an incoming order may trade with; limit 0 is a market
\* order's, which takes any price.
Eligible(R, side, limit) ==
  {r \in R :
     /\ r.side # side
     /\ limit # 0 =>
          IF side = "BUY" THEN r.price <= limit ELSE r.price >= limit}

\* r is served before x: the better price first, then the earlier arrival.
Served(r, x) ==
  \/ IF r.side = "BUY" THEN r.price > x.price ELSE r.price < x.price
  \/ r.price = x.price /\ r.arrival < x.arrival

QuantityOf(S) == MapThenSumSet(LAMBDA r : r.quantity, S)

\* What the resting order r executes of an incoming quantity, among E.
Allotted(r, quantity, E) ==
  LET left == quantity - QuantityOf({x \in E : Served(x, r)})
  IN IF left <= 0 THEN 0 ELSE Least(left, r.quantity)

\* What an incoming order executes in all.
Executed(R, side, limit, quantity) ==
  Least(quantity, QuantityOf(Eligible(R, side, limit)))

\* The orders an incoming order trades with.
Makers(R, side, limit, quantity) ==
  LET E == Eligible(R, side, limit)
  IN {r \in E : Allotted(r, quantity, E) > 0}

\* The book after its makers have traded.
Swept(R, side, limit, quantity) ==
  LET E == Eligible(R, side, limit)
  IN {IF r \in E THEN [r EXCEPT !.quantity = @ - Allotted(r, quantity, E)] ELSE r :
        r \in {x \in R : x \in E => Allotted(x, quantity, E) < x.quantity}}
=============================================================================

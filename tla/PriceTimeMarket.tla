-------------------------- MODULE PriceTimeMarket --------------------------
(***************************************************************************)
(* What the matching engine promises, with no queue, no level and no loop: *)
(* a set of resting orders and the executions so far.  One step executes a *)
(* whole incoming order by the closed form of price-time priority: every   *)
(* resting order gets what the incoming quantity leaves after all those    *)
(* that precede it.                                                        *)
(***************************************************************************)
EXTENDS PriceTime

CONSTANTS Names, Ticks, Sizes

VARIABLES resting,     \* orders that rest: id, side, price, arrival, quantity
          arrivals,    \* how many orders have ever rested
          executions,  \* what was traded: maker, taker, price and quantity
          accepted     \* the names of the orders accepted so far

marketVars == <<resting, arrivals, executions, accepted>>

Open ==
  /\ resting = {}
  /\ arrivals = 0
  /\ executions = {}
  /\ accepted = {}

\* An order of this side, limit and quantity executes at once; what a limit
\* order does not execute rests behind everything that already rests.
Accept(id, side, limit, quantity) ==
  LET E    == Eligible(resting, side, limit)
      left == quantity - Executed(resting, side, limit, quantity)
      kept == Swept(resting, side, limit, quantity)
      mine == [id |-> id, side |-> side, price |-> limit,
               arrival |-> arrivals + 1, quantity |-> left]
  IN /\ id \notin accepted
     /\ accepted' = accepted \cup {id}
     /\ executions' = executions \cup
          {[maker |-> r.id, taker |-> id, price |-> r.price,
            quantity |-> Allotted(r, quantity, E)] :
              r \in Makers(resting, side, limit, quantity)}
     /\ IF limit # 0 /\ left > 0
        THEN resting' = kept \cup {mine} /\ arrivals' = arrivals + 1
        ELSE resting' = kept /\ UNCHANGED arrivals

\* A resting order leaves.
Leave(r) ==
  /\ resting' = resting \ {r}
  /\ UNCHANGED <<arrivals, executions, accepted>>

\* A resting order shrinks, keeping its arrival.
Shrink(r, quantity) ==
  /\ quantity < r.quantity
  /\ resting' = (resting \ {r}) \cup {[r EXCEPT !.quantity = quantity]}
  /\ UNCHANGED <<arrivals, executions, accepted>>

Step ==
  \/ \E id \in Names, side \in {"BUY", "SELL"}, limit \in Ticks \cup {0},
        quantity \in Sizes : Accept(id, side, limit, quantity)
  \/ \E r \in resting : Leave(r)
  \/ \E r \in resting : \E q \in 1 .. r.quantity : Shrink(r, q)

Market == Open /\ [][Step]_marketVars
=============================================================================

--------------------------- MODULE BookCheckpoint ---------------------------
(***************************************************************************)
(* What OrderBook.restore demands of a checkpoint, kirby2/exchange/book.py *)
(* _decode_order_book_state and its helpers, as a predicate on the book's  *)
(* own state; and the market the book implements, PriceTimeMarket.         *)
(***************************************************************************)
EXTENDS OrderBook

Registered == {id \in Ids : Seen(id)}

\* _decode_order: conservation and the shape of every status.
DecodesOrder(o) ==
  /\ o.remaining + o.filled + o.cancelled = o.original
  /\ o.type = "CANCEL" => o.status = "APPLIED" /\ o.resting = 0
  /\ o.type # "CANCEL" =>
       /\ o.status \notin {"NEW", "APPLIED"}
       /\ IF o.remaining > 0
          THEN /\ o.type = "LIMIT"
               /\ o.resting > 0
               /\ o.status \in {"ACTIVE", "PARTIALLY_FILLED"}
          ELSE o.status \notin {"ACTIVE", "PARTIALLY_FILLED"}
       /\ o.status = "ACTIVE" => o.filled = 0
       /\ o.status \in {"PARTIALLY_FILLED", "FILLED"} => o.filled > 0
       /\ o.status \in {"CANCELLED", "EXPIRED"} => o.cancelled > 0
       /\ o.resting # 0 => o.type = "LIMIT"

\* Where an order can be queued: a side, a price, and a place in that level.
QueuePlaces ==
  UNION {{<<s, p, i>> : i \in DOMAIN queue[s][p]} : s \in Side, p \in Prices}

\* _decode_levels: queued exactly once, live, of that side and price, by
\* arrival; and the active index is what is queued.
DecodesLevels ==
  LET At(x) == queue[x[1]][x[2]][x[3]]
  IN /\ \A x \in QueuePlaces : LET o == orders[At(x)]
                               IN /\ o.side = x[1] /\ o.price = x[2]
                                  /\ o.remaining > 0
                                  /\ o.resting # 0
     /\ \A x, y \in QueuePlaces :
          /\ At(x) = At(y) => x = y
          /\ x[1] = y[1] /\ x[2] = y[2] /\ x[3] < y[3] =>
               orders[At(x)].resting < orders[At(y)].resting
     /\ {At(x) : x \in QueuePlaces} = {id \in Ids : orders[id].remaining > 0}
     /\ \A b \in prices["BUY"], a \in prices["SELL"] : b < a

\* The resting numbers of the whole history are 1 .. restingSequence.
DecodesArrivals ==
  LET rested == {id \in Registered : orders[id].resting # 0}
  IN /\ Cardinality(rested) = restingSequence
     /\ {orders[id].resting : id \in rested} = 1 .. restingSequence

\* _validate_trade_and_fill_history: two fills per trade, on the right orders,
\* and no order filled for more or less than its fills say.
DecodesHistory ==
  /\ Len(fills) = 2 * Len(trades)
  /\ \A n \in DOMAIN trades :
       LET t == trades[n]  made == fills[2 * n - 1]  taken == fills[2 * n]
       IN /\ t.maker # t.taker
          /\ orders[t.maker].type = "LIMIT"
          /\ orders[t.maker].price = t.price
          /\ orders[t.maker].side # t.side
          /\ orders[t.taker].side = t.side
          /\ made = [FillOf(t.maker, t, "maker") EXCEPT !.quantity = t.quantity]
          /\ taken = [FillOf(t.taker, t, "taker") EXCEPT !.quantity = t.quantity]
  /\ \A id \in Registered :
       orders[id].filled =
         MapThenSumSet(LAMBDA n : trades[n].quantity,
                       {n \in DOMAIN trades : id \in {trades[n].maker, trades[n].taker}})

\* The player's ledger is the sum of the player's fills.
DecodesPosition ==
  LET mine(s) == {n \in DOMAIN fills :
                    fills[n].owner = "PLAYER" /\ fills[n].side = s}
      sum(s)  == MapThenSumSet(LAMBDA n : fills[n].quantity, mine(s))
  IN position = [bought |-> sum("BUY"), sold |-> sum("SELL"),
                 net |-> sum("BUY") - sum("SELL")]

\* Between two calls the book can be saved and will be accepted again: every
\* rule restore applies holds of every state a sequence of calls leads to.
Restorable ==
  taker = NoOrder =>
    /\ \A id \in Registered : DecodesOrder(orders[id])
    /\ DecodesLevels
    /\ DecodesArrivals
    /\ DecodesHistory
    /\ DecodesPosition

-----------------------------------------------------------------------------
(* The market behind the book.  A call in its matching loop has not taken   *)
(* effect yet: what it has traded so far is put back.                       *)

Done == {n \in DOMAIN trades : trades[n].taker # taker}

InFlight(id) ==
  MapThenSumSet(LAMBDA n : trades[n].quantity,
                {n \in DOMAIN trades \ Done : trades[n].maker = id})

restingBar ==
  {[id |-> id, side |-> orders[id].side, price |-> orders[id].price,
    arrival |-> orders[id].resting,
    quantity |-> orders[id].remaining + InFlight(id)] :
     id \in {x \in Ids : x \in active \/ InFlight(x) > 0}}

executionsBar ==
  {[maker |-> trades[n].maker, taker |-> trades[n].taker,
    price |-> trades[n].price, quantity |-> trades[n].quantity] : n \in Done}

acceptedBar ==
  {id \in Registered \ {taker} : orders[id].type # "CANCEL"}

M == INSTANCE PriceTimeMarket
       WITH Names <- Ids, Ticks <- Prices, Sizes <- Quantities,
            resting <- restingBar, arrivals <- restingSequence,
            executions <- executionsBar, accepted <- acceptedBar

\* The loop over levels and queues executes what price-time priority allots
\* in one step, and nothing else moves an order or makes an execution.
ImplementsMarket == M!Market
=============================================================================

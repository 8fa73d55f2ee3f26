----------------------------- MODULE OrderBook -----------------------------
(***************************************************************************)
(* The continuous matching engine, kirby2/exchange/book.py: a book of      *)
(* limit orders, one FIFO queue for every indexed price of each side, and  *)
(* the public calls process, cancel, replace and reduce_order.             *)
(*                                                                         *)
(* A call runs alone (the engine is single threaded), and its matching     *)
(* loop trades with one resting order at a time: taker is the order that   *)
(* loop holds, NoOrder between two calls.  A call the code refuses before  *)
(* it changes anything (a duplicate order ID, an inactive reduction        *)
(* target, a reduction out of range) is no step at all.                    *)
(***************************************************************************)
EXTENDS Integers, SequencesExt

CONSTANTS Ids,         \* order and command IDs
          NoOrder,     \* no order is being matched
          Prices,      \* limit prices, in ticks
          Quantities,  \* original quantities
          Owners       \* who submits

Side      == {"BUY", "SELL"}
OrderType == {"LIMIT", "MARKET", "CANCEL"}
Status    == {"UNSEEN", "NEW", "ACTIVE", "PARTIALLY_FILLED", "FILLED",
              "CANCELLED", "EXPIRED", "APPLIED"}

ASSUME IdAssumption == NoOrder \notin Ids

\* Prices are positive ticks; every set of indexed prices has a first and a
\* last one, because a book indexes finitely many.
ASSUME PriceAssumption ==
  /\ Prices \subseteq Nat \ {0}
  /\ \A S \in SUBSET Prices : S # {} =>
       \E low, high \in S : \A p \in S : low <= p /\ p <= high

ASSUME QuantityAssumption == Quantities \subseteq Nat \ {0}

ASSUME OwnerAssumption == Owners \subseteq {"PLAYER", "SIMULATED"}

VARIABLES orders,           \* _all_orders, by ID; status UNSEEN: not registered
          active,           \* _active_orders, its keys
          queue,            \* the FIFO queue of each price level
          prices,           \* _bid_prices and _ask_prices, the indexed levels
          restingSequence,  \* the arrival counter of resting orders
          trades, fills,    \* what was executed, in order
          position,         \* the player's bought, sold and net quantity
          taker             \* the incoming order of the matching loop

history == <<trades, fills, position>>
vars == <<orders, active, queue, prices, restingSequence, trades, fills,
          position, taker>>

Order == [type : OrderType, side : Side \cup {"NONE"}, price : Prices \cup {0},
          owner : Owners \cup {"SIMULATED"}, original : Nat, remaining : Nat,
          filled : Nat, cancelled : Nat, resting : Nat, status : Status]

Trade == [maker : Ids, taker : Ids, price : Prices, quantity : Nat, side : Side]
Fill  == [order : Ids, owner : Owners, side : Side, quantity : Nat,
          liquidity : {"maker", "taker"}]

-----------------------------------------------------------------------------
(* Orders *)

\* What a caller submits: a pristine order, its lifecycle not begun.
Pristine(type, side, price, owner, quantity) ==
  [type |-> type, side |-> side, price |-> price, owner |-> owner,
   original |-> quantity, remaining |-> quantity, filled |-> 0,
   cancelled |-> 0, resting |-> 0, status |-> "NEW"]

Limits  == {Pristine("LIMIT", s, p, w, q) :
              s \in Side, p \in Prices, w \in Owners, q \in Quantities}
Markets == {Pristine("MARKET", s, 0, w, q) :
              s \in Side, w \in Owners, q \in Quantities}

\* A registered cancel or reduce command once it has been applied.
AppliedCommand == [Pristine("CANCEL", "NONE", 0, "SIMULATED", 0)
                     EXCEPT !.status = "APPLIED"]

Unseen == [Pristine("CANCEL", "NONE", 0, "SIMULATED", 0)
             EXCEPT !.status = "UNSEEN"]

ApplyFill(o, q) ==
  [o EXCEPT !.remaining = o.remaining - q,
            !.filled = o.filled + q,
            !.status = IF o.remaining = q THEN "FILLED" ELSE "PARTIALLY_FILLED"]

CancelRemainder(o, status) ==
  [o EXCEPT !.cancelled = o.cancelled + o.remaining,
            !.remaining = 0,
            !.status = status]

\* Faulty variant: an ID is free again once its order has closed.
ActiveSeen(id) == id \in active

Seen(id) == orders[id].status # "UNSEEN"

-----------------------------------------------------------------------------
(* Price levels *)

Opposite(s) == IF s = "BUY" THEN "SELL" ELSE "BUY"

\* p is a better price than r for the orders resting on side s.
Better(s, p, r) == IF s = "BUY" THEN p > r ELSE p < r

\* Faulty variant: asks are ranked like bids.
HighestBest(s) == CHOOSE p \in prices[s] : \A r \in prices[s] : r <= p

Best(s) == CHOOSE p \in prices[s] : \A r \in prices[s] : ~Better(s, r, p)

\* Faulty variant: an equal price does not trade.
StrictIsMarketable(o) ==
  LET s == Opposite(o.side)
  IN /\ prices[s] # {}
     /\ \/ o.type = "MARKET"
        \/ Better(s, Best(s), o.price)

\* Faulty variant: the limit is tested on entry only, so that a sweep trades
\* through it.
SweepingIsMarketable(o) ==
  LET s == Opposite(o.side)
  IN /\ prices[s] # {}
     /\ \/ o.type = "MARKET"
        \/ o.filled > 0
        \/ ~Better(s, o.price, Best(s))

\* The order o trades at the best opposite price.
IsMarketable(o) ==
  LET s == Opposite(o.side)
  IN /\ prices[s] # {}
     /\ \/ o.type = "MARKET"
        \/ ~Better(s, o.price, Best(s))

\* The queue of one level becomes rest; an emptied level leaves the index.
SetLevel(s, p, rest) ==
  /\ queue' = [queue EXCEPT ![s][p] = rest]
  /\ prices' = IF rest = <<>> THEN [prices EXCEPT ![s] = @ \ {p}] ELSE prices

\* Takes a live order out of its level, PriceLevel.remove.
Unqueue(id) ==
  LET o == orders[id]
  IN \E i \in DOMAIN queue[o.side][o.price] :
       /\ queue[o.side][o.price][i] = id
       /\ SetLevel(o.side, o.price, RemoveAt(queue[o.side][o.price], i))

-----------------------------------------------------------------------------
Init ==
  /\ orders = [id \in Ids |-> Unseen]
  /\ active = {}
  /\ queue = [s \in Side |-> [p \in Prices |-> <<>>]]
  /\ prices = [s \in Side |-> {}]
  /\ restingSequence = 0
  /\ trades = <<>>
  /\ fills = <<>>
  /\ position = [bought |-> 0, sold |-> 0, net |-> 0]
  /\ taker = NoOrder

\* process of a trading order: it is registered and enters the loop.
Submit(id, o) ==
  /\ taker = NoOrder
  /\ ~Seen(id)
  /\ orders' = [orders EXCEPT ![id] = o]
  /\ taker' = id
  /\ UNCHANGED <<active, queue, prices, restingSequence, history>>

FillOf(id, t, liquidity) ==
  [order |-> id, owner |-> orders[id].owner, side |-> orders[id].side,
   quantity |-> t.quantity, liquidity |-> liquidity]

\* Faulty variant: the ledger takes every owner's fills.
CarelessApplied(p, f) ==
  IF f.side = "BUY"
  THEN [p EXCEPT !.bought = p.bought + f.quantity, !.net = p.net + f.quantity]
  ELSE [p EXCEPT !.sold = p.sold + f.quantity, !.net = p.net - f.quantity]

\* PlayerPosition.apply for one fill.
Applied(p, f) ==
  IF f.owner # "PLAYER" THEN p
  ELSE IF f.side = "BUY"
       THEN [p EXCEPT !.bought = p.bought + f.quantity, !.net = p.net + f.quantity]
       ELSE [p EXCEPT !.sold = p.sold + f.quantity, !.net = p.net - f.quantity]

\* One turn of the loop: the head of the best opposite level and the taker
\* trade the smaller of what each has left, at the maker's price.
Match ==
  /\ taker # NoOrder
  /\ orders[taker].remaining > 0
  /\ IsMarketable(orders[taker])
  /\ LET o     == orders[taker]
         s     == Opposite(o.side)
         level == queue[s][Best(s)]
         maker == Head(level)
         m     == orders[maker]
         q     == IF o.remaining < m.remaining THEN o.remaining ELSE m.remaining
         t     == [maker |-> maker, taker |-> taker, price |-> m.price,
                   quantity |-> q, side |-> o.side]
         made  == FillOf(maker, t, "maker")
         taken == FillOf(taker, t, "taker")
     IN /\ orders' = [orders EXCEPT ![maker] = ApplyFill(m, q),
                                    ![taker] = ApplyFill(o, q)]
        /\ trades' = Append(trades, t)
        /\ fills' = fills \o <<made, taken>>
        /\ position' = Applied(Applied(position, made), taken)
        /\ IF m.remaining = q
           THEN /\ active' = active \ {maker}
                /\ SetLevel(s, Best(s), Tail(level))
           ELSE UNCHANGED <<active, queue, prices>>
  /\ UNCHANGED <<restingSequence, taker>>

\* The loop has returned with quantity left: a limit order rests at the back
\* of its level.
Rest ==
  /\ taker # NoOrder
  /\ orders[taker].remaining > 0
  /\ ~IsMarketable(orders[taker])
  /\ orders[taker].type = "LIMIT"
  /\ LET o == orders[taker]
     IN /\ orders' = [orders EXCEPT
             ![taker] = [o EXCEPT
               !.resting = restingSequence + 1,
               !.status = IF o.filled = 0 THEN "ACTIVE" ELSE o.status]]
        /\ queue' = [queue EXCEPT ![o.side][o.price] = Append(@, taker)]
        /\ prices' = [prices EXCEPT ![o.side] = @ \cup {o.price}]
  /\ restingSequence' = restingSequence + 1
  /\ active' = active \cup {taker}
  /\ taker' = NoOrder
  /\ UNCHANGED history

\* ... and a market order expires.
Expire ==
  /\ taker # NoOrder
  /\ orders[taker].remaining > 0
  /\ ~IsMarketable(orders[taker])
  /\ orders[taker].type = "MARKET"
  /\ orders' = [orders EXCEPT ![taker] = CancelRemainder(@, "EXPIRED")]
  /\ taker' = NoOrder
  /\ UNCHANGED <<active, queue, prices, restingSequence, history>>

\* The incoming order was filled completely.
Filled ==
  /\ taker # NoOrder
  /\ orders[taker].remaining = 0
  /\ taker' = NoOrder
  /\ UNCHANGED <<orders, active, queue, prices, restingSequence, history>>

\* The effect of a cancel command on a live target; the other IDs of orders
\* that the call changes too are in the function change.
Withdraw(target, change) ==
  /\ Unqueue(target)
  /\ active' = active \ {target}
  /\ orders' = [id \in Ids |->
       IF id = target THEN CancelRemainder(orders[target], "CANCELLED")
       ELSE IF id \in DOMAIN change THEN change[id] ELSE orders[id]]

Command(id) == [c \in {id} |-> AppliedCommand]

\* cancel: an inactive target rejects the command, which stays registered.
Cancel(target, command) ==
  /\ taker = NoOrder
  /\ ~Seen(command)
  /\ IF target \in active
     THEN Withdraw(target, Command(command))
     ELSE /\ orders' = [orders EXCEPT ![command] = AppliedCommand]
          /\ UNCHANGED <<active, queue, prices>>
  /\ UNCHANGED <<restingSequence, history, taker>>

\* replace: cancel the target and, if it was live, process the new limit
\* order.  Only the new order's ID is checked beforehand: when the command
\* has the same ID, the target is gone and registering the new order raises.
Replace(target, command, id, o) ==
  /\ taker = NoOrder
  /\ ~Seen(id)
  /\ ~Seen(command)
  /\ IF target \notin active
     THEN /\ orders' = [orders EXCEPT ![command] = AppliedCommand]
          /\ UNCHANGED <<active, queue, prices, taker>>
     ELSE IF command = id
     THEN /\ Withdraw(target, Command(command))
          /\ UNCHANGED taker
     ELSE /\ Withdraw(target, [c \in {command, id} |->
                                 IF c = id THEN o ELSE AppliedCommand])
          /\ taker' = id
  /\ UNCHANGED <<restingSequence, history>>

\* Faulty variant: the reduced order goes to the back of its queue.
RequeueingReduce(target, total, command) ==
  /\ taker = NoOrder
  /\ target \in active
  /\ LET o == orders[target]
         q == queue[o.side][o.price]
         reduction == o.filled + o.remaining - total
     IN /\ o.filled < total
        /\ total < o.filled + o.remaining
        /\ ~Seen(command)
        /\ orders' = [orders EXCEPT
             ![target] = [o EXCEPT !.remaining = o.remaining - reduction,
                                   !.cancelled = o.cancelled + reduction,
                                   !.resting = restingSequence + 1],
             ![command] = AppliedCommand]
        /\ queue' = [queue EXCEPT ![o.side][o.price] = Append(Remove(q, target), target)]
  /\ restingSequence' = restingSequence + 1
  /\ UNCHANGED <<active, prices, history, taker>>

\* reduce_order: the target keeps its place in the queue and its status.
Reduce(target, total, command) ==
  /\ taker = NoOrder
  /\ target \in active
  /\ LET o == orders[target]
         reduction == o.filled + o.remaining - total
     IN /\ o.filled < total
        /\ total < o.filled + o.remaining
        /\ ~Seen(command)
        /\ orders' = [orders EXCEPT
             ![target] = [o EXCEPT !.remaining = o.remaining - reduction,
                                   !.cancelled = o.cancelled + reduction],
             ![command] = AppliedCommand]
  /\ UNCHANGED <<active, queue, prices, restingSequence, history, taker>>

Loop == Match \/ Rest \/ Expire \/ Filled

\* The IDs a call can still use; none while the loop runs.
Free == {id \in Ids : taker = NoOrder /\ ~Seen(id)}

Next ==
  \/ \E id \in Free, o \in Limits \cup Markets : Submit(id, o)
  \/ Loop
  \/ \E target \in Ids, command \in Free : Cancel(target, command)
  \/ \E target \in Ids, command, id \in Free, o \in Limits :
       Replace(target, command, id, o)
  \/ \E target \in active, command \in Free :
       \E q \in Quantities : \E total \in 1 .. q :
         Reduce(target, total, command)

Spec == Init /\ [][Next]_vars

-----------------------------------------------------------------------------
(* Invariants *)

TypeOK ==
  /\ orders \in [Ids -> Order]
  /\ active \in SUBSET Ids
  /\ queue \in [Side -> [Prices -> Seq(Ids)]]
  /\ prices \in [Side -> SUBSET Prices]
  /\ restingSequence \in Nat
  /\ trades \in Seq(Trade)
  /\ fills \in Seq(Fill)
  /\ position \in [bought : Nat, sold : Nat, net : Int]
  /\ taker \in Ids \cup {NoOrder}

\* No quantity is lost or made: what an order asked for is filled, cancelled
\* or still wanted (Order.apply_fill, cancel_remainder, reduce_order).
Conserved ==
  \A id \in Ids : LET o == orders[id]
                  IN o.original = o.filled + o.cancelled + o.remaining

\* A level is indexed exactly while it has orders (_rest, _remove_level).
LevelsIndexed ==
  \A s \in Side, p \in Prices : p \in prices[s] <=> queue[s][p] # <<>>

\* Every queued order is a live limit order of that side and price, and every
\* live order is queued.
QueuedAreLive ==
  \A s \in Side, p \in Prices : \A i \in DOMAIN queue[s][p] :
    LET id == queue[s][p][i]  o == orders[id]
    IN /\ id \in active
       /\ o.type = "LIMIT" /\ o.side = s /\ o.price = p

ActiveAreQueued ==
  \A id \in active :
    LET o == orders[id]
    IN /\ o.remaining > 0
       /\ o.resting \in 1 .. restingSequence
       /\ o.status = IF o.filled = 0 THEN "ACTIVE" ELSE "PARTIALLY_FILLED"
       /\ o.side \in Side
       /\ o.price \in Prices
       /\ o.owner \in Owners
       /\ \E i \in DOMAIN queue[o.side][o.price] : queue[o.side][o.price][i] = id

\* A queue is in order of arrival (PriceLevel.add and remove, reduce_order).
FirstInFirst ==
  \A s \in Side, p \in Prices : \A i, j \in DOMAIN queue[s][p] :
    i < j => orders[queue[s][p][i]].resting < orders[queue[s][p][j]].resting

\* Bids stay below asks, also between two turns of the matching loop.
NotCrossed ==
  \A b \in prices["BUY"], a \in prices["SELL"] : b < a

\* The order in the matching loop is new to the book: it does not rest yet.
TakerIsIncoming ==
  taker # NoOrder =>
    LET o == orders[taker]
    IN /\ taker \notin active
       /\ o.resting = 0
       /\ o.side \in Side
       /\ \/ o.type = "MARKET"
          \/ o.type = "LIMIT" /\ o.price \in Prices
       /\ o.owner \in Owners
       /\ o.status = IF o.filled = 0 THEN "NEW"
                     ELSE IF o.remaining = 0 THEN "FILLED"
                     ELSE "PARTIALLY_FILLED"

\* The inductive invariant: what assert_order_book_invariants requires of the
\* queues, and what the loop adds to it while it runs.
BookSound ==
  /\ TypeOK
  /\ Conserved
  /\ LevelsIndexed
  /\ QueuedAreLive
  /\ ActiveAreQueued
  /\ FirstInFirst
  /\ NotCrossed
  /\ TakerIsIncoming

-----------------------------------------------------------------------------
(* Properties of steps *)

\* The order id has a claim on the next trade with side s before the order x:
\* a better price, or the same price and an earlier arrival.
Precedes(x, id, s) ==
  \/ Better(s, orders[x].price, orders[id].price)
  \/ orders[x].price = orders[id].price /\ orders[x].resting < orders[id].resting

\* Price-time priority: an order is filled as a maker only when no other live
\* order of its side precedes it (_match takes the head of the best level).
PriceTimePriority ==
  [][\A id \in active : orders'[id].filled # orders[id].filled =>
       \A x \in active : orders[x].side = orders[id].side =>
         ~Precedes(x, id, orders[id].side)]_vars

\* An order that has left the book never comes back and its quantities are
\* final, whatever command names it afterwards.
ClosedIsFinal ==
  [][\A id \in Ids :
       /\ orders[id].status # "UNSEEN" /\ id \notin active /\ id # taker
       => orders'[id] = orders[id] /\ id \notin active']_vars

\* a waits before b in the queue of one level.
Before(a, b) ==
  LET q == queue[orders[a].side][orders[a].price]
  IN \E i, j \in DOMAIN q : i < j /\ q[i] = a /\ q[j] = b

\* A live order keeps its place: while two orders stay live they never swap,
\* and a reduction in particular costs no priority (reduce_order).
PlacesAreKept ==
  [][\A a, b \in active \cap active' : Before(a, b) => Before(a, b)']_vars
=============================================================================

--------------------------- MODULE LatencySession ---------------------------
(***************************************************************************)
(* A client that trades over a slow line: AsynchronousExecutionSession of  *)
(* kirby2/latency/engine.py.  Everything between the client, the gateway   *)
(* and the venue is a scheduled message whose delay is sampled, so that    *)
(* the messages in wire are handled in any order.                          *)
(*                                                                         *)
(* A message is named for the next handler that decides something.  The    *)
(* handlers that only stamp a time and pass it on (NEW_CREATED,            *)
(* NEW_GATEWAY, NEW_VENUE, CANCEL_CREATED, CANCEL_VENUE,                   *)
(* MARKET_DATA_PUBLISH, MARKET_DATA_CLIENT) make its delay longer and are  *)
(* no step of their own.  The venue's book is the closed form of           *)
(* PriceTime, which OrderBook implements.                                  *)
(*                                                                         *)
(* An order is known by its name, a number; the client's orders are named  *)
(* 1, 2, ...  The simulated market chooses its names freely, so that an    *)
(* order of its own may bear the name of one of the client's, and so that  *)
(* a repricing may withdraw an order of the client's.                      *)
(***************************************************************************)
EXTENDS PriceTime, SequencesExt

CONSTANTS Requests,   \* the orders a client may ask for
          Quotes,     \* the orders a market maker may reprice to
          Sweeps,     \* the market orders of the simulated flow
          Names,      \* the names the orders of the simulated flow may bear
          Targets,    \* the names a repricing may withdraw
          Depth,      \* quantity of the two orders the book opens with
          MaxOrders,  \* bound on the client's orders
          MaxCancels, \* bound on its cancellations
          MaxFlow     \* bound on the messages of the simulated flow

\* What a method that asks for an order or schedules one accepts: a quantity,
\* and a price unless it is a market order.
Asked == [side : {"BUY", "SELL"}, price : Nat, quantity : Nat \ {0}]

ASSUME SessionAssumption ==
  /\ Requests \subseteq Asked
  /\ Quotes \subseteq {q \in Asked : q.price # 0}
  /\ Sweeps \subseteq {q \in Asked : q.price = 0}
  /\ Names \subseteq Int /\ Targets \subseteq Int
  /\ Depth \in Nat \ {0}

VARIABLES orders,     \* what the client's side records of each order
          cancels,    \* each cancellation: its order and its outcome
          held,       \* cancellations the gateway holds back
          wire,       \* the scheduled messages
          ledger,     \* what the venue has recorded of the client's orders
          taken,      \* the names under which the venue knows simulated orders
          book,       \* the orders resting at the venue
          rested,     \* the venue's counter of resting orders
          position,   \* the player's position by the venue's fills
          reported,   \* the position by the reports the client has received
          version,    \* number of the last market state
          display,    \* the market state on the screen
          flow,       \* messages of the simulated flow so far
          failed      \* what a handler that raised half-way fell over

client == <<orders, cancels, held>>
venue == <<ledger, taken, book, rested, position, version>>
vars == <<client, wire, venue, reported, display, flow, failed>>

-----------------------------------------------------------------------------
(* The life of an order *)

Terminal == {"CANCELLED", "FILLED", "REJECTED", "EXPIRED"}

AllowedTransitions(state) ==
  CASE state = "CREATED" -> {"PENDING_NEW", "PENDING_CANCEL", "REJECTED"}
    [] state = "PENDING_NEW" ->
         {"WORKING", "PARTIALLY_FILLED", "PENDING_CANCEL", "FILLED", "REJECTED", "EXPIRED"}
    [] state = "WORKING" ->
         {"PARTIALLY_FILLED", "PENDING_CANCEL", "FILLED", "CANCELLED", "EXPIRED"}
    [] state = "PARTIALLY_FILLED" ->
         {"PENDING_CANCEL", "FILLED", "CANCELLED", "EXPIRED"}
    [] state = "PENDING_CANCEL" ->
         {"PARTIALLY_FILLED", "CANCELLED", "FILLED", "REJECTED", "EXPIRED"}
    [] OTHER -> {}

\* Faulty variant: a cancellation that has left is not expected to lose.
ProudMayBecome(o, state) ==
  \/ state = o.state
  \/ state \in AllowedTransitions(o.state) /\ ~(o.state = "PENDING_CANCEL" /\ state = "FILLED")

\* A transition to the state an order is in already is not looked up.
MayBecome(o, state) == state = o.state \/ state \in AllowedTransitions(o.state)

Remaining(o) == o.quantity - o.filled - o.closed

Sign(side) == IF side = "BUY" THEN 1 ELSE -1

Named(k) == {r \in book : r.name = k}

-----------------------------------------------------------------------------
(* What the client asks for *)

New(q) == [side |-> q.side, price |-> q.price, quantity |-> q.quantity,
           state |-> "CREATED", filled |-> 0, closed |-> 0, acked |-> FALSE]

\* _request_order: only once a market state is on the screen, and under a name
\* that the venue does not know.
RequestOrder(q) ==
  /\ Len(orders) < MaxOrders
  /\ display.version > 0
  /\ Len(orders) + 1 \notin taken
  /\ orders' = Append(orders, New(q))
  /\ ledger' = Append(ledger, [status |-> "ABSENT", filled |-> 0])
  /\ wire' = wire \cup {[kind |-> "NEW_SENT", order |-> Len(orders) + 1]}
  /\ UNCHANGED <<cancels, held, taken, book, rested, position, version,
                 reported, display, flow, failed>>

\* request_cancel: at any time, also of an order that is done.
RequestCancel(k) ==
  /\ Len(cancels) < MaxCancels
  /\ cancels' = Append(cancels, [order |-> k, outcome |-> "NONE"])
  /\ wire' = wire \cup {[kind |-> "CANCEL_SENT", cancel |-> Len(cancels) + 1]}
  /\ UNCHANGED <<orders, held, venue, reported, display, flow, failed>>

\* request_replace: a cancellation and a new order that know nothing of each
\* other.  It is refused by what the client's side knows at this moment.
RequestReplace(k, q) ==
  /\ orders[k].state \notin {"CREATED", "PENDING_NEW"} \cup Terminal
  /\ q.side = orders[k].side /\ q.price # 0
  /\ Len(orders) < MaxOrders /\ Len(cancels) < MaxCancels
  /\ Len(orders) + 1 \notin taken
  /\ cancels' = Append(cancels, [order |-> k, outcome |-> "NONE"])
  /\ orders' = Append(orders, New(q))
  /\ ledger' = Append(ledger, [status |-> "ABSENT", filled |-> 0])
  /\ wire' = wire \cup {[kind |-> "CANCEL_SENT", cancel |-> Len(cancels) + 1],
                        [kind |-> "NEW_SENT", order |-> Len(orders) + 1]}
  /\ UNCHANGED <<held, taken, book, rested, position, version, reported,
                 display, flow, failed>>

-----------------------------------------------------------------------------
(* Messages on their way to the venue *)

\* _new_sent: a cancellation may have left before its order.
NewSent(m) ==
  /\ m.kind = "NEW_SENT"
  /\ orders' = [orders EXCEPT ![m.order].state =
                  IF @ = "CREATED" THEN "PENDING_NEW" ELSE @]
  /\ wire' = (wire \ {m}) \cup {[kind |-> "NEW_PROCESS", order |-> m.order]}
  /\ UNCHANGED <<cancels, held, venue, reported, display, flow, failed>>

\* _cancel_sent
CancelSent(m) ==
  /\ m.kind = "CANCEL_SENT"
  /\ orders' = [orders EXCEPT ![cancels[m.cancel].order].state =
                  IF @ \in Terminal THEN @ ELSE "PENDING_CANCEL"]
  /\ wire' = (wire \ {m}) \cup {[kind |-> "CANCEL_GATEWAY", cancel |-> m.cancel]}
  /\ UNCHANGED <<cancels, held, venue, reported, display, flow, failed>>

\* Faulty variant: the gateway asks whether the order is waiting for its
\* acknowledgement, which an order whose cancellation has left never says.
HastyResolved(o) == o.state # "PENDING_NEW"

\* The gateway lets a cancellation pass it.
Resolved(o) == o.state \in Terminal \/ o.acked

ToVenue(S) == {[kind |-> "CANCEL_PROCESS", cancel |-> c] : c \in S}

\* _cancel_gateway
CancelGateway(m) ==
  /\ m.kind = "CANCEL_GATEWAY"
  /\ IF Resolved(orders[cancels[m.cancel].order])
     THEN /\ wire' = (wire \ {m}) \cup ToVenue({m.cancel})
          /\ held' = held
     ELSE /\ wire' = wire \ {m}
          /\ held' = held \cup {m.cancel}
  /\ UNCHANGED <<orders, cancels, venue, reported, display, flow, failed>>

HeldFor(k) == {c \in held : cancels[c].order = k}

-----------------------------------------------------------------------------
(* The venue's book *)

\* The best bid and the best ask, 0 where there is none.
Touch(R) ==
  LET Prices(side) == {r.price : r \in {x \in R : x.side = side}}
  IN [bid |-> IF Prices("BUY") = {} THEN 0 ELSE Max(Prices("BUY")),
      ask |-> IF Prices("SELL") = {} THEN 0 ELSE Min(Prices("SELL"))]

\* _record_market_change: the state R of the book is published.
Published(R) ==
  {[kind |-> "MARKET_DATA_RENDER", version |-> version + 1, touch |-> Touch(R)]}

\* The trades of an order t that comes in when B rests: with which order, how
\* much, and what t has executed by then.
Trades(t, B) ==
  LET E == Eligible(B, t.side, t.price)
  IN {[maker |-> r, quantity |-> Allotted(r, t.quantity, E),
       through |-> Allotted(r, t.quantity, E) + QuantityOf({x \in E : Served(x, r)})] :
        r \in Makers(B, t.side, t.price, t.quantity)}

\* The book B once t has traded; what is left of a limit order rests.
After(t, T, B) ==
  LET left == t.quantity - QuantityOf(T)
  IN Swept(B, t.side, t.price, t.quantity)
       \cup (IF t.price = 0 \/ left = 0 THEN {}
             ELSE {[name |-> t.name, owner |-> t.owner, side |-> t.side, price |-> t.price,
                    quantity |-> left, arrival |-> rested + 1]})

\* The fills of the order that comes in and those of the orders it meets, as
\* far as they bear the name of an order of the client: fill events name an
\* order, and _consume_exchange_events looks the name up.  upto is what that
\* order has executed by then.
TakerFills(t, T) ==
  {[order |-> t.name, quantity |-> x.quantity,
    upto |-> orders[t.name].filled + x.through,
    full |-> x.through = t.quantity] :
     x \in {y \in T : t.name \in DOMAIN orders}}

MakerFills(T) ==
  {[order |-> x.maker.name, quantity |-> x.quantity,
    upto |-> orders[x.maker.name].filled + x.quantity,
    full |-> x.quantity = x.maker.quantity] :
     x \in {y \in T : y.maker.name \in DOMAIN orders}}

Fills(t, T) == TakerFills(t, T) \cup MakerFills(T)

FillsOf(k, F) == {f \in F : f.order = k}

\* An order of the client after the fills F: record_fill and the transition.
Consumed(k, F) ==
  LET G == FillsOf(k, F)
  IN IF G = {} THEN orders[k]
     ELSE [orders[k] EXCEPT
             !.filled = @ + QuantityOf(G),
             !.state = IF \E f \in G : f.full THEN "FILLED"
                       ELSE IF @ = "PENDING_CANCEL" THEN @ ELSE "PARTIALLY_FILLED"]

\* No order takes more than it has left and no transition is refused.
Consumable(F) ==
  \A k \in {f.order : f \in F} :
     /\ QuantityOf(FillsOf(k, F)) <= Remaining(orders[k])
     /\ MayBecome(orders[k], Consumed(k, F).state)

\* A report of each fill leaves the venue.
Reports(F) == {[kind |-> "FILL_CLIENT", order |-> f.order, quantity |-> f.quantity,
                upto |-> f.upto] : f \in F}

\* What the record L of the venue becomes with t: it looks at the owner, not
\* at the name alone.
Recorded(t, T, L) ==
  LET done == QuantityOf(T)
  IN [k \in DOMAIN L |->
       IF t.name = k /\ t.owner = "PLAYER"
       THEN [filled |-> done,
             status |-> IF done = t.quantity THEN "FILLED"
                        ELSE IF t.price = 0 THEN "EXPIRED"
                        ELSE IF done > 0 THEN "PARTIALLY_FILLED" ELSE "ACTIVE"]
       ELSE LET hit == {x \in T : x.maker.name = k /\ x.maker.owner = "PLAYER"}
            IN IF hit = {} THEN L[k]
               ELSE [filled |-> L[k].filled + QuantityOf(hit),
                     status |-> IF \A x \in hit : x.quantity = x.maker.quantity
                                THEN "FILLED" ELSE "PARTIALLY_FILLED"]]

\* The player's position after t, from the fills of the player's orders.
Moved(t, T) ==
  position + (IF t.owner = "PLAYER" THEN Sign(t.side) * QuantityOf(T) ELSE 0)
           - Sign(t.side) * QuantityOf({x \in T : x.maker.owner = "PLAYER"})

\* The book R is what the venue is left with once t has made the trades T,
\* with the record L before them.
Processed(t, T, R, L) ==
  /\ book' = R
  /\ rested' = IF \E r \in R : r.arrival > rested THEN rested + 1 ELSE rested
  /\ ledger' = Recorded(t, T, L)
  /\ position' = Moved(t, T)
  /\ version' = version + 1

\* A handler raises over an order of the client's: the model stops where the
\* handler started, and says no more than that it raised.
Raises(what) ==
  /\ failed' = what
  /\ UNCHANGED <<client, wire, venue, reported, display, flow>>

-----------------------------------------------------------------------------
(* New orders at the venue *)

Taker(k) == [name |-> k, owner |-> "PLAYER", side |-> orders[k].side,
             price |-> orders[k].price, quantity |-> orders[k].quantity]

\* The state an accepted order takes from its record at the venue.  A
\* cancellation that is under way keeps it, unless the order is done.
Settled(o, status) ==
  LET state == IF status = "ACTIVE" THEN "WORKING" ELSE status
  IN IF o.state # "PENDING_CANCEL" \/ state \in {"FILLED", "EXPIRED"} THEN state ELSE o.state

\* _new_process where the venue takes the order.
Accept(m) ==
  LET k == m.order
      t == Taker(k)
      T == Trades(t, book)
      F == Fills(t, T)
      o == Consumed(k, F)
      R == After(t, T, book)
      state == Settled(o, Recorded(t, T, ledger)[k].status)
  IN /\ m.kind = "NEW_PROCESS"
     /\ k \notin taken
     /\ IF Consumable(F) /\ MayBecome(o, state)
        THEN /\ orders' = [j \in DOMAIN orders |->
                  IF j # k THEN Consumed(j, F)
                  ELSE [o EXCEPT !.state = state, !.acked = TRUE,
                                 !.closed = IF state = "EXPIRED" THEN t.quantity - o.filled
                                            ELSE @]]
             /\ Processed(t, T, R, ledger)
             /\ wire' = (wire \ {m}) \cup Reports(F) \cup ToVenue(HeldFor(k))
                          \cup {[kind |-> "NEW_ACK_CLIENT", order |-> k]}
                          \cup Published(R)
             /\ held' = held \ HeldFor(k)
             /\ UNCHANGED <<cancels, taken, reported, display, flow, failed>>
        ELSE Raises("LIFECYCLE")

\* Faulty variant: the gateway is told of acknowledgements only.
ForgottenReleased(k) == {}

\* What a refusal sets free.
Released(k) == HeldFor(k)

\* _new_process where another order already bears the name.
Reject(m) ==
  LET k == m.order
  IN /\ m.kind = "NEW_PROCESS"
     /\ k \in taken
     /\ IF MayBecome(orders[k], "REJECTED")
        THEN /\ orders' = [orders EXCEPT ![k].state = "REJECTED"]
             /\ wire' = (wire \ {m}) \cup ToVenue(Released(k))
             /\ held' = held \ Released(k)
             /\ UNCHANGED <<cancels, venue, reported, display, flow, failed>>
        ELSE Raises("LIFECYCLE")

-----------------------------------------------------------------------------
(* Cancellations at the venue *)

\* The order a cancellation of k removes: none that bears the name only.
Cancellable(k) ==
  {r \in Named(k) : r.owner = "PLAYER" /\ orders[k].state # "REJECTED"}

\* _cancel_process
CancelProcess(m) ==
  LET c == m.cancel
      k == cancels[c].order
      S == Cancellable(k)
      left == QuantityOf(S)
  IN /\ m.kind = "CANCEL_PROCESS"
     /\ IF S = {}
        THEN /\ cancels' = [cancels EXCEPT ![c].outcome = orders[k].state]
             /\ wire' = (wire \ {m}) \cup {[kind |-> "CANCEL_ACK_CLIENT", cancel |-> c]}
             /\ UNCHANGED <<orders, held, venue, reported, display, flow, failed>>
        ELSE IF left <= Remaining(orders[k]) /\ MayBecome(orders[k], "CANCELLED")
        THEN /\ cancels' = [cancels EXCEPT ![c].outcome = "WON"]
             /\ orders' = [orders EXCEPT ![k].closed = @ + left, ![k].state = "CANCELLED"]
             /\ book' = book \ S
             /\ ledger' = [ledger EXCEPT ![k].status = "CANCELLED"]
             /\ version' = version + 1
             /\ wire' = (wire \ {m}) \cup Published(book \ S)
                          \cup {[kind |-> "CANCEL_ACK_CLIENT", cancel |-> c]}
             /\ UNCHANGED <<held, taken, rested, position, reported, display, flow, failed>>
        ELSE Raises("LIFECYCLE")

-----------------------------------------------------------------------------
(* The simulated market *)

\* schedule_aggressive_order and schedule_liquidity_reprice.  The names are the
\* caller's and nothing is asked of them here: the venue is the judge when the
\* message is handled.
ScheduleFlow ==
  /\ flow < MaxFlow
  /\ flow' = flow + 1
  /\ \E n \in Names :
       \/ \E q \in Sweeps :
            wire' = wire \cup {[kind |-> "EXTERNAL_MARKET", number |-> flow + 1,
                               order |-> q, name |-> n]}
       \/ \E q \in Quotes, target \in Targets :
            wire' = wire \cup {[kind |-> "EXTERNAL_REPRICE", number |-> flow + 1,
                               order |-> q, name |-> n, target |-> target]}
  /\ UNCHANGED <<client, venue, reported, display, failed>>

Simulated(q, n) == [name |-> n, owner |-> "SIMULATED", side |-> q.side,
                    price |-> q.price, quantity |-> q.quantity]

\* The venue knows an order of that name.
Known(n) == n \in taken \/ (n \in DOMAIN ledger /\ ledger[n].status # "ABSENT")

\* _external_market
ExternalMarket(m) ==
  LET t == Simulated(m.order, m.name)
      T == Trades(t, book)
      F == Fills(t, T)
      R == After(t, T, book)
  IN /\ m.kind = "EXTERNAL_MARKET"
     /\ ~Known(m.name)
     /\ IF Consumable(F)
        THEN /\ orders' = [j \in DOMAIN orders |-> Consumed(j, F)]
             /\ Processed(t, T, R, ledger)
             /\ taken' = taken \cup {m.name}
             /\ wire' = (wire \ {m}) \cup Reports(F) \cup Published(R)
             /\ UNCHANGED <<cancels, held, reported, display, flow, failed>>
        ELSE Raises("LIFECYCLE")

\* The venue's record once the orders S are withdrawn.  The client is not told.
Withdrawn(S) ==
  [k \in DOMAIN ledger |->
     IF \E r \in S : r.name = k /\ r.owner = "PLAYER"
     THEN [ledger[k] EXCEPT !.status = "WITHDRAWN"] ELSE ledger[k]]

\* _external_reprice where its target rests, whoever's it is, and the name of
\* the new order is free.  The new order meets what the withdrawal leaves.
ExternalReprice(m) ==
  LET t == Simulated(m.order, m.name)
      S == Named(m.target)
      T == Trades(t, book \ S)
      F == Fills(t, T)
      R == After(t, T, book \ S)
  IN /\ m.kind = "EXTERNAL_REPRICE"
     /\ S # {} /\ ~Known(m.name)
     /\ IF Consumable(F)
        THEN /\ orders' = [j \in DOMAIN orders |-> Consumed(j, F)]
             /\ Processed(t, T, R, Withdrawn(S))
             /\ taken' = taken \cup {m.name}
             /\ wire' = (wire \ {m}) \cup Reports(F) \cup Published(R)
             /\ UNCHANGED <<cancels, held, reported, display, flow, failed>>
        ELSE Raises("LIFECYCLE")

\* The venue refuses the name of a market order, or the target of a repricing
\* does not rest: the handler raises before it has changed anything.
FlowRefused(m) ==
  /\ \/ m.kind = "EXTERNAL_MARKET" /\ Known(m.name)
     \/ m.kind = "EXTERNAL_REPRICE" /\ Named(m.target) = {}
  /\ wire' = wire \ {m}
  /\ UNCHANGED <<client, venue, reported, display, flow, failed>>

\* The target is withdrawn before the venue refuses the name of the new order:
\* the handler raises and has published nothing.
RepriceHalfway(m) ==
  LET S == Named(m.target)
  IN /\ m.kind = "EXTERNAL_REPRICE"
     /\ S # {} /\ Known(m.name)
     /\ book' = book \ S
     /\ ledger' = Withdrawn(S)
     /\ wire' = wire \ {m}
     /\ failed' = "REPRICE"
     /\ UNCHANGED <<client, taken, rested, position, version, reported, display, flow>>

-----------------------------------------------------------------------------
(* Messages on their way to the client *)

\* _fill_client
FillClient(m) ==
  /\ m.kind = "FILL_CLIENT"
  /\ reported' = reported + Sign(orders[m.order].side) * m.quantity
  /\ wire' = wire \ {m}
  /\ UNCHANGED <<client, venue, display, flow, failed>>

\* _new_ack_client and _cancel_ack_client.
Answer(m) ==
  /\ m.kind \in {"NEW_ACK_CLIENT", "CANCEL_ACK_CLIENT"}
  /\ wire' = wire \ {m}
  /\ UNCHANGED <<client, venue, reported, display, flow, failed>>

\* Faulty variant: whatever comes in is shown.
NeverStale(m) == FALSE

\* An update that comes in is older than what is on the screen.
Stale(m) == m.version < display.version

\* _market_data_render
Render(m) ==
  /\ m.kind = "MARKET_DATA_RENDER"
  /\ display' = IF Stale(m) THEN display ELSE [version |-> m.version, touch |-> m.touch]
  /\ wire' = wire \ {m}
  /\ UNCHANGED <<client, venue, reported, flow, failed>>

-----------------------------------------------------------------------------
Opened == {[name |-> -1, owner |-> "SIMULATED", side |-> "BUY", price |-> 99,
            quantity |-> Depth, arrival |-> 1],
           [name |-> -2, owner |-> "SIMULATED", side |-> "SELL", price |-> 101,
            quantity |-> Depth, arrival |-> 2]}

Init ==
  /\ orders = <<>> /\ cancels = <<>> /\ held = {}
  /\ ledger = <<>> /\ taken = {-1, -2}
  /\ book = Opened /\ rested = 2
  /\ position = 0 /\ reported = 0
  /\ version = 1
  /\ wire = {[kind |-> "MARKET_DATA_RENDER", version |-> 1, touch |-> Touch(Opened)]}
  /\ display = [version |-> 0, touch |-> [bid |-> 0, ask |-> 0]]
  /\ flow = 0
  /\ failed = "NONE"

\* advance_to takes the next message from the queue.
Dispatch(m) ==
  \/ NewSent(m) \/ Accept(m) \/ Reject(m)
  \/ CancelSent(m) \/ CancelGateway(m) \/ CancelProcess(m)
  \/ ExternalMarket(m) \/ ExternalReprice(m) \/ FlowRefused(m) \/ RepriceHalfway(m)
  \/ FillClient(m) \/ Answer(m) \/ Render(m)

AdvanceTo == failed = "NONE" /\ \E m \in wire : Dispatch(m)

Command ==
  /\ failed = "NONE"
  /\ \/ \E q \in Requests : RequestOrder(q)
     \/ \E k \in DOMAIN orders :
          RequestCancel(k) \/ \E q \in Requests : RequestReplace(k, q)
     \/ ScheduleFlow

Next == AdvanceTo \/ Command

Spec == Init /\ [][Next]_vars

-----------------------------------------------------------------------------
(* Properties *)

\* A simulated order bears the name of an order of the client's, and what it
\* traded was booked to that order: the session looks fills up by name.
Misled == \E k \in taken \cap DOMAIN orders : orders[k].filled > 0

\* The two ledgers of every order agree, and so do the two positions once no
\* report is on its way (assert_invariants): whatever fills, cancellations and
\* acknowledgements cross.  An order counts as working, filled, cancelled or
\* expired with the client's side exactly when the venue has it so; but the
\* client goes on working an order that a repricing has withdrawn, or asks for
\* its cancellation, though what it knows of its fills remains right.
SidesAgree ==
  ~Misled =>
    /\ position = reported
         + MapThenSumSet(LAMBDA m : Sign(orders[m.order].side) * m.quantity,
                         {m \in wire : m.kind = "FILL_CLIENT"})
    /\ \A k \in DOMAIN orders :
         LET o == orders[k] l == ledger[k]
         IN /\ o.filled = l.filled
            /\ o.state \in Terminal \ {"REJECTED"} => Remaining(o) = 0
            /\ \/ /\ l.status = "WITHDRAWN" /\ Named(k) = {}
                  /\ o.state \in {"WORKING", "PARTIALLY_FILLED", "PENDING_CANCEL"}
               \/ /\ o.state \in {"FILLED", "CANCELLED", "EXPIRED", "PARTIALLY_FILLED"} =>
                       l.status = o.state
                  /\ o.state = "WORKING" => l.status = "ACTIVE"
                  /\ o.state = "PENDING_CANCEL" =>
                       l.status \in {"ABSENT", "ACTIVE", "PARTIALLY_FILLED"}
                  /\ l.status \in {"ACTIVE", "PARTIALLY_FILLED"} =>
                       QuantityOf(Named(k)) = Remaining(o)

\* No crossing of messages makes an order take a transition its table forbids
\* or a quantity it has not got left: only a simulated order that bears a name
\* of the client's.
LifecycleHolds ==
  failed = "LIFECYCLE" =>
    \/ taken \cap DOMAIN orders # {}
    \/ \E m \in wire : /\ m.kind \in {"EXTERNAL_MARKET", "EXTERNAL_REPRICE"}
                      /\ m.name \in DOMAIN orders

\* The client's account of its orders and the venue's stay one account.
LedgersReconcile == SidesAgree /\ LifecycleHolds

\* Once no market data is on its way the screen shows the venue's touch,
\* whatever order the updates came in; unless a handler has raised half-way.
ScreenCatchesUp ==
  failed = "NONE" /\ (\A m \in wire : m.kind # "MARKET_DATA_RENDER") =>
    display.touch = Touch(book)

\* A cancellation is decided only when its order has been: none finds the
\* order unknown to the venue, only the first of them removes it, and an order
\* that is pending when its cancellation is decided is one a repricing has
\* withdrawn.
NewBeforeCancel ==
  \A c \in DOMAIN cancels :
     LET k == cancels[c].order
     IN /\ \/ cancels[c].outcome \in Terminal \cup {"NONE", "WON"}
           \/ cancels[c].outcome = "PENDING_CANCEL" /\ ledger[k].status = "WITHDRAWN"
        /\ cancels[c].outcome = "WON" =>
             /\ orders[k].state = "CANCELLED"
             /\ \A d \in DOMAIN cancels \ {c} :
                  cancels[d].order = k => cancels[d].outcome # "WON"

\* When nothing is on its way any more nothing waits: the gateway holds no
\* cancellation back, each has its outcome, and no order is pending but one that
\* a repricing has withdrawn.
NothingStuck ==
  wire = {} =>
    /\ held = {}
    /\ \A c \in DOMAIN cancels : cancels[c].outcome # "NONE"
    /\ \A k \in DOMAIN orders :
         \/ orders[k].state \in Terminal \cup {"WORKING", "PARTIALLY_FILLED"}
         \/ orders[k].state = "PENDING_CANCEL" /\ ledger[k].status = "WITHDRAWN"
=============================================================================

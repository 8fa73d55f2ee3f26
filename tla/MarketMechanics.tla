-------------------------- MODULE MarketMechanics --------------------------
(***************************************************************************)
(* The market mechanics engine, kirby2/exchange/mechanics_engine.py, and   *)
(* its auction, auction.py: sessions, instructions, time in force,         *)
(* self-trade prevention, protections and auctions around the continuous   *)
(* FIFO book.                                                              *)
(*                                                                         *)
(* The book it wraps is the closed form of PriceTime, which OrderBook      *)
(* implements.  The engine keeps its own account of every order (orders)   *)
(* beside the ledger of that book (ledger) and must keep the two in step.  *)
(* A call runs alone.  Two calls take several steps here, and call holds   *)
(* what such a call has under way: the second leg of a replacement and the *)
(* loop of an uncross.  A call that only reports a refusal is no step.     *)
(***************************************************************************)
EXTENDS PriceTime, Sequences

CONSTANTS Requests(_), \* the orders that are submitted, under given rules
          Rules,      \* the instrument rules an engine is made with
          Player,     \* the account whose orders are the player's
          MaxOrders   \* bound on the orders submitted

VARIABLES rules,      \* InstrumentRules of this engine
          session,    \* session_state
          now,        \* the simulation clock
          cursor,     \* transitions of the schedule already taken
          orders,     \* managed orders, in order of arrival
          ledger,     \* what the FIFO book has recorded of each of them
          book,       \* the orders that rest in the FIFO book
          rested,     \* the book's counter of resting orders
          lastPrice,  \* price of the last trade, 0 before the first
          position,   \* the player's net quantity, book and auctions
          call,       \* what a call has under way
          failed      \* a call raised for good: so does every later one

trading == <<orders, ledger, book, rested, lastPrice, position>>
vars == <<rules, session, now, cursor, trading, call, failed>>

-----------------------------------------------------------------------------
(* Sessions and orders *)

SessionState == {"CLOSED", "PREOPEN", "OPENING_AUCTION", "CONTINUOUS",
                 "HALTED", "REOPENING_AUCTION", "CLOSING_AUCTION", "POSTCLOSE"}

StpMode == {"NONE", "CANCEL_AGGRESSOR", "CANCEL_RESTING", "CANCEL_BOTH"}

\* The orders AdvancedOrderRequest can be made of, for the accounts of rules r.
RequestType(r) ==
  {q \in [type : {"LIMIT", "MARKET", "MARKETABLE_LIMIT"}, side : {"BUY", "SELL"},
          quantity : Nat \ {0}, price : Nat, account : DOMAIN r.stp,
          lifetime : {"IOC", "FOK", "GTC", "DAY", "SESSION", "GOOD_UNTIL_TIME"},
          postOnly : BOOLEAN, auction : BOOLEAN, until : Nat] :
     /\ q.price = 0 <=> q.type = "MARKET"
     /\ q.postOnly => q.type # "MARKET"}

\* What InstrumentRules and SessionSchedule check of the rules.
ASSUME RulesAssumption ==
  \A r \in Rules :
    /\ r.reference \in Nat \ {0} /\ r.minimum \in Nat \ {0}
    /\ r.collar \in Nat /\ r.volatility \in Nat
    /\ r.keepsPriority \in BOOLEAN
    /\ r.schedule \in Seq([time : Nat, state : SessionState])
    /\ \A a \in DOMAIN r.stp : r.stp[a] \in StpMode
    /\ Requests(r) \subseteq RequestType(r)

Allowed == [s \in SessionState |->
  CASE s = "CLOSED"            -> {"PREOPEN"}
    [] s = "PREOPEN"           -> {"OPENING_AUCTION", "CLOSED"}
    [] s = "OPENING_AUCTION"   -> {"CONTINUOUS", "HALTED", "CLOSED"}
    [] s = "CONTINUOUS"        -> {"HALTED", "CLOSING_AUCTION", "POSTCLOSE"}
    [] s = "HALTED"            -> {"REOPENING_AUCTION", "CLOSED", "POSTCLOSE"}
    [] s = "REOPENING_AUCTION" -> {"CONTINUOUS", "HALTED", "CLOSED"}
    [] s = "CLOSING_AUCTION"   -> {"POSTCLOSE", "HALTED"}
    [] s = "POSTCLOSE"         -> {"CLOSED", "PREOPEN"}]

UncrossStates == {"OPENING_AUCTION", "REOPENING_AUCTION", "CLOSING_AUCTION"}
AcceptingStates == UncrossStates \cup {"PREOPEN", "HALTED"}
DayEnds == {"POSTCLOSE", "CLOSED"}

Remaining(o) == o.request.quantity - o.filled - o.cancelled - o.expired

InAuction(i) == orders[i].request.auction

\* The orders the engine holds to be active.
LiveInBook == {r.id : r \in book}
LiveInAuction == {i \in DOMAIN orders :
                    InAuction(i) /\ ~orders[i].rejected /\ Remaining(orders[i]) > 0}
Live == LiveInBook \cup LiveInAuction

ReferencePrice == IF lastPrice = 0 THEN rules.reference ELSE lastPrice

Distance(p) == IF p < ReferencePrice THEN ReferencePrice - p ELSE p - ReferencePrice

Beyond(p, limit) == limit > 0 /\ Distance(p) > limit

\* What a submission finds wrong with the order itself: _validate_request.
Valid(q) ==
  /\ q.quantity >= rules.minimum
  /\ q.price # 0 => ~Beyond(q.price, rules.collar)
  /\ IF q.auction
     THEN /\ session \in AcceptingStates
          /\ q.lifetime \notin {"IOC", "FOK"}
          /\ ~q.postOnly
          /\ q.type # "MARKETABLE_LIMIT"
     ELSE session = "CONTINUOUS"
  /\ q.postOnly => q.type = "LIMIT" /\ q.lifetime \notin {"IOC", "FOK"}
  /\ q.lifetime = "GOOD_UNTIL_TIME" => q.until > now

-----------------------------------------------------------------------------
(* The two ledgers *)

Unbooked == [known |-> FALSE, filled |-> 0, cancelled |-> 0, expired |-> FALSE]

\* _sync_continuous_orders for one order: what the book has closed of it is
\* cancelled, except for what this engine has classified as expired.
Synced(o, l) ==
  IF ~l.known THEN o
  ELSE [o EXCEPT !.filled = l.filled,
                 !.cancelled = IF l.expired THEN 0 ELSE l.cancelled - o.expired,
                 !.expired = IF l.expired THEN l.cancelled ELSE o.expired]

\* The ledger once the book has cancelled what is left of the orders in S.
Cancelled(S) == [i \in DOMAIN ledger |->
  IF i \in S THEN [ledger[i] EXCEPT !.cancelled = @ + Remaining(orders[i])]
             ELSE ledger[i]]

\* Faulty variant: the engine does not take back what the synchronisation
\* called cancelled.
CarelessExpiredOrder(o, l) ==
  LET s == Synced(o, l) IN [s EXCEPT !.expired = @ + Remaining(o)]

\* _expire_continuous: the book knows only cancellation, so that the
\* remainder is reclassified after the synchronisation.
ExpiredOrder(o, l) ==
  LET s == Synced(o, l)
  IN [s EXCEPT !.expired = @ + Remaining(o), !.cancelled = o.cancelled]

\* Every order of S expires: those of the book through a cancellation.
Expire(S) ==
  LET L == Cancelled(S \cap LiveInBook)
  IN /\ orders' = [i \in DOMAIN orders |->
          IF i \in S \cap LiveInBook THEN ExpiredOrder(orders[i], L[i])
          ELSE IF i \in S
               THEN [orders[i] EXCEPT !.expired = @ + Remaining(orders[i])]
               ELSE Synced(orders[i], L[i])]
     /\ ledger' = L
     /\ book' = {r \in book : r.id \notin S}

\* The orders of S leave the book as cancelled.
Withdraw(S) ==
  LET L == Cancelled(S)
  IN /\ orders' = [i \in DOMAIN orders |-> Synced(orders[i], L[i])]
     /\ ledger' = L
     /\ book' = {r \in book : r.id \notin S}

-----------------------------------------------------------------------------
(* Sessions and the clock *)

\* Faulty variant: a halt is no end of the continuous session.
LaxEndedBy(to) ==
  {i \in LiveInBook :
     /\ to \in DayEnds
     /\ orders[i].request.lifetime \in {"DAY", "SESSION"}}
  \cup {i \in LiveInAuction :
          to \in DayEnds \/ (session \in UncrossStates /\ to \notin UncrossStates)}

\* Faulty variant: a day order does not survive a halt.
EagerEndedBy(to) ==
  {i \in LiveInBook :
     \/ /\ session = "CONTINUOUS" /\ to # "CLOSING_AUCTION"
        /\ orders[i].request.lifetime \in {"DAY", "SESSION"}
     \/ to \in DayEnds /\ orders[i].request.lifetime \in {"DAY", "SESSION"}}
  \cup {i \in LiveInAuction :
          to \in DayEnds \/ (session \in UncrossStates /\ to \notin UncrossStates)}

\* The orders whose time in force or whose auction ends with the move to the
\* session to.
EndedBy(to) ==
  {i \in LiveInBook :
     \/ session = "CONTINUOUS" /\ orders[i].request.lifetime = "SESSION"
     \/ to \in DayEnds /\ orders[i].request.lifetime \in {"DAY", "SESSION"}}
  \cup {i \in LiveInAuction :
          to \in DayEnds \/ (session \in UncrossStates /\ to \notin UncrossStates)}

Idle == call.kind = "none" /\ ~failed

\* transition_session, commanded.
Transition(to) ==
  /\ Idle
  /\ to \in Allowed[session]
  /\ session' = to
  /\ Expire(EndedBy(to))
  /\ UNCHANGED <<rules, now, cursor, rested, lastPrice, position, call, failed>>

Outlived(t) == {i \in Live : orders[i].request.lifetime = "GOOD_UNTIL_TIME"
                             /\ orders[i].request.until <= t}

\* A scheduled transition is due at t.
Due(t) == cursor < Len(rules.schedule) /\ rules.schedule[cursor + 1].time <= t

\* advance_to t, when nothing is due before t; a longer advance is several of
\* these.  A scheduled transition the session graph does not allow raises with
\* the clock at t, and so does every later call: the replay that checks each of
\* them meets the same transition.
AdvanceTo(t) ==
  /\ Idle
  /\ t >= now
  /\ \A u \in now .. t - 1 : ~Due(u) /\ Outlived(u) = {}
  /\ now' = t
  /\ IF ~Due(t)
     THEN /\ Expire(Outlived(t))
          /\ UNCHANGED <<session, cursor, failed>>
     ELSE LET to == rules.schedule[cursor + 1].state
          IN IF to = session \/ to \in Allowed[session]
             THEN /\ session' = to
                  /\ cursor' = cursor + 1
                  /\ Expire(Outlived(t) \cup
                            IF to = session THEN {} ELSE EndedBy(to))
                  /\ UNCHANGED failed
             ELSE /\ failed' = TRUE
                  /\ UNCHANGED <<session, cursor, orders, ledger, book>>
  /\ UNCHANGED <<rules, rested, lastPrice, position, call>>

-----------------------------------------------------------------------------
(* Continuous orders *)

Account(r) == orders[r.id].request.account

\* rules.stp_mode.
Mode(account) == rules.stp[account]

\* The resting orders of its own account among those the order q reaches.
OwnMakers(q) ==
  {r \in Makers(book, q.side, q.price, q.quantity) : Account(r) = q.account}

\* The resting orders self-trade prevention cancels when q arrives.
Prevented(q) ==
  IF Mode(q.account) \in {"CANCEL_RESTING", "CANCEL_BOTH"}
  THEN {r.id : r \in OwnMakers(q)} ELSE {}

\* The book that is left, and what q reaches in it: _potential_makers again.
Left(q) == {r \in book : r.id \notin Prevented(q)}
Reached(q) == Makers(Left(q), q.side, q.price, q.quantity)

\* Faulty variant: the quantity available is not compared with the order's.
HopefulRefused(q) ==
  \/ Mode(q.account) \in {"CANCEL_AGGRESSOR", "CANCEL_BOTH"} /\ OwnMakers(q) # {}
  \/ \E r \in Reached(q) : Beyond(r.price, rules.collar)
  \/ q.postOnly /\ Reached(q) # {}
  \/ q.type = "MARKETABLE_LIMIT" /\ Reached(q) = {}
  \/ q.lifetime = "FOK" /\ Reached(q) = {}

\* Faulty variant: self-trade prevention looks at the best maker only.
ShortSightedRefused(q) ==
  \/ /\ Mode(q.account) \in {"CANCEL_AGGRESSOR", "CANCEL_BOTH"}
     /\ \E r \in OwnMakers(q) : \A x \in Reached(q) : x = r \/ Served(r, x)
  \/ \E r \in Reached(q) : Beyond(r.price, rules.collar)
  \/ q.postOnly /\ Reached(q) # {}
  \/ q.type = "MARKETABLE_LIMIT" /\ Reached(q) = {}
  \/ q.lifetime = "FOK" /\ QuantityOf(Reached(q)) < q.quantity

\* The checks of submit between self-trade prevention and the book, in the
\* order of the code; each of them rejects the order.
Refused(q) ==
  \/ Mode(q.account) \in {"CANCEL_AGGRESSOR", "CANCEL_BOTH"} /\ OwnMakers(q) # {}
  \/ \E r \in Reached(q) : Beyond(r.price, rules.collar)
  \/ q.postOnly /\ Reached(q) # {}
  \/ q.type = "MARKETABLE_LIMIT" /\ Reached(q) = {}
  \/ q.lifetime = "FOK" /\ QuantityOf(Reached(q)) < q.quantity

Interrupted(q) == \E r \in Reached(q) : Beyond(r.price, rules.volatility)

Managed(q) == [request |-> q, filled |-> 0, cancelled |-> 0, expired |-> 0,
               rejected |-> FALSE]

\* The managed orders after self-trade prevention for q.
AfterPrevention(q) ==
  LET L == Cancelled(Prevented(q))
  IN [i \in DOMAIN orders |-> Synced(orders[i], L[i])]

Rejected(q) == [Managed(q) EXCEPT !.rejected = TRUE]

\* The order itself is not valid: nothing else changes.
SubmitInvalid(q) ==
  /\ ~Valid(q)
  /\ orders' = Append(orders, Rejected(q))
  /\ ledger' = Append(ledger, Unbooked)
  /\ UNCHANGED <<session, book, rested, lastPrice, position>>

SubmitToAuction(q) ==
  /\ Valid(q) /\ q.auction
  /\ orders' = Append(orders, Managed(q))
  /\ ledger' = Append(ledger, Unbooked)
  /\ UNCHANGED <<session, book, rested, lastPrice, position>>

\* The order is refused once self-trade prevention has cancelled what it
\* cancels.
SubmitRefused(q) ==
  /\ Valid(q) /\ ~q.auction /\ Refused(q)
  /\ orders' = Append(AfterPrevention(q), Rejected(q))
  /\ ledger' = Append(Cancelled(Prevented(q)), Unbooked)
  /\ book' = Left(q)
  /\ UNCHANGED <<session, rested, lastPrice, position>>

\* _volatility_interruption: the order is rejected and the session halts, which
\* ends the orders of the session.
SubmitInterrupted(q) ==
  /\ Valid(q) /\ ~q.auction /\ ~Refused(q) /\ Interrupted(q)
  /\ session' = "HALTED"
  /\ LET ended == EndedBy("HALTED") \ Prevented(q)
         L == [i \in DOMAIN orders |->
                 IF i \in ended THEN Cancelled(ended)[i] ELSE Cancelled(Prevented(q))[i]]
     IN /\ orders' = Append(
             [i \in DOMAIN orders |->
                IF i \in ended THEN ExpiredOrder(orders[i], L[i])
                ELSE AfterPrevention(q)[i]], Rejected(q))
        /\ ledger' = Append(L, Unbooked)
        /\ book' = {r \in Left(q) : r.id \notin ended}
  /\ UNCHANGED <<rested, lastPrice, position>>

\* What of an executed order q does not stay: a market order's remainder
\* expires in the book, an IOC order's is cancelled there and expires here.
Vanishes(q) == q.price = 0 \/ q.lifetime = "IOC"

SignedBuy(side, quantity) == IF side = "BUY" THEN quantity ELSE -quantity

\* _process_continuous.
SubmitExecuted(q) ==
  /\ Valid(q) /\ ~q.auction /\ ~Refused(q) /\ ~Interrupted(q)
  /\ LET R == Left(q)
         n == Len(orders) + 1
         makers == Reached(q)
         filled == Executed(R, q.side, q.price, q.quantity)
         left == q.quantity - filled
         Takes(i) == LET r == CHOOSE x \in makers : x.id = i
                     IN Allotted(r, q.quantity, Eligible(R, q.side, q.price))
         ids == {r.id : r \in makers}
         prevented == Cancelled(Prevented(q))
         L == [i \in DOMAIN orders |->
                 IF i \in ids THEN [ledger[i] EXCEPT !.filled = @ + Takes(i)]
                 ELSE prevented[i]]
         mine == [known |-> TRUE, filled |-> filled,
                  cancelled |-> IF Vanishes(q) THEN left ELSE 0,
                  expired |-> q.price = 0 /\ left > 0]
         entry == [id |-> n, side |-> q.side, price |-> q.price,
                   arrival |-> rested + 1, quantity |-> left]
         ofPlayer == {i \in ids : orders[i].request.account = Player}
     IN /\ ledger' = Append(L, mine)
        /\ orders' = Append([i \in DOMAIN orders |-> Synced(orders[i], L[i])],
             IF q.lifetime = "IOC" /\ q.price # 0 /\ left > 0
             THEN ExpiredOrder([Managed(q) EXCEPT !.filled = filled], mine)
             ELSE Synced(Managed(q), mine))
        /\ book' = Swept(R, q.side, q.price, q.quantity) \cup
                   IF left > 0 /\ ~Vanishes(q) THEN {entry} ELSE {}
        /\ rested' = rested + IF left > 0 /\ q.price # 0 THEN 1 ELSE 0
        /\ lastPrice' = IF makers = {} THEN lastPrice
                        ELSE (CHOOSE r \in makers :
                                \A x \in makers : x = r \/ Served(x, r)).price
        /\ position' = position
             + (IF q.account = Player THEN SignedBuy(q.side, filled) ELSE 0)
             - SignedBuy(q.side, MapThenSumSet(Takes, ofPlayer))
  /\ UNCHANGED session

Submit(q) ==
  \/ SubmitInvalid(q)
  \/ SubmitToAuction(q)
  \/ SubmitRefused(q)
  \/ SubmitInterrupted(q)
  \/ SubmitExecuted(q)

\* submit: a new order, with an ID that was not used before.
New(q) ==
  /\ Idle
  /\ Len(orders) < MaxOrders
  /\ Submit(q)
  /\ UNCHANGED <<rules, now, cursor, call, failed>>

-----------------------------------------------------------------------------
(* Cancellation and replacement *)

\* cancel.  An order that was rejected still has a remaining quantity and is
\* taken for a live one: the book cancels nothing, the report of a cancelled
\* quantity of zero is one no event may carry, and the call raises, as does
\* every later one.  (A rejected auction order raises too, and changes nothing.)
Cancel(i) ==
  /\ Idle
  /\ Remaining(orders[i]) > 0
  /\ \/ /\ i \in LiveInBook
        /\ Withdraw({i})
        /\ UNCHANGED failed
     \/ /\ i \in LiveInAuction
        /\ orders' = [orders EXCEPT ![i].cancelled = @ + Remaining(orders[i])]
        /\ UNCHANGED <<ledger, book, failed>>
     \/ /\ orders[i].rejected /\ ~InAuction(i)
        /\ failed' = TRUE
        /\ UNCHANGED <<orders, ledger, book>>
  /\ UNCHANGED <<rules, session, now, cursor, rested, lastPrice, position, call>>

\* The request a replacement asks for, as it is validated.
Replacement(i, total, price) ==
  [orders[i].request EXCEPT !.quantity = total, !.price = price]

\* The new total keeps the order's place in its queue.
KeepsPlace(i, total, price) ==
  /\ rules.keepsPriority
  /\ price = orders[i].request.price
  /\ total < ledger[i].filled + Remaining(orders[i])

\* replace_order with priority: the order shrinks in its place.
Shrink(i, total, price) ==
  /\ KeepsPlace(i, total, price)
  /\ LET left == total - ledger[i].filled
         L == [ledger EXCEPT ![i].cancelled = @ + Remaining(orders[i]) - left]
     IN /\ ledger' = L
        /\ orders' = [j \in DOMAIN orders |-> Synced(orders[j], L[j])]
        /\ book' = {IF r.id = i THEN [r EXCEPT !.quantity = left] ELSE r : r \in book}
  /\ UNCHANGED call

\* replace_order without: the cancel leg.  The new order asks for what the new
\* total leaves after the quantity already filled.
CancelLeg(i, total, price) ==
  /\ ~KeepsPlace(i, total, price)
  /\ Len(orders) < MaxOrders
  /\ Withdraw({i})
  /\ call' = [kind |-> "replace", old |-> i, total |-> total,
              request |-> Replacement(i, total - ledger[i].filled, price)]

Replace(i, total, price) ==
  /\ Idle
  /\ Valid(Replacement(i, total, price))
  /\ total > ledger[i].filled
  /\ Shrink(i, total, price) \/ CancelLeg(i, total, price)
  /\ UNCHANGED <<rules, session, now, cursor, rested, lastPrice, position, failed>>

\* ... and the second leg, a submission like any other: it may be refused.
SecondLeg ==
  /\ call.kind = "replace"
  /\ Submit(call.request)
  /\ call' = [kind |-> "none"]
  /\ UNCHANGED <<rules, now, cursor, failed>>

-----------------------------------------------------------------------------
(* Auctions *)

Marketable(i, p) ==
  LET q == orders[i].request
  IN \/ q.price = 0
     \/ IF q.side = "BUY" THEN q.price >= p ELSE q.price <= p

\* The quantity of one side that would trade at p.
Volume(side, p) ==
  MapThenSumSet(LAMBDA i : Remaining(orders[i]),
    {i \in LiveInAuction : orders[i].request.side = side /\ Marketable(i, p)})

Matched(p) == Least(Volume("BUY", p), Volume("SELL", p))
Imbalance(p) == LET d == Volume("BUY", p) - Volume("SELL", p)
                IN IF d < 0 THEN -d ELSE d

\* Faulty variant: the imbalance decides before the matched quantity.
BalancedPreferred(p, r) ==
  \/ Imbalance(p) < Imbalance(r)
  \/ /\ Imbalance(p) = Imbalance(r)
     /\ \/ Matched(p) > Matched(r)
        \/ Matched(p) = Matched(r) /\ p < r

\* The tie break of the indication: the largest match, the smallest imbalance,
\* the price nearest to the reference, the lower price.
Preferred(p, r) ==
  \/ Matched(p) > Matched(r)
  \/ /\ Matched(p) = Matched(r)
     /\ \/ Imbalance(p) < Imbalance(r)
        \/ /\ Imbalance(p) = Imbalance(r)
           /\ \/ Distance(p) < Distance(r)
              \/ Distance(p) = Distance(r) /\ p < r

\* indication: the candidates are the limits of the active orders and the
\* reference price.
ClearingPrice ==
  LET candidates == {ReferencePrice} \cup
        ({orders[i].request.price : i \in LiveInAuction} \ {0})
  IN CHOOSE p \in candidates : \A r \in candidates \ {p} : Preferred(p, r)

\* _buy_priority and _sell_priority: market orders, then the better limit, then
\* the earlier arrival.
First(i, j) ==
  LET p == orders[i].request.price  r == orders[j].request.price
  IN IF p = r THEN i < j
     ELSE \/ p = 0
          \/ r # 0 /\ IF orders[i].request.side = "BUY" THEN p > r ELSE p < r

InTurn(side, p) ==
  LET S == {i \in LiveInAuction : orders[i].request.side = side /\ Marketable(i, p)}
  IN CHOOSE list \in [1 .. Cardinality(S) -> S] :
       \A j, k \in DOMAIN list : j < k => First(list[j], list[k])

\* uncross_auction: the price is fixed and both sides are put in order.
Uncross ==
  /\ Idle
  /\ session \in UncrossStates
  /\ LiveInAuction # {}
  /\ LET p == ClearingPrice
     IN call' = [kind |-> "uncross", price |-> p, matched |-> Matched(p),
                 executed |-> 0, prevented |-> FALSE,
                 buys |-> InTurn("BUY", p), sells |-> InTurn("SELL", p)]
  /\ UNCHANGED <<rules, session, now, cursor, trading, failed>>

Crossing == /\ call.kind = "uncross"
            /\ call.buys # <<>> /\ call.sells # <<>>

\* The list without a head that has nothing left.
Onward(list) == IF Remaining(orders'[Head(list)]) = 0 THEN Tail(list) ELSE list

SameAccount(i, j) == orders[i].request.account = orders[j].request.account

\* _apply_auction_stp: the later arrival counts as the aggressor.
Stopped(buy, sell) ==
  LET earlier == Least(buy, sell)
      later == buy + sell - earlier
      mode == Mode(orders[buy].request.account)
  IN (IF mode \in {"CANCEL_AGGRESSOR", "CANCEL_BOTH"} THEN {later} ELSE {}) \cup
     (IF mode \in {"CANCEL_RESTING", "CANCEL_BOTH"} THEN {earlier} ELSE {})

\* One turn of the loop that prevents a self-trade ...
CrossPrevents ==
  /\ Crossing
  /\ LET buy == Head(call.buys)  sell == Head(call.sells)
     IN /\ SameAccount(buy, sell) /\ Mode(orders[buy].request.account) # "NONE"
        /\ orders' = [i \in DOMAIN orders |->
             IF i \in Stopped(buy, sell)
             THEN [orders[i] EXCEPT !.cancelled = @ + Remaining(orders[i])]
             ELSE orders[i]]
        /\ call' = [call EXCEPT !.prevented = TRUE,
                                !.buys = Onward(@), !.sells = Onward(@)]
  /\ UNCHANGED <<rules, session, now, cursor, ledger, book, rested, lastPrice,
                 position, failed>>

\* ... and one that trades.
CrossTrades ==
  /\ Crossing
  /\ LET buy == Head(call.buys)  sell == Head(call.sells)
         quantity == Least(Remaining(orders[buy]), Remaining(orders[sell]))
     IN /\ ~SameAccount(buy, sell) \/ Mode(orders[buy].request.account) = "NONE"
        /\ orders' = [orders EXCEPT ![buy].filled = @ + quantity,
                                    ![sell].filled = @ + quantity]
        /\ position' = position
             + (IF orders[buy].request.account = Player THEN quantity ELSE 0)
             - (IF orders[sell].request.account = Player THEN quantity ELSE 0)
        /\ call' = [call EXCEPT !.executed = @ + quantity,
                                !.buys = Onward(@), !.sells = Onward(@)]
  /\ lastPrice' = call.price
  /\ UNCHANGED <<rules, session, now, cursor, ledger, book, rested, failed>>

\* The loop ends: what is left of any auction order expires.
CrossEnds ==
  /\ call.kind = "uncross"
  /\ ~Crossing
  /\ Expire(LiveInAuction)
  /\ call' = [kind |-> "none"]
  /\ UNCHANGED <<rules, session, now, cursor, rested, lastPrice, position, failed>>

-----------------------------------------------------------------------------
Init ==
  /\ rules \in Rules
  /\ session = "CLOSED"
  /\ now = 0
  /\ cursor = 0
  /\ orders = <<>> /\ ledger = <<>> /\ book = {}
  /\ rested = 0 /\ lastPrice = 0 /\ position = 0
  /\ call = [kind |-> "none"]
  /\ failed = FALSE

\* What a replacement may ask for.
Totals == 1 .. Max({q.quantity : q \in Requests(rules)})
Limits == {q.price : q \in Requests(rules)} \ {0}

\* The times at which anything can be due; the clock may stop at others, to no
\* effect.
Times == {rules.schedule[k].time : k \in DOMAIN rules.schedule}
           \cup {q.until : q \in Requests(rules)}

Next ==
  \/ \E to \in SessionState : Transition(to)
  \/ \E t \in Times : AdvanceTo(t)
  \/ \E q \in Requests(rules) : New(q)
  \/ \E i \in DOMAIN orders : Cancel(i)
  \/ \E i \in LiveInBook, total \in Totals, price \in Limits :
       Replace(i, total, price)
  \/ SecondLeg
  \/ Uncross
  \/ CrossPrevents
  \/ CrossTrades
  \/ CrossEnds

Spec == Init /\ [][Next]_vars

-----------------------------------------------------------------------------
(* Properties *)

\* No quantity is lost or made, and the two accounts of the continuous orders
\* agree through fills, reductions, cancellations and expirations in any
\* order; the book holds exactly what is left of them; and the player's
\* position is what the player's orders have filled, in the book and in
\* auctions (assert_invariants).
LedgersAgree ==
  /\ Len(ledger) = Len(orders)
  /\ \A i \in DOMAIN orders :
       LET o == orders[i]  l == ledger[i]
           resting == {r \in book : r.id = i}
       IN /\ o.filled >= 0 /\ o.cancelled >= 0 /\ o.expired >= 0
          /\ Remaining(o) >= 0
          /\ l.known <=> ~o.rejected /\ ~o.request.auction
          /\ l.known => /\ o.filled = l.filled
                        /\ o.cancelled + o.expired = l.cancelled
          /\ IF l.known /\ Remaining(o) > 0
             THEN \E r \in resting : /\ resting = {r}
                                     /\ r.quantity = Remaining(o)
                                     /\ r.side = o.request.side
                                     /\ r.price = o.request.price
             ELSE resting = {}
  /\ position = MapThenSumSet(
       LAMBDA i : SignedBuy(orders[i].request.side, orders[i].filled),
       {i \in DOMAIN orders : orders[i].request.account = Player})

\* A live order is in a phase its instruction is for: the session order in the
\* continuous session it came in, the day order until the day ends, an auction
\* order while auctions are prepared, an order good until a time before that
\* time; an IOC or FOK order is never live (transition_session, advance_to,
\* _volatility_interruption).
LivesInItsPhase ==
  \A i \in Live :
    LET q == orders[i].request
    IN /\ q.lifetime = "GOOD_UNTIL_TIME" => q.until > now \/ failed
       /\ IF q.auction THEN session \in AcceptingStates
          ELSE /\ q.lifetime \notin {"IOC", "FOK"}
               /\ q.lifetime = "SESSION" => session = "CONTINUOUS"
               /\ q.lifetime = "DAY" =>
                    session \notin DayEnds \cup {"PREOPEN", "OPENING_AUCTION"}

\* What becomes of the orders in a step.
Gains(field) == {i \in DOMAIN orders' :
                   orders'[i][field] > IF i \in DOMAIN orders THEN orders[i][field] ELSE 0}
NewIn == {i \in DOMAIN orders' : i \notin DOMAIN orders}

\* A live order leaves the market only for a reason the rules give.  It expires
\* at the end its own instruction names, neither before it nor through another
\* order's: a good-until-time order at that very time, a good-till-cancelled
\* one never.  It is cancelled for the sake of another order only when
\* self-trade prevention is on for its own account and the other order would
\* have traded with it.
LeavesForAReason ==
  [][/\ \A i \in Gains("expired") \cap DOMAIN orders :
          LET q == orders[i].request
          IN \/ q.lifetime = "GOOD_UNTIL_TIME" /\ q.until = now'
             \/ /\ q.auction
                /\ \/ call.kind = "uncross"
                   \/ session' \in DayEnds
                   \/ session \in UncrossStates /\ session' \notin UncrossStates
             \/ /\ ~q.auction /\ q.lifetime = "SESSION"
                /\ session = "CONTINUOUS" /\ session' # "CONTINUOUS"
             \/ /\ ~q.auction /\ q.lifetime \in {"DAY", "SESSION"}
                /\ session' \in DayEnds
     /\ \A i \in Gains("cancelled") \cap DOMAIN orders, n \in NewIn :
          LET q == orders[i].request  x == orders'[n].request
          IN /\ q.account = x.account /\ q.side # x.side
             /\ Mode(q.account) \in {"CANCEL_RESTING", "CANCEL_BOTH"}
             /\ x.price # 0 => IF x.side = "BUY" THEN q.price <= x.price
                                                ELSE q.price >= x.price]_vars

\* No account trades with itself where self-trade prevention is on
\* (_apply_continuous_stp, _apply_auction_stp); continuous orders of an account
\* in mode CANCEL_RESTING are the exception, see NeverSelfTrades.
NoSelfTrade ==
  [][\A a, b \in Gains("filled") :
       LET q == orders'[a].request  x == orders'[b].request
       IN q.account = x.account /\ q.side # x.side =>
            \/ Mode(q.account) = "NONE"
            \/ Mode(q.account) = "CANCEL_RESTING" /\ ~q.auction]_vars

\* ... and without the exception.
NeverSelfTrades ==
  [][\A a, b \in Gains("filled") :
       LET q == orders'[a].request  x == orders'[b].request
       IN q.account = x.account /\ q.side # x.side => Mode(q.account) = "NONE"]_vars

\* An arriving order keeps its instruction, also when self-trade prevention has
\* changed the book under it: FOK fills completely or not at all, post-only
\* takes nothing, a marketable limit that is accepted trades, and no arriving
\* order trades at a price the collar or the volatility limit excludes.
InstructionsKept ==
  [][\A n \in NewIn :
       LET o == orders'[n]  q == o.request
       IN /\ q.lifetime = "FOK" => o.filled \in {0, q.quantity}
          /\ q.postOnly => o.filled = 0
          /\ q.type = "MARKETABLE_LIMIT" /\ ~o.rejected => o.filled > 0
          /\ \A i \in Gains("filled") \ {n} :
               /\ ~Beyond(orders[i].request.price, rules.collar)
               /\ ~Beyond(orders[i].request.price, rules.volatility)]_vars

LeftIn(list) == MapThenSumSet(LAMBDA k : Remaining(orders[list[k]]), DOMAIN list)

\* The clearing price lets at least as much trade as any price whatever, not
\* only any candidate; and while self-trade prevention cancels nothing, the
\* allocation loop executes exactly that much (AuctionBook.indication, uncross).
UncrossIsBest ==
  call.kind = "uncross" /\ ~call.prevented =>
    /\ call.executed + Least(LeftIn(call.buys), LeftIn(call.sells)) = call.matched
    /\ call.executed = 0 =>
         \A p \in 1 .. Max(Limits) + 1 : Matched(p) <= call.matched
=============================================================================

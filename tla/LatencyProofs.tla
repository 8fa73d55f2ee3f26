---------------------------- MODULE LatencyProofs ----------------------------
(***************************************************************************)
(* Theorems about LatencySession, for any requests, any simulated flow and *)
(* any bounds: the screen, the life of an order, the cancellations and the *)
(* two accounts of orders and position.                                    *)
(***************************************************************************)
EXTENDS LatencySession, PriceTimeProofs

-----------------------------------------------------------------------------
(* The screen *)

Renders == {m \in wire : m.kind = "MARKET_DATA_RENDER"}

\* The screen is never ahead of the venue; an update that bears the number of
\* the last market state bears its touch, and so does the screen; and the last
\* state is on the screen or on its way to it.
ScreenInv ==
  /\ version \in Nat
  /\ display.version \in Nat
  /\ display.version <= version
  /\ \A m \in Renders : /\ m.version \in Nat
                        /\ m.version <= version
                        /\ m.version = version => m.touch = Touch(book)
  /\ display.version = version => display.touch = Touch(book)
  /\ \/ display.version = version
     \/ \E m \in Renders : m.version = version

\* No market state changes and no update is sent or taken.
Quiet == /\ UNCHANGED <<version, book, display>>
         /\ Renders' = Renders

LEMMA QuietKeeps ==
  ASSUME ScreenInv, Quiet
  PROVE  ScreenInv'
  BY DEF ScreenInv, Quiet, Touch

\* A new market state is published.
Moves ==
  /\ version' = version + 1
  /\ UNCHANGED display
  /\ Renders' = Renders \cup Published(book')

LEMMA MovesKeeps ==
  ASSUME ScreenInv, Moves
  PROVE  ScreenInv'
<1> DEFINE u == [kind |-> "MARKET_DATA_RENDER", version |-> version + 1,
                 touch |-> Touch(book')]
<1>1. Renders' = Renders \cup {u}
  BY DEF Moves, Published
<1>2. u.version = version' /\ u.touch = Touch(book)'
  BY DEF Moves, Touch
<1>3. version \in Nat /\ version' = version + 1
      /\ display' = display /\ display.version \in Nat /\ display.version <= version
  BY DEF Moves, ScreenInv
<1>4. \A m \in Renders : m.version \in Nat /\ m.version <= version
  BY DEF ScreenInv
<1> HIDE DEF u
<1>5. display.version # version' /\ display'.version <= version' /\ version' \in Nat
  BY <1>3
<1>6. \A m \in Renders' : /\ m.version \in Nat
                          /\ m.version <= version'
                          /\ m.version = version' => m.touch = Touch(book)'
  <2> TAKE m \in Renders'
  <2>1. CASE m = u
    BY <2>1, <1>2, <1>5, <1>3
  <2>2. CASE m \in Renders
    BY <2>2, <1>3, <1>4
  <2> QED  BY <1>1, <2>1, <2>2
<1>7. \E m \in Renders' : m.version = version'
  BY <1>1, <1>2
<1> QED  BY <1>3, <1>5, <1>6, <1>7 DEF ScreenInv

\* Messages that are no update come and go, and a new market state is
\* published.
LEMMA OtherMessagesAndState ==
  ASSUME NEW old, NEW new, NEW R,
         wire' = (wire \ old) \cup new \cup Published(R),
         \A m \in old \cup new : m.kind # "MARKET_DATA_RENDER"
  PROVE  Renders' = Renders \cup Published(R)
  BY DEF Renders, Published

LEMMA ScreenInit ==
  ASSUME Init
  PROVE  ScreenInv
<1> DEFINE u == [kind |-> "MARKET_DATA_RENDER", version |-> 1, touch |-> Touch(Opened)]
<1>1. wire = {u} /\ version = 1 /\ display.version = 0 /\ book = Opened
  BY DEF Init
<1>2. Renders = {u}
  BY <1>1 DEF Renders
<1>3. u.version = 1 /\ u.touch = Touch(book)
  BY <1>1
<1> HIDE DEF u
<1> QED  BY <1>1, <1>2, <1>3 DEF ScreenInv

LEMMA RaisesIsQuiet ==
  ASSUME NEW what, Raises(what)
  PROVE  Quiet
  BY DEF Raises, Quiet, Renders, venue

LEMMA CommandIsQuiet ==
  ASSUME Command
  PROVE  Quiet
<1>1. ASSUME NEW q \in Requests, RequestOrder(q)
      PROVE  Quiet
  <2> DEFINE x == [kind |-> "NEW_SENT", order |-> Len(orders) + 1]
  <2>1. wire' = wire \cup {x} /\ UNCHANGED <<version, book, display>>
    BY <1>1 DEF RequestOrder
  <2>2. x.kind # "MARKET_DATA_RENDER"
    OBVIOUS
  <2> HIDE DEF x
  <2> QED  BY <2>1, <2>2 DEF Renders, Quiet
<1>2. ASSUME NEW k \in DOMAIN orders, RequestCancel(k)
      PROVE  Quiet
  <2> DEFINE x == [kind |-> "CANCEL_SENT", cancel |-> Len(cancels) + 1]
  <2>1. wire' = wire \cup {x} /\ UNCHANGED <<version, book, display>>
    BY <1>2 DEF RequestCancel, venue
  <2>2. x.kind # "MARKET_DATA_RENDER"
    OBVIOUS
  <2> HIDE DEF x
  <2> QED  BY <2>1, <2>2 DEF Renders, Quiet
<1>3. ASSUME NEW k \in DOMAIN orders, NEW q \in Requests, RequestReplace(k, q)
      PROVE  Quiet
  <2> DEFINE x == [kind |-> "CANCEL_SENT", cancel |-> Len(cancels) + 1]
             y == [kind |-> "NEW_SENT", order |-> Len(orders) + 1]
  <2>1. wire' = wire \cup {x, y} /\ UNCHANGED <<version, book, display>>
    BY <1>3 DEF RequestReplace
  <2>2. x.kind # "MARKET_DATA_RENDER" /\ y.kind # "MARKET_DATA_RENDER"
    OBVIOUS
  <2> HIDE DEF x, y
  <2> QED  BY <2>1, <2>2 DEF Renders, Quiet
<1>4. ASSUME ScheduleFlow
      PROVE  Quiet
  <2>1. UNCHANGED <<version, book, display>>
    BY <1>4 DEF ScheduleFlow, venue
  <2>2. ASSUME NEW x, x.kind # "MARKET_DATA_RENDER", wire' = wire \cup {x}
        PROVE  Renders' = Renders
    BY <2>2 DEF Renders
  <2>3. \E x : x.kind # "MARKET_DATA_RENDER" /\ wire' = wire \cup {x}
    <3>1. ASSUME NEW n, NEW q
          PROVE  [kind |-> "EXTERNAL_MARKET", number |-> flow + 1,
                  order |-> q, name |-> n].kind # "MARKET_DATA_RENDER"
      OBVIOUS
    <3>2. ASSUME NEW n, NEW q, NEW target
          PROVE  [kind |-> "EXTERNAL_REPRICE", number |-> flow + 1,
                  order |-> q, name |-> n, target |-> target].kind # "MARKET_DATA_RENDER"
      OBVIOUS
    <3> QED  BY <1>4, <3>1, <3>2, Zenon DEF ScheduleFlow
  <2> QED  BY <2>1, <2>2, <2>3 DEF Quiet
<1> QED  BY <1>1, <1>2, <1>3, <1>4 DEF Command

\* The messages between client and gateway, and those back to the client that
\* are no update.
LEMMA RelayIsQuiet ==
  ASSUME NEW m \in wire,
         \/ NewSent(m) \/ CancelSent(m) \/ CancelGateway(m)
         \/ FillClient(m) \/ Answer(m) \/ FlowRefused(m) \/ Reject(m)
  PROVE  Quiet
<1>1. CASE NewSent(m)
  <2> DEFINE x == [kind |-> "NEW_PROCESS", order |-> m.order]
  <2>1. /\ wire' = (wire \ {m}) \cup {x} /\ UNCHANGED <<version, book, display>>
        /\ m.kind # "MARKET_DATA_RENDER"
    BY <1>1 DEF NewSent, venue
  <2>2. x.kind # "MARKET_DATA_RENDER"
    OBVIOUS
  <2> HIDE DEF x
  <2> QED  BY <2>1, <2>2 DEF Renders, Quiet
<1>2. CASE CancelSent(m)
  <2> DEFINE x == [kind |-> "CANCEL_GATEWAY", cancel |-> m.cancel]
  <2>1. /\ wire' = (wire \ {m}) \cup {x} /\ UNCHANGED <<version, book, display>>
        /\ m.kind # "MARKET_DATA_RENDER"
    BY <1>2 DEF CancelSent, venue
  <2>2. x.kind # "MARKET_DATA_RENDER"
    OBVIOUS
  <2> HIDE DEF x
  <2> QED  BY <2>1, <2>2 DEF Renders, Quiet
<1>3. CASE CancelGateway(m)
  <2>1. \E S : wire' = (wire \ {m}) \cup ToVenue(S)
    <3>1. wire' = wire \ {m} => wire' = (wire \ {m}) \cup ToVenue({})
      BY DEF ToVenue
    <3> QED  BY <1>3, <3>1 DEF CancelGateway
  <2>2. Renders' = Renders
    BY <1>3, <2>1 DEF Renders, ToVenue, CancelGateway
  <2> QED  BY <1>3, <2>2 DEF CancelGateway, Quiet, venue
<1>4. CASE FillClient(m)
  BY <1>4 DEF FillClient, Quiet, Renders, venue
<1>5. CASE Answer(m)
  BY <1>5 DEF Answer, Quiet, Renders, venue
<1>6. CASE FlowRefused(m)
  BY <1>6 DEF FlowRefused, Quiet, Renders, venue
<1>7. CASE Reject(m)
  <2>1. CASE MayBecome(orders[m.order], "REJECTED")
    <3>1. wire' = (wire \ {m}) \cup ToVenue(Released(m.order))
      BY <1>7, <2>1 DEF Reject
    <3>2. Renders' = Renders
      BY <1>7, <3>1 DEF Renders, ToVenue, Reject
    <3> QED  BY <1>7, <2>1, <3>2 DEF Reject, Quiet, venue
  <2>2. CASE ~MayBecome(orders[m.order], "REJECTED")
    BY <1>7, <2>2, RaisesIsQuiet DEF Reject
  <2> QED  BY <2>1, <2>2
<1> QED  BY <1>1, <1>2, <1>3, <1>4, <1>5, <1>6, <1>7

\* What the venue does, it publishes.
LEMMA VenueMoves ==
  ASSUME NEW m \in wire,
         \/ Accept(m) \/ CancelProcess(m) \/ ExternalMarket(m)
         \/ ExternalReprice(m)
  PROVE  Quiet \/ Moves
<1>1. CASE Accept(m)
  <2> DEFINE k == m.order
             t == Taker(k)
             T == Trades(t, book)
             F == Fills(t, T)
             o == Consumed(k, F)
             R == After(t, T, book)
             state == Settled(o, Recorded(t, T, ledger)[k].status)
             more == Reports(F) \cup ToVenue(HeldFor(k))
                       \cup {[kind |-> "NEW_ACK_CLIENT", order |-> k]}
  <2>1. CASE Consumable(F) /\ MayBecome(o, state)
    <3>1. /\ Processed(t, T, R, ledger)
          /\ wire' = (wire \ {m}) \cup more \cup Published(R)
          /\ display' = display
      BY <1>1, <2>1 DEF Accept
    <3>2. \A x \in {m} \cup more : x.kind # "MARKET_DATA_RENDER"
      BY <1>1 DEF Accept, Reports, ToVenue
    <3> HIDE DEF more, R, T, F, t
    <3>3. Renders' = Renders \cup Published(R)
      BY <3>1, <3>2, OtherMessagesAndState
    <3> QED  BY <3>1, <3>3 DEF Moves, Processed
  <2>2. CASE ~(Consumable(F) /\ MayBecome(o, state))
    <3>1. Raises("LIFECYCLE")
      BY <1>1, <2>2 DEF Accept
    <3> QED  BY <3>1, RaisesIsQuiet
  <2> QED  BY <2>1, <2>2
<1>2. CASE CancelProcess(m)
  <2> DEFINE c == m.cancel
             k == cancels[c].order
             S == Cancellable(k)
             ack == [kind |-> "CANCEL_ACK_CLIENT", cancel |-> c]
  <2>0. m.kind # "MARKET_DATA_RENDER" /\ ack.kind # "MARKET_DATA_RENDER"
    BY <1>2 DEF CancelProcess
  <2>1. CASE S = {}
    <3>1. wire' = (wire \ {m}) \cup {ack} /\ UNCHANGED <<venue, display>>
      BY <1>2, <2>1 DEF CancelProcess
    <3> HIDE DEF ack
    <3> QED  BY <2>0, <3>1 DEF Renders, Quiet, venue
  <2>2. CASE /\ S # {}
             /\ QuantityOf(S) <= Remaining(orders[k]) /\ MayBecome(orders[k], "CANCELLED")
    <3>1. /\ book' = book \ S
          /\ version' = version + 1
          /\ display' = display
          /\ wire' = (wire \ {m}) \cup Published(book \ S) \cup {ack}
      BY <1>2, <2>2 DEF CancelProcess
    <3>2. \A x \in Published(book \ S) : x.kind = "MARKET_DATA_RENDER"
      BY DEF Published
    <3> HIDE DEF ack, S
    <3>3. Renders' = Renders \cup Published(book \ S)
      BY <2>0, <3>1, <3>2 DEF Renders
    <3> QED  BY <3>1, <3>3 DEF Moves
  <2>3. CASE /\ S # {}
             /\ ~(QuantityOf(S) <= Remaining(orders[k]) /\ MayBecome(orders[k], "CANCELLED"))
    <3>1. Raises("LIFECYCLE")
      BY <1>2, <2>3 DEF CancelProcess
    <3> QED  BY <3>1, RaisesIsQuiet
  <2> QED  BY <2>1, <2>2, <2>3
<1>3. CASE ExternalMarket(m)
  <2> DEFINE t == Simulated(m.order, m.name)
             T == Trades(t, book)
             F == Fills(t, T)
             R == After(t, T, book)
  <2>1. CASE Consumable(F)
    <3>1. /\ Processed(t, T, R, ledger)
          /\ wire' = (wire \ {m}) \cup Reports(F) \cup Published(R)
          /\ display' = display
      BY <1>3, <2>1 DEF ExternalMarket
    <3>2. \A x \in {m} \cup Reports(F) : x.kind # "MARKET_DATA_RENDER"
      BY <1>3 DEF ExternalMarket, Reports
    <3> HIDE DEF R, T, F, t
    <3>3. Renders' = Renders \cup Published(R)
      BY <3>1, <3>2, OtherMessagesAndState
    <3> QED  BY <3>1, <3>3 DEF Moves, Processed
  <2>2. CASE ~Consumable(F)
    <3>1. Raises("LIFECYCLE")
      BY <1>3, <2>2 DEF ExternalMarket
    <3> QED  BY <3>1, RaisesIsQuiet
  <2> QED  BY <2>1, <2>2
<1>4. CASE ExternalReprice(m)
  <2> DEFINE t == Simulated(m.order, m.name)
             S == Named(m.target)
             T == Trades(t, book \ S)
             F == Fills(t, T)
             R == After(t, T, book \ S)
  <2>1. CASE Consumable(F)
    <3>1. /\ Processed(t, T, R, Withdrawn(S))
          /\ wire' = (wire \ {m}) \cup Reports(F) \cup Published(R)
          /\ display' = display
      BY <1>4, <2>1 DEF ExternalReprice
    <3>2. \A x \in {m} \cup Reports(F) : x.kind # "MARKET_DATA_RENDER"
      BY <1>4 DEF ExternalReprice, Reports
    <3> HIDE DEF R, T, F, t
    <3>3. Renders' = Renders \cup Published(R)
      BY <3>1, <3>2, OtherMessagesAndState
    <3> QED  BY <3>1, <3>3 DEF Moves, Processed
  <2>2. CASE ~Consumable(F)
    <3>1. Raises("LIFECYCLE")
      BY <1>4, <2>2 DEF ExternalReprice
    <3> QED  BY <3>1, RaisesIsQuiet
  <2> QED  BY <2>1, <2>2
<1> QED  BY <1>1, <1>2, <1>3, <1>4

\* An update that is taken is on the screen, or the screen is newer.
LEMMA RenderKeeps ==
  ASSUME ScreenInv, NEW m \in wire, Render(m)
  PROVE  ScreenInv'
<1>1. m \in Renders /\ Renders' = Renders \ {m}
  BY DEF Render, Renders
<1>2. UNCHANGED <<version, book>>
  BY DEF Render, venue
<1>3. /\ m.version \in Nat /\ m.version <= version
      /\ m.version = version => m.touch = Touch(book)
      /\ version \in Nat /\ display.version \in Nat /\ display.version <= version
  BY <1>1 DEF ScreenInv
<1>4. Touch(book)' = Touch(book)
  BY <1>2 DEF Touch
<1>5. CASE Stale(m)
  <2>1. display' = display
    BY <1>5 DEF Render
  <2>2. m.version # version
    BY <1>3, <1>5 DEF Stale
  <2> QED  BY <1>1, <1>2, <1>3, <1>4, <2>1, <2>2 DEF ScreenInv
<1>6. CASE ~Stale(m)
  <2>1. display'.version = m.version /\ display'.touch = m.touch
    BY <1>6 DEF Render
  <2>2. m.version >= display.version
    BY <1>3, <1>6 DEF Stale
  <2>3. m.version = version \/ \E x \in Renders' : x.version = version
    <3>1. CASE display.version = version
      BY <1>3, <2>2, <3>1
    <3>2. CASE display.version # version
      BY <1>1, <3>2 DEF ScreenInv
    <3> QED  BY <3>1, <3>2
  <2> QED  BY <1>1, <1>2, <1>3, <1>4, <2>1, <2>3 DEF ScreenInv
<1> QED  BY <1>5, <1>6

\* A repricing that has withdrawn an order and raised has published nothing:
\* then the session has stopped.
ScreenHolds == failed = "NONE" => ScreenInv

LEMMA ScreenStep ==
  ASSUME ScreenHolds, [Next]_vars
  PROVE  ScreenHolds'
<1>1. CASE Command
  <2>1. ScreenInv
    BY <1>1 DEF Command, ScreenHolds
  <2> QED  BY <1>1, <2>1, CommandIsQuiet, QuietKeeps DEF ScreenHolds
<1>2. CASE AdvanceTo
  <2>1. PICK m \in wire : Dispatch(m)
    BY <1>2 DEF AdvanceTo
  <2>2. ScreenInv
    BY <1>2 DEF AdvanceTo, ScreenHolds
  <2>3. CASE Render(m)
    BY <2>2, <2>3, RenderKeeps DEF ScreenHolds
  <2>4. CASE RepriceHalfway(m)
    BY <2>4 DEF RepriceHalfway, ScreenHolds
  <2>5. CASE ~Render(m) /\ ~RepriceHalfway(m)
    <3>1. Quiet \/ Moves
      BY <2>1, <2>5, RelayIsQuiet, VenueMoves DEF Dispatch
    <3> QED  BY <2>2, <3>1, QuietKeeps, MovesKeeps DEF ScreenHolds
  <2> QED  BY <2>3, <2>4, <2>5
<1>3. CASE UNCHANGED vars
  <2>1. Quiet /\ failed' = failed
    BY <1>3 DEF vars, venue, Quiet, Renders
  <2> QED  BY <2>1, QuietKeeps DEF ScreenHolds
<1> QED  BY <1>1, <1>2, <1>3 DEF Next

\* However market states overtake one another on the way, the screen shows the
\* venue's touch when none is left on it: no update that _market_data_render
\* drops as stale was the newest.
THEOREM Screen == Spec => []ScreenCatchesUp
<1>1. Init => ScreenHolds
  BY ScreenInit DEF ScreenHolds
<1>2. ScreenHolds /\ [Next]_vars => ScreenHolds'
  BY ScreenStep
<1>3. ScreenHolds => ScreenCatchesUp
  BY DEF ScreenHolds, ScreenInv, ScreenCatchesUp, Renders
<1> QED  BY <1>1, <1>2, <1>3, PTL DEF Spec

-----------------------------------------------------------------------------
(* What the session's parts hold *)

Waiting == {"CREATED", "PENDING_NEW", "PENDING_CANCEL"}

States == Waiting \cup {"WORKING", "PARTIALLY_FILLED"} \cup Terminal

Statuses ==
  {"ABSENT", "ACTIVE", "PARTIALLY_FILLED", "FILLED", "CANCELLED", "EXPIRED", "WITHDRAWN"}

ClientOrder ==
  [side : Sides, price : Nat, quantity : Nat \ {0}, state : States,
   filled : Nat, closed : Nat, acked : BOOLEAN]

VenueRecord == [status : Statuses, filled : Nat]

Resting ==
  [name : Int, owner : {"PLAYER", "SIMULATED"}, side : Sides, price : Nat,
   quantity : Nat \ {0}, arrival : Nat]

ClientInv ==
  /\ orders \in Seq(ClientOrder)
  /\ cancels \in Seq([order : DOMAIN orders, outcome : States \cup {"NONE", "WON"}])
  /\ held \subseteq DOMAIN cancels

VenueInv ==
  /\ ledger \in Seq(VenueRecord)
  /\ DOMAIN ledger = DOMAIN orders
  /\ taken \subseteq Int
  /\ position \in Int /\ reported \in Int

\* The orders at the venue arrived one after another.
BookInv ==
  /\ book \subseteq Resting
  /\ rested \in Nat
  /\ Ordered(book)
  /\ \A r \in book : r.arrival <= rested

NewKinds == {"NEW_SENT", "NEW_PROCESS"}

CancelKinds == {"CANCEL_SENT", "CANCEL_GATEWAY", "CANCEL_PROCESS"}

Report == [kind : {"FILL_CLIENT"}, order : DOMAIN orders, quantity : Nat \ {0}, upto : Nat]

Reported == {m \in wire : m.kind = "FILL_CLIENT"}

\* A message names an order or a cancellation there is; a report, one that has
\* filled as much.
Sound(m) ==
  /\ m.kind \in NewKinds => m \in [kind : NewKinds, order : DOMAIN orders]
  /\ m.kind \in CancelKinds => m \in [kind : CancelKinds, cancel : DOMAIN cancels]
  /\ m.kind = "EXTERNAL_MARKET" => m.order \in Sweeps /\ m.name \in Names
  /\ m.kind = "EXTERNAL_REPRICE" => m.order \in Quotes /\ m.name \in Names
  /\ m.kind = "FILL_CLIENT" => m \in Report /\ m.upto <= orders[m.order].filled

WireInv == IsFiniteSet(Reported) /\ \A m \in wire : Sound(m)

-----------------------------------------------------------------------------
(* Sequences *)

LEMMA SeqUpdate ==
  ASSUME NEW S, NEW s \in Seq(S), NEW f, NEW U,
         f = [i \in DOMAIN s |-> f[i]], \A i \in DOMAIN s : f[i] \in U
  PROVE  f \in Seq(U) /\ DOMAIN f = DOMAIN s
<1>1. DOMAIN s = 1 .. Len(s) /\ Len(s) \in Nat
  OBVIOUS
<1> DEFINE n == Len(s)
<1>2. f \in [1 .. n -> U] /\ n \in Nat
  BY <1>1
<1>3. f \in Seq(U)
  <2> HIDE DEF n
  <2> QED  BY <1>2
<1> QED  BY <1>1, <1>2, <1>3

LEMMA SeqGrow ==
  ASSUME NEW S, NEW s \in Seq(S), NEW e
  PROVE  LET a == Append(s, e) n == Len(s) + 1
         IN /\ \A U : S \subseteq U /\ e \in U => a \in Seq(U)
            /\ DOMAIN a = DOMAIN s \cup {n} /\ n \notin DOMAIN s
            /\ \A i \in DOMAIN s : a[i] = s[i]
            /\ a[n] = e
  OBVIOUS

LEMMA NewOrder ==
  ASSUME NEW q \in Asked
  PROVE  New(q) = [side |-> q.side, price |-> q.price, quantity |-> q.quantity,
                   state |-> "CREATED", filled |-> 0, closed |-> 0, acked |-> FALSE]
  BY DEF New

LEMMA OpenedBook ==
  /\ Opened \subseteq Resting /\ Ordered(Opened) /\ \A r \in Opened : r.arrival <= 2
<1> DEFINE a == [name |-> -1, owner |-> "SIMULATED", side |-> "BUY", price |-> 99,
                 quantity |-> Depth, arrival |-> 1]
           b == [name |-> -2, owner |-> "SIMULATED", side |-> "SELL", price |-> 101,
                 quantity |-> Depth, arrival |-> 2]
<1>1. Opened = {a, b}
  BY DEF Opened
<1>2. a \in Resting /\ b \in Resting /\ a.arrival = 1 /\ b.arrival = 2
  BY SessionAssumption DEF Resting, Sides
<1> HIDE DEF a, b
<1>3. IsFiniteSet({a, b})
  <2>1. IsFiniteSet({a}) /\ {a, b} = {a} \cup {b}
    BY FS_Singleton
  <2> QED  BY <2>1, FS_AddElement
<1>4. \A r \in {a, b} : r.side \in Sides /\ r.price \in Int /\ r.arrival \in Int
                         /\ r.quantity \in Nat \ {0} /\ r.arrival <= 2
  BY <1>2 DEF Resting
<1> QED  BY <1>1, <1>2, <1>3, <1>4 DEF Ordered

-----------------------------------------------------------------------------
(* An order that comes in *)

Incoming == [name : Int, owner : {"PLAYER", "SIMULATED"}, side : Sides, price : Nat,
             quantity : Nat \ {0}]

\* What a resting order gives the order t.
GivenTo(t, B, r) == Gave(r, t.quantity, Eligible(B, t.side, t.price))

\* The orders of B that bear the name j.
In(B, j) == {r \in B : r.name = j}

\* B is the book, or what a withdrawal leaves of it.
Rests(B) == B \subseteq book

LEMMA BookIs ==
  ASSUME BookInv, NEW B, Rests(B)
  PROVE  /\ Records(B) /\ Ordered(B)
         /\ \A r \in B : /\ r \in Resting /\ r.arrival <= rested
                         /\ r.side \in Sides /\ r.quantity \in Nat \ {0}
                         /\ r.name \in Int
                         /\ r.owner \in {"PLAYER", "SIMULATED"}
<1>1. IsFiniteSet(B)
  BY FS_Subset DEF Rests, BookInv, Ordered
<1> QED  BY <1>1 DEF Rests, BookInv, Records, Resting, Ordered

\* The trades of t: each with another order, each filling more of t than the
\* one before, none more than either has.
LEMMA TradesAre ==
  ASSUME BookInv, NEW B, Rests(B), NEW t \in Incoming
  PROVE  LET T == Trades(t, B)
         IN /\ IsFiniteSet(T)
            /\ \A x \in T : /\ x.maker \in B /\ x.maker.side # t.side
                            /\ x.quantity = GivenTo(t, B, x.maker)
                            /\ x.quantity \in Nat \ {0} /\ x.quantity <= x.maker.quantity
                            /\ x.through \in Nat \ {0} /\ x.through <= QuantityOf(T)
            /\ \A x, y \in T : x.maker = y.maker => x = y
            /\ \A x, y \in T : x.through = y.through => x = y
            /\ QuantityOf(T) \in Nat /\ QuantityOf(T) <= t.quantity
            /\ T = {} => QuantityOf(T) = 0
            /\ T # {} => QuantityOf(T) > 0
<1> DEFINE q == t.quantity
           E == Eligible(B, t.side, t.price)
           M == {r \in E : Allotted(r, q, E) > 0}
           g == [r \in E |-> [maker |-> r, quantity |-> Allotted(r, q, E),
                              through |-> Through(r, q, E)]]
           T == {g[r] : r \in M}
<1>1. Trades(t, B) = T
  BY DEF Trades, Makers, Through, Before
<1>2. t.side \in Sides /\ q \in Nat
  BY DEF Incoming
<1>3. Queue(E) /\ E \in SUBSET B /\ \A r \in E : r.side # t.side
  BY <1>2, BookIs, EligibleQueue
<1> HIDE DEF q, E
<1>4. \A r \in M : r \in E /\ r \in B /\ Allotted(r, q, E) > 0
  BY <1>3
<1>5. M \in SUBSET E /\ IsFiniteSet(E) /\ IsFiniteSet(M)
  BY <1>3, FS_Subset DEF Queue, Ordered
<1>6. \A r \in M : /\ g[r].maker = r
                   /\ g[r].quantity = Allotted(r, q, E)
                   /\ g[r].through = Through(r, q, E)
  BY <1>4
<1>7. \A r \in M : /\ Allotted(r, q, E) \in Nat \ {0} /\ Allotted(r, q, E) <= r.quantity
                   /\ Through(r, q, E) \in Nat \ {0}
  BY <1>2, <1>3, <1>4, AllottedIs, ThroughIs
<1> DEFINE done == OfQuantity!Total(Given(q, E), M)
<1>8. /\ done \in Nat /\ done <= q
      /\ M # {} => done > 0
      /\ M = {} => done = 0
      /\ \A r \in M : Through(r, q, E) <= done
  BY <1>2, <1>3, MakersGive
<1> HIDE DEF g, M
<1>9. IsFiniteSet(T)
  BY <1>5, FiniteImage
<1>10. QuantityOf(T) = done
  <2> DEFINE w == [x \in T |-> x.quantity]
  <2>1. \A r \in M : Given(q, E)[r] = w[g[r]] /\ Given(q, E)[r] \in Int
    <3> SUFFICES ASSUME NEW r \in M
                 PROVE  Given(q, E)[r] = w[g[r]] /\ Given(q, E)[r] \in Int
      OBVIOUS
    <3>1. g[r] \in T /\ w[g[r]] = g[r].quantity
      OBVIOUS
    <3>2. Given(q, E)[r] = Allotted(r, q, E)
      BY <1>4 DEF Given
    <3> QED  BY <1>6, <1>7, <3>1, <3>2
  <2>2. \A r, x \in M : g[r] = g[x] => r = x
    BY <1>6
  <2> HIDE DEF w
  <2>3. OfQuantity!Total(w, T) = done
    BY <1>5, <2>1, <2>2, SumFinite, OfQuantity!TotalImage
  <2>4. Counted(T)
    BY <1>6, <1>7, <1>9 DEF Counted
  <2> QED  BY <2>3, <2>4, QuantityIsTotal DEF w
<1>11. \A x \in T : \E r \in M : x = g[r]
  OBVIOUS
<1>12. T = {} <=> M = {}
  OBVIOUS
<1> HIDE DEF T, done
<1>13. \A x \in T : /\ x.maker \in B /\ x.maker.side # t.side
                    /\ x.quantity = GivenTo(t, B, x.maker)
                    /\ x.quantity \in Nat \ {0} /\ x.quantity <= x.maker.quantity
                    /\ x.through \in Nat \ {0} /\ x.through <= QuantityOf(T)
  <2> SUFFICES ASSUME NEW r \in M, NEW x, x = g[r]
               PROVE  /\ x.maker \in B /\ x.maker.side # t.side
                      /\ x.quantity = GivenTo(t, B, x.maker)
                      /\ x.quantity \in Nat \ {0} /\ x.quantity <= x.maker.quantity
                      /\ x.through \in Nat \ {0} /\ x.through <= QuantityOf(T)
    BY <1>11
  <2>1. x.maker = r /\ x.quantity = Allotted(r, q, E) /\ x.through = Through(r, q, E)
    BY <1>6
  <2>2. GivenTo(t, B, r) = Allotted(r, q, E)
    BY <1>4 DEF GivenTo, Gave, q, E
  <2> QED  BY <1>3, <1>4, <1>7, <1>8, <1>10, <2>1, <2>2
<1>14. \A x, y \in T : (x.maker = y.maker \/ x.through = y.through) => x = y
  <2> SUFFICES ASSUME NEW r \in M, NEW z \in M, g[r].maker = g[z].maker \/ g[r].through = g[z].through
               PROVE  g[r] = g[z]
    BY <1>11
  <2>1. r = z \/ Through(r, q, E) = Through(z, q, E)
    BY <1>6
  <2>2. Through(r, q, E) = Through(z, q, E) => r = z
    BY <1>2, <1>3, <1>4, ThroughDiffers
  <2> QED  BY <2>1, <2>2
<1> QED  BY <1>1, <1>8, <1>9, <1>10, <1>12, <1>13, <1>14 DEF q

\* An order gives something when it is a maker, and never more than it has.
LEMMA GivenBy ==
  ASSUME BookInv, NEW B, Rests(B), NEW t \in Incoming, NEW r \in B
  PROVE  /\ GivenTo(t, B, r) \in Nat /\ GivenTo(t, B, r) <= r.quantity
         /\ GivenTo(t, B, r) > 0 <=> \E x \in Trades(t, B) : x.maker = r
<1> DEFINE q == t.quantity
           E == Eligible(B, t.side, t.price)
<1>1. t.side \in Sides /\ q \in Nat
  BY DEF Incoming
<1>2. Queue(E) /\ E \in SUBSET B
  BY <1>1, BookIs, EligibleQueue
<1>3. r.quantity \in Nat \ {0}
  BY BookIs
<1>4. Trades(t, B) = {[maker |-> z, quantity |-> Allotted(z, q, E),
                    through |-> Allotted(z, q, E) + QuantityOf({x \in E : Served(x, z)})] :
                     z \in {y \in E : Allotted(y, q, E) > 0}}
  BY DEF Trades, Makers
<1>5. GivenTo(t, B, r) = IF r \in E THEN Allotted(r, q, E) ELSE 0
  BY DEF GivenTo, Gave
<1> HIDE DEF q, E
<1>6. (\E x \in Trades(t, B) : x.maker = r) <=> r \in E /\ Allotted(r, q, E) > 0
  <2> DEFINE g(z) == [maker |-> z, quantity |-> Allotted(z, q, E),
                      through |-> Allotted(z, q, E) + QuantityOf({x \in E : Served(x, z)})]
  <2>1. \A z : g(z).maker = z
    OBVIOUS
  <2>2. Trades(t, B) = {g(z) : z \in {y \in E : Allotted(y, q, E) > 0}}
    BY <1>4
  <2> HIDE DEF g
  <2> QED  BY <2>1, <2>2
<1>7. GivenTo(t, B, r) \in Nat /\ GivenTo(t, B, r) <= r.quantity
  BY <1>1, <1>2, <1>3, <1>5, AllottedIs
<1> QED  BY <1>5, <1>6, <1>7

\* What is left of t.
Rest(t, T) ==
  IF t.price = 0 \/ t.quantity - QuantityOf(T) = 0 THEN {}
  ELSE {[name |-> t.name, owner |-> t.owner, side |-> t.side, price |-> t.price,
         quantity |-> t.quantity - QuantityOf(T), arrival |-> rested + 1]}

\* The resting orders that have something left, and what is left of t.
LEMMA AfterIs ==
  ASSUME BookInv, NEW B, Rests(B), NEW t \in Incoming
  PROVE  After(t, Trades(t, B), B) =
           {Kept(r, GivenTo(t, B, r)) : r \in {x \in B : GivenTo(t, B, x) < x.quantity}}
             \cup Rest(t, Trades(t, B))
<1> DEFINE T == Trades(t, B)
<1>1. Swept(B, t.side, t.price, t.quantity) =
        {Kept(r, GivenTo(t, B, r)) : r \in {x \in B : GivenTo(t, B, x) < x.quantity}}
  BY BookIs, SweptIs DEF Incoming, GivenTo
<1> HIDE DEF T
<1>2. After(t, T, B) = Swept(B, t.side, t.price, t.quantity) \cup Rest(t, T)
  BY DEF After, Rest
<1> QED  BY <1>1, <1>2 DEF T

\* An order that is left is the same order with less.
LEMMA KeptIs ==
  ASSUME BookInv, NEW B, Rests(B), NEW t \in Incoming, NEW r \in B, GivenTo(t, B, r) < r.quantity
  PROVE  LET k == Kept(r, GivenTo(t, B, r))
         IN /\ k \in Resting
            /\ k.name = r.name /\ k.owner = r.owner /\ k.side = r.side
            /\ k.price = r.price /\ k.arrival = r.arrival
            /\ k.quantity = r.quantity - GivenTo(t, B, r)
            /\ GivenTo(t, B, r) = 0 => k = r
<1> DEFINE n == GivenTo(t, B, r)
<1>1. n \in Nat /\ n < r.quantity
  BY GivenBy
<1>2. r \in Resting
  BY BookIs
<1> HIDE DEF n
<1>3. Kept(r, n) = [name |-> r.name, owner |-> r.owner, side |-> r.side,
                    price |-> r.price, quantity |-> r.quantity - n,
                    arrival |-> r.arrival]
  BY <1>2 DEF Kept, Resting
<1>4. r.quantity \in Nat \ {0} /\ r.quantity - n \in Nat \ {0}
  BY <1>1, <1>2 DEF Resting
<1>5. Kept(r, n) \in Resting
  BY <1>2, <1>3, <1>4 DEF Resting
<1>6. n = 0 => Kept(r, n) = r
  <2>1. n = 0 => r.quantity - n = r.quantity
    BY <1>4
  <2> QED  BY <1>2, <1>3, <2>1 DEF Resting
<1> QED  BY <1>3, <1>5, <1>6 DEF n

LEMMA RestIs ==
  ASSUME BookInv, NEW B, Rests(B), NEW t \in Incoming, NEW x \in Rest(t, Trades(t, B))
  PROVE  /\ x \in Resting /\ x.name = t.name /\ x.owner = t.owner /\ x.side = t.side
         /\ x.quantity = t.quantity - QuantityOf(Trades(t, B)) /\ x.arrival = rested + 1
         /\ t.price # 0
<1> DEFINE n == QuantityOf(Trades(t, B))
<1>1. n \in Nat /\ n <= t.quantity
  BY TradesAre
<1> HIDE DEF n
<1>2. x = [name |-> t.name, owner |-> t.owner, side |-> t.side, price |-> t.price,
           quantity |-> t.quantity - n, arrival |-> rested + 1]
      /\ t.quantity - n # 0 /\ t.price # 0
  BY DEF Rest, n
<1>3. t.quantity - n \in Nat \ {0} /\ t.name \in Int /\ rested + 1 \in Nat
  BY <1>1, <1>2 DEF Incoming, BookInv
<1> QED  BY <1>2, <1>3 DEF Resting, Incoming, n

\* The book with another order processed when B rests.
Replaces(t, B) == /\ book' = After(t, Trades(t, B), B)
                  /\ rested' = IF \E r \in book' : r.arrival > rested THEN rested + 1
                               ELSE rested

LEMMA BookKept ==
  ASSUME BookInv, NEW B, Rests(B), NEW t \in Incoming, Replaces(t, B)
  PROVE  BookInv'
<1> DEFINE T == Trades(t, B)
           L == {x \in B : GivenTo(t, B, x) < x.quantity}
           g == [r \in L |-> Kept(r, GivenTo(t, B, r))]
           K == {g[r] : r \in L}
<1>1. After(t, T, B) = K \cup Rest(t, T)
  BY AfterIs
<1>2. \A k \in K : \E r \in B : /\ k \in Resting /\ k.arrival = r.arrival
                                   /\ GivenTo(t, B, r) < r.quantity /\ k = g[r]
  BY KeptIs
<1>3. IsFiniteSet(K)
  <2>1. IsFiniteSet(L)
    BY BookIs, FS_Subset DEF Ordered
  <2> HIDE DEF L, g
  <2> QED  BY <2>1, FiniteImage
<1>4. IsFiniteSet(Rest(t, T))
  BY FS_Singleton, FS_EmptySet DEF Rest
<1>5. \A x \in Rest(t, T) : x \in Resting /\ x.arrival = rested + 1
  BY RestIs
<1>6. \A x, y \in Rest(t, T) : x = y
  BY DEF Rest
<1> HIDE DEF T, K, g
<1>7. rested \in Nat /\ (\A r \in B : r.arrival <= rested /\ r.arrival \in Nat)
      /\ \A r, x \in B : r.arrival = x.arrival => r = x
  BY BookIs DEF BookInv, Ordered, Resting
<1>8. book' \subseteq K \cup Rest(t, T)
  BY <1>1 DEF Replaces, T
<1>9. book' \subseteq Resting
  BY <1>2, <1>5, <1>8
<1>10. \A r, x \in book' : r.arrival = x.arrival => r = x
  <2> SUFFICES ASSUME NEW r \in K \cup Rest(t, T), NEW x \in K \cup Rest(t, T),
                      r.arrival = x.arrival
               PROVE  r = x
    BY <1>8
  <2>1. CASE r \in K /\ x \in K
    BY <2>1, <1>2, <1>7
  <2>2. CASE r \in K /\ x \notin K
    <3>1. r.arrival <= rested /\ x.arrival = rested + 1 /\ r.arrival \in Nat
      BY <2>2, <1>2, <1>5, <1>7
    <3> QED  BY <3>1, <1>7
  <2>3. CASE x \in K /\ r \notin K
    <3>1. x.arrival <= rested /\ r.arrival = rested + 1 /\ x.arrival \in Nat
      BY <2>3, <1>2, <1>5, <1>7
    <3> QED  BY <3>1, <1>7
  <2>4. CASE x \notin K /\ r \notin K
    BY <2>4, <1>6
  <2> QED  BY <2>1, <2>2, <2>3, <2>4
<1>11. rested' \in Nat /\ \A r \in book' : r.arrival <= rested'
  <2>1. \A r \in book' : r.arrival \in Nat /\ r.arrival <= rested + 1
    BY <1>2, <1>5, <1>7, <1>8
  <2> QED  BY <1>7, <2>1 DEF Replaces
<1>12. IsFiniteSet(book')
  BY <1>3, <1>4, <1>8, FS_Union, FS_Subset
<1>13. \A r \in book' : /\ r.side \in Sides /\ r.price \in Int /\ r.arrival \in Int
                        /\ r.quantity \in Nat \ {0}
  BY <1>9 DEF Resting
<1>14. Ordered(book)'
  BY <1>10, <1>12, <1>13 DEF Ordered
<1> QED  BY <1>9, <1>11, <1>14 DEF BookInv

\* The orders of a name are those there were, with less, and what is left of t.
LEMMA NamedAfter ==
  ASSUME BookInv, NEW B, Rests(B), NEW t \in Incoming, Replaces(t, B), NEW j
  PROVE  /\ \A k \in In(book', j) :
              \/ k \in Rest(t, Trades(t, B)) /\ t.name = j
              \/ \E r \in In(B, j) : GivenTo(t, B, r) < r.quantity /\ k = Kept(r, GivenTo(t, B, r))
         /\ \A r \in In(B, j) : GivenTo(t, B, r) < r.quantity => Kept(r, GivenTo(t, B, r)) \in In(book', j)
         /\ t.name = j => Rest(t, Trades(t, B)) \subseteq In(book', j)
<1>1. book' = ({Kept(r, GivenTo(t, B, r)) : r \in {x \in B : GivenTo(t, B, x) < x.quantity}}
                 \cup Rest(t, Trades(t, B)))
  BY AfterIs DEF Replaces
<1>3. \A r \in B : GivenTo(t, B, r) < r.quantity => Kept(r, GivenTo(t, B, r)).name = r.name
  BY KeptIs
<1>4. \A x \in Rest(t, Trades(t, B)) : x.name = t.name
  BY RestIs
<1>5. \A k \in In(book', j) :
         \/ k \in Rest(t, Trades(t, B)) /\ t.name = j
         \/ \E r \in In(B, j) : GivenTo(t, B, r) < r.quantity /\ k = Kept(r, GivenTo(t, B, r))
  BY <1>1, <1>3, <1>4 DEF In
<1>6. \A r \in In(B, j) : GivenTo(t, B, r) < r.quantity => Kept(r, GivenTo(t, B, r)) \in In(book', j)
  BY <1>1, <1>3 DEF In
<1>7. t.name = j => Rest(t, Trades(t, B)) \subseteq In(book', j)
  BY <1>1, <1>4 DEF In
<1> QED  BY <1>5, <1>6, <1>7

-----------------------------------------------------------------------------
(* Its fills *)

LEMMA FillsAre ==
  ASSUME ClientInv, BookInv, NEW B, Rests(B), NEW t \in Incoming
  PROVE  LET F == Fills(t, Trades(t, B))
         IN /\ IsFiniteSet(F)
            /\ \A f \in F : /\ f.order \in DOMAIN orders
                            /\ f.quantity \in Nat \ {0}
                            /\ f.upto \in Nat
                            /\ f.upto > orders[f.order].filled
<1> DEFINE T == Trades(t, B)
           X == {y \in T : t.name \in DOMAIN orders}
           Y == {y \in T : y.maker.name \in DOMAIN orders}
           g == [x \in T |-> [order |-> t.name, quantity |-> x.quantity,
                              upto |-> orders[t.name].filled + x.through,
                              full |-> x.through = t.quantity]]
           h == [x \in T |-> [order |-> x.maker.name, quantity |-> x.quantity,
                              upto |-> orders[x.maker.name].filled + x.quantity,
                              full |-> x.quantity = x.maker.quantity]]
<1>1. TakerFills(t, T) = {g[x] : x \in X} /\ MakerFills(T) = {h[x] : x \in Y}
  BY DEF TakerFills, MakerFills
<1>2. \A x \in T : x.quantity \in Nat \ {0} /\ x.through \in Nat \ {0}
  BY TradesAre
<1>3. IsFiniteSet(X) /\ IsFiniteSet(Y)
  BY TradesAre, FS_Subset
<1>4. \A k \in DOMAIN orders : orders[k].filled \in Nat
  <2> SUFFICES ASSUME NEW k \in DOMAIN orders PROVE orders[k].filled \in Nat
    OBVIOUS
  <2>1. orders[k] \in ClientOrder
    BY DEF ClientInv
  <2> QED  BY <2>1 DEF ClientOrder
<1>5. \A x \in X : /\ g[x].order \in DOMAIN orders
                   /\ g[x].quantity \in Nat \ {0}
                   /\ g[x].upto \in Nat
                   /\ g[x].upto > orders[g[x].order].filled
  BY <1>2, <1>4
<1>6. \A x \in Y : /\ h[x].order \in DOMAIN orders
                   /\ h[x].quantity \in Nat \ {0}
                   /\ h[x].upto \in Nat
                   /\ h[x].upto > orders[h[x].order].filled
  BY <1>2, <1>4
<1> HIDE DEF g, h, X, Y, T
<1>7. IsFiniteSet({g[x] : x \in X}) /\ IsFiniteSet({h[x] : x \in Y})
  BY <1>3, FiniteImage
<1>8. IsFiniteSet(Fills(t, T))
  BY <1>1, <1>7, FS_Union DEF Fills
<1>9. \A f \in Fills(t, T) : /\ f.order \in DOMAIN orders
                             /\ f.quantity \in Nat \ {0}
                             /\ f.upto \in Nat
                             /\ f.upto > orders[f.order].filled
  BY <1>1, <1>5, <1>6 DEF Fills
<1> QED  BY <1>8, <1>9 DEF T

\* The order o after the fills G.
Booked(o, G) ==
  [o EXCEPT !.filled = o.filled + QuantityOf(G),
            !.state = IF \E f \in G : f.full THEN "FILLED"
                      ELSE IF o.state = "PENDING_CANCEL" THEN o.state
                      ELSE "PARTIALLY_FILLED"]

\* An order that is filled has its quantity filled so far and its state
\* changed, and nothing else.
LEMMA ConsumedIs ==
  ASSUME ClientInv, BookInv, NEW B, Rests(B), NEW t \in Incoming, NEW k \in DOMAIN orders
  PROVE  LET F == Fills(t, Trades(t, B)) G == FillsOf(k, F) o == Consumed(k, F)
         IN /\ Counted(G) /\ QuantityOf(G) \in Nat
            /\ G = {} => o = orders[k]
            /\ G # {} => /\ QuantityOf(G) > 0
                         /\ o = Booked(orders[k], G)
            /\ o \in ClientOrder
            /\ o.side = orders[k].side /\ o.quantity = orders[k].quantity
            /\ o.closed = orders[k].closed /\ o.acked = orders[k].acked
            /\ o.filled = orders[k].filled + QuantityOf(G)
<1> DEFINE F == Fills(t, Trades(t, B))
           G == FillsOf(k, F)
           o == Consumed(k, F)
<1>1. IsFiniteSet(F) /\ \A f \in F : f.quantity \in Nat \ {0}
  BY FillsAre
<1>2. G \in SUBSET F
  BY DEF FillsOf
<1>3. o = IF G = {} THEN orders[k]
          ELSE Booked(orders[k], G)
  <2>1. orders[k] \in ClientOrder
    BY DEF ClientInv
  <2> QED  BY <2>1 DEF Consumed, ClientOrder, Booked
<1> HIDE DEF F, G, o
<1>4. Counted(G)
  BY <1>1, <1>2, FS_Subset DEF Counted
<1>5. QuantityOf(G) \in Nat
  BY <1>4, QuantityNat
<1>6. G # {} => QuantityOf(G) > 0
  <2> SUFFICES ASSUME NEW f \in G PROVE QuantityOf(G) > 0
    OBVIOUS
  <2>1. f.quantity <= QuantityOf(G) /\ f.quantity \in Nat \ {0}
    BY <1>1, <1>2, <1>4, QuantityMember
  <2> QED  BY <1>5, <2>1
<1>7. orders[k] \in ClientOrder
  BY DEF ClientInv
<1>8. G = {} => QuantityOf(G) = 0
  BY QuantityEmpty
<1>9. /\ o \in ClientOrder
      /\ o.side = orders[k].side /\ o.quantity = orders[k].quantity
      /\ o.closed = orders[k].closed /\ o.acked = orders[k].acked
      /\ o.filled = orders[k].filled + QuantityOf(G)
  <2>1. CASE G = {}
    BY <2>1, <1>3, <1>7, <1>8 DEF ClientOrder
  <2>2. CASE G # {}
    <3> DEFINE n == orders[k].filled + QuantityOf(G)
               st == IF \E f \in G : f.full THEN "FILLED"
                     ELSE IF orders[k].state = "PENDING_CANCEL"
                     THEN orders[k].state ELSE "PARTIALLY_FILLED"
    <3>1. n \in Nat /\ st \in States
      BY <1>5, <1>7 DEF ClientOrder, States, Waiting, Terminal
    <3>2. o = [orders[k] EXCEPT !.filled = n, !.state = st]
      BY <1>3, <2>2 DEF Booked
    <3> HIDE DEF n, st
    <3>3. /\ o \in ClientOrder /\ o.filled = n
          /\ o.side = orders[k].side /\ o.quantity = orders[k].quantity
          /\ o.closed = orders[k].closed /\ o.acked = orders[k].acked
      BY <1>7, <3>1, <3>2 DEF ClientOrder
    <3> QED  BY <3>3 DEF n
  <2> QED  BY <2>1, <2>2
<1> QED  BY <1>3, <1>4, <1>5, <1>6, <1>9 DEF F, G, o

\* The fills of t itself add up to its trades: no two of them are one.
LEMMA TakerSum ==
  ASSUME ClientInv, BookInv, NEW B, Rests(B), NEW t \in Incoming, t.name \in DOMAIN orders
  PROVE  LET T == Trades(t, B)
         IN /\ Counted(TakerFills(t, T))
            /\ QuantityOf(TakerFills(t, T)) = QuantityOf(T)
            /\ TakerFills(t, T) = {} => T = {}
            /\ \A f \in TakerFills(t, T) :
                 /\ f.order = t.name
                 /\ f.upto <= orders[t.name].filled + QuantityOf(T)
                 /\ f.full => QuantityOf(T) = t.quantity
<1> DEFINE T == Trades(t, B)
           X == TakerFills(t, T)
           g == [x \in T |-> [order |-> t.name, quantity |-> x.quantity,
                              upto |-> orders[t.name].filled + x.through,
                              full |-> x.through = t.quantity]]
<1>1. X = {g[x] : x \in T}
  BY DEF TakerFills
<1>2. /\ IsFiniteSet(T)
      /\ \A x \in T : /\ x.quantity \in Nat \ {0} /\ x.through \in Nat \ {0}
                      /\ x.through <= QuantityOf(T)
      /\ \A x, y \in T : x.through = y.through => x = y
      /\ QuantityOf(T) \in Nat /\ QuantityOf(T) <= t.quantity /\ t.quantity \in Nat
  BY TradesAre DEF Incoming
<1>3. orders[t.name] \in ClientOrder
  BY DEF ClientInv
<1>4. orders[t.name].filled \in Nat
  BY <1>3 DEF ClientOrder
<1>5. \A x \in T : /\ g[x].quantity = x.quantity
                   /\ g[x].upto = orders[t.name].filled + x.through
                   /\ g[x].full => x.through = t.quantity
                   /\ g[x].order = t.name
  OBVIOUS
<1> HIDE DEF g, T, X
<1>6. IsFiniteSet(X)
  BY <1>1, <1>2, FiniteImage
<1>7. Counted(X)
  BY <1>1, <1>2, <1>5, <1>6 DEF Counted
<1>8. QuantityOf(X) = QuantityOf(T)
  <2> DEFINE w == [x \in X |-> x.quantity]
             v == [x \in T |-> x.quantity]
  <2>1. \A x \in T : v[x] = w[g[x]] /\ v[x] \in Int
    BY <1>1, <1>2, <1>5
  <2>2. \A x, y \in T : g[x] = g[y] => x = y
    <3> SUFFICES ASSUME NEW x \in T, NEW y \in T, g[x] = g[y] PROVE x = y
      OBVIOUS
    <3>1. orders[t.name].filled + x.through = orders[t.name].filled + y.through
      BY <1>5
    <3>2. x.through = y.through
      BY <1>2, <1>4, <3>1
    <3> QED  BY <1>2, <3>2
  <2>3. /\ \A x \in X : w[x] = x.quantity
        /\ \A x \in T : v[x] = x.quantity
    OBVIOUS
  <2> HIDE DEF w, v
  <2>4. OfQuantity!Total(w, X) = OfQuantity!Total(v, T)
    BY <1>1, <1>2, <2>1, <2>2, SumFinite, OfQuantity!TotalImage
  <2>5. Counted(T)
    BY <1>2 DEF Counted
  <2>6. QuantityOf(X) = OfQuantity!Total(w, X) /\ QuantityOf(T) = OfQuantity!Total(v, T)
    BY <1>7, <2>3, <2>5, QuantityIsTotal
  <2> QED  BY <2>4, <2>6
<1>9. \A f \in X : /\ f.order = t.name
                   /\ f.upto <= orders[t.name].filled + QuantityOf(T)
                   /\ f.full => QuantityOf(T) = t.quantity
  <2> SUFFICES ASSUME NEW x \in T
               PROVE  /\ g[x].order = t.name
                      /\ g[x].upto <= orders[t.name].filled + QuantityOf(T)
                      /\ g[x].full => QuantityOf(T) = t.quantity
    BY <1>1
  <2>1. g[x].upto <= orders[t.name].filled + QuantityOf(T)
    BY <1>2, <1>4, <1>5
  <2>2. g[x].full => QuantityOf(T) = t.quantity
    <3>1. x.through = t.quantity => QuantityOf(T) = t.quantity
      BY <1>2
    <3> QED  BY <1>5, <3>1
  <2> QED  BY <1>5, <2>1, <2>2
<1>10. X = {} => T = {}
  BY <1>1
<1> QED  BY <1>7, <1>8, <1>9, <1>10 DEF X, T

\* The fills of an order that no other order of the book has the name of.
LEMMA TakerFill ==
  ASSUME ClientInv, BookInv, NEW B, Rests(B), NEW t \in Incoming, t.name \in DOMAIN orders,
         In(B, t.name) = {}
  PROVE  LET T == Trades(t, B) G == FillsOf(t.name, Fills(t, T))
         IN /\ QuantityOf(G) = QuantityOf(T)
            /\ (\E f \in G : f.full) => QuantityOf(T) = t.quantity
<1> DEFINE T == Trades(t, B)
           G == FillsOf(t.name, Fills(t, T))
<1>1. \A x \in T : x.maker \in B
  BY TradesAre
<1>2. \A f \in MakerFills(T) : f.order # t.name
  BY <1>1 DEF MakerFills, In
<1>3. \A f \in TakerFills(t, T) : f.order = t.name
  BY TakerSum
<1> HIDE DEF T
<1>4. G = TakerFills(t, T)
  BY <1>2, <1>3 DEF FillsOf, Fills
<1> QED  BY <1>4, TakerSum DEF T

\* The fill of the one order that rests under a name.
LEMMA MakerFill ==
  ASSUME ClientInv, BookInv, NEW B, Rests(B), NEW t \in Incoming, NEW j \in DOMAIN orders, j # t.name
  PROVE  LET G == FillsOf(j, Fills(t, Trades(t, B)))
         IN /\ In(B, j) = {} => G = {}
            /\ \A r : In(B, j) = {r} =>
                 /\ GivenTo(t, B, r) = 0 => G = {}
                 /\ GivenTo(t, B, r) > 0 =>
                      G = {[order |-> j, quantity |-> GivenTo(t, B, r),
                            upto |-> orders[j].filled + GivenTo(t, B, r),
                            full |-> GivenTo(t, B, r) = r.quantity]}
<1> DEFINE T == Trades(t, B)
           G == FillsOf(j, Fills(t, T))
           h(x) == [order |-> x.maker.name, quantity |-> x.quantity,
                    upto |-> orders[x.maker.name].filled + x.quantity,
                    full |-> x.quantity = x.maker.quantity]
<1>1. \A f \in TakerFills(t, T) : f.order # j
  BY DEF TakerFills
<1>2. MakerFills(T) = {h(x) : x \in {y \in T : y.maker.name \in DOMAIN orders}}
  BY DEF MakerFills
<1>3. \A x : h(x).order = x.maker.name
  OBVIOUS
<1> HIDE DEF h, T
<1>4. G = {h(x) : x \in {y \in T : y.maker.name = j}}
  BY <1>1, <1>2, <1>3 DEF FillsOf, Fills
<1>5. \A x \in T : /\ x.maker \in B
                   /\ x.quantity = GivenTo(t, B, x.maker)
      /\ \A y \in T : x.maker = y.maker => x = y
  BY TradesAre DEF T
<1>6. In(B, j) = {} => G = {}
  BY <1>4, <1>5 DEF In
<1>7. ASSUME NEW r, In(B, j) = {r}
      PROVE  /\ GivenTo(t, B, r) = 0 => G = {}
             /\ GivenTo(t, B, r) > 0 =>
                  G = {[order |-> j, quantity |-> GivenTo(t, B, r),
                        upto |-> orders[j].filled + GivenTo(t, B, r),
                        full |-> GivenTo(t, B, r) = r.quantity]}
  <2>1. r \in B /\ r.name = j /\ \A x \in T : x.maker.name = j => x.maker = r
    BY <1>5, <1>7 DEF In
  <2>2. /\ GivenTo(t, B, r) \in Nat
        /\ GivenTo(t, B, r) > 0 <=> \E x \in T : x.maker = r
    BY <2>1, GivenBy DEF T
  <2>3. CASE GivenTo(t, B, r) = 0
    BY <1>4, <2>1, <2>2, <2>3
  <2>4. CASE GivenTo(t, B, r) > 0
    <3>1. PICK x \in T : x.maker = r
      BY <2>2, <2>4
    <3>2. {y \in T : y.maker.name = j} = {x}
      BY <1>5, <2>1, <3>1
    <3>3. G = {h(x)}
      BY <1>4, <3>2
    <3>4. x.quantity = GivenTo(t, B, r) /\ x.maker.name = j
      BY <1>5, <2>1, <3>1
    <3> QED  BY <2>4, <3>1, <3>3, <3>4 DEF h
  <2> QED  BY <2>2, <2>3, <2>4
<1> QED  BY <1>6, <1>7 DEF T

\* No report says more than its order has been filled.
LEMMA FillsReach ==
  ASSUME ClientInv, BookInv, NEW B, Rests(B), NEW t \in Incoming, NEW f \in Fills(t, Trades(t, B))
  PROVE  f.upto <= Consumed(f.order, Fills(t, Trades(t, B))).filled
<1> DEFINE T == Trades(t, B)
           F == Fills(t, T)
           k == f.order
           G == FillsOf(k, F)
<1>1. k \in DOMAIN orders /\ f.quantity \in Nat \ {0}
  BY FillsAre
<1>2. Counted(G) /\ QuantityOf(G) \in Nat
      /\ Consumed(k, F).filled = orders[k].filled + QuantityOf(G)
  BY <1>1, ConsumedIs
<1>3. f \in G
  BY DEF FillsOf
<1>4. orders[k] \in ClientOrder
  BY <1>1 DEF ClientInv
<1>5. orders[k].filled \in Nat
  BY <1>4 DEF ClientOrder
<1>6. CASE f \in MakerFills(T)
  <2>1. f.upto = orders[k].filled + f.quantity
    BY <1>6 DEF MakerFills
  <2>2. f.quantity <= QuantityOf(G)
    <3> HIDE DEF G
    <3> QED  BY <1>2, <1>3, QuantityMember
  <2> QED  BY <1>1, <1>2, <1>5, <2>1, <2>2
<1>7. CASE f \in TakerFills(t, T)
  <2>1. t.name = k
    BY <1>7 DEF TakerFills
  <2>2. f.upto <= orders[k].filled + QuantityOf(T) /\ QuantityOf(TakerFills(t, T)) = QuantityOf(T)
        /\ \A x \in TakerFills(t, T) : x.order = k
    BY <1>1, <1>7, <2>1, TakerSum
  <2>3. TakerFills(t, T) \in SUBSET G
    BY <2>2 DEF FillsOf, Fills
  <2>4. QuantityOf(TakerFills(t, T)) <= QuantityOf(G)
    <3> HIDE DEF G
    <3> QED  BY <1>2, <2>3, QuantityPart
  <2>5. QuantityOf(T) \in Nat
    BY TradesAre
  <2>6. f.upto \in Nat
    BY FillsAre
  <2> QED  BY <1>2, <1>5, <2>2, <2>4, <2>5, <2>6
<1> QED  BY <1>6, <1>7 DEF Fills

-----------------------------------------------------------------------------
(* The two accounts of an order *)

\* What the client's side says of an order, what the venue has recorded of it
\* and what rests under its name are one account.
Agree(o, l, N) ==
  /\ o.acked <=> l.status # "ABSENT"
  /\ o.filled = l.filled
  /\ o.filled + o.closed <= o.quantity
  /\ l.status = "ABSENT" => o.state \in Waiting /\ o.filled = 0 /\ o.closed = 0
  /\ l.status \in {"ACTIVE", "PARTIALLY_FILLED"} =>
       /\ o.state \in {"PENDING_CANCEL", IF l.status = "ACTIVE" THEN "WORKING" ELSE l.status}
       /\ \E r : /\ N = {r} /\ r.owner = "PLAYER" /\ r.side = o.side
                 /\ r.quantity = Remaining(o)
  /\ l.status \notin {"ACTIVE", "PARTIALLY_FILLED"} => N = {}
  /\ l.status \in {"FILLED", "CANCELLED", "EXPIRED"} => o.state = l.status /\ Remaining(o) = 0
  /\ l.status = "WITHDRAWN" => o.state \in {"WORKING", "PARTIALLY_FILLED", "PENDING_CANCEL"}

Agreed(k) == Agree(orders[k], ledger[k], Named(k))

\* A simulated order bears the name of the client's, which the venue has not
\* taken and never will.
Steal(o, l, N) ==
  /\ l.filled = 0 /\ l.status = "ABSENT"
  /\ ~o.acked
  /\ \A r \in N : r.owner = "SIMULATED"
  /\ o.state \notin {"CANCELLED", "EXPIRED", "WORKING"}
  /\ o.filled = 0 => o.state \in Waiting \cup {"REJECTED"}

Stolen(k) == Steal(orders[k], ledger[k], Named(k))

AccountInv ==
  /\ \A k \in DOMAIN orders \ taken : Agreed(k)
  /\ \A k \in taken \cap DOMAIN orders : Stolen(k)
  /\ \A r \in book : IF r.owner = "PLAYER" THEN r.name \in DOMAIN orders ELSE r.name \in taken

\* What a trade records of an order that did not come in with it.
LEMMA RecordedIs ==
  ASSUME BookInv, NEW B, Rests(B), NEW t \in Incoming, NEW L, NEW j \in DOMAIN L,
         t.name # j \/ t.owner # "PLAYER"
  PROVE  LET l == Recorded(t, Trades(t, B), L)[j]
         IN /\ (\A r \in In(B, j) : r.owner = "SIMULATED" \/ GivenTo(t, B, r) = 0) => l = L[j]
            /\ \A r : In(B, j) = {r} /\ r.owner = "PLAYER" /\ GivenTo(t, B, r) > 0 =>
                 l = [filled |-> L[j].filled + GivenTo(t, B, r),
                      status |-> IF GivenTo(t, B, r) = r.quantity THEN "FILLED"
                                 ELSE "PARTIALLY_FILLED"]
<1> DEFINE T == Trades(t, B)
           hit == {x \in T : x.maker.name = j /\ x.maker.owner = "PLAYER"}
<1>1. Recorded(t, T, L)[j] =
        IF hit = {} THEN L[j]
        ELSE [filled |-> L[j].filled + QuantityOf(hit),
              status |-> IF \A x \in hit : x.quantity = x.maker.quantity
                         THEN "FILLED" ELSE "PARTIALLY_FILLED"]
  BY DEF Recorded
<1>2. \A x \in T : /\ x.maker \in B
                   /\ x.quantity = GivenTo(t, B, x.maker)
                   /\ x.quantity \in Nat \ {0}
      /\ \A y \in T : x.maker = y.maker => x = y
  BY TradesAre
<1>3. hit = {x \in T : x.maker \in In(B, j) /\ x.maker.owner = "PLAYER"}
  BY <1>2 DEF In
<1> HIDE DEF T, hit
<1>4. ASSUME \A r \in In(B, j) : r.owner = "SIMULATED" \/ GivenTo(t, B, r) = 0
      PROVE  Recorded(t, T, L)[j] = L[j]
  <2>1. hit = {}
    BY <1>2, <1>3, <1>4
  <2> QED  BY <1>1, <2>1
<1>5. ASSUME NEW r, In(B, j) = {r}, r.owner = "PLAYER", GivenTo(t, B, r) > 0
      PROVE  Recorded(t, T, L)[j] = [filled |-> L[j].filled + GivenTo(t, B, r),
                                  status |-> IF GivenTo(t, B, r) = r.quantity THEN "FILLED"
                                             ELSE "PARTIALLY_FILLED"]
  <2>1. r \in B
    BY <1>5 DEF In
  <2>2. PICK x \in T : x.maker = r
    BY <1>5, <2>1, GivenBy DEF T
  <2>3. hit = {x}
    BY <1>2, <1>3, <1>5, <2>2
  <2>4. QuantityOf(hit) = x.quantity /\ x.quantity = GivenTo(t, B, r)
    BY <1>2, <2>2, <2>3, QuantitySingle
  <2> QED  BY <1>1, <2>2, <2>3, <2>4
<1> QED  BY <1>4, <1>5 DEF T

\* An order that rests gives no more than it has, and takes no transition that
\* is refused.
LEMMA MakerGives ==
  ASSUME ClientInv, VenueInv, BookInv, NEW B, Rests(B), NEW t \in Incoming,
         NEW j \in DOMAIN orders, j # t.name, NEW l, Agree(orders[j], l, In(B, j))
  PROVE  LET F == Fills(t, Trades(t, B))
         IN /\ QuantityOf(FillsOf(j, F)) <= Remaining(orders[j])
            /\ MayBecome(orders[j], Consumed(j, F).state)
<1> DEFINE F == Fills(t, Trades(t, B))
           G == FillsOf(j, F)
           o == Consumed(j, F)
<1>1. orders[j] \in ClientOrder
  BY DEF ClientInv
<1>2. /\ G = {} => o = orders[j]
      /\ G # {} => o = Booked(orders[j], G)
  BY ConsumedIs
<1>3. /\ In(B, j) = {} => G = {}
      /\ \A r : In(B, j) = {r} =>
           /\ GivenTo(t, B, r) = 0 => G = {}
           /\ GivenTo(t, B, r) > 0 =>
                G = {[order |-> j, quantity |-> GivenTo(t, B, r),
                      upto |-> orders[j].filled + GivenTo(t, B, r),
                      full |-> GivenTo(t, B, r) = r.quantity]}
  BY MakerFill
<1>4. \A r \in In(B, j) : /\ GivenTo(t, B, r) \in Nat /\ GivenTo(t, B, r) <= r.quantity
  BY GivenBy DEF In
<1>5. Agree(orders[j], l, In(B, j))
  OBVIOUS
<1>6. Remaining(orders[j]) \in Nat
  BY <1>1, <1>5 DEF Agree, Remaining, ClientOrder
<1> HIDE DEF F, G, o
<1>7. CASE G = {}
  BY <1>2, <1>6, <1>7, QuantityEmpty DEF MayBecome, F, G, o
<1>8. CASE G # {}
  <2>1. l.status \in {"ACTIVE", "PARTIALLY_FILLED"}
    BY <1>3, <1>5, <1>8 DEF Agree
  <2>2. orders[j].state \in {"PENDING_CANCEL", "WORKING", "PARTIALLY_FILLED"}
    BY <1>5, <2>1 DEF Agree
  <2>3. PICK r : In(B, j) = {r} /\ r.quantity = Remaining(orders[j])
    BY <1>5, <2>1 DEF Agree
  <2> DEFINE a == GivenTo(t, B, r)
             f == [order |-> j, quantity |-> a, upto |-> orders[j].filled + a,
                   full |-> a = r.quantity]
  <2>4. a \in Nat /\ a <= r.quantity
    BY <1>4, <2>3
  <2>5. G = {f}
    BY <1>3, <1>8, <2>3, <2>4
  <2>6. f.quantity = a
    OBVIOUS
  <2> HIDE DEF f
  <2>7. QuantityOf(G) = a
    BY <2>4, <2>5, <2>6, QuantitySingle
  <2>8. o.state \in {"FILLED", "PARTIALLY_FILLED", orders[j].state}
    BY <1>1, <1>2, <1>8 DEF ClientOrder, Booked
  <2>9. MayBecome(orders[j], o.state)
    BY <2>2, <2>8, <1>1, <1>2, <1>8 DEF MayBecome, AllowedTransitions, ClientOrder, Booked
  <2> QED  BY <2>3, <2>4, <2>7, <2>9 DEF F, G, o
<1> QED  BY <1>7, <1>8

\* An order that rests keeps its two accounts when another one comes in.
LEMMA MakerAgrees ==
  ASSUME ClientInv, VenueInv, BookInv, NEW B, Rests(B), NEW t \in Incoming, Replaces(t, B),
         NEW j \in DOMAIN orders, j # t.name, NEW L \in Seq(VenueRecord), j \in DOMAIN L,
         Agree(orders[j], L[j], In(B, j))
  PROVE  LET F == Fills(t, Trades(t, B))
         IN Agree(Consumed(j, F), Recorded(t, Trades(t, B), L)[j], In(book', j))
<1> DEFINE F == Fills(t, Trades(t, B))
           G == FillsOf(j, F)
           o == Consumed(j, F)
           l == Recorded(t, Trades(t, B), L)[j]
           N == In(book', j)
<1>1. j \in DOMAIN L /\ j \in Nat
  BY DEF ClientInv
<1>2. orders[j] \in ClientOrder /\ L[j] \in VenueRecord
  BY <1>1 DEF ClientInv
<1>3. /\ \A k \in N : \E r \in In(B, j) : GivenTo(t, B, r) < r.quantity
                                          /\ k = Kept(r, GivenTo(t, B, r))
      /\ \A r \in In(B, j) : GivenTo(t, B, r) < r.quantity => Kept(r, GivenTo(t, B, r)) \in N
  BY <1>1, NamedAfter
<1>4. /\ G = {} => o = orders[j]
      /\ G # {} => o = Booked(orders[j], G)
  BY ConsumedIs
<1>5. /\ In(B, j) = {} => G = {}
      /\ \A r : In(B, j) = {r} =>
           /\ GivenTo(t, B, r) = 0 => G = {}
           /\ GivenTo(t, B, r) > 0 =>
                G = {[order |-> j, quantity |-> GivenTo(t, B, r),
                      upto |-> orders[j].filled + GivenTo(t, B, r),
                      full |-> GivenTo(t, B, r) = r.quantity]}
  BY MakerFill
<1>6. /\ (\A r \in In(B, j) : r.owner = "SIMULATED" \/ GivenTo(t, B, r) = 0) => l = L[j]
      /\ \A r : In(B, j) = {r} /\ r.owner = "PLAYER" /\ GivenTo(t, B, r) > 0 =>
           l = [filled |-> L[j].filled + GivenTo(t, B, r),
                status |-> IF GivenTo(t, B, r) = r.quantity THEN "FILLED"
                           ELSE "PARTIALLY_FILLED"]
  BY <1>1, RecordedIs
<1>7. /\ \A r \in In(B, j) : /\ r \in B /\ GivenTo(t, B, r) \in Nat
                             /\ GivenTo(t, B, r) <= r.quantity
                             /\ r.quantity \in Nat \ {0}
      /\ \A r \in In(B, j) : GivenTo(t, B, r) < r.quantity =>
           LET k == Kept(r, GivenTo(t, B, r))
           IN /\ k.owner = r.owner /\ k.side = r.side
              /\ k.quantity = r.quantity - GivenTo(t, B, r)
              /\ GivenTo(t, B, r) = 0 => k = r
  BY GivenBy, KeptIs, BookIs DEF In
<1>8. Agree(orders[j], L[j], In(B, j))
  OBVIOUS
<1> HIDE DEF F, G, o, l, N
<1>9. CASE L[j].status \notin {"ACTIVE", "PARTIALLY_FILLED"}
  <2>1. In(B, j) = {}
    BY <1>8, <1>9 DEF Agree
  <2>2. G = {} /\ o = orders[j] /\ l = L[j] /\ N = {}
    BY <2>1, <1>3, <1>4, <1>5, <1>6
  <2> QED  BY <1>8, <2>1, <2>2 DEF F, o, l, N
<1>10. CASE L[j].status \in {"ACTIVE", "PARTIALLY_FILLED"}
  <2>1. /\ orders[j].state \in {"PENDING_CANCEL", "WORKING", "PARTIALLY_FILLED"}
        /\ orders[j].acked /\ orders[j].filled = L[j].filled
    BY <1>8, <1>10 DEF Agree
  <2>2. PICK r : /\ In(B, j) = {r} /\ r.owner = "PLAYER" /\ r.side = orders[j].side
                 /\ r.quantity = Remaining(orders[j])
    BY <1>8, <1>10 DEF Agree
  <2> DEFINE a == GivenTo(t, B, r)
  <2>3. r \in In(B, j) /\ a \in Nat /\ a <= r.quantity /\ r.quantity \in Nat \ {0}
    BY <1>7, <2>2
  <2>4. CASE a = 0
    <3>1. G = {} /\ o = orders[j] /\ l = L[j]
      BY <2>2, <2>4, <1>4, <1>5, <1>6
    <3>2. N = {r}
      BY <2>2, <2>3, <2>4, <1>3, <1>7
    <3> QED  BY <1>8, <2>2, <3>1, <3>2 DEF F, o, l, N
  <2>5. CASE a > 0
    <3> DEFINE f == [order |-> j, quantity |-> a, upto |-> orders[j].filled + a,
                     full |-> a = r.quantity]
    <3>1. G = {f}
      BY <2>2, <2>5, <1>5
    <3>2. f.quantity = a /\ (f.full <=> a = r.quantity)
      OBVIOUS
    <3> HIDE DEF f
    <3>3. QuantityOf(G) = a
      BY <2>3, <3>1, <3>2, QuantitySingle
    <3>4. o = [orders[j] EXCEPT !.filled = orders[j].filled + a,
                                !.state = IF a = r.quantity THEN "FILLED"
                                          ELSE IF orders[j].state = "PENDING_CANCEL"
                                          THEN orders[j].state ELSE "PARTIALLY_FILLED"]
      BY <1>4, <3>1, <3>2, <3>3 DEF Booked
    <3>5. l = [filled |-> L[j].filled + a,
               status |-> IF a = r.quantity THEN "FILLED" ELSE "PARTIALLY_FILLED"]
      BY <1>6, <2>2, <2>5
    <3> DEFINE p == orders[j]
    <3>8. /\ p.filled \in Nat /\ p.closed \in Nat /\ p.quantity \in Nat
          /\ p.filled + p.closed <= p.quantity
          /\ r.quantity = p.quantity - p.filled - p.closed
      BY <1>2, <1>8, <2>2 DEF Agree, Remaining, ClientOrder
    <3>9. /\ o.filled = p.filled + a /\ o.closed = p.closed /\ o.quantity = p.quantity
          /\ o.acked = p.acked /\ o.side = p.side
      BY <1>2, <3>4 DEF ClientOrder
    <3>10. /\ Remaining(o) = r.quantity - a /\ o.filled + o.closed <= o.quantity
           /\ o.filled = l.filled /\ l.status # "ABSENT"
      BY <2>1, <2>3, <3>5, <3>8, <3>9 DEF Remaining
    <3>11. CASE a = r.quantity
      <4>1. N = {}
        BY <1>3, <2>2, <2>3, <3>11
      <4>2. o.state = "FILLED" /\ l.status = "FILLED"
        BY <1>2, <3>4, <3>5, <3>11 DEF ClientOrder
      <4>3. Remaining(o) = 0
        BY <2>3, <3>10, <3>11
      <4>4. Agree(o, l, N)
        BY <2>1, <3>9, <3>10, <4>1, <4>2, <4>3 DEF Agree
      <4> QED  BY <4>4 DEF F, o, l, N
    <3>12. CASE a # r.quantity
      <4> DEFINE k == Kept(r, a)
      <4>1. N = {k} /\ k.owner = "PLAYER" /\ k.side = o.side /\ k.quantity = Remaining(o)
        <5>1. a < r.quantity
          BY <2>3, <3>12
        <5> QED  BY <5>1, <1>3, <1>7, <2>2, <2>3, <3>9, <3>10
      <4>2. o.state \in {"PENDING_CANCEL", "PARTIALLY_FILLED"} /\ l.status = "PARTIALLY_FILLED"
        BY <1>2, <3>4, <3>5, <3>12 DEF ClientOrder
      <4> HIDE DEF k
      <4>3. Agree(o, l, N)
        BY <2>1, <3>9, <3>10, <4>1, <4>2 DEF Agree
      <4> QED  BY <4>3 DEF F, o, l, N
    <3> QED  BY <3>11, <3>12
  <2> QED  BY <2>3, <2>4, <2>5
<1> QED  BY <1>9, <1>10

\* A stolen name stays one, and an order loses its name only before the venue
\* has seen it.
LEMMA StolenStays ==
  ASSUME ClientInv, VenueInv, BookInv, NEW B, Rests(B), NEW t \in Incoming, Replaces(t, B),
         NEW j \in DOMAIN orders, j # t.name \/ t.owner = "SIMULATED",
         NEW L, j \in DOMAIN L, Steal(orders[j], L[j], In(B, j))
  PROVE  Steal(Consumed(j, Fills(t, Trades(t, B))), Recorded(t, Trades(t, B), L)[j], In(book', j))
<1> DEFINE G == FillsOf(j, Fills(t, Trades(t, B)))
           o == Consumed(j, Fills(t, Trades(t, B)))
           l == Recorded(t, Trades(t, B), L)[j]
<1>1. j \in DOMAIN L /\ j \in Nat
  BY DEF ClientInv
<1>2. orders[j] \in ClientOrder
  BY DEF ClientInv
<1>3. Steal(orders[j], L[j], In(B, j))
  OBVIOUS
<1>4. l = L[j]
  <2>1. t.name # j \/ t.owner # "PLAYER"
    OBVIOUS
  <2>2. \A r \in In(B, j) : r.owner = "SIMULATED"
    BY <1>3 DEF Steal
  <2> QED  BY <1>1, <2>1, <2>2, RecordedIs
<1>5. \A k \in In(book', j) : k.owner = "SIMULATED"
  <2> SUFFICES ASSUME NEW k \in In(book', j) PROVE k.owner = "SIMULATED"
    OBVIOUS
  <2>1. CASE k \in Rest(t, Trades(t, B)) /\ t.name = j
    BY <2>1, RestIs
  <2>2. ASSUME NEW r \in In(B, j), GivenTo(t, B, r) < r.quantity, k = Kept(r, GivenTo(t, B, r))
        PROVE  k.owner = "SIMULATED"
    <3>1. r \in B /\ r.owner = "SIMULATED"
      BY <1>3 DEF Steal, In
    <3> QED  BY <2>2, <3>1, KeptIs
  <2> QED  BY <1>1, <2>1, <2>2, NamedAfter
<1>6. /\ QuantityOf(G) \in Nat
      /\ G = {} => o = orders[j]
      /\ G # {} => /\ QuantityOf(G) > 0
                   /\ o = Booked(orders[j], G)
  BY ConsumedIs
<1> HIDE DEF G, o, l
<1>7. CASE G = {}
  BY <1>3, <1>4, <1>5, <1>6, <1>7 DEF Steal, o, l
<1>8. CASE G # {}
  <2>1. o.filled # 0 /\ o.acked = orders[j].acked
    <3>1. o.filled = orders[j].filled + QuantityOf(G) /\ o.acked = orders[j].acked
      BY <1>2, <1>6, <1>8 DEF ClientOrder, Booked
    <3>2. orders[j].filled \in Nat
      BY <1>2 DEF ClientOrder
    <3> QED  BY <1>6, <1>8, <3>1, <3>2
  <2>2. o.state \in {"FILLED", "PENDING_CANCEL", "PARTIALLY_FILLED"}
    BY <1>2, <1>6, <1>8 DEF ClientOrder, Booked
  <2>3. Steal(o, l, In(book', j))
    BY <1>3, <1>4, <1>5, <2>1, <2>2 DEF Steal
  <2> QED  BY <2>3 DEF o, l
<1> QED  BY <1>7, <1>8

LEMMA AbsentIsStolen ==
  ASSUME NEW o, NEW l, NEW N, Agree(o, l, N), l.status = "ABSENT"
  PROVE  Steal(o, l, N)
  BY DEF Agree, Steal, Waiting

\* A withdrawal of the one order of a name leaves the two accounts of every
\* order as they were, but for the venue's record of the order withdrawn.
LEMMA WithdrawnIs ==
  ASSUME ClientInv, VenueInv, NEW target, NEW S, S = Named(target)
  PROVE  /\ Withdrawn(S) \in Seq(VenueRecord) /\ DOMAIN Withdrawn(S) = DOMAIN ledger
         /\ \A j \in DOMAIN orders :
              /\ Agreed(j) => Agree(orders[j], Withdrawn(S)[j], In(book \ S, j))
              /\ Stolen(j) => Steal(orders[j], Withdrawn(S)[j], In(book \ S, j))
              /\ /\ Agreed(j) \/ Stolen(j)
                 /\ ledger[j].status \notin {"ACTIVE", "PARTIALLY_FILLED"}
                 => Withdrawn(S)[j] = ledger[j]
<1> DEFINE L == Withdrawn(S)
           hit(j) == \E r \in S : r.name = j /\ r.owner = "PLAYER"
<1>1. /\ DOMAIN ledger = DOMAIN orders /\ ledger \in Seq(VenueRecord)
      /\ \A j \in DOMAIN ledger : ledger[j] \in VenueRecord
  BY DEF VenueInv
<1>2. L = [j \in DOMAIN ledger |->
             IF hit(j) THEN [ledger[j] EXCEPT !.status = "WITHDRAWN"] ELSE ledger[j]]
  BY DEF Withdrawn
<1>3. ASSUME NEW j \in DOMAIN ledger
      PROVE  /\ L[j] \in VenueRecord /\ L[j].filled = ledger[j].filled
             /\ hit(j) => L[j].status = "WITHDRAWN"
             /\ ~hit(j) => L[j] = ledger[j]
  BY <1>1, <1>2, <1>3 DEF VenueRecord, Statuses
<1>4. \A r \in S : r.name = target
  BY DEF Named
<1>5. \A j : In(book \ S, j) = IF j = target THEN {} ELSE Named(j)
  BY DEF In, Named
<1>6. L \in Seq(VenueRecord) /\ DOMAIN L = DOMAIN ledger
  <2>1. L = [j \in DOMAIN ledger |-> L[j]]
    BY <1>2
  <2> HIDE DEF L
  <2> QED  BY <1>1, <1>3, <2>1, SeqUpdate
<1> HIDE DEF L
<1>7. ASSUME NEW j \in DOMAIN orders
      PROVE  /\ hit(j) => j = target /\ \E r \in Named(j) : r.owner = "PLAYER"
             /\ j # target => ~hit(j)
  BY <1>4 DEF Named
<1>8. ASSUME NEW j \in DOMAIN orders, Agreed(j)
      PROVE  Agree(orders[j], L[j], In(book \ S, j))
  <2>1. Agree(orders[j], ledger[j], Named(j))
    BY <1>8 DEF Agreed
  <2>2. CASE hit(j)
    <3>1. j = target /\ Named(j) # {} /\ In(book \ S, j) = {}
      BY <1>5, <1>7, <2>2
    <3>2. ledger[j].status \in {"ACTIVE", "PARTIALLY_FILLED"}
      BY <2>1, <3>1 DEF Agree
    <3>3. L[j].status = "WITHDRAWN" /\ L[j].filled = ledger[j].filled
      BY <1>1, <1>3, <2>2
    <3> HIDE DEF hit
    <3> QED  BY <2>1, <3>1, <3>2, <3>3 DEF Agree
  <2>3. CASE ~hit(j)
    <3>1. L[j] = ledger[j]
      BY <1>1, <1>3, <2>3
    <3>2. In(book \ S, j) = Named(j)
      <4>1. CASE j = target
        <5>1. \A r \in Named(j) : r.owner # "PLAYER"
          BY <2>3, <4>1 DEF Named
        <5>2. Named(j) = {}
          BY <2>1, <5>1 DEF Agree
        <5> QED  BY <1>5, <4>1, <5>2
      <4>2. CASE j # target
        BY <1>5, <4>2
      <4> QED  BY <4>1, <4>2
    <3> QED  BY <2>1, <3>1, <3>2
  <2> QED  BY <2>2, <2>3
<1>9. ASSUME NEW j \in DOMAIN orders, Stolen(j)
      PROVE  Steal(orders[j], L[j], In(book \ S, j))
  <2>1. Steal(orders[j], ledger[j], Named(j))
    BY <1>9 DEF Stolen
  <2>2. ~hit(j)
    BY <1>7, <2>1 DEF Steal
  <2>3. L[j] = ledger[j]
    BY <1>1, <1>3, <2>2
  <2>4. \A r \in In(book \ S, j) : r.owner = "SIMULATED"
    BY <1>5, <2>1 DEF Steal
  <2> QED  BY <2>1, <2>3, <2>4 DEF Steal
<1>10. ASSUME NEW j \in DOMAIN orders, Agreed(j) \/ Stolen(j),
              ledger[j].status \notin {"ACTIVE", "PARTIALLY_FILLED"}
       PROVE  L[j] = ledger[j]
  <2>1. \A r \in Named(j) : r.owner # "PLAYER"
    BY <1>10 DEF Agreed, Agree, Stolen, Steal
  <2>2. ~hit(j)
    BY <1>7, <2>1
  <2> HIDE DEF hit
  <2> QED  BY <1>1, <1>3, <2>2
<1> QED  BY <1>6, <1>8, <1>9, <1>10 DEF L

-----------------------------------------------------------------------------
(* A new order at the venue *)

LEMMA TakerIs ==
  ASSUME ClientInv, NEW k \in DOMAIN orders
  PROVE  LET t == Taker(k)
         IN /\ t \in Incoming /\ t.name = k /\ t.owner = "PLAYER"
            /\ t.side = orders[k].side /\ t.price = orders[k].price
            /\ t.quantity = orders[k].quantity
<1>1. orders[k] \in ClientOrder /\ k \in Nat
  BY DEF ClientInv
<1> QED  BY <1>1 DEF Taker, Incoming, ClientOrder

\* The order once the venue has taken it.
Acknowledged(o, state, quantity) ==
  [o EXCEPT !.state = state, !.acked = TRUE,
            !.closed = IF state = "EXPIRED" THEN quantity - o.filled ELSE @]

\* An order the venue has not seen fills no more than it asks for and takes no
\* transition that is refused; what both sides then record of it.
LEMMA TakerTrades ==
  ASSUME ClientInv, VenueInv, BookInv, NEW k \in DOMAIN orders,
         Agreed(k), ledger[k].status = "ABSENT"
  PROVE  LET t == Taker(k) T == Trades(t, book) F == Fills(t, T) o == Consumed(k, F)
             l == Recorded(t, T, ledger)[k] state == Settled(o, l.status)
             p == Acknowledged(o, state, t.quantity) done == QuantityOf(T)
         IN /\ p \in ClientOrder /\ l \in VenueRecord
            /\ done \in Nat /\ done <= t.quantity
            /\ l = [filled |-> done,
                    status |-> IF done = t.quantity THEN "FILLED"
                               ELSE IF t.price = 0 THEN "EXPIRED"
                               ELSE IF done > 0 THEN "PARTIALLY_FILLED" ELSE "ACTIVE"]
            /\ p.state = state /\ p.acked = TRUE /\ p.filled = done
            /\ p.quantity = t.quantity /\ p.side = t.side
            /\ p.closed = (IF state = "EXPIRED" THEN t.quantity - done ELSE 0)
            /\ QuantityOf(FillsOf(k, F)) <= Remaining(orders[k])
            /\ orders[k].state # "CREATED" =>
                 MayBecome(orders[k], o.state) /\ MayBecome(o, state)
            /\ state \notin {"CREATED", "PENDING_NEW", "REJECTED", "CANCELLED"}
            /\ state = "PENDING_CANCEL" => orders[k].state = "PENDING_CANCEL"
            /\ state \in {"PENDING_CANCEL", IF l.status = "ACTIVE" THEN "WORKING" ELSE l.status}
            /\ l.status \in {"FILLED", "EXPIRED"} => state = l.status
            /\ state = "EXPIRED" <=> l.status = "EXPIRED"
<1> DEFINE t == Taker(k)
           T == Trades(t, book)
           G == FillsOf(k, Fills(t, T))
           o == Consumed(k, Fills(t, T))
           l == Recorded(t, T, ledger)[k]
           state == Settled(o, l.status)
           p == Acknowledged(o, state, t.quantity)
           done == QuantityOf(T)
           old == orders[k]
<1>1. /\ t \in Incoming /\ t.name = k /\ t.owner = "PLAYER"
      /\ t.side = old.side /\ t.price = old.price /\ t.quantity = old.quantity
  BY TakerIs
<1>2. old \in ClientOrder /\ k \in Nat /\ k \in DOMAIN ledger
  BY DEF ClientInv, VenueInv
<1>3. /\ ~old.acked /\ old.filled = 0 /\ old.closed = 0 /\ old.state \in Waiting
      /\ In(book, k) = {}
  BY DEF Agreed, Agree, Named, In
<1>20. Rests(book)
  BY DEF Rests
<1> HIDE DEF t
<1>4. /\ done \in Nat /\ done <= t.quantity
      /\ T = {} => done = 0
      /\ T # {} => done > 0
  BY <1>1, <1>20, TradesAre
<1>5. QuantityOf(G) = done /\ ((\E f \in G : f.full) => done = t.quantity)
  BY <1>1, <1>3, <1>20, TakerFill
<1>6. /\ G = {} => o = old
      /\ G # {} => /\ QuantityOf(G) > 0
                   /\ o = Booked(old, G)
      /\ o \in ClientOrder
      /\ o.side = old.side /\ o.quantity = old.quantity
      /\ o.closed = old.closed /\ o.acked = old.acked
      /\ o.filled = old.filled + QuantityOf(G)
  BY <1>1, <1>20, ConsumedIs
<1>7. l = [filled |-> done,
           status |-> IF done = t.quantity THEN "FILLED"
                      ELSE IF t.price = 0 THEN "EXPIRED"
                      ELSE IF done > 0 THEN "PARTIALLY_FILLED" ELSE "ACTIVE"]
  BY <1>1, <1>2 DEF Recorded
<1>9. t.quantity \in Nat \ {0} /\ old.quantity = t.quantity
  BY <1>1 DEF Incoming
<1> HIDE DEF T, G, o, l, done
<1>10. o.filled = done /\ o.closed = 0 /\ o.quantity = t.quantity /\ o.side = t.side
  BY <1>1, <1>3, <1>4, <1>5, <1>6
<1>11. /\ o.state \in {old.state, "FILLED", "PARTIALLY_FILLED"}
       /\ o.state = "FILLED" => done = t.quantity
       /\ done > 0 => o.state \in {"FILLED", "PENDING_CANCEL", "PARTIALLY_FILLED"}
       /\ o.state = "PARTIALLY_FILLED" => done > 0
       /\ o.state = "PENDING_CANCEL" => old.state = "PENDING_CANCEL"
  <2>1. CASE G = {}
    <3>1. done = 0
      BY <2>1, <1>5, QuantityEmpty
    <3> QED  BY <2>1, <3>1, <1>3, <1>6 DEF Waiting
  <2>2. CASE G # {}
    <3>1. o.state = IF \E f \in G : f.full THEN "FILLED"
                    ELSE IF old.state = "PENDING_CANCEL"
                    THEN old.state ELSE "PARTIALLY_FILLED"
      BY <2>2, <1>2, <1>6 DEF ClientOrder, Booked
    <3>2. done > 0
      BY <2>2, <1>5, <1>6
    <3> QED  BY <3>1, <3>2, <1>5
  <2> QED  BY <2>1, <2>2
<1>12. l.filled = done /\ l.status \in {"FILLED", "EXPIRED", "PARTIALLY_FILLED", "ACTIVE"}
       /\ l \in VenueRecord
  BY <1>4, <1>7 DEF VenueRecord, Statuses
<1>13. state = IF o.state # "PENDING_CANCEL" \/ l.status \in {"FILLED", "EXPIRED"}
               THEN IF l.status = "ACTIVE" THEN "WORKING" ELSE l.status
               ELSE "PENDING_CANCEL"
  BY <1>12 DEF Settled
<1> HIDE DEF state
<1>14. /\ state \in States
       /\ state \notin {"CREATED", "PENDING_NEW", "REJECTED", "CANCELLED"}
       /\ state = "PENDING_CANCEL" => old.state = "PENDING_CANCEL"
       /\ state = "EXPIRED" <=> l.status = "EXPIRED"
  BY <1>11, <1>12, <1>13 DEF States, Waiting, Terminal
<1>15. /\ p.state = state /\ p.acked = TRUE /\ p.filled = done /\ p.quantity = t.quantity
       /\ p.closed = (IF state = "EXPIRED" THEN t.quantity - done ELSE 0)
       /\ p.side = t.side
       /\ p \in ClientOrder
  <2> DEFINE n == IF state = "EXPIRED" THEN t.quantity - o.filled ELSE o.closed
  <2>1. p = [o EXCEPT !.state = state, !.acked = TRUE, !.closed = n]
    BY <1>6 DEF Acknowledged, ClientOrder
  <2>2. n \in Nat /\ n = IF state = "EXPIRED" THEN t.quantity - done ELSE 0
    BY <1>4, <1>9, <1>10
  <2> HIDE DEF n
  <2>3. p \in ClientOrder /\ p.state = state /\ p.acked = TRUE /\ p.closed = n
        /\ p.filled = o.filled /\ p.quantity = o.quantity /\ p.side = o.side
    BY <1>6, <1>14, <2>1, <2>2 DEF ClientOrder
  <2> QED  BY <1>10, <2>2, <2>3
<1> HIDE DEF p
<1>16. QuantityOf(G) <= Remaining(old)
  BY <1>3, <1>4, <1>5, <1>9 DEF Remaining
<1>17. old.state # "CREATED" => MayBecome(old, o.state) /\ MayBecome(o, state)
  <2> SUFFICES ASSUME old.state # "CREATED" PROVE MayBecome(old, o.state) /\ MayBecome(o, state)
    OBVIOUS
  <2>1. MayBecome(old, o.state)
    BY <1>3, <1>11 DEF MayBecome, AllowedTransitions, Waiting
  <2>2. CASE o.state = "FILLED"
    <3>1. state = "FILLED"
      BY <2>2, <1>7, <1>11, <1>13
    <3> QED  BY <2>1, <2>2, <3>1 DEF MayBecome
  <2>3. CASE o.state = "PARTIALLY_FILLED"
    <3>1. state \in {"FILLED", "EXPIRED", "PARTIALLY_FILLED"}
      BY <2>3, <1>7, <1>11, <1>13
    <3> QED  BY <2>1, <2>3, <3>1 DEF MayBecome, AllowedTransitions
  <2>4. CASE o.state = "PENDING_NEW"
    <3>1. done = 0
      BY <2>4, <1>4, <1>11
    <3>2. state \in {"WORKING", "EXPIRED"}
      BY <2>4, <3>1, <1>7, <1>9, <1>13
    <3> QED  BY <2>1, <2>4, <3>2 DEF MayBecome, AllowedTransitions
  <2>5. CASE o.state = "PENDING_CANCEL"
    <3>1. state \in {"FILLED", "EXPIRED", "PENDING_CANCEL"}
      BY <2>5, <1>12, <1>13
    <3> QED  BY <2>1, <2>5, <3>1 DEF MayBecome, AllowedTransitions
  <2> QED  BY <1>3, <1>11, <2>2, <2>3, <2>4, <2>5 DEF Waiting
<1>18. /\ state \in {"PENDING_CANCEL", IF l.status = "ACTIVE" THEN "WORKING" ELSE l.status}
       /\ l.status \in {"FILLED", "EXPIRED"} => state = l.status
  BY <1>12, <1>13
<1> QED  BY <1>4, <1>7, <1>12, <1>14, <1>15, <1>16, <1>17, <1>18
         DEF p, l, o, state, G, T, t, done

\* Its two accounts then agree.
LEMMA TakerAgrees ==
  ASSUME ClientInv, VenueInv, BookInv, NEW k \in DOMAIN orders, Replaces(Taker(k), book),
         Agreed(k), ledger[k].status = "ABSENT"
  PROVE  LET t == Taker(k) T == Trades(t, book) l == Recorded(t, T, ledger)[k]
             state == Settled(Consumed(k, Fills(t, T)), l.status)
         IN Agree(Acknowledged(Consumed(k, Fills(t, T)), state, t.quantity), l, In(book', k))
<1> DEFINE t == Taker(k)
           T == Trades(t, book)
           l == Recorded(t, T, ledger)[k]
           state == Settled(Consumed(k, Fills(t, T)), l.status)
           p == Acknowledged(Consumed(k, Fills(t, T)), state, t.quantity)
           N == In(book', k)
           done == QuantityOf(T)
<1>1. t \in Incoming /\ t.name = k /\ t.owner = "PLAYER" /\ k \in Nat
  BY TakerIs DEF ClientInv
<1>2. In(book, k) = {}
  BY DEF Agreed, Agree, Named, In
<1>20. Rests(book)
  BY DEF Rests
<1>3. /\ done \in Nat /\ done <= t.quantity
      /\ l = [filled |-> done,
              status |-> IF done = t.quantity THEN "FILLED"
                         ELSE IF t.price = 0 THEN "EXPIRED"
                         ELSE IF done > 0 THEN "PARTIALLY_FILLED" ELSE "ACTIVE"]
      /\ p.state = state /\ p.acked = TRUE /\ p.filled = done
      /\ p.quantity = t.quantity /\ p.side = t.side
      /\ p.closed = (IF state = "EXPIRED" THEN t.quantity - done ELSE 0)
      /\ state \in {"PENDING_CANCEL", IF l.status = "ACTIVE" THEN "WORKING" ELSE l.status}
      /\ l.status \in {"FILLED", "EXPIRED"} => state = l.status
      /\ state = "EXPIRED" <=> l.status = "EXPIRED"
  BY TakerTrades
<1> HIDE DEF t
<1>4. N = Rest(t, T)
  <2>1. Replaces(t, book)
    BY DEF t
  <2>2. /\ \A x \in In(book', k) :
             \/ x \in Rest(t, Trades(t, book)) /\ t.name = k
             \/ \E r \in In(book, k) : GivenTo(t, book, r) < r.quantity /\ x = Kept(r, GivenTo(t, book, r))
        /\ t.name = k => Rest(t, Trades(t, book)) \subseteq In(book', k)
    BY <1>1, <1>20, <2>1, NamedAfter
  <2> QED  BY <1>1, <1>2, <2>2
<1>5. t.quantity \in Nat \ {0}
  BY <1>1 DEF Incoming
<1> HIDE DEF T, l, state, p, N, done
<1>6. l.filled = done /\ l.status \in {"FILLED", "EXPIRED", "PARTIALLY_FILLED", "ACTIVE"}
  BY <1>3
<1>7. p.acked /\ l.status # "ABSENT" /\ p.filled = l.filled
  BY <1>3, <1>6
<1>8. p.filled + p.closed <= p.quantity
  BY <1>3, <1>5
<1>9. CASE l.status \in {"ACTIVE", "PARTIALLY_FILLED"}
  <2>1. done # t.quantity /\ t.price # 0
    BY <1>3, <1>9
  <2>2. t.quantity - done # 0
    BY <1>3, <1>5, <2>1
  <2>3. PICK r : Rest(t, T) = {r}
    BY <2>1, <2>2 DEF Rest, done
  <2>4. r.owner = "PLAYER" /\ r.side = p.side /\ r.quantity = t.quantity - done
    BY <1>1, <1>3, <1>20, <2>3, RestIs DEF done, T
  <2>5. p.closed = 0 /\ Remaining(p) = t.quantity - done
    BY <1>3, <1>5, <1>9 DEF Remaining
  <2>6. p.state \in {"PENDING_CANCEL", IF l.status = "ACTIVE" THEN "WORKING" ELSE l.status}
    BY <1>3
  <2>7. Agree(p, l, N)
    BY <1>4, <1>7, <1>8, <1>9, <2>3, <2>4, <2>5, <2>6 DEF Agree
  <2> QED  BY <2>7 DEF p, state, l, N, T, t
<1>10. CASE l.status \in {"FILLED", "EXPIRED"}
  <2>1. t.price = 0 \/ t.quantity - done = 0
    BY <1>3, <1>5, <1>10
  <2>2. N = {}
    BY <1>4, <2>1 DEF Rest, done
  <2>3. p.state = l.status
    BY <1>3, <1>10
  <2>4. Remaining(p) = 0
    BY <1>3, <1>5, <1>10 DEF Remaining
  <2>5. Agree(p, l, N)
    BY <1>7, <1>8, <1>10, <2>2, <2>3, <2>4 DEF Agree
  <2> QED  BY <2>5 DEF p, state, l, N, T, t
<1> QED  BY <1>6, <1>9, <1>10

-----------------------------------------------------------------------------
(* What is on the way *)

NewTokens(k) == {m \in wire : m.kind \in NewKinds /\ m.order = k}

CancelTokens(c) == {m \in wire : m.kind \in CancelKinds /\ m.cancel = c}

\* The client has asked for the order's cancellation, or the order is done.
Asking(o) == o.state \in Terminal \cup {"PENDING_CANCEL"}

\* An order is on its way to the venue until the venue has decided on it, and
\* waits for a cancellation only while one of its own is undecided, or for good
\* once it is withdrawn.
OrderOnWay(k) ==
  /\ \A x, y \in NewTokens(k) : x = y
  /\ NewTokens(k) # {} => ledger[k].status = "ABSENT"
  /\ \A x \in NewTokens(k) : x.kind = "NEW_PROCESS" => orders[k].state # "CREATED"
  /\ ~Resolved(orders[k]) => NewTokens(k) # {}
  /\ orders[k].state = "PENDING_CANCEL" =>
       \/ ledger[k].status = "WITHDRAWN"
       \/ \E c \in DOMAIN cancels : cancels[c].order = k /\ cancels[c].outcome = "NONE"

\* An undecided cancellation is on its way or held back, one of them, and held
\* back only while its order is on its way; it reaches the venue after it.
CancelOnWay(c) ==
  LET k == cancels[c].order
  IN /\ \A x, y \in CancelTokens(c) : x = y
     /\ cancels[c].outcome = "NONE" <=> c \in held \/ CancelTokens(c) # {}
     /\ c \in held => CancelTokens(c) = {} /\ NewTokens(k) # {}
     /\ \A x \in CancelTokens(c) : x.kind = "CANCEL_PROCESS" => Resolved(orders[k])
     /\ c \in held => Asking(orders[k])
     /\ \A x \in CancelTokens(c) : x.kind # "CANCEL_SENT" => Asking(orders[k])
     /\ \/ cancels[c].outcome \in Terminal \cup {"NONE", "WON"}
        \/ cancels[c].outcome = "PENDING_CANCEL" /\ ledger[k].status = "WITHDRAWN"
     /\ cancels[c].outcome = "WON" =>
          /\ orders[k].state = "CANCELLED"
          /\ \A d \in DOMAIN cancels \ {c} :
               cancels[d].order = k => cancels[d].outcome # "WON"

GatewayInv ==
  /\ \A k \in DOMAIN orders : OrderOnWay(k)
  /\ \A c \in DOMAIN cancels : CancelOnWay(c)

SessionInv ==
  ClientInv /\ VenueInv /\ BookInv /\ WireInv /\ AccountInv /\ GatewayInv

LEMMA Fields ==
  ASSUME ClientInv, VenueInv
  PROVE  /\ \A k \in DOMAIN orders : orders[k] \in ClientOrder /\ ledger[k] \in VenueRecord
         /\ \A c \in DOMAIN cancels :
              /\ cancels[c] \in [order : DOMAIN orders, outcome : States \cup {"NONE", "WON"}]
              /\ cancels[c].order \in DOMAIN orders
<1>1. ASSUME NEW k \in DOMAIN orders
      PROVE  orders[k] \in ClientOrder /\ ledger[k] \in VenueRecord
  BY <1>1 DEF ClientInv, VenueInv
<1>2. ASSUME NEW c \in DOMAIN cancels
      PROVE  cancels[c] \in [order : DOMAIN orders, outcome : States \cup {"NONE", "WON"}]
  <2> DEFINE C == [order : DOMAIN orders, outcome : States \cup {"NONE", "WON"}]
  <2>1. cancels \in Seq(C)
    BY DEF ClientInv
  <2> HIDE DEF C
  <2>2. cancels[c] \in C
    BY <2>1
  <2> QED  BY <2>2 DEF C
<1>3. ASSUME NEW c \in DOMAIN cancels
      PROVE  cancels[c].order \in DOMAIN orders
  BY <1>2
<1> QED  BY <1>1, <1>2, <1>3

LEMMA WireKept ==
  ASSUME WireInv, ClientInv, VenueInv, NEW new, wire' \subseteq wire \cup new,
         DOMAIN orders \subseteq DOMAIN orders', DOMAIN cancels \subseteq DOMAIN cancels',
         \A k \in DOMAIN orders : /\ orders[k].filled <= orders'[k].filled
                                  /\ orders'[k].filled \in Nat,
         \A m \in new : Sound(m)', IsFiniteSet({m \in new : m.kind = "FILL_CLIENT"})
  PROVE  WireInv'
<1>1. ASSUME NEW m \in wire
      PROVE  Sound(m)'
  <2>1. Sound(m)
    BY DEF WireInv
  <2>2. m.kind = "FILL_CLIENT" => m \in Report' /\ m.upto <= orders'[m.order].filled
    <3> SUFFICES ASSUME m.kind = "FILL_CLIENT"
                 PROVE  m \in Report' /\ m.upto <= orders'[m.order].filled
      OBVIOUS
    <3>1. m \in Report /\ m.upto <= orders[m.order].filled
      BY <2>1 DEF Sound
    <3>2. m.order \in DOMAIN orders /\ m.upto \in Nat
      BY <3>1 DEF Report
    <3>3. orders[m.order].filled \in Nat
      BY <3>2, Fields DEF ClientOrder
    <3>4. m.upto <= orders'[m.order].filled
      BY <3>1, <3>2, <3>3
    <3> QED  BY <3>1, <3>4 DEF Report
  <2> QED  BY <2>1, <2>2 DEF Sound
<1>2. IsFiniteSet(Reported')
  <2>1. Reported' \in SUBSET (Reported \cup {m \in new : m.kind = "FILL_CLIENT"})
    BY DEF Reported
  <2> QED  BY <2>1, FS_Union, FS_Subset DEF WireInv
<1> QED  BY <1>1, <1>2 DEF WireInv

\* Nothing about orders and cancellations on their way changes, and no order
\* goes back.
LEMMA GatewayKept ==
  ASSUME GatewayInv, UNCHANGED <<cancels, held>>, DOMAIN orders' = DOMAIN orders,
         \A c \in DOMAIN cancels : cancels[c].order \in DOMAIN orders,
         \A k \in DOMAIN orders : NewTokens(k)' = NewTokens(k),
         \A c \in DOMAIN cancels : CancelTokens(c)' = CancelTokens(c),
         \A k \in DOMAIN orders :
           /\ Resolved(orders[k]) => Resolved(orders'[k])
           /\ Asking(orders[k]) => Asking(orders'[k])
           /\ orders[k].state = "CANCELLED" => orders'[k].state = "CANCELLED"
           /\ orders'[k].state \in {"PENDING_CANCEL", "CREATED"} =>
                orders'[k].state = orders[k].state
           /\ NewTokens(k) # {} => ledger'[k].status = "ABSENT"
           /\ ledger[k].status = "WITHDRAWN" => ledger'[k].status = "WITHDRAWN"
  PROVE  GatewayInv'
<1>1. ASSUME NEW k \in DOMAIN orders
      PROVE  OrderOnWay(k)'
  <2>1. OrderOnWay(k)
    BY DEF GatewayInv
  <2> QED  BY <2>1 DEF OrderOnWay, Resolved
<1>2. ASSUME NEW c \in DOMAIN cancels
      PROVE  CancelOnWay(c)'
  <2>1. CancelOnWay(c)
    BY DEF GatewayInv
  <2>2. cancels[c].order \in DOMAIN orders
    OBVIOUS
  <2> QED  BY <2>1, <2>2 DEF CancelOnWay, Resolved
<1> QED  BY <1>1, <1>2 DEF GatewayInv

\* The venue decides on the order k: what was held back for it follows.
LEMMA GatewayReleases ==
  ASSUME GatewayInv, UNCHANGED cancels, DOMAIN orders' = DOMAIN orders,
         \A c \in DOMAIN cancels : cancels[c].order \in DOMAIN orders,
         NEW k \in DOMAIN orders,
         held' = held \ HeldFor(k),
         NewTokens(k)' = {},
         \A j \in DOMAIN orders \ {k} : NewTokens(j)' = NewTokens(j),
         \A c \in DOMAIN cancels :
           CancelTokens(c)' = IF c \in HeldFor(k)
                              THEN {[kind |-> "CANCEL_PROCESS", cancel |-> c]}
                              ELSE CancelTokens(c),
         Resolved(orders'[k]),
         \A j \in DOMAIN orders :
           /\ Resolved(orders[j]) => Resolved(orders'[j])
           /\ Asking(orders[j]) => Asking(orders'[j])
           /\ orders[j].state = "CANCELLED" => orders'[j].state = "CANCELLED"
           /\ orders'[j].state \in {"PENDING_CANCEL", "CREATED"} =>
                orders'[j].state = orders[j].state
           /\ j # k /\ NewTokens(j) # {} => ledger'[j].status = "ABSENT"
           /\ ledger[j].status = "WITHDRAWN" => ledger'[j].status = "WITHDRAWN"
  PROVE  GatewayInv'
<1>1. ASSUME NEW j \in DOMAIN orders
      PROVE  OrderOnWay(j)'
  <2>1. OrderOnWay(j)
    BY DEF GatewayInv
  <2>2. CASE j = k
    BY <2>1, <2>2 DEF OrderOnWay, Resolved
  <2>3. CASE j # k
    BY <2>1, <2>3 DEF OrderOnWay, Resolved
  <2> QED  BY <2>2, <2>3
<1>2. ASSUME NEW c \in DOMAIN cancels
      PROVE  CancelOnWay(c)'
  <2>1. CancelOnWay(c)
    BY DEF GatewayInv
  <2>2. cancels[c].order \in DOMAIN orders
    OBVIOUS
  <2>3. CASE c \in HeldFor(k)
    <3> DEFINE x == [kind |-> "CANCEL_PROCESS", cancel |-> c]
    <3>1. CancelTokens(c)' = {x} /\ c \notin held' /\ cancels[c].order = k /\ c \in held
      BY <2>3 DEF HeldFor
    <3> QED  BY <2>1, <3>1 DEF CancelOnWay, Resolved
  <2>4. CASE c \notin HeldFor(k)
    <3>1. c \in held' <=> c \in held
      BY <2>4
    <3>2. c \in held => cancels[c].order # k
      BY <2>4 DEF HeldFor
    <3>3. CancelTokens(c)' = CancelTokens(c)
      BY <2>4
    <3> QED  BY <2>1, <2>2, <3>1, <3>2, <3>3 DEF CancelOnWay, Resolved
  <2> QED  BY <2>3, <2>4
<1> QED  BY <1>1, <1>2 DEF GatewayInv

-----------------------------------------------------------------------------
(* A trade *)

\* The order t trades when B rests and L is recorded, and both sides record it.
Trade(t, B, L) ==
  /\ Consumable(Fills(t, Trades(t, B)))
  /\ Replaces(t, B)
  /\ ledger' = Recorded(t, Trades(t, B), L)
  /\ position' = Moved(t, Trades(t, B))

\* What an order comes in to: the book and the record as they are, or as a
\* withdrawal leaves them.
Ground(B, L) ==
  /\ Rests(B)
  /\ L \in Seq(VenueRecord) /\ DOMAIN L = DOMAIN ledger
  /\ \A j \in DOMAIN orders \ taken : Agree(orders[j], L[j], In(B, j))
  /\ \A j \in taken \cap DOMAIN orders : Steal(orders[j], L[j], In(B, j))
  /\ \A j \in DOMAIN orders :
       ledger[j].status \in {"ABSENT", "WITHDRAWN"} => L[j] = ledger[j]

LEMMA GroundAsIs ==
  ASSUME VenueInv, AccountInv
  PROVE  Ground(book, ledger)
  BY DEF Ground, Rests, In, Named, Agreed, Stolen, VenueInv, AccountInv

LEMMA GroundWithdrawn ==
  ASSUME ClientInv, VenueInv, AccountInv, NEW target
  PROVE  Ground(book \ Named(target), Withdrawn(Named(target)))
<1> DEFINE S == Named(target)
<1>1. \A j \in DOMAIN orders : /\ j \notin taken => Agreed(j)
                               /\ j \in taken => Stolen(j)
  BY DEF AccountInv
<1> HIDE DEF S
<1>2. /\ Withdrawn(S) \in Seq(VenueRecord) /\ DOMAIN Withdrawn(S) = DOMAIN ledger
      /\ \A j \in DOMAIN orders :
           /\ Agreed(j) => Agree(orders[j], Withdrawn(S)[j], In(book \ S, j))
           /\ Stolen(j) => Steal(orders[j], Withdrawn(S)[j], In(book \ S, j))
           /\ /\ Agreed(j) \/ Stolen(j)
              /\ ledger[j].status \notin {"ACTIVE", "PARTIALLY_FILLED"}
              => Withdrawn(S)[j] = ledger[j]
  BY WithdrawnIs DEF S
<1>3. Rests(book \ S)
  BY DEF Rests
<1>4. Ground(book \ S, Withdrawn(S))
  BY <1>1, <1>2, <1>3 DEF Ground
<1> QED  BY <1>4 DEF S

LEMMA RecordedType ==
  ASSUME VenueInv, BookInv, NEW B, Rests(B), NEW t \in Incoming,
         NEW L \in Seq(VenueRecord)
  PROVE  /\ Recorded(t, Trades(t, B), L) \in Seq(VenueRecord)
         /\ DOMAIN Recorded(t, Trades(t, B), L) = DOMAIN L
         /\ Moved(t, Trades(t, B)) \in Int
<1> DEFINE T == Trades(t, B)
           l == Recorded(t, T, L)
<1>1. IsFiniteSet(T) /\ \A x \in T : x.quantity \in Nat
  BY TradesAre
<1>2. \A X \in SUBSET T : Counted(X) /\ QuantityOf(X) \in Nat
  <2> SUFFICES ASSUME NEW X \in SUBSET T PROVE Counted(X) /\ QuantityOf(X) \in Nat
    OBVIOUS
  <2> HIDE DEF T
  <2>1. Counted(X)
    BY <1>1, FS_Subset DEF Counted
  <2> QED  BY <2>1, QuantityNat
<1> HIDE DEF T
<1>3. l = [k \in DOMAIN L |-> l[k]]
  BY DEF Recorded
<1>4. ASSUME NEW k \in DOMAIN L
      PROVE  l[k] \in VenueRecord
  <2>1. L[k] \in VenueRecord
    BY <1>4
  <2>2. CASE t.name = k /\ t.owner = "PLAYER"
    <3>1. l[k] = [filled |-> QuantityOf(T),
                  status |-> IF QuantityOf(T) = t.quantity THEN "FILLED"
                             ELSE IF t.price = 0 THEN "EXPIRED"
                             ELSE IF QuantityOf(T) > 0 THEN "PARTIALLY_FILLED" ELSE "ACTIVE"]
      BY <2>2 DEF Recorded
    <3>2. QuantityOf(T) \in Nat
      BY <1>2
    <3> HIDE DEF l
    <3> QED  BY <3>1, <3>2 DEF VenueRecord, Statuses
  <2>3. CASE ~(t.name = k /\ t.owner = "PLAYER")
    <3> DEFINE hit == {x \in T : x.maker.name = k /\ x.maker.owner = "PLAYER"}
    <3>1. l[k] = IF hit = {} THEN L[k]
                 ELSE [filled |-> L[k].filled + QuantityOf(hit),
                       status |-> IF \A x \in hit : x.quantity = x.maker.quantity
                                  THEN "FILLED" ELSE "PARTIALLY_FILLED"]
      BY <2>3 DEF Recorded
    <3>2. QuantityOf(hit) \in Nat
      BY <1>2
    <3> HIDE DEF l, hit
    <3>3. L[k].filled + QuantityOf(hit) \in Nat
      BY <2>1, <3>2 DEF VenueRecord
    <3> QED  BY <2>1, <3>1, <3>3 DEF VenueRecord, Statuses
  <2> QED  BY <2>2, <2>3
<1>5. l \in Seq(VenueRecord) /\ DOMAIN l = DOMAIN L
  <2> HIDE DEF l
  <2> QED  BY <1>3, <1>4, SeqUpdate
<1>6. Moved(t, T) \in Int
  <2> DEFINE X == {x \in T : x.maker.owner = "PLAYER"}
  <2>1. QuantityOf(T) \in Nat /\ QuantityOf(X) \in Nat
    BY <1>2
  <2>2. Sign(t.side) \in {1, -1} /\ position \in Int
    BY DEF Sign, VenueInv
  <2>3. Moved(t, T) = position + (IF t.owner = "PLAYER" THEN Sign(t.side) * QuantityOf(T) ELSE 0)
                        - Sign(t.side) * QuantityOf(X)
    BY DEF Moved
  <2> HIDE DEF X
  <2>4. CASE Sign(t.side) = 1
    BY <2>1, <2>2, <2>3, <2>4
  <2>5. CASE Sign(t.side) = -1
    BY <2>1, <2>2, <2>3, <2>5
  <2> QED  BY <2>2, <2>4, <2>5
<1> QED  BY <1>5, <1>6 DEF T

LEMMA VenueKept ==
  ASSUME VenueInv, BookInv, NEW B, NEW L, Ground(B, L),
         NEW t \in Incoming, Trade(t, B, L),
         DOMAIN orders' = DOMAIN orders, taken' \subseteq Int,
         reported' = reported
  PROVE  VenueInv'
  BY RecordedType DEF VenueInv, Trade, Ground

\* A report that leaves names an order and says no more than it has filled.
LEMMA ReportsSound ==
  ASSUME ClientInv, BookInv, NEW B, Rests(B), NEW t \in Incoming, DOMAIN orders' = DOMAIN orders,
         \A k \in DOMAIN orders :
           orders'[k].filled = Consumed(k, Fills(t, Trades(t, B))).filled
  PROVE  LET R == Reports(Fills(t, Trades(t, B)))
         IN /\ IsFiniteSet(R)
            /\ \A m \in R : m.kind = "FILL_CLIENT" /\ Sound(m)'
<1> DEFINE F == Fills(t, Trades(t, B))
           g == [f \in F |-> [kind |-> "FILL_CLIENT", order |-> f.order,
                              quantity |-> f.quantity, upto |-> f.upto]]
<1>1. Reports(F) = {g[f] : f \in F}
  BY DEF Reports
<1>2. IsFiniteSet(F)
  BY FillsAre
<1>3. ASSUME NEW f \in F, NEW m, m = g[f]
      PROVE  m.kind = "FILL_CLIENT" /\ Sound(m)'
  <2>1. /\ f.order \in DOMAIN orders /\ f.quantity \in Nat \ {0} /\ f.upto \in Nat
        /\ f.upto <= Consumed(f.order, F).filled
    BY FillsAre, FillsReach
  <2>2. f.upto <= orders'[f.order].filled
    BY <2>1
  <2>3. m = [kind |-> "FILL_CLIENT", order |-> f.order,
             quantity |-> f.quantity, upto |-> f.upto]
    BY <1>3
  <2>4. m.kind = "FILL_CLIENT" /\ m \in Report' /\ m.upto <= orders'[m.order].filled
    BY <2>1, <2>2, <2>3 DEF Report
  <2> QED  BY <2>4 DEF Sound, NewKinds, CancelKinds
<1> HIDE DEF g, F
<1>4. IsFiniteSet({g[f] : f \in F})
  BY <1>2, FiniteImage
<1>5. \A m \in Reports(F) : m.kind = "FILL_CLIENT" /\ Sound(m)'
  BY <1>1, <1>3
<1> QED  BY <1>1, <1>4, <1>5 DEF F

\* No order that trades takes a transition that is refused.
LEMMA ConsumableAll ==
  ASSUME ClientInv, BookInv, NEW B, Rests(B), NEW t \in Incoming, NEW k \in DOMAIN orders,
         Consumable(Fills(t, Trades(t, B)))
  PROVE  MayBecome(orders[k], Consumed(k, Fills(t, Trades(t, B))).state)
<1> DEFINE F == Fills(t, Trades(t, B))
<1>1. CASE FillsOf(k, F) = {}
  BY <1>1, ConsumedIs DEF MayBecome
<1>2. CASE FillsOf(k, F) # {}
  <2>1. k \in {f.order : f \in F}
    BY <1>2 DEF FillsOf
  <2> HIDE DEF F
  <2> QED  BY <2>1 DEF Consumable, F
<1> QED  BY <1>1, <1>2

\* What a trade does to an order it fills.
LEMMA ConsumedGoesOn ==
  ASSUME ClientInv, BookInv, NEW B, Rests(B), NEW t \in Incoming, NEW k \in DOMAIN orders,
         Consumable(Fills(t, Trades(t, B)))
  PROVE  LET o == Consumed(k, Fills(t, Trades(t, B)))
         IN /\ Resolved(orders[k]) => Resolved(o)
            /\ Asking(orders[k]) => Asking(o)
            /\ orders[k].state \in Terminal => o.state = orders[k].state
            /\ o.state \in {"PENDING_CANCEL", "CREATED"} => o.state = orders[k].state
            /\ orders[k].filled <= o.filled /\ o.filled \in Nat
<1> DEFINE F == Fills(t, Trades(t, B)) G == FillsOf(k, F) o == Consumed(k, F)
<1>1. MayBecome(orders[k], o.state)
  BY ConsumableAll
<1>2. /\ QuantityOf(G) \in Nat /\ o.filled = orders[k].filled + QuantityOf(G)
      /\ o.acked = orders[k].acked
      /\ G = {} => o = orders[k]
      /\ G # {} => o = Booked(orders[k], G)
  BY ConsumedIs
<1>3. orders[k] \in ClientOrder
  BY DEF ClientInv
<1> HIDE DEF F, G, o
<1>4. orders[k].state \in Terminal => o.state = orders[k].state
  BY <1>1 DEF MayBecome, AllowedTransitions, Terminal
<1>5. o.state \in {"PENDING_CANCEL", "CREATED"} => o.state = orders[k].state
  BY <1>2, <1>3 DEF ClientOrder, Booked
<1>6. orders[k].filled <= o.filled /\ o.filled \in Nat
  BY <1>2, <1>3 DEF ClientOrder
<1>7. Resolved(orders[k]) => Resolved(o)
  BY <1>2, <1>4 DEF Resolved
<1>8. Asking(orders[k]) => Asking(o)
  <2>1. orders[k].state = "PENDING_CANCEL" => o.state \in {"FILLED", "PENDING_CANCEL"}
    BY <1>2, <1>3 DEF ClientOrder, Booked
  <2> QED  BY <1>4, <2>1 DEF Asking, Terminal
<1> QED  BY <1>4, <1>5, <1>6, <1>7, <1>8 DEF F, G, o

\* Nothing is recorded of an order that does not rest.
LEMMA RecordStays ==
  ASSUME VenueInv, BookInv, NEW B, NEW L, Ground(B, L), NEW t \in Incoming,
         NEW j \in DOMAIN orders, t.name # j \/ t.owner # "PLAYER",
         ledger[j].status \in {"ABSENT", "WITHDRAWN"}
  PROVE  Recorded(t, Trades(t, B), L)[j] = ledger[j]
<1>1. Rests(B) /\ j \in DOMAIN L /\ L[j] = ledger[j]
  BY DEF Ground, VenueInv
<1>2. \A r \in In(B, j) : r.owner = "SIMULATED"
  BY <1>1 DEF Ground, Agree, Steal
<1>3. Recorded(t, Trades(t, B), L)[j] = L[j]
  BY <1>1, <1>2, RecordedIs
<1> QED  BY <1>1, <1>3

-----------------------------------------------------------------------------
(* The simulated market trades *)

LEMMA SimulatedIs ==
  ASSUME NEW q \in Asked, NEW n \in Int
  PROVE  LET t == Simulated(q, n)
         IN t \in Incoming /\ t.name = n /\ t.owner = "SIMULATED" /\ t.side = q.side
  BY DEF Simulated, Asked, Incoming, Sides

LEMMA SimulatedKeeps ==
  ASSUME SessionInv, NEW t \in Incoming, t.owner = "SIMULATED",
         NEW B, NEW L, Ground(B, L), Trade(t, B, L),
         NEW m \in wire, m.kind \in {"EXTERNAL_MARKET", "EXTERNAL_REPRICE"},
         orders' = [j \in DOMAIN orders |-> Consumed(j, Fills(t, Trades(t, B)))],
         taken' = taken \cup {t.name}, ~Known(t.name),
         wire' = (wire \ {m}) \cup Reports(Fills(t, Trades(t, B))) \cup Published(book'),
         UNCHANGED <<cancels, held, reported>>
  PROVE  SessionInv'
<1> DEFINE F == Fills(t, Trades(t, B))
<1>1. ClientInv /\ VenueInv /\ BookInv /\ WireInv /\ AccountInv /\ GatewayInv
  BY DEF SessionInv
<1>0. /\ Rests(B) /\ DOMAIN L = DOMAIN orders /\ L \in Seq(VenueRecord)
      /\ \A j \in DOMAIN orders \ taken : Agree(orders[j], L[j], In(B, j))
      /\ \A j \in taken \cap DOMAIN orders : Steal(orders[j], L[j], In(B, j))
      /\ \A j \in DOMAIN orders :
           ledger[j].status \in {"ABSENT", "WITHDRAWN"} => L[j] = ledger[j]
  BY <1>1 DEF Ground, VenueInv
<1>2. DOMAIN orders' = DOMAIN orders
      /\ \A j \in DOMAIN orders : orders'[j] = Consumed(j, F)
  OBVIOUS
<1>3. \A j \in DOMAIN orders :
         LET o == Consumed(j, F)
         IN /\ o \in ClientOrder
            /\ Resolved(orders[j]) => Resolved(o)
            /\ Asking(orders[j]) => Asking(o)
            /\ orders[j].state \in Terminal => o.state = orders[j].state
            /\ o.state \in {"PENDING_CANCEL", "CREATED"} => o.state = orders[j].state
            /\ orders[j].filled <= o.filled /\ o.filled \in Nat
  BY <1>0, <1>1, ConsumedIs, ConsumedGoesOn DEF Trade
<1>4. /\ t.name \in Int /\ t.name \notin taken
      /\ t.name \in DOMAIN orders => ledger[t.name].status = "ABSENT"
  BY <1>1 DEF Incoming, Known, VenueInv
<1>5. Replaces(t, B) /\ ledger' = Recorded(t, Trades(t, B), L)
  BY DEF Trade
<1> HIDE DEF F
<1>6. ClientInv'
  <2>1. \A j \in DOMAIN orders : orders'[j] \in ClientOrder
    BY <1>2, <1>3
  <2>2. orders' = [j \in DOMAIN orders |-> orders'[j]]
    BY <1>2
  <2>3. orders \in Seq(ClientOrder)
    BY <1>1 DEF ClientInv
  <2>4. orders' \in Seq(ClientOrder)
    BY <2>1, <2>2, <2>3, SeqUpdate
  <2> QED  BY <1>1, <1>2, <2>4 DEF ClientInv
<1>7. VenueInv'
  <2>1. taken' \subseteq Int
    BY <1>1, <1>4 DEF VenueInv
  <2> QED  BY <1>1, <1>2, <2>1, VenueKept
<1>8. BookInv'
  BY <1>0, <1>1, <1>5, BookKept
<1>9. WireInv'
  <2> DEFINE R == Reports(F) new == R \cup Published(book')
  <2>1. IsFiniteSet(R) /\ \A x \in R : x.kind = "FILL_CLIENT" /\ Sound(x)'
    BY <1>0, <1>1, <1>2, ReportsSound DEF F
  <2>2. \A x \in Published(book') : x.kind = "MARKET_DATA_RENDER"
    BY DEF Published
  <2>3. \A x \in Published(book') : Sound(x)'
    BY <2>2 DEF Sound, NewKinds, CancelKinds
  <2>4. {x \in new : x.kind = "FILL_CLIENT"} = R
    BY <2>1, <2>2
  <2>5. wire' \subseteq wire \cup new
    BY DEF F
  <2> HIDE DEF R
  <2>6. \A x \in new : Sound(x)'
    BY <2>1, <2>3
  <2> HIDE DEF new
  <2> QED  BY <1>1, <1>2, <1>3, <2>1, <2>4, <2>5, <2>6, WireKept
<1>10. AccountInv'
  <2>1. ASSUME NEW j \in DOMAIN orders \ taken'
        PROVE  Agreed(j)'
    <3>1. Agree(orders[j], L[j], In(B, j)) /\ j # t.name /\ j \in DOMAIN L
      BY <1>0, <2>1
    <3>2. Agree(Consumed(j, F), Recorded(t, Trades(t, B), L)[j], In(book', j))
      BY <1>0, <1>1, <1>5, <2>1, <3>1, MakerAgrees DEF F
    <3> QED  BY <1>2, <1>5, <2>1, <3>2 DEF Agreed, Named, In
  <2>2. ASSUME NEW j \in taken' \cap DOMAIN orders
        PROVE  Stolen(j)'
    <3>1. Steal(orders[j], L[j], In(B, j)) /\ j \in DOMAIN L
      <4>1. CASE j \in taken
        BY <4>1, <1>0
      <4>2. CASE j \notin taken
        <5>1. Agree(orders[j], L[j], In(B, j)) /\ L[j].status = "ABSENT"
          BY <1>0, <1>4, <2>2, <4>2
        <5> QED  BY <1>0, <5>1, AbsentIsStolen
      <4> QED  BY <4>1, <4>2
    <3>2. Steal(Consumed(j, F), Recorded(t, Trades(t, B), L)[j], In(book', j))
      BY <1>0, <1>1, <1>5, <2>2, <3>1, StolenStays DEF F
    <3> QED  BY <1>2, <1>5, <2>2, <3>2 DEF Stolen, Named, In
  <2>3. ASSUME NEW x \in book'
        PROVE  IF x.owner = "PLAYER" THEN x.name \in DOMAIN orders ELSE x.name \in taken'
    <3>1. x \in After(t, Trades(t, B), B)
      BY <1>5 DEF Replaces
    <3>2. CASE x \in Rest(t, Trades(t, B))
      <4>1. x.owner = "SIMULATED" /\ x.name = t.name
        BY <1>0, <1>1, <3>2, RestIs
      <4> QED  BY <4>1
    <3>3. CASE x \notin Rest(t, Trades(t, B))
      <4>1. PICK r \in B : GivenTo(t, B, r) < r.quantity /\ x = Kept(r, GivenTo(t, B, r))
        BY <1>0, <1>1, <3>1, <3>3, AfterIs
      <4>2. r.owner = x.owner /\ r.name = x.name /\ r \in book
        BY <1>0, <1>1, <4>1, KeptIs DEF Rests
      <4> QED  BY <1>1, <4>2 DEF AccountInv
    <3> QED  BY <3>2, <3>3
  <2> QED  BY <1>2, <2>1, <2>2, <2>3 DEF AccountInv
<1>12. \A j \in DOMAIN orders :
          ledger[j].status \in {"ABSENT", "WITHDRAWN"} => ledger'[j] = ledger[j]
  BY <1>1, <1>5, RecordStays
<1>11. GatewayInv'
  <2>1. \A x \in Reports(F) \cup Published(book') : x.kind \notin NewKinds \cup CancelKinds
    BY DEF Reports, Published, NewKinds, CancelKinds
  <2>2. m.kind \notin NewKinds \cup CancelKinds
    BY DEF NewKinds, CancelKinds
  <2>3. wire' = (wire \ {m}) \cup Reports(F) \cup Published(book')
    BY DEF F
  <2>4. \A k : NewTokens(k)' = NewTokens(k)
    BY <2>1, <2>2, <2>3 DEF NewTokens
  <2>5. \A c : CancelTokens(c)' = CancelTokens(c)
    BY <2>1, <2>2, <2>3 DEF CancelTokens
  <2>6. \A k \in DOMAIN orders : NewTokens(k) # {} => ledger'[k].status = "ABSENT"
    <3> SUFFICES ASSUME NEW k \in DOMAIN orders, NewTokens(k) # {}
                 PROVE  ledger'[k].status = "ABSENT"
      OBVIOUS
    <3>1. ledger[k].status = "ABSENT"
      BY <1>1 DEF GatewayInv, OrderOnWay
    <3> QED  BY <1>12, <3>1
  <2>7. \A c \in DOMAIN cancels : cancels[c].order \in DOMAIN orders
    BY <1>1, Fields
  <2>8. \A k \in DOMAIN orders :
          /\ Resolved(orders[k]) => Resolved(orders'[k])
          /\ Asking(orders[k]) => Asking(orders'[k])
          /\ orders[k].state = "CANCELLED" => orders'[k].state = "CANCELLED"
          /\ orders'[k].state \in {"PENDING_CANCEL", "CREATED"} =>
               orders'[k].state = orders[k].state
          /\ ledger[k].status = "WITHDRAWN" => ledger'[k].status = "WITHDRAWN"
    BY <1>2, <1>3, <1>12 DEF Terminal
  <2> QED  BY <1>1, <1>2, <2>4, <2>5, <2>6, <2>7, <2>8, GatewayKept
<1> QED  BY <1>6, <1>7, <1>8, <1>9, <1>10, <1>11 DEF SessionInv

-----------------------------------------------------------------------------
(* The venue decides on an order *)

\* A message that takes an order to the venue is the last of its kind.
LEMMA ProcessedToken ==
  ASSUME SessionInv, NEW m \in wire, m.kind = "NEW_PROCESS"
  PROVE  /\ m.order \in DOMAIN orders
         /\ NewTokens(m.order) = {m}
         /\ ledger[m.order].status = "ABSENT"
         /\ orders[m.order].state # "CREATED"
<1>1. Sound(m)
  BY DEF SessionInv, WireInv
<1>2. m \in [kind : NewKinds, order : DOMAIN orders]
  BY <1>1 DEF Sound, NewKinds
<1>3. m.order \in DOMAIN orders /\ m \in NewTokens(m.order)
  BY <1>2 DEF NewTokens
<1>4. OrderOnWay(m.order)
  BY <1>3 DEF SessionInv, GatewayInv
<1> QED  BY <1>3, <1>4 DEF OrderOnWay

\* The tokens when the venue decides on the order of m.
LEMMA TokensReleased ==
  ASSUME SessionInv, NEW m \in wire, m.kind = "NEW_PROCESS", NEW other,
         wire' = (wire \ {m}) \cup ToVenue(HeldFor(m.order)) \cup other,
         \A x \in other : x.kind \notin NewKinds \cup CancelKinds
  PROVE  /\ NewTokens(m.order)' = {}
         /\ \A j \in DOMAIN orders \ {m.order} : NewTokens(j)' = NewTokens(j)
         /\ \A c \in DOMAIN cancels :
              CancelTokens(c)' = IF c \in HeldFor(m.order)
                                 THEN {[kind |-> "CANCEL_PROCESS", cancel |-> c]}
                                 ELSE CancelTokens(c)
<1>1. \A x \in ToVenue(HeldFor(m.order)) : x.kind = "CANCEL_PROCESS"
  BY DEF ToVenue
<1>2. NewTokens(m.order) = {m}
  BY ProcessedToken
<1>3. \A k : NewTokens(k)' = NewTokens(k) \ {m}
  BY <1>1 DEF NewTokens, NewKinds, CancelKinds
<1>4. m.kind \notin CancelKinds
  BY DEF CancelKinds
<1>5. \A c : CancelTokens(c)' = CancelTokens(c)
                \cup {x \in ToVenue(HeldFor(m.order)) : x.cancel = c}
  BY <1>1, <1>4 DEF CancelTokens, NewKinds, CancelKinds
<1>6. ASSUME NEW c \in DOMAIN cancels
      PROVE  CancelTokens(c)' = IF c \in HeldFor(m.order)
                                THEN {[kind |-> "CANCEL_PROCESS", cancel |-> c]}
                                ELSE CancelTokens(c)
  <2>1. {x \in ToVenue(HeldFor(m.order)) : x.cancel = c} =
          IF c \in HeldFor(m.order) THEN {[kind |-> "CANCEL_PROCESS", cancel |-> c]} ELSE {}
    BY DEF ToVenue
  <2>2. c \in HeldFor(m.order) => CancelTokens(c) = {}
    BY DEF HeldFor, SessionInv, GatewayInv, CancelOnWay
  <2> QED  BY <1>5, <2>1, <2>2
<1>7. \A j \in DOMAIN orders \ {m.order} : m \notin NewTokens(j)
  BY DEF NewTokens
<1> QED  BY <1>2, <1>3, <1>6, <1>7

LEMMA ReleasedSound ==
  ASSUME SessionInv, DOMAIN cancels \subseteq DOMAIN cancels', NEW k,
         NEW x \in ToVenue(HeldFor(k))
  PROVE  Sound(x)' /\ x.kind = "CANCEL_PROCESS"
<1>1. PICK c \in HeldFor(k) : x = [kind |-> "CANCEL_PROCESS", cancel |-> c]
  BY DEF ToVenue
<1>2. c \in DOMAIN cancels'
  BY DEF HeldFor, SessionInv, ClientInv
<1>3. x.kind = "CANCEL_PROCESS" /\ x \in [kind : CancelKinds, cancel : DOMAIN cancels']
  BY <1>1, <1>2 DEF CancelKinds
<1> QED  BY <1>3 DEF Sound, NewKinds

LEMMA AcceptKeeps ==
  ASSUME SessionInv, NEW m \in wire, Accept(m), failed' # "LIFECYCLE"
  PROVE  SessionInv'
<1> DEFINE k == m.order
           t == Taker(k)
           T == Trades(t, book)
           F == Fills(t, T)
           o == Consumed(k, F)
           R == After(t, T, book)
           l == Recorded(t, T, ledger)[k]
           state == Settled(o, l.status)
<1>1. ClientInv /\ VenueInv /\ BookInv /\ WireInv /\ AccountInv /\ GatewayInv
  BY DEF SessionInv
<1>0. /\ Rests(book) /\ Ground(book, ledger) /\ DOMAIN ledger = DOMAIN orders
      /\ ledger \in Seq(VenueRecord)
      /\ \A j \in DOMAIN orders \ taken : Agree(orders[j], ledger[j], In(book, j))
      /\ \A j \in taken \cap DOMAIN orders : Steal(orders[j], ledger[j], In(book, j))
  BY <1>1, GroundAsIs DEF Ground, VenueInv
<1>2. m.kind = "NEW_PROCESS" /\ k \notin taken
  BY DEF Accept
<1>3. k \in DOMAIN orders /\ ledger[k].status = "ABSENT" /\ orders[k].state # "CREATED"
  BY <1>2, ProcessedToken
<1>4. t \in Incoming /\ t.name = k /\ t.owner = "PLAYER"
  BY <1>1, <1>3, TakerIs
<1>5. Consumable(F) /\ MayBecome(o, state)
  BY DEF Accept, Raises
<1>6. /\ orders' = [j \in DOMAIN orders |->
                      IF j # k THEN Consumed(j, F) ELSE Acknowledged(o, state, t.quantity)]
      /\ Processed(t, T, R, ledger)
      /\ wire' = (wire \ {m}) \cup Reports(F) \cup ToVenue(HeldFor(k))
                   \cup {[kind |-> "NEW_ACK_CLIENT", order |-> k]} \cup Published(R)
      /\ held' = held \ HeldFor(k)
      /\ UNCHANGED <<cancels, taken, reported>>
  BY <1>5 DEF Accept, Acknowledged
<1>7. Trade(t, book, ledger)
  BY <1>5, <1>6 DEF Trade, Replaces, Processed
<1>8. Replaces(t, book) /\ ledger' = Recorded(t, T, ledger) /\ book' = R
  BY <1>7, <1>6 DEF Trade, Processed
<1>9. Agreed(k)
  BY <1>1, <1>2, <1>3 DEF AccountInv
<1>10. /\ Acknowledged(o, state, t.quantity) \in ClientOrder
       /\ Agree(Acknowledged(o, state, t.quantity), l, In(book', k))
       /\ MayBecome(orders[k], o.state)
       /\ state \notin {"CREATED", "PENDING_NEW", "REJECTED", "CANCELLED"}
       /\ state = "PENDING_CANCEL" => orders[k].state = "PENDING_CANCEL"
  BY <1>1, <1>3, <1>8, <1>9, TakerTrades, TakerAgrees
<1>11. DOMAIN orders' = DOMAIN orders
       /\ (\A j \in DOMAIN orders \ {k} : orders'[j] = Consumed(j, F))
       /\ orders'[k] = Acknowledged(o, state, t.quantity)
  BY <1>3, <1>6
<1>12. \A j \in DOMAIN orders :
         LET p == Consumed(j, F)
         IN /\ p \in ClientOrder
            /\ Resolved(orders[j]) => Resolved(p)
            /\ Asking(orders[j]) => Asking(p)
            /\ orders[j].state \in Terminal => p.state = orders[j].state
            /\ p.state \in {"PENDING_CANCEL", "CREATED"} => p.state = orders[j].state
            /\ orders[j].filled <= p.filled /\ p.filled \in Nat
  BY <1>0, <1>1, <1>4, <1>5, ConsumedIs, ConsumedGoesOn
<1>13. o \in ClientOrder
  BY <1>3, <1>12
<1>23. Asking(orders[k]) => state \in Terminal \cup {"PENDING_CANCEL"}
  <2>1. Asking(orders[k]) => Asking(o)
    BY <1>3, <1>12
  <2> HIDE DEF o, l
  <2>2. Asking(o) => state \in Terminal \cup {"PENDING_CANCEL"}
    BY <1>5 DEF Asking, MayBecome, AllowedTransitions, Settled, Terminal
  <2> QED  BY <2>1, <2>2
<1> HIDE DEF F, t, o, l, state, T, R
<1>14. /\ orders'[k].state = state /\ orders'[k].acked = TRUE
       /\ orders'[k].filled = o.filled
  BY <1>11, <1>13 DEF Acknowledged, ClientOrder
<1>15. orders[k].state # "CANCELLED"
  BY <1>3, <1>9 DEF Agreed, Agree, Waiting
<1>16. ClientInv'
  <2>1. \A j \in DOMAIN orders : orders'[j] \in ClientOrder
    BY <1>10, <1>11, <1>12
  <2>2. orders' = [j \in DOMAIN orders |-> orders'[j]]
    BY <1>6, <1>11
  <2>3. orders \in Seq(ClientOrder)
    BY <1>1 DEF ClientInv
  <2>4. orders' \in Seq(ClientOrder)
    BY <2>1, <2>2, <2>3, SeqUpdate
  <2> QED  BY <1>1, <1>6, <1>11, <2>4 DEF ClientInv
<1>17. VenueInv'
  <2>1. taken' \subseteq Int
    BY <1>1, <1>6 DEF VenueInv
  <2> QED  BY <1>0, <1>1, <1>4, <1>6, <1>7, <1>11, <2>1, VenueKept
<1>18. BookInv'
  BY <1>0, <1>1, <1>4, <1>8, BookKept
<1>19. \A j \in DOMAIN orders : orders'[j].filled = Consumed(j, F).filled
  BY <1>11, <1>14 DEF o
<1>20. WireInv'
  <2> DEFINE P == Reports(F)
             ack == [kind |-> "NEW_ACK_CLIENT", order |-> k]
             new == P \cup ToVenue(HeldFor(k)) \cup {ack} \cup Published(R)
  <2>1. IsFiniteSet(P) /\ \A x \in P : x.kind = "FILL_CLIENT" /\ Sound(x)'
    BY <1>0, <1>1, <1>4, <1>11, <1>19, ReportsSound DEF F, T
  <2>2. \A x \in Published(R) \cup {ack} :
          x.kind \in {"MARKET_DATA_RENDER", "NEW_ACK_CLIENT"}
    BY DEF Published
  <2>3. \A x \in Published(R) \cup {ack} : Sound(x)'
    BY <2>2 DEF Sound, NewKinds, CancelKinds
  <2>4. \A x \in ToVenue(HeldFor(k)) : Sound(x)' /\ x.kind = "CANCEL_PROCESS"
    BY <1>6, ReleasedSound
  <2> HIDE DEF P, ack
  <2>5. {x \in new : x.kind = "FILL_CLIENT"} = P
    BY <2>1, <2>2, <2>4
  <2>6. \A x \in new : Sound(x)'
    BY <2>1, <2>3, <2>4
  <2>7. wire' \subseteq wire \cup new
    BY <1>6 DEF P, ack
  <2>8. \A j \in DOMAIN orders : orders[j].filled <= orders'[j].filled
                                 /\ orders'[j].filled \in Nat
    BY <1>12, <1>19
  <2> HIDE DEF new
  <2> QED  BY <1>1, <1>6, <1>11, <2>1, <2>5, <2>6, <2>7, <2>8, WireKept
<1>21. AccountInv'
  <2>1. ASSUME NEW j \in DOMAIN orders \ taken
        PROVE  Agreed(j)'
    <3>1. CASE j # k
      <4>1. Agree(Consumed(j, F), Recorded(t, T, ledger)[j], In(book', j))
        BY <1>0, <1>1, <1>4, <1>8, <2>1, <3>1, MakerAgrees DEF F, T
      <4> QED  BY <1>8, <1>11, <2>1, <3>1, <4>1 DEF Agreed, Named, In
    <3>2. CASE j = k
      BY <1>8, <1>10, <1>11, <3>2 DEF Agreed, l, Named, In
    <3> QED  BY <3>1, <3>2
  <2>2. ASSUME NEW j \in taken \cap DOMAIN orders
        PROVE  Stolen(j)'
    <3>1. j # k
      BY <1>2, <2>2
    <3>2. Steal(Consumed(j, F), Recorded(t, T, ledger)[j], In(book', j))
      BY <1>0, <1>1, <1>4, <1>8, <2>2, <3>1, StolenStays DEF F, T
    <3> QED  BY <1>8, <1>11, <2>2, <3>1, <3>2 DEF Stolen, Named, In
  <2>3. ASSUME NEW x \in book'
        PROVE  IF x.owner = "PLAYER" THEN x.name \in DOMAIN orders ELSE x.name \in taken
    <3>1. x \in After(t, T, book)
      BY <1>8 DEF R
    <3>2. CASE x \in Rest(t, T)
      BY <1>0, <1>1, <1>3, <1>4, <3>2, RestIs DEF T
    <3>3. CASE x \notin Rest(t, T)
      <4>1. PICK r \in book : GivenTo(t, book, r) < r.quantity /\ x = Kept(r, GivenTo(t, book, r))
        BY <1>0, <1>1, <1>4, <3>1, <3>3, AfterIs DEF T
      <4>2. r.owner = x.owner /\ r.name = x.name
        BY <1>0, <1>1, <1>4, <4>1, KeptIs
      <4> QED  BY <1>1, <4>2 DEF AccountInv
    <3> QED  BY <3>2, <3>3
  <2> QED  BY <1>6, <1>11, <2>1, <2>2, <2>3 DEF AccountInv
<1>22. GatewayInv'
  <2> DEFINE other == Reports(F) \cup {[kind |-> "NEW_ACK_CLIENT", order |-> k]} \cup Published(R)
  <2>1. \A x \in other : x.kind \notin NewKinds \cup CancelKinds
    BY DEF Reports, Published, NewKinds, CancelKinds
  <2>2. wire' = (wire \ {m}) \cup ToVenue(HeldFor(k)) \cup other
    BY <1>6
  <2> HIDE DEF other
  <2>3. /\ NewTokens(k)' = {}
        /\ \A j \in DOMAIN orders \ {k} : NewTokens(j)' = NewTokens(j)
        /\ \A c \in DOMAIN cancels :
             CancelTokens(c)' = IF c \in HeldFor(k)
                                THEN {[kind |-> "CANCEL_PROCESS", cancel |-> c]}
                                ELSE CancelTokens(c)
    BY <1>2, <2>1, <2>2, TokensReleased
  <2>4. Resolved(orders'[k])
    BY <1>14 DEF Resolved
  <2>5. \A c \in DOMAIN cancels : cancels[c].order \in DOMAIN orders
    BY <1>1, Fields
  <2>6. ASSUME NEW j \in DOMAIN orders
        PROVE  /\ Resolved(orders[j]) => Resolved(orders'[j])
               /\ Asking(orders[j]) => Asking(orders'[j])
               /\ orders[j].state = "CANCELLED" => orders'[j].state = "CANCELLED"
               /\ orders'[j].state \in {"PENDING_CANCEL", "CREATED"} =>
                    orders'[j].state = orders[j].state
               /\ j # k /\ NewTokens(j) # {} => ledger'[j].status = "ABSENT"
               /\ ledger[j].status = "WITHDRAWN" => ledger'[j].status = "WITHDRAWN"
    <3>1. CASE j = k
      BY <1>3, <1>10, <1>14, <1>15, <1>23, <2>4, <3>1 DEF Asking
    <3>2. CASE j # k
      <4>1. NewTokens(j) # {} => ledger[j].status = "ABSENT"
        BY <1>1 DEF GatewayInv, OrderOnWay
      <4>2. ledger[j].status \in {"ABSENT", "WITHDRAWN"} => ledger'[j] = ledger[j]
        BY <1>0, <1>1, <1>4, <1>8, <3>2, RecordStays DEF T
      <4> QED  BY <1>11, <1>12, <3>2, <4>1, <4>2 DEF Terminal
    <3> QED  BY <3>1, <3>2
  <2> HIDE DEF k
  <2> QED  BY <1>1, <1>3, <1>6, <1>11, <2>3, <2>4, <2>5, <2>6, GatewayReleases
<1> QED  BY <1>16, <1>17, <1>18, <1>20, <1>21, <1>22 DEF SessionInv

\* The accounts of the orders are as they were, but for states that change
\* while an order waits.
LEMMA AccountsKept ==
  ASSUME AccountInv, VenueInv, UNCHANGED <<ledger, taken, book>>,
         DOMAIN orders' = DOMAIN orders,
         \A j \in DOMAIN orders :
           \/ orders'[j] = orders[j]
           \/ /\ Remaining(orders'[j]) = Remaining(orders[j])
              /\ orders'[j].filled = orders[j].filled /\ orders'[j].closed = orders[j].closed
              /\ orders'[j].quantity = orders[j].quantity
              /\ orders'[j].side = orders[j].side /\ orders'[j].acked = orders[j].acked
              /\ orders[j].state \notin Terminal
              /\ \/ orders'[j].state = "PENDING_CANCEL"
                 \/ orders'[j].state = "PENDING_NEW" /\ orders[j].state = "CREATED"
                 \/ orders'[j].state = "REJECTED" /\ j \in taken
  PROVE  AccountInv'
<1>1. \A j : Named(j)' = Named(j)
  BY DEF Named
<1>2. ASSUME NEW j \in DOMAIN orders \ taken
      PROVE  Agreed(j)'
  <2>1. Agree(orders[j], ledger[j], Named(j))
    BY <1>2 DEF AccountInv, Agreed
  <2>2. Agree(orders'[j], ledger[j], Named(j))
    <3>1. CASE orders'[j] = orders[j]
      BY <2>1, <3>1
    <3>2. CASE orders'[j] # orders[j]
      BY <2>1, <3>2, <1>2 DEF Agree, Waiting, Terminal
    <3> QED  BY <3>1, <3>2
  <2> QED  BY <1>1, <2>2 DEF Agreed
<1>3. ASSUME NEW j \in taken \cap DOMAIN orders
      PROVE  Stolen(j)'
  <2>1. Steal(orders[j], ledger[j], Named(j)) /\ j \in DOMAIN orders
    BY <1>3 DEF AccountInv, Stolen, VenueInv
  <2>2. Steal(orders'[j], ledger[j], Named(j))
    <3>1. CASE orders'[j] = orders[j]
      BY <2>1, <3>1
    <3>2. CASE orders'[j] # orders[j]
      BY <2>1, <3>2 DEF Steal, Waiting, Terminal
    <3> QED  BY <3>1, <3>2
  <2> QED  BY <1>1, <2>2 DEF Stolen
<1> QED  BY <1>2, <1>3 DEF AccountInv

LEMMA ClientKept ==
  ASSUME ClientInv, UNCHANGED cancels, held' \subseteq held,
         DOMAIN orders' = DOMAIN orders,
         orders' = [j \in DOMAIN orders |-> orders'[j]],
         \A j \in DOMAIN orders : orders'[j] \in ClientOrder
  PROVE  ClientInv'
<1>1. orders \in Seq(ClientOrder)
  BY DEF ClientInv
<1>2. orders' \in Seq(ClientOrder)
  BY <1>1, SeqUpdate
<1> QED  BY <1>2 DEF ClientInv

LEMMA RejectKeeps ==
  ASSUME SessionInv, NEW m \in wire, Reject(m), failed' # "LIFECYCLE"
  PROVE  SessionInv'
<1> DEFINE k == m.order
<1>1. ClientInv /\ VenueInv /\ BookInv /\ WireInv /\ AccountInv /\ GatewayInv
  BY DEF SessionInv
<1>2. m.kind = "NEW_PROCESS" /\ k \in taken /\ MayBecome(orders[k], "REJECTED")
  BY DEF Reject, Raises
<1>3. /\ orders' = [orders EXCEPT ![k].state = "REJECTED"]
      /\ wire' = (wire \ {m}) \cup ToVenue(HeldFor(k))
      /\ held' = held \ HeldFor(k)
      /\ UNCHANGED <<cancels, venue, reported>>
  BY <1>2 DEF Reject, Released
<1>4. k \in DOMAIN orders
  BY <1>2, ProcessedToken
<1>5. orders[k] \in ClientOrder
  BY <1>1, <1>4, Fields
<1>6. DOMAIN orders' = DOMAIN orders
      /\ (\A j \in DOMAIN orders \ {k} : orders'[j] = orders[j])
      /\ orders'[k] = [orders[k] EXCEPT !.state = "REJECTED"]
      /\ orders' = [j \in DOMAIN orders |-> orders'[j]]
  BY <1>3, <1>4
<1>7. /\ orders'[k] \in ClientOrder /\ orders'[k].state = "REJECTED"
      /\ orders'[k].filled = orders[k].filled /\ orders'[k].closed = orders[k].closed
      /\ orders'[k].quantity = orders[k].quantity /\ orders'[k].side = orders[k].side
      /\ orders'[k].acked = orders[k].acked
  BY <1>5, <1>6 DEF ClientOrder, States, Terminal
<1>8. orders[k].state \notin Terminal \/ orders[k].state = "REJECTED"
  BY <1>2 DEF MayBecome, AllowedTransitions, Terminal
<1>9. UNCHANGED <<ledger, taken, book, rested, position, reported>>
  BY <1>3 DEF venue
<1> HIDE DEF k
<1>10. ClientInv'
  <2>1. \A j \in DOMAIN orders : orders'[j] \in ClientOrder
    BY <1>1, <1>6, <1>7, Fields
  <2>2. held' \subseteq held
    BY <1>3
  <2> QED  BY <1>1, <1>3, <1>6, <2>1, <2>2, ClientKept
<1>11. VenueInv' /\ BookInv'
  BY <1>1, <1>6, <1>9 DEF VenueInv, BookInv, Ordered
<1>12. WireInv'
  <2> DEFINE new == ToVenue(HeldFor(k))
  <2>1. \A x \in new : Sound(x)' /\ x.kind = "CANCEL_PROCESS"
    BY <1>3, ReleasedSound
  <2>2. {x \in new : x.kind = "FILL_CLIENT"} = {}
    BY <2>1
  <2>3. IsFiniteSet({x \in new : x.kind = "FILL_CLIENT"})
    BY <2>2, FS_EmptySet
  <2>4. wire' \subseteq wire \cup new
    BY <1>3
  <2>5. \A j \in DOMAIN orders : orders[j].filled <= orders'[j].filled
                                 /\ orders'[j].filled \in Nat
    <3> SUFFICES ASSUME NEW j \in DOMAIN orders
                 PROVE  orders[j].filled <= orders'[j].filled /\ orders'[j].filled \in Nat
      OBVIOUS
    <3>1. orders[j].filled \in Nat
      BY <1>1, Fields DEF ClientOrder
    <3>2. orders'[j].filled = orders[j].filled
      <4>1. CASE j = k
        BY <4>1, <1>7
      <4>2. CASE j # k
        BY <4>2, <1>6
      <4> QED  BY <4>1, <4>2
    <3> QED  BY <3>1, <3>2
  <2> HIDE DEF new
  <2> QED  BY <1>1, <1>3, <1>6, <2>1, <2>3, <2>4, <2>5, WireKept
<1>13. AccountInv'
  <2>1. \A j \in DOMAIN orders :
           \/ orders'[j] = orders[j]
           \/ /\ Remaining(orders'[j]) = Remaining(orders[j])
              /\ orders'[j].filled = orders[j].filled /\ orders'[j].closed = orders[j].closed
              /\ orders'[j].quantity = orders[j].quantity
              /\ orders'[j].side = orders[j].side /\ orders'[j].acked = orders[j].acked
              /\ orders[j].state \notin Terminal
              /\ \/ orders'[j].state = "PENDING_CANCEL"
                 \/ orders'[j].state = "PENDING_NEW" /\ orders[j].state = "CREATED"
                 \/ orders'[j].state = "REJECTED" /\ j \in taken
    <3>1. CASE orders[k].state = "REJECTED"
      <4>1. orders'[k] = orders[k]
        BY <1>5, <1>6, <3>1 DEF ClientOrder
      <4> QED  BY <1>6, <4>1
    <3>2. CASE orders[k].state # "REJECTED"
      BY <1>2, <1>6, <1>7, <1>8, <3>2 DEF Remaining, k
    <3> QED  BY <3>1, <3>2
  <2> QED  BY <1>1, <1>6, <1>9, <2>1, AccountsKept
<1>14. GatewayInv'
  <2>1. /\ NewTokens(k)' = {}
        /\ \A j \in DOMAIN orders \ {k} : NewTokens(j)' = NewTokens(j)
        /\ \A c \in DOMAIN cancels :
             CancelTokens(c)' = IF c \in HeldFor(k)
                                THEN {[kind |-> "CANCEL_PROCESS", cancel |-> c]}
                                ELSE CancelTokens(c)
    <3>1. wire' = (wire \ {m}) \cup ToVenue(HeldFor(k)) \cup {}
      BY <1>3
    <3> QED  BY <1>2, <3>1, TokensReleased DEF k
  <2>2. Resolved(orders'[k])
    BY <1>7 DEF Resolved, Terminal
  <2>3. \A c \in DOMAIN cancels : cancels[c].order \in DOMAIN orders
    BY <1>1, Fields
  <2>4. \A j \in DOMAIN orders :
           /\ Resolved(orders[j]) => Resolved(orders'[j])
           /\ Asking(orders[j]) => Asking(orders'[j])
           /\ orders[j].state = "CANCELLED" => orders'[j].state = "CANCELLED"
           /\ orders'[j].state \in {"PENDING_CANCEL", "CREATED"} =>
                orders'[j].state = orders[j].state
           /\ j # k /\ NewTokens(j) # {} => ledger'[j].status = "ABSENT"
           /\ ledger[j].status = "WITHDRAWN" => ledger'[j].status = "WITHDRAWN"
    BY <1>1, <1>6, <1>7, <1>8, <1>9, <2>2 DEF Terminal, Asking, GatewayInv, OrderOnWay
  <2> QED  BY <1>1, <1>3, <1>4, <1>6, <2>1, <2>2, <2>3, <2>4, GatewayReleases
<1> QED  BY <1>10, <1>11, <1>12, <1>13, <1>14 DEF SessionInv

-----------------------------------------------------------------------------
(* Messages on their way to the venue *)

\* A handler that reports nothing and fills nothing.
LEMMA WireQuiet ==
  ASSUME WireInv, ClientInv, VenueInv, NEW new, wire' \subseteq wire \cup new,
         DOMAIN orders \subseteq DOMAIN orders', DOMAIN cancels \subseteq DOMAIN cancels',
         \A k \in DOMAIN orders : orders'[k].filled = orders[k].filled,
         \A m \in new : Sound(m)' /\ m.kind # "FILL_CLIENT"
  PROVE  WireInv'
<1>1. {m \in new : m.kind = "FILL_CLIENT"} = {}
  OBVIOUS
<1>2. IsFiniteSet({m \in new : m.kind = "FILL_CLIENT"})
  BY <1>1, FS_EmptySet
<1>3. \A k \in DOMAIN orders : /\ orders[k].filled <= orders'[k].filled
                               /\ orders'[k].filled \in Nat
  <2> SUFFICES ASSUME NEW k \in DOMAIN orders
               PROVE  orders[k].filled <= orders'[k].filled /\ orders'[k].filled \in Nat
    OBVIOUS
  <2>1. orders[k].filled \in Nat /\ orders'[k].filled = orders[k].filled
    BY Fields DEF ClientOrder
  <2> QED  BY <2>1
<1> QED  BY <1>2, <1>3, WireKept

LEMMA NewToken ==
  ASSUME SessionInv, NEW m \in wire, m.kind \in NewKinds
  PROVE  /\ m.order \in DOMAIN orders /\ m = [kind |-> m.kind, order |-> m.order]
         /\ NewTokens(m.order) = {m} /\ OrderOnWay(m.order)
<1>1. Sound(m)
  BY DEF SessionInv, WireInv
<1>2. m \in [kind : NewKinds, order : DOMAIN orders]
  BY <1>1 DEF Sound
<1>3. m.order \in DOMAIN orders /\ m \in NewTokens(m.order)
  BY <1>2 DEF NewTokens
<1>4. OrderOnWay(m.order)
  BY <1>3 DEF SessionInv, GatewayInv
<1> QED  BY <1>2, <1>3, <1>4 DEF OrderOnWay

LEMMA CancelToken ==
  ASSUME SessionInv, NEW m \in wire, m.kind \in CancelKinds
  PROVE  LET c == m.cancel
         IN /\ c \in DOMAIN cancels /\ m = [kind |-> m.kind, cancel |-> c]
            /\ CancelTokens(c) = {m} /\ CancelOnWay(c)
            /\ cancels[c].outcome = "NONE" /\ c \notin held
            /\ cancels[c].order \in DOMAIN orders
<1>1. Sound(m)
  BY DEF SessionInv, WireInv
<1>2. m \in [kind : CancelKinds, cancel : DOMAIN cancels]
  BY <1>1 DEF Sound
<1>3. m.cancel \in DOMAIN cancels /\ m \in CancelTokens(m.cancel)
  BY <1>2 DEF CancelTokens
<1>4. CancelOnWay(m.cancel)
  BY <1>3 DEF SessionInv, GatewayInv
<1>5. cancels[m.cancel].order \in DOMAIN orders
  BY <1>3, Fields DEF SessionInv
<1> QED  BY <1>2, <1>3, <1>4, <1>5 DEF CancelOnWay

LEMMA NewSentKeeps ==
  ASSUME SessionInv, NEW m \in wire, NewSent(m)
  PROVE  SessionInv'
<1> DEFINE k == m.order
           x == [kind |-> "NEW_PROCESS", order |-> k]
<1>1. ClientInv /\ VenueInv /\ BookInv /\ WireInv /\ AccountInv /\ GatewayInv
  BY DEF SessionInv
<1>2. m.kind = "NEW_SENT" /\ m.kind \in NewKinds
  BY DEF NewSent, NewKinds
<1>3. k \in DOMAIN orders /\ NewTokens(k) = {m} /\ OrderOnWay(k)
  BY <1>2, NewToken
<1>4. orders[k] \in ClientOrder
  BY <1>1, <1>3, Fields
<1>5. /\ orders' = [orders EXCEPT ![k].state = IF @ = "CREATED" THEN "PENDING_NEW" ELSE @]
      /\ wire' = (wire \ {m}) \cup {x}
      /\ UNCHANGED <<cancels, held, venue, reported>>
  BY DEF NewSent
<1>6. UNCHANGED <<ledger, taken, book, rested, position, reported>>
  BY <1>5 DEF venue
<1> HIDE DEF k
<1>7. DOMAIN orders' = DOMAIN orders
      /\ (\A j \in DOMAIN orders \ {k} : orders'[j] = orders[j])
      /\ orders'[k] = [orders[k] EXCEPT !.state =
                         IF orders[k].state = "CREATED" THEN "PENDING_NEW"
                         ELSE orders[k].state]
      /\ orders' = [j \in DOMAIN orders |-> orders'[j]]
  BY <1>3, <1>5
<1>8. /\ orders'[k] \in ClientOrder
      /\ orders'[k].state = IF orders[k].state = "CREATED" THEN "PENDING_NEW"
                            ELSE orders[k].state
      /\ orders'[k].filled = orders[k].filled /\ orders'[k].closed = orders[k].closed
      /\ orders'[k].quantity = orders[k].quantity /\ orders'[k].side = orders[k].side
      /\ orders'[k].acked = orders[k].acked
  BY <1>4, <1>7 DEF ClientOrder, States, Waiting
<1>9. ClientInv'
  <2>1. \A j \in DOMAIN orders : orders'[j] \in ClientOrder
    BY <1>1, <1>7, <1>8, Fields
  <2> QED  BY <1>1, <1>5, <1>7, <2>1, ClientKept
<1>10. VenueInv' /\ BookInv'
  BY <1>1, <1>6, <1>7 DEF VenueInv, BookInv, Ordered
<1>11. WireInv'
  <2>1. Sound(x)' /\ x.kind # "FILL_CLIENT"
    BY <1>3, <1>7 DEF Sound, NewKinds, CancelKinds
  <2>2. \A j \in DOMAIN orders : orders'[j].filled = orders[j].filled
    BY <1>7, <1>8
  <2> DEFINE new == {x}
  <2>3. wire' \subseteq wire \cup new /\ \A y \in new : Sound(y)' /\ y.kind # "FILL_CLIENT"
    BY <1>5, <2>1
  <2> HIDE DEF new
  <2> QED  BY <1>1, <1>5, <1>7, <2>2, <2>3, WireQuiet
<1>12. AccountInv'
  <2>1. \A j \in DOMAIN orders :
           \/ orders'[j] = orders[j]
           \/ /\ Remaining(orders'[j]) = Remaining(orders[j])
              /\ orders'[j].filled = orders[j].filled /\ orders'[j].closed = orders[j].closed
              /\ orders'[j].quantity = orders[j].quantity
              /\ orders'[j].side = orders[j].side /\ orders'[j].acked = orders[j].acked
              /\ orders[j].state \notin Terminal
              /\ \/ orders'[j].state = "PENDING_CANCEL"
                 \/ orders'[j].state = "PENDING_NEW" /\ orders[j].state = "CREATED"
                 \/ orders'[j].state = "REJECTED" /\ j \in taken
    <3>1. CASE orders[k].state = "CREATED"
      BY <1>7, <1>8, <3>1 DEF Remaining, Terminal
    <3>2. CASE orders[k].state # "CREATED"
      <4>1. orders'[k] = orders[k]
        BY <1>4, <1>7, <3>2 DEF ClientOrder
      <4> QED  BY <1>7, <4>1
    <3> QED  BY <3>1, <3>2
  <2> QED  BY <1>1, <1>6, <1>7, <2>1, AccountsKept
<1>13. GatewayInv'
  <2>1. x.kind \in NewKinds /\ x.kind \notin CancelKinds /\ m.kind \notin CancelKinds
        /\ x.order = k
    BY <1>2 DEF NewKinds, CancelKinds
  <2>2. NewTokens(k)' = {x}
    <3>1. NewTokens(k)' = (NewTokens(k) \ {m}) \cup {x}
      BY <1>5, <2>1 DEF NewTokens
    <3> QED  BY <1>3, <3>1
  <2>3. \A j \in DOMAIN orders \ {k} : NewTokens(j)' = NewTokens(j)
    <3>1. m.order = k
      BY DEF k
    <3> QED  BY <1>5, <2>1, <3>1 DEF NewTokens
  <2>4. \A c : CancelTokens(c)' = CancelTokens(c)
    BY <1>5, <2>1 DEF CancelTokens
  <2> HIDE DEF x
  <2>5. ASSUME NEW j \in DOMAIN orders
        PROVE  OrderOnWay(j)'
    <3>1. OrderOnWay(j)
      BY <1>1 DEF GatewayInv
    <3>2. CASE j = k
      <4>1. ledger'[k].status = "ABSENT"
        BY <1>3, <1>6 DEF OrderOnWay
      <4>2. orders'[k].state # "CREATED"
        BY <1>8
      <4>3. orders'[k].state = "PENDING_CANCEL" => orders[k].state = "PENDING_CANCEL"
        BY <1>8
      <4>4. Resolved(orders[k]) => Resolved(orders'[k])
        BY <1>8 DEF Resolved, Terminal
      <4> QED  BY <1>5, <1>6, <2>2, <3>1, <3>2, <4>1, <4>2, <4>3, <4>4 DEF OrderOnWay
    <3>3. CASE j # k
      BY <1>5, <1>6, <1>7, <2>3, <3>1, <3>3 DEF OrderOnWay
    <3> QED  BY <3>2, <3>3
  <2>6. ASSUME NEW c \in DOMAIN cancels
        PROVE  CancelOnWay(c)'
    <3>1. PICK j \in DOMAIN orders : j = cancels[c].order /\ CancelOnWay(c)
      BY <1>1, Fields DEF GatewayInv
    <3>2. NewTokens(j) # {} => NewTokens(j)' # {}
      BY <2>2, <2>3, <3>1
    <3>3. Resolved(orders[j]) => Resolved(orders'[j])
      BY <1>7, <1>8, <3>1 DEF Resolved, Terminal
    <3>4. orders[j].state = "CANCELLED" => orders'[j].state = "CANCELLED"
      BY <1>7, <1>8, <3>1
    <3>5. Asking(orders[j]) => Asking(orders'[j])
      BY <1>7, <1>8, <3>1 DEF Asking, Terminal
    <3> QED  BY <1>5, <1>6, <2>4, <3>1, <3>2, <3>3, <3>4, <3>5 DEF CancelOnWay
  <2> QED  BY <1>5, <1>7, <2>5, <2>6 DEF GatewayInv
<1> QED  BY <1>9, <1>10, <1>11, <1>12, <1>13 DEF SessionInv

LEMMA CancelSentKeeps ==
  ASSUME SessionInv, NEW m \in wire, CancelSent(m)
  PROVE  SessionInv'
<1> DEFINE d == m.cancel
           x == [kind |-> "CANCEL_GATEWAY", cancel |-> d]
<1>1. ClientInv /\ VenueInv /\ BookInv /\ WireInv /\ AccountInv /\ GatewayInv
  BY DEF SessionInv
<1>2. m.kind = "CANCEL_SENT" /\ m.kind \in CancelKinds
  BY DEF CancelSent, CancelKinds
<1>3. d \in DOMAIN cancels /\ CancelTokens(d) = {m} /\ cancels[d].outcome = "NONE"
  BY <1>2, CancelToken
<1>4. PICK k \in DOMAIN orders : k = cancels[d].order
  BY <1>2, CancelToken
<1>5. orders[k] \in ClientOrder
  BY <1>1, Fields
<1>6. /\ orders' = [orders EXCEPT ![k].state = IF @ \in Terminal THEN @ ELSE "PENDING_CANCEL"]
      /\ wire' = (wire \ {m}) \cup {x}
      /\ UNCHANGED <<cancels, held, venue, reported>>
  BY <1>4 DEF CancelSent
<1>7. UNCHANGED <<ledger, taken, book, rested, position, reported>>
  BY <1>6 DEF venue
<1> HIDE DEF d
<1>8. DOMAIN orders' = DOMAIN orders
      /\ (\A j \in DOMAIN orders \ {k} : orders'[j] = orders[j])
      /\ orders'[k] = [orders[k] EXCEPT !.state =
                         IF orders[k].state \in Terminal THEN orders[k].state
                         ELSE "PENDING_CANCEL"]
      /\ orders' = [j \in DOMAIN orders |-> orders'[j]]
  BY <1>6
<1>9. /\ orders'[k] \in ClientOrder
      /\ orders'[k].state = IF orders[k].state \in Terminal THEN orders[k].state
                            ELSE "PENDING_CANCEL"
      /\ orders'[k].filled = orders[k].filled /\ orders'[k].closed = orders[k].closed
      /\ orders'[k].quantity = orders[k].quantity /\ orders'[k].side = orders[k].side
      /\ orders'[k].acked = orders[k].acked
  BY <1>5, <1>8 DEF ClientOrder, States, Waiting
<1>10. ClientInv'
  <2>1. \A j \in DOMAIN orders : orders'[j] \in ClientOrder
    BY <1>1, <1>8, <1>9, Fields
  <2> QED  BY <1>1, <1>6, <1>8, <2>1, ClientKept
<1>11. VenueInv' /\ BookInv'
  BY <1>1, <1>7, <1>8 DEF VenueInv, BookInv, Ordered
<1>12. WireInv'
  <2>1. Sound(x)' /\ x.kind # "FILL_CLIENT"
    BY <1>3, <1>6 DEF Sound, NewKinds, CancelKinds
  <2>2. \A j \in DOMAIN orders : orders'[j].filled = orders[j].filled
    BY <1>8, <1>9
  <2> DEFINE new == {x}
  <2>3. wire' \subseteq wire \cup new /\ \A y \in new : Sound(y)' /\ y.kind # "FILL_CLIENT"
    BY <1>6, <2>1
  <2> HIDE DEF new
  <2> QED  BY <1>1, <1>6, <1>8, <2>2, <2>3, WireQuiet
<1>13. AccountInv'
  <2>1. \A j \in DOMAIN orders :
           \/ orders'[j] = orders[j]
           \/ /\ Remaining(orders'[j]) = Remaining(orders[j])
              /\ orders'[j].filled = orders[j].filled /\ orders'[j].closed = orders[j].closed
              /\ orders'[j].quantity = orders[j].quantity
              /\ orders'[j].side = orders[j].side /\ orders'[j].acked = orders[j].acked
              /\ orders[j].state \notin Terminal
              /\ \/ orders'[j].state = "PENDING_CANCEL"
                 \/ orders'[j].state = "PENDING_NEW" /\ orders[j].state = "CREATED"
                 \/ orders'[j].state = "REJECTED" /\ j \in taken
    <3>1. CASE orders[k].state \in Terminal
      <4>1. orders'[k] = orders[k]
        BY <1>5, <1>8, <3>1 DEF ClientOrder
      <4> QED  BY <1>8, <4>1
    <3>2. CASE orders[k].state \notin Terminal
      BY <1>8, <1>9, <3>2 DEF Remaining
    <3> QED  BY <3>1, <3>2
  <2> QED  BY <1>1, <1>7, <1>8, <2>1, AccountsKept
<1>14. GatewayInv'
  <2>1. x.kind \in CancelKinds /\ x.kind \notin NewKinds /\ m.kind \notin NewKinds
        /\ x.cancel = d /\ x.kind # "CANCEL_PROCESS"
    BY <1>2 DEF NewKinds, CancelKinds
  <2>2. CancelTokens(d)' = {x}
    <3>1. CancelTokens(d)' = (CancelTokens(d) \ {m}) \cup {x}
      BY <1>6, <2>1 DEF CancelTokens
    <3> QED  BY <1>3, <3>1
  <2>3. \A c \in DOMAIN cancels \ {d} : CancelTokens(c)' = CancelTokens(c)
    <3>1. m.cancel = d
      BY DEF d
    <3> QED  BY <1>6, <2>1, <3>1 DEF CancelTokens
  <2>4. \A j : NewTokens(j)' = NewTokens(j)
    BY <1>6, <2>1 DEF NewTokens
  <2> HIDE DEF x
  <2>5. \A j \in DOMAIN orders : Resolved(orders'[j]) <=> Resolved(orders[j])
    <3>1. Resolved(orders'[k]) <=> Resolved(orders[k])
      BY <1>9 DEF Resolved, Terminal
    <3> QED  BY <1>8, <3>1
  <2>6. ASSUME NEW j \in DOMAIN orders
        PROVE  OrderOnWay(j)'
    <3>1. OrderOnWay(j)
      BY <1>1 DEF GatewayInv
    <3>2. orders'[j].state = "CREATED" => orders[j].state = "CREATED"
      BY <1>8, <1>9
    <3>3. orders'[j].state = "PENDING_CANCEL" =>
            \/ ledger[j].status = "WITHDRAWN"
            \/ \E c \in DOMAIN cancels : cancels[c].order = j /\ cancels[c].outcome = "NONE"
      <4>1. CASE j = k
        BY <1>3, <1>4, <4>1
      <4>2. CASE j # k
        BY <1>8, <3>1, <4>2 DEF OrderOnWay
      <4> QED  BY <4>1, <4>2
    <3> QED  BY <1>6, <1>7, <2>4, <2>5, <3>1, <3>2, <3>3 DEF OrderOnWay
  <2>7. ASSUME NEW c \in DOMAIN cancels
        PROVE  CancelOnWay(c)'
    <3>1. PICK j \in DOMAIN orders : j = cancels[c].order /\ CancelOnWay(c)
      BY <1>1, Fields DEF GatewayInv
    <3>2. orders[j].state = "CANCELLED" => orders'[j].state = "CANCELLED"
      BY <1>8, <1>9 DEF Terminal
    <3>5. Asking(orders[j]) => Asking(orders'[j])
      BY <1>8, <1>9 DEF Asking
    <3>6. Asking(orders'[k])
      BY <1>9 DEF Asking
    <3>3. CASE c = d
      <4>1. c \notin held
        BY <1>3, <3>1, <3>3 DEF CancelOnWay
      <4>2. j = k
        BY <1>4, <3>1, <3>3
      <4> QED  BY <1>3, <1>6, <1>7, <2>1, <2>2, <3>1, <3>3, <3>6, <4>1, <4>2 DEF CancelOnWay
    <3>4. CASE c # d
      BY <1>6, <1>7, <2>3, <2>4, <2>5, <3>1, <3>2, <3>4, <3>5 DEF CancelOnWay
    <3> QED  BY <3>3, <3>4
  <2> QED  BY <1>6, <1>8, <2>6, <2>7 DEF GatewayInv
<1> QED  BY <1>10, <1>11, <1>12, <1>13, <1>14 DEF SessionInv

LEMMA CancelGatewayKeeps ==
  ASSUME SessionInv, NEW m \in wire, CancelGateway(m)
  PROVE  SessionInv'
<1> DEFINE d == m.cancel
           x == [kind |-> "CANCEL_PROCESS", cancel |-> d]
<1>1. ClientInv /\ VenueInv /\ BookInv /\ WireInv /\ AccountInv /\ GatewayInv
  BY DEF SessionInv
<1>2. m.kind = "CANCEL_GATEWAY" /\ m.kind \in CancelKinds
  BY DEF CancelGateway, CancelKinds
<1>3. /\ d \in DOMAIN cancels /\ CancelTokens(d) = {m} /\ cancels[d].outcome = "NONE"
      /\ d \notin held
  BY <1>2, CancelToken
<1>4. PICK k \in DOMAIN orders : k = cancels[d].order
  BY <1>2, CancelToken
<1>5. /\ UNCHANGED <<orders, cancels, venue, reported>>
      /\ \/ Resolved(orders[k]) /\ wire' = (wire \ {m}) \cup {x} /\ held' = held
         \/ /\ ~Resolved(orders[k])
            /\ wire' = wire \ {m} /\ held' = held \cup {d}
  BY <1>4 DEF CancelGateway, ToVenue
<1>6. UNCHANGED <<ledger, taken, book, rested, position, reported>>
  BY <1>5 DEF venue
<1> HIDE DEF d
<1>7. ClientInv'
  BY <1>1, <1>3, <1>5 DEF ClientInv
<1>8. VenueInv' /\ BookInv'
  BY <1>1, <1>5, <1>6 DEF VenueInv, BookInv, Ordered
<1>9. WireInv'
  <2>1. Sound(x)' /\ x.kind # "FILL_CLIENT"
    BY <1>3, <1>5 DEF Sound, NewKinds, CancelKinds
  <2> DEFINE new == {x}
  <2>2. wire' \subseteq wire \cup new /\ \A y \in new : Sound(y)' /\ y.kind # "FILL_CLIENT"
    BY <1>5, <2>1
  <2> HIDE DEF new
  <2> QED  BY <1>1, <1>5, <2>2, WireQuiet
<1>10. AccountInv'
  BY <1>1, <1>5, <1>6 DEF AccountInv, Agreed, Stolen, Named
<1>11. GatewayInv'
  <2>1. x.kind \in CancelKinds /\ x.kind \notin NewKinds /\ m.kind \notin NewKinds
        /\ x.cancel = d /\ m.cancel = d
    BY <1>2 DEF NewKinds, CancelKinds, d
  <2>2. CancelTokens(d)' = IF Resolved(orders[k]) THEN {x} ELSE {}
    <3>1. CancelTokens(d)' = (CancelTokens(d) \ {m}) \cup
                               (IF Resolved(orders[k]) THEN {x} ELSE {})
      BY <1>5, <2>1 DEF CancelTokens
    <3> QED  BY <1>3, <3>1
  <2>3. \A c \in DOMAIN cancels \ {d} : CancelTokens(c)' = CancelTokens(c)
    BY <1>5, <2>1 DEF CancelTokens
  <2>4. \A j : NewTokens(j)' = NewTokens(j)
    BY <1>5, <2>1 DEF NewTokens
  <2> HIDE DEF x
  <2>5. ASSUME NEW j \in DOMAIN orders
        PROVE  OrderOnWay(j)'
    <3>1. OrderOnWay(j)
      BY <1>1 DEF GatewayInv
    <3> QED  BY <1>5, <1>6, <2>4, <3>1 DEF OrderOnWay
  <2>6. ASSUME NEW c \in DOMAIN cancels
        PROVE  CancelOnWay(c)'
    <3>1. CancelOnWay(c)
      BY <1>1 DEF GatewayInv
    <3>2. CASE c = d
      <4>1. cancels'[c].outcome = "NONE" /\ cancels'[c].order = k
        BY <1>3, <1>4, <1>5, <3>2
      <4>4. Asking(orders'[k])
        BY <1>2, <1>3, <1>4, <1>5, <3>1, <3>2 DEF CancelOnWay
      <4>2. CASE Resolved(orders[k])
        <5>1. CancelTokens(c)' = {x} /\ c \notin held'
          BY <1>3, <1>5, <2>2, <3>2, <4>2
        <5> QED  BY <1>5, <4>1, <4>2, <4>4, <5>1 DEF CancelOnWay
      <4>3. CASE ~Resolved(orders[k])
        <5>1. CancelTokens(c)' = {} /\ c \in held'
          BY <1>5, <2>2, <3>2, <4>3
        <5>2. NewTokens(k)' # {}
          BY <1>1, <2>4, <4>3 DEF GatewayInv, OrderOnWay
        <5> QED  BY <4>1, <4>4, <5>1, <5>2 DEF CancelOnWay
      <4> QED  BY <4>2, <4>3
    <3>3. CASE c # d
      <4>1. CancelTokens(c)' = CancelTokens(c) /\ (c \in held' <=> c \in held)
        BY <1>5, <2>3, <3>3
      <4> QED  BY <1>5, <1>6, <2>4, <3>1, <4>1 DEF CancelOnWay
    <3> QED  BY <3>2, <3>3
  <2> QED  BY <1>5, <2>5, <2>6 DEF GatewayInv
<1> QED  BY <1>7, <1>8, <1>9, <1>10, <1>11 DEF SessionInv

-----------------------------------------------------------------------------
(* A cancellation at the venue *)

LEMMA CancelDecided ==
  ASSUME ClientInv, VenueInv, NEW d \in DOMAIN cancels, NEW v \in States \cup {"NONE", "WON"},
         cancels' = [cancels EXCEPT ![d].outcome = v], DOMAIN orders' = DOMAIN orders
  PROVE  /\ cancels' \in Seq([order : DOMAIN orders', outcome : States \cup {"NONE", "WON"}])
         /\ DOMAIN cancels' = DOMAIN cancels
         /\ cancels'[d].outcome = v
         /\ \A c \in DOMAIN cancels : cancels'[c].order = cancels[c].order
         /\ \A c \in DOMAIN cancels \ {d} : cancels'[c] = cancels[c]
<1> DEFINE C == [order : DOMAIN orders, outcome : States \cup {"NONE", "WON"}]
<1>1. cancels \in Seq(C)
  BY DEF ClientInv
<1>2. \A c \in DOMAIN cancels : cancels[c] \in C
  BY Fields
<1>3. DOMAIN cancels' = DOMAIN cancels
      /\ (\A c \in DOMAIN cancels \ {d} : cancels'[c] = cancels[c])
      /\ cancels'[d] = [cancels[d] EXCEPT !.outcome = v]
      /\ cancels' = [c \in DOMAIN cancels |-> cancels'[c]]
  OBVIOUS
<1>4. cancels'[d] \in C /\ cancels'[d].outcome = v /\ cancels'[d].order = cancels[d].order
  BY <1>2, <1>3
<1>5. \A c \in DOMAIN cancels : cancels'[c] \in C /\ cancels'[c].order = cancels[c].order
  BY <1>2, <1>3, <1>4
<1> HIDE DEF C
<1>6. cancels' \in Seq(C)
  <2>1. \A c \in DOMAIN cancels : cancels'[c] \in C
    BY <1>5
  <2>2. cancels' = [c \in DOMAIN cancels |-> cancels'[c]]
    BY <1>3
  <2> QED  BY <1>1, <2>1, <2>2, SeqUpdate
<1> QED  BY <1>3, <1>4, <1>5, <1>6 DEF C

\* A cancellation that finds nothing to remove finds the order decided or
\* withdrawn.
LEMMA NothingToCancel ==
  ASSUME SessionInv, NEW k \in DOMAIN orders, Resolved(orders[k]), Asking(orders[k]),
         Cancellable(k) = {}
  PROVE  \/ orders[k].state \in Terminal
         \/ orders[k].state = "PENDING_CANCEL" /\ ledger[k].status = "WITHDRAWN"
<1>1. ClientInv /\ VenueInv /\ AccountInv
  BY DEF SessionInv
<1>2. CASE k \in taken
  BY <1>1, <1>2 DEF AccountInv, Stolen, Steal, Resolved
<1>3. CASE k \notin taken
  <2> SUFFICES ASSUME orders[k].state \notin Terminal, ledger[k].status # "WITHDRAWN"
               PROVE  FALSE
    BY DEF Asking
  <2>1. Agreed(k) /\ orders[k].acked
    BY <1>1, <1>3 DEF AccountInv, Resolved
  <2>2. ledger[k].status \in Statuses
    BY <1>1, Fields DEF VenueRecord
  <2>3. ledger[k].status \in {"ACTIVE", "PARTIALLY_FILLED"}
    BY <2>1, <2>2 DEF Agreed, Agree, Statuses, Terminal
  <2>4. PICK r : Named(k) = {r} /\ r.owner = "PLAYER"
    BY <2>1, <2>3 DEF Agreed, Agree
  <2>5. r \in Cancellable(k)
    BY <2>4 DEF Cancellable, Terminal
  <2> QED  BY <2>5
<1> QED  BY <1>2, <1>3

\* A cancellation that removes an order removes all that was left of it.
LEMMA AllCancelled ==
  ASSUME SessionInv, NEW k \in DOMAIN orders, Cancellable(k) # {}
  PROVE  /\ k \notin taken /\ Agreed(k)
         /\ ledger[k].status \in {"ACTIVE", "PARTIALLY_FILLED"}
         /\ orders[k].state \in {"PENDING_CANCEL", "WORKING", "PARTIALLY_FILLED"}
         /\ Cancellable(k) = Named(k)
         /\ QuantityOf(Cancellable(k)) = Remaining(orders[k])
<1>1. ClientInv /\ VenueInv /\ BookInv /\ AccountInv
  BY DEF SessionInv
<1>2. PICK r \in Named(k) : r.owner = "PLAYER"
  BY DEF Cancellable
<1>3. k \notin taken
  BY <1>1, <1>2 DEF AccountInv, Stolen, Steal
<1>4. Agreed(k)
  BY <1>1, <1>3 DEF AccountInv
<1>5. ledger[k].status \in {"ACTIVE", "PARTIALLY_FILLED"}
  BY <1>2, <1>4 DEF Agreed, Agree
<1>6. Named(k) = {r} /\ r.quantity = Remaining(orders[k])
  BY <1>2, <1>4, <1>5 DEF Agreed, Agree
<1>7. orders[k].state \in {"PENDING_CANCEL", "WORKING", "PARTIALLY_FILLED"}
  BY <1>4, <1>5 DEF Agreed, Agree
<1>8. Cancellable(k) = {r}
  BY <1>2, <1>6, <1>7 DEF Cancellable
<1>9. r.quantity \in Nat
  BY <1>1, <1>2 DEF BookInv, Resting, Named
<1>10. QuantityOf({r}) = r.quantity
  BY <1>9, QuantitySingle
<1> QED  BY <1>3, <1>4, <1>5, <1>6, <1>7, <1>8, <1>10

\* The cancellation d has its outcome v.
LEMMA GatewayDecides ==
  ASSUME GatewayInv, NEW d \in DOMAIN cancels, NEW k \in DOMAIN orders, cancels[d].order = k,
         NEW v, cancels'[d].outcome = v,
         DOMAIN cancels' = DOMAIN cancels, DOMAIN orders' = DOMAIN orders,
         \A c \in DOMAIN cancels : cancels[c].order \in DOMAIN orders,
         \A c \in DOMAIN cancels : cancels'[c].order = cancels[c].order,
         \A c \in DOMAIN cancels \ {d} : cancels'[c] = cancels[c],
         held' = held, d \notin held, CancelTokens(d)' = {},
         \A c \in DOMAIN cancels \ {d} : CancelTokens(c)' = CancelTokens(c),
         \A j \in DOMAIN orders : NewTokens(j)' = NewTokens(j),
         \A j \in DOMAIN orders \ {k} : orders'[j] = orders[j],
         \A j \in DOMAIN orders \ {k} : ledger'[j] = ledger[j],
         Resolved(orders'[k]),
         \/ orders'[k].state \in Terminal
         \/ orders'[k].state = "PENDING_CANCEL" /\ ledger'[k].status = "WITHDRAWN",
         orders[k].state = "CANCELLED" => orders'[k].state = "CANCELLED",
         NewTokens(k) # {} => ledger'[k].status = "ABSENT",
         ledger[k].status = "WITHDRAWN" => ledger'[k].status = "WITHDRAWN",
         \/ v \in Terminal
         \/ v = "WON" /\ orders'[k].state = "CANCELLED" /\ orders[k].state # "CANCELLED"
         \/ v = "PENDING_CANCEL" /\ ledger'[k].status = "WITHDRAWN"
  PROVE  GatewayInv'
<1>1. /\ v # "NONE" /\ (v = "WON" => orders[k].state # "CANCELLED")
      /\ \/ v \in Terminal \cup {"WON"}
         \/ v = "PENDING_CANCEL" /\ ledger'[k].status = "WITHDRAWN"
  BY DEF Terminal
<1>2. ASSUME NEW j \in DOMAIN orders
      PROVE  OrderOnWay(j)'
  <2>1. OrderOnWay(j)
    BY DEF GatewayInv
  <2>2. CASE j = k
    <3>1. orders'[k].state # "CREATED"
      BY DEF Terminal
    <3>2. orders'[k].state = "PENDING_CANCEL" => ledger'[k].status = "WITHDRAWN"
      BY DEF Terminal
    <3> QED  BY <2>1, <2>2, <3>1, <3>2 DEF OrderOnWay
  <2>3. CASE j # k
    <3>1. orders[j].state = "PENDING_CANCEL" =>
            \/ ledger[j].status = "WITHDRAWN"
            \/ \E c \in DOMAIN cancels \ {d} : cancels[c].order = j /\ cancels[c].outcome = "NONE"
      BY <2>1, <2>3 DEF OrderOnWay
    <3>2. orders'[j].state = "PENDING_CANCEL" =>
            \/ ledger'[j].status = "WITHDRAWN"
            \/ \E c \in DOMAIN cancels' : cancels'[c].order = j /\ cancels'[c].outcome = "NONE"
      BY <2>3, <3>1
    <3> QED  BY <2>1, <2>3, <3>2 DEF OrderOnWay
  <2> QED  BY <2>2, <2>3
<1>3. ASSUME NEW c \in DOMAIN cancels
      PROVE  CancelOnWay(c)'
  <2>1. CancelOnWay(c)
    BY DEF GatewayInv
  <2>2. PICK j \in DOMAIN orders : j = cancels[c].order /\ j = cancels'[c].order
    OBVIOUS
  <2>3. NewTokens(j)' = NewTokens(j)
    OBVIOUS
  <2>4. /\ Resolved(orders[j]) => Resolved(orders'[j])
        /\ Asking(orders[j]) => Asking(orders'[j])
        /\ ledger[j].status = "WITHDRAWN" => ledger'[j].status = "WITHDRAWN"
    BY DEF Asking
  <2>5. orders[j].state = "CANCELLED" => orders'[j].state = "CANCELLED"
    OBVIOUS
  <2>6. CASE c = d
    <3>1. v = "WON" => \A e \in DOMAIN cancels \ {d} :
                          cancels[e].order = k => cancels[e].outcome # "WON"
      <4> SUFFICES ASSUME v = "WON", NEW e \in DOMAIN cancels \ {d}, cancels[e].order = k
                   PROVE  cancels[e].outcome # "WON"
        OBVIOUS
      <4>1. CancelOnWay(e)
        BY DEF GatewayInv
      <4> QED  BY <1>1, <4>1 DEF CancelOnWay
    <3>2. v = "WON" => orders'[k].state = "CANCELLED"
      BY DEF Terminal
    <3> QED  BY <1>1, <2>2, <2>6, <3>1, <3>2 DEF CancelOnWay
  <2>7. CASE c # d
    <3>1. cancels'[c] = cancels[c] /\ CancelTokens(c)' = CancelTokens(c)
      BY <2>7
    <3>2. cancels[c].outcome = "WON" => v # "WON" \/ j # k
      BY <1>1, <2>1, <2>2 DEF CancelOnWay
    <3>3. cancels[c].outcome = "WON" =>
            \A e \in DOMAIN cancels \ {c} : cancels'[e].order = j => cancels'[e].outcome # "WON"
      BY <2>1, <2>2, <3>2 DEF CancelOnWay
    <3> QED  BY <2>1, <2>2, <2>3, <2>4, <2>5, <3>1, <3>3 DEF CancelOnWay
  <2> QED  BY <2>6, <2>7
<1> QED  BY <1>2, <1>3 DEF GatewayInv

LEMMA CancelProcessKeeps ==
  ASSUME SessionInv, NEW m \in wire, CancelProcess(m), failed' # "LIFECYCLE"
  PROVE  SessionInv'
<1> DEFINE d == m.cancel
           ack == [kind |-> "CANCEL_ACK_CLIENT", cancel |-> d]
<1>1. ClientInv /\ VenueInv /\ BookInv /\ WireInv /\ AccountInv /\ GatewayInv
  BY DEF SessionInv
<1>2. m.kind = "CANCEL_PROCESS" /\ m.kind \in CancelKinds
  BY DEF CancelProcess, CancelKinds
<1>3. /\ d \in DOMAIN cancels /\ CancelTokens(d) = {m} /\ cancels[d].outcome = "NONE"
      /\ d \notin held /\ CancelOnWay(d)
  BY <1>2, CancelToken
<1>4. PICK k \in DOMAIN orders : k = cancels[d].order
  BY <1>2, CancelToken
<1>5. Resolved(orders[k]) /\ Asking(orders[k])
  BY <1>2, <1>3, <1>4 DEF CancelOnWay
<1>6. orders[k] \in ClientOrder /\ ledger[k] \in VenueRecord
  BY <1>1, Fields
<1>7. \A c \in DOMAIN cancels : cancels[c].order \in DOMAIN orders
  BY <1>1, Fields
<1>8. m.cancel = d /\ m.kind \notin NewKinds /\ ack.kind \notin NewKinds \cup CancelKinds
      /\ ack.kind # "FILL_CLIENT"
  BY <1>2 DEF NewKinds, CancelKinds, d
<1> HIDE DEF d
<1>9. Sound(ack)'
  BY <1>8 DEF Sound
<1>10. CASE Cancellable(k) = {}
  <2>1. /\ cancels' = [cancels EXCEPT ![d].outcome = orders[k].state]
        /\ wire' = (wire \ {m}) \cup {ack}
        /\ UNCHANGED <<orders, held, venue, reported>>
    BY <1>4, <1>8, <1>10 DEF CancelProcess
  <2>2. UNCHANGED <<ledger, taken, book, rested, position, reported>>
    BY <2>1 DEF venue
  <2>3. \/ orders[k].state \in Terminal
        \/ orders[k].state = "PENDING_CANCEL" /\ ledger[k].status = "WITHDRAWN"
    BY <1>1, <1>5, <1>10, NothingToCancel DEF SessionInv
  <2>4. PICK v : v = orders[k].state
    OBVIOUS
  <2>5. v \in States \cup {"NONE", "WON"}
    BY <1>6, <2>4 DEF ClientOrder
  <2>6. /\ cancels' \in Seq([order : DOMAIN orders', outcome : States \cup {"NONE", "WON"}])
        /\ DOMAIN cancels' = DOMAIN cancels
        /\ cancels'[d].outcome = v
        /\ \A c \in DOMAIN cancels : cancels'[c].order = cancels[c].order
        /\ \A c \in DOMAIN cancels \ {d} : cancels'[c] = cancels[c]
    BY <1>1, <1>3, <2>1, <2>4, <2>5, CancelDecided
  <2> HIDE DEF ack
  <2>7. ClientInv'
    BY <1>1, <2>1, <2>6 DEF ClientInv
  <2>8. VenueInv' /\ BookInv'
    BY <1>1, <2>1, <2>2 DEF VenueInv, BookInv, Ordered
  <2>9. WireInv'
    <3> DEFINE new == {ack}
    <3>1. wire' \subseteq wire \cup new /\ \A y \in new : Sound(y)' /\ y.kind # "FILL_CLIENT"
      BY <1>8, <1>9, <2>1
    <3> HIDE DEF new
    <3> QED  BY <1>1, <2>1, <2>6, <3>1, WireQuiet
  <2>10. AccountInv'
    BY <1>1, <2>1, <2>2 DEF AccountInv, Agreed, Stolen, Named
  <2>11. GatewayInv'
    <3>1. CancelTokens(d)' = {}
      <4>1. CancelTokens(d)' = CancelTokens(d) \ {m}
        BY <1>8, <2>1 DEF CancelTokens
      <4> QED  BY <1>3, <4>1
    <3>2. \A c \in DOMAIN cancels \ {d} : CancelTokens(c)' = CancelTokens(c)
      BY <1>8, <2>1 DEF CancelTokens
    <3>3. \A j \in DOMAIN orders : NewTokens(j)' = NewTokens(j)
      BY <1>8, <2>1 DEF NewTokens
    <3>4. NewTokens(k) # {} => ledger'[k].status = "ABSENT"
      BY <1>1, <2>2 DEF GatewayInv, OrderOnWay
    <3>5. cancels[d].order = k
      BY <1>4
    <3>6. /\ DOMAIN orders' = DOMAIN orders /\ held' = held
          /\ \A j \in DOMAIN orders \ {k} : orders'[j] = orders[j]
          /\ \A j \in DOMAIN orders \ {k} : ledger'[j] = ledger[j]
          /\ Resolved(orders'[k])
          /\ \/ orders'[k].state \in Terminal
             \/ orders'[k].state = "PENDING_CANCEL" /\ ledger'[k].status = "WITHDRAWN"
          /\ orders[k].state = "CANCELLED" => orders'[k].state = "CANCELLED"
          /\ ledger[k].status = "WITHDRAWN" => ledger'[k].status = "WITHDRAWN"
      BY <1>5, <2>1, <2>2, <2>3
    <3>7. \/ v \in Terminal
          \/ v = "WON" /\ orders'[k].state = "CANCELLED" /\ orders[k].state # "CANCELLED"
          \/ v = "PENDING_CANCEL" /\ ledger'[k].status = "WITHDRAWN"
      BY <2>2, <2>3, <2>4
    <3> QED  BY <1>1, <1>3, <1>7, <2>6, <3>1, <3>2, <3>3, <3>4, <3>5, <3>6, <3>7,
                GatewayDecides
  <2> QED  BY <2>7, <2>8, <2>9, <2>10, <2>11 DEF SessionInv
<1>11. CASE Cancellable(k) # {}
  <2> DEFINE S == Cancellable(k)
             left == QuantityOf(S)
  <2>1. left <= Remaining(orders[k]) /\ MayBecome(orders[k], "CANCELLED")
    BY <1>4, <1>8, <1>11 DEF CancelProcess, Raises
  <2>2. /\ cancels' = [cancels EXCEPT ![d].outcome = "WON"]
        /\ orders' = [orders EXCEPT ![k].closed = @ + left, ![k].state = "CANCELLED"]
        /\ book' = book \ S
        /\ ledger' = [ledger EXCEPT ![k].status = "CANCELLED"]
        /\ wire' = (wire \ {m}) \cup Published(book \ S) \cup {ack}
        /\ UNCHANGED <<held, taken, rested, position, reported>>
    BY <1>4, <1>8, <1>11, <2>1 DEF CancelProcess
  <2>3. /\ k \notin taken /\ Agreed(k)
        /\ ledger[k].status \in {"ACTIVE", "PARTIALLY_FILLED"}
        /\ orders[k].state \in {"PENDING_CANCEL", "WORKING", "PARTIALLY_FILLED"}
        /\ S = Named(k)
        /\ left = Remaining(orders[k])
    BY <1>1, <1>11, AllCancelled DEF SessionInv
  <2> HIDE DEF left
  <2>4. DOMAIN orders' = DOMAIN orders
        /\ (\A j \in DOMAIN orders \ {k} : orders'[j] = orders[j])
        /\ orders'[k] = [orders[k] EXCEPT !.closed = orders[k].closed + left,
                                          !.state = "CANCELLED"]
        /\ orders' = [j \in DOMAIN orders |-> orders'[j]]
    BY <2>2
  <2>5. left = orders[k].quantity - orders[k].filled - orders[k].closed
        /\ orders[k].filled + orders[k].closed <= orders[k].quantity
    BY <2>3 DEF Remaining, Agreed, Agree
  <2>6. /\ orders[k].closed + left \in Nat
        /\ orders[k].quantity - orders[k].filled - (orders[k].closed + left) = 0
        /\ orders[k].filled + (orders[k].closed + left) <= orders[k].quantity
    BY <1>6, <2>5 DEF ClientOrder
  <2>7. /\ orders'[k] \in ClientOrder /\ orders'[k].state = "CANCELLED"
        /\ orders'[k].filled = orders[k].filled
        /\ orders'[k].closed = orders[k].closed + left
        /\ orders'[k].quantity = orders[k].quantity
        /\ orders'[k].acked = orders[k].acked
    BY <1>6, <2>4, <2>6 DEF ClientOrder, States, Terminal
  <2>8. k \in DOMAIN ledger /\ DOMAIN ledger = DOMAIN orders
    BY <1>1 DEF VenueInv
  <2>9. DOMAIN ledger' = DOMAIN ledger
        /\ (\A j \in DOMAIN orders \ {k} : ledger'[j] = ledger[j])
        /\ ledger'[k] = [ledger[k] EXCEPT !.status = "CANCELLED"]
        /\ ledger' = [j \in DOMAIN ledger |-> ledger'[j]]
    BY <2>2, <2>8
  <2>10. ledger'[k] \in VenueRecord /\ ledger'[k].status = "CANCELLED"
         /\ ledger'[k].filled = ledger[k].filled
    BY <1>6, <2>9 DEF VenueRecord, Statuses
  <2>11. /\ cancels' \in Seq([order : DOMAIN orders', outcome : States \cup {"NONE", "WON"}])
         /\ DOMAIN cancels' = DOMAIN cancels
         /\ cancels'[d].outcome = "WON"
         /\ \A c \in DOMAIN cancels : cancels'[c].order = cancels[c].order
         /\ \A c \in DOMAIN cancels \ {d} : cancels'[c] = cancels[c]
    BY <1>1, <1>3, <2>2, <2>4, CancelDecided
  <2>12. ClientInv'
    <3>1. \A j \in DOMAIN orders : orders'[j] \in ClientOrder
      BY <1>1, <2>4, <2>7, Fields
    <3>2. orders \in Seq(ClientOrder)
      BY <1>1 DEF ClientInv
    <3>3. orders' \in Seq(ClientOrder)
      BY <2>4, <3>1, <3>2, SeqUpdate
    <3> QED  BY <1>1, <2>2, <2>11, <3>3 DEF ClientInv
  <2>13. VenueInv'
    <3>1. \A j \in DOMAIN ledger : ledger'[j] \in VenueRecord
      BY <1>1, <2>8, <2>9, <2>10, Fields
    <3>2. ledger \in Seq(VenueRecord)
      BY <1>1 DEF VenueInv
    <3>3. ledger' \in Seq(VenueRecord)
      BY <2>9, <3>1, <3>2, SeqUpdate
    <3> QED  BY <1>1, <2>2, <2>4, <2>9, <3>3 DEF VenueInv
  <2>14. BookInv'
    <3>1. book' \subseteq book
      BY <2>2
    <3>2. IsFiniteSet(book')
      BY <1>1, <3>1, FS_Subset DEF BookInv, Ordered
    <3> QED  BY <1>1, <2>2, <3>1, <3>2 DEF BookInv, Ordered
  <2>15. \A x \in Published(book \ S) \cup {ack} :
            x.kind \in {"MARKET_DATA_RENDER", "CANCEL_ACK_CLIENT"}
    BY DEF Published
  <2> DEFINE new == Published(book \ S) \cup {ack}
  <2>16. wire' = (wire \ {m}) \cup new
         /\ \A x \in new : x.kind \in {"MARKET_DATA_RENDER", "CANCEL_ACK_CLIENT"}
    BY <2>2, <2>15
  <2> HIDE DEF new, ack
  <2>17. \A x \in new : x.kind \notin NewKinds \cup CancelKinds /\ x.kind # "FILL_CLIENT"
    BY <2>16 DEF NewKinds, CancelKinds
  <2>18. WireInv'
    <3>1. \A x \in new : Sound(x)'
      BY <2>16 DEF Sound, NewKinds, CancelKinds
    <3>2. \A j \in DOMAIN orders : orders'[j].filled = orders[j].filled
      BY <2>4, <2>7
    <3>3. wire' \subseteq wire \cup new
      BY <2>16
    <3> QED  BY <1>1, <2>4, <2>11, <2>17, <3>1, <3>2, <3>3, WireQuiet
  <2>19. AccountInv'
    <3>1. Named(k)' = {}
      BY <2>2, <2>3 DEF Named
    <3>2. \A j \in DOMAIN orders \ {k} : Named(j)' = Named(j)
      BY <2>2, <2>3 DEF Named
    <3>3. Agree(orders'[k], ledger'[k], Named(k)')
      <4>1. orders[k].acked /\ orders[k].filled = ledger[k].filled
        BY <2>3 DEF Agreed, Agree
      <4>2. orders'[k].acked /\ orders'[k].filled = ledger'[k].filled
        BY <2>7, <2>10, <4>1
      <4>3. orders'[k].filled + orders'[k].closed <= orders'[k].quantity
            /\ Remaining(orders'[k]) = 0
        BY <2>6, <2>7 DEF Remaining
      <4> QED  BY <2>7, <2>10, <3>1, <4>2, <4>3 DEF Agree
    <3>4. ASSUME NEW j \in DOMAIN orders \ taken
          PROVE  Agreed(j)'
      <4>1. CASE j = k
        BY <3>3, <4>1 DEF Agreed
      <4>2. CASE j # k
        BY <1>1, <2>4, <2>9, <3>2, <4>2 DEF AccountInv, Agreed
      <4> QED  BY <4>1, <4>2
    <3>5. ASSUME NEW j \in taken \cap DOMAIN orders
          PROVE  Stolen(j)'
      <4>1. j \in DOMAIN orders \ {k} /\ Stolen(j)
        BY <1>1, <2>3 DEF AccountInv
      <4> QED  BY <2>4, <2>9, <3>2, <4>1 DEF Stolen
    <3>6. \A r \in book' : r \in book
      BY <2>2
    <3> QED  BY <1>1, <2>2, <2>4, <3>4, <3>5, <3>6 DEF AccountInv
  <2>20. GatewayInv'
    <3>1. CancelTokens(d)' = {}
      <4>1. CancelTokens(d)' = CancelTokens(d) \ {m}
        BY <2>16, <2>17 DEF CancelTokens
      <4> QED  BY <1>3, <4>1
    <3>2. \A c \in DOMAIN cancels \ {d} : CancelTokens(c)' = CancelTokens(c)
      BY <1>8, <2>16, <2>17 DEF CancelTokens
    <3>3. \A j \in DOMAIN orders : NewTokens(j)' = NewTokens(j)
      BY <1>8, <2>16, <2>17 DEF NewTokens
    <3>4. NewTokens(k) = {}
      BY <1>1, <2>3 DEF GatewayInv, OrderOnWay
    <3>5. cancels[d].order = k
      BY <1>4
    <3>6. /\ orders'[k].state \in Terminal /\ orders'[k].state = "CANCELLED"
          /\ orders[k].state # "CANCELLED" /\ Resolved(orders'[k])
          /\ ledger[k].status # "WITHDRAWN"
      BY <2>3, <2>7 DEF Terminal, Resolved
    <3> QED  BY <1>1, <1>3, <1>7, <2>2, <2>4, <2>9, <2>11, <3>1, <3>2, <3>3, <3>4, <3>5,
                <3>6, GatewayDecides
  <2> QED  BY <2>12, <2>13, <2>14, <2>18, <2>19, <2>20 DEF SessionInv
<1> QED  BY <1>10, <1>11

-----------------------------------------------------------------------------
(* What the client asks for *)

NewMessage(k) == [kind |-> "NEW_SENT", order |-> k]

CancelMessage(c) == [kind |-> "CANCEL_SENT", cancel |-> c]

NothingYet == [status |-> "ABSENT", filled |-> 0]

\* There are more orders and cancellations, each of the new ones on its way.
LEMMA GatewayGrows ==
  ASSUME GatewayInv, held' = held,
         DOMAIN orders \subseteq DOMAIN orders', DOMAIN cancels \subseteq DOMAIN cancels',
         \A c \in DOMAIN cancels : cancels[c].order \in DOMAIN orders,
         \A j \in DOMAIN orders :
           orders'[j] = orders[j] /\ ledger'[j] = ledger[j] /\ NewTokens(j)' = NewTokens(j),
         \A c \in DOMAIN cancels :
           cancels'[c] = cancels[c] /\ CancelTokens(c)' = CancelTokens(c),
         \A j \in DOMAIN orders' \ DOMAIN orders :
           /\ orders'[j].state = "CREATED" /\ ledger'[j].status = "ABSENT"
           /\ NewTokens(j)' = {NewMessage(j)},
         \A c \in DOMAIN cancels' \ DOMAIN cancels :
           /\ cancels'[c].outcome = "NONE" /\ c \notin held
           /\ CancelTokens(c)' = {CancelMessage(c)}
  PROVE  GatewayInv'
<1>1. ASSUME NEW j \in DOMAIN orders'
      PROVE  OrderOnWay(j)'
  <2>1. CASE j \in DOMAIN orders
    <3>1. OrderOnWay(j)
      BY <2>1 DEF GatewayInv
    <3>3. orders'[j] = orders[j] /\ ledger'[j] = ledger[j] /\ NewTokens(j)' = NewTokens(j)
      BY <2>1
    <3>2. orders[j].state = "PENDING_CANCEL" =>
            \/ ledger'[j].status = "WITHDRAWN"
            \/ \E c \in DOMAIN cancels' : cancels'[c].order = j /\ cancels'[c].outcome = "NONE"
      <4>1. ASSUME NEW c \in DOMAIN cancels, cancels[c].order = j, cancels[c].outcome = "NONE"
            PROVE  c \in DOMAIN cancels' /\ cancels'[c].order = j /\ cancels'[c].outcome = "NONE"
        BY <4>1
      <4> QED  BY <3>1, <3>3, <4>1 DEF OrderOnWay
    <3> QED  BY <3>1, <3>2, <3>3 DEF OrderOnWay
  <2>2. CASE j \notin DOMAIN orders
    <3>1. \A x \in NewTokens(j)' : x.kind = "NEW_SENT"
      BY <2>2 DEF NewMessage
    <3> QED  BY <2>2, <3>1 DEF OrderOnWay
  <2> QED  BY <2>1, <2>2
<1>2. ASSUME NEW c \in DOMAIN cancels'
      PROVE  CancelOnWay(c)'
  <2>1. CASE c \in DOMAIN cancels
    <3>1. CancelOnWay(c)
      BY <2>1 DEF GatewayInv
    <3>2. PICK j \in DOMAIN orders : j = cancels[c].order /\ j = cancels'[c].order
      BY <2>1
    <3>3. \A d \in DOMAIN cancels' : cancels'[d].outcome = "WON" =>
            d \in DOMAIN cancels /\ cancels[d] = cancels'[d]
      OBVIOUS
    <3> QED  BY <2>1, <3>1, <3>2, <3>3 DEF CancelOnWay
  <2>2. CASE c \notin DOMAIN cancels
    <3>1. /\ cancels'[c].outcome = "NONE" /\ c \notin held'
          /\ CancelTokens(c)' = {CancelMessage(c)}
      BY <2>2
    <3>2. CancelMessage(c).kind = "CANCEL_SENT"
      BY DEF CancelMessage
    <3> QED  BY <3>1, <3>2 DEF CancelOnWay
  <2> QED  BY <2>1, <2>2
<1> QED  BY <1>1, <1>2 DEF GatewayInv

\* The client's and the venue's side with one order more, or none.
LEMMA OrdersGrow ==
  ASSUME ClientInv, VenueInv, NEW A,
         \/ A = {} /\ UNCHANGED <<orders, ledger>>
         \/ /\ A = {NewMessage(Len(orders) + 1)}
            /\ \E q \in Asked : orders' = Append(orders, New(q))
            /\ ledger' = Append(ledger, NothingYet)
  PROVE  LET N == DOMAIN orders' \ DOMAIN orders
         IN /\ orders' \in Seq(ClientOrder) /\ ledger' \in Seq(VenueRecord)
            /\ DOMAIN ledger' = DOMAIN orders' /\ DOMAIN orders \subseteq DOMAIN orders'
            /\ A = {NewMessage(j) : j \in N}
            /\ \A j \in DOMAIN orders : orders'[j] = orders[j] /\ ledger'[j] = ledger[j]
            /\ \A j \in N : /\ orders'[j] \in ClientOrder /\ orders'[j].state = "CREATED"
                            /\ orders'[j].filled = 0 /\ orders'[j].closed = 0
                            /\ ~orders'[j].acked /\ ledger'[j] = NothingYet
                            /\ j = Len(orders) + 1
<1>1. orders \in Seq(ClientOrder) /\ ledger \in Seq(VenueRecord)
      /\ DOMAIN ledger = DOMAIN orders
  BY DEF ClientInv, VenueInv
<1>2. Len(orders) = Len(ledger) /\ Len(orders) + 1 \in Nat \ {0}
  BY <1>1
<1>3. NothingYet \in VenueRecord
  BY DEF NothingYet, VenueRecord, Statuses
<1>4. CASE A = {} /\ UNCHANGED <<orders, ledger>>
  BY <1>1, <1>4
<1>5. CASE /\ A = {NewMessage(Len(orders) + 1)}
           /\ \E q \in Asked : orders' = Append(orders, New(q))
           /\ ledger' = Append(ledger, NothingYet)
  <2>1. PICK q \in Asked : orders' = Append(orders, New(q))
    BY <1>5
  <2>2. New(q) = [side |-> q.side, price |-> q.price, quantity |-> q.quantity,
                  state |-> "CREATED", filled |-> 0, closed |-> 0, acked |-> FALSE]
    BY NewOrder
  <2>3. /\ New(q) \in ClientOrder /\ New(q).state = "CREATED"
        /\ New(q).filled = 0 /\ New(q).closed = 0 /\ ~New(q).acked
    BY <2>2 DEF ClientOrder, Asked, Sides, States, Waiting
  <2> DEFINE n == Len(orders) + 1
             e == New(q)
  <2> HIDE DEF e
  <2>4. /\ orders' \in Seq(ClientOrder)
        /\ DOMAIN orders' = DOMAIN orders \cup {n} /\ n \notin DOMAIN orders
        /\ \A i \in DOMAIN orders : orders'[i] = orders[i]
        /\ orders'[n] = e
    <3>1. orders' = Append(orders, e) /\ e \in ClientOrder
      BY <2>1, <2>3 DEF e
    <3> QED  BY <1>1, <3>1, SeqGrow
  <2>5. /\ ledger' \in Seq(VenueRecord)
        /\ DOMAIN ledger' = DOMAIN ledger \cup {n}
        /\ \A i \in DOMAIN ledger : ledger'[i] = ledger[i]
        /\ ledger'[n] = NothingYet
    <3>1. ledger' = Append(ledger, NothingYet) /\ n = Len(ledger) + 1
      BY <1>2, <1>5
    <3> HIDE DEF n
    <3> QED  BY <1>1, <1>3, <3>1, SeqGrow
  <2>6. n = Len(orders) + 1
    OBVIOUS
  <2>7. A = {NewMessage(n)}
    BY <1>5
  <2> HIDE DEF n
  <2>8. DOMAIN orders' \ DOMAIN orders = {n}
    BY <2>4
  <2> QED  BY <1>1, <2>3, <2>4, <2>5, <2>6, <2>7, <2>8 DEF e
<1> QED  BY <1>4, <1>5

LEMMA CancelsGrow ==
  ASSUME ClientInv, VenueInv, DOMAIN orders \subseteq DOMAIN orders', NEW B,
         \/ B = {} /\ UNCHANGED cancels
         \/ /\ B = {CancelMessage(Len(cancels) + 1)}
            /\ \E k \in DOMAIN orders :
                 cancels' = Append(cancels, [order |-> k, outcome |-> "NONE"])
  PROVE  LET N == DOMAIN cancels' \ DOMAIN cancels
         IN /\ cancels' \in Seq([order : DOMAIN orders', outcome : States \cup {"NONE", "WON"}])
            /\ DOMAIN cancels \subseteq DOMAIN cancels'
            /\ B = {CancelMessage(c) : c \in N}
            /\ \A c \in DOMAIN cancels : cancels'[c] = cancels[c]
            /\ \A c \in N : cancels'[c].outcome = "NONE"
<1> DEFINE C == [order : DOMAIN orders, outcome : States \cup {"NONE", "WON"}]
           D == [order : DOMAIN orders', outcome : States \cup {"NONE", "WON"}]
<1>1. cancels \in Seq(C) /\ C \subseteq D
  BY DEF ClientInv
<1>2. CASE B = {} /\ UNCHANGED cancels
  <2> HIDE DEF C, D
  <2>1. cancels \in Seq(D)
    BY <1>1
  <2> QED  BY <1>2, <2>1 DEF D
<1>3. CASE /\ B = {CancelMessage(Len(cancels) + 1)}
           /\ \E k \in DOMAIN orders :
                cancels' = Append(cancels, [order |-> k, outcome |-> "NONE"])
  <2>1. PICK k \in DOMAIN orders : cancels' = Append(cancels, [order |-> k, outcome |-> "NONE"])
    BY <1>3
  <2> DEFINE e == [order |-> k, outcome |-> "NONE"]
             n == Len(cancels) + 1
  <2>2. e \in D /\ e.outcome = "NONE" /\ cancels' = Append(cancels, e)
    BY <2>1
  <2> HIDE DEF e, C, D
  <2>3. /\ cancels' \in Seq(D)
        /\ DOMAIN cancels' = DOMAIN cancels \cup {n} /\ n \notin DOMAIN cancels
        /\ \A i \in DOMAIN cancels : cancels'[i] = cancels[i]
        /\ cancels'[n] = e
    BY <1>1, <2>2, SeqGrow
  <2>4. B = {CancelMessage(n)}
    BY <1>3
  <2> HIDE DEF n
  <2>5. DOMAIN cancels' \ DOMAIN cancels = {n}
    BY <2>3
  <2> QED  BY <2>2, <2>3, <2>4, <2>5 DEF D
<1> QED  BY <1>2, <1>3

LEMMA RequestKeeps ==
  ASSUME SessionInv, NEW A, NEW B, wire' = wire \cup A \cup B,
         \/ A = {} /\ UNCHANGED <<orders, ledger>>
         \/ /\ A = {NewMessage(Len(orders) + 1)}
            /\ \E q \in Asked : orders' = Append(orders, New(q))
            /\ ledger' = Append(ledger, NothingYet),
         A # {} => Len(orders) + 1 \notin taken,
         \/ B = {} /\ UNCHANGED cancels
         \/ /\ B = {CancelMessage(Len(cancels) + 1)}
            /\ \E k \in DOMAIN orders :
                 cancels' = Append(cancels, [order |-> k, outcome |-> "NONE"]),
         UNCHANGED <<held, taken, book, rested, position, reported>>
  PROVE  SessionInv'
<1>1. ClientInv /\ VenueInv /\ BookInv /\ WireInv /\ AccountInv /\ GatewayInv
  BY DEF SessionInv
<1> DEFINE N == DOMAIN orders' \ DOMAIN orders
           M == DOMAIN cancels' \ DOMAIN cancels
<1>2. /\ orders' \in Seq(ClientOrder) /\ ledger' \in Seq(VenueRecord)
      /\ DOMAIN ledger' = DOMAIN orders' /\ DOMAIN orders \subseteq DOMAIN orders'
      /\ A = {NewMessage(j) : j \in N}
      /\ \A j \in DOMAIN orders : orders'[j] = orders[j] /\ ledger'[j] = ledger[j]
      /\ \A j \in N : /\ orders'[j] \in ClientOrder /\ orders'[j].state = "CREATED"
                      /\ orders'[j].filled = 0 /\ orders'[j].closed = 0
                      /\ ~orders'[j].acked /\ ledger'[j] = NothingYet
                      /\ j = Len(orders) + 1
  BY <1>1, OrdersGrow
<1>3. /\ cancels' \in Seq([order : DOMAIN orders', outcome : States \cup {"NONE", "WON"}])
      /\ DOMAIN cancels \subseteq DOMAIN cancels'
      /\ B = {CancelMessage(c) : c \in M}
      /\ \A c \in DOMAIN cancels : cancels'[c] = cancels[c]
      /\ \A c \in M : cancels'[c].outcome = "NONE"
  BY <1>1, <1>2, CancelsGrow
<1> HIDE DEF N, M
<1>4. N = DOMAIN orders' \ DOMAIN orders /\ M = DOMAIN cancels' \ DOMAIN cancels
  BY DEF N, M
<1>12. \A j \in N : j \notin taken
  BY <1>2
<1>5. \A x \in A : x.kind = "NEW_SENT" /\ x.kind \in NewKinds /\ x.kind \notin CancelKinds
  BY <1>2 DEF NewMessage, NewKinds, CancelKinds
<1>6. \A x \in B : x.kind = "CANCEL_SENT" /\ x.kind \in CancelKinds /\ x.kind \notin NewKinds
  BY <1>3 DEF CancelMessage, NewKinds, CancelKinds
<1>7. ClientInv'
  <2>1. held' \subseteq DOMAIN cancels'
    BY <1>1, <1>3 DEF ClientInv
  <2> QED  BY <1>2, <1>3, <2>1 DEF ClientInv
<1>8. VenueInv' /\ BookInv'
  BY <1>1, <1>2 DEF VenueInv, BookInv, Ordered
<1>9. WireInv'
  <2>1. ASSUME NEW x \in A
        PROVE  Sound(x)' /\ x.kind # "FILL_CLIENT"
    <3>1. PICK j \in N : x = NewMessage(j)
      BY <1>2
    <3>2. x \in [kind : NewKinds, order : DOMAIN orders']
      BY <1>4, <3>1 DEF NewMessage, NewKinds
    <3> QED  BY <1>5, <2>1, <3>2 DEF Sound
  <2>2. ASSUME NEW x \in B
        PROVE  Sound(x)' /\ x.kind # "FILL_CLIENT"
    <3>1. PICK c \in M : x = CancelMessage(c)
      BY <1>3
    <3>2. x \in [kind : CancelKinds, cancel : DOMAIN cancels']
      BY <1>4, <3>1 DEF CancelMessage, CancelKinds
    <3> QED  BY <1>6, <2>2, <3>2 DEF Sound
  <2> DEFINE new == A \cup B
  <2>3. wire' \subseteq wire \cup new /\ \A x \in new : Sound(x)' /\ x.kind # "FILL_CLIENT"
    BY <2>1, <2>2
  <2>4. \A j \in DOMAIN orders : orders'[j].filled = orders[j].filled
    BY <1>2
  <2> HIDE DEF new
  <2> QED  BY <1>1, <1>2, <1>3, <2>3, <2>4, WireQuiet
<1>10. AccountInv'
  <2>1. \A j : Named(j)' = Named(j)
    BY DEF Named
  <2>2. ASSUME NEW j \in DOMAIN orders' \ taken
        PROVE  Agreed(j)'
    <3>1. CASE j \in DOMAIN orders
      BY <1>1, <1>2, <2>1, <3>1 DEF AccountInv, Agreed
    <3>2. CASE j \notin DOMAIN orders
      <4>1. j \in N
        BY <1>4, <3>2
      <4>2. Named(j) = {}
        <5> SUFFICES ASSUME NEW r \in book, r.name = j
                     PROVE  FALSE
          BY DEF Named
        <5> QED  BY <1>1, <2>2, <3>2 DEF AccountInv
      <4>3. orders'[j].quantity \in Nat
        BY <1>2, <4>1 DEF ClientOrder
      <4>4. ledger'[j].status = "ABSENT" /\ ledger'[j].filled = 0
        BY <1>2, <4>1 DEF NothingYet
      <4>5. Agree(orders'[j], ledger'[j], Named(j))
        BY <1>2, <4>1, <4>2, <4>3, <4>4 DEF Agree, Waiting
      <4> QED  BY <2>1, <4>5 DEF Agreed
    <3> QED  BY <3>1, <3>2
  <2>3. ASSUME NEW j \in taken \cap DOMAIN orders'
        PROVE  Stolen(j)'
    <3>1. j \in DOMAIN orders
      BY <1>4, <1>12, <2>3
    <3> QED  BY <1>1, <1>2, <2>1, <2>3, <3>1 DEF AccountInv, Stolen
  <2> QED  BY <1>1, <1>2, <2>2, <2>3 DEF AccountInv
<1>11. GatewayInv'
  <2>1. ASSUME NEW x \in wire
        PROVE  /\ x.kind \in NewKinds => x.order \in DOMAIN orders
               /\ x.kind \in CancelKinds => x.cancel \in DOMAIN cancels
    BY <1>1, <2>1 DEF WireInv, Sound
  <2>2. \A j : NewMessage(j).order = j /\ CancelMessage(j).cancel = j
    BY DEF NewMessage, CancelMessage
  <2>3. \A j \in DOMAIN orders : NewTokens(j)' = NewTokens(j)
    <3>1. \A x \in A : x.order \notin DOMAIN orders
      BY <1>2, <1>4, <2>2
    <3> QED  BY <1>6, <3>1 DEF NewTokens
  <2>4. \A c \in DOMAIN cancels : CancelTokens(c)' = CancelTokens(c)
    <3>1. \A x \in B : x.cancel \notin DOMAIN cancels
      BY <1>3, <1>4, <2>2
    <3> QED  BY <1>5, <3>1 DEF CancelTokens
  <2>5. \A j \in N : NewTokens(j)' = {NewMessage(j)}
    <3> SUFFICES ASSUME NEW j \in N
                 PROVE  NewTokens(j)' = {NewMessage(j)}
      OBVIOUS
    <3>1. NewMessage(j) \in wire' /\ NewMessage(j).kind \in NewKinds /\ NewMessage(j).order = j
      BY <1>2, <1>5, <2>2
    <3>2. \A x \in wire' : x.kind \in NewKinds /\ x.order = j => x = NewMessage(j)
      BY <1>2, <1>4, <1>6, <2>1, <2>2
    <3> QED  BY <3>1, <3>2 DEF NewTokens
  <2>6. \A c \in M : CancelTokens(c)' = {CancelMessage(c)}
    <3> SUFFICES ASSUME NEW c \in M
                 PROVE  CancelTokens(c)' = {CancelMessage(c)}
      OBVIOUS
    <3>1. /\ CancelMessage(c) \in wire' /\ CancelMessage(c).kind \in CancelKinds
          /\ CancelMessage(c).cancel = c
      BY <1>3, <1>6, <2>2
    <3>2. \A x \in wire' : x.kind \in CancelKinds /\ x.cancel = c => x = CancelMessage(c)
      BY <1>3, <1>4, <1>5, <2>1, <2>2
    <3> QED  BY <3>1, <3>2 DEF CancelTokens
  <2>7. \A c \in DOMAIN cancels : cancels[c].order \in DOMAIN orders
    BY <1>1, Fields
  <2>8. \A c \in M : c \notin held
    BY <1>1, <1>4 DEF ClientInv
  <2>9. \A j \in N : ledger'[j].status = "ABSENT"
    BY <1>2 DEF NothingYet
  <2> QED  BY <1>1, <1>2, <1>3, <1>4, <2>3, <2>4, <2>5, <2>6, <2>7, <2>8, <2>9, GatewayGrows
<1> QED  BY <1>7, <1>8, <1>9, <1>10, <1>11 DEF SessionInv

LEMMA CommandKeeps ==
  ASSUME SessionInv,
         \/ \E q \in Requests : RequestOrder(q)
         \/ \E k \in DOMAIN orders : RequestCancel(k) \/ \E q \in Requests : RequestReplace(k, q)
  PROVE  SessionInv'
<1>1. Requests \subseteq Asked
  BY SessionAssumption
<1>2. CASE \E q \in Requests : RequestOrder(q)
  <2> DEFINE A == {NewMessage(Len(orders) + 1)}
  <2>1. /\ wire' = wire \cup A \cup {}
        /\ \E q \in Asked : orders' = Append(orders, New(q))
        /\ ledger' = Append(ledger, NothingYet)
        /\ Len(orders) + 1 \notin taken
        /\ UNCHANGED <<cancels, held, taken, book, rested, position, reported>>
    BY <1>1, <1>2 DEF RequestOrder, NewMessage, NothingYet
  <2> QED  BY <2>1, RequestKeeps
<1>3. ASSUME NEW k \in DOMAIN orders, RequestCancel(k)
      PROVE  SessionInv'
  <2> DEFINE B == {CancelMessage(Len(cancels) + 1)}
  <2>1. /\ wire' = wire \cup {} \cup B
        /\ \E j \in DOMAIN orders : cancels' = Append(cancels, [order |-> j, outcome |-> "NONE"])
        /\ UNCHANGED <<orders, ledger, held, taken, book, rested, position, reported>>
    BY <1>3 DEF RequestCancel, CancelMessage, venue
  <2> QED  BY <2>1, RequestKeeps
<1>4. ASSUME NEW k \in DOMAIN orders, NEW q \in Requests, RequestReplace(k, q)
      PROVE  SessionInv'
  <2> DEFINE A == {NewMessage(Len(orders) + 1)}
             B == {CancelMessage(Len(cancels) + 1)}
  <2>1. /\ wire' = wire \cup A \cup B
        /\ \E p \in Asked : orders' = Append(orders, New(p))
        /\ ledger' = Append(ledger, NothingYet)
        /\ Len(orders) + 1 \notin taken
        /\ \E j \in DOMAIN orders : cancels' = Append(cancels, [order |-> j, outcome |-> "NONE"])
        /\ UNCHANGED <<held, taken, book, rested, position, reported>>
    BY <1>1, <1>4 DEF RequestReplace, NewMessage, CancelMessage, NothingYet
  <2> QED  BY <2>1, RequestKeeps
<1> QED  BY <1>2, <1>3, <1>4

-----------------------------------------------------------------------------
(* The simulated market and the messages to the client *)

\* Nothing happens but that messages which decide nothing come and go.
LEMMA IdleKeeps ==
  ASSUME SessionInv, NEW new, wire' \subseteq wire \cup new,
         \A x \in wire : x \in wire' \/ x.kind \notin NewKinds \cup CancelKinds,
         \A x \in new : /\ x.kind \notin NewKinds \cup CancelKinds \cup {"FILL_CLIENT"}
                        /\ Sound(x)',
         UNCHANGED <<orders, cancels, held, ledger, taken, book, rested, position>>,
         reported' \in Int
  PROVE  SessionInv'
<1>1. ClientInv /\ VenueInv /\ BookInv /\ WireInv /\ AccountInv /\ GatewayInv
  BY DEF SessionInv
<1>2. ClientInv' /\ VenueInv' /\ BookInv'
  BY <1>1 DEF ClientInv, VenueInv, BookInv, Ordered
<1>3. WireInv'
  BY <1>1, WireQuiet
<1>4. AccountInv'
  BY <1>1 DEF AccountInv, Agreed, Stolen, Named
<1>5. GatewayInv'
  <2>1. \A k : NewTokens(k)' = NewTokens(k)
    BY DEF NewTokens
  <2>2. \A c : CancelTokens(c)' = CancelTokens(c)
    BY DEF CancelTokens
  <2>3. \A c \in DOMAIN cancels : cancels[c].order \in DOMAIN orders
    BY <1>1, Fields
  <2>4. \A k \in DOMAIN orders : NewTokens(k) # {} => ledger[k].status = "ABSENT"
    BY <1>1 DEF GatewayInv, OrderOnWay
  <2> QED  BY <1>1, <2>1, <2>2, <2>3, <2>4, GatewayKept
<1> QED  BY <1>2, <1>3, <1>4, <1>5 DEF SessionInv

LEMMA FlowKeeps ==
  ASSUME SessionInv, ScheduleFlow
  PROVE  SessionInv'
<1>1. PICK new : /\ wire' = wire \cup new
                 /\ \E n \in Names :
                      \/ \E q \in Sweeps :
                           new = {[kind |-> "EXTERNAL_MARKET", number |-> flow + 1,
                                   order |-> q, name |-> n]}
                      \/ \E q \in Quotes, target \in Targets :
                           new = {[kind |-> "EXTERNAL_REPRICE", number |-> flow + 1,
                                   order |-> q, name |-> n, target |-> target]}
  BY DEF ScheduleFlow
<1>2. UNCHANGED <<orders, cancels, held, ledger, taken, book, rested, position, reported>>
  BY DEF ScheduleFlow, client, venue
<1>3. \A x \in new : /\ x.kind \in {"EXTERNAL_MARKET", "EXTERNAL_REPRICE"}
                     /\ x.kind = "EXTERNAL_MARKET" => x.order \in Sweeps
                     /\ x.kind = "EXTERNAL_REPRICE" => x.order \in Quotes
                     /\ x.name \in Names
  BY <1>1
<1>4. \A x \in new : /\ x.kind \notin NewKinds \cup CancelKinds \cup {"FILL_CLIENT"}
                     /\ Sound(x)'
  BY <1>2, <1>3 DEF Sound, NewKinds, CancelKinds
<1>5. reported' \in Int
  BY <1>2 DEF SessionInv, VenueInv
<1> QED  BY <1>1, <1>2, <1>4, <1>5, IdleKeeps

LEMMA ReceivedKeeps ==
  ASSUME SessionInv, NEW m \in wire,
         FillClient(m) \/ Answer(m) \/ Render(m) \/ FlowRefused(m)
  PROVE  SessionInv'
<1>1. /\ wire' = wire \ {m} /\ m.kind \notin NewKinds \cup CancelKinds
      /\ UNCHANGED <<orders, cancels, held, ledger, taken, book, rested, position>>
  BY DEF FillClient, Answer, Render, FlowRefused, client, venue, NewKinds, CancelKinds
<1>2. reported' \in Int
  <2>1. reported \in Int
    BY DEF SessionInv, VenueInv
  <2>2. CASE FillClient(m)
    <3>1. m \in Report
      BY <2>2 DEF FillClient, SessionInv, WireInv, Sound
    <3>2. m.quantity \in Int /\ Sign(orders[m.order].side) \in {1, -1}
      BY <3>1 DEF Report, Sign
    <3>3. Sign(orders[m.order].side) * m.quantity \in Int
      BY <3>2
    <3> QED  BY <2>1, <2>2, <3>3 DEF FillClient
  <2>3. CASE ~FillClient(m)
    BY <2>1, <2>3 DEF Answer, Render, FlowRefused
  <2> QED  BY <2>2, <2>3
<1> DEFINE new == {}
<1>3. wire' \subseteq wire \cup new
      /\ \A x \in new : /\ x.kind \notin NewKinds \cup CancelKinds \cup {"FILL_CLIENT"}
                        /\ Sound(x)'
  BY <1>1
<1> HIDE DEF new
<1> QED  BY <1>1, <1>2, <1>3, IdleKeeps

\* The order a message of the simulated flow brings.
LEMMA Brought ==
  ASSUME WireInv, NEW m \in wire, m.kind \in {"EXTERNAL_MARKET", "EXTERNAL_REPRICE"}
  PROVE  LET t == Simulated(m.order, m.name)
         IN t \in Incoming /\ t.name = m.name /\ t.owner = "SIMULATED"
<1>1. m.order \in Asked /\ m.name \in Int
  BY SessionAssumption DEF WireInv, Sound
<1> QED  BY <1>1, SimulatedIs

LEMMA MarketKeeps ==
  ASSUME SessionInv, NEW m \in wire, ExternalMarket(m), failed' # "LIFECYCLE"
  PROVE  SessionInv'
<1>1. m.kind = "EXTERNAL_MARKET" /\ WireInv /\ Ground(book, ledger)
  BY GroundAsIs DEF ExternalMarket, SessionInv
<1>2. PICK t \in Incoming : /\ t = Simulated(m.order, m.name) /\ t.name = m.name
                            /\ t.owner = "SIMULATED"
  BY <1>1, Brought
<1>3. Consumable(Fills(t, Trades(t, book))) /\ ~Known(t.name)
  BY <1>2 DEF ExternalMarket, Raises
<1>4. /\ orders' = [j \in DOMAIN orders |-> Consumed(j, Fills(t, Trades(t, book)))]
      /\ Processed(t, Trades(t, book), After(t, Trades(t, book), book), ledger)
      /\ taken' = taken \cup {t.name}
      /\ wire' = (wire \ {m}) \cup Reports(Fills(t, Trades(t, book)))
                   \cup Published(After(t, Trades(t, book), book))
      /\ UNCHANGED <<cancels, held, reported>>
  BY <1>2, <1>3 DEF ExternalMarket
<1>5. Trade(t, book, ledger) /\ book' = After(t, Trades(t, book), book)
  BY <1>3, <1>4 DEF Trade, Replaces, Processed
<1> QED  BY <1>1, <1>2, <1>3, <1>4, <1>5, SimulatedKeeps

LEMMA RepriceKeeps ==
  ASSUME SessionInv, NEW m \in wire, ExternalReprice(m), failed' # "LIFECYCLE"
  PROVE  SessionInv'
<1>1. m.kind = "EXTERNAL_REPRICE" /\ WireInv /\ ClientInv /\ VenueInv /\ AccountInv
  BY DEF ExternalReprice, SessionInv
<1>2. PICK t \in Incoming : /\ t = Simulated(m.order, m.name) /\ t.name = m.name
                            /\ t.owner = "SIMULATED"
  BY <1>1, Brought
<1>3. PICK B, L : /\ B = book \ Named(m.target) /\ L = Withdrawn(Named(m.target))
                  /\ Ground(B, L)
  BY <1>1, GroundWithdrawn
<1>4. Consumable(Fills(t, Trades(t, B))) /\ ~Known(t.name)
  BY <1>2, <1>3 DEF ExternalReprice, Raises
<1>5. /\ orders' = [j \in DOMAIN orders |-> Consumed(j, Fills(t, Trades(t, B)))]
      /\ Processed(t, Trades(t, B), After(t, Trades(t, B), B), L)
      /\ taken' = taken \cup {t.name}
      /\ wire' = (wire \ {m}) \cup Reports(Fills(t, Trades(t, B)))
                   \cup Published(After(t, Trades(t, B), B))
      /\ UNCHANGED <<cancels, held, reported>>
  BY <1>2, <1>3, <1>4 DEF ExternalReprice
<1>6. Trade(t, B, L) /\ book' = After(t, Trades(t, B), B)
  BY <1>4, <1>5 DEF Trade, Replaces, Processed
<1> QED  BY <1>1, <1>2, <1>3, <1>4, <1>5, <1>6, SimulatedKeeps

\* A repricing that raises half-way has withdrawn its target.
LEMMA HalfwayKeeps ==
  ASSUME SessionInv, NEW m \in wire, RepriceHalfway(m)
  PROVE  SessionInv'
<1>1. ClientInv /\ VenueInv /\ BookInv /\ WireInv /\ AccountInv /\ GatewayInv
  BY DEF SessionInv
<1>2. /\ m.kind \notin NewKinds \cup CancelKinds /\ wire' = wire \ {m}
      /\ UNCHANGED <<orders, cancels, held, taken, rested, position, reported>>
  BY DEF RepriceHalfway, client, NewKinds, CancelKinds
<1>3. book' = book \ Named(m.target) /\ ledger' = Withdrawn(Named(m.target))
  BY DEF RepriceHalfway
<1>4. Ground(book', ledger')
  BY <1>1, <1>3, GroundWithdrawn
<1>5. /\ ledger' \in Seq(VenueRecord) /\ DOMAIN ledger' = DOMAIN ledger
      /\ \A j \in DOMAIN orders \ taken : Agree(orders[j], ledger'[j], In(book', j))
      /\ \A j \in taken \cap DOMAIN orders : Steal(orders[j], ledger'[j], In(book', j))
      /\ \A j \in DOMAIN orders :
           ledger[j].status \in {"ABSENT", "WITHDRAWN"} => ledger'[j] = ledger[j]
  BY <1>4 DEF Ground
<1>6. ClientInv' /\ VenueInv'
  BY <1>1, <1>2, <1>5 DEF ClientInv, VenueInv
<1>7. BookInv'
  <2>1. book' \subseteq book
    BY <1>3
  <2>2. IsFiniteSet(book')
    BY <1>1, <2>1, FS_Subset DEF BookInv, Ordered
  <2> QED  BY <1>1, <1>2, <2>1, <2>2 DEF BookInv, Ordered
<1>8. WireInv'
  <2> DEFINE new == {}
  <2>1. wire' \subseteq wire \cup new /\ \A x \in new : Sound(x)' /\ x.kind # "FILL_CLIENT"
    BY <1>2
  <2> HIDE DEF new
  <2> QED  BY <1>1, <1>2, <2>1, WireQuiet
<1>9. AccountInv'
  <2>1. \A j \in DOMAIN orders \ taken : Agreed(j)'
    BY <1>2, <1>5 DEF Agreed, Named, In
  <2>2. \A j \in taken \cap DOMAIN orders : Stolen(j)'
    BY <1>2, <1>5 DEF Stolen, Named, In
  <2>3. \A r \in book' : r \in book
    BY <1>3
  <2> QED  BY <1>1, <1>2, <2>1, <2>2, <2>3 DEF AccountInv
<1>10. GatewayInv'
  <2>1. \A k : NewTokens(k)' = NewTokens(k)
    BY <1>2 DEF NewTokens
  <2>2. \A c : CancelTokens(c)' = CancelTokens(c)
    BY <1>2 DEF CancelTokens
  <2>3. \A c \in DOMAIN cancels : cancels[c].order \in DOMAIN orders
    BY <1>1, Fields
  <2>4. \A k \in DOMAIN orders :
          /\ NewTokens(k) # {} => ledger'[k].status = "ABSENT"
          /\ ledger[k].status = "WITHDRAWN" => ledger'[k].status = "WITHDRAWN"
    BY <1>1, <1>5 DEF GatewayInv, OrderOnWay
  <2> QED  BY <1>1, <1>2, <2>1, <2>2, <2>3, <2>4, GatewayKept
<1> QED  BY <1>6, <1>7, <1>8, <1>9, <1>10 DEF SessionInv

-----------------------------------------------------------------------------
(* The session *)

LEMMA SessionStarts == Init => SessionInv
<1> SUFFICES ASSUME Init
             PROVE  SessionInv
  OBVIOUS
<1>1. orders = <<>> /\ cancels = <<>> /\ ledger = <<>> /\ held = {}
      /\ taken = {-1, -2}
  BY DEF Init
<1>2. DOMAIN orders = {} /\ DOMAIN cancels = {} /\ DOMAIN ledger = {}
  BY <1>1
<1>3. ClientInv
  BY <1>1, <1>2 DEF ClientInv
<1>4. VenueInv
  BY <1>1, <1>2 DEF VenueInv, Init
<1>5. BookInv
  BY OpenedBook DEF BookInv, Init
<1>6. WireInv
  <2>1. \A m \in wire : m.kind = "MARKET_DATA_RENDER"
    BY DEF Init
  <2>2. Reported = {}
    BY <2>1 DEF Reported
  <2>3. \A m \in wire : Sound(m)
    BY <2>1 DEF Sound, NewKinds, CancelKinds
  <2> QED  BY <2>2, <2>3, FS_EmptySet DEF WireInv
<1>7. AccountInv
  <2>1. \A r \in book : r.owner = "SIMULATED" /\ r.name \in {-1, -2}
    BY DEF Init, Opened
  <2> QED  BY <1>1, <1>2, <2>1 DEF AccountInv
<1>8. GatewayInv
  BY <1>2 DEF GatewayInv
<1> QED  BY <1>3, <1>4, <1>5, <1>6, <1>7, <1>8 DEF SessionInv

LEMMA SessionUnchanged ==
  ASSUME SessionInv,
         UNCHANGED <<orders, cancels, held, wire, ledger, taken, book, rested, position, reported>>
  PROVE  SessionInv'
<1> DEFINE new == {}
<1>1. wire' \subseteq wire \cup new
      /\ \A x \in new : /\ x.kind \notin NewKinds \cup CancelKinds \cup {"FILL_CLIENT"}
                        /\ Sound(x)'
  OBVIOUS
<1>2. reported' \in Int
  BY DEF SessionInv, VenueInv
<1> HIDE DEF new
<1> QED  BY <1>1, <1>2, IdleKeeps

\* The model stops where a handler that raises started.
LEMMA RaisesKeeps ==
  ASSUME SessionInv, NEW what, Raises(what)
  PROVE  SessionInv'
BY SessionUnchanged DEF Raises, client, venue

LEMMA DispatchKeeps ==
  ASSUME SessionInv, failed = "NONE", NEW m \in wire, Dispatch(m)
  PROVE  SessionInv'
<1>1. CASE failed' = "LIFECYCLE"
  <2>1. Raises("LIFECYCLE")
    BY <1>1 DEF Dispatch, NewSent, Accept, Reject, CancelSent, CancelGateway, CancelProcess,
                ExternalMarket, ExternalReprice, FlowRefused, RepriceHalfway, FillClient,
                Answer, Render
  <2> QED  BY <2>1, RaisesKeeps
<1>2. CASE failed' # "LIFECYCLE"
  <2>1. CASE NewSent(m)
    BY <2>1, NewSentKeeps
  <2>2. CASE Accept(m)
    BY <1>2, <2>2, AcceptKeeps
  <2>3. CASE Reject(m)
    BY <1>2, <2>3, RejectKeeps
  <2>4. CASE CancelSent(m)
    BY <2>4, CancelSentKeeps
  <2>5. CASE CancelGateway(m)
    BY <2>5, CancelGatewayKeeps
  <2>6. CASE CancelProcess(m)
    BY <1>2, <2>6, CancelProcessKeeps
  <2>7. CASE ExternalMarket(m)
    BY <1>2, <2>7, MarketKeeps
  <2>8. CASE ExternalReprice(m)
    BY <1>2, <2>8, RepriceKeeps
  <2>9. CASE RepriceHalfway(m)
    BY <2>9, HalfwayKeeps
  <2>10. CASE FillClient(m) \/ Answer(m) \/ Render(m) \/ FlowRefused(m)
    BY <2>10, ReceivedKeeps
  <2> QED  BY <2>1, <2>2, <2>3, <2>4, <2>5, <2>6, <2>7, <2>8, <2>9, <2>10 DEF Dispatch
<1> QED  BY <1>1, <1>2

LEMMA SessionStep == SessionInv /\ [Next]_vars => SessionInv'
<1> SUFFICES ASSUME SessionInv, [Next]_vars
             PROVE  SessionInv'
  OBVIOUS
<1>1. CASE AdvanceTo
  BY <1>1, DispatchKeeps DEF AdvanceTo
<1>2. CASE Command
  BY <1>2, CommandKeeps, FlowKeeps DEF Command
<1>3. CASE UNCHANGED vars
  BY <1>3, SessionUnchanged DEF vars, client, venue
<1> QED  BY <1>1, <1>2, <1>3 DEF Next

\* Whatever the order the scheduled messages are handled in, the session keeps
\* its parts in step: the client's record of an order, the venue's record, what
\* rests in the book and the messages on their way (advance_to and every
\* handler it calls).
THEOREM SessionHolds == Spec => []SessionInv
<1>1. SessionInv /\ [Next]_vars => SessionInv'
  BY SessionStep
<1> QED  BY <1>1, SessionStarts, PTL DEF Spec

-----------------------------------------------------------------------------
(* What follows from it *)

LEMMA OutcomesDecided ==
  ASSUME SessionInv
  PROVE  NewBeforeCancel
BY DEF SessionInv, GatewayInv, CancelOnWay, NewBeforeCancel

LEMMA NothingWaits ==
  ASSUME SessionInv
  PROVE  NothingStuck
<1> SUFFICES ASSUME wire = {}
             PROVE  /\ held = {}
                    /\ \A c \in DOMAIN cancels : cancels[c].outcome # "NONE"
                    /\ \A k \in DOMAIN orders :
                         \/ orders[k].state \in Terminal \cup {"WORKING", "PARTIALLY_FILLED"}
                         \/ /\ orders[k].state = "PENDING_CANCEL"
                            /\ ledger[k].status = "WITHDRAWN"
  BY DEF NothingStuck
<1>1. ClientInv /\ VenueInv /\ AccountInv /\ GatewayInv
  BY DEF SessionInv
<1>2. (\A k : NewTokens(k) = {}) /\ \A c : CancelTokens(c) = {}
  BY DEF NewTokens, CancelTokens
<1>3. held = {}
  BY <1>1, <1>2 DEF ClientInv, GatewayInv, CancelOnWay
<1>4. \A c \in DOMAIN cancels : cancels[c].outcome # "NONE"
  BY <1>1, <1>2, <1>3 DEF GatewayInv, CancelOnWay
<1>5. ASSUME NEW k \in DOMAIN orders
      PROVE  \/ orders[k].state \in Terminal \cup {"WORKING", "PARTIALLY_FILLED"}
             \/ orders[k].state = "PENDING_CANCEL" /\ ledger[k].status = "WITHDRAWN"
  <2>1. orders[k] \in ClientOrder /\ ledger[k] \in VenueRecord
    BY <1>1, Fields
  <2>2. orders[k].state = "PENDING_CANCEL" => ledger[k].status = "WITHDRAWN"
    BY <1>1, <1>4 DEF GatewayInv, OrderOnWay
  <2>3. Resolved(orders[k])
    BY <1>1, <1>2 DEF GatewayInv, OrderOnWay
  <2>4. CASE k \in taken
    <3>1. orders[k].state \in Terminal
      BY <1>1, <2>3, <2>4 DEF AccountInv, Stolen, Steal, Resolved
    <3> QED  BY <3>1
  <2>5. CASE k \notin taken
    <3>1. Agreed(k)
      BY <1>1, <2>5 DEF AccountInv
    <3>2. orders[k].state \in {"CREATED", "PENDING_NEW"} => FALSE
      BY <2>1, <2>3, <3>1 DEF Agreed, Agree, Resolved, Terminal, VenueRecord, Statuses
    <3>3. orders[k].state \in States
      BY <2>1 DEF ClientOrder
    <3> QED  BY <2>2, <3>2, <3>3 DEF States, Waiting
  <2> QED  BY <2>4, <2>5
<1> QED  BY <1>3, <1>4, <1>5

\* A cancellation is decided only when its order has been, and only the first
\* of them removes it, because _cancel_gateway holds it back and _new_process
\* releases it.
THEOREM DecidedInOrder == Spec => []NewBeforeCancel
BY SessionHolds, OutcomesDecided, PTL

\* When the queue of advance_to is empty nothing waits: the gateway has released
\* every cancellation it held back and each order and cancellation is decided.
THEOREM NothingIsStuck == Spec => []NothingStuck
BY SessionHolds, NothingWaits, PTL

-----------------------------------------------------------------------------
(* No transition is refused *)

\* No simulated order bears a name of the client's, nor does one on its way.
Undisturbed ==
  /\ taken \cap DOMAIN orders = {}
  /\ \A m \in wire : m.kind \in {"EXTERNAL_MARKET", "EXTERNAL_REPRICE"} =>
       m.name \notin DOMAIN orders

LEMMA MarketConsumable ==
  ASSUME SessionInv, taken \cap DOMAIN orders = {}, NEW B, NEW L, Ground(B, L),
         NEW t \in Incoming, t.name \notin DOMAIN orders
  PROVE  Consumable(Fills(t, Trades(t, B)))
<1>1. ClientInv /\ VenueInv /\ BookInv
  BY DEF SessionInv
<1>2. Rests(B) /\ \A j \in DOMAIN orders : Agree(orders[j], L[j], In(B, j))
  BY DEF Ground
<1> SUFFICES ASSUME NEW f \in Fills(t, Trades(t, B)), NEW k, k = f.order
             PROVE  /\ QuantityOf(FillsOf(k, Fills(t, Trades(t, B)))) <= Remaining(orders[k])
                    /\ MayBecome(orders[k], Consumed(k, Fills(t, Trades(t, B))).state)
  BY DEF Consumable
<1>3. k \in DOMAIN orders
  BY <1>1, <1>2, FillsAre
<1>4. Agree(orders[k], L[k], In(B, k)) /\ k # t.name
  BY <1>2, <1>3
<1> QED  BY <1>1, <1>2, <1>3, <1>4, MakerGives

LEMMA OrderConsumable ==
  ASSUME SessionInv, taken \cap DOMAIN orders = {}, NEW k \in DOMAIN orders,
         ledger[k].status = "ABSENT", orders[k].state # "CREATED"
  PROVE  LET t == Taker(k) F == Fills(t, Trades(t, book)) o == Consumed(k, F)
         IN /\ Consumable(F)
            /\ MayBecome(o, Settled(o, Recorded(t, Trades(t, book), ledger)[k].status))
<1>1. ClientInv /\ VenueInv /\ BookInv /\ AccountInv
  BY DEF SessionInv
<1>2. PICK t \in Incoming : t = Taker(k) /\ t.name = k
  BY <1>1, TakerIs
<1>3. Rests(book) /\ \A j \in DOMAIN orders : /\ Agreed(j)
                                             /\ Agree(orders[j], ledger[j], In(book, j))
  BY <1>1 DEF AccountInv, Agreed, Named, In, Rests
<1> DEFINE F == Fills(t, Trades(t, book))
           o == Consumed(k, F)
<1>4. /\ QuantityOf(FillsOf(k, F)) <= Remaining(orders[k])
      /\ MayBecome(orders[k], o.state)
      /\ MayBecome(o, Settled(o, Recorded(t, Trades(t, book), ledger)[k].status))
  BY <1>1, <1>2, <1>3, TakerTrades
<1>5. ASSUME NEW f \in F, NEW j, j = f.order
      PROVE  /\ QuantityOf(FillsOf(j, F)) <= Remaining(orders[j])
             /\ MayBecome(orders[j], Consumed(j, F).state)
  <2>1. j \in DOMAIN orders
    BY <1>1, <1>3, <1>5, FillsAre
  <2>2. CASE j = k
    BY <1>4, <2>2
  <2>3. CASE j # k
    BY <1>1, <1>2, <1>3, <2>1, <2>3, MakerGives
  <2> QED  BY <2>2, <2>3
<1>6. Consumable(F)
  BY <1>5 DEF Consumable
<1> QED  BY <1>2, <1>4, <1>6

LEMMA CancelConsumable ==
  ASSUME SessionInv, NEW k \in DOMAIN orders, Cancellable(k) # {}
  PROVE  /\ QuantityOf(Cancellable(k)) <= Remaining(orders[k])
         /\ MayBecome(orders[k], "CANCELLED")
<1>1. /\ orders[k].state \in {"PENDING_CANCEL", "WORKING", "PARTIALLY_FILLED"}
      /\ QuantityOf(Cancellable(k)) = Remaining(orders[k])
  BY AllCancelled
<1>2. orders[k] \in ClientOrder
  BY Fields DEF SessionInv
<1>3. Remaining(orders[k]) \in Int
  BY <1>2 DEF ClientOrder, Remaining
<1>4. MayBecome(orders[k], "CANCELLED")
  BY <1>1 DEF MayBecome, AllowedTransitions
<1> QED  BY <1>1, <1>3, <1>4

LEMMA NoneRaises ==
  ASSUME SessionInv, Undisturbed, failed = "NONE", NEW m \in wire, Dispatch(m)
  PROVE  failed' # "LIFECYCLE"
<1> SUFFICES ASSUME failed' = "LIFECYCLE"
             PROVE  FALSE
  OBVIOUS
<1>1. ClientInv /\ VenueInv /\ BookInv /\ WireInv /\ AccountInv
  BY DEF SessionInv
<1>2. Accept(m) \/ Reject(m) \/ CancelProcess(m) \/ ExternalMarket(m) \/ ExternalReprice(m)
  BY DEF Dispatch, NewSent, CancelSent, CancelGateway, FlowRefused, RepriceHalfway,
         Raises, FillClient, Answer, Render
<1>3. CASE Accept(m)
  <2>1. m.kind = "NEW_PROCESS"
    BY <1>3 DEF Accept
  <2>2. PICK k \in DOMAIN orders : /\ k = m.order /\ ledger[k].status = "ABSENT"
                                   /\ orders[k].state # "CREATED"
    BY <2>1, ProcessedToken
  <2> DEFINE t == Taker(k)
             F == Fills(t, Trades(t, book))
             o == Consumed(k, F)
  <2>3. /\ Consumable(F)
        /\ MayBecome(o, Settled(o, Recorded(t, Trades(t, book), ledger)[k].status))
    BY <2>2, OrderConsumable DEF Undisturbed
  <2> QED  BY <1>3, <2>2, <2>3 DEF Accept
<1>4. CASE Reject(m)
  <2>1. m.kind = "NEW_PROCESS" /\ m.order \in taken
    BY <1>4 DEF Reject
  <2> QED  BY <2>1, ProcessedToken DEF Undisturbed
<1>5. CASE CancelProcess(m)
  <2>1. m.kind \in CancelKinds
    BY <1>5 DEF CancelProcess, CancelKinds
  <2>2. PICK k \in DOMAIN orders : k = cancels[m.cancel].order
    BY <2>1, CancelToken
  <2>3. Cancellable(k) = {} \/ /\ QuantityOf(Cancellable(k)) <= Remaining(orders[k])
                               /\ MayBecome(orders[k], "CANCELLED")
    BY CancelConsumable
  <2> QED  BY <1>5, <2>2, <2>3 DEF CancelProcess
<1>6. CASE ExternalMarket(m)
  <2>1. m.kind = "EXTERNAL_MARKET" /\ Ground(book, ledger)
    BY <1>1, <1>6, GroundAsIs DEF ExternalMarket
  <2>2. PICK t \in Incoming : t = Simulated(m.order, m.name) /\ t.name = m.name
    BY <1>1, <2>1, Brought
  <2>3. t.name \notin DOMAIN orders
    BY <2>1, <2>2 DEF Undisturbed
  <2>4. Consumable(Fills(t, Trades(t, book)))
    BY <2>1, <2>3, MarketConsumable DEF Undisturbed
  <2> QED  BY <1>6, <2>2, <2>4 DEF ExternalMarket
<1>7. CASE ExternalReprice(m)
  <2>1. m.kind = "EXTERNAL_REPRICE"
    BY <1>7 DEF ExternalReprice
  <2>2. PICK t \in Incoming : t = Simulated(m.order, m.name) /\ t.name = m.name
    BY <1>1, <2>1, Brought
  <2>3. t.name \notin DOMAIN orders
    BY <2>1, <2>2 DEF Undisturbed
  <2>4. PICK B, L : /\ B = book \ Named(m.target) /\ L = Withdrawn(Named(m.target))
                    /\ Ground(B, L)
    BY <1>1, GroundWithdrawn
  <2>5. Consumable(Fills(t, Trades(t, B)))
    BY <2>3, <2>4, MarketConsumable DEF Undisturbed
  <2> QED  BY <1>7, <2>2, <2>4, <2>5 DEF ExternalReprice
<1> QED  BY <1>2, <1>3, <1>4, <1>5, <1>6, <1>7

LEMMA LifecycleKept == SessionInv /\ LifecycleHolds /\ [Next]_vars => LifecycleHolds'
<1> SUFFICES ASSUME SessionInv, LifecycleHolds, [Next]_vars, failed' = "LIFECYCLE",
                    taken' \cap DOMAIN orders' = {},
                    \A m \in wire' : ~ /\ m.kind \in {"EXTERNAL_MARKET", "EXTERNAL_REPRICE"}
                                       /\ m.name \in DOMAIN orders'
             PROVE  FALSE
  BY DEF LifecycleHolds
<1>1. CASE UNCHANGED vars
  BY <1>1 DEF vars, client, venue, LifecycleHolds
<1>2. CASE Command
  BY <1>2 DEF Command, RequestOrder, RequestCancel, RequestReplace, ScheduleFlow
<1>3. CASE AdvanceTo
  <2>1. PICK m \in wire : Dispatch(m) /\ failed = "NONE"
    BY <1>3 DEF AdvanceTo
  <2>2. Raises("LIFECYCLE")
    BY <2>1 DEF Dispatch, NewSent, Accept, Reject, CancelSent, CancelGateway, CancelProcess,
                ExternalMarket, ExternalReprice, FlowRefused, RepriceHalfway, Raises,
                FillClient, Answer, Render
  <2>3. UNCHANGED <<taken, wire, orders>>
    BY <2>2 DEF Raises, client, venue
  <2>4. Undisturbed
    BY <2>3 DEF Undisturbed
  <2> QED  BY <2>1, <2>4, NoneRaises
<1> QED  BY <1>1, <1>2, <1>3 DEF Next

\* record_fill, record_cancel and transition never refuse what the venue
\* decides, unless a simulated order bears a name of the client's.
THEOREM LifecycleIsKept == Spec => []LifecycleHolds
<1>1. Init => LifecycleHolds
  BY DEF Init, LifecycleHolds
<1>2. LifecycleHolds /\ SessionInv /\ [Next]_vars => LifecycleHolds'
  BY LifecycleKept
<1> QED  BY <1>1, <1>2, SessionHolds, PTL DEF Spec

-----------------------------------------------------------------------------
(* What the reports on their way say of the position *)

Exposure(m) == Sign(orders[m.order].side) * m.quantity

OfExposure == INSTANCE Sums WITH Weight <- Exposure

Exposed == MapThenSumSet(LAMBDA m : Sign(orders[m.order].side) * m.quantity, Reported)

LEMMA ExposedIsSum == Exposed = OfExposure!Sum(Reported)
  BY DEF Exposed, OfExposure!Sum, Exposure, MapThenSumSet, MapThenFoldSet,
         OfExposure!MapThenSumSet, OfExposure!MapThenFoldSet

Exposures(S) == [m \in S |-> Sign(orders[m.order].side) * m.quantity]

ExposedTotal ==
  IsFiniteSet(Reported) => Exposed = OfQuantity!Total(Exposures(Reported), Reported)

LEMMA ExposedIsTotal == ExposedTotal
<1> SUFFICES ASSUME IsFiniteSet(Reported)
             PROVE  Exposed = OfQuantity!Total(Exposures(Reported), Reported)
  BY DEF ExposedTotal
<1>1. OfExposure!IsFiniteSet(Reported)
  BY DEF IsFiniteSet, OfExposure!IsFiniteSet
<1>2. Exposed = OfExposure!Total(OfExposure!Weights(Reported), Reported)
  BY <1>1, ExposedIsSum, OfExposure!SumIsTotal
<1>3. OfExposure!Weights(Reported) = Exposures(Reported)
  BY DEF OfExposure!Weights, Exposures, Exposure
<1>4. \A w, S : OfExposure!Total(w, S) = OfQuantity!Total(w, S)
  BY DEF OfExposure!Total, OfQuantity!Total, OfExposure!MapThenSumSet,
         OfExposure!MapThenFoldSet, OfQuantity!MapThenSumSet, OfQuantity!MapThenFoldSet
<1> QED  BY <1>2, <1>3, <1>4

LEMMA ExposedIsTotalNext == ExposedTotal'
  BY ExposedIsTotal, PTL

\* The sum with any function that has those values.
LEMMA ExposedSum ==
  ASSUME SessionInv, NEW v,
         \A m \in Reported : v[m] = Sign(orders[m.order].side) * m.quantity
  PROVE  /\ Exposed = OfQuantity!Total(v, Reported)
         /\ \A m \in Reported : v[m] \in Int
<1> DEFINE w == Exposures(Reported)
<1>1. \A m \in Reported : w[m] = v[m] /\ w[m] \in Int
  <2> SUFFICES ASSUME NEW m \in Reported
               PROVE  w[m] = v[m] /\ w[m] \in Int
    OBVIOUS
  <2>1. m \in Report
    BY DEF SessionInv, WireInv, Sound, Reported
  <2>2. m.quantity \in Int /\ Sign(orders[m.order].side) \in {1, -1}
    BY <2>1 DEF Report, Sign
  <2>3. Sign(orders[m.order].side) * m.quantity \in Int
    BY <2>2
  <2> QED  BY <2>3 DEF Exposures
<1>2. IsFiniteSet(Reported) /\ OfQuantity!IsFiniteSet(Reported)
  BY SumFinite DEF SessionInv, WireInv
<1>3. Exposed = OfQuantity!Total(w, Reported)
  BY <1>2, ExposedIsTotal DEF ExposedTotal
<1> HIDE DEF w
<1>4. OfQuantity!Total(w, Reported) = OfQuantity!Total(v, Reported)
  BY <1>1, <1>2, OfQuantity!TotalSame
<1> QED  BY <1>1, <1>3, <1>4

LEMMA ExposedSumNext ==
  ASSUME SessionInv', NEW v,
         \A m \in Reported' : v[m] = Sign(orders'[m.order].side) * m.quantity
  PROVE  /\ Exposed' = OfQuantity!Total(v, Reported')
         /\ \A m \in Reported' : v[m] \in Int
<1> DEFINE w == Exposures(Reported)'
<1>1. \A m \in Reported' : w[m] = v[m] /\ w[m] \in Int
  <2> SUFFICES ASSUME NEW m \in Reported'
               PROVE  w[m] = v[m] /\ w[m] \in Int
    OBVIOUS
  <2>1. m \in Report'
    BY DEF SessionInv, WireInv, Sound, Reported
  <2>2. m.quantity \in Int /\ Sign(orders'[m.order].side) \in {1, -1}
    BY <2>1 DEF Report, Sign
  <2>3. Sign(orders'[m.order].side) * m.quantity \in Int
    BY <2>2
  <2> QED  BY <2>3 DEF Exposures
<1>2. IsFiniteSet(Reported') /\ OfQuantity!IsFiniteSet(Reported')
  BY SumFinite DEF SessionInv, WireInv
<1>3. Exposed' = OfQuantity!Total(w, Reported')
  BY <1>2, ExposedIsTotalNext DEF ExposedTotal
<1> HIDE DEF w
<1>4. OfQuantity!Total(w, Reported') = OfQuantity!Total(v, Reported')
  BY <1>1, <1>2, OfQuantity!TotalSame
<1> QED  BY <1>1, <1>3, <1>4

LEMMA ImageSum ==
  ASSUME NEW S, IsFiniteSet(S), NEW g, NEW w, NEW v,
         \A x \in S : v[x] = w[g[x]] /\ v[x] \in Int,
         \A x, y \in S : g[x] = g[y] => x = y,
         NEW A, A = {g[x] : x \in S}
  PROVE  IsFiniteSet(A) /\ OfQuantity!Total(w, A) = OfQuantity!Total(v, S)
<1>1. OfQuantity!IsFiniteSet(S)
  BY SumFinite
<1>2. /\ OfQuantity!IsFiniteSet({g[x] : x \in S})
      /\ OfQuantity!Total(w, {g[x] : x \in S}) = OfQuantity!Total(v, S)
  BY <1>1, OfQuantity!TotalImage
<1> QED  BY <1>2, SumFinite

LEMMA Opposite ==
  ASSUME NEW a \in Int, NEW b \in Int, NEW c \in Int, b = a + c, b = b + b
  PROVE  a = 0 - c
  OBVIOUS

LEMMA SignedSum ==
  ASSUME NEW S, Counted(S), NEW s \in {1, -1}, NEW w,
         \A x \in S : w[x] = s * x.quantity
  PROVE  /\ \A x \in S : w[x] \in Int
         /\ OfQuantity!Total(w, S) = s * QuantityOf(S)
<1> DEFINE q == Quantities(S)
           z == [x \in S |-> 0]
<1>1. \A x \in S : x.quantity \in Nat
  BY DEF Counted
<1>2. \A x \in S : w[x] \in Int
  BY <1>1
<1>3. IsFiniteSet(S) /\ OfQuantity!IsFiniteSet(S)
  BY SumFinite DEF Counted
<1>4. \A x \in S : q[x] = x.quantity /\ z[x] = 0
  BY DEF Quantities
<1> HIDE DEF q, z
<1>5. OfQuantity!Total(q, S) = QuantityOf(S)
  BY <1>4, QuantityIsTotal
<1>6. CASE s = 1
  <2>1. \A x \in S : w[x] = q[x]
    BY <1>1, <1>4, <1>6
  <2>2. OfQuantity!Total(w, S) = OfQuantity!Total(q, S)
    BY <1>2, <1>3, <2>1, OfQuantity!TotalSame
  <2>3. QuantityOf(S) \in Nat
    BY QuantityNat
  <2>4. s * QuantityOf(S) = QuantityOf(S)
    BY <1>6, <2>3
  <2> QED  BY <1>2, <1>5, <2>2, <2>4
<1>7. CASE s = -1
  <2>1. \A x \in S : w[x] \in Int /\ q[x] \in Int /\ z[x] \in Int
                     /\ z[x] = w[x] + q[x] /\ z[x] = z[x] + z[x]
    BY <1>1, <1>4, <1>7
  <2>2. OfQuantity!Total(z, S) = OfQuantity!Total(w, S) + OfQuantity!Total(q, S)
    BY <1>3, <2>1, OfQuantity!TotalPlus
  <2>3. OfQuantity!Total(z, S) = OfQuantity!Total(z, S) + OfQuantity!Total(z, S)
    BY <1>3, <2>1, OfQuantity!TotalPlus
  <2>4. OfQuantity!Total(z, S) \in Int /\ OfQuantity!Total(w, S) \in Int
    BY <1>3, <2>1, OfQuantity!TotalInt
  <2>5. QuantityOf(S) \in Nat
    BY QuantityNat
  <2>6. s * QuantityOf(S) = 0 - QuantityOf(S)
    BY <1>7, <2>5
  <2> DEFINE a == OfQuantity!Total(w, S)
             b == OfQuantity!Total(z, S)
             c == QuantityOf(S)
  <2>7. a \in Int /\ b \in Int /\ c \in Int /\ b = a + c /\ b = b + b
    BY <1>5, <2>2, <2>3, <2>4, <2>5
  <2> HIDE DEF a, b, c
  <2>8. a = 0 - c
    BY <2>7, Opposite
  <2> QED  BY <1>2, <2>6, <2>8 DEF a, c
<1> QED  BY <1>6, <1>7
-----------------------------------------------------------------------------
(* The player's position *)

\* The reports of the trades of t say by how much the position moves, when
\* the fills booked to the client's orders are those of its own.
LEMMA ReportsMove ==
  ASSUME ClientInv, BookInv, position \in Int, NEW R, Rests(R),
         NEW t \in Incoming,
         t.owner = "PLAYER" => t.name \in DOMAIN orders,
         t.name \in DOMAIN orders /\ Trades(t, R) # {} =>
           /\ t.owner = "PLAYER" /\ orders[t.name].side = t.side
           /\ In(R, t.name) = {},
         \A x \in Trades(t, R) :
           /\ x.maker.owner = "PLAYER" => x.maker.name \in DOMAIN orders
           /\ x.maker.name \in DOMAIN orders =>
                /\ x.maker.owner = "PLAYER" /\ In(R, x.maker.name) = {x.maker}
                /\ orders[x.maker.name].side = x.maker.side,
         NEW v, \A m \in Reports(Fills(t, Trades(t, R))) :
                  v[m] = Sign(orders[m.order].side) * m.quantity
  PROVE  LET P == Reports(Fills(t, Trades(t, R)))
         IN /\ IsFiniteSet(P) /\ \A m \in P : v[m] \in Int
            /\ Moved(t, Trades(t, R)) = position + OfQuantity!Total(v, P)
<1> DEFINE T == Trades(t, R)
           X == {x \in T : t.name \in DOMAIN orders}
           Y == {x \in T : x.maker.name \in DOMAIN orders}
           g == [x \in T |-> [kind |-> "FILL_CLIENT", order |-> t.name,
                              quantity |-> x.quantity,
                              upto |-> orders[t.name].filled + x.through]]
           h == [x \in T |-> [kind |-> "FILL_CLIENT", order |-> x.maker.name,
                              quantity |-> x.quantity,
                              upto |-> orders[x.maker.name].filled + x.quantity]]
           A == {g[x] : x \in X}
           B == {h[x] : x \in Y}
           s == Sign(t.side)
<1>1. Reports(Fills(t, T)) = A \cup B
  <2>1. \A x \in X : g[x] = [kind |-> "FILL_CLIENT", order |-> t.name,
                             quantity |-> x.quantity,
                             upto |-> orders[t.name].filled + x.through]
    OBVIOUS
  <2>2. \A x \in Y : h[x] = [kind |-> "FILL_CLIENT", order |-> x.maker.name,
                             quantity |-> x.quantity,
                             upto |-> orders[x.maker.name].filled + x.quantity]
    OBVIOUS
  <2> DEFINE r(f) == [kind |-> "FILL_CLIENT", order |-> f.order, quantity |-> f.quantity,
                      upto |-> f.upto]
             a(x) == [order |-> t.name, quantity |-> x.quantity,
                      upto |-> orders[t.name].filled + x.through,
                      full |-> x.through = t.quantity]
             b(x) == [order |-> x.maker.name, quantity |-> x.quantity,
                      upto |-> orders[x.maker.name].filled + x.quantity,
                      full |-> x.quantity = x.maker.quantity]
  <2>3. \A x \in X : r(a(x)) = g[x]
    BY <2>1
  <2>4. \A x \in Y : r(b(x)) = h[x]
    BY <2>2
  <2>5. TakerFills(t, T) = {a(x) : x \in X} /\ MakerFills(T) = {b(x) : x \in Y}
    BY DEF TakerFills, MakerFills
  <2>6. Reports(Fills(t, T)) = {r(f) : f \in TakerFills(t, T) \cup MakerFills(T)}
    BY DEF Reports, Fills
  <2> HIDE DEF r, a, b, g, h, X, Y
  <2>7. \A m : m \in Reports(Fills(t, T)) <=> \/ \E x \in X : m = r(a(x))
                                              \/ \E x \in Y : m = r(b(x))
    BY <2>5, <2>6
  <2>8. \A m : m \in Reports(Fills(t, T)) <=> m \in A \cup B
    BY <2>3, <2>4, <2>7
  <2> QED  BY <2>8
<1>2. /\ IsFiniteSet(T)
      /\ \A x \in T : /\ x.maker \in R /\ x.maker.side # t.side
                      /\ x.quantity \in Nat \ {0} /\ x.through \in Nat \ {0}
      /\ \A x, y \in T : x.maker = y.maker => x = y
      /\ \A x, y \in T : x.through = y.through => x = y
  BY TradesAre
<1>3. IsFiniteSet(X) /\ IsFiniteSet(Y)
  BY <1>2, FS_Subset
<1>4. \A k \in DOMAIN orders : orders[k].filled \in Nat
  <2> SUFFICES ASSUME NEW k \in DOMAIN orders PROVE orders[k].filled \in Nat
    OBVIOUS
  <2>1. orders[k] \in ClientOrder
    BY DEF ClientInv
  <2> QED  BY <2>1 DEF ClientOrder
<1>5. \A x \in T : /\ g[x].order = t.name /\ g[x].quantity = x.quantity
                   /\ g[x].upto = orders[t.name].filled + x.through
                   /\ h[x].order = x.maker.name /\ h[x].quantity = x.quantity
  OBVIOUS
<1>6. X # {} => X = T /\ t.name \in DOMAIN orders
  OBVIOUS
<1>7. s \in {1, -1} /\ 0 - s \in {1, -1} /\ t.side \in Sides
      /\ \A x \in T : Sign(x.maker.side) = 0 - s
  <2>1. t.side \in Sides /\ \A x \in T : x.maker.side \in Sides /\ x.maker.side # t.side
    BY <1>2, BookIs DEF Incoming
  <2>2. CASE t.side = "BUY"
    <3>1. s = 1 /\ \A x \in T : Sign(x.maker.side) = -1
      BY <2>1, <2>2 DEF Sides, Sign
    <3> QED  BY <2>1, <3>1
  <2>3. CASE t.side = "SELL"
    <3>1. s = -1 /\ \A x \in T : Sign(x.maker.side) = 1
      BY <2>1, <2>3 DEF Sides, Sign
    <3> QED  BY <2>1, <3>1
  <2> QED  BY <2>1, <2>2, <2>3 DEF Sides
<1>8. Y = {x \in T : x.maker.owner = "PLAYER"}
  OBVIOUS
<1>9. Counted(X) /\ Counted(Y) /\ Counted(T)
  BY <1>2, <1>3 DEF Counted
<1> HIDE DEF g, h, s
<1>10. \A x, y \in X : g[x] = g[y] => x = y
  <2> SUFFICES ASSUME NEW x \in X, NEW y \in X, g[x] = g[y]
               PROVE  x = y
    OBVIOUS
  <2>1. orders[t.name].filled + x.through = orders[t.name].filled + y.through
    BY <1>5
  <2>2. orders[t.name].filled \in Nat /\ x.through \in Nat /\ y.through \in Nat
    BY <1>2, <1>4, <1>6
  <2>3. \A a, b, c \in Nat : a + b = a + c => b = c
    OBVIOUS
  <2>4. x.through = y.through
    BY <2>1, <2>2, <2>3, Zenon
  <2> QED  BY <1>2, <2>4
<1>11. \A x, y \in Y : h[x] = h[y] => x = y
  <2> SUFFICES ASSUME NEW x \in Y, NEW y \in Y, h[x] = h[y]
               PROVE  x = y
    OBVIOUS
  <2>1. x.maker.name = y.maker.name
    BY <1>5
  <2>2. In(R, x.maker.name) = {x.maker} /\ In(R, y.maker.name) = {y.maker}
    OBVIOUS
  <2>3. x.maker = y.maker
    BY <2>1, <2>2
  <2> QED  BY <1>2, <2>3
<1>12. A \cap B = {}
  <2> SUFFICES ASSUME NEW x \in X, NEW y \in Y, g[x] = h[y]
               PROVE  FALSE
    OBVIOUS
  <2>1. y.maker.name = t.name
    BY <1>5
  <2>2. y.maker \in In(R, t.name)
    BY <1>2, <2>1 DEF In
  <2> QED  BY <1>6, <2>2
<1> DEFINE vx == [x \in X |-> v[g[x]]]
           vy == [x \in Y |-> v[h[x]]]
<1>13. \A x \in X : vx[x] = s * x.quantity
  <2> SUFFICES ASSUME NEW x \in X
               PROVE  v[g[x]] = s * x.quantity
    OBVIOUS
  <2>1. g[x] \in Reports(Fills(t, T))
    BY <1>1
  <2>2. v[g[x]] = Sign(orders[g[x].order].side) * g[x].quantity
    BY <2>1
  <2> QED  BY <1>5, <1>6, <2>2 DEF s
<1>14. \A x \in Y : vy[x] = (0 - s) * x.quantity
  <2> SUFFICES ASSUME NEW x \in Y
               PROVE  v[h[x]] = (0 - s) * x.quantity
    OBVIOUS
  <2>1. h[x] \in Reports(Fills(t, T))
    BY <1>1
  <2>2. v[h[x]] = Sign(orders[h[x].order].side) * h[x].quantity
    BY <2>1
  <2>3. orders[x.maker.name].side = x.maker.side
    OBVIOUS
  <2> QED  BY <1>5, <1>7, <2>2, <2>3
<1> HIDE DEF vx, vy
<1>15. /\ \A x \in X : vx[x] \in Int
       /\ OfQuantity!Total(vx, X) = s * QuantityOf(X)
  BY <1>7, <1>9, <1>13, SignedSum
<1>16. /\ \A x \in Y : vy[x] \in Int
       /\ OfQuantity!Total(vy, Y) = (0 - s) * QuantityOf(Y)
  <2> DEFINE n == 0 - s
  <2>1. n \in {1, -1} /\ \A x \in Y : vy[x] = n * x.quantity
    BY <1>7, <1>14
  <2> HIDE DEF n
  <2>2. /\ \A x \in Y : vy[x] \in Int
        /\ OfQuantity!Total(vy, Y) = n * QuantityOf(Y)
    BY <1>9, <2>1, SignedSum
  <2> QED  BY <2>2 DEF n
<1>17. (\A x \in X : vx[x] = v[g[x]]) /\ \A x \in Y : vy[x] = v[h[x]]
  BY DEF vx, vy
<1>18. A = {g[x] : x \in X} /\ B = {h[x] : x \in Y}
  OBVIOUS
<1> HIDE DEF X, Y, A, B
<1>19. IsFiniteSet(A) /\ OfQuantity!Total(v, A) = s * QuantityOf(X)
  <2>1. IsFiniteSet(A) /\ OfQuantity!Total(v, A) = OfQuantity!Total(vx, X)
    <3>1. \A x \in X : vx[x] = v[g[x]] /\ vx[x] \in Int
      BY <1>15, <1>17
    <3>2. A = {g[x] : x \in X} /\ IsFiniteSet(X)
      BY <1>3, <1>18
    <3> QED  BY <1>10, <3>1, <3>2, ImageSum
  <2> QED  BY <1>15, <2>1
<1>20. IsFiniteSet(B) /\ OfQuantity!Total(v, B) = (0 - s) * QuantityOf(Y)
  <2>1. IsFiniteSet(B) /\ OfQuantity!Total(v, B) = OfQuantity!Total(vy, Y)
    <3>1. \A x \in Y : vy[x] = v[h[x]] /\ vy[x] \in Int
      BY <1>16, <1>17
    <3>2. B = {h[x] : x \in Y} /\ IsFiniteSet(Y)
      BY <1>3, <1>18
    <3> QED  BY <1>11, <3>1, <3>2, ImageSum
  <2> QED  BY <1>16, <2>1
<1>21. \A m \in A \cup B : v[m] \in Int
  BY <1>15, <1>16, <1>17, <1>18
<1>22. OfQuantity!Total(v, A \cup B) = OfQuantity!Total(v, A) + OfQuantity!Total(v, B)
  BY <1>12, <1>20, <1>21, <1>19, SumFinite, OfQuantity!TotalUnion
<1>23. IsFiniteSet(A \cup B)
  BY <1>20, <1>19, FS_Union
<1>24. QuantityOf(X) \in Nat /\ QuantityOf(Y) \in Nat /\ QuantityOf(T) \in Nat
  BY <1>9, QuantityNat
<1>25. (IF t.owner = "PLAYER" THEN s * QuantityOf(T) ELSE 0) = s * QuantityOf(X)
  <2>1. CASE t.owner = "PLAYER"
    BY <2>1 DEF X
  <2>2. CASE t.owner # "PLAYER"
    <3>1. X = {}
      BY <2>2 DEF X
    <3> QED  BY <1>7, <2>2, <3>1, QuantityEmpty
  <2> QED  BY <2>1, <2>2
<1>26. Moved(t, T) = position + s * QuantityOf(X) - s * QuantityOf(Y)
  BY <1>8, <1>25 DEF Moved, s
<1>27. position + s * QuantityOf(X) - s * QuantityOf(Y)
         = position + (s * QuantityOf(X) + (0 - s) * QuantityOf(Y))
  BY <1>7, <1>24
<1> QED  BY <1>1, <1>20, <1>21, <1>22, <1>23, <1>26, <1>27, <1>19

-----------------------------------------------------------------------------
(* The position by the venue's fills and the one by its reports *)

\* While no order of the client is filled in another's name, what the client
\* has been told and what is on its way to it make up the position.
PositionInv == ~Misled => position = reported + Exposed

\* What has been misled stays so.
LEMMA MisledStays ==
  ASSUME SessionInv, taken \subseteq taken', DOMAIN orders \subseteq DOMAIN orders',
         \A k \in DOMAIN orders : orders[k].filled <= orders'[k].filled
                                  /\ orders'[k].filled \in Nat,
         Misled
  PROVE  Misled'
<1>1. PICK k \in taken \cap DOMAIN orders : orders[k].filled > 0
  BY DEF Misled
<1>2. k \in DOMAIN orders /\ k \in taken' \cap DOMAIN orders'
  OBVIOUS
<1>3. orders[k].filled \in Nat
  BY <1>2, Fields DEF SessionInv, ClientOrder
<1>4. orders'[k].filled > 0
  BY <1>1, <1>2, <1>3
<1> QED  BY <1>2, <1>4 DEF Misled

\* Nothing is reported and no position moves.
LEMMA PositionStays ==
  ASSUME SessionInv, SessionInv', PositionInv, Reported' = Reported,
         UNCHANGED <<position, reported, taken>>, DOMAIN orders \subseteq DOMAIN orders',
         \A k \in DOMAIN orders : /\ orders'[k].side = orders[k].side
                                  /\ orders'[k].filled = orders[k].filled
  PROVE  PositionInv'
<1>1. ASSUME ~Misled'
      PROVE  ~Misled
  <2>1. \A k \in DOMAIN orders : orders[k].filled <= orders'[k].filled
                                 /\ orders'[k].filled \in Nat
    <3> SUFFICES ASSUME NEW k \in DOMAIN orders
                 PROVE  orders[k].filled <= orders'[k].filled /\ orders'[k].filled \in Nat
      OBVIOUS
    <3>1. orders[k].filled \in Nat /\ orders'[k].filled = orders[k].filled
      BY Fields DEF SessionInv, ClientOrder
    <3> QED  BY <3>1
  <2> QED  BY <1>1, <2>1, MisledStays
<1>2. Exposed' = Exposed
  <2> DEFINE v == [m \in Reported |-> Sign(orders[m.order].side) * m.quantity]
  <2>1. \A m \in Reported : v[m] = Sign(orders[m.order].side) * m.quantity
    OBVIOUS
  <2>2. \A m \in Reported' : v[m] = Sign(orders'[m.order].side) * m.quantity
    <3> SUFFICES ASSUME NEW m \in Reported
                 PROVE  v[m] = Sign(orders'[m.order].side) * m.quantity
      OBVIOUS
    <3>1. m.order \in DOMAIN orders
      BY DEF SessionInv, WireInv, Sound, Report, Reported
    <3> QED  BY <2>1, <3>1 DEF Sign
  <2> HIDE DEF v
  <2>3. Exposed = OfQuantity!Total(v, Reported)
    BY <2>1, ExposedSum
  <2>4. Exposed' = OfQuantity!Total(v, Reported')
    BY <2>2, ExposedSumNext
  <2> QED  BY <2>3, <2>4
<1> QED  BY <1>1, <1>2 DEF PositionInv

LEMMA ReportReceived ==
  ASSUME SessionInv, SessionInv', PositionInv, NEW m \in wire, FillClient(m)
  PROVE  PositionInv'
<1>1. /\ m.kind = "FILL_CLIENT" /\ wire' = wire \ {m}
      /\ reported' = reported + Sign(orders[m.order].side) * m.quantity
      /\ UNCHANGED <<orders, taken, position>>
  BY DEF FillClient, client, venue
<1>2. m \in Reported /\ Reported' = Reported \ {m}
  BY <1>1 DEF Reported
<1> DEFINE v == [x \in Reported |-> Sign(orders[x.order].side) * x.quantity]
<1>3. \A x \in Reported : v[x] = Sign(orders[x.order].side) * x.quantity
  OBVIOUS
<1> HIDE DEF v
<1>4. Exposed = OfQuantity!Total(v, Reported) /\ \A x \in Reported : v[x] \in Int
  BY <1>3, ExposedSum
<1>5. Exposed' = OfQuantity!Total(v, Reported') /\ \A x \in Reported' : v[x] \in Int
  BY <1>1, <1>2, <1>3, ExposedSumNext
<1>6. OfQuantity!IsFiniteSet(Reported) /\ OfQuantity!IsFiniteSet(Reported')
  BY SumFinite DEF SessionInv, WireInv
<1>7. OfQuantity!Total(v, Reported) = v[m] + OfQuantity!Total(v, Reported \ {m})
  BY <1>2, <1>4, <1>6, OfQuantity!TotalRemove
<1>8. OfQuantity!Total(v, Reported') \in Int
  BY <1>5, <1>6, OfQuantity!TotalInt
<1>9. v[m] \in Int /\ reported' = reported + v[m] /\ reported \in Int
  BY <1>1, <1>2, <1>3, <1>4 DEF SessionInv, VenueInv
<1>10. Exposed = v[m] + Exposed' /\ Exposed' \in Int
  BY <1>2, <1>4, <1>5, <1>7, <1>8
<1>11. reported' + Exposed' = reported + Exposed
  BY <1>9, <1>10
<1>12. Misled' <=> Misled
  BY <1>1 DEF Misled
<1> QED  BY <1>1, <1>11, <1>12 DEF PositionInv

\* Trades move the position by what their reports say.
LEMMA TradeReported ==
  ASSUME SessionInv, SessionInv', PositionInv, NEW t \in Incoming, NEW B, NEW L,
         Ground(B, L), Trade(t, B, L),
         taken \subseteq taken', reported' = reported, DOMAIN orders' = DOMAIN orders,
         \A k \in DOMAIN orders :
           /\ orders'[k].side = orders[k].side
           /\ orders'[k].filled = Consumed(k, Fills(t, Trades(t, B))).filled,
         Reported' = Reported \cup Reports(Fills(t, Trades(t, B))),
         \/ /\ t.owner = "PLAYER" /\ t.name \in DOMAIN orders \ taken
            /\ ledger[t.name].status = "ABSENT" /\ orders[t.name].side = t.side
         \/ t.owner = "SIMULATED" /\ (t.name \in DOMAIN orders => t.name \in taken')
  PROVE  PositionInv'
<1> SUFFICES ASSUME ~Misled'
             PROVE  position' = reported' + Exposed'
  BY DEF PositionInv
<1> DEFINE T == Trades(t, B)
           F == Fills(t, T)
           P == Reports(F)
<1>1. ClientInv /\ VenueInv /\ BookInv /\ WireInv /\ AccountInv
  BY DEF SessionInv
<1>0. /\ Rests(B)
      /\ \A j \in DOMAIN orders \ taken : Agree(orders[j], L[j], In(B, j))
      /\ \A j \in DOMAIN orders : ledger[j].status = "ABSENT" => L[j] = ledger[j]
  BY DEF Ground
<1>2. \A k \in DOMAIN orders : orders[k].filled <= Consumed(k, F).filled
                               /\ Consumed(k, F).filled \in Nat
  BY <1>0, <1>1, ConsumedGoesOn DEF Trade
<1>3. ~Misled
  <2>1. \A k \in DOMAIN orders : orders[k].filled <= orders'[k].filled
                                 /\ orders'[k].filled \in Nat
    BY <1>2
  <2> QED  BY <2>1, MisledStays
<1>4. position = reported + Exposed
  BY <1>3 DEF PositionInv
<1>5. \A f \in F : f.order \in DOMAIN orders /\ f.order \notin taken'
  <2> SUFFICES ASSUME NEW f \in F
               PROVE  f.order \in DOMAIN orders /\ f.order \notin taken'
    OBVIOUS
  <2>1. f.order \in DOMAIN orders /\ f.upto \in Nat /\ f.upto > orders[f.order].filled
    BY <1>0, <1>1, FillsAre
  <2>2. f.upto <= Consumed(f.order, F).filled
    BY <1>0, <1>1, FillsReach
  <2>3. orders[f.order].filled \in Nat
    BY <1>1, <2>1, Fields DEF ClientOrder
  <2>4. orders'[f.order].filled > 0
    BY <1>2, <2>1, <2>2, <2>3
  <2> QED  BY <2>1, <2>4 DEF Misled
<1>6. t.name \in DOMAIN orders /\ T # {} => t.name \notin taken'
  <2> SUFFICES ASSUME t.name \in DOMAIN orders, NEW x \in T
               PROVE  t.name \notin taken'
    OBVIOUS
  <2> DEFINE f == [order |-> t.name, quantity |-> x.quantity,
                   upto |-> orders[t.name].filled + x.through,
                   full |-> x.through = t.quantity]
  <2>1. f \in F
    BY DEF Fills, TakerFills
  <2>2. f.order = t.name
    OBVIOUS
  <2> QED  BY <1>5, <2>1, <2>2
<1>7. \A x \in T : x.maker.name \in DOMAIN orders => x.maker.name \notin taken
  <2> SUFFICES ASSUME NEW x \in T, x.maker.name \in DOMAIN orders
               PROVE  x.maker.name \notin taken
    OBVIOUS
  <2> DEFINE f == [order |-> x.maker.name, quantity |-> x.quantity,
                   upto |-> orders[x.maker.name].filled + x.quantity,
                   full |-> x.quantity = x.maker.quantity]
  <2>1. f \in F
    BY DEF Fills, MakerFills
  <2>2. f.order = x.maker.name
    OBVIOUS
  <2> QED  BY <1>5, <2>1, <2>2
<1>8. t.owner = "PLAYER" => t.name \in DOMAIN orders
  OBVIOUS
<1>9. t.name \in DOMAIN orders /\ T # {} =>
        /\ t.owner = "PLAYER" /\ orders[t.name].side = t.side /\ In(B, t.name) = {}
  <2> SUFFICES ASSUME t.name \in DOMAIN orders, T # {}
               PROVE  /\ t.owner = "PLAYER" /\ orders[t.name].side = t.side
                      /\ In(B, t.name) = {}
    OBVIOUS
  <2>1. /\ t.owner = "PLAYER" /\ orders[t.name].side = t.side
        /\ t.name \notin taken /\ ledger[t.name].status = "ABSENT"
    BY <1>6
  <2>2. Agree(orders[t.name], L[t.name], In(B, t.name)) /\ L[t.name].status = "ABSENT"
    BY <1>0, <2>1
  <2> QED  BY <2>1, <2>2 DEF Agree
<1>10. \A x \in T :
         /\ x.maker.owner = "PLAYER" => x.maker.name \in DOMAIN orders
         /\ x.maker.name \in DOMAIN orders =>
              /\ x.maker.owner = "PLAYER" /\ In(B, x.maker.name) = {x.maker}
              /\ orders[x.maker.name].side = x.maker.side
  <2> SUFFICES ASSUME NEW x \in T, NEW r, r = x.maker
               PROVE  /\ r.owner = "PLAYER" => r.name \in DOMAIN orders
                      /\ r.name \in DOMAIN orders =>
                           /\ r.owner = "PLAYER" /\ In(B, r.name) = {r}
                           /\ orders[r.name].side = r.side
    OBVIOUS
  <2>1. r \in B
    BY <1>0, <1>1, TradesAre
  <2>2. r.owner = "PLAYER" => r.name \in DOMAIN orders
    BY <1>0, <1>1, <2>1 DEF AccountInv, Rests
  <2>3. ASSUME r.name \in DOMAIN orders
        PROVE  /\ r.owner = "PLAYER" /\ In(B, r.name) = {r}
               /\ orders[r.name].side = r.side
    <3>1. Agree(orders[r.name], L[r.name], In(B, r.name))
      BY <1>0, <1>7, <2>3
    <3>2. r \in In(B, r.name)
      BY <2>1 DEF In
    <3>3. PICK z : In(B, r.name) = {z} /\ z.owner = "PLAYER"
                   /\ z.side = orders[r.name].side
      BY <3>1, <3>2 DEF Agree
    <3> QED  BY <3>2, <3>3
  <2> QED  BY <2>2, <2>3
<1> DEFINE v == [m \in Reported' |-> Sign(orders'[m.order].side) * m.quantity]
<1>11. \A m \in Reported' : v[m] = Sign(orders'[m.order].side) * m.quantity
  OBVIOUS
<1>12. \A m \in Reported' : v[m] = Sign(orders[m.order].side) * m.quantity
  <2> SUFFICES ASSUME NEW m \in Reported'
               PROVE  v[m] = Sign(orders[m.order].side) * m.quantity
    OBVIOUS
  <2>1. m.order \in DOMAIN orders'
    BY DEF SessionInv, WireInv, Sound, Report, Reported
  <2> QED  BY <1>11, <2>1 DEF Sign
<1> HIDE DEF v, P, F, T
<1>13. Exposed' = OfQuantity!Total(v, Reported') /\ \A m \in Reported' : v[m] \in Int
  BY <1>11, ExposedSumNext
<1>14. Exposed = OfQuantity!Total(v, Reported)
  BY <1>12, ExposedSum DEF P, F, T
<1>15. IsFiniteSet(P) /\ Moved(t, T) = position + OfQuantity!Total(v, P)
  <2>1. \A m \in P : v[m] = Sign(orders[m.order].side) * m.quantity
    BY <1>12 DEF P, F, T
  <2>2. position \in Int
    BY <1>1 DEF VenueInv
  <2> QED  BY <1>0, <1>1, <1>8, <1>9, <1>10, <2>1, <2>2, ReportsMove DEF P, F, T
<1>16. Reported \cap P = {}
  <2> SUFFICES ASSUME NEW m \in Reported, m \in P
               PROVE  FALSE
    OBVIOUS
  <2>1. m.order \in DOMAIN orders /\ m.upto \in Nat /\ m.upto <= orders[m.order].filled
    BY <1>1 DEF WireInv, Sound, Report, Reported
  <2>2. PICK f \in F : m = [kind |-> "FILL_CLIENT", order |-> f.order,
                            quantity |-> f.quantity, upto |-> f.upto]
    BY DEF P, Reports
  <2>3. f.upto > orders[f.order].filled
    BY <1>0, <1>1, FillsAre DEF F, T
  <2>4. m.order = f.order /\ m.upto = f.upto
    BY <2>2
  <2>5. orders[m.order].filled \in Nat
    BY <1>1, <2>1, Fields DEF ClientOrder
  <2> QED  BY <2>1, <2>3, <2>4, <2>5
<1>17. IsFiniteSet(Reported) /\ Reported' = Reported \cup P
  BY <1>1 DEF WireInv, P, F, T
<1>18. OfQuantity!Total(v, Reported \cup P)
         = OfQuantity!Total(v, Reported) + OfQuantity!Total(v, P)
  BY <1>13, <1>15, <1>16, <1>17, SumFinite, OfQuantity!TotalUnion
<1>19. OfQuantity!Total(v, Reported) \in Int /\ OfQuantity!Total(v, P) \in Int
  BY <1>13, <1>15, <1>17, SumFinite, OfQuantity!TotalInt
<1>20. position' = Moved(t, T) /\ reported \in Int
  BY <1>1 DEF Trade, VenueInv, T
<1> DEFINE a == OfQuantity!Total(v, Reported)
           b == OfQuantity!Total(v, P)
<1>21. Exposed = a /\ Exposed' = a + b /\ a \in Int /\ b \in Int
  BY <1>13, <1>14, <1>17, <1>18, <1>19
<1>22. position' = position + b
  BY <1>15, <1>20
<1> HIDE DEF a, b
<1>23. position = reported + a
  BY <1>4, <1>21
<1>24. position' = reported + (a + b)
  BY <1>20, <1>21, <1>22, <1>23
<1> QED  BY <1>21, <1>24

\* Every other handler, and every call of the client's, leaves the position
\* and the reports on their way alone.
LEMMA NothingTraded ==
  ASSUME SessionInv, SessionInv', PositionInv, UNCHANGED <<position, reported, taken>>,
         NEW old, NEW new, wire' = (wire \ old) \cup new,
         DOMAIN orders \subseteq DOMAIN orders',
         \A x \in old \cup new : x.kind # "FILL_CLIENT",
         \A k \in DOMAIN orders : /\ orders'[k].side = orders[k].side
                                  /\ orders'[k].filled = orders[k].filled
  PROVE  PositionInv'
<1>1. Reported' = Reported
  BY DEF Reported
<1> QED  BY <1>1, PositionStays

LEMMA RestatedOrder ==
  ASSUME SessionInv, NEW j \in DOMAIN orders, NEW e, e.side = orders[j].side,
         e.filled = orders[j].filled, orders' = [orders EXCEPT ![j] = e]
  PROVE  /\ DOMAIN orders' = DOMAIN orders
         /\ \A k \in DOMAIN orders : /\ orders'[k].side = orders[k].side
                                     /\ orders'[k].filled = orders[k].filled
<1>1. orders'[j] = e /\ \A k \in DOMAIN orders \ {j} : orders'[k] = orders[k]
  BY DEF SessionInv, ClientInv
<1>2. DOMAIN orders' = DOMAIN orders
  OBVIOUS
<1> QED  BY <1>1, <1>2

LEMMA GrownOrders ==
  ASSUME SessionInv, NEW q, orders' = Append(orders, q)
  PROVE  /\ DOMAIN orders \subseteq DOMAIN orders'
         /\ \A k \in DOMAIN orders : orders'[k] = orders[k]
<1>1. orders \in Seq(ClientOrder)
  BY DEF SessionInv, ClientInv
<1> QED  BY <1>1

LEMMA MessagePosition ==
  ASSUME SessionInv, SessionInv', PositionInv, NEW m \in wire,
         \/ NewSent(m) \/ CancelSent(m) \/ CancelGateway(m)
         \/ CancelProcess(m) /\ failed' # "LIFECYCLE"
         \/ Reject(m) /\ failed' # "LIFECYCLE"
         \/ FlowRefused(m) \/ RepriceHalfway(m) \/ Answer(m) \/ Render(m)
  PROVE  PositionInv'
<1>1. ClientInv /\ VenueInv /\ WireInv
  BY DEF SessionInv
<1>2. \A k \in DOMAIN orders : orders[k] \in ClientOrder
  BY <1>1, Fields
<1>3. Sound(m)
  BY <1>1 DEF WireInv
<1> DEFINE old == {m}
<1>4. CASE NewSent(m)
  <2> DEFINE j == m.order
             s == IF orders[j].state = "CREATED" THEN "PENDING_NEW" ELSE orders[j].state
             e == [orders[j] EXCEPT !.state = s]
             new == {[kind |-> "NEW_PROCESS", order |-> m.order]}
  <2>1. j \in DOMAIN orders
    BY <1>3, <1>4 DEF NewSent, Sound, NewKinds
  <2>2. orders' = [orders EXCEPT ![j] = e]
    BY <1>4, <2>1 DEF NewSent
  <2>3. e.side = orders[j].side /\ e.filled = orders[j].filled
    BY <1>2, <2>1 DEF ClientOrder
  <2>4. wire' = (wire \ old) \cup new /\ \A x \in old \cup new : x.kind # "FILL_CLIENT"
    BY <1>4 DEF NewSent
  <2>5. UNCHANGED <<position, reported, taken>>
    BY <1>4 DEF NewSent, venue
  <2> HIDE DEF j, e, old, new
  <2> QED  BY <2>1, <2>2, <2>3, <2>4, <2>5, RestatedOrder, NothingTraded
<1>5. CASE CancelSent(m)
  <2> DEFINE j == cancels[m.cancel].order
             s == IF orders[j].state \in Terminal THEN orders[j].state ELSE "PENDING_CANCEL"
             e == [orders[j] EXCEPT !.state = s]
             new == {[kind |-> "CANCEL_GATEWAY", cancel |-> m.cancel]}
  <2>1. j \in DOMAIN orders
    <3>1. m.cancel \in DOMAIN cancels
      BY <1>3, <1>5 DEF CancelSent, Sound, CancelKinds
    <3> QED  BY <1>1, <3>1, Fields
  <2>2. orders' = [orders EXCEPT ![j] = e]
    BY <1>5, <2>1 DEF CancelSent
  <2>3. e.side = orders[j].side /\ e.filled = orders[j].filled
    BY <1>2, <2>1 DEF ClientOrder
  <2>4. wire' = (wire \ old) \cup new /\ \A x \in old \cup new : x.kind # "FILL_CLIENT"
    BY <1>5 DEF CancelSent
  <2>5. UNCHANGED <<position, reported, taken>>
    BY <1>5 DEF CancelSent, venue
  <2> HIDE DEF j, e, old, new
  <2> QED  BY <2>1, <2>2, <2>3, <2>4, <2>5, RestatedOrder, NothingTraded
<1>6. CASE CancelGateway(m)
  <2> DEFINE new == wire' \ wire
  <2>1. wire' \subseteq (wire \ old) \cup ToVenue({m.cancel}) /\ m.kind = "CANCEL_GATEWAY"
        /\ wire \ old \subseteq wire'
    BY <1>6 DEF CancelGateway
  <2>2. \A x \in ToVenue({m.cancel}) : x = [kind |-> "CANCEL_PROCESS", cancel |-> m.cancel]
    BY DEF ToVenue
  <2>3. \A x \in ToVenue({m.cancel}) : x.kind # "FILL_CLIENT" /\ x # m
    BY <2>1, <2>2
  <2>4. wire' = (wire \ old) \cup new /\ \A x \in old \cup new : x.kind # "FILL_CLIENT"
    BY <2>1, <2>3
  <2>5. UNCHANGED <<position, reported, taken, orders>>
    BY <1>6 DEF CancelGateway, venue
  <2> HIDE DEF old, new
  <2> QED  BY <2>4, <2>5, NothingTraded
<1>7. CASE CancelProcess(m) /\ failed' # "LIFECYCLE"
  <2> DEFINE c == m.cancel
             j == cancels[c].order
             R == Published(book \ Cancellable(j))
             ack == [kind |-> "CANCEL_ACK_CLIENT", cancel |-> c]
             e == [orders[j] EXCEPT !.closed = orders[j].closed + QuantityOf(Cancellable(j)),
                                    !.state = "CANCELLED"]
  <2>1. j \in DOMAIN orders
    <3>1. c \in DOMAIN cancels
      BY <1>3, <1>7 DEF CancelProcess, Sound, CancelKinds
    <3> QED  BY <1>1, <3>1, Fields
  <2>2. \A x \in R : x.kind = "MARKET_DATA_RENDER"
    BY DEF Published
  <2>3. m.kind = "CANCEL_PROCESS" /\ UNCHANGED <<position, reported, taken>>
    BY <1>7 DEF CancelProcess, Raises, venue
  <2>4. ack.kind = "CANCEL_ACK_CLIENT"
    OBVIOUS
  <2>5. e.side = orders[j].side /\ e.filled = orders[j].filled
    BY <1>2, <2>1 DEF ClientOrder
  <2>6. \/ wire' = (wire \ old) \cup {ack} /\ orders' = orders
        \/ /\ wire' = (wire \ old) \cup R \cup {ack}
           /\ orders' = [orders EXCEPT ![j] = e]
    <3>1. CASE Cancellable(j) = {}
      BY <1>7, <3>1 DEF CancelProcess
    <3>2. CASE Cancellable(j) # {}
      BY <1>7, <2>1, <3>2 DEF CancelProcess, Raises
    <3> QED  BY <3>1, <3>2
  <2> HIDE DEF j, c, e, ack, R
  <2>7. /\ DOMAIN orders \subseteq DOMAIN orders'
        /\ \A k \in DOMAIN orders : /\ orders'[k].side = orders[k].side
                                    /\ orders'[k].filled = orders[k].filled
    <3>1. CASE orders' = orders
      BY <3>1
    <3>2. CASE orders' = [orders EXCEPT ![j] = e]
      BY <2>1, <2>5, <3>2, RestatedOrder
    <3> QED  BY <2>6, <3>1, <3>2
  <2>8. CASE wire' = (wire \ old) \cup {ack}
    <3>1. \A x \in old \cup {ack} : x.kind # "FILL_CLIENT"
      BY <2>3, <2>4
    <3> HIDE DEF old
    <3> QED  BY <2>3, <2>7, <2>8, <3>1, NothingTraded
  <2>9. CASE wire' = (wire \ old) \cup R \cup {ack}
    <3> DEFINE new == R \cup {ack}
    <3>1. wire' = (wire \ old) \cup new /\ \A x \in old \cup new : x.kind # "FILL_CLIENT"
      BY <2>2, <2>3, <2>4, <2>9
    <3> HIDE DEF old, new
    <3> QED  BY <2>3, <2>7, <3>1, NothingTraded
  <2> QED  BY <2>6, <2>8, <2>9
<1>8. CASE Reject(m) /\ failed' # "LIFECYCLE"
  <2> DEFINE j == m.order
             e == [orders[j] EXCEPT !.state = "REJECTED"]
             new == ToVenue(Released(j))
  <2>1. j \in DOMAIN orders
    BY <1>3, <1>8 DEF Reject, Sound, NewKinds
  <2>2. /\ orders' = [orders EXCEPT ![j] = e] /\ wire' = (wire \ old) \cup new
        /\ m.kind = "NEW_PROCESS" /\ UNCHANGED <<position, reported, taken>>
    BY <1>8, <2>1 DEF Reject, Raises, venue
  <2>3. e.side = orders[j].side /\ e.filled = orders[j].filled
    BY <1>2, <2>1 DEF ClientOrder
  <2>4. \A x \in new : x.kind = "CANCEL_PROCESS"
    BY DEF ToVenue
  <2>5. \A x \in old \cup new : x.kind # "FILL_CLIENT"
    BY <2>2, <2>4
  <2> HIDE DEF j, e, old, new
  <2> QED  BY <2>1, <2>2, <2>3, <2>5, RestatedOrder, NothingTraded
<1>9. CASE FlowRefused(m) \/ RepriceHalfway(m) \/ Answer(m) \/ Render(m)
  <2> DEFINE new == {}
  <2>1. wire' = (wire \ old) \cup new /\ \A x \in old \cup new : x.kind # "FILL_CLIENT"
    BY <1>9 DEF FlowRefused, RepriceHalfway, Answer, Render
  <2>2. UNCHANGED <<position, reported, taken, orders>>
    BY <1>9 DEF FlowRefused, RepriceHalfway, Answer, Render, venue, client
  <2> HIDE DEF old, new
  <2> QED  BY <2>1, <2>2, NothingTraded
<1> QED  BY <1>4, <1>5, <1>6, <1>7, <1>8, <1>9

LEMMA CommandPosition ==
  ASSUME SessionInv, SessionInv', PositionInv, Command
  PROVE  PositionInv'
<1> DEFINE old == {}
           new == wire' \ wire
<1>1. ASSUME NEW q \in Requests, RequestOrder(q)
      PROVE  PositionInv'
  <2>1. wire' = (wire \ old) \cup new /\ \A x \in old \cup new : x.kind # "FILL_CLIENT"
    BY <1>1 DEF RequestOrder
  <2>2. UNCHANGED <<position, reported, taken>> /\ orders' = Append(orders, New(q))
    BY <1>1 DEF RequestOrder
  <2> HIDE DEF old, new
  <2> QED  BY <2>1, <2>2, GrownOrders, NothingTraded
<1>2. ASSUME NEW k \in DOMAIN orders, RequestCancel(k)
      PROVE  PositionInv'
  <2>1. wire' = (wire \ old) \cup new /\ \A x \in old \cup new : x.kind # "FILL_CLIENT"
    BY <1>2 DEF RequestCancel
  <2>2. UNCHANGED <<position, reported, taken, orders>>
    BY <1>2 DEF RequestCancel, venue
  <2> HIDE DEF old, new
  <2> QED  BY <2>1, <2>2, NothingTraded
<1>3. ASSUME NEW k \in DOMAIN orders, NEW q \in Requests, RequestReplace(k, q)
      PROVE  PositionInv'
  <2>1. wire' = (wire \ old) \cup new /\ \A x \in old \cup new : x.kind # "FILL_CLIENT"
    BY <1>3 DEF RequestReplace
  <2>2. UNCHANGED <<position, reported, taken>> /\ orders' = Append(orders, New(q))
    BY <1>3 DEF RequestReplace
  <2> HIDE DEF old, new
  <2> QED  BY <2>1, <2>2, GrownOrders, NothingTraded
<1>4. CASE ScheduleFlow
  <2>1. wire' = (wire \ old) \cup new /\ \A x \in old \cup new : x.kind # "FILL_CLIENT"
    BY <1>4 DEF ScheduleFlow
  <2>2. UNCHANGED <<position, reported, taken, orders>>
    BY <1>4 DEF ScheduleFlow, venue, client
  <2> HIDE DEF old, new
  <2> QED  BY <2>1, <2>2, NothingTraded
<1> QED  BY <1>1, <1>2, <1>3, <1>4 DEF Command

LEMMA SimulatedPosition ==
  ASSUME SessionInv, SessionInv', PositionInv, NEW t \in Incoming, t.owner = "SIMULATED",
         NEW B, NEW L, Ground(B, L), Trade(t, B, L), NEW m \in wire, m.kind # "FILL_CLIENT",
         orders' = [j \in DOMAIN orders |-> Consumed(j, Fills(t, Trades(t, B)))],
         taken' = taken \cup {t.name},
         wire' = (wire \ {m}) \cup Reports(Fills(t, Trades(t, B))) \cup Published(book'),
         reported' = reported
  PROVE  PositionInv'
<1> DEFINE F == Fills(t, Trades(t, B))
<1>1. ClientInv /\ BookInv /\ Rests(B)
  BY DEF SessionInv, Ground
<1>2. \A j \in DOMAIN orders : /\ orders'[j].side = orders[j].side
                               /\ orders'[j].filled = Consumed(j, F).filled
  BY <1>1, ConsumedIs
<1>3. DOMAIN orders' = DOMAIN orders
  OBVIOUS
<1>4. taken \subseteq taken' /\ t.name \in taken'
  OBVIOUS
<1>5. \A x \in Reports(F) : x.kind = "FILL_CLIENT"
  BY DEF Reports
<1>6. \A x \in Published(book') : x.kind # "FILL_CLIENT"
  BY DEF Published
<1>7. Reported' = Reported \cup Reports(F)
  BY <1>5, <1>6 DEF Reported
<1> QED  BY <1>2, <1>3, <1>4, <1>7, TradeReported

LEMMA TradePosition ==
  ASSUME SessionInv, SessionInv', PositionInv, NEW m \in wire,
         Accept(m) \/ ExternalMarket(m) \/ ExternalReprice(m), failed' # "LIFECYCLE"
  PROVE  PositionInv'
<1>1. /\ ClientInv /\ VenueInv /\ BookInv /\ WireInv /\ AccountInv
      /\ Ground(book, ledger) /\ Rests(book)
  BY GroundAsIs DEF SessionInv, Ground
<1>2. CASE Accept(m)
  <2> DEFINE k == m.order
             t == Taker(k)
             F == Fills(t, Trades(t, book))
             o == Consumed(k, F)
             R == After(t, Trades(t, book), book)
             state == Settled(o, Recorded(t, Trades(t, book), ledger)[k].status)
             ack == [kind |-> "NEW_ACK_CLIENT", order |-> k]
  <2>1. m.kind = "NEW_PROCESS" /\ k \notin taken
    BY <1>2 DEF Accept
  <2>2. k \in DOMAIN orders /\ ledger[k].status = "ABSENT"
    BY <2>1, ProcessedToken
  <2>3. t \in Incoming /\ t.name = k /\ t.owner = "PLAYER" /\ t.side = orders[k].side
    BY <1>1, <2>2, TakerIs
  <2>4. Consumable(F) /\ MayBecome(o, state)
    BY <1>2 DEF Accept, Raises
  <2>5. /\ orders' = [j \in DOMAIN orders |->
                        IF j # k THEN Consumed(j, F) ELSE Acknowledged(o, state, t.quantity)]
        /\ Processed(t, Trades(t, book), R, ledger)
        /\ wire' = (wire \ {m}) \cup Reports(F) \cup ToVenue(HeldFor(k)) \cup {ack}
                     \cup Published(R)
        /\ UNCHANGED <<taken, reported>>
    BY <1>2, <2>4 DEF Accept, Acknowledged
  <2>6. Trade(t, book, ledger)
    BY <2>4, <2>5 DEF Trade, Replaces, Processed
  <2>7. \A j \in DOMAIN orders : LET p == Consumed(j, F)
                                 IN p \in ClientOrder /\ p.side = orders[j].side
    BY <1>1, <2>3, ConsumedIs
  <2>8. DOMAIN orders' = DOMAIN orders
        /\ (\A j \in DOMAIN orders \ {k} : orders'[j] = Consumed(j, F))
        /\ orders'[k] = Acknowledged(o, state, t.quantity)
    BY <2>2, <2>5
  <2>9. \A x \in Reports(F) : x.kind = "FILL_CLIENT"
    BY DEF Reports
  <2>10. \A x \in Published(R) \cup ToVenue(HeldFor(k)) \cup {ack} : x.kind # "FILL_CLIENT"
    BY DEF Published, ToVenue
  <2>11. Reported' = Reported \cup Reports(F)
    <3> HIDE DEF F, R, ack, k
    <3> QED  BY <2>1, <2>5, <2>9, <2>10 DEF Reported
  <2>12. o \in ClientOrder /\ o.side = orders[k].side
    BY <2>2, <2>7
  <2> HIDE DEF o, state, R, ack
  <2>13. /\ Acknowledged(o, state, t.quantity).side = o.side
         /\ Acknowledged(o, state, t.quantity).filled = o.filled
    BY <2>12 DEF Acknowledged, ClientOrder
  <2>14. \A j \in DOMAIN orders : /\ orders'[j].side = orders[j].side
                                  /\ orders'[j].filled = Consumed(j, F).filled
    BY <2>7, <2>8, <2>12, <2>13 DEF o
  <2> HIDE DEF t, k
  <2> QED  BY <1>1, <2>1, <2>2, <2>3, <2>5, <2>6, <2>8, <2>11, <2>14, TradeReported
<1>3. CASE ExternalMarket(m)
  <2>1. m.kind = "EXTERNAL_MARKET"
    BY <1>3 DEF ExternalMarket
  <2>2. PICK t \in Incoming : /\ t = Simulated(m.order, m.name) /\ t.name = m.name
                              /\ t.owner = "SIMULATED"
    BY <1>1, <2>1, Brought
  <2>3. Consumable(Fills(t, Trades(t, book)))
    BY <1>3, <2>2 DEF ExternalMarket, Raises
  <2>4. /\ orders' = [j \in DOMAIN orders |-> Consumed(j, Fills(t, Trades(t, book)))]
        /\ Processed(t, Trades(t, book), After(t, Trades(t, book), book), ledger)
        /\ taken' = taken \cup {t.name}
        /\ wire' = (wire \ {m}) \cup Reports(Fills(t, Trades(t, book)))
                     \cup Published(After(t, Trades(t, book), book))
        /\ reported' = reported
    BY <1>3, <2>2, <2>3 DEF ExternalMarket
  <2>5. Trade(t, book, ledger) /\ book' = After(t, Trades(t, book), book)
    BY <2>3, <2>4 DEF Trade, Replaces, Processed
  <2> QED  BY <1>1, <2>1, <2>2, <2>4, <2>5, SimulatedPosition
<1>4. CASE ExternalReprice(m)
  <2>1. m.kind = "EXTERNAL_REPRICE"
    BY <1>4 DEF ExternalReprice
  <2>2. PICK t \in Incoming : /\ t = Simulated(m.order, m.name) /\ t.name = m.name
                              /\ t.owner = "SIMULATED"
    BY <1>1, <2>1, Brought
  <2>3. PICK B, L : /\ B = book \ Named(m.target) /\ L = Withdrawn(Named(m.target))
                    /\ Ground(B, L)
    BY <1>1, GroundWithdrawn
  <2>4. Consumable(Fills(t, Trades(t, B)))
    BY <1>4, <2>2, <2>3 DEF ExternalReprice, Raises
  <2>5. /\ orders' = [j \in DOMAIN orders |-> Consumed(j, Fills(t, Trades(t, B)))]
        /\ Processed(t, Trades(t, B), After(t, Trades(t, B), B), L)
        /\ taken' = taken \cup {t.name}
        /\ wire' = (wire \ {m}) \cup Reports(Fills(t, Trades(t, B)))
                     \cup Published(After(t, Trades(t, B), B))
        /\ reported' = reported
    BY <1>4, <2>2, <2>3, <2>4 DEF ExternalReprice
  <2>6. Trade(t, B, L) /\ book' = After(t, Trades(t, B), B)
    BY <2>4, <2>5 DEF Trade, Replaces, Processed
  <2> QED  BY <2>1, <2>2, <2>3, <2>5, <2>6, SimulatedPosition
<1> QED  BY <1>2, <1>3, <1>4

LEMMA PositionUnchanged ==
  ASSUME SessionInv, SessionInv', PositionInv,
         UNCHANGED <<orders, wire, taken, position, reported>>
  PROVE  PositionInv'
<1> DEFINE old == {}
<1>1. wire' = (wire \ old) \cup old /\ \A x \in old \cup old : x.kind # "FILL_CLIENT"
  OBVIOUS
<1> HIDE DEF old
<1> QED  BY <1>1, NothingTraded

LEMMA PositionStep ==
  SessionInv /\ SessionInv' /\ PositionInv /\ [Next]_vars => PositionInv'
<1> SUFFICES ASSUME SessionInv, SessionInv', PositionInv, [Next]_vars
             PROVE  PositionInv'
  OBVIOUS
<1>1. CASE AdvanceTo
  <2> SUFFICES ASSUME NEW m \in wire, Dispatch(m), failed = "NONE"
               PROVE  PositionInv'
    BY <1>1 DEF AdvanceTo
  <2>1. ASSUME NEW what, Raises(what)
        PROVE  PositionInv'
    BY <2>1, PositionUnchanged DEF Raises, client, venue
  <2>2. CASE failed' = "LIFECYCLE"
    <3>1. Raises("LIFECYCLE")
      BY <2>2 DEF Dispatch, NewSent, Accept, Reject, CancelSent, CancelGateway, CancelProcess,
                  ExternalMarket, ExternalReprice, FlowRefused, RepriceHalfway, FillClient,
                  Answer, Render
    <3> QED  BY <2>1, <3>1
  <2>3. CASE failed' # "LIFECYCLE"
    BY <2>3, MessagePosition, TradePosition, ReportReceived DEF Dispatch
  <2> QED  BY <2>2, <2>3
<1>2. CASE Command
  BY <1>2, CommandPosition
<1>3. CASE UNCHANGED vars
  BY <1>3, PositionUnchanged DEF vars, client, venue
<1> QED  BY <1>1, <1>2, <1>3 DEF Next

LEMMA PositionStarts == Init => PositionInv
<1> SUFFICES ASSUME Init
             PROVE  PositionInv
  OBVIOUS
<1>1. Reported = {}
  BY DEF Reported, Init
<1>2. IsFiniteSet(Reported)
  BY <1>1, FS_EmptySet
<1>3. Exposed = OfQuantity!Total(Exposures(Reported), Reported)
  BY <1>2, ExposedIsTotal DEF ExposedTotal
<1> DEFINE w == Exposures(Reported)
<1> HIDE DEF w
<1>4. Exposed = 0
  BY <1>1, <1>3, OfQuantity!TotalEmpty DEF w
<1> QED  BY <1>4 DEF PositionInv, Init

\* An order's state and what its record and the book say: they agree, or a
\* repricing has withdrawn it.
Reconciled(o, l, N) ==
  \/ /\ l.status = "WITHDRAWN" /\ N = {}
     /\ o.state \in {"WORKING", "PARTIALLY_FILLED", "PENDING_CANCEL"}
  \/ /\ o.state \in {"FILLED", "CANCELLED", "EXPIRED", "PARTIALLY_FILLED"} =>
          l.status = o.state
     /\ o.state = "WORKING" => l.status = "ACTIVE"
     /\ o.state = "PENDING_CANCEL" => l.status \in {"ABSENT", "ACTIVE", "PARTIALLY_FILLED"}
     /\ l.status \in {"ACTIVE", "PARTIALLY_FILLED"} => QuantityOf(N) = Remaining(o)

LEMMA AccountsAgree == SessionInv /\ PositionInv => SidesAgree
<1> SUFFICES ASSUME SessionInv, PositionInv, ~Misled
             PROVE  /\ position = reported + Exposed
                    /\ \A k \in DOMAIN orders :
                         LET o == orders[k] l == ledger[k]
                         IN /\ o.filled = l.filled
                            /\ o.state \in Terminal \ {"REJECTED"} => Remaining(o) = 0
                            /\ Reconciled(o, l, Named(k))
  BY DEF SidesAgree, Exposed, Reported, Reconciled
<1>1. position = reported + Exposed
  BY DEF PositionInv
<1>2. ASSUME NEW k \in DOMAIN orders, NEW o, o = orders[k], NEW l, l = ledger[k]
      PROVE  /\ o.filled = l.filled
             /\ o.state \in Terminal \ {"REJECTED"} => Remaining(o) = 0
             /\ Reconciled(o, l, Named(k))
  <2>1. o \in ClientOrder /\ l \in VenueRecord
    BY <1>2, Fields DEF SessionInv
  <2>2. l.status \in Statuses /\ o.filled \in Nat
    BY <2>1 DEF ClientOrder, VenueRecord
  <2>3. CASE k \in taken
    <3>1. Steal(o, l, Named(k))
      BY <1>2, <2>3 DEF SessionInv, AccountInv, Stolen
    <3>2. o.filled = 0
      BY <1>2, <2>2, <2>3 DEF Misled
    <3> QED  BY <3>1, <3>2 DEF Steal, Waiting, Terminal, Reconciled
  <2>4. CASE k \notin taken
    <3>1. Agree(o, l, Named(k))
      BY <1>2, <2>4 DEF SessionInv, AccountInv, Agreed
    <3>2. l.status \in {"ACTIVE", "PARTIALLY_FILLED"} => QuantityOf(Named(k)) = Remaining(o)
      <4> SUFFICES ASSUME l.status \in {"ACTIVE", "PARTIALLY_FILLED"}
                   PROVE  QuantityOf(Named(k)) = Remaining(o)
        OBVIOUS
      <4>1. PICK r : Named(k) = {r} /\ r.quantity = Remaining(o)
        BY <3>1 DEF Agree
      <4>2. r.quantity \in Nat
        <5>1. r \in book
          BY <4>1 DEF Named
        <5>2. Rests(book)
          BY DEF Rests
        <5> QED  BY <5>1, <5>2, BookIs DEF SessionInv
      <4> QED  BY <4>1, <4>2, QuantitySingle
    <3>3. CASE l.status = "WITHDRAWN"
      BY <3>1, <3>3 DEF Agree, Terminal, Reconciled
    <3>4. CASE l.status # "WITHDRAWN"
      BY <2>2, <3>1, <3>2, <3>4 DEF Agree, Statuses, Waiting, Terminal, Reconciled
    <3> QED  BY <3>3, <3>4
  <2> QED  BY <2>3, <2>4
<1> QED  BY <1>1, <1>2

\* What assert_invariants demands, of every order and of the position, after
\* every step: the client's account of its orders and the venue's are one, and
\* the two positions differ by the reports that are on their way.
THEOREM LedgersAreReconciled == Spec => []LedgersReconcile
<1>1. Spec => []SessionInv
  BY SessionHolds
<1>2. Init => PositionInv
  BY PositionStarts
<1>3. SessionInv /\ SessionInv' /\ PositionInv /\ [Next]_vars => PositionInv'
  BY PositionStep
<1>4. Spec => []PositionInv
  BY <1>1, <1>2, <1>3, PTL DEF Spec
<1>5. SessionInv /\ PositionInv => SidesAgree
  BY AccountsAgree
<1>6. Spec => []LifecycleHolds
  BY LifecycleIsKept
<1>7. SidesAgree /\ LifecycleHolds => LedgersReconcile
  BY DEF LedgersReconcile
<1> QED  BY <1>1, <1>4, <1>5, <1>6, <1>7, PTL
=============================================================================

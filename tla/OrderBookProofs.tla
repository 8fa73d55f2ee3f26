-------------------------- MODULE OrderBookProofs --------------------------
(***************************************************************************)
(* The matching engine is sound for every set of IDs, prices, quantities   *)
(* and owners: BookSound is inductive, the step properties follow, the     *)
(* book can be saved and restored between any two calls, and it implements *)
(* the market of PriceTimeMarket.                                          *)
(***************************************************************************)
EXTENDS BookCheckpoint, SequenceTheorems, FiniteSetTheorems, TLAPS

-----------------------------------------------------------------------------
(* Data *)

\* A fill moves quantity from remaining to filled and sets the status
\* (Order.apply_fill); every other field stays.
LEMMA ApplyFillFields ==
  ASSUME NEW o \in Order, NEW q \in Nat, q <= o.remaining
  PROVE  /\ ApplyFill(o, q) \in Order
         /\ ApplyFill(o, q).type = o.type
         /\ ApplyFill(o, q).side = o.side
         /\ ApplyFill(o, q).price = o.price
         /\ ApplyFill(o, q).owner = o.owner
         /\ ApplyFill(o, q).original = o.original
         /\ ApplyFill(o, q).resting = o.resting
         /\ ApplyFill(o, q).cancelled = o.cancelled
         /\ ApplyFill(o, q).remaining = o.remaining - q
         /\ ApplyFill(o, q).filled = o.filled + q
         /\ ApplyFill(o, q).status =
              IF o.remaining = q THEN "FILLED" ELSE "PARTIALLY_FILLED"
<1>1. /\ o.remaining \in Nat /\ o.filled \in Nat
      /\ o.remaining - q \in Nat /\ o.filled + q \in Nat
  BY DEF Order
<1>2. (IF o.remaining = q THEN "FILLED" ELSE "PARTIALLY_FILLED") \in Status
  BY DEF Status
<1> HIDE DEF Status
<1> QED
  BY <1>1, <1>2 DEF ApplyFill, Order

\* Cancelling moves what remains to cancelled (Order.cancel_remainder).
LEMMA CancelRemainderFields ==
  ASSUME NEW o \in Order, NEW status \in Status
  PROVE  /\ CancelRemainder(o, status) \in Order
         /\ CancelRemainder(o, status).original = o.original
         /\ CancelRemainder(o, status).filled = o.filled
         /\ CancelRemainder(o, status).remaining = 0
         /\ CancelRemainder(o, status).cancelled = o.cancelled + o.remaining
<1>1. o.remaining \in Nat /\ o.cancelled + o.remaining \in Nat
  BY DEF Order
<1> QED
  BY <1>1 DEF CancelRemainder, Order

\* The orders a caller submits are well formed and pristine.
LEMMA SubmittedType ==
  ASSUME NEW o \in Limits \cup Markets
  PROVE  /\ o \in Order
         /\ o.original = o.remaining /\ o.filled = 0 /\ o.cancelled = 0
         /\ o.resting = 0 /\ o.status = "NEW"
         /\ o.side \in Side /\ o.owner \in Owners
         /\ \/ o.type = "MARKET"
            \/ o.type = "LIMIT" /\ o.price \in Prices
BY QuantityAssumption DEF Limits, Markets, Pristine, Order, OrderType, Status, Side

\* A command's record is well formed and holds no quantity.
LEMMA CommandType ==
  /\ AppliedCommand \in Order /\ Unseen \in Order
  /\ AppliedCommand.original = 0 /\ AppliedCommand.remaining = 0
  /\ AppliedCommand.filled = 0 /\ AppliedCommand.cancelled = 0
  /\ Unseen.original = 0 /\ Unseen.remaining = 0
  /\ Unseen.filled = 0 /\ Unseen.cancelled = 0
BY DEF AppliedCommand, Unseen, Pristine, Order, OrderType, Status, Side

\* Removing one place of a queue: the places before it stay, those behind
\* it move up by one.
LEMMA RemoveAtPlaces ==
  ASSUME NEW S, NEW q \in Seq(S), NEW i \in DOMAIN q
  PROVE  /\ RemoveAt(q, i) \in Seq(S)
         /\ Len(RemoveAt(q, i)) = Len(q) - 1
         /\ \A j \in 1 .. Len(q) - 1 :
              RemoveAt(q, i)[j] = IF j < i THEN q[j] ELSE q[j + 1]
<1> DEFINE front == SubSeq(q, 1, i - 1)
           back  == SubSeq(q, i + 1, Len(q))
<1>1. i \in 1 .. Len(q) /\ Len(q) \in Nat
  OBVIOUS
<1>2. front \in Seq(S) /\ Len(front) = i - 1 /\ \A j \in 1 .. i - 1 : front[j] = q[j]
  BY <1>1
<1>3. /\ back \in Seq(S) /\ Len(back) = Len(q) - i
      /\ \A j \in 1 .. Len(q) - i : back[j] = q[j + i]
  BY <1>1
<1> HIDE DEF front, back
<1>4. RemoveAt(q, i) = front \o back
  BY DEF RemoveAt, front, back
<1>5. /\ front \o back \in Seq(S)
      /\ Len(front \o back) = Len(q) - 1
      /\ \A j \in 1 .. Len(q) - 1 :
           (front \o back)[j] = IF j < i THEN front[j] ELSE back[j - (i - 1)]
  BY <1>1, <1>2, <1>3, SMTT(20)
<1>6. \A j \in 1 .. Len(q) - 1 :
        (front \o back)[j] = IF j < i THEN q[j] ELSE q[j + 1]
  <2> SUFFICES ASSUME NEW j \in 1 .. Len(q) - 1
               PROVE  (front \o back)[j] = IF j < i THEN q[j] ELSE q[j + 1]
    OBVIOUS
  <2>1. CASE j < i
    BY <1>1, <1>2, <1>5, <2>1
  <2>2. CASE ~(j < i)
    <3>1. j - (i - 1) \in 1 .. Len(q) - i /\ (j - (i - 1)) + i = j + 1
      BY <1>1, <2>2
    <3> QED
      BY <1>3, <1>5, <2>2, <3>1
  <2> QED
    BY <2>1, <2>2
<1> QED
  BY <1>4, <1>5, <1>6

\* An indexed side has a best price (best_bid, best_ask).
LEMMA BestExists ==
  ASSUME TypeOK, NEW s \in Side, prices[s] # {}
  PROVE  /\ Best(s) \in prices[s]
         /\ Best(s) \in Prices
         /\ \A r \in prices[s] : ~Better(s, r, Best(s))
<1>1. prices[s] \subseteq Prices /\ Prices \subseteq Nat
  BY PriceAssumption DEF TypeOK
<1>2. \E p \in prices[s] : \A r \in prices[s] : ~Better(s, r, p)
  <2>1. PICK low, high \in prices[s] : \A p \in prices[s] : low <= p /\ p <= high
    BY <1>1, PriceAssumption
  <2>4. low \in Nat /\ high \in Nat /\ \A r \in prices[s] : r \in Nat /\ low <= r /\ r <= high
    BY <1>1, <2>1
  <2>2. CASE s = "BUY"
    <3>1. \A r \in prices[s] : ~(r > high)
      BY <2>4
    <3> QED
      BY <2>1, <2>2, <3>1 DEF Better
  <2>3. CASE s = "SELL"
    <3>1. s # "BUY" /\ \A r \in prices[s] : ~(r < low)
      BY <2>4, <2>3
    <3> QED
      BY <2>1, <3>1 DEF Better
  <2> QED
    BY <2>2, <2>3 DEF Side
<1> QED
  BY <1>1, <1>2 DEF Best

-----------------------------------------------------------------------------
(* Queues *)

\* What the book requires of its queues.
Queues ==
  /\ LevelsIndexed
  /\ QueuedAreLive
  /\ ActiveAreQueued
  /\ FirstInFirst
  /\ NotCrossed

\* Two orders that stay live are served in the same order after the step.
SamePlaces ==
  \A a, b \in active \cap active' : Before(a, b) => Before(a, b)'

\* What a step may not change of a live order.
KeepsPlace(id) ==
  /\ orders'[id].type = orders[id].type
  /\ orders'[id].side = orders[id].side
  /\ orders'[id].price = orders[id].price
  /\ orders'[id].resting = orders[id].resting
  /\ orders'[id].owner = orders[id].owner

\* Queues that do not change stay sound while their orders stay live.
LEMMA QueuesKept ==
  ASSUME TypeOK, Queues, orders' \in [Ids -> Order],
         UNCHANGED <<active, queue, prices, restingSequence>>,
         \A id \in active :
           /\ KeepsPlace(id)
           /\ orders'[id].remaining > 0
           /\ orders'[id].status =
                IF orders'[id].filled = 0 THEN "ACTIVE" ELSE "PARTIALLY_FILLED"
  PROVE  Queues' /\ SamePlaces
<1>1. \A s \in Side, p \in Prices : \A i \in DOMAIN queue[s][p] :
        queue[s][p][i] \in active
  BY DEF Queues, QueuedAreLive
<1>2. LevelsIndexed'
  BY DEF Queues, LevelsIndexed
<1>3. QueuedAreLive'
  BY <1>1 DEF Queues, QueuedAreLive, KeepsPlace
<1>4. ActiveAreQueued'
  BY DEF Queues, ActiveAreQueued, KeepsPlace
<1>5. FirstInFirst'
  BY <1>1 DEF Queues, FirstInFirst, KeepsPlace
<1>6. NotCrossed'
  BY DEF Queues, NotCrossed
<1>7. SamePlaces
  BY DEF SamePlaces, Before, KeepsPlace
<1> QED
  BY <1>2, <1>3, <1>4, <1>5, <1>6, <1>7 DEF Queues

\* Where the j-th entry of a queue was before its i-th entry was removed.
Shifted(i, j) == IF j < i THEN j ELSE j + 1

\* Removing an entry keeps the order of the others.
LEMMA ShiftedOrder ==
  ASSUME NEW n \in Nat, NEW i \in 1 .. n,
         NEW j \in 1 .. n - 1, NEW k \in 1 .. n - 1, j < k
  PROVE  Shifted(i, j) \in 1 .. n /\ Shifted(i, k) \in 1 .. n
         /\ Shifted(i, j) < Shifted(i, k)
  BY DEF Shifted


\* One order leaves the place i of a level; the orders that stay live do not
\* change.
LEMMA Dequeued ==
  ASSUME TypeOK, Queues, orders' \in [Ids -> Order],
         NEW s \in Side, NEW p \in Prices, NEW i \in DOMAIN queue[s][p],
         NEW rest \in Seq(Ids), Len(rest) = Len(queue[s][p]) - 1,
         \A j \in 1 .. Len(queue[s][p]) - 1 :
           rest[j] = IF j < i THEN queue[s][p][j] ELSE queue[s][p][j + 1],
         SetLevel(s, p, rest),
         active' = active \ {queue[s][p][i]},
         \A id \in active' : orders'[id] = orders[id],
         UNCHANGED restingSequence
  PROVE  /\ Queues' /\ SamePlaces
         /\ queue' \in [Side -> [Prices -> Seq(Ids)]]
         /\ prices' \in [Side -> SUBSET Prices]
<1> DEFINE q == queue[s][p]
           gone == q[i]
<1>1. q \in Seq(Ids) /\ i \in 1 .. Len(q) /\ Len(q) \in Nat
  BY DEF TypeOK
<1>2. /\ queue' \in [Side -> [Prices -> Seq(Ids)]]
      /\ prices' \in [Side -> SUBSET Prices]
  BY DEF TypeOK, SetLevel
<1>3. /\ queue'[s][p] = rest
      /\ \A t \in Side, r \in Prices : t # s \/ r # p => queue'[t][r] = queue[t][r]
  BY DEF TypeOK, SetLevel
<1>4. /\ \A t \in Side, r \in Prices :
           r \in prices'[t] <=> r \in prices[t] /\ ~(t = s /\ r = p /\ rest = <<>>)
  BY DEF TypeOK, SetLevel
<1>5. /\ gone \in active /\ orders[gone].side = s /\ orders[gone].price = p
      /\ active' \subseteq active /\ gone \notin active'
  BY DEF Queues, QueuedAreLive
<1>8. /\ DOMAIN rest = 1 .. Len(q) - 1
      /\ \A j \in 1 .. Len(q) - 1 : rest[j] = IF j < i THEN q[j] ELSE q[j + 1]
  BY <1>1, LenProperties
<1>9. DOMAIN q = 1 .. Len(q)
  BY <1>1, LenProperties
<1>7. q # <<>>
  BY <1>1, EmptySeq
<1>6. \A j \in 1 .. Len(q) : j # i => q[j] # gone
  <2> SUFFICES ASSUME NEW j \in 1 .. Len(q), j # i, q[j] = gone PROVE FALSE
    OBVIOUS
  <2>1. orders[gone].resting \in Nat
    BY <1>1, ElementOfSeq DEF TypeOK, Order
  <2>2. \A x, y \in 1 .. Len(q) : x < y => orders[q[x]].resting < orders[q[y]].resting
    BY <1>9 DEF Queues, FirstInFirst
  <2>3. j < i \/ i < j
    BY <1>1
  <2>4. orders[gone].resting < orders[gone].resting
    BY <1>1, <2>2, <2>3
  <2> QED
    BY <2>1, <2>4
<1>10. LevelsIndexed'
  BY <1>3, <1>4, <1>7 DEF Queues, LevelsIndexed
<1>11. \A j \in DOMAIN rest : rest[j] \in active'
  <2> SUFFICES ASSUME NEW j \in DOMAIN rest PROVE rest[j] \in active'
    OBVIOUS
  <2> DEFINE k == IF j < i THEN j ELSE j + 1
  <2>1. k \in 1 .. Len(q) /\ k # i /\ rest[j] = q[k]
    BY <1>1, <1>8
  <2> QED
    BY <2>1, <1>6, <1>9 DEF Queues, QueuedAreLive
<1>12. QueuedAreLive'
  <2> SUFFICES ASSUME NEW t \in Side, NEW r \in Prices, NEW j \in DOMAIN queue'[t][r]
               PROVE  LET id == queue'[t][r][j]
                      IN /\ id \in active'
                         /\ orders'[id].type = "LIMIT"
                         /\ orders'[id].side = t /\ orders'[id].price = r
    BY DEF QueuedAreLive
  <2>1. CASE t = s /\ r = p
    <3>1. queue'[t][r][j] = rest[j] /\ j \in DOMAIN rest
      BY <2>1, <1>3
    <3>2. \E k \in 1 .. Len(q) : rest[j] = q[k]
      BY <3>1, <1>1, <1>8
    <3> QED
      BY <2>1, <3>1, <3>2, <1>9, <1>11 DEF Queues, QueuedAreLive
  <2>2. CASE ~(t = s /\ r = p)
    <3>1. queue'[t][r] = queue[t][r]
      BY <2>2, <1>3
    <3>2. queue[t][r][j] # gone
      BY <2>2, <3>1, <1>5 DEF Queues, QueuedAreLive
    <3> QED
      BY <3>1, <3>2 DEF Queues, QueuedAreLive
  <2> QED
    BY <2>1, <2>2
<1>13. \A id \in active', j \in 1 .. Len(q) :
         q[j] = id => \E k \in DOMAIN rest : rest[k] = id /\ k = IF j < i THEN j ELSE j - 1
  BY <1>1, <1>5, <1>8
<1>14. ActiveAreQueued'
  <2> SUFFICES ASSUME NEW id \in active'
               PROVE  LET o == orders[id]
                      IN \E k \in DOMAIN queue'[o.side][o.price] :
                           queue'[o.side][o.price][k] = id
    BY <1>5, Zenon DEF Queues, ActiveAreQueued
  <2>1. id \in active /\ orders[id].side \in Side /\ orders[id].price \in Prices
    BY <1>5 DEF Queues, ActiveAreQueued
  <2>2. PICK j \in DOMAIN queue[orders[id].side][orders[id].price] :
          queue[orders[id].side][orders[id].price][j] = id
    BY <2>1 DEF Queues, ActiveAreQueued
  <2>3. CASE orders[id].side = s /\ orders[id].price = p
    BY <2>2, <2>3, <1>3, <1>9, <1>13
  <2>4. CASE ~(orders[id].side = s /\ orders[id].price = p)
    BY <2>1, <2>2, <2>4, <1>3, Zenon
  <2> QED
    BY <2>3, <2>4
<1>15. FirstInFirst'
  <2> SUFFICES ASSUME NEW t \in Side, NEW r \in Prices,
                      NEW j \in DOMAIN queue'[t][r], NEW k \in DOMAIN queue'[t][r],
                      j < k
               PROVE  orders'[queue'[t][r][j]].resting < orders'[queue'[t][r][k]].resting
    BY DEF FirstInFirst
  <2>1. queue'[t][r][j] \in active' /\ queue'[t][r][k] \in active'
    BY <1>12 DEF QueuedAreLive
  <2>2. orders[queue'[t][r][j]].resting < orders[queue'[t][r][k]].resting
    <3>1. CASE t = s /\ r = p
      <4>1. /\ queue'[t][r][j] = rest[j] /\ queue'[t][r][k] = rest[k]
            /\ j \in 1 .. Len(q) - 1 /\ k \in 1 .. Len(q) - 1
        BY <3>1, <1>3, <1>8
      <4> DEFINE x == Shifted(i, j)
                 y == Shifted(i, k)
      <4>2. x \in 1 .. Len(q) /\ y \in 1 .. Len(q) /\ x < y
        BY <4>1, <1>1, ShiftedOrder
      <4>3. rest[j] = q[x] /\ rest[k] = q[y]
        BY <4>1, <1>8 DEF Shifted
      <4> HIDE DEF x, y
      <4>4. orders[q[x]].resting < orders[q[y]].resting
        BY <4>2, <1>9 DEF Queues, FirstInFirst
      <4> QED
        BY <4>1, <4>3, <4>4
    <3>2. CASE ~(t = s /\ r = p)
      BY <3>2, <1>3 DEF Queues, FirstInFirst
    <3> QED
      BY <3>1, <3>2
  <2> QED
    BY <2>1, <2>2
<1>16. NotCrossed'
  <2>1. \A t \in Side : prices'[t] \subseteq prices[t]
    BY <1>2, <1>4
  <2> QED
    BY <2>1 DEF Queues, NotCrossed, Side
<1>17. SamePlaces
  <2> SUFFICES ASSUME NEW a \in active \cap active', NEW b \in active \cap active',
                      Before(a, b)
               PROVE  Before(a, b)'
    BY DEF SamePlaces
  <2> DEFINE t == orders[a].side
             r == orders[a].price
  <2>1. t \in Side /\ r \in Prices /\ orders'[a].side = t /\ orders'[a].price = r
    BY DEF Queues, ActiveAreQueued
  <2>2. PICK x, y \in DOMAIN queue[t][r] : x < y /\ queue[t][r][x] = a /\ queue[t][r][y] = b
    BY DEF Before
  <2>3. \E x2, y2 \in DOMAIN queue'[t][r] :
          x2 < y2 /\ queue'[t][r][x2] = a /\ queue'[t][r][y2] = b
    <3>1. CASE t = s /\ r = p
      <4>1. x \in 1 .. Len(q) /\ y \in 1 .. Len(q) /\ x # i /\ y # i
        BY <2>2, <3>1, <1>5, <1>9
      <4>2. PICK x2 \in DOMAIN rest : rest[x2] = a /\ x2 = IF x < i THEN x ELSE x - 1
        BY <4>1, <2>2, <3>1, <1>13
      <4>3. PICK y2 \in DOMAIN rest : rest[y2] = b /\ y2 = IF y < i THEN y ELSE y - 1
        BY <4>1, <2>2, <3>1, <1>13
      <4>4. x2 < y2
        BY <4>1, <4>2, <4>3, <2>2, <1>1
      <4> QED
        BY <3>1, <4>2, <4>3, <4>4, <1>3
    <3>2. CASE ~(t = s /\ r = p)
      BY <2>1, <2>2, <3>2, <1>3, Zenon
    <3> QED
      BY <3>1, <3>2
  <2> QED
    BY <2>1, <2>3 DEF Before
<1> QED
  BY <1>2, <1>10, <1>12, <1>14, <1>15, <1>16, <1>17 DEF Queues

-----------------------------------------------------------------------------
(* Steps *)

\* A closed order stays closed and as it was.
ClosedKept ==
  \A id \in Ids :
    orders[id].status # "UNSEEN" /\ id \notin active /\ id # taker
    => orders'[id] = orders[id] /\ id \notin active'

\* Who is filled as a maker is preceded by nobody.
PriorityKept ==
  \A id \in active : orders'[id].filled # orders[id].filled =>
    \A x \in active : orders[x].side = orders[id].side =>
      ~Precedes(x, id, orders[id].side)

\* What every step does.
GoodStep == BookSound' /\ SamePlaces /\ ClosedKept /\ PriorityKept

\* Live orders are registered IDs, and the order in the loop is another one.
LEMMA ActiveFacts ==
  ASSUME BookSound
  PROVE  /\ active \subseteq Ids
         /\ \A id \in active : Seen(id) /\ id # taker
         /\ \A id \in Ids : orders[id] \in Order
<1>1. active \subseteq Ids /\ \A id \in Ids : orders[id] \in Order
  BY DEF BookSound, TypeOK
<1>2. \A id \in active : orders[id].status \in {"ACTIVE", "PARTIALLY_FILLED"}
  BY DEF BookSound, ActiveAreQueued
<1>3. \A id \in active : id # taker
  BY <1>1, IdAssumption DEF BookSound, TakerIsIncoming
<1> QED
  BY <1>1, <1>2, <1>3 DEF Seen

\* A step that touches neither the queues nor a live order.
LEMMA Untouched ==
  ASSUME BookSound, orders' \in [Ids -> Order],
         UNCHANGED <<active, queue, prices, restingSequence>>,
         \A x \in active : orders'[x] = orders[x]
  PROVE  Queues' /\ SamePlaces /\ PriorityKept
<1>1. \A x \in active :
         /\ KeepsPlace(x)
         /\ orders'[x].remaining > 0
         /\ orders'[x].status =
              IF orders'[x].filled = 0 THEN "ACTIVE" ELSE "PARTIALLY_FILLED"
  BY DEF BookSound, ActiveAreQueued, KeepsPlace
<1>2. Queues' /\ SamePlaces
  BY <1>1, QueuesKept DEF BookSound, Queues
<1>3. PriorityKept
  BY DEF PriorityKept
<1> QED
  BY <1>2, <1>3

\* Registering an incoming order (OrderBook._register).
LEMMA SubmitStep ==
  ASSUME BookSound, NEW id \in Ids, NEW o \in Limits \cup Markets, Submit(id, o)
  PROVE  GoodStep
<1>1. id \notin active /\ id # NoOrder
  BY ActiveFacts, IdAssumption DEF Submit
<1>2. \A x \in Ids : orders'[x] = IF x = id THEN o ELSE orders[x]
  BY DEF Submit, BookSound, TypeOK
<1>3. TypeOK' /\ orders' \in [Ids -> Order]
  BY SubmittedType DEF Submit, BookSound, TypeOK, history
<1>4. Conserved'
  <2> SUFFICES ASSUME NEW x \in Ids
               PROVE  orders'[x].original =
                        orders'[x].filled + orders'[x].cancelled + orders'[x].remaining
    BY DEF Conserved
  <2>1. CASE x # id
    BY <1>2, <2>1 DEF BookSound, Conserved
  <2>2. CASE x = id
    BY <1>2, <2>2, SubmittedType DEF Order
  <2> QED
    BY <2>1, <2>2
<1>5. UNCHANGED <<active, queue, prices, restingSequence>> /\ taker' = id
  BY DEF Submit
<1>6. \A x \in active : orders'[x] = orders[x]
  BY <1>1, <1>2, ActiveFacts
<1>7. Queues' /\ SamePlaces /\ PriorityKept
  BY <1>3, <1>5, <1>6, Untouched
<1>8. TakerIsIncoming'
  BY <1>1, <1>2, <1>5, SubmittedType DEF TakerIsIncoming
<1>9. ClosedKept
  BY <1>2, <1>5, <1>6 DEF ClosedKept, Submit, Seen
<1> QED
  BY <1>3, <1>4, <1>7, <1>8, <1>9 DEF GoodStep, BookSound, Queues

\* A market order that found no more depth (ORDER_EXPIRED).
LEMMA ExpireStep ==
  ASSUME BookSound, Expire
  PROVE  GoodStep
<1>1. taker \in Ids /\ taker \notin active /\ taker' = NoOrder
  BY DEF Expire, BookSound, TypeOK, TakerIsIncoming
<1>2. \A x \in Ids : orders'[x] = IF x = taker THEN CancelRemainder(orders[x], "EXPIRED")
                                 ELSE orders[x]
  BY DEF Expire, BookSound, TypeOK
<1>3. orders[taker] \in Order /\ "EXPIRED" \in Status
  BY <1>1, ActiveFacts DEF Status
<1>4. TypeOK' /\ orders' \in [Ids -> Order]
  BY <1>1, <1>3, CancelRemainderFields DEF Expire, BookSound, TypeOK, history
<1>5. Conserved'
  <2> SUFFICES ASSUME NEW x \in Ids
               PROVE  orders'[x].original =
                        orders'[x].filled + orders'[x].cancelled + orders'[x].remaining
    BY DEF Conserved
  <2>1. CASE x # taker
    BY <1>2, <2>1 DEF BookSound, Conserved
  <2>2. CASE x = taker
    BY <1>2, <1>3, <2>2, CancelRemainderFields DEF BookSound, Conserved, Order
  <2> QED
    BY <2>1, <2>2
<1>6. \A x \in active : orders'[x] = orders[x]
  BY <1>1, <1>2, ActiveFacts
<1>7. UNCHANGED <<active, queue, prices, restingSequence>>
  BY DEF Expire
<1>8. Queues' /\ SamePlaces /\ PriorityKept
  BY <1>4, <1>6, <1>7, Untouched
<1>9. TakerIsIncoming'
  BY <1>1 DEF TakerIsIncoming
<1>10. ClosedKept
  BY <1>2, <1>6, <1>7 DEF ClosedKept
<1> QED
  BY <1>4, <1>5, <1>8, <1>9, <1>10 DEF GoodStep, BookSound, Queues

\* The loop ends with the incoming order filled.
LEMMA FilledStep ==
  ASSUME BookSound, Filled
  PROVE  GoodStep
<1>1. /\ UNCHANGED <<orders, active, queue, prices, restingSequence, trades, fills, position>>
      /\ taker' = NoOrder
  BY DEF Filled, history
<1>2. TypeOK' /\ Conserved'
  BY <1>1 DEF BookSound, TypeOK, Conserved
<1>3. Queues' /\ SamePlaces /\ PriorityKept
  BY <1>1, <1>2, Untouched DEF TypeOK
<1>4. TakerIsIncoming'
  BY <1>1 DEF TakerIsIncoming
<1>5. ClosedKept
  BY <1>1 DEF ClosedKept
<1> QED
  BY <1>2, <1>3, <1>4, <1>5 DEF GoodStep, BookSound, Queues

\* An incoming limit order that no longer trades rests at the back of its
\* level; it crosses nothing because it is not marketable.
LEMMA RestStep ==
  ASSUME BookSound, Rest
  PROVE  GoodStep
<1> DEFINE o == orders[taker]
           s == o.side
           p == o.price
           q == queue[s][p]
           n == orders'[taker]
<1>1. /\ taker \in Ids /\ taker \notin active /\ taker' = NoOrder
      /\ o \in Order /\ o.type = "LIMIT" /\ o.remaining > 0
      /\ s \in Side /\ p \in Prices /\ q \in Seq(Ids) /\ o.owner \in Owners
      /\ o.filled # 0 => o.status = "PARTIALLY_FILLED"
  BY DEF Rest, BookSound, TypeOK, TakerIsIncoming
<1>2. /\ \A x \in Ids : x # taker => orders'[x] = orders[x]
      /\ n = [o EXCEPT !.resting = restingSequence + 1,
                       !.status = IF o.filled = 0 THEN "ACTIVE" ELSE o.status]
  BY <1>1 DEF Rest, BookSound, TypeOK
<1>3. /\ n \in Order /\ n.type = "LIMIT" /\ n.side = s /\ n.price = p
      /\ n.original = o.original /\ n.remaining = o.remaining
      /\ n.filled = o.filled /\ n.cancelled = o.cancelled /\ n.owner = o.owner
      /\ n.resting = restingSequence + 1
      /\ n.status = IF n.filled = 0 THEN "ACTIVE" ELSE "PARTIALLY_FILLED"
  <2>1. restingSequence + 1 \in Nat
    BY DEF BookSound, TypeOK
  <2>2. (IF o.filled = 0 THEN "ACTIVE" ELSE o.status) \in Status
    BY <1>1 DEF Order, Status
  <2> QED
    BY <1>1, <1>2, <2>1, <2>2, Zenon DEF Order
<1>4. /\ active' = active \cup {taker} /\ restingSequence' = restingSequence + 1
      /\ restingSequence \in Nat
  BY DEF Rest, BookSound, TypeOK
<1>5. /\ queue'[s][p] = Append(q, taker)
      /\ \A t \in Side, r \in Prices : t # s \/ r # p => queue'[t][r] = queue[t][r]
      /\ queue' \in [Side -> [Prices -> Seq(Ids)]]
  BY <1>1, SMTT(20) DEF Rest, BookSound, TypeOK
<1>6. /\ prices' \in [Side -> SUBSET Prices]
      /\ \A t \in Side : prices'[t] = IF t = s THEN prices[t] \cup {p} ELSE prices[t]
  BY <1>1 DEF Rest, BookSound, TypeOK
<1>23. orders' \in [Ids -> Order]
  BY <1>1, <1>3 DEF Rest, BookSound, TypeOK
<1>24. UNCHANGED <<trades, fills, position>>
  BY DEF Rest, history
<1>21. n = orders'[taker] /\ o = orders[taker]
  OBVIOUS
<1>22. q = queue[s][p]
  OBVIOUS
<1> HIDE DEF o, s, p, q, n
<1>7. /\ Len(q) \in Nat /\ DOMAIN q = 1 .. Len(q)
      /\ Append(q, taker) # <<>>
      /\ DOMAIN Append(q, taker) = 1 .. Len(q) + 1
      /\ \A j \in 1 .. Len(q) : Append(q, taker)[j] = q[j]
      /\ Append(q, taker)[Len(q) + 1] = taker
  <2>1. DOMAIN q = 1 .. Len(q) /\ Len(q) \in Nat
    BY <1>1, LenProperties
  <2>2. /\ Append(q, taker) \in Seq(Ids) /\ Append(q, taker) # <<>>
        /\ Len(Append(q, taker)) = Len(q) + 1
        /\ \A j \in 1 .. Len(q) : Append(q, taker)[j] = q[j]
        /\ Append(q, taker)[Len(q) + 1] = taker
    BY <1>1, AppendProperties
  <2>3. DOMAIN Append(q, taker) = 1 .. Len(q) + 1
    BY <2>2, LenProperties
  <2> QED
    BY <2>1, <2>2, <2>3
<1>8. TypeOK'
  <2>1. active' \subseteq Ids
    BY <1>1, <1>4 DEF BookSound, TypeOK
  <2> QED
    BY <1>1, <1>4, <1>5, <1>6, <1>23, <1>24, <2>1 DEF BookSound, TypeOK
<1>9. Conserved'
  <2> SUFFICES ASSUME NEW x \in Ids
               PROVE  orders'[x].original =
                        orders'[x].filled + orders'[x].cancelled + orders'[x].remaining
    BY DEF Conserved
  <2>1. orders[x].original = orders[x].filled + orders[x].cancelled + orders[x].remaining
    BY DEF BookSound, Conserved
  <2>2. CASE x = taker
    BY <2>1, <2>2, <1>3, <1>21
  <2>3. CASE x # taker
    BY <2>1, <2>3, <1>2
  <2> QED
    BY <2>2, <2>3
<1>10. LevelsIndexed'
  <2> SUFFICES ASSUME NEW t \in Side, NEW r \in Prices
               PROVE  r \in prices'[t] <=> queue'[t][r] # <<>>
    BY DEF LevelsIndexed
  <2>1. r \in prices[t] <=> queue[t][r] # <<>>
    BY DEF BookSound, LevelsIndexed
  <2>2. CASE t = s /\ r = p
    BY <2>2, <1>5, <1>6, <1>7
  <2>3. CASE t # s \/ r # p
    BY <2>1, <2>3, <1>5, <1>6
  <2> QED
    BY <2>2, <2>3
<1>11. \A t \in Side, r \in Prices : \A j \in DOMAIN queue[t][r] :
         /\ queue[t][r][j] \in active /\ queue[t][r][j] # taker
         /\ j \in DOMAIN queue'[t][r] /\ queue'[t][r][j] = queue[t][r][j]
  <2> SUFFICES ASSUME NEW t \in Side, NEW r \in Prices, NEW j \in DOMAIN queue[t][r]
               PROVE  /\ queue[t][r][j] \in active
                      /\ j \in DOMAIN queue'[t][r] /\ queue'[t][r][j] = queue[t][r][j]
    BY <1>1
  <2>1. queue[t][r][j] \in active
    BY DEF BookSound, QueuedAreLive
  <2>2. CASE t = s /\ r = p
    BY <2>1, <2>2, <1>5, <1>7, <1>22
  <2>3. CASE t # s \/ r # p
    BY <2>1, <2>3, <1>5
  <2> QED
    BY <2>2, <2>3
<1>12. \A t \in Side, r \in Prices : \A j \in DOMAIN queue'[t][r] :
         \/ j \in DOMAIN queue[t][r]
         \/ t = s /\ r = p /\ j = Len(q) + 1 /\ queue'[t][r][j] = taker
  <2> SUFFICES ASSUME NEW t \in Side, NEW r \in Prices, NEW j \in DOMAIN queue'[t][r],
                      j \notin DOMAIN queue[t][r]
               PROVE  t = s /\ r = p /\ j = Len(q) + 1 /\ queue'[t][r][j] = taker
    OBVIOUS
  <2>1. t = s /\ r = p
    BY <1>5
  <2>2. queue'[t][r] = Append(q, taker) /\ queue[t][r] = q
    BY <2>1, <1>5, <1>22
  <2>3. j \in 1 .. Len(q) + 1 /\ j \notin 1 .. Len(q)
    BY <2>2, <1>7
  <2> QED
    BY <2>1, <2>2, <2>3, <1>7
<1>13. QueuedAreLive'
  <2> SUFFICES ASSUME NEW t \in Side, NEW r \in Prices, NEW j \in DOMAIN queue'[t][r]
               PROVE  LET id == queue'[t][r][j]
                      IN /\ id \in active'
                         /\ orders'[id].type = "LIMIT"
                         /\ orders'[id].side = t /\ orders'[id].price = r
    BY DEF QueuedAreLive
  <2>1. CASE j \in DOMAIN queue[t][r]
    <3>1. queue'[t][r][j] = queue[t][r][j] /\ queue[t][r][j] \in active \ {taker}
      BY <2>1, <1>11
    <3>2. orders'[queue[t][r][j]] = orders[queue[t][r][j]]
      BY <3>1, <1>2, ActiveFacts
    <3> QED
      BY <2>1, <3>1, <3>2, <1>4 DEF BookSound, QueuedAreLive
  <2>2. CASE t = s /\ r = p /\ queue'[t][r][j] = taker
    BY <2>2, <1>3, <1>4, <1>21
  <2> QED
    BY <2>1, <2>2, <1>12
<1>14. \A x \in active : orders'[x] = orders[x]
  BY <1>1, <1>2, ActiveFacts
<1>15. ActiveAreQueued'
  <2> SUFFICES ASSUME NEW id \in active'
               PROVE  /\ orders'[id].remaining > 0
                      /\ orders'[id].resting \in 1 .. restingSequence'
                      /\ orders'[id].status = IF orders'[id].filled = 0 THEN "ACTIVE"
                                              ELSE "PARTIALLY_FILLED"
                      /\ orders'[id].side \in Side
                      /\ orders'[id].price \in Prices
                      /\ orders'[id].owner \in Owners
                      /\ \E j \in DOMAIN queue'[orders'[id].side][orders'[id].price] :
                           queue'[orders'[id].side][orders'[id].price][j] = id
    BY DEF ActiveAreQueued
  <2>1. CASE id = taker
    <3>1. Len(q) + 1 \in DOMAIN queue'[s][p] /\ queue'[s][p][Len(q) + 1] = taker
      BY <1>5, <1>7
    <3> QED
      BY <2>1, <3>1, <1>1, <1>3, <1>4, <1>21
  <2>2. CASE id \in active
    <3>1. orders'[id] = orders[id]
      BY <2>2, <1>14
    <3>2. orders[id].resting \in 1 .. restingSequence'
      BY <2>2, <1>4 DEF BookSound, ActiveAreQueued
    <3>3. PICK j \in DOMAIN queue[orders[id].side][orders[id].price] :
            queue[orders[id].side][orders[id].price][j] = id
      BY <2>2 DEF BookSound, ActiveAreQueued
    <3>4. /\ orders[id].side \in Side /\ orders[id].price \in Prices
          /\ orders[id].owner \in Owners
      BY <2>2 DEF BookSound, ActiveAreQueued
    <3> QED
      <4>1. /\ j \in DOMAIN queue'[orders'[id].side][orders'[id].price]
            /\ queue'[orders'[id].side][orders'[id].price][j] = id
        BY <3>1, <3>3, <3>4, <1>11
      <4>2. /\ orders[id].remaining > 0
            /\ orders[id].status = IF orders[id].filled = 0 THEN "ACTIVE"
                                   ELSE "PARTIALLY_FILLED"
        BY <2>2 DEF BookSound, ActiveAreQueued
      <4> QED
        BY <3>1, <3>2, <3>4, <4>1, <4>2
  <2> QED
    BY <2>1, <2>2, <1>4
<1>16. FirstInFirst'
  <2> SUFFICES ASSUME NEW t \in Side, NEW r \in Prices,
                      NEW j \in DOMAIN queue'[t][r], NEW k \in DOMAIN queue'[t][r],
                      j < k
               PROVE  orders'[queue'[t][r][j]].resting < orders'[queue'[t][r][k]].resting
    BY DEF FirstInFirst
  <2>1. j \in DOMAIN queue[t][r]
    <3> SUFFICES ASSUME j \notin DOMAIN queue[t][r] PROVE FALSE
      OBVIOUS
    <3>1. t = s /\ r = p /\ j = Len(q) + 1
      BY <1>12
    <3>2. k \in 1 .. Len(q) + 1
      BY <3>1, <1>5, <1>7
    <3> QED
      BY <3>1, <3>2, <1>7
  <2>2. /\ queue'[t][r][j] = queue[t][r][j] /\ queue[t][r][j] \in active
        /\ orders'[queue[t][r][j]] = orders[queue[t][r][j]]
    BY <2>1, <1>11, <1>14
  <2>3. CASE k \in DOMAIN queue[t][r]
    <3>1. /\ queue'[t][r][k] = queue[t][r][k]
          /\ orders'[queue[t][r][k]] = orders[queue[t][r][k]]
      BY <2>3, <1>11, <1>14
    <3> QED
      BY <2>1, <2>2, <2>3, <3>1 DEF BookSound, FirstInFirst
  <2>4. CASE queue'[t][r][k] = taker
    <3>1. orders[queue[t][r][j]].resting \in 1 .. restingSequence
      BY <2>2 DEF BookSound, ActiveAreQueued
    <3> QED
      BY <2>2, <2>4, <3>1, <1>3, <1>4, <1>21
  <2> QED
    BY <2>3, <2>4, <1>12
<1>17. NotCrossed'
  <2> DEFINE t == Opposite(s)
  <2>1. \A r \in prices[t] : Better(t, p, r)
    <3> SUFFICES ASSUME NEW r \in prices[t] PROVE Better(t, p, r)
      OBVIOUS
    <3>1. t \in Side
      BY DEF Opposite, Side
    <3>2. Best(t) \in Prices /\ ~Better(t, r, Best(t))
      BY <3>1, BestExists DEF BookSound
    <3>3. Better(t, p, Best(t))
      BY <1>1, <3>1 DEF Rest, IsMarketable, o, s, p
    <3>4. p \in Nat /\ r \in Nat /\ Best(t) \in Nat
      BY <1>1, <3>1, <3>2, PriceAssumption DEF BookSound, TypeOK
    <3> QED
      BY <3>2, <3>3, <3>4 DEF Better
  <2>2. CASE s = "BUY"
    BY <2>1, <2>2, <1>6 DEF BookSound, NotCrossed, Opposite, Better, Side
  <2>3. CASE s = "SELL"
    BY <2>1, <2>3, <1>6 DEF BookSound, NotCrossed, Opposite, Better, Side
  <2> QED
    BY <1>1, <2>2, <2>3 DEF Side
<1>18. SamePlaces
  <2> SUFFICES ASSUME NEW a \in active, NEW b \in active, Before(a, b)
               PROVE  Before(a, b)'
    BY DEF SamePlaces
  <2>1. orders[a].side \in Side /\ orders[a].price \in Prices /\ orders'[a] = orders[a]
    BY <1>14 DEF BookSound, ActiveAreQueued
  <2> QED
    BY <2>1, <1>11 DEF Before
<1>19. TakerIsIncoming'
  BY <1>1 DEF TakerIsIncoming
<1>20. ClosedKept /\ PriorityKept
  BY <1>2, <1>4, <1>14 DEF ClosedKept, PriorityKept
<1> QED
  BY <1>8, <1>9, <1>10, <1>13, <1>15, <1>16, <1>17, <1>18, <1>19, <1>20
     DEF GoodStep, BookSound

\* A live order leaves the book and new IDs D are registered with the records
\* in change (_apply_cancel, and the first leg of replace).
LEMMA Withdrawn ==
  ASSUME BookSound, taker = NoOrder, NEW target \in active,
         NEW D \in SUBSET Ids, NEW change \in [D -> Order],
         \A d \in D :
           /\ ~Seen(d)
           /\ change[d].original =
                change[d].filled + change[d].cancelled + change[d].remaining,
         Withdraw(target, change), UNCHANGED restingSequence
  PROVE  /\ orders' \in [Ids -> Order]
         /\ active' \in SUBSET Ids
         /\ queue' \in [Side -> [Prices -> Seq(Ids)]]
         /\ prices' \in [Side -> SUBSET Prices]
         /\ Conserved' /\ Queues'
         /\ SamePlaces /\ ClosedKept /\ PriorityKept
         /\ \A d \in D : orders'[d] = change[d] /\ d \notin active'
<1> DEFINE o == orders[target]
           gone == CancelRemainder(o, "CANCELLED")
<1>1. /\ target \in Ids /\ target \notin D /\ o \in Order
      /\ active' = active \ {target}
  BY ActiveFacts DEF Withdraw
<1>2. \A d \in D : d \notin active
  BY ActiveFacts
<1>3. "CANCELLED" \in Status
  BY DEF Status
<1>4. /\ gone \in Order /\ gone.original = o.original
      /\ gone.filled = o.filled /\ gone.remaining = 0
      /\ gone.cancelled = o.cancelled + o.remaining
  BY <1>1, <1>3, CancelRemainderFields
<1> HIDE DEF gone
<1>5. orders' = [id \in Ids |-> IF id = target THEN gone
                                ELSE IF id \in D THEN change[id] ELSE orders[id]]
  BY DEF Withdraw, gone
<1>6. orders' \in [Ids -> Order]
  BY <1>4, <1>5, ActiveFacts
<1>7. /\ orders'[target] = gone
      /\ \A d \in D : orders'[d] = change[d]
      /\ \A id \in Ids : id # target /\ id \notin D => orders'[id] = orders[id]
  BY <1>1, <1>5
<1>8. Conserved'
  <2> SUFFICES ASSUME NEW x \in Ids
               PROVE  orders'[x].original =
                        orders'[x].filled + orders'[x].cancelled + orders'[x].remaining
    BY DEF Conserved
  <2>1. CASE x = target
    <3>1. o.original = o.filled + o.cancelled + o.remaining
      BY <1>1 DEF BookSound, Conserved
    <3>2. o.filled \in Nat /\ o.cancelled \in Nat /\ o.remaining \in Nat
      BY <1>1 DEF Order
    <3> HIDE DEF o
    <3> QED
      BY <2>1, <3>1, <3>2, <1>4, <1>7
  <2>2. CASE x \in D
    BY <2>2, <1>7
  <2>3. CASE x # target /\ x \notin D
    BY <2>3, <1>7 DEF BookSound, Conserved
  <2> QED
    BY <2>1, <2>2, <2>3
<1>9. \A id \in active' : orders'[id] = orders[id]
  BY <1>1, <1>2, <1>7, ActiveFacts
<1>10. /\ Queues' /\ SamePlaces
       /\ queue' \in [Side -> [Prices -> Seq(Ids)]]
       /\ prices' \in [Side -> SUBSET Prices]
  <2>1. PICK i \in DOMAIN queue[o.side][o.price] :
          /\ queue[o.side][o.price][i] = target
          /\ SetLevel(o.side, o.price, RemoveAt(queue[o.side][o.price], i))
    BY DEF Withdraw, Unqueue
  <2>2. o.side \in Side /\ o.price \in Prices
    BY DEF BookSound, ActiveAreQueued
  <2> DEFINE q == queue[o.side][o.price]
             rest == RemoveAt(q, i)
  <2>3. q \in Seq(Ids) /\ i \in DOMAIN q
    BY <2>1, <2>2 DEF BookSound, TypeOK
  <2>4. /\ rest \in Seq(Ids)
        /\ Len(rest) = Len(q) - 1
        /\ \A j \in 1 .. Len(q) - 1 : rest[j] = IF j < i THEN q[j] ELSE q[j + 1]
    BY <2>3, RemoveAtPlaces
  <2>5. active' = active \ {q[i]}
    BY <2>1, <1>1
  <2>6. SetLevel(o.side, o.price, rest)
    BY <2>1
  <2>7. TypeOK /\ Queues
    BY DEF BookSound, Queues
  <2> HIDE DEF rest
  <2> QED
    BY <1>6, <1>9, <2>2, <2>3, <2>4, <2>5, <2>6, <2>7, Dequeued, Zenon
<1>11. ClosedKept
  BY <1>1, <1>2, <1>7 DEF ClosedKept, Seen
<1>12. PriorityKept
  BY <1>1, <1>2, <1>4, <1>7, ActiveFacts DEF PriorityKept
<1>13. active' \in SUBSET Ids
  BY <1>1, ActiveFacts
<1> QED
  BY <1>1, <1>2, <1>6, <1>7, <1>8, <1>10, <1>11, <1>12, <1>13

\* A command is registered and changes nothing else (CANCEL_REJECTED).
LEMMA RejectedStep ==
  ASSUME BookSound, taker = NoOrder, NEW command \in Ids, ~Seen(command),
         orders' = [orders EXCEPT ![command] = AppliedCommand],
         UNCHANGED <<active, queue, prices, restingSequence, history, taker>>
  PROVE  GoodStep
<1>1. command \notin active
  BY ActiveFacts
<1>2. /\ orders' \in [Ids -> Order]
      /\ \A x \in Ids : orders'[x] = IF x = command THEN AppliedCommand ELSE orders[x]
  BY CommandType DEF BookSound, TypeOK
<1>3. TypeOK'
  BY <1>2 DEF BookSound, TypeOK, history
<1>4. Conserved'
  <2> SUFFICES ASSUME NEW x \in Ids
               PROVE  orders'[x].original =
                        orders'[x].filled + orders'[x].cancelled + orders'[x].remaining
    BY DEF Conserved
  <2>1. CASE x # command
    BY <1>2, <2>1 DEF BookSound, Conserved
  <2>2. CASE x = command
    BY <1>2, <2>2, CommandType
  <2> QED
    BY <2>1, <2>2
<1>5. \A x \in active : orders'[x] = orders[x]
  BY <1>1, <1>2, ActiveFacts
<1>6. Queues' /\ SamePlaces /\ PriorityKept
  BY <1>2, <1>5, Untouched
<1>7. TakerIsIncoming'
  BY DEF TakerIsIncoming
<1>8. ClosedKept
  BY <1>2 DEF ClosedKept, Seen
<1> QED
  BY <1>3, <1>4, <1>6, <1>7, <1>8 DEF GoodStep, BookSound, Queues

\* cancel.
LEMMA CancelStep ==
  ASSUME BookSound, NEW target \in Ids, NEW command \in Ids, Cancel(target, command)
  PROVE  GoodStep
<1>1. CASE target \in active
  <2>1. /\ Withdraw(target, Command(command)) /\ taker = NoOrder /\ ~Seen(command)
        /\ UNCHANGED <<restingSequence, trades, fills, position, taker>>
    BY <1>1 DEF Cancel, history
  <2>2. /\ Command(command) \in [{command} -> Order]
        /\ Command(command)[command] = AppliedCommand
    BY CommandType DEF Command
  <2>3. \A d \in {command} :
          /\ ~Seen(d)
          /\ Command(command)[d].original = Command(command)[d].filled
               + Command(command)[d].cancelled + Command(command)[d].remaining
    BY <2>1, <2>2, CommandType
  <2>4. /\ orders' \in [Ids -> Order] /\ active' \in SUBSET Ids
        /\ queue' \in [Side -> [Prices -> Seq(Ids)]]
        /\ prices' \in [Side -> SUBSET Prices]
        /\ Conserved' /\ Queues' /\ SamePlaces /\ ClosedKept /\ PriorityKept
    BY <1>1, <2>1, <2>2, <2>3, Withdrawn
  <2>5. TypeOK' /\ TakerIsIncoming'
    BY <2>1, <2>4 DEF BookSound, TypeOK, TakerIsIncoming
  <2> QED
    BY <2>4, <2>5 DEF GoodStep, BookSound, Queues
<1>2. CASE target \notin active
  BY <1>2, RejectedStep DEF Cancel
<1> QED
  BY <1>1, <1>2

\* replace, the case included in which it raises after its cancel leg.
LEMMA ReplaceStep ==
  ASSUME BookSound, NEW target \in Ids, NEW command \in Ids, NEW id \in Ids,
         NEW o \in Limits, Replace(target, command, id, o)
  PROVE  GoodStep
<1>1. CASE target \notin active
  BY <1>1, RejectedStep DEF Replace
<1>2. CASE target \in active
  <2> DEFINE change == IF command = id THEN Command(command)
                       ELSE [c \in {command, id} |->
                               IF c = id THEN o ELSE AppliedCommand]
             D == {command, id}
  <2>1. /\ Withdraw(target, change) /\ taker = NoOrder
        /\ ~Seen(command) /\ ~Seen(id)
        /\ UNCHANGED <<restingSequence, trades, fills, position>>
        /\ taker' = IF command = id THEN NoOrder ELSE id
    BY <1>2 DEF Replace, history
  <2>2. /\ o \in Order /\ o.original = o.remaining /\ o.filled = 0 /\ o.cancelled = 0
        /\ o.resting = 0 /\ o.status = "NEW" /\ o.side \in Side /\ o.owner \in Owners
        /\ \/ o.type = "MARKET"
           \/ o.type = "LIMIT" /\ o.price \in Prices
    BY SubmittedType
  <2>3. /\ change \in [D -> Order]
        /\ \A d \in D : change[d] = IF d = id /\ command # id THEN o ELSE AppliedCommand
    BY <2>2, CommandType DEF Command
  <2> HIDE DEF change
  <2>4. \A d \in D :
          /\ ~Seen(d)
          /\ change[d].original = change[d].filled + change[d].cancelled + change[d].remaining
    BY <2>1, <2>2, <2>3, CommandType DEF Order
  <2>8. D \in SUBSET Ids /\ command \in D /\ id \in D
    OBVIOUS
  <2> HIDE DEF D
  <2>5. /\ orders' \in [Ids -> Order] /\ active' \in SUBSET Ids
        /\ queue' \in [Side -> [Prices -> Seq(Ids)]]
        /\ prices' \in [Side -> SUBSET Prices]
        /\ Conserved' /\ Queues' /\ SamePlaces /\ ClosedKept /\ PriorityKept
        /\ \A d \in D : orders'[d] = change[d] /\ d \notin active'
    BY <1>2, <2>1, <2>3, <2>4, <2>8, Withdrawn
  <2>6. TypeOK'
    BY <2>1, <2>5 DEF BookSound, TypeOK
  <2>7. TakerIsIncoming'
    <3>1. CASE command = id
      BY <2>1, <3>1 DEF TakerIsIncoming
    <3>2. CASE command # id
      <4>1. taker' = id /\ orders'[id] = o /\ id \notin active'
        BY <2>1, <2>3, <2>5, <2>8, <3>2
      <4> QED
        BY <4>1, <2>2 DEF TakerIsIncoming
    <3> QED
      BY <3>1, <3>2
  <2> QED
    BY <2>5, <2>6, <2>7 DEF GoodStep, BookSound, Queues
<1> QED
  BY <1>1, <1>2

\* reduce_order: what the target gives up is cancelled, its place stays.
LEMMA ReduceStep ==
  ASSUME BookSound, NEW target \in Ids, NEW command \in Ids, NEW total \in Nat,
         Reduce(target, total, command)
  PROVE  GoodStep
<1> DEFINE o == orders[target]
           reduction == o.filled + o.remaining - total
           n == [o EXCEPT !.remaining = o.remaining - reduction,
                          !.cancelled = o.cancelled + reduction]
<1>1. /\ taker = NoOrder /\ target \in active /\ ~Seen(command)
      /\ o.filled < total /\ total < o.filled + o.remaining
      /\ orders' = [orders EXCEPT ![target] = n, ![command] = AppliedCommand]
      /\ UNCHANGED <<active, queue, prices, restingSequence, trades, fills,
                     position, taker>>
  BY DEF Reduce, history
<1>2. command \notin active /\ command # target
  BY <1>1, ActiveFacts
<1>3. /\ o \in Order /\ o.filled \in Nat /\ o.remaining \in Nat /\ o.cancelled \in Nat
      /\ o.original = o.filled + o.cancelled + o.remaining
  BY ActiveFacts DEF BookSound, Conserved, Order
<1>4. /\ reduction \in Nat /\ o.remaining - reduction = total - o.filled
      /\ o.remaining - reduction \in Nat /\ o.remaining - reduction > 0
      /\ o.cancelled + reduction \in Nat
  <2> HIDE DEF o
  <2> QED
    BY <1>1, <1>3
<1>5. /\ n \in Order /\ n.type = o.type /\ n.side = o.side /\ n.price = o.price
      /\ n.owner = o.owner
      /\ n.resting = o.resting /\ n.status = o.status /\ n.filled = o.filled
      /\ n.original = o.original /\ n.remaining = o.remaining - reduction
      /\ n.cancelled = o.cancelled + reduction
  <2> HIDE DEF reduction
  <2> QED
    BY <1>3, <1>4 DEF Order
<1> HIDE DEF n
<1>6. /\ orders' \in [Ids -> Order]
      /\ orders'[target] = n /\ orders'[command] = AppliedCommand
      /\ \A x \in Ids : x # target /\ x # command => orders'[x] = orders[x]
  BY <1>1, <1>2, <1>5, CommandType DEF BookSound, TypeOK
<1>7. TypeOK'
  BY <1>1, <1>6 DEF BookSound, TypeOK
<1>8. Conserved'
  <2> SUFFICES ASSUME NEW x \in Ids
               PROVE  orders'[x].original =
                        orders'[x].filled + orders'[x].cancelled + orders'[x].remaining
    BY DEF Conserved
  <2>1. CASE x = target
    <3> HIDE DEF o, reduction
    <3>1. n.original = n.filled + n.cancelled + n.remaining
      BY <1>3, <1>4, <1>5
    <3> QED
      BY <2>1, <3>1, <1>6
  <2>2. CASE x = command
    BY <2>2, <1>6, CommandType
  <2>3. CASE x # target /\ x # command
    BY <2>3, <1>6 DEF BookSound, Conserved
  <2> QED
    BY <2>1, <2>2, <2>3
<1>9. \A x \in active : orders'[x] = IF x = target THEN n ELSE orders[x]
  BY <1>2, <1>6, ActiveFacts
<1>10. Queues' /\ SamePlaces
  <2>1. \A x \in active :
           /\ KeepsPlace(x)
           /\ orders'[x].remaining > 0
           /\ orders'[x].status =
                IF orders'[x].filled = 0 THEN "ACTIVE" ELSE "PARTIALLY_FILLED"
    BY <1>4, <1>5, <1>9 DEF BookSound, ActiveAreQueued, KeepsPlace
  <2> QED
    BY <1>1, <1>6, <2>1, QueuesKept DEF BookSound, Queues
<1>11. TakerIsIncoming'
  BY <1>1 DEF TakerIsIncoming
<1>12. ClosedKept /\ PriorityKept
  BY <1>1, <1>5, <1>6, <1>9, Zenon DEF ClosedKept, PriorityKept, Seen
<1> QED
  BY <1>7, <1>8, <1>10, <1>11, <1>12 DEF GoodStep, BookSound, Queues

\* One trade: the maker is the first order of the best opposite level, so
\* nobody precedes it; it leaves the book exactly when it is filled.
LEMMA MatchStep ==
  ASSUME BookSound, Match
  PROVE  GoodStep
<1> DEFINE o     == orders[taker]
           s     == Opposite(o.side)
           level == queue[s][Best(s)]
           maker == Head(level)
           m     == orders[maker]
           q     == IF o.remaining < m.remaining THEN o.remaining ELSE m.remaining
           t     == [maker |-> maker, taker |-> taker, price |-> m.price,
                     quantity |-> q, side |-> o.side]
           made  == FillOf(maker, t, "maker")
           taken == FillOf(taker, t, "taker")
<1>1. /\ taker \in Ids /\ taker \notin active /\ taker' = taker /\ taker # NoOrder
      /\ o \in Order /\ o.remaining > 0 /\ o.side \in Side /\ s \in Side
      /\ prices[s] # {}
  BY Zenon DEF Match, BookSound, TypeOK, TakerIsIncoming, IsMarketable, Opposite, Side
<1>2. /\ orders' = [orders EXCEPT ![maker] = ApplyFill(m, q), ![taker] = ApplyFill(o, q)]
      /\ trades' = Append(trades, t)
      /\ fills' = fills \o <<made, taken>>
      /\ position' = Applied(Applied(position, made), taken)
      /\ \/ /\ m.remaining = q
            /\ active' = active \ {maker}
            /\ SetLevel(s, Best(s), Tail(level))
         \/ m.remaining # q /\ UNCHANGED <<active, queue, prices>>
      /\ UNCHANGED restingSequence
  BY Zenon DEF Match
<1>3. /\ Best(s) \in prices[s] /\ Best(s) \in Prices
      /\ \A r \in prices[s] : ~Better(s, r, Best(s))
  BY <1>1, BestExists DEF BookSound
<1> HIDE DEF s
<1>4. level \in Seq(Ids) /\ level # <<>> /\ Len(level) \in Nat \ {0}
  BY <1>1, <1>3, EmptySeq DEF BookSound, TypeOK, LevelsIndexed
<1>5. /\ maker = level[1] /\ 1 \in DOMAIN level /\ DOMAIN level = 1 .. Len(level)
      /\ Tail(level) \in Seq(Ids) /\ Len(Tail(level)) = Len(level) - 1
      /\ \A j \in 1 .. Len(level) - 1 : Tail(level)[j] = level[j + 1]
  <2>1. DOMAIN level = 1 .. Len(level)
    BY <1>4, LenProperties
  <2>2. /\ Tail(level) \in Seq(Ids) /\ Len(Tail(level)) = Len(level) - 1
        /\ \A j \in 1 .. Len(Tail(level)) : Tail(level)[j] = level[j + 1]
    BY <1>4, HeadTailProperties
  <2> QED
    BY <1>4, <2>1, <2>2
<1>6. /\ maker \in active /\ maker \in Ids /\ maker # taker
      /\ m.type = "LIMIT" /\ m.side = s /\ m.price = Best(s) /\ m \in Order
      /\ m.remaining > 0
  <2>1. level[1] \in active /\ orders[level[1]].type = "LIMIT"
        /\ orders[level[1]].side = s /\ orders[level[1]].price = Best(s)
    BY <1>1, <1>3, <1>5 DEF BookSound, QueuedAreLive
  <2> QED
    BY <2>1, <1>1, <1>5, ActiveFacts DEF BookSound, ActiveAreQueued
<1>7. /\ q \in Nat /\ q > 0 /\ q <= o.remaining /\ q <= m.remaining
      /\ o.remaining \in Nat /\ m.remaining \in Nat
      /\ o.filled \in Nat /\ o.cancelled \in Nat /\ m.filled \in Nat /\ m.cancelled \in Nat
  BY <1>1, <1>6 DEF Order
<1> HIDE DEF o, m, q, maker, level
<1> DEFINE om == ApplyFill(m, q)
           ot == ApplyFill(o, q)
<1>8. /\ om \in Order /\ om.type = m.type /\ om.side = m.side /\ om.price = m.price
      /\ om.owner = m.owner /\ om.original = m.original /\ om.resting = m.resting
      /\ om.cancelled = m.cancelled /\ om.remaining = m.remaining - q
      /\ om.filled = m.filled + q
      /\ om.status = IF m.remaining = q THEN "FILLED" ELSE "PARTIALLY_FILLED"
  BY <1>6, <1>7, ApplyFillFields
<1>9. /\ ot \in Order /\ ot.type = o.type /\ ot.side = o.side /\ ot.price = o.price
      /\ ot.owner = o.owner /\ ot.original = o.original /\ ot.resting = o.resting
      /\ ot.cancelled = o.cancelled /\ ot.remaining = o.remaining - q
      /\ ot.filled = o.filled + q
      /\ ot.status = IF o.remaining = q THEN "FILLED" ELSE "PARTIALLY_FILLED"
  BY <1>1, <1>7, ApplyFillFields
<1>10. /\ orders' \in [Ids -> Order]
       /\ orders'[maker] = om /\ orders'[taker] = ot
       /\ \A x \in Ids : x # maker /\ x # taker => orders'[x] = orders[x]
  BY <1>1, <1>2, <1>6, <1>8, <1>9 DEF BookSound, TypeOK
<1> HIDE DEF om, ot
<1>11. o = orders[taker] /\ m = orders[maker] /\ level = queue[s][Best(s)]
  BY DEF o, m, level
<1>12. Conserved'
  <2> SUFFICES ASSUME NEW x \in Ids
               PROVE  orders'[x].original =
                        orders'[x].filled + orders'[x].cancelled + orders'[x].remaining
    BY DEF Conserved
  <2>1. orders[x].original = orders[x].filled + orders[x].cancelled + orders[x].remaining
    BY DEF BookSound, Conserved
  <2>2. CASE x = maker
    BY <2>1, <2>2, <1>7, <1>8, <1>10, <1>11
  <2>3. CASE x = taker
    BY <2>1, <2>3, <1>7, <1>9, <1>10, <1>11
  <2>4. CASE x # maker /\ x # taker
    BY <2>1, <2>4, <1>10
  <2> QED
    BY <2>2, <2>3, <2>4
<1>13. /\ trades' \in Seq(Trade) /\ fills' \in Seq(Fill)
       /\ position' \in [bought : Nat, sold : Nat, net : Int]
  <2>1. o.owner \in Owners
    BY <1>1, <1>11 DEF BookSound, TakerIsIncoming
  <2>2. m.owner \in Owners
    BY <1>6, <1>11 DEF BookSound, ActiveAreQueued
  <2>3. t \in Trade /\ t.quantity = q
    BY <1>1, <1>3, <1>6, <1>7 DEF Trade
  <2> HIDE DEF t
  <2>4. /\ made \in Fill /\ made.quantity = q
        /\ taken \in Fill /\ taken.quantity = q
    BY <1>1, <1>6, <1>7, <1>11, <2>1, <2>2, <2>3 DEF FillOf, Fill
  <2> HIDE DEF made, taken
  <2>5. \A pos \in [bought : Nat, sold : Nat, net : Int], f \in Fill :
          Applied(pos, f) \in [bought : Nat, sold : Nat, net : Int]
    <3> SUFFICES ASSUME NEW pos \in [bought : Nat, sold : Nat, net : Int],
                        NEW f \in Fill
                 PROVE  Applied(pos, f) \in [bought : Nat, sold : Nat, net : Int]
      OBVIOUS
    <3>1. /\ pos.bought + f.quantity \in Nat /\ pos.sold + f.quantity \in Nat
          /\ pos.net + f.quantity \in Int /\ pos.net - f.quantity \in Int
      BY DEF Fill
    <3>2. CASE f.owner # "PLAYER"
      BY <3>2 DEF Applied
    <3>3. CASE f.owner = "PLAYER" /\ f.side = "BUY"
      BY <3>1, <3>3 DEF Applied
    <3>4. CASE f.owner = "PLAYER" /\ f.side # "BUY"
      BY <3>1, <3>4 DEF Applied
    <3> QED
      BY <3>2, <3>3, <3>4
  <2>6. position' \in [bought : Nat, sold : Nat, net : Int]
    BY <1>2, <2>4, <2>5 DEF BookSound, TypeOK
  <2>7. trades' \in Seq(Trade)
    BY <1>2, <2>3, AppendProperties DEF BookSound, TypeOK
  <2>8. fills' \in Seq(Fill)
    BY <1>2, <2>4 DEF BookSound, TypeOK
  <2> QED
    BY <2>6, <2>7, <2>8
<1>14. \A x \in active : x # maker => orders'[x] = orders[x]
  BY <1>1, <1>10, ActiveFacts
<1>15. /\ Queues' /\ SamePlaces /\ active' \subseteq active
       /\ active' \in SUBSET Ids
       /\ queue' \in [Side -> [Prices -> Seq(Ids)]]
       /\ prices' \in [Side -> SUBSET Prices]
  <2>1. TypeOK /\ Queues /\ active \subseteq Ids
    BY ActiveFacts DEF BookSound, Queues
  <2>2. CASE m.remaining = q
    <3>1. /\ active' = active \ {level[1]}
          /\ SetLevel(s, Best(s), Tail(level))
      BY <1>2, <1>5, <2>2
    <3>2. \A x \in active' : orders'[x] = orders[x]
      BY <3>1, <1>5, <1>14
    <3>3. \A j \in 1 .. Len(level) - 1 :
            Tail(level)[j] = IF j < 1 THEN level[j] ELSE level[j + 1]
      BY <1>5
    <3> DEFINE rest == Tail(level)
    <3>4. rest \in Seq(Ids) /\ Len(rest) = Len(level) - 1 /\ SetLevel(s, Best(s), rest)
          /\ \A j \in 1 .. Len(level) - 1 :
               rest[j] = IF j < 1 THEN level[j] ELSE level[j + 1]
      BY <1>5, <3>1, <3>3
    <3> HIDE DEF rest
    <3>5. /\ Queues' /\ SamePlaces
          /\ queue' \in [Side -> [Prices -> Seq(Ids)]]
          /\ prices' \in [Side -> SUBSET Prices]
      BY <1>1, <1>2, <1>3, <1>5, <1>10, <1>11, <2>1, <3>1, <3>2, <3>4, Dequeued, Zenon
    <3> QED
      BY <3>1, <3>5, <2>1
  <2>3. CASE m.remaining # q
    <3>1. UNCHANGED <<active, queue, prices, restingSequence>>
      BY <1>2, <2>3
    <3>2. om.remaining > 0 /\ om.status = "PARTIALLY_FILLED" /\ om.filled # 0
      BY <1>7, <1>8, <2>3
    <3>3. \A x \in active :
            /\ KeepsPlace(x)
            /\ orders'[x].remaining > 0
            /\ orders'[x].status =
                 IF orders'[x].filled = 0 THEN "ACTIVE" ELSE "PARTIALLY_FILLED"
      <4> SUFFICES ASSUME NEW x \in active
                   PROVE  /\ KeepsPlace(x)
                          /\ orders'[x].remaining > 0
                          /\ orders'[x].status =
                               IF orders'[x].filled = 0 THEN "ACTIVE"
                               ELSE "PARTIALLY_FILLED"
        OBVIOUS
      <4>1. CASE x = maker
        BY <4>1, <3>2, <1>8, <1>10, <1>11 DEF KeepsPlace
      <4>2. CASE x # maker
        BY <4>2, <1>14 DEF KeepsPlace, BookSound, ActiveAreQueued
      <4> QED
        BY <4>1, <4>2
    <3>4. Queues' /\ SamePlaces
      BY <3>1, <3>3, <1>10, <2>1, QueuesKept
    <3> QED
      BY <3>1, <3>4, <2>1 DEF TypeOK
  <2> QED
    BY <2>2, <2>3
<1>16. TypeOK'
  BY <1>1, <1>2, <1>10, <1>13, <1>15 DEF BookSound, TypeOK
<1>17. TakerIsIncoming'
  <2>1. ot.status = IF ot.filled = 0 THEN "NEW"
                    ELSE IF ot.remaining = 0 THEN "FILLED" ELSE "PARTIALLY_FILLED"
    BY <1>7, <1>9
  <2>2. /\ o.resting = 0 /\ o.side \in Side /\ o.owner \in Owners
        /\ \/ o.type = "MARKET"
           \/ o.type = "LIMIT" /\ o.price \in Prices
    BY <1>1, <1>11 DEF BookSound, TakerIsIncoming
  <2>3. taker' \notin active' /\ orders'[taker'] = ot
    BY <1>1, <1>10, <1>15
  <2> QED
    BY <2>1, <2>2, <2>3, <1>9 DEF TakerIsIncoming
<1>18. ClosedKept
  BY <1>6, <1>10, <1>15 DEF ClosedKept
<1>19. PriorityKept
  <2> SUFFICES ASSUME NEW x \in active, orders[x].side = s,
                      Precedes(x, maker, s)
               PROVE  FALSE
    BY <1>6, <1>11, <1>14 DEF PriorityKept
  <2> DEFINE r == orders[x].price
  <2>1. PICK j \in DOMAIN queue[s][r] : queue[s][r][j] = x
    BY DEF BookSound, ActiveAreQueued
  <2>2. r \in Prices /\ queue[s][r] \in Seq(Ids)
    BY <1>1 DEF BookSound, ActiveAreQueued, TypeOK
  <2>3. j \in 1 .. Len(queue[s][r]) /\ Len(queue[s][r]) \in Nat
    BY <2>1, <2>2, LenProperties
  <2>4. r \in prices[s]
    BY <1>1, <2>2, <2>3 DEF BookSound, LevelsIndexed
  <2>5. ~Better(s, r, Best(s))
    BY <1>3, <2>4
  <2>6. r = Best(s) /\ orders[x].resting < m.resting
    BY <1>6, <1>11, <2>5 DEF Precedes
  <2>7. orders[x].resting \in Nat /\ m.resting \in Nat
    BY <1>6, ActiveFacts DEF Order
  <2>8. j = 1 \/ 1 < j
    BY <2>3
  <2>9. ~(1 < j)
    <3>1. 1 < j => m.resting < orders[x].resting
      BY <1>1, <1>3, <1>5, <1>11, <2>1, <2>6 DEF BookSound, FirstInFirst
    <3> QED
      BY <3>1, <2>6, <2>7
  <2>10. x = maker
    BY <1>5, <1>11, <2>1, <2>6, <2>8, <2>9
  <2> QED
    BY <2>6, <2>7, <2>10, <1>11
<1> QED
  BY <1>12, <1>15, <1>16, <1>17, <1>18, <1>19 DEF GoodStep, BookSound, Queues

-----------------------------------------------------------------------------
(* Theorems *)

\* An empty book is sound.
LEMMA EmptyBookSound == Init => BookSound
<1> SUFFICES ASSUME Init PROVE BookSound
  OBVIOUS
<1>1. TypeOK
  BY CommandType DEF Init, TypeOK
<1>2. Conserved
  BY CommandType DEF Init, Conserved
<1>3. Queues
  BY DEF Init, Queues, LevelsIndexed, QueuedAreLive, ActiveAreQueued,
         FirstInFirst, NotCrossed, Side
<1>4. TakerIsIncoming
  BY DEF Init, TakerIsIncoming
<1> QED
  BY <1>1, <1>2, <1>3, <1>4 DEF BookSound, Queues

\* Every step of every call, and of its matching loop, is a good one.
LEMMA NextIsGood ==
  ASSUME BookSound, [Next]_vars
  PROVE  GoodStep
<1>1. ASSUME NEW id \in Ids, NEW o \in Limits \cup Markets, Submit(id, o)
      PROVE  GoodStep
  BY <1>1, SubmitStep
<1>2. CASE Match
  BY <1>2, MatchStep
<1>3. CASE Rest
  BY <1>3, RestStep
<1>4. CASE Expire
  BY <1>4, ExpireStep
<1>5. CASE Filled
  BY <1>5, FilledStep
<1>6. ASSUME NEW target \in Ids, NEW command \in Ids, Cancel(target, command)
      PROVE  GoodStep
  BY <1>6, CancelStep
<1>7. ASSUME NEW target \in Ids, NEW command \in Ids, NEW id \in Ids,
             NEW o \in Limits, Replace(target, command, id, o)
      PROVE  GoodStep
  BY <1>7, ReplaceStep
<1>8. ASSUME NEW target \in Ids, NEW command \in Ids, NEW q \in Quantities,
             NEW total \in 1 .. q, Reduce(target, total, command)
      PROVE  GoodStep
  <2>1. total \in Nat
    BY QuantityAssumption
  <2> QED
    BY <1>8, <2>1, ReduceStep
<1>9. CASE UNCHANGED vars
  <2>1. UNCHANGED <<orders, active, queue, prices, restingSequence, trades, fills,
                    position, taker>>
    BY <1>9 DEF vars
  <2>2. TypeOK' /\ Conserved' /\ TakerIsIncoming' /\ ClosedKept
    BY <2>1 DEF BookSound, TypeOK, Conserved, TakerIsIncoming, ClosedKept
  <2>3. orders' \in [Ids -> Order]
    BY <2>2 DEF TypeOK
  <2>4. Queues' /\ SamePlaces /\ PriorityKept
    BY <2>1, <2>3, Untouched
  <2> QED
    BY <2>2, <2>4 DEF GoodStep, BookSound, Queues
<1> QED
  <2>1. Free \subseteq Ids /\ active \subseteq Ids
    BY ActiveFacts DEF Free
  <2> QED
    BY <1>1, <1>2, <1>3, <1>4, <1>5, <1>6, <1>7, <1>8, <1>9, <2>1 DEF Next, Loop

\* Every reachable book, and every state of the matching loop, is sound: no
\* quantity is lost, queues are in order of arrival and hold exactly the live
\* orders, levels are indexed while they have orders, and the book is never
\* crossed (assert_order_book_invariants never raises).
THEOREM Soundness == Spec => []BookSound
<1>1. BookSound /\ [Next]_vars => BookSound'
  BY NextIsGood DEF GoodStep
<1> QED
  BY EmptyBookSound, <1>1, PTL DEF Spec

\* Price-time priority: nobody is filled as a maker before a live order of
\* its side with a better price, or the same price and an earlier arrival.
THEOREM Priority == Spec => PriceTimePriority
<1>1. BookSound /\ [Next]_vars =>
        [\A id \in active : orders'[id].filled # orders[id].filled =>
           \A x \in active : orders[x].side = orders[id].side =>
             ~Precedes(x, id, orders[id].side)]_vars
  BY NextIsGood DEF GoodStep, PriorityKept
<1> QED
  BY Soundness, <1>1, PTL DEF Spec, PriceTimePriority

\* A closed order never comes back and never changes.
THEOREM Finality == Spec => ClosedIsFinal
<1>1. BookSound /\ [Next]_vars =>
        [\A id \in Ids :
           /\ orders[id].status # "UNSEEN" /\ id \notin active /\ id # taker
           => orders'[id] = orders[id] /\ id \notin active']_vars
  BY NextIsGood DEF GoodStep, ClosedKept
<1> QED
  BY Soundness, <1>1, PTL DEF Spec, ClosedIsFinal

\* Live orders never swap places in a queue, reductions included.
THEOREM Places == Spec => PlacesAreKept
<1>1. BookSound /\ [Next]_vars =>
        [\A a, b \in active \cap active' : Before(a, b) => Before(a, b)']_vars
  BY NextIsGood DEF GoodStep, SamePlaces
<1> QED
  BY Soundness, <1>1, PTL DEF Spec, PlacesAreKept

-----------------------------------------------------------------------------
(* The checkpoint *)

\* What was traded against or for one order, and what the player bought or
\* sold, as sums over the sequences of trades and of fills.
TradeQuantity(n) == trades[n].quantity

FillQuantity(n) == fills[n].quantity

OfTrades == INSTANCE Sums WITH Weight <- TradeQuantity

OfFills == INSTANCE Sums WITH Weight <- FillQuantity

Amounts(r) == [n \in DOMAIN r |-> r[n].quantity]

Naming(r, id) == {n \in DOMAIN r : id \in {r[n].maker, r[n].taker}}

Mine(r, s) == {n \in DOMAIN r : r[n].owner = "PLAYER" /\ r[n].side = s}

TradedBy(r, id) == OfTrades!Total(Amounts(r), Naming(r, id))

Earned(r, s) == OfTrades!Total(Amounts(r), Mine(r, s))

\* The shape of an order that is neither live nor in the loop: a command holds
\* nothing, a trading order is filled, cancelled or expired.
Shape(id) ==
  LET o == orders[id]
  IN /\ o.status = "UNSEEN" => o.type = "CANCEL"
     /\ o.type = "CANCEL" =>
          /\ o.status \in {"UNSEEN", "APPLIED"}
          /\ o.original = 0 /\ o.resting = 0
     /\ o.type # "CANCEL" /\ id \notin active /\ id # taker =>
          /\ o.remaining = 0
          /\ \/ o.status = "FILLED" /\ o.filled > 0
             \/ o.status \in {"CANCELLED", "EXPIRED"} /\ o.cancelled > 0
     /\ o.resting # 0 => o.type = "LIMIT"
     /\ id = taker => o.cancelled = 0 /\ o.original > 0

Shapes == \A id \in Ids : Shape(id)

\* Each number up to restingSequence was given to one order.
Arrivals ==
  /\ \A id \in Ids : orders[id].resting \in 0 .. restingSequence
  /\ \A n \in 1 .. restingSequence : \E id \in Ids : orders[id].resting = n
  /\ \A a, b \in Ids :
       orders[a].resting # 0 /\ orders[a].resting = orders[b].resting => a = b

\* Each trade with its two fills, and what the orders it names still say.
RecordedAt(n) ==
  LET t == trades[n]
  IN /\ t.maker # t.taker /\ Seen(t.maker) /\ Seen(t.taker)
     /\ orders[t.maker].type = "LIMIT"
     /\ orders[t.maker].price = t.price
     /\ orders[t.maker].side # t.side
     /\ orders[t.taker].side = t.side
     /\ fills[2 * n - 1] = FillOf(t.maker, t, "maker")
     /\ fills[2 * n] = FillOf(t.taker, t, "taker")

Recorded ==
  /\ Len(fills) = 2 * Len(trades)
  /\ \A n \in DOMAIN trades : RecordedAt(n)

FilledAsTraded == \A id \in Ids : orders[id].filled = TradedBy(trades, id)

Ledger(r) == [bought |-> Earned(r, "BUY"), sold |-> Earned(r, "SELL"),
              net |-> Earned(r, "BUY") - Earned(r, "SELL")]

LedgerAsFilled == position = Ledger(fills)

\* The inductive invariant behind Restorable, in the loop and between calls.
CheckpointSound ==
  /\ BookSound
  /\ Shapes
  /\ Arrivals
  /\ Recorded
  /\ FilledAsTraded
  /\ LedgerAsFilled

\* The sums' notion of a finite set is the library's.
LEMMA CheckpointFinite == \A S : OfTrades!IsFiniteSet(S) <=> IsFiniteSet(S)
  BY DEF IsFiniteSet, OfTrades!IsFiniteSet

Longer(r, x, S) ==
  /\ OfTrades!Total(Amounts(r), S) \in Nat
  /\ OfTrades!Total(Amounts(Append(r, x)), S) = OfTrades!Total(Amounts(r), S)
  /\ OfTrades!Total(Amounts(Append(r, x)), S \cup {Len(r) + 1})
       = OfTrades!Total(Amounts(r), S) + x.quantity

\* One more record: what was summed is the same, and it adds its quantity.
LEMMA TotalLonger ==
  ASSUME NEW R, \A x \in R : x.quantity \in Nat, NEW r \in Seq(R), NEW x \in R,
         NEW S \in SUBSET (1 .. Len(r))
  PROVE  Longer(r, x, S)
<1> DEFINE N == Len(r) + 1
           w == Amounts(r)
           v == Amounts(Append(r, x))
<1>1. Len(r) \in Nat /\ DOMAIN r = 1 .. Len(r)
  BY LenProperties
<1>2. /\ DOMAIN Append(r, x) = 1 .. N
      /\ \A j \in 1 .. Len(r) : Append(r, x)[j] = r[j]
      /\ Append(r, x)[N] = x
  BY <1>1, AppendProperties, LenProperties
<1>3. N \notin S /\ S \subseteq 1 .. N /\ S \subseteq 1 .. Len(r)
  BY <1>1
<1>4. \A j \in 1 .. Len(r) : r[j] \in R
  BY <1>1, ElementOfSeq
<1>5. \A j \in S : w[j] \in Nat /\ v[j] = w[j]
  BY <1>1, <1>2, <1>4 DEF Amounts
<1>6. v[N] = x.quantity /\ x.quantity \in Nat
  BY <1>1, <1>2 DEF Amounts
<1>7. IsFiniteSet(S) /\ OfTrades!IsFiniteSet(S)
  <2>1. IsFiniteSet(1 .. Len(r))
    BY <1>1, FS_Interval
  <2> QED  BY <1>3, <2>1, CheckpointFinite, FS_Subset
<1> HIDE DEF w, v, N
<1>8. OfTrades!Total(w, S) \in Nat
  BY <1>5, <1>7, OfTrades!TotalNat
<1>9. OfTrades!Total(v, S) = OfTrades!Total(w, S)
  <2>1. \A j \in S : v[j] = w[j] /\ v[j] \in Int
    BY <1>5
  <2> QED  BY <2>1, <1>7, OfTrades!TotalSame
<1>10. OfTrades!Total(v, S \cup {N}) = v[N] + OfTrades!Total(v, S)
  <2>1. \A j \in S \cup {N} : v[j] \in Int
    BY <1>5, <1>6
  <2> QED  BY <2>1, <1>3, <1>7, OfTrades!TotalAdd
<1>11. OfTrades!Total(v, S \cup {N}) = OfTrades!Total(w, S) + x.quantity
  BY <1>6, <1>8, <1>9, <1>10
<1> QED  BY <1>8, <1>9, <1>11 DEF Longer, w, v, N

\* A trade adds its quantity to what was traded by the two orders it names.
LEMMA TradedAppend ==
  ASSUME NEW r \in Seq(Trade), NEW t \in Trade, NEW id
  PROVE  /\ TradedBy(r, id) \in Nat
         /\ TradedBy(Append(r, t), id) =
              TradedBy(r, id) + IF id \in {t.maker, t.taker} THEN t.quantity ELSE 0
<1> DEFINE N == Len(r) + 1
           S == Naming(r, id)
<1>1. Len(r) \in Nat /\ DOMAIN r = 1 .. Len(r)
  BY LenProperties
<1>2. /\ DOMAIN Append(r, t) = 1 .. N
      /\ \A j \in 1 .. Len(r) : Append(r, t)[j] = r[j]
      /\ Append(r, t)[N] = t
  BY <1>1, AppendProperties, LenProperties
<1>3. Naming(Append(r, t), id) = IF id \in {t.maker, t.taker} THEN S \cup {N} ELSE S
  BY <1>1, <1>2 DEF Naming
<1>4. S \in SUBSET (1 .. Len(r))
  BY <1>1 DEF Naming
<1>5. \A y \in Trade : y.quantity \in Nat
  BY DEF Trade
<1> HIDE DEF S
<1>6. Longer(r, t, S)
  BY <1>4, <1>5, TotalLonger, Zenon
<1>7. TradedBy(r, id) = OfTrades!Total(Amounts(r), S)
  BY DEF TradedBy, S
<1>8. TradedBy(Append(r, t), id) =
        OfTrades!Total(Amounts(Append(r, t)), Naming(Append(r, t), id))
  BY DEF TradedBy
<1> QED  BY <1>3, <1>6, <1>7, <1>8 DEF Longer

\* A fill of the player's adds its quantity to its side.
LEMMA EarnedAppend ==
  ASSUME NEW r \in Seq(Fill), NEW f \in Fill, NEW s
  PROVE  /\ Earned(r, s) \in Nat
         /\ Earned(Append(r, f), s) =
              Earned(r, s)
                + IF f.owner = "PLAYER" /\ f.side = s THEN f.quantity ELSE 0
<1> DEFINE N == Len(r) + 1
           S == Mine(r, s)
<1>1. Len(r) \in Nat /\ DOMAIN r = 1 .. Len(r)
  BY LenProperties
<1>2. /\ DOMAIN Append(r, f) = 1 .. N
      /\ \A j \in 1 .. Len(r) : Append(r, f)[j] = r[j]
      /\ Append(r, f)[N] = f
  BY <1>1, AppendProperties, LenProperties
<1>3. Mine(Append(r, f), s) = IF f.owner = "PLAYER" /\ f.side = s THEN S \cup {N} ELSE S
  BY <1>1, <1>2 DEF Mine
<1>4. S \in SUBSET (1 .. Len(r))
  BY <1>1 DEF Mine
<1>5. \A y \in Fill : y.quantity \in Nat
  BY DEF Fill
<1> HIDE DEF S
<1>6. Longer(r, f, S)
  BY <1>4, <1>5, TotalLonger, Zenon
<1>7. Earned(r, s) = OfTrades!Total(Amounts(r), S)
  BY DEF Earned, S
<1>8. Earned(Append(r, f), s) =
        OfTrades!Total(Amounts(Append(r, f)), Mine(Append(r, f), s))
  BY DEF Earned
<1> QED  BY <1>3, <1>6, <1>7, <1>8 DEF Longer

\* Empty histories sum up to nothing.
LEMMA NothingTraded ==
  /\ \A id : TradedBy(<<>>, id) = 0
  /\ \A s : Earned(<<>>, s) = 0
<1>1. \A id, s : Naming(<<>>, id) = {} /\ Mine(<<>>, s) = {}
  BY DEF Naming, Mine
<1> QED  BY <1>1, OfTrades!TotalEmpty DEF TradedBy, Earned

-----------------------------------------------------------------------------
(* Steps that trade nothing *)

\* A registered order stays registered and keeps what identifies it.
SameOrder(id) ==
  /\ orders'[id].status # "UNSEEN"
  /\ orders'[id].type = orders[id].type
  /\ orders'[id].side = orders[id].side
  /\ orders'[id].price = orders[id].price
  /\ orders'[id].owner = orders[id].owner

\* The histories stay right while nothing is traded and orders stay the same.
LEMMA RecordedKept ==
  ASSUME TypeOK, Recorded, FilledAsTraded, LedgerAsFilled,
         UNCHANGED <<trades, fills, position>>,
         \A id \in Ids : Seen(id) => SameOrder(id),
         \A id \in Ids : orders'[id].filled = orders[id].filled
  PROVE  Recorded' /\ FilledAsTraded' /\ LedgerAsFilled'
<1>1. Recorded'
  <2>1. Len(fills') = 2 * Len(trades')
    BY DEF Recorded
  <2> SUFFICES ASSUME NEW n \in DOMAIN trades
               PROVE  RecordedAt(n)'
    BY <2>1 DEF Recorded
  <2> DEFINE t == trades[n]
  <2>2. t \in Trade /\ t.maker \in Ids /\ t.taker \in Ids
    <3>1. trades \in Seq(Trade)
      BY DEF TypeOK
    <3>2. n \in 1 .. Len(trades)
      BY <3>1, LenProperties
    <3>3. trades[n] \in Trade
      BY <3>1, <3>2, ElementOfSeq
    <3> QED  BY <3>3 DEF Trade
  <2>3. /\ t.maker # t.taker /\ Seen(t.maker) /\ Seen(t.taker)
        /\ orders[t.maker].type = "LIMIT"
        /\ orders[t.maker].price = t.price
        /\ orders[t.maker].side # t.side
        /\ orders[t.taker].side = t.side
        /\ fills[2 * n - 1] = FillOf(t.maker, t, "maker")
        /\ fills[2 * n] = FillOf(t.taker, t, "taker")
    BY DEF Recorded, RecordedAt
  <2>4. SameOrder(t.maker) /\ SameOrder(t.taker)
    BY <2>2, <2>3
  <2> QED  BY <2>3, <2>4 DEF RecordedAt, SameOrder, Seen, FillOf
<1>2. FilledAsTraded'
  BY DEF FilledAsTraded
<1>3. LedgerAsFilled'
  BY DEF LedgerAsFilled
<1> QED  BY <1>1, <1>2, <1>3

\* So do the arrival numbers while nothing comes to rest.
LEMMA ArrivalsKept ==
  ASSUME Arrivals, UNCHANGED restingSequence,
         \A id \in Ids : orders'[id].resting = orders[id].resting
  PROVE  Arrivals'
  BY DEF Arrivals

\* A step that trades nothing and rests nothing.
Quiet ==
  /\ UNCHANGED <<trades, fills, position, restingSequence>>
  /\ \A id \in Ids : Seen(id) => SameOrder(id)
  /\ \A id \in Ids : /\ orders'[id].filled = orders[id].filled
                     /\ orders'[id].resting = orders[id].resting

\* A quiet step keeps the checkpoint sound when the orders keep their shape.
LEMMA QuietKeeps ==
  ASSUME CheckpointSound, BookSound', Shapes', Quiet
  PROVE  CheckpointSound'
<1>1. TypeOK /\ Recorded /\ FilledAsTraded /\ LedgerAsFilled /\ Arrivals
  BY DEF CheckpointSound, BookSound
<1>2. Recorded' /\ FilledAsTraded' /\ LedgerAsFilled'
  BY <1>1, RecordedKept DEF Quiet
<1>3. Arrivals'
  BY <1>1, ArrivalsKept DEF Quiet
<1> QED  BY <1>2, <1>3 DEF CheckpointSound

\* An ID that is still free holds nothing.
LEMMA FreeIsEmpty ==
  ASSUME CheckpointSound, NEW id \in Ids, ~Seen(id)
  PROVE  orders[id].filled = 0 /\ orders[id].resting = 0
<1>1. orders[id].type = "CANCEL"
  BY DEF CheckpointSound, Shapes, Shape, Seen
<1>2. orders[id].original = 0 /\ orders[id].resting = 0
  BY <1>1 DEF CheckpointSound, Shapes, Shape
<1>3. /\ orders[id].original
           = orders[id].filled + orders[id].cancelled + orders[id].remaining
      /\ orders[id] \in Order
  BY DEF CheckpointSound, BookSound, Conserved, TypeOK
<1>4. orders[id].filled \in Nat /\ orders[id].cancelled \in Nat /\ orders[id].remaining \in Nat
  BY <1>3 DEF Order
<1>5. \A f, c, r \in Nat : 0 = f + c + r => f = 0
  OBVIOUS
<1>6. 0 = orders[id].filled + orders[id].cancelled + orders[id].remaining
  BY <1>2, <1>3
<1> QED  BY <1>2, <1>4, <1>5, <1>6

\* The records of a new order and of an applied command.
LEMMA FreshShape ==
  /\ \A o \in Limits \cup Markets :
       /\ o.type \in {"LIMIT", "MARKET"} /\ o.status = "NEW"
       /\ o.original > 0 /\ o.filled = 0 /\ o.cancelled = 0 /\ o.resting = 0
  /\ AppliedCommand.type = "CANCEL" /\ AppliedCommand.status = "APPLIED"
  /\ AppliedCommand.original = 0 /\ AppliedCommand.filled = 0
  /\ AppliedCommand.resting = 0
  BY QuantityAssumption DEF Limits, Markets, Pristine, AppliedCommand

\* Cancelling changes nothing that identifies an order.
LEMMA CancelRemainderKeeps ==
  ASSUME NEW o \in Order, NEW status
  PROVE  LET n == CancelRemainder(o, status)
         IN /\ n.type = o.type /\ n.side = o.side /\ n.price = o.price
            /\ n.owner = o.owner /\ n.original = o.original
            /\ n.filled = o.filled /\ n.resting = o.resting
            /\ n.remaining = 0 /\ n.cancelled = o.cancelled + o.remaining
            /\ n.status = status
  BY DEF CancelRemainder, Order

\* Live orders are limit orders with quantity left.
LEMMA ActiveIsLimit ==
  ASSUME BookSound, NEW id \in active
  PROVE  /\ orders[id].type = "LIMIT" /\ orders[id].remaining > 0
         /\ id \in Ids /\ orders[id] \in Order /\ id # taker
<1>1. PICK i \in DOMAIN queue[orders[id].side][orders[id].price] :
        queue[orders[id].side][orders[id].price][i] = id
  BY DEF BookSound, ActiveAreQueued
<1>2. orders[id].side \in Side /\ orders[id].price \in Prices /\ orders[id].remaining > 0
  BY DEF BookSound, ActiveAreQueued
<1>3. orders[id].type = "LIMIT"
  BY <1>1, <1>2 DEF BookSound, QueuedAreLive
<1> QED  BY <1>2, <1>3, ActiveFacts

\* An order with a name is not the absence of one.
LEMMA NamedOrder == NoOrder \notin Ids
  BY IdAssumption

\* A submitted order starts with nothing done.
LEMMA SubmitChecked ==
  ASSUME CheckpointSound, NEW id \in Ids, NEW o \in Limits \cup Markets, Submit(id, o)
  PROVE  CheckpointSound'
<1>1. BookSound'
  BY SubmitStep DEF GoodStep, CheckpointSound
<1>2. /\ taker = NoOrder /\ taker' = id /\ ~Seen(id)
      /\ UNCHANGED <<active, restingSequence, trades, fills, position>>
  BY DEF Submit, history
<1>3. \A x \in Ids : orders'[x] = IF x = id THEN o ELSE orders[x]
  BY DEF Submit, CheckpointSound, BookSound, TypeOK
<1>4. Shapes'
  <2> SUFFICES ASSUME NEW x \in Ids
               PROVE  Shape(x)'
    BY DEF Shapes
  <2>1. CASE x = id
    BY <2>1, <1>2, <1>3, FreshShape DEF Shape
  <2>2. CASE x # id
    BY <2>2, <1>2, <1>3, NamedOrder DEF CheckpointSound, Shapes, Shape
  <2> QED  BY <2>1, <2>2
<1>5. Quiet
  BY <1>2, <1>3, FreeIsEmpty, FreshShape DEF Quiet, SameOrder, Seen
<1> QED  BY <1>1, <1>4, <1>5, QuietKeeps

\* An expired market order has cancelled what it could not trade.
LEMMA ExpireChecked ==
  ASSUME CheckpointSound, Expire
  PROVE  CheckpointSound'
<1>1. BookSound' /\ BookSound
  BY ExpireStep DEF GoodStep, CheckpointSound
<1>2. /\ taker \in Ids /\ taker' = NoOrder /\ orders[taker].remaining > 0
      /\ orders[taker].type = "MARKET" /\ orders[taker] \in Order
      /\ UNCHANGED <<active, restingSequence, trades, fills, position>>
  BY <1>1 DEF Expire, history, BookSound, TypeOK
<1>3. \A x \in Ids : orders'[x] = IF x = taker THEN CancelRemainder(orders[x], "EXPIRED")
                                 ELSE orders[x]
  BY <1>1 DEF Expire, BookSound, TypeOK
<1> DEFINE n == CancelRemainder(orders[taker], "EXPIRED")
<1>4. /\ n.type = "MARKET" /\ n.side = orders[taker].side
      /\ n.price = orders[taker].price /\ n.owner = orders[taker].owner
      /\ n.filled = orders[taker].filled /\ n.resting = orders[taker].resting
      /\ n.remaining = 0 /\ n.cancelled > 0 /\ n.status = "EXPIRED"
  <2>1. orders[taker].cancelled \in Nat /\ orders[taker].remaining \in Nat
    BY <1>2 DEF Order
  <2> QED  BY <1>2, <2>1, CancelRemainderKeeps
<1>5. n = orders'[taker]
  BY <1>2, <1>3
<1> HIDE DEF n
<1>6. orders[taker].resting = 0
  BY <1>1, <1>2, NamedOrder DEF BookSound, TakerIsIncoming
<1>7. Shapes'
  <2> SUFFICES ASSUME NEW x \in Ids
               PROVE  Shape(x)'
    BY DEF Shapes
  <2>1. CASE x = taker
    BY <2>1, <1>2, <1>4, <1>5, <1>6, NamedOrder DEF Shape
  <2>2. CASE x # taker
    BY <2>2, <1>2, <1>3, NamedOrder DEF CheckpointSound, Shapes, Shape
  <2> QED  BY <2>1, <2>2
<1>8. Quiet
  BY <1>2, <1>3, <1>4, <1>5 DEF Quiet, SameOrder, Seen
<1> QED  BY <1>1, <1>7, <1>8, QuietKeeps

\* The taker that leaves the loop without quantity was filled.
LEMMA FilledChecked ==
  ASSUME CheckpointSound, Filled
  PROVE  CheckpointSound'
<1>1. BookSound' /\ BookSound
  BY FilledStep DEF GoodStep, CheckpointSound
<1>2. /\ taker \in Ids /\ taker' = NoOrder /\ orders[taker].remaining = 0
      /\ orders[taker] \in Order
      /\ UNCHANGED <<orders, active, restingSequence, trades, fills, position>>
  BY <1>1 DEF Filled, history, BookSound, TypeOK
<1>3. orders[taker].filled > 0 /\ orders[taker].status = "FILLED"
  <2>1. orders[taker].cancelled = 0 /\ orders[taker].original > 0
    BY <1>2 DEF CheckpointSound, Shapes, Shape
  <2>2. orders[taker].original
          = orders[taker].filled + orders[taker].cancelled + orders[taker].remaining
    BY <1>1, <1>2 DEF BookSound, Conserved
  <2>3. orders[taker].filled \in Nat /\ orders[taker].original \in Nat
    BY <1>2 DEF Order
  <2>4. orders[taker].filled > 0
    BY <1>2, <2>1, <2>2, <2>3
  <2> QED  BY <1>1, <1>2, <2>4, NamedOrder DEF BookSound, TakerIsIncoming
<1>4. Shapes'
  BY <1>2, <1>3, NamedOrder DEF CheckpointSound, Shapes, Shape
<1>5. Quiet
  BY <1>2 DEF Quiet, SameOrder, Seen
<1> QED  BY <1>1, <1>4, <1>5, QuietKeeps

\* A live order leaves the book and the IDs of D, free so far, are registered
\* as applied commands, the one that enters the loop excepted.
LEMMA WithdrawnChecked ==
  ASSUME CheckpointSound, BookSound', taker = NoOrder, NEW target \in active,
         NEW D \in SUBSET Ids, NEW change \in [D -> Order],
         \A d \in D :
           /\ ~Seen(d)
           /\ \/ change[d] = AppliedCommand /\ d # taker'
              \/ change[d] \in Limits /\ d = taker',
         taker' \in D \cup {NoOrder},
         Withdraw(target, change),
         UNCHANGED <<restingSequence, trades, fills, position>>
  PROVE  CheckpointSound'
<1> DEFINE o == orders[target]
           gone == CancelRemainder(o, "CANCELLED")
<1>1. BookSound
  BY DEF CheckpointSound
<1>2. /\ target \in Ids /\ o \in Order /\ o.type = "LIMIT" /\ o.remaining > 0
      /\ active' = active \ {target} /\ Seen(target) /\ target \notin D
  BY <1>1, ActiveIsLimit, ActiveFacts DEF Withdraw
<1>3. /\ gone.type = "LIMIT" /\ gone.side = o.side /\ gone.price = o.price
      /\ gone.owner = o.owner /\ gone.filled = o.filled /\ gone.resting = o.resting
      /\ gone.remaining = 0 /\ gone.cancelled > 0 /\ gone.status = "CANCELLED"
  <2>1. o.cancelled \in Nat /\ o.remaining \in Nat
    BY <1>2 DEF Order
  <2> QED  BY <1>2, <2>1, CancelRemainderKeeps
<1>4. \A x \in Ids : orders'[x] = IF x = target THEN gone
                                 ELSE IF x \in D THEN change[x] ELSE orders[x]
  BY DEF Withdraw
<1> HIDE DEF gone
<1>5. \A d \in D : d # target /\ orders'[d] = change[d] /\ ~Seen(d)
  BY <1>2, <1>4
<1>6. Shapes'
  <2> SUFFICES ASSUME NEW x \in Ids
               PROVE  Shape(x)'
    BY DEF Shapes
  <2>1. CASE x = target
    BY <2>1, <1>2, <1>3, <1>4, NamedOrder DEF Shape
  <2>2. CASE x \in D
    <3>1. CASE change[x] = AppliedCommand /\ x # taker'
      BY <2>2, <3>1, <1>5, FreshShape DEF Shape
    <3>2. CASE change[x] \in Limits /\ x = taker'
      BY <2>2, <3>2, <1>5, FreshShape DEF Shape
    <3> QED  BY <2>2, <3>1, <3>2
  <2>3. CASE x # target /\ x \notin D
    <3>1. x # taker' /\ x # taker
      BY <2>3, NamedOrder
    <3> QED  BY <2>3, <3>1, <1>2, <1>4 DEF CheckpointSound, Shapes, Shape
  <2> QED  BY <2>1, <2>2, <2>3
<1>7. \A id \in Ids : Seen(id) => SameOrder(id)
  <2> SUFFICES ASSUME NEW x \in Ids, Seen(x)
               PROVE  SameOrder(x)
    OBVIOUS
  <2>1. x \notin D
    OBVIOUS
  <2> QED  BY <2>1, <1>2, <1>3, <1>4 DEF SameOrder, Seen
<1>8. \A id \in Ids : /\ orders'[id].filled = orders[id].filled
                      /\ orders'[id].resting = orders[id].resting
  <2> SUFFICES ASSUME NEW x \in Ids
               PROVE  /\ orders'[x].filled = orders[x].filled
                      /\ orders'[x].resting = orders[x].resting
    OBVIOUS
  <2>1. CASE x \in D
    <3>1. orders[x].filled = 0 /\ orders[x].resting = 0
      BY <2>1, FreeIsEmpty
    <3>2. change[x].filled = 0 /\ change[x].resting = 0
      BY <2>1, FreshShape
    <3> QED  BY <2>1, <3>1, <3>2, <1>5
  <2>2. CASE x \notin D
    BY <2>2, <1>3, <1>4
  <2> QED  BY <2>1, <2>2
<1>9. Quiet
  BY <1>7, <1>8 DEF Quiet
<1> QED  BY <1>6, <1>9, QuietKeeps

\* A command is registered; live orders stay live and keep what they are.
LEMMA CommandChecked ==
  ASSUME CheckpointSound, BookSound', taker = NoOrder, NEW command \in Ids,
         ~Seen(command), orders'[command] = AppliedCommand,
         \A x \in Ids \ {command} :
           \/ orders'[x] = orders[x]
           \/ /\ x \in active /\ SameOrder(x)
              /\ orders'[x].filled = orders[x].filled
              /\ orders'[x].resting = orders[x].resting,
         UNCHANGED <<active, taker, restingSequence, trades, fills, position>>
  PROVE  CheckpointSound'
<1>1. BookSound
  BY DEF CheckpointSound
<1>2. Shapes'
  <2> SUFFICES ASSUME NEW x \in Ids
               PROVE  Shape(x)'
    BY DEF Shapes
  <2>1. CASE x = command
    BY <2>1, FreshShape, NamedOrder DEF Shape
  <2>2. CASE x # command /\ orders'[x] = orders[x]
    BY <2>2 DEF CheckpointSound, Shapes, Shape
  <2>3. CASE /\ x \in active /\ SameOrder(x)
             /\ orders'[x].resting = orders[x].resting
    <3>1. orders[x].type = "LIMIT"
      BY <1>1, <2>3, ActiveIsLimit
    <3> QED  BY <2>3, <3>1, NamedOrder DEF SameOrder, Shape
  <2> QED  BY <2>1, <2>2, <2>3
<1>3. Quiet
  <2>1. orders[command].filled = 0 /\ orders[command].resting = 0
    BY FreeIsEmpty
  <2> QED  BY <2>1, FreshShape DEF Quiet, SameOrder, Seen
<1> QED  BY <1>2, <1>3, QuietKeeps

\* cancel, of a live target and of another.
LEMMA CancelChecked ==
  ASSUME CheckpointSound, NEW target \in Ids, NEW command \in Ids,
         Cancel(target, command)
  PROVE  CheckpointSound'
<1>1. BookSound'
  BY CancelStep DEF GoodStep, CheckpointSound
<1>2. /\ taker = NoOrder /\ taker' = taker /\ ~Seen(command)
      /\ UNCHANGED <<restingSequence, trades, fills, position>>
  BY DEF Cancel, history
<1>3. CASE target \in active
  <2> DEFINE change == Command(command)
  <2>1. /\ change \in [{command} -> Order] /\ change[command] = AppliedCommand
        /\ Withdraw(target, change)
    BY <1>3, CommandType DEF Command, Cancel
  <2>2. command # taker'
    BY <1>2, NamedOrder
  <2> HIDE DEF change
  <2>3. {command} \in SUBSET Ids
    OBVIOUS
  <2> QED  BY <1>1, <1>2, <1>3, <2>1, <2>2, <2>3, WithdrawnChecked
<1>4. CASE target \notin active
  <2>1. /\ orders'[command] = AppliedCommand /\ UNCHANGED active
        /\ \A x \in Ids \ {command} : orders'[x] = orders[x]
    BY <1>4 DEF Cancel, CheckpointSound, BookSound, TypeOK
  <2> QED  BY <1>1, <1>2, <2>1, CommandChecked
<1> QED  BY <1>3, <1>4

\* replace: refused, raised after its cancel leg, or done.
LEMMA ReplaceChecked ==
  ASSUME CheckpointSound, NEW target \in Ids, NEW command \in Ids, NEW id \in Ids,
         NEW o \in Limits, Replace(target, command, id, o)
  PROVE  CheckpointSound'
<1>1. BookSound'
  BY ReplaceStep DEF GoodStep, CheckpointSound
<1>2. /\ taker = NoOrder /\ ~Seen(command) /\ ~Seen(id)
      /\ UNCHANGED <<restingSequence, trades, fills, position>>
  BY DEF Replace, history
<1>3. CASE target \notin active
  <2>1. /\ orders'[command] = AppliedCommand /\ UNCHANGED <<active, taker>>
        /\ \A x \in Ids \ {command} : orders'[x] = orders[x]
    BY <1>3 DEF Replace, CheckpointSound, BookSound, TypeOK
  <2> QED  BY <1>1, <1>2, <2>1, CommandChecked
<1>4. CASE target \in active /\ command = id
  <2> DEFINE change == Command(command)
  <2>1. /\ change \in [{command} -> Order] /\ change[command] = AppliedCommand
        /\ Withdraw(target, change) /\ taker' = taker
    BY <1>4, CommandType DEF Command, Replace
  <2>2. command # taker'
    BY <1>2, <2>1, NamedOrder
  <2> HIDE DEF change
  <2>3. {command} \in SUBSET Ids
    OBVIOUS
  <2> QED  BY <1>1, <1>2, <1>4, <2>1, <2>2, <2>3, WithdrawnChecked
<1>5. CASE target \in active /\ command # id
  <2> DEFINE D == {command, id}
             change == [c \in D |-> IF c = id THEN o ELSE AppliedCommand]
  <2>1. Withdraw(target, change) /\ taker' = id
    BY <1>5 DEF Replace
  <2>2. /\ change \in [D -> Order]
        /\ \A d \in D : \/ change[d] = AppliedCommand /\ d # id
                        \/ change[d] \in Limits /\ d = id
    BY <1>5, SubmittedType, CommandType
  <2>3. D \in SUBSET Ids /\ id \in D /\ \A d \in D : ~Seen(d)
    BY <1>2
  <2> HIDE DEF change, D
  <2> QED  BY <1>1, <1>2, <1>5, <2>1, <2>2, <2>3, WithdrawnChecked
<1> QED  BY <1>3, <1>4, <1>5

\* reduce_order moves quantity from remaining to cancelled.
LEMMA ReduceChecked ==
  ASSUME CheckpointSound, NEW target \in Ids, NEW command \in Ids, NEW total \in Nat,
         Reduce(target, total, command)
  PROVE  CheckpointSound'
<1> DEFINE o == orders[target]
           r == o.filled + o.remaining - total
           n == [o EXCEPT !.remaining = o.remaining - r, !.cancelled = o.cancelled + r]
<1>1. BookSound' /\ BookSound
  BY ReduceStep DEF GoodStep, CheckpointSound
<1>2. /\ taker = NoOrder /\ target \in active /\ ~Seen(command)
      /\ orders' = [orders EXCEPT ![target] = n, ![command] = AppliedCommand]
      /\ UNCHANGED <<active, taker, restingSequence, trades, fills, position>>
  BY DEF Reduce, history
<1>3. target \in Ids /\ Seen(target) /\ command # target /\ o \in Order
  BY <1>1, <1>2, ActiveFacts
<1>4. /\ n.type = o.type /\ n.side = o.side /\ n.price = o.price /\ n.owner = o.owner
      /\ n.status = o.status /\ n.filled = o.filled /\ n.resting = o.resting
  <2> HIDE DEF r
  <2> QED  BY <1>3 DEF Order
<1> HIDE DEF n
<1>5. /\ orders'[target] = n /\ orders'[command] = AppliedCommand
      /\ \A x \in Ids : x # target /\ x # command => orders'[x] = orders[x]
  BY <1>1, <1>2, <1>3 DEF BookSound, TypeOK
<1>6. /\ SameOrder(target) /\ orders'[target].filled = orders[target].filled
      /\ orders'[target].resting = orders[target].resting
  BY <1>3, <1>4, <1>5 DEF SameOrder, Seen
<1>7. \A x \in Ids \ {command} :
        \/ orders'[x] = orders[x]
        \/ /\ x \in active /\ SameOrder(x)
           /\ orders'[x].filled = orders[x].filled
           /\ orders'[x].resting = orders[x].resting
  BY <1>2, <1>5, <1>6
<1> QED  BY <1>1, <1>2, <1>5, <1>7, CommandChecked

-----------------------------------------------------------------------------
(* Steps that rest an order or trade *)

\* The order that rests gets the next number.
LEMMA RestChecked ==
  ASSUME CheckpointSound, Rest
  PROVE  CheckpointSound'
<1> DEFINE o == orders[taker]
           n == [o EXCEPT !.resting = restingSequence + 1,
                          !.status = IF o.filled = 0 THEN "ACTIVE" ELSE o.status]
<1>1. BookSound' /\ BookSound
  BY RestStep DEF GoodStep, CheckpointSound
<1>2. /\ taker \in Ids /\ taker # NoOrder /\ taker' = NoOrder
      /\ o.type = "LIMIT" /\ o \in Order
      /\ orders' = [orders EXCEPT ![taker] = n]
      /\ restingSequence' = restingSequence + 1 /\ restingSequence \in Nat
      /\ active' = active \cup {taker}
      /\ UNCHANGED <<trades, fills, position>>
  BY <1>1 DEF Rest, history, BookSound, TypeOK
<1>3. /\ o.resting = 0
      /\ o.status \in {"NEW", "FILLED", "PARTIALLY_FILLED"}
  BY <1>1, <1>2 DEF BookSound, TakerIsIncoming
<1>4. /\ n.type = "LIMIT" /\ n.side = o.side /\ n.price = o.price /\ n.owner = o.owner
      /\ n.filled = o.filled /\ n.resting = restingSequence + 1
      /\ n.status \in {"ACTIVE", "NEW", "FILLED", "PARTIALLY_FILLED"}
  BY <1>2, <1>3 DEF Order
<1> HIDE DEF n
<1>5. /\ orders'[taker] = n
      /\ \A x \in Ids \ {taker} : orders'[x] = orders[x]
  BY <1>1, <1>2 DEF BookSound, TypeOK
<1>6. o = orders[taker]
  OBVIOUS
<1> HIDE DEF o
<1>7. Shapes'
  <2> SUFFICES ASSUME NEW x \in Ids
               PROVE  Shape(x)'
    BY DEF Shapes
  <2>1. CASE x = taker
    BY <2>1, <1>2, <1>4, <1>5 DEF Shape
  <2>2. CASE x # taker
    BY <2>2, <1>2, <1>5, NamedOrder DEF CheckpointSound, Shapes, Shape
  <2> QED  BY <2>1, <2>2
<1>8. Arrivals'
  <2> DEFINE R == restingSequence
             a(x) == orders[x].resting
             b(x) == orders'[x].resting
  <2>1. /\ \A x \in Ids : a(x) \in 0 .. R
        /\ \A k \in 1 .. R : \E x \in Ids : a(x) = k
        /\ \A x, y \in Ids : a(x) # 0 /\ a(x) = a(y) => x = y
    BY DEF CheckpointSound, Arrivals
  <2>2. a(taker) = 0 /\ b(taker) = R + 1 /\ \A x \in Ids \ {taker} : b(x) = a(x)
    BY <1>3, <1>4, <1>5, <1>6
  <2>3. R \in Nat /\ taker \in Ids
    BY <1>2
  <2>4. /\ \A x \in Ids : b(x) \in 0 .. (R + 1)
        /\ \A k \in 1 .. (R + 1) : \E x \in Ids : b(x) = k
        /\ \A x, y \in Ids : b(x) # 0 /\ b(x) = b(y) => x = y
    <3> HIDE DEF R, a, b
    <3>1. \A x \in Ids : b(x) \in 0 .. (R + 1)
      BY <2>1, <2>2, <2>3
    <3>2. \A k \in 1 .. (R + 1) : \E x \in Ids : b(x) = k
      <4> SUFFICES ASSUME NEW k \in 1 .. (R + 1)
                   PROVE  \E x \in Ids : b(x) = k
        OBVIOUS
      <4>1. CASE k = R + 1
        BY <4>1, <2>2, <2>3
      <4>2. CASE k # R + 1
        <5>1. k \in 1 .. R /\ k # 0
          BY <4>2, <2>3
        <5>2. PICK x \in Ids : a(x) = k
          BY <5>1, <2>1
        <5>3. x # taker
          BY <5>1, <5>2, <2>2
        <5> QED  BY <5>2, <5>3, <2>2
      <4> QED  BY <4>1, <4>2
    <3>3. \A x, y \in Ids : b(x) # 0 /\ b(x) = b(y) => x = y
      <4>1. \A x \in Ids \ {taker} : b(x) # R + 1
        BY <2>1, <2>2, <2>3
      <4> QED  BY <4>1, <2>1, <2>2
    <3> QED  BY <3>1, <3>2, <3>3
  <2> QED  BY <2>4, <1>2 DEF Arrivals
<1>9. Recorded' /\ FilledAsTraded' /\ LedgerAsFilled'
  <2>1. \A id \in Ids : Seen(id) => SameOrder(id)
    <3>1. SameOrder(taker)
      BY <1>2, <1>4, <1>5, <1>6 DEF SameOrder
    <3>2. \A x \in Ids \ {taker} : Seen(x) => SameOrder(x)
      BY <1>5 DEF SameOrder, Seen
    <3> QED  BY <3>1, <3>2
  <2>2. \A id \in Ids : orders'[id].filled = orders[id].filled
    BY <1>4, <1>5, <1>6
  <2> QED  BY <1>1, <1>2, <2>1, <2>2, RecordedKept DEF CheckpointSound, BookSound
<1> QED  BY <1>1, <1>7, <1>8, <1>9 DEF CheckpointSound

\* What a trade m with the quantity q does to the two orders and the books.
Trades(m, q, t) ==
  /\ m \in active /\ m # taker /\ taker \in Ids /\ taker' = taker
  /\ t \in Trade /\ t.maker = m /\ t.taker = taker /\ t.quantity = q
  /\ t.price = orders[m].price
  /\ t.side = orders[taker].side /\ orders[m].side # t.side
  /\ q > 0 /\ q <= orders[m].remaining /\ q <= orders[taker].remaining
  /\ q = orders[m].remaining \/ q = orders[taker].remaining
  /\ \/ orders[taker].type = "MARKET"
     \/ ~Better(orders[m].side, orders[taker].price, orders[m].price)
  /\ orders'[m] = ApplyFill(orders[m], q)
  /\ orders'[taker] = ApplyFill(orders[taker], q)
  /\ \A x \in Ids : x # m /\ x # taker => orders'[x] = orders[x]
  /\ active' = IF orders[m].remaining = q THEN active \ {m} ELSE active
  /\ trades' = Append(trades, t)
  /\ fills' = fills \o <<FillOf(m, t, "maker"), FillOf(taker, t, "taker")>>
  /\ position' = Applied(Applied(position, FillOf(m, t, "maker")),
                         FillOf(taker, t, "taker"))
  /\ UNCHANGED restingSequence

\* One turn of the loop is such a trade.
LEMMA MatchTrades ==
  ASSUME BookSound, Match
  PROVE  \E m \in Ids, q \in Nat, t \in Trade : Trades(m, q, t)
<1> DEFINE o     == orders[taker]
           s     == Opposite(o.side)
           level == queue[s][Best(s)]
           m     == Head(level)
           q     == IF o.remaining < orders[m].remaining THEN o.remaining
                    ELSE orders[m].remaining
           t     == [maker |-> m, taker |-> taker, price |-> orders[m].price,
                     quantity |-> q, side |-> o.side]
<1>1. /\ taker \in Ids /\ taker' = taker
      /\ o \in Order /\ o.remaining > 0 /\ o.side \in Side /\ s \in Side
      /\ s # o.side /\ prices[s] # {}
      /\ o.type = "MARKET" \/ ~Better(s, o.price, Best(s))
  BY Zenon DEF Match, BookSound, TypeOK, TakerIsIncoming, IsMarketable, Opposite, Side
<1>2. /\ orders' = [orders EXCEPT ![m] = ApplyFill(orders[m], q),
                                  ![taker] = ApplyFill(o, q)]
      /\ trades' = Append(trades, t)
      /\ fills' = fills \o <<FillOf(m, t, "maker"), FillOf(taker, t, "taker")>>
      /\ position' = Applied(Applied(position, FillOf(m, t, "maker")),
                             FillOf(taker, t, "taker"))
      /\ active' = IF orders[m].remaining = q THEN active \ {m} ELSE active
      /\ UNCHANGED restingSequence
  BY Zenon DEF Match
<1>3. Best(s) \in prices[s] /\ Best(s) \in Prices
  BY <1>1, BestExists DEF BookSound
<1> HIDE DEF s
<1>4. level \in Seq(Ids) /\ level # <<>>
  BY <1>1, <1>3, EmptySeq DEF BookSound, TypeOK, LevelsIndexed
<1>5. 1 \in DOMAIN level /\ m = level[1]
  BY <1>4
<1>6. m \in active /\ orders[m].side = s /\ orders[m].price = Best(s)
  BY <1>1, <1>3, <1>5 DEF BookSound, QueuedAreLive
<1> HIDE DEF m
<1>7. /\ m \in Ids /\ m # taker /\ orders[m].remaining > 0 /\ orders[m] \in Order
      /\ orders[m].price \in Prices
  BY <1>6, ActiveIsLimit DEF BookSound, ActiveAreQueued
<1>8. /\ q \in Nat /\ q > 0 /\ q <= orders[m].remaining /\ q <= o.remaining
      /\ q = orders[m].remaining \/ q = o.remaining
  <2>1. o.remaining \in Nat /\ orders[m].remaining \in Nat
    BY <1>1, <1>7 DEF Order
  <2> HIDE DEF o
  <2> QED  BY <1>1, <1>7, <2>1
<1> HIDE DEF q
<1>9. /\ t \in Trade /\ t.maker = m /\ t.taker = taker /\ t.quantity = q
      /\ t.price = orders[m].price /\ t.side = o.side
  BY <1>1, <1>7, <1>8 DEF Trade
<1> HIDE DEF t
<1>10. /\ orders'[m] = ApplyFill(orders[m], q)
       /\ orders'[taker] = ApplyFill(orders[taker], q)
       /\ \A x \in Ids : x # m /\ x # taker => orders'[x] = orders[x]
  BY <1>1, <1>2, <1>7 DEF BookSound, TypeOK
<1>11. Trades(m, q, t)
  BY <1>1, <1>2, <1>6, <1>7, <1>8, <1>9, <1>10 DEF Trades
<1> QED  BY <1>7, <1>8, <1>9, <1>11

\* The ledger takes a fill as the sum does.
LEMMA LedgerAppend ==
  ASSUME NEW r \in Seq(Fill), NEW f \in Fill
  PROVE  Applied(Ledger(r), f) = Ledger(Append(r, f))
<1> DEFINE b == Earned(r, "BUY")
           c == Earned(r, "SELL")
           d == Earned(Append(r, f), "BUY")
           e == Earned(Append(r, f), "SELL")
<1>1. /\ b \in Nat /\ c \in Nat
      /\ d = b + IF f.owner = "PLAYER" /\ f.side = "BUY" THEN f.quantity ELSE 0
      /\ e = c + IF f.owner = "PLAYER" /\ f.side = "SELL" THEN f.quantity ELSE 0
  BY EarnedAppend
<1>2. f.quantity \in Nat /\ f.side \in {"BUY", "SELL"}
  BY DEF Fill, Side
<1>3. /\ Ledger(r) = [bought |-> b, sold |-> c, net |-> b - c]
      /\ Ledger(Append(r, f)) = [bought |-> d, sold |-> e, net |-> d - e]
  BY DEF Ledger
<1> DEFINE l == [bought |-> b, sold |-> c, net |-> b - c]
<1> HIDE DEF b, c, d, e
<1>5. CASE f.owner # "PLAYER"
  <2>1. d = b /\ e = c
    BY <1>1, <1>5
  <2> QED  BY <1>3, <1>5, <2>1 DEF Applied
<1>6. CASE f.owner = "PLAYER" /\ f.side = "BUY"
  <2>1. d = b + f.quantity /\ e = c /\ (b - c) + f.quantity = d - e
    BY <1>1, <1>2, <1>6
  <2>2. Applied(l, f) = [bought |-> b + f.quantity, sold |-> c,
                         net |-> (b - c) + f.quantity]
    BY <1>6 DEF Applied
  <2> QED  BY <1>3, <2>1, <2>2
<1>7. CASE f.owner = "PLAYER" /\ f.side = "SELL"
  <2>1. d = b /\ e = c + f.quantity /\ (b - c) - f.quantity = d - e
    BY <1>1, <1>2, <1>7
  <2>2. Applied(l, f) = [bought |-> b, sold |-> c + f.quantity,
                         net |-> (b - c) - f.quantity]
    BY <1>7 DEF Applied
  <2> QED  BY <1>3, <2>1, <2>2
<1> QED  BY <1>2, <1>5, <1>6, <1>7

\* A trade is recorded, with its fills, and adds to both orders and the ledger.
LEMMA MatchChecked ==
  ASSUME CheckpointSound, Match
  PROVE  CheckpointSound'
<1>1. BookSound' /\ BookSound
  BY MatchStep DEF GoodStep, CheckpointSound
<1>2. PICK m \in Ids, q \in Nat, t \in Trade : Trades(m, q, t)
  BY <1>1, MatchTrades
<1> DEFINE made  == FillOf(m, t, "maker")
           taken == FillOf(taker, t, "taker")
           a == ApplyFill(orders[m], q)
           b == ApplyFill(orders[taker], q)
<1>3. /\ m \in active /\ m # taker /\ taker \in Ids /\ taker' = taker
      /\ t.maker = m /\ t.taker = taker /\ t.quantity = q
      /\ t.price = orders[m].price
      /\ t.side = orders[taker].side /\ orders[m].side # t.side
      /\ q > 0 /\ q <= orders[m].remaining /\ q <= orders[taker].remaining
      /\ orders'[m] = a /\ orders'[taker] = b
      /\ \A x \in Ids : x # m /\ x # taker => orders'[x] = orders[x]
      /\ active' = IF orders[m].remaining = q THEN active \ {m} ELSE active
      /\ trades' = Append(trades, t)
      /\ fills' = fills \o <<made, taken>>
      /\ position' = Applied(Applied(position, made), taken)
      /\ UNCHANGED restingSequence
  BY <1>2 DEF Trades
<1>4. /\ orders[m] \in Order /\ orders[taker] \in Order
      /\ orders[m].type = "LIMIT"
  BY <1>1, <1>3, ActiveIsLimit, ActiveFacts
<1>5. /\ a.type = orders[m].type /\ a.side = orders[m].side /\ a.price = orders[m].price
      /\ a.owner = orders[m].owner /\ a.original = orders[m].original
      /\ a.resting = orders[m].resting /\ a.cancelled = orders[m].cancelled
      /\ a.remaining = orders[m].remaining - q /\ a.filled = orders[m].filled + q
      /\ a.status = IF orders[m].remaining = q THEN "FILLED" ELSE "PARTIALLY_FILLED"
  BY <1>3, <1>4, ApplyFillFields
<1>6. /\ b.type = orders[taker].type /\ b.side = orders[taker].side
      /\ b.price = orders[taker].price /\ b.owner = orders[taker].owner
      /\ b.original = orders[taker].original /\ b.resting = orders[taker].resting
      /\ b.cancelled = orders[taker].cancelled
      /\ b.filled = orders[taker].filled + q
      /\ b.status \in {"FILLED", "PARTIALLY_FILLED"}
  BY <1>3, <1>4, ApplyFillFields
<1> HIDE DEF a, b
<1>7. orders[taker].type \in {"LIMIT", "MARKET"} /\ orders[taker].resting = 0
  BY <1>1, <1>3, NamedOrder DEF BookSound, TakerIsIncoming
<1>8. Shapes'
  <2> SUFFICES ASSUME NEW x \in Ids
               PROVE  Shape(x)'
    BY DEF Shapes
  <2>1. CASE x = m
    <3>1. orders[m].remaining = q => a.remaining = 0 /\ a.status = "FILLED" /\ a.filled > 0
      <4>1. orders[m].remaining \in Nat /\ orders[m].filled \in Nat
        BY <1>4 DEF Order
      <4> QED  BY <4>1, <1>3, <1>5
    <3>2. orders[m].remaining # q => m \in active'
      BY <1>3
    <3> QED  BY <2>1, <3>1, <3>2, <1>3, <1>4, <1>5 DEF Shape
  <2>2. CASE x = taker
    <3>1. orders[taker].cancelled = 0 /\ orders[taker].original > 0
      BY <1>3 DEF CheckpointSound, Shapes, Shape
    <3> QED  BY <2>2, <3>1, <1>3, <1>6, <1>7 DEF Shape
  <2>3. CASE x # m /\ x # taker
    BY <2>3, <1>3 DEF CheckpointSound, Shapes, Shape
  <2> QED  BY <2>1, <2>2, <2>3
<1>9. Arrivals'
  <2>1. \A x \in Ids : orders'[x].resting = orders[x].resting
    BY <1>3, <1>5, <1>6
  <2> QED  BY <1>3, <2>1, ArrivalsKept DEF CheckpointSound
<1>10. \A x \in Ids : Seen(x) => SameOrder(x)
  <2>1. SameOrder(m)
    BY <1>3, <1>5 DEF SameOrder
  <2>2. SameOrder(taker)
    BY <1>3, <1>6 DEF SameOrder
  <2>3. \A x \in Ids : x # m /\ x # taker /\ Seen(x) => SameOrder(x)
    BY <1>3 DEF SameOrder, Seen
  <2> QED  BY <2>1, <2>2, <2>3
<1>11. Seen(m) /\ Seen(taker)
  <2>1. orders[taker].status # "UNSEEN"
    BY <1>3, <1>7 DEF CheckpointSound, Shapes, Shape
  <2> QED  BY <2>1, <1>1, <1>3, ActiveFacts DEF Seen
<1>12. /\ trades \in Seq(Trade) /\ fills \in Seq(Fill)
       /\ trades' \in Seq(Trade) /\ fills' \in Seq(Fill)
  BY <1>1 DEF BookSound, TypeOK
<1> DEFINE N == Len(trades)
<1>13. /\ N \in Nat /\ Len(trades') = N + 1 /\ DOMAIN trades' = 1 .. (N + 1)
       /\ trades'[N + 1] = t
       /\ \A n \in 1 .. N : n \in DOMAIN trades /\ trades'[n] = trades[n]
                            /\ trades[n] \in Trade
  <2>1. N \in Nat /\ DOMAIN trades = 1 .. N /\ \A n \in 1 .. N : trades[n] \in Trade
    BY <1>12, LenProperties, ElementOfSeq
  <2>2. /\ Len(Append(trades, t)) = N + 1 /\ Append(trades, t)[N + 1] = t
        /\ \A n \in 1 .. N : Append(trades, t)[n] = trades[n]
    BY <1>12, AppendProperties
  <2>3. DOMAIN trades' = 1 .. Len(trades')
    BY <1>12, LenProperties
  <2> HIDE DEF N
  <2> QED  BY <1>3, <2>1, <2>2, <2>3
<1>18. made \in Fill /\ taken \in Fill
  <2>1. /\ orders[m].owner \in Owners /\ orders[m].side \in Side
        /\ orders[taker].owner \in Owners /\ orders[taker].side \in Side
    BY <1>1, <1>3, NamedOrder DEF BookSound, ActiveAreQueued, TakerIsIncoming
  <2> QED  BY <1>3, <2>1 DEF FillOf, Fill
<1>14. /\ Len(fills) = 2 * N /\ Len(fills') = 2 * N + 2
       /\ fills'[2 * N + 1] = made /\ fills'[2 * N + 2] = taken
       /\ \A k \in 1 .. 2 * N : fills'[k] = fills[k]
  <2> DEFINE L == Len(fills)
             g == <<made, taken>>
  <2>1. L = 2 * N /\ L \in Nat
    BY <1>12, LenProperties DEF CheckpointSound, Recorded
  <2>2. g \in Seq(Fill) /\ Len(g) = 2 /\ g[1] = made /\ g[2] = taken
    BY <1>18
  <2> HIDE DEF g, made, taken
  <2>3. /\ Len(fills \o g) = L + 2
        /\ \A k \in 1 .. L + 2 :
             (fills \o g)[k] = IF k <= L THEN fills[k] ELSE g[k - L]
    <3>1. /\ Len(fills \o g) = Len(fills) + Len(g)
          /\ \A k \in 1 .. Len(fills) + Len(g) :
               (fills \o g)[k] = IF k <= Len(fills) THEN fills[k] ELSE g[k - Len(fills)]
      BY <1>12, <2>2, ConcatProperties, Zenon
    <3>2. Len(fills) + Len(g) = L + 2
      BY <2>2
    <3> QED  BY <3>1, <3>2, Zenon
  <2>4. fills' = fills \o g
    BY <1>3 DEF g
  <2> HIDE DEF L, N
  <2>5. (L + 1) - L = 1 /\ (L + 2) - L = 2 /\ ~(L + 1 <= L) /\ ~(L + 2 <= L)
        /\ L + 1 \in 1 .. L + 2 /\ L + 2 \in 1 .. L + 2
    BY <2>1
  <2>6. (fills \o g)[L + 1] = made /\ (fills \o g)[L + 2] = taken
    BY <2>2, <2>3, <2>5
  <2>7. \A k \in 1 .. L : k \in 1 .. L + 2 /\ k <= L
    BY <2>1
  <2>8. \A k \in 1 .. L : (fills \o g)[k] = fills[k]
    BY <2>3, <2>7
  <2> QED  BY <2>1, <2>3, <2>4, <2>6, <2>8 DEF L
<1>15. Recorded'
  <2>1. Len(fills') = 2 * Len(trades')
    BY <1>13, <1>14
  <2> SUFFICES ASSUME NEW n \in 1 .. (N + 1)
               PROVE  RecordedAt(n)'
    BY <2>1, <1>13 DEF Recorded
  <2> DEFINE u == trades'[n]
  <2>3. /\ u.maker # u.taker /\ Seen(u.maker) /\ Seen(u.taker)
        /\ u.maker \in Ids /\ u.taker \in Ids
        /\ orders[u.maker].type = "LIMIT"
        /\ orders[u.maker].price = u.price
        /\ orders[u.maker].side # u.side
        /\ orders[u.taker].side = u.side
        /\ fills'[2 * n - 1] = FillOf(u.maker, u, "maker")
        /\ fills'[2 * n] = FillOf(u.taker, u, "taker")
    <3>1. CASE n = N + 1
      <4>1. 2 * n - 1 = 2 * N + 1 /\ 2 * n = 2 * N + 2
        BY <3>1, <1>13
      <4> QED  BY <3>1, <4>1, <1>3, <1>4, <1>11, <1>13, <1>14
    <3>2. CASE n # N + 1
      <4>1. n \in 1 .. N /\ 2 * n - 1 \in 1 .. 2 * N /\ 2 * n \in 1 .. 2 * N
        BY <3>2, <1>13
      <4>2. /\ u = trades[n] /\ u.maker \in Ids /\ u.taker \in Ids
            /\ fills'[2 * n - 1] = fills[2 * n - 1] /\ fills'[2 * n] = fills[2 * n]
        BY <4>1, <1>13, <1>14 DEF Trade
      <4>3. n \in DOMAIN trades
        BY <4>1, <1>13
      <4> QED  BY <4>2, <4>3 DEF CheckpointSound, Recorded, RecordedAt
    <3> QED  BY <3>1, <3>2
  <2>4. SameOrder(u.maker) /\ SameOrder(u.taker)
    BY <1>10, <2>3
  <2> QED  BY <2>3, <2>4 DEF RecordedAt, SameOrder, Seen, FillOf
<1>16. FilledAsTraded'
  <2> SUFFICES ASSUME NEW x \in Ids
               PROVE  orders'[x].filled = TradedBy(trades', x)
    BY DEF FilledAsTraded
  <2>1. TradedBy(trades', x) =
          TradedBy(trades, x) + IF x \in {m, taker} THEN q ELSE 0
    BY <1>3, <1>12, TradedAppend
  <2>2. orders[x].filled = TradedBy(trades, x) /\ TradedBy(trades, x) \in Nat
    BY <1>12, TradedAppend DEF CheckpointSound, FilledAsTraded
  <2>3. orders'[x].filled = orders[x].filled + IF x \in {m, taker} THEN q ELSE 0
    BY <2>2, <1>3, <1>5, <1>6
  <2> QED  BY <2>1, <2>2, <2>3
<1>17. LedgerAsFilled'
  <2> HIDE DEF made, taken
  <2>2. Append(fills, made) \in Seq(Fill)
    BY <1>18, <1>12, AppendProperties
  <2>3. fills' = Append(Append(fills, made), taken)
    BY <1>3, <1>12, <1>18
  <2>4. position' = Ledger(Append(Append(fills, made), taken))
    BY <1>3, <1>12, <1>18, <2>2, LedgerAppend DEF CheckpointSound, LedgerAsFilled
  <2> QED  BY <2>3, <2>4 DEF LedgerAsFilled
<1> QED  BY <1>1, <1>8, <1>9, <1>15, <1>16, <1>17 DEF CheckpointSound

-----------------------------------------------------------------------------
(* What restore accepts *)

\* An empty book can be saved.
LEMMA EmptyChecked == Init => CheckpointSound
<1> SUFFICES ASSUME Init PROVE CheckpointSound
  OBVIOUS
<1>1. BookSound
  BY EmptyBookSound
<1>2. /\ \A id \in Ids : orders[id] = Unseen
      /\ active = {} /\ restingSequence = 0 /\ trades = <<>> /\ fills = <<>>
      /\ position = [bought |-> 0, sold |-> 0, net |-> 0] /\ taker = NoOrder
  BY DEF Init
<1>3. /\ Unseen.type = "CANCEL" /\ Unseen.status = "UNSEEN" /\ Unseen.original = 0
      /\ Unseen.resting = 0 /\ Unseen.filled = 0
  BY DEF Unseen, Pristine
<1>4. Shapes
  BY <1>2, <1>3, NamedOrder DEF Shapes, Shape
<1>5. Arrivals
  BY <1>2, <1>3 DEF Arrivals
<1>6. Recorded
  BY <1>2 DEF Recorded
<1>7. FilledAsTraded
  BY <1>2, <1>3, NothingTraded DEF FilledAsTraded
<1>8. LedgerAsFilled
  BY <1>2, NothingTraded DEF LedgerAsFilled, Ledger
<1> QED  BY <1>1, <1>4, <1>5, <1>6, <1>7, <1>8 DEF CheckpointSound

\* Every step of every call keeps the checkpoint sound.
LEMMA NextIsChecked ==
  ASSUME CheckpointSound, [Next]_vars
  PROVE  CheckpointSound'
<1>1. ASSUME NEW id \in Ids, NEW o \in Limits \cup Markets, Submit(id, o)
      PROVE  CheckpointSound'
  BY <1>1, SubmitChecked
<1>2. CASE Match
  BY <1>2, MatchChecked
<1>3. CASE Rest
  BY <1>3, RestChecked
<1>4. CASE Expire
  BY <1>4, ExpireChecked
<1>5. CASE Filled
  BY <1>5, FilledChecked
<1>6. ASSUME NEW target \in Ids, NEW command \in Ids, Cancel(target, command)
      PROVE  CheckpointSound'
  BY <1>6, CancelChecked
<1>7. ASSUME NEW target \in Ids, NEW command \in Ids, NEW id \in Ids,
             NEW o \in Limits, Replace(target, command, id, o)
      PROVE  CheckpointSound'
  BY <1>7, ReplaceChecked
<1>8. ASSUME NEW target \in Ids, NEW command \in Ids, NEW q \in Quantities,
             NEW total \in 1 .. q, Reduce(target, total, command)
      PROVE  CheckpointSound'
  <2>1. total \in Nat
    BY QuantityAssumption
  <2> QED  BY <1>8, <2>1, ReduceChecked
<1>9. CASE UNCHANGED vars
  <2>1. UNCHANGED <<orders, active, queue, prices, restingSequence, trades, fills,
                    position, taker>>
    BY <1>9 DEF vars
  <2>2. BookSound'
    BY NextIsGood DEF GoodStep, CheckpointSound
  <2>3. Shapes'
    BY <2>1 DEF CheckpointSound, Shapes, Shape
  <2>4. Quiet
    BY <2>1 DEF Quiet, SameOrder, Seen
  <2> QED  BY <2>2, <2>3, <2>4, QuietKeeps
<1> QED
  <2>1. Free \subseteq Ids /\ active \subseteq Ids
    BY ActiveFacts DEF Free, CheckpointSound
  <2> QED
    BY <1>1, <1>2, <1>3, <1>4, <1>5, <1>6, <1>7, <1>8, <1>9, <2>1 DEF Next, Loop

\* The sums of the checkpoint's histories, as restore computes them.
LEMMA TradesSummed ==
  ASSUME TypeOK, NEW id
  PROVE  MapThenSumSet(LAMBDA n : trades[n].quantity, Naming(trades, id))
           = TradedBy(trades, id)
<1> DEFINE S == Naming(trades, id)
<1>1. MapThenSumSet(LAMBDA n : trades[n].quantity, S) = OfTrades!Sum(S)
  BY DEF OfTrades!Sum, TradeQuantity, MapThenSumSet, MapThenFoldSet,
         OfTrades!MapThenSumSet, OfTrades!MapThenFoldSet
<1>2. /\ trades \in Seq(Trade) /\ Len(trades) \in Nat
      /\ DOMAIN trades = 1 .. Len(trades)
  BY LenProperties DEF TypeOK
<1>3. \A n \in S : /\ Amounts(trades)[n] = TradeQuantity(n)
                   /\ TradeQuantity(n) \in Int
  <2> SUFFICES ASSUME NEW n \in S
               PROVE  /\ Amounts(trades)[n] = TradeQuantity(n)
                      /\ TradeQuantity(n) \in Int
    OBVIOUS
  <2>1. n \in DOMAIN trades
    BY DEF Naming
  <2>2. trades[n] \in Trade
    BY <2>1, <1>2, ElementOfSeq
  <2> QED  BY <2>1, <2>2 DEF Amounts, TradeQuantity, Trade
<1>4. OfTrades!IsFiniteSet(S)
  <2>1. IsFiniteSet(1 .. Len(trades)) /\ S \subseteq 1 .. Len(trades)
    BY <1>2, FS_Interval DEF Naming
  <2> QED  BY <2>1, FS_Subset, CheckpointFinite
<1>5. OfTrades!Sum(S) = OfTrades!Total(Amounts(trades), S)
  <2> DEFINE w == Amounts(trades)
  <2> HIDE DEF w, S
  <2>1. \A n \in S : w[n] = TradeQuantity(n) /\ TradeQuantity(n) \in Int
    BY <1>3 DEF w
  <2>2. OfTrades!Sum(S) = OfTrades!Total(w, S)
    BY <1>4, <2>1, OfTrades!SumOf
  <2> QED  BY <2>2 DEF w
<1> QED  BY <1>1, <1>5 DEF TradedBy

\* And those of the fills.
LEMMA FillsSummed ==
  ASSUME TypeOK, NEW s
  PROVE  MapThenSumSet(LAMBDA n : fills[n].quantity, Mine(fills, s)) = Earned(fills, s)
<1> DEFINE S == Mine(fills, s)
<1>1. MapThenSumSet(LAMBDA n : fills[n].quantity, S) = OfFills!Sum(S)
  BY DEF OfFills!Sum, FillQuantity, MapThenSumSet, MapThenFoldSet,
         OfFills!MapThenSumSet, OfFills!MapThenFoldSet
<1>2. /\ fills \in Seq(Fill) /\ Len(fills) \in Nat
      /\ DOMAIN fills = 1 .. Len(fills)
  BY LenProperties DEF TypeOK
<1>3. \A n \in S : /\ Amounts(fills)[n] = FillQuantity(n)
                   /\ FillQuantity(n) \in Int
  <2> SUFFICES ASSUME NEW n \in S
               PROVE  /\ Amounts(fills)[n] = FillQuantity(n)
                      /\ FillQuantity(n) \in Int
    OBVIOUS
  <2>1. n \in DOMAIN fills
    BY DEF Mine
  <2>2. fills[n] \in Fill
    BY <2>1, <1>2, ElementOfSeq
  <2> QED  BY <2>1, <2>2 DEF Amounts, FillQuantity, Fill
<1>4. OfFills!IsFiniteSet(S)
  <2>1. IsFiniteSet(1 .. Len(fills)) /\ S \subseteq 1 .. Len(fills)
    BY <1>2, FS_Interval DEF Mine
  <2>2. IsFiniteSet(S)
    BY <2>1, FS_Subset
  <2> QED  BY <2>2 DEF IsFiniteSet, OfFills!IsFiniteSet
<1>5. OfFills!Sum(S) = OfFills!Total(Amounts(fills), S)
  <2> DEFINE w == Amounts(fills)
  <2> HIDE DEF w, S
  <2>1. \A n \in S : w[n] = FillQuantity(n) /\ FillQuantity(n) \in Int
    BY <1>3 DEF w
  <2>2. OfFills!Sum(S) = OfFills!Total(w, S)
    BY <1>4, <2>1, OfFills!SumOf
  <2> QED  BY <2>2 DEF w
<1>6. OfFills!Total(Amounts(fills), S) = OfTrades!Total(Amounts(fills), S)
  BY DEF OfFills!Total, OfTrades!Total, OfFills!MapThenSumSet, OfFills!MapThenFoldSet,
         OfTrades!MapThenSumSet, OfTrades!MapThenFoldSet
<1> QED  BY <1>1, <1>5, <1>6 DEF Earned

\* _decode_order accepts every registered order.
LEMMA OrdersDecode ==
  ASSUME CheckpointSound, taker = NoOrder, NEW id \in Registered
  PROVE  DecodesOrder(orders[id])
<1> DEFINE o == orders[id]
<1>1. /\ id \in Ids /\ o \in Order /\ o.status # "UNSEEN" /\ Shape(id)
      /\ o.original = o.filled + o.cancelled + o.remaining
  BY DEF Registered, Seen, CheckpointSound, Shapes, BookSound, Conserved, TypeOK
<1>2. o.filled \in Nat /\ o.cancelled \in Nat /\ o.remaining \in Nat
      /\ o.type \in OrderType
  BY <1>1 DEF Order
<1>3. o.remaining + o.filled + o.cancelled = o.original
  <2> DEFINE f == o.filled c == o.cancelled r == o.remaining
  <2>1. f \in Nat /\ c \in Nat /\ r \in Nat /\ o.original = f + c + r
    BY <1>1, <1>2
  <2> HIDE DEF f, c, r, o
  <2>2. o.original = r + f + c
    BY <2>1
  <2> QED  BY <2>2 DEF f, c, r
<1>4. CASE id \in active
  <2>1. /\ o.type = "LIMIT" /\ o.remaining > 0 /\ o.resting > 0
        /\ o.status = IF o.filled = 0 THEN "ACTIVE" ELSE "PARTIALLY_FILLED"
    <3>1. o.resting \in 1 .. restingSequence /\ restingSequence \in Nat
      BY <1>4 DEF CheckpointSound, BookSound, ActiveAreQueued, TypeOK
    <3>2. o.resting > 0
      BY <3>1
    <3> QED  BY <3>2, <1>4, ActiveIsLimit
              DEF CheckpointSound, BookSound, ActiveAreQueued
  <2> HIDE DEF o
  <2> QED  BY <2>1, <1>2, <1>3 DEF DecodesOrder, o
<1>5. CASE id \notin active
  <2>1. id # taker
    BY <1>1, NamedOrder
  <2>2. CASE o.type = "CANCEL"
    <3>1. o.status = "APPLIED" /\ o.resting = 0
      BY <1>1, <2>2 DEF Shape
    <3> QED  BY <3>1, <1>3, <2>2 DEF DecodesOrder
  <2>3. CASE o.type # "CANCEL"
    <3>1. /\ o.remaining = 0
          /\ \/ o.status = "FILLED" /\ o.filled > 0
             \/ o.status \in {"CANCELLED", "EXPIRED"} /\ o.cancelled > 0
          /\ o.resting # 0 => o.type = "LIMIT"
      BY <1>1, <1>5, <2>1, <2>3 DEF Shape
    <3> QED  BY <3>1, <1>3, <2>3 DEF DecodesOrder
  <2> QED  BY <2>2, <2>3
<1> QED  BY <1>4, <1>5

\* Between two calls the orders with quantity left are the live ones.
LEMMA LiveIsActive ==
  ASSUME CheckpointSound, taker = NoOrder, NEW id \in Ids
  PROVE  orders[id].remaining > 0 <=> id \in active
<1>1. id \in active => orders[id].remaining > 0
  BY ActiveIsLimit DEF CheckpointSound
<1>2. ASSUME id \notin active
      PROVE  ~(orders[id].remaining > 0)
  <2>1. Shape(id) /\ id # taker
    BY NamedOrder DEF CheckpointSound, Shapes
  <2>2. CASE orders[id].type # "CANCEL"
    BY <1>2, <2>1, <2>2 DEF Shape
  <2>3. CASE orders[id].type = "CANCEL"
    <3>1. orders[id].original = 0
      BY <2>1, <2>3 DEF Shape
    <3>2. /\ orders[id].original
               = orders[id].filled + orders[id].cancelled + orders[id].remaining
          /\ orders[id] \in Order
      BY DEF CheckpointSound, BookSound, Conserved, TypeOK
    <3>3. /\ orders[id].filled \in Nat /\ orders[id].cancelled \in Nat
          /\ orders[id].remaining \in Nat
      BY <3>2 DEF Order
    <3>4. \A f, c, r \in Nat : 0 = f + c + r => ~(r > 0)
      OBVIOUS
    <3> QED  BY <3>1, <3>2, <3>3, <3>4
  <2> QED  BY <2>2, <2>3
<1> QED  BY <1>1, <1>2

\* _decode_levels accepts the queues.
LEMMA LevelsDecode ==
  ASSUME CheckpointSound, taker = NoOrder
  PROVE  DecodesLevels
<1> DEFINE At(x) == queue[x[1]][x[2]][x[3]]
<1> SUFFICES /\ \A x \in QueuePlaces : /\ orders[At(x)].side = x[1]
                                   /\ orders[At(x)].price = x[2]
                                   /\ orders[At(x)].remaining > 0
                                   /\ orders[At(x)].resting # 0
             /\ \A x, y \in QueuePlaces :
                  /\ At(x) = At(y) => x = y
                  /\ x[1] = y[1] /\ x[2] = y[2] /\ x[3] < y[3] =>
                       orders[At(x)].resting < orders[At(y)].resting
             /\ {At(x) : x \in QueuePlaces} = {id \in Ids : orders[id].remaining > 0}
             /\ \A b \in prices["BUY"], a \in prices["SELL"] : b < a
  BY Zenon DEF DecodesLevels
<1>1. \A x \in QueuePlaces :
        /\ x[1] \in Side /\ x[2] \in Prices /\ x[3] \in DOMAIN queue[x[1]][x[2]]
        /\ x = <<x[1], x[2], x[3]>>
  BY DEF QueuePlaces
<1>2. ASSUME NEW s \in Side, NEW p \in Prices, NEW i \in DOMAIN queue[s][p]
      PROVE  <<s, p, i>> \in QueuePlaces
  <2> DEFINE Q == {<<s, p, j>> : j \in DOMAIN queue[s][p]}
  <2>1. <<s, p, i>> \in Q
    OBVIOUS
  <2>2. Q \in {{<<t, r, j>> : j \in DOMAIN queue[t][r]} : t \in Side, r \in Prices}
    OBVIOUS
  <2> HIDE DEF Q
  <2> QED  BY <2>1, <2>2 DEF QueuePlaces
<1>3. \A s \in Side, p \in Prices :
        /\ DOMAIN queue[s][p] \subseteq Nat
        /\ \A i \in DOMAIN queue[s][p] :
             LET id == queue[s][p][i]
             IN /\ id \in active /\ orders[id].side = s /\ orders[id].price = p
                /\ orders[id].remaining > 0 /\ orders[id].resting \in Nat \ {0}
  <2> SUFFICES ASSUME NEW s \in Side, NEW p \in Prices
               PROVE  /\ DOMAIN queue[s][p] \subseteq Nat
                      /\ \A i \in DOMAIN queue[s][p] :
                           LET id == queue[s][p][i]
                           IN /\ id \in active
                              /\ orders[id].side = s /\ orders[id].price = p
                              /\ orders[id].remaining > 0
                              /\ orders[id].resting \in Nat \ {0}
    OBVIOUS
  <2>1. DOMAIN queue[s][p] \subseteq Nat
    <3>1. queue[s][p] \in Seq(Ids)
      BY DEF CheckpointSound, BookSound, TypeOK
    <3>2. DOMAIN queue[s][p] = 1 .. Len(queue[s][p]) /\ Len(queue[s][p]) \in Nat
      BY <3>1, LenProperties
    <3> QED  BY <3>2
  <2>2. ASSUME NEW i \in DOMAIN queue[s][p]
        PROVE  LET id == queue[s][p][i]
               IN /\ id \in active
                  /\ orders[id].side = s /\ orders[id].price = p
                  /\ orders[id].remaining > 0
                  /\ orders[id].resting \in Nat \ {0}
    <3> DEFINE id == queue[s][p][i]
    <3>1. id \in active /\ orders[id].side = s /\ orders[id].price = p
      BY DEF CheckpointSound, BookSound, QueuedAreLive
    <3>2. orders[id].remaining > 0 /\ orders[id].resting \in 1 .. restingSequence
          /\ restingSequence \in Nat
      BY <3>1 DEF CheckpointSound, BookSound, ActiveAreQueued, TypeOK
    <3>3. orders[id].resting \in Nat \ {0}
      BY <3>2
    <3> QED  BY <3>1, <3>2, <3>3
  <2> QED  BY <2>1, <2>2
<1>4. \A x \in QueuePlaces : /\ orders[At(x)].side = x[1] /\ orders[At(x)].price = x[2]
                        /\ orders[At(x)].remaining > 0
                        /\ orders[At(x)].resting # 0
  BY <1>1, <1>3
<1>5. \A x, y \in QueuePlaces :
        x[1] = y[1] /\ x[2] = y[2] /\ x[3] < y[3] =>
          orders[At(x)].resting < orders[At(y)].resting
  BY <1>1 DEF CheckpointSound, BookSound, FirstInFirst
<1>6. ASSUME NEW x \in QueuePlaces, NEW y \in QueuePlaces, At(x) = At(y)
      PROVE  x = y
  <2>1. x[1] = y[1] /\ x[2] = y[2]
    BY <1>4, <1>6, Zenon
  <2>2. orders[At(x)].resting \in Nat /\ x[3] \in Nat /\ y[3] \in Nat
    BY <1>1, <1>3
  <2>3. ~(x[3] < y[3]) /\ ~(y[3] < x[3])
    <3> HIDE DEF At
    <3> QED  BY <1>5, <1>6, <2>1, <2>2
  <2>4. x[3] = y[3]
    BY <2>2, <2>3
  <2> QED  BY <1>1, <2>1, <2>4
<1>7. {At(x) : x \in QueuePlaces} = {id \in Ids : orders[id].remaining > 0}
  <2>1. ASSUME NEW x \in QueuePlaces
        PROVE  At(x) \in Ids /\ orders[At(x)].remaining > 0
    <3>1. At(x) \in active
      BY <1>1, <1>3
    <3> QED  BY <3>1, <1>4, ActiveIsLimit DEF CheckpointSound
  <2>2. ASSUME NEW id \in Ids, orders[id].remaining > 0
        PROVE  \E x \in QueuePlaces : At(x) = id
    <3>1. id \in active
      BY <2>2, LiveIsActive
    <3>2. /\ orders[id].side \in Side /\ orders[id].price \in Prices
          /\ \E i \in DOMAIN queue[orders[id].side][orders[id].price] :
               queue[orders[id].side][orders[id].price][i] = id
      BY <3>1 DEF CheckpointSound, BookSound, ActiveAreQueued
    <3>3. PICK i \in DOMAIN queue[orders[id].side][orders[id].price] :
            queue[orders[id].side][orders[id].price][i] = id
      BY <3>2
    <3> DEFINE x == <<orders[id].side, orders[id].price, i>>
    <3>4. x \in QueuePlaces /\ At(x) = id
      BY <3>2, <3>3, <1>2
    <3> QED  BY <3>4
  <2> QED  BY <2>1, <2>2
<1>8. \A b \in prices["BUY"], a \in prices["SELL"] : b < a
  BY DEF CheckpointSound, BookSound, NotCrossed
<1> QED  BY <1>4, <1>5, <1>6, <1>7, <1>8, Zenon

\* The arrival numbers are those of the resting counter.
LEMMA ArrivalsDecode ==
  ASSUME CheckpointSound
  PROVE  DecodesArrivals
<1> DEFINE rested == {id \in Registered : orders[id].resting # 0}
           f == [id \in rested |-> orders[id].resting]
           R == restingSequence
<1>1. /\ R \in Nat
      /\ \A id \in Ids : orders[id].resting \in 0 .. R
      /\ \A n \in 1 .. R : \E id \in Ids : orders[id].resting = n
      /\ \A a, b \in Ids :
           orders[a].resting # 0 /\ orders[a].resting = orders[b].resting => a = b
  BY DEF CheckpointSound, Arrivals, BookSound, TypeOK
<1>2. \A id \in Ids : id \in rested <=> orders[id].resting # 0
  BY FreeIsEmpty DEF Registered
<1>3. rested \subseteq Ids
  BY DEF Registered
<1>4. \A id \in rested : f[id] = orders[id].resting /\ f[id] \in 1 .. R
  BY <1>1, <1>2, <1>3
<1>5. \A n \in 1 .. R : \E id \in rested : f[id] = n
  <2> SUFFICES ASSUME NEW n \in 1 .. R
               PROVE  \E id \in rested : f[id] = n
    OBVIOUS
  <2>1. PICK id \in Ids : orders[id].resting = n
    BY <1>1
  <2>2. n # 0
    BY <1>1
  <2> QED  BY <2>1, <2>2, <1>2, <1>4
<1>6. \A a, b \in rested : f[a] = f[b] => a = b
  BY <1>1, <1>2, <1>3, <1>4
<1>7. {orders[id].resting : id \in rested} = 1 .. R
  <2> HIDE DEF rested, R, f
  <2> QED  BY <1>4, <1>5
<1> DEFINE g == [n \in 1 .. R |-> CHOOSE id \in rested : f[id] = n]
<1> HIDE DEF rested, R, f
<1>8. \A n \in 1 .. R : g[n] \in rested /\ f[g[n]] = n
  BY <1>5
<1>9. \A id \in rested : f[id] \in 1 .. R /\ g[f[id]] = id
  BY <1>4, <1>6, <1>8
<1>10. g \in [1 .. R -> rested]
  BY <1>8
<1> HIDE DEF g
<1>11. g \in Bijection(1 .. R, rested)
  BY <1>8, <1>9, <1>10 DEF Bijection, Injection, Surjection, IsInjective
<1>12. Cardinality(rested) = R
  BY <1>1, <1>11, FS_CountingElements DEF ExistsBijection
<1> QED  BY <1>7, <1>12 DEF DecodesArrivals, rested, R

\* The trades, fills and position are accepted.
LEMMA HistoryDecodes ==
  ASSUME CheckpointSound
  PROVE  DecodesHistory /\ DecodesPosition
<1>1. Len(fills) = 2 * Len(trades) /\ TypeOK
  BY DEF CheckpointSound, Recorded, BookSound
<1>2. ASSUME NEW n \in DOMAIN trades
      PROVE  LET t == trades[n]  made == fills[2 * n - 1]  taken == fills[2 * n]
             IN /\ t.maker # t.taker
                /\ orders[t.maker].type = "LIMIT"
                /\ orders[t.maker].price = t.price
                /\ orders[t.maker].side # t.side
                /\ orders[t.taker].side = t.side
                /\ made = [FillOf(t.maker, t, "maker") EXCEPT !.quantity = t.quantity]
                /\ taken = [FillOf(t.taker, t, "taker") EXCEPT !.quantity = t.quantity]
  <2>1. RecordedAt(n)
    BY DEF CheckpointSound, Recorded
  <2>2. \A id, t, side : [FillOf(id, t, side) EXCEPT !.quantity = t.quantity] = FillOf(id, t, side)
    BY DEF FillOf
  <2> QED  BY <2>1, <2>2 DEF RecordedAt
<1>3. ASSUME NEW id \in Registered
      PROVE  orders[id].filled =
               MapThenSumSet(LAMBDA n : trades[n].quantity,
                             {n \in DOMAIN trades : id \in {trades[n].maker, trades[n].taker}})
  <2>1. orders[id].filled = TradedBy(trades, id)
    BY DEF Registered, CheckpointSound, FilledAsTraded
  <2> QED  BY <1>1, <2>1, TradesSummed DEF Naming
<1>4. DecodesHistory
  BY <1>1, <1>2, <1>3 DEF DecodesHistory
<1>5. DecodesPosition
  <2>1. position = Ledger(fills)
    BY DEF CheckpointSound, LedgerAsFilled
  <2>2. /\ MapThenSumSet(LAMBDA n : fills[n].quantity, Mine(fills, "BUY"))
             = Earned(fills, "BUY")
        /\ MapThenSumSet(LAMBDA n : fills[n].quantity, Mine(fills, "SELL"))
             = Earned(fills, "SELL")
    BY <1>1, FillsSummed
  <2> QED  BY <2>1, <2>2 DEF DecodesPosition, Ledger, Mine
<1> QED  BY <1>4, <1>5

\* Whatever calls were made, the book between two of them can be saved and
\* OrderBook.restore accepts it: the orders, the levels, the arrival numbers,
\* the trades with their fills and the player's position all agree.
THEOREM AlwaysRestorable == Spec => []Restorable
<1>1. CheckpointSound /\ [Next]_vars => CheckpointSound'
  BY NextIsChecked
<1>2. CheckpointSound => Restorable
  <2> SUFFICES ASSUME CheckpointSound, taker = NoOrder
               PROVE  /\ \A id \in Registered : DecodesOrder(orders[id])
                      /\ DecodesLevels /\ DecodesArrivals
                      /\ DecodesHistory /\ DecodesPosition
    BY DEF Restorable
  <2> QED  BY OrdersDecode, LevelsDecode, ArrivalsDecode, HistoryDecodes
<1> QED  BY EmptyChecked, <1>1, <1>2, PTL DEF Spec

-----------------------------------------------------------------------------
(* The market.  While the loop runs, the market still sees what it has      *)
(* traded in the orders it was taken from; MarketSound says that it has     *)
(* taken what the closed form of price-time priority allots.                *)

PT == INSTANCE PriceTimeProofs

\* The trades of the call in the loop.
Flying == {n \in DOMAIN trades : trades[n].taker = taker}

\* The IDs of the orders the market sees resting, and what it sees of each.
Live == {x \in Ids : x \in active \/ InFlight(x) > 0}

Entry(x) ==
  [id |-> x, side |-> orders[x].side, price |-> orders[x].price,
   arrival |-> orders[x].resting, quantity |-> orders[x].remaining + InFlight(x)]

\* Those the incoming order may trade with.
Within == PT!Eligible(restingBar, orders[taker].side, orders[taker].price)

\* A trading order keeps the form it was submitted in.
Forms ==
  \A id \in Ids : orders[id].type # "CANCEL" =>
    /\ orders[id].side \in Side
    /\ orders[id].original \in Quantities
    /\ orders[id].price \in IF orders[id].type = "LIMIT" THEN Prices ELSE {0}

\* A maker rested before it traded.
MakersRested ==
  \A n \in DOMAIN trades :
    trades[n].quantity > 0 /\ orders[trades[n].maker].resting # 0

\* A call trades with an order once.
Once == \A n, m \in Flying : trades[n].maker = trades[m].maker => n = m

\* What the loop has traded so far is what price-time priority allots of the
\* quantity filled so far.
AsAllotted ==
  taker # NoOrder =>
    LET o == orders[taker]
    IN /\ o.remaining > 0 => \A x \in active : InFlight(x) = 0
       /\ \A x \in restingBar : InFlight(x.id) = PT!Gave(x, o.filled, Within)
       /\ o.filled <= PT!QuantityOf(Within)

Based == CheckpointSound /\ Forms /\ MakersRested /\ Once

\* The inductive invariant behind ImplementsMarket.
MarketSound == Based /\ AsAllotted

-----------------------------------------------------------------------------
(* The market's operators *)

\* The market is stated with the operators the closed form's lemmas are about.
LEMMA MarketIs ==
  /\ \A R, side, limit : M!Eligible(R, side, limit) = PT!Eligible(R, side, limit)
  /\ \A r, q, E : M!Allotted(r, q, E) = PT!Allotted(r, q, E)
  /\ \A R, side, limit, q :
       /\ M!Executed(R, side, limit, q) = PT!Executed(R, side, limit, q)
       /\ M!Makers(R, side, limit, q) = PT!Makers(R, side, limit, q)
       /\ M!Swept(R, side, limit, q) = PT!Swept(R, side, limit, q)
<1>1. \A R, side, limit : M!Eligible(R, side, limit) = PT!Eligible(R, side, limit)
  BY DEF M!Eligible, PT!Eligible
<1>2. \A R : M!QuantityOf(R) = PT!QuantityOf(R)
  BY DEF M!QuantityOf, PT!QuantityOf, M!MapThenSumSet, PT!MapThenSumSet,
         M!MapThenFoldSet, PT!MapThenFoldSet
<1>3. \A r, q, E : M!Allotted(r, q, E) = PT!Allotted(r, q, E)
  BY <1>2 DEF M!Allotted, PT!Allotted, M!Served, PT!Served, M!Least, PT!Least
<1>4. \A R, side, limit, q :
        M!Executed(R, side, limit, q) = PT!Executed(R, side, limit, q)
  BY <1>1, <1>2 DEF M!Executed, PT!Executed, M!Least, PT!Least
<1>5. \A R, side, limit, q :
        M!Makers(R, side, limit, q) = PT!Makers(R, side, limit, q)
  BY <1>1, <1>3 DEF M!Makers, PT!Makers
<1>6. \A R, side, limit, q :
        M!Swept(R, side, limit, q) = PT!Swept(R, side, limit, q)
  BY <1>1, <1>3 DEF M!Swept, PT!Swept
<1> QED  BY <1>1, <1>3, <1>4, <1>5, <1>6

\* The sums' notion of a finite set is the closed form's.
LEMMA MarketFinite == \A S : PT!IsFiniteSet(S) <=> IsFiniteSet(S)
  BY DEF IsFiniteSet, PT!IsFiniteSet

-----------------------------------------------------------------------------
(* What is in flight *)

By(id) == {n \in Flying : trades[n].maker = id}

LEMMA TradeTypes ==
  ASSUME TypeOK, NEW n \in DOMAIN trades
  PROVE  /\ trades[n] \in Trade
         /\ trades[n].maker \in Ids /\ trades[n].taker \in Ids
         /\ trades[n].quantity \in Nat
<1>1. trades \in Seq(Trade)
  BY DEF TypeOK
<1>2. n \in 1 .. Len(trades)
  BY <1>1, LenProperties
<1>3. trades[n] \in Trade
  BY <1>1, <1>2, ElementOfSeq
<1> QED  BY <1>3 DEF Trade

LEMMA InFlightSum ==
  ASSUME TypeOK, NEW id
  PROVE  InFlight(id) = OfTrades!Total(Amounts(trades), By(id))
<1> DEFINE S == By(id)
<1>0. {n \in DOMAIN trades \ Done : trades[n].maker = id} = S
  BY DEF By, Flying, Done
<1>1. InFlight(id) = OfTrades!Sum(S)
  BY <1>0 DEF InFlight, OfTrades!Sum, TradeQuantity, MapThenSumSet, MapThenFoldSet,
              OfTrades!MapThenSumSet, OfTrades!MapThenFoldSet
<1>2. /\ Len(trades) \in Nat /\ DOMAIN trades = 1 .. Len(trades)
  BY LenProperties DEF TypeOK
<1>3. \A n \in S : /\ Amounts(trades)[n] = TradeQuantity(n)
                   /\ TradeQuantity(n) \in Int
  BY TradeTypes DEF By, Flying, Amounts, TradeQuantity
<1>4. OfTrades!IsFiniteSet(S)
  <2>1. IsFiniteSet(1 .. Len(trades)) /\ S \subseteq 1 .. Len(trades)
    BY <1>2, FS_Interval DEF By, Flying
  <2> QED  BY <2>1, FS_Subset, CheckpointFinite
<1>5. OfTrades!Sum(S) = OfTrades!Total(Amounts(trades), S)
  <2> DEFINE w == Amounts(trades)
  <2> HIDE DEF w, S
  <2>1. \A n \in S : w[n] = TradeQuantity(n) /\ TradeQuantity(n) \in Int
    BY <1>3 DEF w
  <2>2. OfTrades!Sum(S) = OfTrades!Total(w, S)
    BY <1>4, <2>1, OfTrades!SumOf
  <2> QED  BY <2>2 DEF w
<1> QED  BY <1>1, <1>5

\* With one trade for each maker, what is in flight of an order is that trade's
\* quantity.
InFlightIs ==
  /\ \A id \in Ids : By(id) = {} => InFlight(id) = 0
  /\ Once => \A id \in Ids : \A n \in Flying :
               trades[n].maker = id => InFlight(id) = trades[n].quantity

LEMMA Flown == TypeOK => InFlightIs
<1> SUFFICES ASSUME TypeOK PROVE InFlightIs
  OBVIOUS
<1>1. \A id \in Ids : By(id) = {} => InFlight(id) = 0
  BY InFlightSum, OfTrades!TotalEmpty
<1>2. ASSUME Once, NEW n \in Flying
      PROVE  InFlight(trades[n].maker) = trades[n].quantity
  <2> DEFINE id == trades[n].maker
             w == Amounts(trades)
  <2>1. By(id) = {} \cup {n}
    BY <1>2 DEF By, Once
  <2>2. w[n] = trades[n].quantity /\ w[n] \in Nat
    BY TradeTypes DEF Flying, Amounts
  <2>3. InFlight(id) = OfTrades!Total(w, {} \cup {n})
    BY <2>1, InFlightSum
  <2> HIDE DEF w
  <2>4. OfTrades!IsFiniteSet({}) /\ n \notin {} /\ \A y \in {} \cup {n} : w[y] \in Int
    BY <2>2, CheckpointFinite, FS_EmptySet
  <2>5. OfTrades!Total(w, {} \cup {n}) = w[n] + OfTrades!Total(w, {})
    BY <2>4, OfTrades!TotalAdd
  <2>6. OfTrades!Total(w, {}) = 0
    BY OfTrades!TotalEmpty
  <2> QED  BY <2>2, <2>3, <2>5, <2>6
<1> QED  BY <1>1, <1>2 DEF InFlightIs

LEMMA FlownThen == (TypeOK => InFlightIs)'
  BY Flown, PTL

LEMMA BarIs == restingBar = {Entry(x) : x \in Live}
  BY DEF restingBar, Entry, Live

LEMMA BarThen == (restingBar = {Entry(x) : x \in Live})'
  BY BarIs, PTL

-----------------------------------------------------------------------------
(* What the market sees resting *)

\* Between two calls nothing is in flight, nor when a new order enters.
Grounded ==
  (\A n \in DOMAIN trades : trades[n].taker # taker) =>
    (\A id \in Ids : InFlight(id) = 0) /\ Live = {x \in Ids : x \in active}

LEMMA NothingFlies == TypeOK => Grounded
<1> SUFFICES ASSUME TypeOK, \A n \in DOMAIN trades : trades[n].taker # taker
             PROVE  (\A id \in Ids : InFlight(id) = 0) /\ Live = {x \in Ids : x \in active}
  BY DEF Grounded
<1>1. \A id \in Ids : By(id) = {}
  BY DEF By, Flying
<1>2. \A id \in Ids : InFlight(id) = 0
  BY <1>1, Flown DEF InFlightIs
<1> QED  BY <1>2 DEF Live

LEMMA NothingFliesThen == (TypeOK => Grounded)'
  BY NothingFlies, PTL

LEMMA InFlightFacts ==
  ASSUME Based
  PROVE  /\ Once /\ TypeOK
         /\ \A id \in Ids : /\ InFlight(id) \in Nat
                            /\ InFlight(id) > 0 <=> By(id) # {}
         /\ \A n \in Flying : /\ InFlight(trades[n].maker) = trades[n].quantity
                              /\ trades[n].quantity > 0
                              /\ trades[n].maker \in Ids
<1>1. TypeOK
  BY DEF Based, CheckpointSound, BookSound
<1>2. Once
  BY DEF Based
<1>3. \A n \in Flying : /\ InFlight(trades[n].maker) = trades[n].quantity
                        /\ trades[n].quantity \in Nat /\ trades[n].quantity > 0
                        /\ trades[n].maker \in Ids
  BY <1>1, <1>2, Flown, TradeTypes DEF InFlightIs, Flying, Based, MakersRested
<1>4. ASSUME NEW id \in Ids
      PROVE  InFlight(id) \in Nat /\ (InFlight(id) > 0 <=> By(id) # {})
  <2>1. CASE By(id) = {}
    BY <1>1, <2>1, Flown DEF InFlightIs
  <2>2. CASE By(id) # {}
    <3>1. PICK n \in Flying : trades[n].maker = id
      BY <2>2 DEF By
    <3> QED  BY <1>3, <2>2, <3>1
  <2> QED  BY <2>1, <2>2
<1> QED  BY <1>1, <1>2, <1>3, <1>4

\* What the market sees of a live order, or of one that is filled but whose
\* trade the call has not finished.
LEMMA LiveFacts ==
  ASSUME Based, NEW x \in Live
  PROVE  /\ x \in Ids /\ orders[x] \in Order /\ x # taker
         /\ orders[x].type = "LIMIT" /\ orders[x].status # "UNSEEN"
         /\ orders[x].side \in Side /\ orders[x].price \in Prices
         /\ orders[x].resting \in 1 .. restingSequence /\ restingSequence \in Nat
         /\ orders[x].remaining \in Nat /\ InFlight(x) \in Nat
         /\ orders[x].remaining + InFlight(x) > 0
         /\ x \in active => orders[x].remaining > 0
         /\ x \notin active => orders[x].remaining = 0
<1>1. x \in Ids /\ orders[x] \in Order /\ TypeOK /\ InFlight(x) \in Nat
      /\ restingSequence \in Nat
  BY InFlightFacts DEF Live, TypeOK
<1>2. orders[x].remaining \in Nat /\ orders[x].resting \in Nat
  BY <1>1 DEF Order
<1>3. BookSound /\ Shape(x) /\ orders[x].resting \in 0 .. restingSequence
  BY <1>1 DEF Based, CheckpointSound, Shapes, Arrivals
<1>4. CASE x \in active
  <2>1. orders[x].type = "LIMIT" /\ orders[x].remaining > 0 /\ x # taker
    BY <1>3, <1>4, ActiveIsLimit
  <2>2. orders[x].resting \in 1 .. restingSequence /\ orders[x].status # "UNSEEN"
        /\ orders[x].side \in Side /\ orders[x].price \in Prices
    BY <1>3, <1>4 DEF BookSound, ActiveAreQueued
  <2> QED  BY <1>1, <1>2, <1>4, <2>1, <2>2
<1>5. CASE x \notin active
  <2>1. InFlight(x) > 0
    BY <1>5 DEF Live
  <2>2. PICK n \in Flying : trades[n].maker = x
    BY <1>1, <2>1, InFlightFacts DEF By
  <2>3. /\ n \in DOMAIN trades /\ trades[n].taker = taker
        /\ RecordedAt(n) /\ orders[x].resting # 0
    BY <2>2 DEF Flying, Based, CheckpointSound, Recorded, MakersRested
  <2>4. x # taker /\ orders[x].type = "LIMIT" /\ Seen(x)
    BY <2>2, <2>3 DEF RecordedAt
  <2>5. orders[x].remaining = 0
    BY <1>3, <1>5, <2>4 DEF Shape
  <2>6. orders[x].side \in Side /\ orders[x].price \in Prices
    BY <1>1, <2>4 DEF Based, Forms
  <2>7. orders[x].resting \in 1 .. restingSequence
    BY <1>1, <1>2, <1>3, <2>3
  <2> QED  BY <1>1, <1>2, <1>5, <2>1, <2>4, <2>5, <2>6, <2>7 DEF Seen
<1> QED  BY <1>4, <1>5

\* The closed form applies to it.
LEMMA BarOrdered ==
  ASSUME Based
  PROVE  PT!Ordered(restingBar) /\ PT!Records(restingBar)
<1>1. /\ \A x \in Live : /\ x \in Ids /\ orders[x].side \in Side
                         /\ orders[x].price \in Prices
                         /\ orders[x].resting \in 1 .. restingSequence
                         /\ restingSequence \in Nat
                         /\ orders[x].remaining + InFlight(x) \in Nat \ {0}
  <2> SUFFICES ASSUME NEW x \in Live
               PROVE  /\ x \in Ids /\ orders[x].side \in Side
                      /\ orders[x].price \in Prices
                      /\ orders[x].resting \in 1 .. restingSequence
                      /\ restingSequence \in Nat
                      /\ orders[x].remaining + InFlight(x) \in Nat \ {0}
    OBVIOUS
  <2> QED  BY LiveFacts
<1>2. \A x, y \in Live : orders[x].resting = orders[y].resting => x = y
  <2>1. \A a, b \in Ids :
          orders[a].resting # 0 /\ orders[a].resting = orders[b].resting => a = b
    BY DEF Based, CheckpointSound, Arrivals
  <2> QED  BY <1>1, <2>1
<1>3. restingSequence \in Nat
  BY DEF Based, CheckpointSound, BookSound, TypeOK
<1>4. IsFiniteSet(Live)
  <2> DEFINE f == [x \in Live |-> orders[x].resting]
  <2>1. f \in Injection(Live, 1 .. restingSequence)
    BY <1>1, <1>2 DEF Injection, IsInjective
  <2>2. IsFiniteSet(1 .. restingSequence)
    BY <1>3, FS_Interval
  <2> HIDE DEF f
  <2> QED  BY <2>1, <2>2, FS_Injection
<1>5. IsFiniteSet(restingBar)
  <2> DEFINE g == [x \in Live |-> Entry(x)]
  <2>1. restingBar = {g[x] : x \in Live}
    BY BarIs
  <2>2. PT!IsFiniteSet(Live)
    BY <1>4, MarketFinite
  <2> HIDE DEF g
  <2> QED  BY <2>1, <2>2, PT!FiniteImage, MarketFinite
<1>6. \A r \in restingBar : \E x \in Live : r = Entry(x)
  BY BarIs
<1>7. \A r \in restingBar : /\ r.side \in {"BUY", "SELL"} /\ r.price \in Int
                            /\ r.arrival \in Int /\ r.quantity \in Nat \ {0}
  <2> SUFFICES ASSUME NEW x \in Live
               PROVE  /\ Entry(x).side \in {"BUY", "SELL"} /\ Entry(x).price \in Int
                      /\ Entry(x).arrival \in Int /\ Entry(x).quantity \in Nat \ {0}
    BY <1>6
  <2>1. /\ Entry(x).side = orders[x].side /\ Entry(x).price = orders[x].price
        /\ Entry(x).arrival = orders[x].resting
        /\ Entry(x).quantity = orders[x].remaining + InFlight(x)
    BY DEF Entry
  <2>2. orders[x].price \in Int
    <3>1. Prices \subseteq Int
      BY PriceAssumption
    <3>2. orders[x].price \in Prices
      BY <1>1
    <3> QED  BY <3>1, <3>2
  <2>3. orders[x].resting \in Int
    BY <1>1
  <2> QED  BY <1>1, <2>1, <2>2, <2>3 DEF Side
<1>8. \A r, x \in restingBar : r.arrival = x.arrival => r = x
  BY <1>2, <1>6 DEF Entry
<1>9. PT!Ordered(restingBar)
  BY <1>5, <1>7, <1>8, MarketFinite DEF PT!Ordered, PT!Sides
<1>10. PT!Records(restingBar)
  BY <1>6 DEF PT!Records, Entry
<1> QED  BY <1>9, <1>10

-----------------------------------------------------------------------------
(* Steps that trade nothing *)

NoneFlying == \A n \in DOMAIN trades : trades[n].taker # taker

Settled(x) ==
  [id |-> x, side |-> orders[x].side, price |-> orders[x].price,
   arrival |-> orders[x].resting, quantity |-> orders[x].remaining]

Traded(n) ==
  [maker |-> trades[n].maker, taker |-> trades[n].taker,
   price |-> trades[n].price, quantity |-> trades[n].quantity]

\* With nothing in flight the market sees the live orders and every trade.
SettledBar ==
  /\ restingBar = {Settled(x) : x \in active}
  /\ executionsBar = {Traded(n) : n \in DOMAIN trades}

LEMMA BarSettles == CheckpointSound /\ NoneFlying => SettledBar
<1> SUFFICES ASSUME CheckpointSound, NoneFlying PROVE SettledBar
  OBVIOUS
<1>1. TypeOK /\ active \subseteq Ids
  BY DEF CheckpointSound, BookSound, TypeOK
<1>2. (\A id \in Ids : InFlight(id) = 0) /\ Live = active
  BY <1>1, NothingFlies DEF Grounded, NoneFlying
<1>3. \A x \in active : Entry(x) = Settled(x)
  <2> SUFFICES ASSUME NEW x \in active
               PROVE  orders[x].remaining + InFlight(x) = orders[x].remaining
    BY DEF Entry, Settled
  <2>1. orders[x].remaining \in Nat /\ InFlight(x) = 0
    BY <1>1, <1>2 DEF TypeOK, Order
  <2> QED  BY <2>1
<1>4. restingBar = {Settled(x) : x \in active}
  BY <1>2, <1>3, BarIs
<1>5. Done = DOMAIN trades
  BY DEF Done, NoneFlying
<1>6. executionsBar = {Traded(n) : n \in DOMAIN trades}
  BY <1>5 DEF executionsBar, Traded
<1> QED  BY <1>4, <1>6 DEF SettledBar

LEMMA BarSettlesThen == (CheckpointSound /\ NoneFlying => SettledBar)'
  BY BarSettles, PTL

\* Before its first trade an order has executed what the closed form allots to
\* no quantity, nothing.
Fresh == NoneFlying /\ (taker # NoOrder => orders[taker].filled = 0)

LEMMA FreshAllotted == Based /\ Fresh => AsAllotted
<1> SUFFICES ASSUME Based, Fresh, taker # NoOrder
             PROVE  /\ \A x \in active : InFlight(x) = 0
                    /\ \A x \in restingBar : InFlight(x.id) = PT!Gave(x, 0, Within)
                    /\ 0 <= PT!QuantityOf(Within)
  BY DEF AsAllotted, Fresh
<1>1. /\ TypeOK /\ BookSound /\ taker \in Ids /\ orders[taker].side \in Side
      /\ active \subseteq Ids
  BY DEF Based, CheckpointSound, BookSound, TypeOK, TakerIsIncoming
<1>2. \A id \in Ids : InFlight(id) = 0
  BY <1>1, NothingFlies DEF Grounded, Fresh, NoneFlying
<1>3. PT!Queue(Within)
  BY <1>1, BarOrdered, PT!EligibleQueue DEF Within, PT!Sides, Side
<1>4. PT!QuantityOf(Within) \in Nat
  BY <1>3, PT!OrderedParts, PT!QuantityNat DEF PT!Queue
<1>5. \A x \in Within : PT!Allotted(x, 0, Within) = 0
  <2> SUFFICES ASSUME NEW x \in Within PROVE PT!Allotted(x, 0, Within) = 0
    OBVIOUS
  <2> DEFINE b == PT!QuantityOf(PT!Before(Within, x))
             a == PT!Allotted(x, 0, Within)
  <2>1. b \in Nat /\ a \in Nat /\ (a > 0 <=> b < 0)
    BY <1>3, PT!AllottedIs
  <2> HIDE DEF a, b
  <2>2. a = 0
    BY <2>1
  <2> QED  BY <2>2 DEF a
<1>6. \A x \in restingBar : x.id \in Ids
  BY BarIs DEF Live, Entry
<1> QED  BY <1>1, <1>2, <1>4, <1>5, <1>6 DEF PT!Gave

LEMMA FreshAllottedThen == (Based /\ Fresh => AsAllotted)'
  BY FreshAllotted, PTL

SameForm(id) ==
  /\ orders'[id].type = orders[id].type
  /\ orders'[id].side = orders[id].side
  /\ orders'[id].price = orders[id].price
  /\ orders'[id].original = orders[id].original
  /\ orders[id].resting # 0 => orders'[id].resting # 0
  /\ Seen(id) <=> orders'[id].status # "UNSEEN"

\* A registered order keeps its form; a new ID becomes a command's or that of
\* the order that enters the loop.
Evolved ==
  \A id \in Ids :
    \/ SameForm(id)
    \/ ~Seen(id) /\ orders'[id] = AppliedCommand
    \/ ~Seen(id) /\ id = taker' /\ orders'[id] \in Limits \cup Markets

LEMMA FormsKept ==
  ASSUME Based, Evolved
  PROVE  Forms'
<1> SUFFICES ASSUME NEW id \in Ids, orders'[id].type # "CANCEL"
             PROVE  /\ orders'[id].side \in Side
                    /\ orders'[id].original \in Quantities
                    /\ orders'[id].price \in IF orders'[id].type = "LIMIT" THEN Prices ELSE {0}
  BY DEF Forms
<1>1. CASE SameForm(id)
  BY <1>1 DEF SameForm, Based, Forms
<1>2. CASE orders'[id] = AppliedCommand
  BY <1>2 DEF AppliedCommand, Pristine
<1>3. CASE orders'[id] \in Limits \cup Markets
  BY <1>3 DEF Limits, Markets, Pristine
<1> QED  BY <1>1, <1>2, <1>3 DEF Evolved

LEMMA SoundKept ==
  ASSUME Based, CheckpointSound', Evolved, UNCHANGED trades, Fresh'
  PROVE  MarketSound'
<1>1. Forms'
  BY FormsKept
<1>2. MakersRested'
  <2> SUFFICES ASSUME NEW n \in DOMAIN trades
               PROVE  trades[n].quantity > 0 /\ orders'[trades[n].maker].resting # 0
    BY DEF MakersRested
  <2> DEFINE m == trades[n].maker
  <2>1. m \in Ids
    BY TradeTypes DEF Based, CheckpointSound, BookSound
  <2>2. trades[n].quantity > 0 /\ orders[m].resting # 0
    BY DEF Based, MakersRested
  <2>3. Seen(m)
    BY DEF Based, CheckpointSound, Recorded, RecordedAt
  <2> HIDE DEF m
  <2>4. SameForm(m)
    BY <2>1, <2>3 DEF Evolved
  <2> QED  BY <2>2, <2>4 DEF SameForm, m
<1>3. Once'
  BY DEF Once, Flying, Fresh, NoneFlying
<1>4. Based'
  BY <1>1, <1>2, <1>3 DEF Based
<1> QED  BY <1>4, FreshAllottedThen DEF MarketSound

\* The order a call registers for the loop is new and has traded nothing.
Entering ==
  taker' # NoOrder => taker' \in Ids /\ ~Seen(taker') /\ orders'[taker'].filled = 0

\* Between two calls, a step that trades nothing.
Between ==
  /\ CheckpointSound' /\ taker = NoOrder
  /\ UNCHANGED <<trades, restingSequence>>
  /\ Evolved /\ Entering

LEMMA NothingTrades ==
  ASSUME MarketSound, Between
  PROVE  /\ MarketSound'
         /\ restingBar = {Settled(x) : x \in active}
         /\ restingBar' = {Settled(x)' : x \in active'}
         /\ executionsBar' = executionsBar
         /\ acceptedBar' = acceptedBar
         /\ restingSequence' = restingSequence
<1>1. /\ CheckpointSound /\ TypeOK /\ Based /\ CheckpointSound' /\ taker = NoOrder
      /\ trades' = trades /\ restingSequence' = restingSequence
  BY DEF MarketSound, Based, CheckpointSound, BookSound, Between
<1>2. \A n \in DOMAIN trades : trades[n].taker \in Ids /\ Seen(trades[n].taker)
  BY <1>1, TradeTypes DEF CheckpointSound, Recorded, RecordedAt
<1>3. NoneFlying
  BY <1>1, <1>2, NamedOrder DEF NoneFlying
<1>4. NoneFlying'
  BY <1>1, <1>2, NamedOrder DEF NoneFlying, Between, Entering
<1>5. Fresh'
  BY <1>4 DEF Fresh, Between, Entering
<1>6. MarketSound'
  BY <1>1, <1>5, SoundKept DEF Between
<1>7. SettledBar /\ SettledBar'
  BY <1>1, <1>3, <1>4, BarSettles, BarSettlesThen
<1>8. executionsBar' = executionsBar
  <2>1. {Traded(n) : n \in DOMAIN trades}' = {Traded(n) : n \in DOMAIN trades}
    BY <1>1 DEF Traded
  <2> QED  BY <1>7, <2>1 DEF SettledBar
<1>9. acceptedBar' = acceptedBar
  <2>1. ASSUME NEW id \in Ids
        PROVE  id \in acceptedBar' <=> id \in acceptedBar
    <3>1. id # NoOrder
      BY NamedOrder
    <3>2. CASE SameForm(id) /\ id # taker'
      BY <1>1, <3>1, <3>2 DEF SameForm, acceptedBar, Registered, Seen
    <3>3. CASE ~Seen(id) /\ (id = taker' \/ orders'[id] = AppliedCommand)
      BY <3>3 DEF acceptedBar, Registered, AppliedCommand, Pristine
    <3>4. id = taker' => ~Seen(id)
      BY <3>1 DEF Between, Entering
    <3> QED  BY <3>2, <3>3, <3>4 DEF Between, Evolved
  <2>2. acceptedBar \subseteq Ids /\ acceptedBar' \subseteq Ids
    BY DEF acceptedBar, Registered
  <2> QED  BY <2>1, <2>2
<1> QED  BY <1>1, <1>6, <1>7, <1>8, <1>9 DEF SettledBar

Refines == [M!Step]_(M!marketVars)

LEMMA Unseeable ==
  ASSUME MarketSound, Between, active' = active,
         \A x \in active : orders'[x] = orders[x]
  PROVE  MarketSound' /\ Refines
<1>1. {Settled(x)' : x \in active'} = {Settled(x) : x \in active}
  BY DEF Settled
<1>2. restingBar' = restingBar
  BY <1>1, NothingTrades
<1> QED  BY <1>2, NothingTrades DEF Refines, M!marketVars

\* An order is only registered: the market does not see it yet.
LEMMA SubmitRefines ==
  ASSUME MarketSound, NEW id \in Ids, NEW o \in Limits \cup Markets, Submit(id, o)
  PROVE  MarketSound' /\ Refines
<1>1. CheckpointSound /\ CheckpointSound' /\ BookSound
  BY SubmitChecked DEF MarketSound, Based, CheckpointSound
<1>2. /\ taker = NoOrder /\ ~Seen(id) /\ taker' = id /\ active' = active
      /\ UNCHANGED <<trades, restingSequence>>
      /\ \A x \in Ids : orders'[x] = IF x = id THEN o ELSE orders[x]
  BY <1>1 DEF Submit, BookSound, TypeOK, history
<1>3. Evolved
  BY <1>2 DEF Evolved, SameForm, Seen
<1>4. Entering
  BY <1>2, FreshShape DEF Entering
<1>5. \A x \in active : orders'[x] = orders[x]
  BY <1>1, <1>2, ActiveFacts
<1> QED  BY <1>1, <1>2, <1>3, <1>4, <1>5, Unseeable DEF Between

\* Nor does it see a command that is rejected.
LEMMA RejectionRefines ==
  ASSUME MarketSound, CheckpointSound', taker = NoOrder, NEW command \in Ids,
         ~Seen(command),
         orders' = [orders EXCEPT ![command] = AppliedCommand],
         UNCHANGED <<active, queue, prices, restingSequence, history, taker>>
  PROVE  MarketSound' /\ Refines
<1>1. CheckpointSound /\ BookSound
  BY DEF MarketSound, Based, CheckpointSound
<1>2. /\ \A x \in Ids : orders'[x] = IF x = command THEN AppliedCommand ELSE orders[x]
      /\ UNCHANGED <<trades, restingSequence>> /\ taker' = NoOrder
  BY <1>1 DEF BookSound, TypeOK, history
<1>3. Evolved
  BY <1>2 DEF Evolved, SameForm, Seen
<1>4. Entering
  BY <1>2 DEF Entering
<1>5. \A x \in active : orders'[x] = orders[x]
  BY <1>1, <1>2, ActiveFacts
<1> QED  BY <1>2, <1>3, <1>4, <1>5, Unseeable DEF Between

\* A live order is withdrawn: the market lets it go.
LEMMA WithdrawalRefines ==
  ASSUME MarketSound, CheckpointSound', taker = NoOrder, NEW target \in active,
         NEW change, Withdraw(target, change),
         UNCHANGED <<trades, restingSequence>>, Entering,
         \A id \in DOMAIN change :
           /\ id \in Ids /\ ~Seen(id)
           /\ \/ change[id] = AppliedCommand
              \/ id = taker' /\ change[id] \in Limits \cup Markets
  PROVE  MarketSound' /\ Refines
<1>1. CheckpointSound /\ BookSound /\ active \subseteq Ids /\ orders[target] \in Order
  BY ActiveFacts DEF MarketSound, Based, CheckpointSound
<1>2. /\ active' = active \ {target}
      /\ \A id \in Ids : orders'[id] =
           IF id = target THEN CancelRemainder(orders[target], "CANCELLED")
           ELSE IF id \in DOMAIN change THEN change[id] ELSE orders[id]
  BY DEF Withdraw
<1>3. Evolved
  <2> SUFFICES ASSUME NEW id \in Ids
               PROVE  \/ SameForm(id)
                      \/ ~Seen(id) /\ orders'[id] = AppliedCommand
                      \/ ~Seen(id) /\ id = taker' /\ orders'[id] \in Limits \cup Markets
    BY DEF Evolved
  <2>1. CASE id = target
    <3>1. Seen(target)
      BY <1>1, ActiveFacts
    <3> QED  BY <1>1, <1>2, <2>1, <3>1, CancelRemainderKeeps DEF SameForm, Seen
  <2>2. CASE id # target /\ id \in DOMAIN change
    BY <1>2, <2>2
  <2>3. CASE id # target /\ id \notin DOMAIN change
    BY <1>2, <2>3 DEF SameForm, Seen
  <2> QED  BY <2>1, <2>2, <2>3
<1>4. Between
  BY <1>3 DEF Between
<1>5. \A x \in active' : x \in active /\ orders'[x] = orders[x]
  BY <1>1, <1>2, ActiveFacts
<1>6. \A x \in active' : Settled(x)' = Settled(x)
  BY <1>5 DEF Settled
<1>7. \A x, y : Settled(x) = Settled(y) => x = y
  BY DEF Settled
<1>8. /\ restingBar = {Settled(x) : x \in active}
      /\ restingBar' = {Settled(x)' : x \in active'}
      /\ UNCHANGED <<restingSequence, executionsBar, acceptedBar>> /\ MarketSound'
  BY <1>4, NothingTrades
<1>9. restingBar' = restingBar \ {Settled(target)}
  <2>1. restingBar' = {Settled(x) : x \in active'}
    BY <1>6, <1>8
  <2> QED  BY <1>2, <1>7, <1>8, <2>1
<1>10. Settled(target) \in restingBar
  BY <1>8
<1>11. M!Leave(Settled(target))
  BY <1>8, <1>9 DEF M!Leave
<1> QED  BY <1>8, <1>10, <1>11 DEF Refines, M!Step

LEMMA CancelRefines ==
  ASSUME MarketSound, NEW target \in Ids, NEW command \in Ids, Cancel(target, command)
  PROVE  MarketSound' /\ Refines
<1>1. CheckpointSound'
  BY CancelChecked DEF MarketSound, Based
<1>2. CASE target \notin active
  BY <1>1, <1>2, RejectionRefines DEF Cancel
<1>3. CASE target \in active
  <2>1. /\ Withdraw(target, Command(command)) /\ taker = NoOrder /\ ~Seen(command)
        /\ UNCHANGED <<trades, restingSequence>> /\ taker' = NoOrder
    BY <1>3 DEF Cancel, history
  <2>2. Entering
    BY <2>1 DEF Entering
  <2>3. \A id \in DOMAIN Command(command) :
          id \in Ids /\ ~Seen(id) /\ Command(command)[id] = AppliedCommand
    BY <2>1 DEF Command
  <2> QED  BY <1>1, <1>3, <2>1, <2>2, <2>3, WithdrawalRefines
<1> QED  BY <1>2, <1>3

\* A replacement withdraws its target and registers the new order, which enters
\* the loop.
LEMMA ReplaceRefines ==
  ASSUME MarketSound, NEW target \in Ids, NEW command \in Ids, NEW id \in Ids,
         NEW o \in Limits, Replace(target, command, id, o)
  PROVE  MarketSound' /\ Refines
<1>1. CheckpointSound' /\ CheckpointSound /\ BookSound
  BY ReplaceChecked DEF MarketSound, Based, CheckpointSound
<1>2. CASE target \notin active
  BY <1>1, <1>2, RejectionRefines DEF Replace
<1>3. CASE target \in active /\ command = id
  <2>1. /\ Withdraw(target, Command(command)) /\ taker = NoOrder /\ ~Seen(command)
        /\ UNCHANGED <<trades, restingSequence>> /\ taker' = NoOrder
    BY <1>3 DEF Replace, history
  <2>2. Entering
    BY <2>1 DEF Entering
  <2>3. \A c \in DOMAIN Command(command) :
          c \in Ids /\ ~Seen(c) /\ Command(command)[c] = AppliedCommand
    BY <2>1 DEF Command
  <2> QED  BY <1>1, <1>3, <2>1, <2>2, <2>3, WithdrawalRefines
<1>4. CASE target \in active /\ command # id
  <2> DEFINE change == [c \in {command, id} |-> IF c = id THEN o ELSE AppliedCommand]
  <2>1. /\ Withdraw(target, change) /\ taker = NoOrder
        /\ ~Seen(command) /\ ~Seen(id)
        /\ UNCHANGED <<trades, restingSequence>> /\ taker' = id
    BY <1>4 DEF Replace, history
  <2>2. id # target /\ orders'[id] = o
    <3>1. Seen(target)
      BY <1>1, <1>4, ActiveFacts
    <3>2. id # target
      BY <2>1, <3>1
    <3>3. id \in DOMAIN change /\ change[id] = o
      OBVIOUS
    <3> HIDE DEF change
    <3> QED  BY <2>1, <3>2, <3>3 DEF Withdraw
  <2>3. Entering
    BY <2>1, <2>2, FreshShape DEF Entering
  <2>4. \A c \in DOMAIN change :
          /\ c \in Ids /\ ~Seen(c)
          /\ \/ change[c] = AppliedCommand
             \/ c = taker' /\ change[c] \in Limits \cup Markets
    BY <2>1
  <2> HIDE DEF change
  <2> QED  BY <1>1, <1>4, <2>1, <2>3, <2>4, WithdrawalRefines
<1> QED  BY <1>2, <1>3, <1>4

\* A reduced order shrinks where it is.
LEMMA ReduceRefines ==
  ASSUME MarketSound, NEW target \in Ids, NEW command \in Ids, NEW total \in Nat,
         Reduce(target, total, command)
  PROVE  MarketSound' /\ Refines
<1> DEFINE o == orders[target]
           reduction == o.filled + o.remaining - total
           n == [o EXCEPT !.remaining = o.remaining - reduction,
                          !.cancelled = o.cancelled + reduction]
<1>1. CheckpointSound' /\ CheckpointSound /\ BookSound
  BY ReduceChecked DEF MarketSound, Based, CheckpointSound
<1>2. /\ taker = NoOrder /\ taker' = NoOrder /\ target \in active /\ ~Seen(command)
      /\ o.filled < total /\ total < o.filled + o.remaining
      /\ orders' = [orders EXCEPT ![target] = n, ![command] = AppliedCommand]
      /\ active' = active /\ UNCHANGED <<trades, restingSequence>>
  BY DEF Reduce, history
<1>3. command \notin active /\ command # target /\ Seen(target)
  BY <1>1, <1>2, ActiveFacts
<1>4. /\ o \in Order /\ o.filled \in Nat /\ o.remaining \in Nat /\ o.cancelled \in Nat
  BY <1>1, ActiveFacts DEF Order
<1>5. /\ o.remaining - reduction \in Nat
      /\ o.remaining - reduction > 0 /\ o.remaining - reduction < o.remaining
  <2> HIDE DEF o
  <2> QED  BY <1>2, <1>4
<1> DEFINE q == o.remaining - reduction
<1> HIDE DEF reduction
<1>6. /\ n.type = o.type /\ n.side = o.side /\ n.price = o.price
      /\ n.original = o.original /\ n.resting = o.resting /\ n.status = o.status
      /\ n.remaining = q
  BY <1>4 DEF Order
<1>7. \A x \in Ids : orders'[x] = IF x = target THEN n
                                 ELSE IF x = command THEN AppliedCommand ELSE orders[x]
  <2> HIDE DEF n
  <2> QED  BY <1>1, <1>2, <1>3 DEF BookSound, TypeOK
<1> HIDE DEF n, q
<1>8. Evolved
  BY <1>2, <1>3, <1>6, <1>7 DEF Evolved, SameForm, Seen
<1>9. Between
  BY <1>1, <1>2, <1>8 DEF Between, Entering
<1>10. /\ restingBar = {Settled(x) : x \in active}
       /\ restingBar' = {Settled(x)' : x \in active'}
       /\ UNCHANGED <<restingSequence, executionsBar, acceptedBar>> /\ MarketSound'
  BY <1>9, NothingTrades
<1> DEFINE r == Settled(target)
<1>11. r \in restingBar /\ r.quantity = o.remaining
  BY <1>2, <1>10 DEF Settled
<1>12. Settled(target)' = [r EXCEPT !.quantity = q]
  BY <1>6, <1>7 DEF Settled
<1>13. \A x \in active : x # target => Settled(x)' = Settled(x)
  BY <1>1, <1>3, <1>7, ActiveFacts DEF Settled
<1>14. \A x, y : Settled(x) = Settled(y) => x = y
  BY DEF Settled
<1> HIDE DEF r
<1>15. restingBar' = (restingBar \ {r}) \cup {[r EXCEPT !.quantity = q]}
  <2>1. \A x \in active : Settled(x) = r <=> x = target
    BY <1>14 DEF r
  <2> QED  BY <1>2, <1>10, <1>12, <1>13, <2>1
<1>16. q \in 1 .. r.quantity /\ q < r.quantity
  <2>1. q \in Nat /\ q > 0 /\ q < o.remaining
    BY <1>5 DEF q
  <2> HIDE DEF o
  <2> QED  BY <1>4, <1>11, <2>1
<1>17. M!Shrink(r, q)
  BY <1>10, <1>15, <1>16 DEF M!Shrink
<1> QED  BY <1>10, <1>11, <1>16, <1>17 DEF Refines, M!Step

-----------------------------------------------------------------------------
(* The loop *)

\* What the loop has filled it was allotted, and it has taken up all of it.
LEMMA TakenUp ==
  ASSUME MarketSound, taker # NoOrder, NEW x \in Live, x \notin active
  PROVE  LET r == Entry(x)
         IN r \in Within /\ PT!Allotted(r, orders[taker].filled, Within) = r.quantity
<1> DEFINE r == Entry(x)
<1>1. /\ orders[x].remaining = 0 /\ InFlight(x) \in Nat
      /\ orders[x].remaining + InFlight(x) > 0
  BY LiveFacts DEF MarketSound
<1>2. InFlight(x) > 0 /\ r.quantity = InFlight(x) /\ r.id = x
  <2>1. r.quantity = orders[x].remaining + InFlight(x) /\ r.id = x
    BY DEF Entry
  <2> HIDE DEF r
  <2> QED  BY <1>1, <2>1
<1>3. r \in restingBar
  BY BarIs
<1>4. InFlight(x) = PT!Gave(r, orders[taker].filled, Within)
  BY <1>2, <1>3 DEF MarketSound, AsAllotted
<1> HIDE DEF r
<1>5. r \in Within
  BY <1>2, <1>4 DEF PT!Gave
<1> QED  BY <1>2, <1>4, <1>5 DEF PT!Gave, r

\* What the loop knows of the order it holds.
LEMMA TakerFacts ==
  ASSUME MarketSound, taker # NoOrder
  PROVE  LET o == orders[taker]
         IN /\ taker \in Ids /\ o \in Order /\ Seen(taker) /\ o.type # "CANCEL"
            /\ o.side \in Side /\ o.original \in Quantities
            /\ o.original \in Nat /\ o.filled \in Nat /\ o.remaining \in Nat
            /\ o.original = o.filled + o.remaining
            /\ o.price \in Prices \cup {0}
            /\ o.type = "MARKET" <=> o.price = 0
            /\ o.type \in {"LIMIT", "MARKET"}
            /\ PT!Queue(Within) /\ Within \in SUBSET restingBar
            /\ \A r \in Within : r.side # o.side
<1> DEFINE o == orders[taker]
<1>1. /\ BookSound /\ TypeOK /\ Shape(taker) /\ taker \in Ids /\ Forms /\ Based
  BY DEF MarketSound, Based, CheckpointSound, BookSound, Shapes, TypeOK
<1>2. /\ o \in Order /\ o.side \in Side /\ o.status # "UNSEEN"
      /\ o.type \in {"LIMIT", "MARKET"} /\ o.cancelled = 0
      /\ o.original = o.filled + o.cancelled + o.remaining
  BY <1>1 DEF BookSound, TakerIsIncoming, TypeOK, Conserved, Shape
<1>3. o.filled \in Nat /\ o.remaining \in Nat /\ o.original \in Nat
  BY <1>2 DEF Order
<1>4. o.original = o.filled + o.remaining
  <2> HIDE DEF o
  <2> QED  BY <1>2, <1>3
<1>5. o.original \in Quantities /\ o.price \in IF o.type = "LIMIT" THEN Prices ELSE {0}
  BY <1>1, <1>2 DEF Forms
<1>6. o.type = "MARKET" <=> o.price = 0
  <2>1. 0 \notin Prices
    BY PriceAssumption
  <2> QED  BY <1>2, <1>5, <2>1
<1>7. PT!Queue(Within) /\ Within \in SUBSET restingBar /\ \A r \in Within : r.side # o.side
  <2>1. PT!Ordered(restingBar) /\ o.side \in PT!Sides
    BY <1>1, <1>2, BarOrdered DEF PT!Sides, Side
  <2> QED  BY <2>1, PT!EligibleQueue DEF Within
<1> QED  BY <1>1, <1>2, <1>3, <1>4, <1>5, <1>6, <1>7 DEF Seen

\* Whoever the closed form serves before a live order precedes it in the book.
LEMMA ServedPrecedes ==
  ASSUME NEW x, NEW y, orders[x].side = orders[y].side, PT!Served(Entry(x), Entry(y))
  PROVE  Precedes(x, y, orders[y].side)
  BY DEF PT!Served, Entry, Precedes, Better

\* The next k of an order that m is to give, of those before it every live one
\* being served: what everybody gives afterwards.
LEMMA NextGives ==
  ASSUME MarketSound, taker # NoOrder, NEW m \in active, InFlight(m) = 0,
         orders[m].side # orders[taker].side,
         orders[taker].price # 0 =>
           ~Better(orders[m].side, orders[taker].price, orders[m].price),
         \A x \in active : orders[x].side = orders[m].side =>
           ~Precedes(x, m, orders[m].side),
         NEW k \in Nat \ {0}, k <= orders[m].remaining
  PROVE  LET n == orders[taker].filled + k
         IN /\ \A x \in Live : PT!Gave(Entry(x), n, Within)
                                 = IF x = m THEN k ELSE InFlight(x)
            /\ n <= PT!QuantityOf(Within)
<1> DEFINE o == orders[taker]
           r == Entry(m)
<1>1. /\ o.filled \in Nat /\ PT!Queue(Within) /\ Within \in SUBSET restingBar
      /\ o.side \in Side /\ \A x \in Within : x.side # o.side
  BY TakerFacts
<1>2. active \subseteq Ids /\ m \in Live
  BY ActiveFacts DEF MarketSound, Based, CheckpointSound, Live
<1>3. /\ orders[m].side \in Side /\ orders[m].remaining \in Nat
      /\ orders[m].price \in Nat /\ o.price \in Nat
  <2>1. orders[m].side \in Side /\ orders[m].remaining \in Nat /\ orders[m].price \in Prices
        /\ o.price \in Prices \cup {0}
    BY <1>2, LiveFacts, TakerFacts DEF MarketSound
  <2>2. Prices \cup {0} \subseteq Nat
    BY PriceAssumption
  <2>3. orders[m].price \in Nat
    BY <2>1, <2>2
  <2>4. o.price \in Nat
    BY <2>1, <2>2
  <2> QED  BY <2>1, <2>3, <2>4
<1>4. /\ r.side = orders[m].side /\ r.price = orders[m].price /\ r.id = m
      /\ r.quantity = orders[m].remaining
  BY <1>3 DEF Entry
<1>5. r \in restingBar
  BY <1>2, BarIs
<1>6. r \in Within
  <2>1. o.price # 0 => IF o.side = "BUY" THEN r.price <= o.price ELSE r.price >= o.price
    BY <1>1, <1>3, <1>4 DEF Better, Side
  <2> QED  BY <1>4, <1>5, <2>1 DEF Within, PT!Eligible
<1>7. \A x \in restingBar : InFlight(x.id) = PT!Gave(x, o.filled, Within)
  BY DEF MarketSound, AsAllotted
<1>8. PT!Allotted(r, o.filled, Within) = 0
  BY <1>4, <1>5, <1>6, <1>7 DEF PT!Gave
<1>9. ASSUME NEW y \in PT!Before(Within, r)
      PROVE  PT!Allotted(y, o.filled, Within) = y.quantity
  <2>1. y \in Within /\ y \in restingBar /\ PT!Served(y, r) /\ y.side = r.side
    BY <1>1, <1>6 DEF PT!Before, PT!Queue
  <2>2. PICK x \in Live : y = Entry(x)
    BY <2>1, BarIs
  <2>3. orders[x].side = orders[m].side
    BY <1>4, <2>1, <2>2 DEF Entry
  <2>4. Precedes(x, m, orders[m].side)
    BY <2>1, <2>2, <2>3, ServedPrecedes
  <2>5. x \notin active
    BY <2>3, <2>4
  <2> QED  BY <2>2, <2>5, TakenUp
<1> DEFINE n == o.filled + k
<1> HIDE DEF o, r
<1>10. /\ \A y \in Within : PT!Allotted(y, n, Within) =
                              IF y = r THEN k ELSE PT!Allotted(y, o.filled, Within)
       /\ n <= PT!QuantityOf(Within)
  BY <1>1, <1>4, <1>6, <1>8, <1>9, PT!NextServed
<1>11. ASSUME NEW x \in Live
       PROVE  PT!Gave(Entry(x), n, Within) = IF x = m THEN k ELSE InFlight(x)
  <2>1. Entry(x) \in restingBar /\ Entry(x).id = x
    BY BarIs DEF Entry
  <2>2. Entry(x) = r <=> x = m
    BY DEF r, Entry
  <2>3. InFlight(x) = PT!Gave(Entry(x), o.filled, Within)
    BY <1>7, <2>1
  <2> HIDE DEF n
  <2>4. CASE x = m
    BY <1>6, <1>10, <2>2, <2>4 DEF PT!Gave
  <2>5. CASE x # m
    BY <1>10, <2>2, <2>3, <2>5 DEF PT!Gave
  <2> QED  BY <2>4, <2>5
<1> QED  BY <1>10, <1>11 DEF o

\* One turn of the loop: nothing the market sees changes, and the maker gives
\* what the closed form has it give next.
LEMMA MatchRefines ==
  ASSUME MarketSound, Match
  PROVE  MarketSound' /\ Refines
<1>1. /\ CheckpointSound /\ BookSound /\ TypeOK /\ Based /\ AsAllotted
      /\ CheckpointSound' /\ TypeOK' /\ PriorityKept
  BY MatchChecked, MatchStep
     DEF MarketSound, Based, CheckpointSound, BookSound, GoodStep
<1>2. PICK m \in Ids, q \in Nat, t \in Trade : Trades(m, q, t)
  BY <1>1, MatchTrades
<1> DEFINE o == orders[taker]
           N == Len(trades)
           a == ApplyFill(orders[m], q)
           b == ApplyFill(o, q)
<1>3. /\ m \in active /\ m # taker /\ taker \in Ids /\ taker' = taker
      /\ t.maker = m /\ t.taker = taker /\ t.quantity = q
      /\ orders[m].side # o.side
      /\ q > 0 /\ q <= orders[m].remaining /\ q <= o.remaining
      /\ q = orders[m].remaining \/ q = o.remaining
      /\ o.type = "MARKET" \/ ~Better(orders[m].side, o.price, orders[m].price)
      /\ orders'[m] = a /\ orders'[taker] = b
      /\ \A x \in Ids : x # m /\ x # taker => orders'[x] = orders[x]
      /\ active' = IF orders[m].remaining = q THEN active \ {m} ELSE active
      /\ trades' = Append(trades, t) /\ restingSequence' = restingSequence
  BY <1>2 DEF Trades
<1>4. taker # NoOrder
  BY <1>3, NamedOrder
<1>5. /\ orders[m] \in Order /\ orders[m].remaining \in Nat /\ orders[m].filled \in Nat
      /\ orders[m].status # "UNSEEN" /\ orders[m].resting # 0
  <2>1. orders[m].resting \in 1 .. restingSequence /\ restingSequence \in Nat
        /\ orders[m] \in Order /\ Seen(m)
    BY <1>1, <1>3, ActiveFacts DEF BookSound, ActiveAreQueued, TypeOK
  <2>2. orders[m].resting # 0
    BY <2>1
  <2> QED  BY <2>1, <2>2 DEF Order, Seen
<1>6. /\ o \in Order /\ o.remaining \in Nat /\ o.filled \in Nat /\ o.status # "UNSEEN"
      /\ o.type = "MARKET" <=> o.price = 0
  BY <1>4, TakerFacts DEF Seen
<1>7. /\ a.type = orders[m].type /\ a.side = orders[m].side /\ a.price = orders[m].price
      /\ a.original = orders[m].original /\ a.resting = orders[m].resting
      /\ a.remaining = orders[m].remaining - q /\ a.filled = orders[m].filled + q
      /\ a.status # "UNSEEN"
  BY <1>3, <1>5, ApplyFillFields
<1>8. /\ b.type = o.type /\ b.side = o.side /\ b.price = o.price
      /\ b.original = o.original /\ b.resting = o.resting
      /\ b.remaining = o.remaining - q /\ b.filled = o.filled + q
      /\ b.status # "UNSEEN"
  <2>1. o \in Order /\ q \in Nat /\ q <= o.remaining
    BY <1>3, <1>6
  <2> HIDE DEF o
  <2> QED  BY <2>1, ApplyFillFields
<1> HIDE DEF a, b
<1>9. \A id \in Ids : SameForm(id)
  <2> SUFFICES ASSUME NEW id \in Ids PROVE SameForm(id)
    OBVIOUS
  <2>1. CASE id = m
    BY <1>3, <1>5, <1>7, <2>1 DEF SameForm, Seen
  <2>2. CASE id = taker
    BY <1>3, <1>6, <1>8, <2>2 DEF SameForm, Seen
  <2>3. CASE id # m /\ id # taker
    BY <1>3, <2>3 DEF SameForm, Seen
  <2> QED  BY <2>1, <2>2, <2>3
<1>10. /\ N \in Nat /\ DOMAIN trades = 1 .. N /\ DOMAIN trades' = 1 .. (N + 1)
       /\ \A n \in 1 .. N : trades'[n] = trades[n]
       /\ trades'[N + 1] = t
  <2>1. trades \in Seq(Trade)
    BY <1>1 DEF TypeOK
  <2> QED  BY <1>3, <2>1, AppendProperties, LenProperties
<1>11. Forms'
  BY <1>1, <1>9, FormsKept DEF Evolved
<1>12. MakersRested'
  <2> SUFFICES ASSUME NEW n \in 1 .. (N + 1)
               PROVE  trades'[n].quantity > 0 /\ orders'[trades'[n].maker].resting # 0
    BY <1>10 DEF MakersRested
  <2>1. CASE n = N + 1
    BY <1>3, <1>5, <1>7, <1>10, <2>1
  <2>2. CASE n # N + 1
    <3>1. n \in DOMAIN trades /\ trades'[n] = trades[n]
      BY <1>10, <2>2
    <3>2. trades[n].quantity > 0 /\ orders[trades[n].maker].resting # 0
          /\ trades[n].maker \in Ids
      BY <1>1, <3>1, TradeTypes DEF Based, MakersRested
    <3> QED  BY <1>9, <3>1, <3>2 DEF SameForm
  <2> QED  BY <2>1, <2>2
<1>13. o.remaining > 0
  BY <1>3, <1>6
<1>14. InFlight(m) = 0 /\ \A x \in active : InFlight(x) = 0
  BY <1>1, <1>3, <1>4, <1>13 DEF AsAllotted
<1>15. \A n \in Flying : trades[n].maker # m
  BY <1>1, <1>3, <1>14, InFlightFacts DEF By
<1>16. /\ Flying \subseteq 1 .. N
       /\ Flying' = Flying \cup {N + 1}
       /\ \A n \in Flying : trades'[n] = trades[n]
  <2>1. \A n \in 1 .. (N + 1) : n \in 1 .. N \/ n = N + 1
    BY <1>10
  <2>2. 1 .. N \subseteq 1 .. (N + 1) /\ N + 1 \in 1 .. (N + 1)
    BY <1>10
  <2> HIDE DEF N
  <2> QED  BY <1>3, <1>10, <2>1, <2>2 DEF Flying
<1>17. Once'
  BY <1>1, <1>3, <1>10, <1>15, <1>16 DEF Based, Once
<1>18. Based'
  BY <1>1, <1>11, <1>12, <1>17 DEF Based
<1>19. \A x \in Ids : InFlight(x)' = IF x = m THEN q ELSE InFlight(x)
  <2>1. /\ \A id \in Ids : By(id)' = {} => InFlight(id)' = 0
        /\ \A id \in Ids : \A n \in Flying' :
             trades'[n].maker = id => InFlight(id)' = trades'[n].quantity
    BY <1>1, <1>17, FlownThen DEF InFlightIs
  <2>2. InFlight(m)' = q
    <3>1. N + 1 \in Flying' /\ trades'[N + 1].maker = m /\ trades'[N + 1].quantity = q
      BY <1>3, <1>10, <1>16
    <3> QED  BY <2>1, <3>1
  <2>3. ASSUME NEW x \in Ids, x # m
        PROVE  InFlight(x)' = InFlight(x)
    <3>1. CASE By(x) = {}
      <4>1. By(x)' = {}
        <5>1. \A n \in Flying' : \/ n \in Flying /\ trades'[n].maker = trades[n].maker
                                \/ trades'[n].maker = m
          BY <1>3, <1>10, <1>16
        <5> QED  BY <2>3, <3>1, <5>1 DEF By
      <4> QED  BY <1>1, <2>1, <3>1, <4>1, Flown DEF InFlightIs
    <3>2. CASE By(x) # {}
      <4>1. PICK n \in Flying : trades[n].maker = x
        BY <3>2 DEF By
      <4>2. n \in Flying' /\ trades'[n].maker = x /\ trades'[n].quantity = trades[n].quantity
        BY <1>16, <4>1
      <4>3. InFlight(x)' = trades[n].quantity
        BY <2>1, <4>2
      <4> QED  BY <1>1, <4>1, <4>3, InFlightFacts
    <3> QED  BY <3>1, <3>2
  <2> QED  BY <2>2, <2>3
<1>20. Live' = Live /\ \A x \in Live : Entry(x)' = Entry(x)
  <2>1. active \subseteq Ids /\ m \in active /\ active' \cup {m} = active
    BY <1>1, <1>3, ActiveFacts
  <2>2. \A x \in Ids : (x \in active' \/ InFlight(x)' > 0)
                         <=> (x \in active \/ InFlight(x) > 0)
    BY <1>3, <1>19, <2>1
  <2>3. Live' = Live
    BY <2>2 DEF Live
  <2>4. ASSUME NEW x \in Live
        PROVE  Entry(x)' = Entry(x)
    <3>1. x \in Ids /\ x # taker
      BY <1>1, LiveFacts
    <3>2. CASE x = m
      <4>1. a.remaining + q = orders[m].remaining + 0
        BY <1>5, <1>7
      <4>2. orders'[m] = a /\ InFlight(m)' = q /\ InFlight(m) = 0
        BY <1>3, <1>14, <1>19
      <4> QED  BY <1>7, <3>2, <4>1, <4>2 DEF Entry
    <3>3. CASE x # m
      <4>1. orders'[x] = orders[x] /\ InFlight(x)' = InFlight(x)
        BY <1>3, <1>19, <3>1, <3>3
      <4> QED  BY <4>1 DEF Entry
    <3> QED  BY <3>2, <3>3
  <2> QED  BY <2>3, <2>4
<1>21. restingBar' = restingBar
  BY <1>20, BarIs, BarThen
<1>22. executionsBar' = executionsBar
  <2>1. \A n \in 1 .. (N + 1) : n \in 1 .. N \/ n = N + 1
    BY <1>10
  <2>2. 1 .. N \subseteq 1 .. (N + 1) /\ N + 1 \in 1 .. (N + 1)
    BY <1>10
  <2> HIDE DEF N
  <2>3. Done' = Done
    BY <1>3, <1>10, <2>1, <2>2 DEF Done
  <2>4. \A n \in Done : trades'[n] = trades[n]
    BY <1>10 DEF Done
  <2> QED  BY <2>3, <2>4 DEF executionsBar
<1>23. acceptedBar' = acceptedBar
  BY <1>3, <1>9 DEF acceptedBar, Registered, SameForm, Seen
<1>24. Within' = Within
  <2>1. orders'[taker'].side = o.side /\ orders'[taker'].price = o.price
    BY <1>3, <1>8
  <2> QED  BY <1>21, <2>1 DEF Within
<1>25. LET n == o.filled + q
       IN /\ \A x \in Live : PT!Gave(Entry(x), n, Within)
                               = IF x = m THEN q ELSE InFlight(x)
          /\ n <= PT!QuantityOf(Within)
  <2>1. \A x \in active : orders[x].side = orders[m].side =>
          ~Precedes(x, m, orders[m].side)
    <3>1. orders'[m].filled # orders[m].filled
      BY <1>3, <1>5, <1>7
    <3> QED  BY <1>1, <1>3, <3>1 DEF PriorityKept
  <2>2. o.price # 0 => ~Better(orders[m].side, o.price, orders[m].price)
    BY <1>3, <1>6
  <2>3. q \in Nat \ {0} /\ q <= orders[m].remaining
    BY <1>3
  <2> QED  BY <1>3, <1>4, <1>14, <2>1, <2>2, <2>3, NextGives
<1>26. AsAllotted'
  <2>1. /\ orders'[taker'].remaining = o.remaining - q
        /\ orders'[taker'].filled = o.filled + q
    BY <1>3, <1>8
  <2>2. ASSUME o.remaining - q > 0
        PROVE  \A x \in active' : InFlight(x)' = 0
    <3>1. q = orders[m].remaining
      BY <1>3, <1>6, <2>2
    <3>2. active' = active \ {m}
      BY <1>3, <3>1
    <3> QED  BY <1>1, <1>14, <1>19, <3>2, ActiveFacts
  <2>3. ASSUME NEW r \in restingBar
        PROVE  InFlight(r.id)' = PT!Gave(r, o.filled + q, Within)
    <3>1. PICK x \in Live : r = Entry(x)
      BY BarIs
    <3>2. x \in Ids /\ r.id = x
      BY <3>1 DEF Live, Entry
    <3> QED  BY <1>19, <1>25, <3>1, <3>2
  <2>4. o.filled + q <= PT!QuantityOf(Within)
    BY <1>25
  <2> QED  BY <1>21, <1>24, <2>1, <2>2, <2>3, <2>4 DEF AsAllotted
<1>27. MarketSound'
  BY <1>18, <1>26 DEF MarketSound
<1>28. UNCHANGED <<restingBar, restingSequence, executionsBar, acceptedBar>>
  BY <1>3, <1>21, <1>22, <1>23
<1> QED  BY <1>27, <1>28 DEF Refines, M!marketVars

-----------------------------------------------------------------------------
(* The end of a call *)

\* The loop returns: the order it holds is filled, or nothing is left that it
\* may trade with.
Ending ==
  /\ taker # NoOrder
  /\ orders[taker].remaining = 0 \/ ~IsMarketable(orders[taker])

\* An order that is not marketable has no live order within its limit.
LEMMA Exhausted ==
  ASSUME MarketSound, taker # NoOrder, ~IsMarketable(orders[taker]), NEW x \in active
  PROVE  Entry(x) \notin Within
<1> DEFINE o == orders[taker]
           s == Opposite(o.side)
           p == orders[x].price
<1> SUFFICES ASSUME Entry(x) \in Within PROVE FALSE
  OBVIOUS
<1>1. /\ TypeOK /\ BookSound /\ x \in Live
      /\ o.side \in Side /\ o.price \in Prices \cup {0}
      /\ o.type = "MARKET" <=> o.price = 0
      /\ Entry(x).side # o.side
  BY TakerFacts, ActiveFacts DEF MarketSound, Based, CheckpointSound, BookSound, Live
<1>2. /\ Entry(x).side = orders[x].side /\ Entry(x).price = p
      /\ orders[x].side \in Side /\ p \in Prices
  BY <1>1, LiveFacts DEF Entry, MarketSound
<1>3. s = orders[x].side /\ s \in Side
  BY <1>1, <1>2 DEF Opposite, Side
<1>4. p \in prices[s]
  <2>1. \E i \in DOMAIN queue[s][p] : queue[s][p][i] = x
    BY <1>1, <1>3 DEF BookSound, ActiveAreQueued
  <2>2. queue[s][p] # <<>>
    BY <2>1
  <2> QED  BY <1>1, <1>2, <1>3, <2>2 DEF BookSound, LevelsIndexed
<1> DEFINE best == Best(s)
<1>5. best \in Prices /\ ~Better(s, p, best)
  BY <1>1, <1>3, <1>4, BestExists
<1>6. o.type # "MARKET" /\ Better(s, o.price, best)
  BY <1>4 DEF IsMarketable
<1>7. /\ o.price # 0
      /\ IF o.side = "BUY" THEN p <= o.price ELSE p >= o.price
  BY <1>1, <1>2, <1>6 DEF Within, PT!Eligible
<1>8. p \in Nat /\ o.price \in Nat /\ best \in Nat
  <2>1. Prices \cup {0} \subseteq Nat
    BY PriceAssumption
  <2> QED  BY <1>1, <1>2, <1>5, <2>1
<1> HIDE DEF best, p
<1>9. CASE o.side = "BUY"
  <2>1. s = "SELL"
    BY <1>9 DEF Opposite
  <2> HIDE DEF o, s
  <2> QED  BY <1>5, <1>6, <1>7, <1>8, <1>9, <2>1 DEF Better
<1>10. CASE o.side = "SELL"
  <2>1. s = "BUY"
    BY <1>10 DEF Opposite
  <2> HIDE DEF o, s
  <2> QED  BY <1>5, <1>6, <1>7, <1>8, <1>10, <2>1 DEF Better
<1> QED  BY <1>1, <1>9, <1>10 DEF Side

\* What the loop has traded is then all that the closed form allots to the
\* order.
LEMMA AllotmentMet ==
  ASSUME MarketSound, Ending
  PROVE  LET o == orders[taker]
         IN /\ \A r \in restingBar : PT!Gave(r, o.original, Within) = InFlight(r.id)
            /\ PT!Executed(restingBar, o.side, o.price, o.original) = o.filled
<1> DEFINE o == orders[taker]
<1>1. /\ taker # NoOrder /\ o.original \in Nat /\ o.filled \in Nat /\ o.remaining \in Nat
      /\ o.original = o.filled + o.remaining /\ o.side \in Side
      /\ Within \in SUBSET restingBar
  BY TakerFacts DEF Ending
<1>2. /\ \A r \in restingBar : InFlight(r.id) = PT!Gave(r, o.filled, Within)
      /\ o.filled <= PT!QuantityOf(Within)
  BY <1>1 DEF MarketSound, AsAllotted
<1>3. Within = PT!Eligible(restingBar, o.side, o.price)
  BY DEF Within
<1>4. PT!QuantityOf(Within) \in Nat
  BY <1>1, TakerFacts, PT!OrderedParts, PT!QuantityNat DEF PT!Queue
<1>5. CASE o.remaining = 0
  <2> HIDE DEF o
  <2>1. o.original = o.filled
    BY <1>1, <1>5
  <2>2. PT!Executed(restingBar, o.side, o.price, o.original)
          = PT!Least(o.original, PT!QuantityOf(Within))
    BY <1>3 DEF PT!Executed
  <2>3. PT!Least(o.original, PT!QuantityOf(Within)) = o.filled
    BY <1>1, <1>2, <1>4, <2>1 DEF PT!Least
  <2> QED  BY <1>2, <2>1, <2>2, <2>3 DEF o
<1>6. CASE ~IsMarketable(o)
  <2>1. ASSUME NEW r \in Within
        PROVE  PT!Allotted(r, o.filled, Within) = r.quantity
    <3>1. PICK x \in Live : r = Entry(x)
      BY <1>1, BarIs
    <3>2. x \notin active
      BY <1>1, <1>6, <3>1, Exhausted
    <3> QED  BY <1>1, <3>1, <3>2, TakenUp
  <2>2. PT!Ordered(restingBar) /\ o.side \in PT!Sides
    BY <1>1, BarOrdered DEF PT!Sides, Side, MarketSound
  <2> HIDE DEF o
  <2>3. o.filled <= o.original
    BY <1>1
  <2>4. /\ \A x \in Within : PT!Allotted(x, o.original, Within) = x.quantity
        /\ PT!Executed(restingBar, o.side, o.price, o.original) = o.filled
    BY <1>1, <1>2, <1>3, <2>1, <2>2, <2>3, PT!AllTaken
  <2>5. \A r \in restingBar : PT!Gave(r, o.original, Within) = PT!Gave(r, o.filled, Within)
    BY <2>1, <2>4 DEF PT!Gave
  <2> QED  BY <1>2, <2>4, <2>5 DEF o
<1> QED  BY <1>5, <1>6 DEF Ending

\* The book the market is left with is the live orders.
LEMMA LeftIsLive ==
  ASSUME MarketSound, Ending
  PROVE  LET o == orders[taker]
         IN M!Swept(restingBar, o.side, o.price, o.original) = {Settled(x) : x \in active}
<1> DEFINE o == orders[taker]
           gave(r) == PT!Gave(r, o.original, Within)
<1>1. PT!Ordered(restingBar) /\ PT!Records(restingBar) /\ o.side \in PT!Sides
      /\ o.original \in Nat /\ Based
  BY BarOrdered, TakerFacts DEF PT!Sides, Side, MarketSound, Ending
<1>2. M!Swept(restingBar, o.side, o.price, o.original) =
        {PT!Kept(r, gave(r)) : r \in {x \in restingBar : gave(x) < x.quantity}}
  <2>1. M!Swept(restingBar, o.side, o.price, o.original)
          = PT!Swept(restingBar, o.side, o.price, o.original)
    BY MarketIs
  <2>2. Within = PT!Eligible(restingBar, o.side, o.price)
    BY DEF Within
  <2> HIDE DEF o
  <2> QED  BY <1>1, <2>1, <2>2, PT!SweptIs
<1>3. active \subseteq Live
  BY ActiveFacts DEF Live, Based, CheckpointSound, MarketSound
<1>4. ASSUME NEW x \in Live
      PROVE  /\ Entry(x) \in restingBar
             /\ gave(Entry(x)) < Entry(x).quantity <=> x \in active
             /\ PT!Kept(Entry(x), gave(Entry(x))) = Settled(x)
  <2>1. Entry(x) \in restingBar /\ Entry(x).id = x
    BY BarIs DEF Entry
  <2>2. gave(Entry(x)) = InFlight(x)
    BY <2>1, AllotmentMet
  <2> DEFINE f == InFlight(x)
             k == orders[x].remaining
  <2>3. /\ k \in Nat /\ f \in Nat
        /\ x \in active => k > 0
        /\ x \notin active => k = 0
    BY <1>1, LiveFacts
  <2>4. Entry(x).quantity = k + f
    BY DEF Entry
  <2>5. PT!Kept(Entry(x), f) = [Entry(x) EXCEPT !.quantity = (k + f) - f]
    BY <2>4 DEF PT!Kept
  <2>6. Settled(x) = [Entry(x) EXCEPT !.quantity = k]
    BY DEF Settled, Entry
  <2> HIDE DEF f, k, gave
  <2>7. (k + f) - f = k /\ (f < k + f <=> k > 0) /\ (k = 0 => ~(k > 0))
    BY <2>3
  <2> QED  BY <2>1, <2>2, <2>3, <2>4, <2>5, <2>6, <2>7 DEF f
<1> HIDE DEF gave, o
<1>5. \A r \in restingBar : \E x \in Live : r = Entry(x)
  BY BarIs
<1>6. {PT!Kept(r, gave(r)) : r \in {x \in restingBar : gave(x) < x.quantity}}
        = {Settled(x) : x \in active}
  <2> DEFINE A == {PT!Kept(r, gave(r)) : r \in {x \in restingBar : gave(x) < x.quantity}}
             B == {Settled(x) : x \in active}
  <2>1. ASSUME NEW k \in A PROVE k \in B
    <3>1. PICK r \in restingBar : gave(r) < r.quantity /\ k = PT!Kept(r, gave(r))
      OBVIOUS
    <3>2. PICK x \in Live : r = Entry(x)
      BY <1>5
    <3> QED  BY <1>4, <3>1, <3>2
  <2>2. ASSUME NEW k \in B PROVE k \in A
    <3>1. PICK x \in active : k = Settled(x)
      OBVIOUS
    <3> QED  BY <1>3, <1>4, <3>1
  <2> QED  BY <2>1, <2>2
<1> QED  BY <1>2, <1>6 DEF o

\* The trades of the loop are the market's.
LEMMA TradesAreMade ==
  ASSUME MarketSound, Ending
  PROVE  LET o == orders[taker]
         IN {[maker |-> r.id, taker |-> taker, price |-> r.price,
              quantity |-> M!Allotted(r, o.original, Within)] :
                r \in M!Makers(restingBar, o.side, o.price, o.original)}
              = {Traded(n) : n \in Flying}
<1> DEFINE o == orders[taker]
           given(r) == PT!Allotted(r, o.original, Within)
           made(r) == [maker |-> r.id, taker |-> taker, price |-> r.price,
                       quantity |-> given(r)]
           makers == {r \in Within : given(r) > 0}
           A == {made(r) : r \in makers}
           B == {Traded(n) : n \in Flying}
<1>1. M!Makers(restingBar, o.side, o.price, o.original) = makers
  <2>1. M!Makers(restingBar, o.side, o.price, o.original)
          = PT!Makers(restingBar, o.side, o.price, o.original)
    BY MarketIs
  <2> QED  BY <2>1 DEF Within, PT!Makers
<1>2. \A r : M!Allotted(r, o.original, Within) = given(r)
  BY MarketIs
<1>3. Within \in SUBSET restingBar /\ Based /\ TypeOK
  BY TakerFacts, InFlightFacts DEF Ending, MarketSound
<1>4. \A r \in restingBar : IF r \in Within THEN given(r) = InFlight(r.id)
                                           ELSE InFlight(r.id) = 0
  BY AllotmentMet DEF PT!Gave
<1>5. ASSUME NEW n \in Flying
      PROVE  /\ trades[n].maker \in Ids /\ trades[n].taker = taker
             /\ trades[n].price = orders[trades[n].maker].price
             /\ InFlight(trades[n].maker) = trades[n].quantity /\ trades[n].quantity > 0
  BY <1>3, InFlightFacts DEF Flying, Based, CheckpointSound, Recorded, RecordedAt
<1>6. ASSUME NEW k \in A PROVE k \in B
  <2>1. PICK r \in Within : given(r) > 0 /\ k = made(r)
    OBVIOUS
  <2>2. PICK x \in Live : r = Entry(x)
    BY <1>3, BarIs
  <2>3. r.id = x /\ r.price = orders[x].price /\ x \in Ids
    BY <2>2 DEF Entry, Live
  <2>4. given(r) = InFlight(x)
    BY <1>3, <1>4, <2>3
  <2>5. PICK n \in Flying : trades[n].maker = x
    BY <1>3, <2>1, <2>3, <2>4, InFlightFacts DEF By
  <2> HIDE DEF given
  <2>6. made(r) = Traded(n)
    BY <1>5, <2>3, <2>4, <2>5 DEF Traded
  <2> QED  BY <2>1, <2>6
<1>7. ASSUME NEW k \in B PROVE k \in A
  <2>1. PICK n \in Flying : k = Traded(n)
    OBVIOUS
  <2> DEFINE x == trades[n].maker
             r == Entry(x)
  <2>2. x \in Ids /\ InFlight(x) = trades[n].quantity /\ InFlight(x) > 0
    BY <1>5
  <2>3. r \in restingBar /\ r.id = x /\ r.price = orders[x].price
    BY <2>2, BarIs DEF Live, Entry
  <2> HIDE DEF r
  <2>4. r \in Within /\ given(r) = InFlight(x)
    BY <1>4, <2>2, <2>3
  <2> HIDE DEF given
  <2>5. made(r) = Traded(n)
    BY <1>5, <2>2, <2>3, <2>4 DEF Traded
  <2> QED  BY <2>1, <2>2, <2>4, <2>5
<1> HIDE DEF given
<1>8. {[maker |-> r.id, taker |-> taker, price |-> r.price,
        quantity |-> M!Allotted(r, o.original, Within)] :
          r \in M!Makers(restingBar, o.side, o.price, o.original)} = A
  BY <1>1, <1>2
<1> QED  BY <1>6, <1>7, <1>8

\* The call returns: the order it held leaves the loop, what it traded counts,
\* and a limit order with quantity left rests.
Rests == orders[taker].price # 0 /\ orders[taker].remaining > 0

Returning ==
  /\ CheckpointSound' /\ taker' = NoOrder /\ trades' = trades
  /\ \A id \in Ids : SameForm(id)
  /\ \A x \in active : orders'[x] = orders[x]
  /\ IF Rests
     THEN /\ active' = active \cup {taker}
          /\ restingSequence' = restingSequence + 1
          /\ orders'[taker].resting = restingSequence + 1
          /\ orders'[taker].remaining = orders[taker].remaining
     ELSE active' = active /\ restingSequence' = restingSequence

LEMMA CallRefines ==
  ASSUME MarketSound, Ending, Returning
  PROVE  MarketSound' /\ Refines
<1> DEFINE o == orders[taker]
<1>1. /\ taker # NoOrder /\ taker \in Ids /\ Seen(taker) /\ o.type # "CANCEL"
      /\ o.side \in {"BUY", "SELL"} /\ o.price \in Prices \cup {0}
      /\ o.original \in Quantities
      /\ o.original \in Nat /\ o.filled \in Nat /\ o.remaining \in Nat
      /\ o.original = o.filled + o.remaining
  BY TakerFacts DEF Ending, Side
<1>2. /\ CheckpointSound' /\ taker' = NoOrder /\ trades' = trades
      /\ \A id \in Ids : SameForm(id)
      /\ Based /\ TypeOK /\ CheckpointSound
  BY InFlightFacts DEF Returning, MarketSound, Based
<1>3. NoneFlying'
  BY <1>2, NamedOrder, TradeTypes DEF NoneFlying
<1>4. MarketSound' /\ SettledBar'
  BY <1>2, <1>3, SoundKept, BarSettlesThen DEF Evolved, Fresh
<1>5. acceptedBar' = acceptedBar \cup {taker} /\ taker \notin acceptedBar
  <2>1. NoOrder \notin Ids
    BY NamedOrder
  <2> QED  BY <1>1, <1>2, <2>1 DEF acceptedBar, Registered, SameForm, Seen
<1>6. executionsBar' = executionsBar \cup {Traded(n) : n \in Flying}
  <2>1. executionsBar = {Traded(n) : n \in Done}
    BY DEF executionsBar, Traded
  <2>2. executionsBar' = {Traded(n) : n \in DOMAIN trades}
    BY <1>2, <1>4 DEF SettledBar, Traded
  <2>3. DOMAIN trades = Done \cup Flying
    BY DEF Done, Flying
  <2> QED  BY <2>1, <2>2, <2>3
<1> DEFINE kept == M!Swept(restingBar, o.side, o.price, o.original)
           left == o.original - M!Executed(restingBar, o.side, o.price, o.original)
           mine == [id |-> taker, side |-> o.side, price |-> o.price,
                    arrival |-> restingSequence + 1, quantity |-> left]
<1>7. left = o.remaining
  <2>1. M!Executed(restingBar, o.side, o.price, o.original) = o.filled
    BY AllotmentMet, MarketIs
  <2> HIDE DEF o
  <2> QED  BY <1>1, <2>1
<1>8. kept = {Settled(x) : x \in active}
  BY LeftIsLive
<1>9. \A x \in active : Settled(x)' = Settled(x)
  BY DEF Settled, Returning
<1>10. restingBar' = {Settled(x)' : x \in active'}
  BY <1>4 DEF SettledBar
<1> HIDE DEF kept, left
<1>11. IF o.price # 0 /\ left > 0
       THEN restingBar' = kept \cup {mine} /\ restingSequence' = restingSequence + 1
       ELSE restingBar' = kept /\ UNCHANGED restingSequence
  <2>1. CASE Rests
    <3>1. /\ active' = active \cup {taker} /\ o.price # 0 /\ left > 0
          /\ restingSequence' = restingSequence + 1
          /\ orders'[taker].resting = restingSequence + 1
          /\ orders'[taker].remaining = left
      BY <1>7, <2>1 DEF Returning, Rests
    <3>2. PICK id \in Ids : id = taker
      BY <1>1
    <3>3. Settled(id)' = mine
      BY <1>2, <3>1, <3>2 DEF Settled, SameForm
    <3> HIDE DEF mine
    <3>4. restingBar' = kept \cup {mine}
      <4>1. active' = active \cup {id}
        BY <3>1, <3>2
      <4> QED  BY <1>8, <1>9, <1>10, <3>3, <4>1
    <3> QED  BY <3>1, <3>4
  <2>2. CASE ~Rests
    <3>1. /\ active' = active /\ restingSequence' = restingSequence
          /\ ~(o.price # 0 /\ left > 0)
      BY <1>7, <2>2 DEF Returning, Rests
    <3>2. restingBar' = kept
      BY <1>8, <1>9, <1>10, <3>1
    <3> QED  BY <3>1, <3>2
  <2> QED  BY <2>1, <2>2
<1>12. M!Accept(taker, o.side, o.price, o.original)
  <2>1. M!Eligible(restingBar, o.side, o.price) = Within
    BY MarketIs DEF Within
  <2>2. executionsBar' = executionsBar \cup
          {[maker |-> r.id, taker |-> taker, price |-> r.price,
            quantity |-> M!Allotted(r, o.original, Within)] :
              r \in M!Makers(restingBar, o.side, o.price, o.original)}
    BY <1>6, TradesAreMade
  <2> QED  BY <1>5, <1>11, <2>1, <2>2 DEF M!Accept, kept, left
<1> HIDE DEF o
<1>13. M!Step
  BY <1>1, <1>12 DEF M!Step
<1> QED  BY <1>4, <1>13 DEF Refines

LEMMA RestRefines ==
  ASSUME MarketSound, Rest
  PROVE  MarketSound' /\ Refines
<1> DEFINE o == orders[taker]
           n == [o EXCEPT !.resting = restingSequence + 1,
                          !.status = IF o.filled = 0 THEN "ACTIVE" ELSE o.status]
<1>1. CheckpointSound' /\ CheckpointSound /\ BookSound
  BY RestChecked DEF MarketSound, Based, CheckpointSound
<1>2. /\ taker # NoOrder /\ taker' = NoOrder /\ o.remaining > 0
      /\ ~IsMarketable(o) /\ o.type = "LIMIT"
      /\ orders' = [orders EXCEPT ![taker] = n]
      /\ active' = active \cup {taker} /\ trades' = trades
      /\ restingSequence' = restingSequence + 1
  BY DEF Rest, history
<1>3. /\ o \in Order /\ o.price # 0 /\ Seen(taker) /\ restingSequence \in Nat
  BY <1>1, <1>2, TakerFacts DEF BookSound, TypeOK
<1>4. /\ n.type = o.type /\ n.side = o.side /\ n.price = o.price
      /\ n.original = o.original /\ n.remaining = o.remaining
      /\ n.resting = restingSequence + 1 /\ n.resting # 0 /\ n.status # "UNSEEN"
  BY <1>3 DEF Order, Seen
<1>5. taker \in Ids /\ \A x \in Ids : orders'[x] = IF x = taker THEN n ELSE orders[x]
  <2> HIDE DEF n
  <2> QED  BY <1>1, <1>2, TakerFacts DEF BookSound, TypeOK
<1> HIDE DEF n
<1>6. \A id \in Ids : SameForm(id)
  BY <1>3, <1>4, <1>5 DEF SameForm, Seen
<1>7. \A x \in active : orders'[x] = orders[x]
  BY <1>1, <1>5, ActiveFacts
<1>8. Returning
  BY <1>1, <1>2, <1>3, <1>4, <1>5, <1>6, <1>7 DEF Returning, Rests
<1>9. Ending
  BY <1>2 DEF Ending
<1> QED  BY <1>8, <1>9, CallRefines

LEMMA ExpireRefines ==
  ASSUME MarketSound, Expire
  PROVE  MarketSound' /\ Refines
<1> DEFINE o == orders[taker]
           n == CancelRemainder(o, "EXPIRED")
<1>1. CheckpointSound' /\ CheckpointSound /\ BookSound
  BY ExpireChecked DEF MarketSound, Based, CheckpointSound
<1>2. /\ taker # NoOrder /\ taker' = NoOrder
      /\ ~IsMarketable(o) /\ o.type = "MARKET"
      /\ orders' = [orders EXCEPT ![taker] = CancelRemainder(@, "EXPIRED")]
      /\ UNCHANGED <<active, restingSequence, trades>>
  BY DEF Expire, history
<1>3. o \in Order /\ o.price = 0 /\ Seen(taker)
  BY <1>2, TakerFacts
<1>4. /\ n.type = o.type /\ n.side = o.side /\ n.price = o.price
      /\ n.original = o.original /\ n.resting = o.resting /\ n.status = "EXPIRED"
  BY <1>3, CancelRemainderKeeps
<1>5. taker \in Ids /\ \A x \in Ids : orders'[x] = IF x = taker THEN n ELSE orders[x]
  BY <1>1, <1>2, TakerFacts DEF BookSound, TypeOK
<1> HIDE DEF n
<1>6. \A id \in Ids : SameForm(id)
  BY <1>3, <1>4, <1>5 DEF SameForm, Seen
<1>7. \A x \in active : orders'[x] = orders[x]
  BY <1>1, <1>5, ActiveFacts
<1>8. Returning
  BY <1>1, <1>2, <1>3, <1>6, <1>7 DEF Returning, Rests
<1>9. Ending
  BY <1>2 DEF Ending
<1> QED  BY <1>8, <1>9, CallRefines

LEMMA FilledRefines ==
  ASSUME MarketSound, Filled
  PROVE  MarketSound' /\ Refines
<1>1. CheckpointSound'
  BY FilledChecked DEF MarketSound, Based
<1>2. /\ taker # NoOrder /\ taker' = NoOrder /\ orders[taker].remaining = 0
      /\ UNCHANGED <<orders, active, restingSequence, trades>>
  BY DEF Filled, history
<1>3. \A id \in Ids : SameForm(id)
  BY <1>2 DEF SameForm, Seen
<1>4. Returning
  BY <1>1, <1>2, <1>3 DEF Returning, Rests
<1>5. Ending
  BY <1>2 DEF Ending
<1> QED  BY <1>4, <1>5, CallRefines

-----------------------------------------------------------------------------
(* The book implements the market *)

LEMMA EmptyMarket == Init => MarketSound /\ M!Open
<1> SUFFICES ASSUME Init PROVE MarketSound /\ M!Open
  OBVIOUS
<1>1. CheckpointSound
  BY EmptyChecked
<1>2. /\ \A id \in Ids : orders[id] = Unseen
      /\ active = {} /\ restingSequence = 0 /\ trades = <<>> /\ taker = NoOrder
  BY DEF Init
<1>3. Unseen.type = "CANCEL" /\ Unseen.status = "UNSEEN"
  BY DEF Unseen, Pristine
<1>4. DOMAIN trades = {}
  BY <1>2
<1>5. Based
  BY <1>1, <1>2, <1>3, <1>4 DEF Based, Forms, MakersRested, Once, Flying
<1>6. AsAllotted
  BY <1>2 DEF AsAllotted
<1>7. restingBar = {} /\ executionsBar = {}
  <2>1. SettledBar
    BY <1>1, <1>4, BarSettles DEF NoneFlying
  <2> QED  BY <1>2, <1>4, <2>1 DEF SettledBar
<1>8. acceptedBar = {}
  BY <1>2, <1>3 DEF acceptedBar, Registered, Seen
<1> QED  BY <1>2, <1>5, <1>6, <1>7, <1>8 DEF MarketSound, M!Open

LEMMA NextRefines ==
  ASSUME MarketSound, [Next]_vars
  PROVE  MarketSound' /\ Refines
<1>1. ASSUME NEW id \in Ids, NEW o \in Limits \cup Markets, Submit(id, o)
      PROVE  MarketSound' /\ Refines
  BY <1>1, SubmitRefines
<1>2. CASE Match
  BY <1>2, MatchRefines
<1>3. CASE Rest
  BY <1>3, RestRefines
<1>4. CASE Expire
  BY <1>4, ExpireRefines
<1>5. CASE Filled
  BY <1>5, FilledRefines
<1>6. ASSUME NEW target \in Ids, NEW command \in Ids, Cancel(target, command)
      PROVE  MarketSound' /\ Refines
  BY <1>6, CancelRefines
<1>7. ASSUME NEW target \in Ids, NEW command \in Ids, NEW id \in Ids,
             NEW o \in Limits, Replace(target, command, id, o)
      PROVE  MarketSound' /\ Refines
  BY <1>7, ReplaceRefines
<1>8. ASSUME NEW target \in Ids, NEW command \in Ids, NEW q \in Quantities,
             NEW total \in 1 .. q, Reduce(target, total, command)
      PROVE  MarketSound' /\ Refines
  <2>1. total \in Nat
    BY QuantityAssumption
  <2> QED  BY <1>8, <2>1, ReduceRefines
<1>9. CASE UNCHANGED vars
  <2>1. /\ UNCHANGED <<orders, active, restingSequence, trades, taker>>
        /\ CheckpointSound'
    BY <1>9, NextIsChecked DEF vars, MarketSound, Based
  <2>2. Forms' /\ MakersRested' /\ Once'
    BY <2>1 DEF MarketSound, Based, Forms, MakersRested, Once, Flying
  <2>3. ASSUME NEW id \in Ids
        PROVE  InFlight(id)' = InFlight(id)
    <3>1. TypeOK /\ TypeOK' /\ Once /\ Once'
      BY <2>1, <2>2 DEF MarketSound, Based, CheckpointSound, BookSound
    <3>2. InFlightIs /\ InFlightIs'
      BY <3>1, Flown, FlownThen
    <3>3. By(id)' = By(id) /\ Flying' = Flying /\ trades' = trades
      BY <2>1 DEF By, Flying
    <3>4. CASE By(id) = {}
      BY <3>2, <3>3, <3>4 DEF InFlightIs
    <3>5. CASE By(id) # {}
      <4>1. PICK n \in Flying : trades[n].maker = id
        BY <3>5 DEF By
      <4> QED  BY <3>1, <3>2, <3>3, <4>1 DEF InFlightIs
    <3> QED  BY <3>4, <3>5
  <2>4. \A x \in Ids : Entry(x)' = Entry(x)
    BY <2>1, <2>3 DEF Entry
  <2>5. restingBar' = restingBar
    <3>1. Live' = Live /\ Live \subseteq Ids
      BY <2>1, <2>3 DEF Live
    <3> QED  BY <2>4, <3>1, BarIs, BarThen
  <2>6. executionsBar' = executionsBar /\ acceptedBar' = acceptedBar
    BY <2>1 DEF executionsBar, Done, acceptedBar, Registered, Seen
  <2>7. Within' = Within
    BY <2>1, <2>5 DEF Within
  <2>8. AsAllotted'
    <3>1. active \subseteq Ids /\ \A r \in restingBar : r.id \in Ids
      BY ActiveFacts, BarIs DEF MarketSound, Based, CheckpointSound, Entry, Live
    <3> QED  BY <2>1, <2>3, <2>5, <2>7, <3>1 DEF MarketSound, AsAllotted
  <2> QED
    BY <2>1, <2>5, <2>6, <2>8, <2>2 DEF MarketSound, Based, Refines, M!marketVars
<1> QED
  <2>1. Free \subseteq Ids /\ active \subseteq Ids
    BY ActiveFacts DEF Free, MarketSound, Based, CheckpointSound
  <2> QED
    BY <1>1, <1>2, <1>3, <1>4, <1>5, <1>6, <1>7, <1>8, <1>9, <2>1 DEF Next, Loop

\* The loop over levels and queues (_match, _rest, PriceLevel) executes of
\* every order, at once as the market sees it, what the closed form of
\* price-time priority allots, and nothing else moves an order or trades.
THEOREM Refinement == Spec => ImplementsMarket
<1>1. MarketSound /\ [Next]_vars => MarketSound' /\ Refines
  BY NextRefines
<1> QED
  BY EmptyMarket, <1>1, PTL DEF Spec, ImplementsMarket, M!Market, Refines
=============================================================================

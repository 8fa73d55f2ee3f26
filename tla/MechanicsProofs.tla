-------------------------- MODULE MechanicsProofs --------------------------
(***************************************************************************)
(* Theorems about MarketMechanics, for any rules, any orders and any       *)
(* number of them: the two ledgers and the position, the phases of the     *)
(* live orders, what an uncross trades, and what a step may do to an       *)
(* order.                                                                  *)
(*                                                                         *)
(* MechanicsInv is the invariant of every behaviour.  Its part Books says  *)
(* that the engine's account, the ledger and the book are one account of   *)
(* each order (Accounts).  A step is then one of few kinds (StepKinds),    *)
(* and each property of the steps is proved for those.                     *)
(***************************************************************************)
EXTENDS MarketMechanics, PriceTimeProofs
-----------------------------------------------------------------------------
(* The accounts *)

\* What the engine and the book keep of an order, and what rests in the book.
OrderType(r) == [request : RequestType(r), filled : Nat, cancelled : Nat,
                 expired : Nat, rejected : BOOLEAN]
EntryType == [known : BOOLEAN, filled : Nat, cancelled : Nat, expired : BOOLEAN]
RestingType == [id : Nat, side : Sides, price : Nat \ {0}, arrival : Nat,
                quantity : Nat \ {0}]

\* The two accounts of one order agree; what the book has let expire is closed.
Agreed(o, l) ==
  /\ Remaining(o) >= 0
  /\ l.known <=> ~o.rejected /\ ~o.request.auction
  /\ l.known => /\ o.filled = l.filled
                /\ o.cancelled + o.expired = l.cancelled
                /\ l.expired => o.cancelled = 0 /\ Remaining(o) = 0
  /\ o.rejected => o.filled = 0

\* x is what rests of an order.
RestsOf(x, os, ls) ==
  /\ x.id \in 1 .. Len(os)
  /\ ls[x.id].known
  /\ x.quantity = Remaining(os[x.id])
  /\ x.side = os[x.id].request.side
  /\ x.price = os[x.id].request.price

\* Engine and book agree on all orders, when n orders have rested so far.
Accounts(r, os, ls, bk, n) ==
  /\ os \in Seq(OrderType(r)) /\ ls \in Seq(EntryType) /\ Len(ls) = Len(os)
  /\ \A i \in 1 .. Len(os) : Agreed(os[i], ls[i])
  /\ n \in Nat
  /\ IsFiniteSet(bk) /\ bk \subseteq RestingType
  /\ \A x \in bk : RestsOf(x, os, ls) /\ x.arrival <= n
  /\ \A x, y \in bk : x.id = y.id \/ x.arrival = y.arrival => x = y
  /\ \A i \in 1 .. Len(os) :
       ls[i].known /\ Remaining(os[i]) > 0 => \E x \in bk : x.id = i

\* What an order has added to the player's position.
Earned(o) == IF o.request.account = Player
             THEN SignedBuy(o.request.side, o.filled) ELSE 0

StateType ==
  /\ rules \in Rules /\ session \in SessionState
  /\ now \in Nat /\ cursor \in Nat /\ lastPrice \in Nat
  /\ failed \in BOOLEAN
-----------------------------------------------------------------------------
(* Lists *)

LEMMA ListIs ==
  ASSUME NEW S, NEW s \in Seq(S)
  PROVE  /\ Len(s) \in Nat
         /\ DOMAIN s = 1 .. Len(s)
         /\ s \in [1 .. Len(s) -> S]
         /\ \A i \in 1 .. Len(s) : s[i] \in S
  OBVIOUS

LEMMA ListOf ==
  ASSUME NEW S, NEW n \in Nat, NEW f \in [1 .. n -> S]
  PROVE  f \in Seq(S) /\ Len(f) = n
  OBVIOUS

LEMMA ListAnd ==
  ASSUME NEW S, NEW s \in Seq(S), NEW e \in S
  PROVE  /\ Append(s, e) \in Seq(S)
         /\ Len(Append(s, e)) = Len(s) + 1
         /\ \A i \in 1 .. Len(s) : Append(s, e)[i] = s[i]
         /\ Append(s, e)[Len(s) + 1] = e
         /\ DOMAIN Append(s, e) = 1 .. Len(s) + 1
  OBVIOUS

LEMMA ListTail ==
  ASSUME NEW S, NEW s \in Seq(S), s # <<>>
  PROVE  /\ Len(s) \in Nat \ {0}
         /\ Head(s) = s[1] /\ Head(s) \in S
         /\ Tail(s) \in Seq(S) /\ Len(Tail(s)) = Len(s) - 1
         /\ \A i \in 1 .. Len(s) - 1 : Tail(s)[i] = s[i + 1]
  OBVIOUS

-----------------------------------------------------------------------------
(* Orders *)

LEMMA OrderIs ==
  ASSUME NEW r, NEW o \in OrderType(r)
  PROVE  /\ o.request \in RequestType(r) /\ o.filled \in Nat /\ o.cancelled \in Nat
         /\ o.expired \in Nat /\ o.rejected \in BOOLEAN
         /\ o.request.quantity \in Nat \ {0} /\ o.request.price \in Nat
         /\ o.request.side \in Sides /\ o.request.auction \in BOOLEAN
         /\ o.request.until \in Nat
         /\ Remaining(o) = o.request.quantity - o.filled - o.cancelled - o.expired
         /\ Remaining(o) \in Int
  BY DEF OrderType, RequestType, Remaining, Sides

\* The order o once what is left of it has been cancelled, or has expired.
Withdrawn(o) == [o EXCEPT !.cancelled = @ + Remaining(o)]
Lapsed(o) == [o EXCEPT !.expired = @ + Remaining(o)]

\* The book's account of an order once the book has cancelled n of it.
Closed(l, n) == [l EXCEPT !.cancelled = @ + n]

LEMMA ClosedOrder ==
  ASSUME NEW r, NEW o \in OrderType(r), Remaining(o) >= 0
  PROVE  /\ Withdrawn(o) \in OrderType(r) /\ Remaining(Withdrawn(o)) = 0
         /\ Lapsed(o) \in OrderType(r) /\ Remaining(Lapsed(o)) = 0
         /\ \A f \in {"request", "filled", "rejected", "expired"} : Withdrawn(o)[f] = o[f]
         /\ \A f \in {"request", "filled", "rejected", "cancelled"} : Lapsed(o)[f] = o[f]
         /\ Withdrawn(o).cancelled = o.cancelled + Remaining(o)
         /\ Lapsed(o).expired = o.expired + Remaining(o)
<1>1. Remaining(o) \in Nat /\ o.cancelled \in Nat /\ o.expired \in Nat
  BY OrderIs
<1>2. /\ Withdrawn(o) \in OrderType(r) /\ Lapsed(o) \in OrderType(r)
      /\ \A f \in {"request", "filled", "rejected", "expired"} : Withdrawn(o)[f] = o[f]
      /\ \A f \in {"request", "filled", "rejected", "cancelled"} : Lapsed(o)[f] = o[f]
      /\ Withdrawn(o).cancelled = o.cancelled + Remaining(o)
      /\ Lapsed(o).expired = o.expired + Remaining(o)
  BY <1>1 DEF OrderType, Withdrawn, Lapsed
<1>3. Remaining(Withdrawn(o)) = 0 /\ Remaining(Lapsed(o)) = 0
  BY <1>2, OrderIs DEF Remaining
<1> QED  BY <1>2, <1>3

LEMMA EntryIs ==
  ASSUME NEW l \in EntryType, NEW n \in Nat
  PROVE  /\ l.known \in BOOLEAN /\ l.filled \in Nat /\ l.cancelled \in Nat
         /\ l.expired \in BOOLEAN
         /\ Closed(l, n) \in EntryType
         /\ Closed(l, n).known = l.known /\ Closed(l, n).filled = l.filled
         /\ Closed(l, n).expired = l.expired
         /\ Closed(l, n).cancelled = l.cancelled + n
  BY DEF EntryType, Closed

\* Synchronising an order on which the accounts agree changes nothing.
LEMMA SyncedIsSame ==
  ASSUME NEW r, NEW o \in OrderType(r), NEW l \in EntryType, Agreed(o, l)
  PROVE  Synced(o, l) = o
<1>1. CASE ~l.known
  BY <1>1 DEF Synced
<1>2. CASE l.known
  <2>1. /\ o.filled = l.filled
        /\ o.cancelled = IF l.expired THEN 0 ELSE l.cancelled - o.expired
        /\ o.expired = IF l.expired THEN l.cancelled ELSE o.expired
    <3>1. /\ o.filled = l.filled /\ o.cancelled + o.expired = l.cancelled
          /\ l.expired => o.cancelled = 0
      BY <1>2 DEF Agreed
    <3>2. o.cancelled \in Nat /\ o.expired \in Nat /\ l.expired \in BOOLEAN
      BY OrderIs DEF EntryType
    <3> QED  BY <3>1, <3>2
  <2>2. o = [o EXCEPT !.filled = o.filled, !.cancelled = o.cancelled, !.expired = o.expired]
    BY DEF OrderType
  <2> QED  BY <1>2, <2>1, <2>2 DEF Synced
<1> QED  BY <1>1, <1>2

\* What the book cancels is cancelled, ...
LEMMA SyncedIsWithdrawn ==
  ASSUME NEW r, NEW o \in OrderType(r), NEW l \in EntryType, Agreed(o, l),
         l.known, Remaining(o) > 0
  PROVE  /\ Synced(o, Closed(l, Remaining(o))) = Withdrawn(o)
         /\ Agreed(Withdrawn(o), Closed(l, Remaining(o)))
<1> DEFINE m == Closed(l, Remaining(o))
<1>1. Remaining(o) \in Nat /\ ~l.expired
  BY OrderIs DEF Agreed
<1>2. /\ m.known /\ m.filled = l.filled /\ ~m.expired
      /\ m.cancelled = l.cancelled + Remaining(o) /\ l.cancelled \in Nat
  BY <1>1, EntryIs
<1>3. o.filled = l.filled /\ o.cancelled + o.expired = l.cancelled
  BY DEF Agreed
<1> HIDE DEF m
<1>4. Synced(o, m) = Withdrawn(o)
  <2>1. m.cancelled - o.expired = o.cancelled + Remaining(o)
    BY <1>1, <1>2, <1>3, OrderIs
  <2>2. Synced(o, m) = [o EXCEPT !.filled = o.filled,
                                 !.cancelled = o.cancelled + Remaining(o),
                                 !.expired = o.expired]
    BY <1>2, <1>3, <2>1 DEF Synced
  <2> QED  BY <2>2 DEF OrderType, Withdrawn
<1>5. Agreed(Withdrawn(o), m)
  <2>1. /\ Remaining(Withdrawn(o)) = 0
        /\ Withdrawn(o).cancelled + Withdrawn(o).expired = m.cancelled
        /\ Withdrawn(o).request = o.request /\ Withdrawn(o).rejected = o.rejected
        /\ Withdrawn(o).filled = o.filled
    BY <1>1, <1>2, <1>3, ClosedOrder, OrderIs
  <2> QED  BY <1>2, <1>3, <2>1 DEF Agreed
<1> QED  BY <1>4, <1>5 DEF m

\* ... and what expires and is cancelled in the book for it has expired.
LEMMA ExpiredIsLapsed ==
  ASSUME NEW r, NEW o \in OrderType(r), NEW l \in EntryType, Agreed(o, l),
         l.known, Remaining(o) > 0
  PROVE  /\ ExpiredOrder(o, Closed(l, Remaining(o))) = Lapsed(o)
         /\ Agreed(Lapsed(o), Closed(l, Remaining(o)))
<1> DEFINE m == Closed(l, Remaining(o))
<1>1. Remaining(o) \in Nat /\ ~l.expired
  BY OrderIs DEF Agreed
<1>2. /\ m.known /\ m.filled = l.filled /\ ~m.expired
      /\ m.cancelled = l.cancelled + Remaining(o) /\ l.cancelled \in Nat
  BY <1>1, EntryIs
<1>3. o.filled = l.filled /\ o.cancelled + o.expired = l.cancelled
  BY DEF Agreed
<1>4. ExpiredOrder(o, m) = Lapsed(o)
  <2>1. Synced(o, m) = Withdrawn(o)
    BY SyncedIsWithdrawn
  <2> HIDE DEF m
  <2> QED  BY <2>1 DEF ExpiredOrder, OrderType, Withdrawn, Lapsed
<1> HIDE DEF m
<1>5. Agreed(Lapsed(o), m)
  <2>1. /\ Remaining(Lapsed(o)) = 0
        /\ Lapsed(o).cancelled + Lapsed(o).expired = m.cancelled
        /\ Lapsed(o).request = o.request /\ Lapsed(o).rejected = o.rejected
        /\ Lapsed(o).filled = o.filled
    BY <1>1, <1>2, <1>3, ClosedOrder, OrderIs
  <2> QED  BY <1>2, <1>3, <2>1 DEF Agreed
<1> QED  BY <1>4, <1>5 DEF m

-----------------------------------------------------------------------------
(* What departs from the market *)

InBook(bk) == {x.id : x \in bk}
Without(bk, S) == {x \in bk : x.id \notin S}

\* The live auction orders among os.
Auctioned(os) == {i \in 1 .. Len(os) : /\ os[i].request.auction /\ ~os[i].rejected
                                       /\ Remaining(os[i]) > 0}

\* The orders once those of W have been cancelled and those of E have expired.
Departed(os, W, E) ==
  [i \in 1 .. Len(os) |-> IF i \in W THEN Withdrawn(os[i])
                          ELSE IF i \in E THEN Lapsed(os[i]) ELSE os[i]]
Struck(os, ls, S) ==
  [i \in 1 .. Len(os) |-> IF i \in S THEN Closed(ls[i], Remaining(os[i])) ELSE ls[i]]

LEMMA AccountsAre ==
  ASSUME NEW r, NEW os, NEW ls, NEW bk, NEW n, Accounts(r, os, ls, bk, n)
  PROVE  /\ Len(os) \in Nat /\ Len(ls) = Len(os)
         /\ DOMAIN os = 1 .. Len(os) /\ DOMAIN ls = 1 .. Len(os)
         /\ os \in [1 .. Len(os) -> OrderType(r)] /\ ls \in [1 .. Len(os) -> EntryType]
         /\ \A i \in 1 .. Len(os) : /\ os[i] \in OrderType(r) /\ ls[i] \in EntryType
                                    /\ Agreed(os[i], ls[i]) /\ Remaining(os[i]) \in Nat
         /\ n \in Nat
<1>1. /\ os \in Seq(OrderType(r)) /\ ls \in Seq(EntryType) /\ Len(ls) = Len(os)
      /\ \A i \in 1 .. Len(os) : Agreed(os[i], ls[i])
      /\ n \in Nat
  BY DEF Accounts
<1>2. /\ Len(os) \in Nat /\ DOMAIN os = 1 .. Len(os)
      /\ os \in [1 .. Len(os) -> OrderType(r)]
      /\ \A i \in 1 .. Len(os) : os[i] \in OrderType(r)
  BY <1>1, ListIs
<1>3. /\ DOMAIN ls = 1 .. Len(os)
      /\ ls \in [1 .. Len(os) -> EntryType]
      /\ \A i \in 1 .. Len(os) : ls[i] \in EntryType
  BY <1>1, ListIs
<1>4. \A i \in 1 .. Len(os) : Remaining(os[i]) \in Nat
  BY <1>1, <1>2, OrderIs DEF Agreed
<1> QED  BY <1>1, <1>2, <1>3, <1>4

LEMMA InBookIs ==
  ASSUME NEW r, NEW os, NEW ls, NEW bk, NEW n, Accounts(r, os, ls, bk, n)
  PROVE  /\ \A i \in InBook(bk) : /\ i \in 1 .. Len(os) /\ ls[i].known
                                  /\ Remaining(os[i]) > 0 /\ ~ls[i].expired
                                  /\ ~os[i].rejected /\ ~os[i].request.auction
         /\ \A i \in 1 .. Len(os) : ls[i].known /\ Remaining(os[i]) > 0 => i \in InBook(bk)
         /\ \A i \in Auctioned(os) : /\ i \in 1 .. Len(os) /\ ~ls[i].known
                                     /\ i \notin InBook(bk)
         /\ \A x \in bk : x.id \in InBook(bk)
<1>1. \A x \in bk : RestsOf(x, os, ls) /\ x.quantity \in Nat \ {0}
  BY DEF Accounts, RestingType
<1>2. \A i \in InBook(bk) : i \in 1 .. Len(os) /\ ls[i].known /\ Remaining(os[i]) > 0
  BY <1>1 DEF InBook, RestsOf
<1>3. \A i \in InBook(bk) : ~ls[i].expired /\ ~os[i].rejected /\ ~os[i].request.auction
  BY <1>2, AccountsAre DEF Agreed
<1>4. \A i \in 1 .. Len(os) : ls[i].known /\ Remaining(os[i]) > 0 => i \in InBook(bk)
  BY DEF Accounts, InBook
<1>5. \A i \in Auctioned(os) : i \in 1 .. Len(os) /\ ~ls[i].known /\ i \notin InBook(bk)
  BY <1>3, AccountsAre DEF Auctioned, Agreed
<1>6. \A x \in bk : x.id \in InBook(bk)
  BY DEF InBook
<1> QED  BY <1>2, <1>3, <1>4, <1>5, <1>6

\* p and m are what becomes of the order o and of its entry l, number i, when
\* the orders of W are cancelled and those of E expire.
Departs(r, o, l, p, m, i, W, E) ==
  /\ p \in OrderType(r) /\ m \in EntryType /\ Agreed(p, m)
  /\ p.request = o.request /\ p.filled = o.filled /\ p.rejected = o.rejected
  /\ m.known = l.known /\ m.filled = l.filled
  /\ i \in W \cup E => Remaining(p) = 0
  /\ i \notin W \cup E => p = o /\ m = l
  /\ i \in W => /\ p.expired = o.expired
                 /\ p.cancelled = o.cancelled + Remaining(o)
  /\ i \notin W => p.cancelled = o.cancelled
  /\ i \in E \ W => p.expired = o.expired + Remaining(o)

\* Each order by itself.
LEMMA DepartedIs ==
  ASSUME NEW r, NEW os, NEW ls, NEW bk, NEW n, Accounts(r, os, ls, bk, n),
         NEW W \in SUBSET InBook(bk), NEW E \in SUBSET (InBook(bk) \cup Auctioned(os)),
         NEW i \in 1 .. Len(os)
  PROVE  Departs(r, os[i], ls[i], Departed(os, W, E)[i],
                 Struck(os, ls, W \cup (E \cap InBook(bk)))[i], i, W, E)
<1> DEFINE o == Departed(os, W, E)[i]
           l == Struck(os, ls, W \cup (E \cap InBook(bk)))[i]
<1>0. SUFFICES /\ o \in OrderType(r) /\ l \in EntryType /\ Agreed(o, l)
               /\ o.request = os[i].request /\ o.filled = os[i].filled
               /\ o.rejected = os[i].rejected
               /\ l.known = ls[i].known /\ l.filled = ls[i].filled
               /\ i \in W \cup E => Remaining(o) = 0
               /\ i \notin W \cup E => o = os[i] /\ l = ls[i]
               /\ i \in W => o.expired = os[i].expired
                             /\ o.cancelled = os[i].cancelled + Remaining(os[i])
               /\ i \notin W => o.cancelled = os[i].cancelled
               /\ i \in E \ W => o.expired = os[i].expired + Remaining(os[i])
  <2> HIDE DEF o, l
  <2>1. Departs(r, os[i], ls[i], o, l, i, W, E)
    BY <1>0 DEF Departs
  <2> QED  BY <2>1 DEF o, l
<1>1. /\ os[i] \in OrderType(r) /\ ls[i] \in EntryType /\ Agreed(os[i], ls[i])
      /\ Remaining(os[i]) \in Nat
  BY AccountsAre
<1>2. CASE i \in W
  <2>1. o = Withdrawn(os[i]) /\ l = Closed(ls[i], Remaining(os[i]))
    BY <1>2 DEF Departed, Struck
  <2>2. ls[i].known /\ Remaining(os[i]) > 0
    BY <1>2, InBookIs
  <2>3. Agreed(o, l)
    BY <1>1, <2>1, <2>2, SyncedIsWithdrawn
  <2>4. /\ o \in OrderType(r) /\ Remaining(o) = 0
        /\ o.request = os[i].request /\ o.filled = os[i].filled
        /\ o.rejected = os[i].rejected /\ o.expired = os[i].expired
        /\ o.cancelled = os[i].cancelled + Remaining(os[i])
    BY <1>1, <2>1, ClosedOrder
  <2>5. l \in EntryType /\ l.known = ls[i].known /\ l.filled = ls[i].filled
    <3>1. /\ Closed(ls[i], Remaining(os[i])) \in EntryType
          /\ Closed(ls[i], Remaining(os[i])).known = ls[i].known
          /\ Closed(ls[i], Remaining(os[i])).filled = ls[i].filled
      BY <1>1, EntryIs
    <3> HIDE DEF l
    <3> QED  BY <2>1, <3>1
  <2> QED  BY <1>2, <2>3, <2>4, <2>5
<1>3. CASE i \in E \ W
  <2>1. o = Lapsed(os[i])
    BY <1>3 DEF Departed
  <2>2. /\ o \in OrderType(r) /\ Remaining(o) = 0
        /\ o.request = os[i].request /\ o.filled = os[i].filled
        /\ o.rejected = os[i].rejected /\ o.cancelled = os[i].cancelled
        /\ o.expired = os[i].expired + Remaining(os[i])
    BY <1>1, <2>1, ClosedOrder
  <2>3. CASE i \in InBook(bk)
    <3>1. l = Closed(ls[i], Remaining(os[i]))
      BY <1>3, <2>3 DEF Struck
    <3>2. ls[i].known /\ Remaining(os[i]) > 0
      BY <2>3, InBookIs
    <3>3. Agreed(o, l)
      BY <1>1, <2>1, <3>1, <3>2, ExpiredIsLapsed
    <3>4. l \in EntryType /\ l.known = ls[i].known /\ l.filled = ls[i].filled
      BY <1>1, <3>1, EntryIs
    <3> QED  BY <1>3, <2>2, <3>3, <3>4
  <2>4. CASE i \notin InBook(bk)
    <3>1. l = ls[i]
      BY <1>3, <2>4 DEF Struck
    <3>2. ~ls[i].known
      BY <1>3, <2>4, InBookIs
    <3>3. Agreed(o, l)
      BY <1>1, <2>2, <3>1, <3>2 DEF Agreed
    <3> QED  BY <1>1, <1>3, <2>2, <3>1, <3>3
  <2> QED  BY <2>3, <2>4
<1>4. CASE i \notin W \cup E
  <2>1. o = os[i] /\ l = ls[i]
    BY <1>4 DEF Departed, Struck
  <2> QED  BY <1>1, <1>4, <2>1
<1> QED  BY <1>2, <1>3, <1>4

LEMMA DepartureKeeps ==
  ASSUME NEW r, NEW os, NEW ls, NEW bk, NEW n, Accounts(r, os, ls, bk, n),
         NEW W \in SUBSET InBook(bk), NEW E \in SUBSET (InBook(bk) \cup Auctioned(os))
  PROVE  Accounts(r, Departed(os, W, E), Struck(os, ls, W \cup (E \cap InBook(bk))),
                  Without(bk, W \cup E), n)
<1> DEFINE S == W \cup (E \cap InBook(bk))
           ot == Departed(os, W, E)
           lt == Struck(os, ls, S)
           bt == Without(bk, W \cup E)
<1>0. /\ \A i \in 1 .. Len(os) :
            /\ ot[i] \in OrderType(r) /\ lt[i] \in EntryType /\ Agreed(ot[i], lt[i])
            /\ ot[i].request = os[i].request
            /\ lt[i].known = ls[i].known
            /\ i \in W \cup E => Remaining(ot[i]) = 0
            /\ i \notin W \cup E => ot[i] = os[i] /\ lt[i] = ls[i]
  BY DepartedIs DEF Departs
<1>1. /\ ot \in [1 .. Len(os) -> OrderType(r)] /\ lt \in [1 .. Len(os) -> EntryType]
      /\ Len(os) \in Nat
  BY <1>0, AccountsAre DEF Departed, Struck
<1> HIDE DEF ot, lt, S
<1>2. /\ ot \in Seq(OrderType(r)) /\ lt \in Seq(EntryType)
      /\ Len(ot) = Len(os) /\ Len(lt) = Len(os)
  BY <1>1, ListOf
<1>3. /\ IsFiniteSet(bt) /\ bt \subseteq RestingType /\ bt \subseteq bk
      /\ \A x, y \in bt : x.id = y.id \/ x.arrival = y.arrival => x = y
  BY FS_Subset DEF Accounts, Without
<1>4. \A x \in bt : RestsOf(x, ot, lt) /\ x.arrival <= n
  <2> SUFFICES ASSUME NEW x \in bt PROVE RestsOf(x, ot, lt) /\ x.arrival <= n
    OBVIOUS
  <2>1. RestsOf(x, os, ls) /\ x.arrival <= n /\ x.id \notin W \cup E
    BY DEF Accounts, Without
  <2>2. x.id \in 1 .. Len(os)
    BY <2>1 DEF RestsOf
  <2>3. ot[x.id] = os[x.id] /\ lt[x.id] = ls[x.id]
    BY <1>0, <2>1, <2>2
  <2> QED  BY <1>2, <2>1, <2>2, <2>3 DEF RestsOf
<1>5. \A i \in 1 .. Len(os) :
        lt[i].known /\ Remaining(ot[i]) > 0 => \E x \in bt : x.id = i
  <2> SUFFICES ASSUME NEW i \in 1 .. Len(os), lt[i].known, Remaining(ot[i]) > 0
               PROVE  \E x \in bt : x.id = i
    OBVIOUS
  <2>1. i \notin W \cup E /\ ot[i] = os[i] /\ lt[i] = ls[i]
    BY <1>0
  <2>2. \E x \in bk : x.id = i
    BY <2>1 DEF Accounts
  <2> QED  BY <2>1, <2>2 DEF Without
<1>6. \A i \in 1 .. Len(ot) : Agreed(ot[i], lt[i])
  BY <1>0, <1>2
<1>7. n \in Nat
  BY AccountsAre
<1>8. Accounts(r, ot, lt, bt, n)
  BY <1>2, <1>3, <1>4, <1>5, <1>6, <1>7 DEF Accounts
<1> QED  BY <1>8 DEF ot, lt, S

\* A new order of which nothing rests.
LEMMA ArrivalKeeps ==
  ASSUME NEW r, NEW os, NEW ls, NEW bk, NEW n, Accounts(r, os, ls, bk, n),
         NEW o \in OrderType(r), NEW l \in EntryType, Agreed(o, l),
         NEW m \in Nat, m >= n, NEW rest,
         IF l.known /\ Remaining(o) > 0
         THEN /\ rest \in RestingType
              /\ rest.id = Len(os) + 1 /\ rest.quantity = Remaining(o)
              /\ rest.side = o.request.side /\ rest.price = o.request.price
              /\ rest.arrival = m /\ m > n
         ELSE TRUE
  PROVE  Accounts(r, Append(os, o), Append(ls, l),
                  bk \cup IF l.known /\ Remaining(o) > 0 THEN {rest} ELSE {}, m)
<1> DEFINE ot == Append(os, o)
           lt == Append(ls, l)
           k == Len(os) + 1
           bt == bk \cup IF l.known /\ Remaining(o) > 0 THEN {rest} ELSE {}
<1>1. /\ os \in Seq(OrderType(r)) /\ ls \in Seq(EntryType) /\ Len(ls) = Len(os)
      /\ Len(os) \in Nat
  BY AccountsAre DEF Accounts
<1>2. /\ ot \in Seq(OrderType(r)) /\ lt \in Seq(EntryType) /\ Len(ot) = k /\ Len(lt) = k
      /\ \A i \in 1 .. Len(os) : ot[i] = os[i] /\ lt[i] = ls[i]
      /\ ot[k] = o /\ lt[k] = l
  BY <1>1, ListAnd
<1>3. 1 .. k = (1 .. Len(os)) \cup {k} /\ k \notin 1 .. Len(os)
  BY <1>1
<1> HIDE DEF ot, lt
<1>4. \A i \in 1 .. Len(ot) : Agreed(ot[i], lt[i])
  BY <1>2, <1>3, AccountsAre
<1>5. /\ IsFiniteSet(bk) /\ bk \subseteq RestingType
      /\ \A x \in bk : RestsOf(x, os, ls) /\ x.arrival <= n
      /\ \A x, y \in bk : x.id = y.id \/ x.arrival = y.arrival => x = y
      /\ \A i \in 1 .. Len(os) :
           ls[i].known /\ Remaining(os[i]) > 0 => \E x \in bk : x.id = i
  BY DEF Accounts
<1>6. \A x \in bk : /\ x.id \in 1 .. Len(os) /\ RestsOf(x, ot, lt)
                    /\ x.arrival <= n /\ x.arrival <= m
  <2> SUFFICES ASSUME NEW x \in bk
               PROVE  x.id \in 1 .. Len(os) /\ RestsOf(x, ot, lt) /\ x.arrival <= m
    BY <1>5
  <2>1. x.id \in 1 .. Len(os) /\ RestsOf(x, os, ls)
    BY <1>5 DEF RestsOf
  <2>2. ot[x.id] = os[x.id] /\ lt[x.id] = ls[x.id] /\ x.id \in 1 .. Len(ot)
    BY <1>2, <1>3, <2>1
  <2>3. x.arrival <= m
    <3>1. x.arrival \in Nat /\ x.arrival <= n /\ n \in Nat
      BY <1>5, AccountsAre DEF RestingType
    <3> QED  BY <3>1
  <2> QED  BY <2>1, <2>2, <2>3 DEF RestsOf
<1>7. CASE l.known /\ Remaining(o) > 0
  <2>1. bt = bk \cup {rest}
    BY <1>7
  <2>2. /\ rest \in RestingType /\ rest.id = k /\ rest.quantity = Remaining(o)
        /\ rest.side = o.request.side /\ rest.price = o.request.price
        /\ rest.arrival = m /\ m > n
    BY <1>7
  <2>3. RestsOf(rest, ot, lt)
    BY <1>2, <1>3, <1>7, <2>2 DEF RestsOf
  <2>4. \A x \in bk : x.id # rest.id /\ x.arrival # rest.arrival
    <3>1. \A x \in bk : x.arrival \in Nat /\ n \in Nat
      BY <1>5, AccountsAre DEF RestingType
    <3> QED  BY <1>3, <1>6, <2>2, <3>1
  <2>5. IsFiniteSet(bt) /\ bt \subseteq RestingType
    BY <1>5, <2>1, <2>2, FS_AddElement
  <2>6. \A x, y \in bt : x.id = y.id \/ x.arrival = y.arrival => x = y
    BY <1>5, <2>1, <2>4
  <2>7. \A x \in bt : RestsOf(x, ot, lt) /\ x.arrival <= m
    BY <1>6, <2>1, <2>2, <2>3
  <2>8. \A i \in 1 .. Len(ot) :
          lt[i].known /\ Remaining(ot[i]) > 0 => \E x \in bt : x.id = i
    BY <1>2, <1>3, <1>5, <2>1, <2>2
  <2> HIDE DEF bt
  <2>9. Accounts(r, ot, lt, bt, m)
    BY <1>2, <1>4, <2>5, <2>6, <2>7, <2>8 DEF Accounts
  <2> QED  BY <2>9 DEF ot, lt, bt
<1>8. CASE ~(l.known /\ Remaining(o) > 0)
  <2>1. bt = bk
    BY <1>8
  <2>2. \A i \in 1 .. Len(ot) :
          lt[i].known /\ Remaining(ot[i]) > 0 => \E x \in bt : x.id = i
    BY <1>2, <1>3, <1>5, <1>8, <2>1
  <2> HIDE DEF bt
  <2>3. Accounts(r, ot, lt, bt, m)
    BY <1>2, <1>4, <1>5, <1>6, <2>1, <2>2 DEF Accounts
  <2> QED  BY <2>3 DEF ot, lt, bt
<1> QED  BY <1>7, <1>8

-----------------------------------------------------------------------------
(* The player's position *)

Earnings(os) == [i \in 1 .. Len(os) |-> Earned(os[i])]
Balance(os) == OfQuantity!Total(Earnings(os), 1 .. Len(os))

LEMMA EarnedInt ==
  ASSUME NEW r, NEW o \in OrderType(r)
  PROVE  Earned(o) \in Int
  BY OrderIs DEF Earned, SignedBuy

LEMMA EarningsAre ==
  ASSUME NEW r, NEW os \in Seq(OrderType(r))
  PROVE  /\ Len(os) \in Nat /\ OfQuantity!IsFiniteSet(1 .. Len(os))
         /\ \A i \in 1 .. Len(os) : Earnings(os)[i] = Earned(os[i]) /\ Earnings(os)[i] \in Int
<1>1. Len(os) \in Nat /\ \A i \in 1 .. Len(os) : os[i] \in OrderType(r)
  BY ListIs
<1>2. IsFiniteSet(1 .. Len(os))
  BY <1>1, FS_Interval
<1>3. \A i \in 1 .. Len(os) : Earned(os[i]) \in Int
  BY <1>1, EarnedInt
<1> QED  BY <1>1, <1>2, <1>3, SumFinite DEF Earnings

\* Only what orders have filled counts.
LEMMA BalanceSame ==
  ASSUME NEW r, NEW os \in Seq(OrderType(r)), NEW ot \in Seq(OrderType(r)),
         Len(ot) = Len(os), \A i \in 1 .. Len(os) : Earned(ot[i]) = Earned(os[i])
  PROVE  Balance(ot) = Balance(os)
<1> DEFINE S == 1 .. Len(os)
           w == Earnings(os)
           v == Earnings(ot)
<1>1. OfQuantity!IsFiniteSet(S) /\ \A i \in S : w[i] = v[i] /\ w[i] \in Int
  BY EarningsAre
<1>2. Balance(os) = OfQuantity!Total(w, S) /\ Balance(ot) = OfQuantity!Total(v, S)
  BY DEF Balance
<1> HIDE DEF S, w, v
<1>3. OfQuantity!Total(w, S) = OfQuantity!Total(v, S)
  BY <1>1, OfQuantity!TotalSame
<1> QED  BY <1>2, <1>3

\* A new order adds what it has filled.
LEMMA BalanceAppend ==
  ASSUME NEW r, NEW os \in Seq(OrderType(r)), NEW o \in OrderType(r)
  PROVE  Balance(Append(os, o)) = Balance(os) + Earned(o)
<1> DEFINE ot == Append(os, o)
           S == 1 .. Len(os)
           k == Len(os) + 1
           w == Earnings(os)
           v == Earnings(ot)
<1>1. /\ ot \in Seq(OrderType(r)) /\ Len(ot) = k
      /\ \A i \in S : ot[i] = os[i]
      /\ ot[k] = o /\ Len(os) \in Nat
  BY ListAnd, ListIs
<1>2. S \cup {k} = 1 .. k /\ k \notin S /\ k \in 1 .. k
  BY <1>1
<1> HIDE DEF ot, S
<1>3. /\ OfQuantity!IsFiniteSet(S)
      /\ \A i \in S : w[i] = Earned(os[i]) /\ w[i] \in Int
  BY EarningsAre DEF S
<1>4. \A i \in 1 .. k : v[i] = Earned(ot[i]) /\ v[i] \in Int
  BY <1>1, EarningsAre
<1>5. Balance(ot) = OfQuantity!Total(v, S \cup {k}) /\ Balance(os) = OfQuantity!Total(w, S)
  BY <1>1, <1>2 DEF Balance, S
<1> HIDE DEF w, v, k
<1>6. OfQuantity!Total(v, S \cup {k}) = v[k] + OfQuantity!Total(v, S)
  BY <1>2, <1>3, <1>4, OfQuantity!TotalAdd
<1>7. \A i \in S : w[i] = v[i] /\ w[i] \in Int
  BY <1>1, <1>2, <1>3, <1>4
<1>8. OfQuantity!Total(w, S) = OfQuantity!Total(v, S)
  BY <1>3, <1>7, OfQuantity!TotalSame
<1>9. v[k] = Earned(o) /\ v[k] \in Int
  BY <1>1, <1>2, <1>4
<1>10. OfQuantity!Total(v, S) \in Int
  BY <1>3, <1>7, OfQuantity!TotalInt
<1>11. Balance(ot) = Earned(o) + Balance(os) /\ Balance(os) \in Int /\ Earned(o) \in Int
  BY <1>5, <1>6, <1>8, <1>9, <1>10
<1> QED  BY <1>11 DEF ot

LEMMA BalanceInt ==
  ASSUME NEW r, NEW os \in Seq(OrderType(r))
  PROVE  Balance(os) \in Int
<1> DEFINE S == 1 .. Len(os)
           w == Earnings(os)
<1>1. OfQuantity!IsFiniteSet(S) /\ \A i \in S : w[i] \in Int
  BY EarningsAre
<1> HIDE DEF S, w
<1>2. OfQuantity!Total(w, S) \in Int
  BY <1>1, OfQuantity!TotalInt
<1> QED  BY <1>2 DEF Balance, S, w

\* The sum over the player's orders is that over all orders.
PlayerSum(os) ==
  MapThenSumSet(LAMBDA i : SignedBuy(os[i].request.side, os[i].filled),
                {i \in DOMAIN os : os[i].request.account = Player})

LEMMA BalanceOfPlayer ==
  ASSUME NEW r, NEW os \in Seq(OrderType(r))
  PROVE  PlayerSum(os) = Balance(os)
<1> DEFINE S == 1 .. Len(os)
           L == {i \in S : os[i].request.account = Player}
           w == Earnings(os)
           u == [i \in L |-> SignedBuy(os[i].request.side, os[i].filled)]
<1>1. /\ OfQuantity!IsFiniteSet(S) /\ DOMAIN os = S
      /\ \A i \in S : w[i] = Earned(os[i]) /\ w[i] \in Int
  BY EarningsAre, ListIs
<1>2. /\ \A i \in L : w[i] = u[i] /\ w[i] \in Int
      /\ \A i \in S \ L : w[i] = 0
      /\ L \subseteq S
  BY <1>1 DEF Earned
<1> DEFINE P(f) == f = [s \in SUBSET L |->
              IF s = {} THEN 0
              ELSE SignedBuy(os[OfQuantity!First(s)].request.side,
                             os[OfQuantity!First(s)].filled)
                     + f[s \ {OfQuantity!First(s)}]]
           i == CHOOSE f : P(f)
<1>3. MapThenSumSet(LAMBDA j : SignedBuy(os[j].request.side, os[j].filled), L) = i[L]
  BY DEF OfQuantity!First, MapThenSumSet, MapThenFoldSet
<1>4. \A f : P(f) <=> OfQuantity!IsIter(f, u, L)
  <2>1. \A s \in SUBSET L : s # {} =>
          u[OfQuantity!First(s)] = SignedBuy(os[OfQuantity!First(s)].request.side,
                                             os[OfQuantity!First(s)].filled)
    BY OfQuantity!FirstIn
  <2> TAKE f
  <2> HIDE DEF u, L
  <2>2. [s \in SUBSET L |-> IF s = {} THEN 0
                            ELSE SignedBuy(os[OfQuantity!First(s)].request.side,
                                           os[OfQuantity!First(s)].filled)
                                   + f[s \ {OfQuantity!First(s)}]]
          = [s \in SUBSET L |-> IF s = {} THEN 0
                                ELSE u[OfQuantity!First(s)] + f[s \ {OfQuantity!First(s)}]]
    BY <2>1
  <2> QED  BY <2>2 DEF OfQuantity!IsIter
<1> HIDE DEF u, L, S, w, P
<1>5. OfQuantity!IsFiniteSet(L)
  BY <1>1, <1>2, SumFinite, FS_Subset
<1>6. OfQuantity!IsIter(OfQuantity!Iter(u, L), u, L)
  BY <1>5, OfQuantity!IterExists
<1>7. P(i)
  BY <1>4, <1>6
<1>8. OfQuantity!IsIter(i, u, L)
  BY <1>4, <1>7
<1> HIDE DEF i
<1>9. i[L] = OfQuantity!Iter(u, L)[L]
  BY <1>5, <1>6, <1>8, OfQuantity!IterUnique
<1>10. i[L] = OfQuantity!Total(u, L)
  BY <1>9, OfQuantity!TotalIsIter
<1>11. OfQuantity!Total(w, L) = OfQuantity!Total(u, L)
  BY <1>2, <1>5, OfQuantity!TotalSame
<1>12. OfQuantity!Total(w, S) = OfQuantity!Total(w, L)
  BY <1>1, <1>2, OfQuantity!TotalWithin
<1>13. Balance(os) = OfQuantity!Total(w, S)
  BY DEF Balance, S, w
<1>14. L = {j \in DOMAIN os : os[j].request.account = Player}
  BY <1>1 DEF L
<1>15. PlayerSum(os) = MapThenSumSet(LAMBDA j : SignedBuy(os[j].request.side, os[j].filled), L)
  BY <1>14 DEF PlayerSum
<1> QED  BY <1>3, <1>10, <1>11, <1>12, <1>13, <1>15

-----------------------------------------------------------------------------
(* What the steps do, order by order *)

\* Engine and book agree.
Books == Accounts(rules, orders, ledger, book, rested)

LEMMA BooksAre ==
  ASSUME Books
  PROVE  /\ Len(orders) \in Nat /\ Len(ledger) = Len(orders)
         /\ DOMAIN orders = 1 .. Len(orders) /\ DOMAIN ledger = 1 .. Len(orders)
         /\ \A i \in 1 .. Len(orders) :
              /\ orders[i] \in OrderType(rules) /\ ledger[i] \in EntryType
              /\ Agreed(orders[i], ledger[i]) /\ Remaining(orders[i]) \in Nat
         /\ rested \in Nat
         /\ LiveInBook = InBook(book) /\ LiveInAuction = Auctioned(orders)
<1>1. /\ Len(orders) \in Nat /\ Len(ledger) = Len(orders)
      /\ DOMAIN orders = 1 .. Len(orders) /\ DOMAIN ledger = 1 .. Len(orders)
      /\ \A i \in 1 .. Len(orders) :
           /\ orders[i] \in OrderType(rules) /\ ledger[i] \in EntryType
           /\ Agreed(orders[i], ledger[i]) /\ Remaining(orders[i]) \in Nat
      /\ rested \in Nat
  BY AccountsAre DEF Books
<1>2. LiveInBook = InBook(book)
  BY DEF LiveInBook, InBook
<1>3. LiveInAuction = Auctioned(orders)
  BY <1>1 DEF LiveInAuction, Auctioned, InAuction
<1> QED  BY <1>1, <1>2, <1>3

LEMMA CancelledIs ==
  ASSUME Books, NEW S
  PROVE  Cancelled(S) = Struck(orders, ledger, S)
  BY BooksAre DEF Cancelled, Struck, Closed

\* The synchronisation after the book has cancelled the orders of S.
LEMMA SyncedStruck ==
  ASSUME Books, NEW S \in SUBSET InBook(book), NEW i \in 1 .. Len(orders)
  PROVE  Synced(orders[i], Struck(orders, ledger, S)[i])
           = IF i \in S THEN Withdrawn(orders[i]) ELSE orders[i]
<1>1. /\ orders[i] \in OrderType(rules) /\ ledger[i] \in EntryType
      /\ Agreed(orders[i], ledger[i])
  BY BooksAre
<1>2. CASE i \in S
  <2>1. ledger[i].known /\ Remaining(orders[i]) > 0
    BY <1>2, InBookIs DEF Books
  <2>2. Struck(orders, ledger, S)[i] = Closed(ledger[i], Remaining(orders[i]))
    BY <1>2 DEF Struck
  <2> QED  BY <1>1, <1>2, <2>1, <2>2, SyncedIsWithdrawn
<1>3. CASE i \notin S
  <2>1. Struck(orders, ledger, S)[i] = ledger[i]
    BY <1>3 DEF Struck
  <2> QED  BY <1>1, <1>3, <2>1, SyncedIsSame
<1> QED  BY <1>2, <1>3

LEMMA WithdrawnAll ==
  ASSUME Books, NEW S \in SUBSET InBook(book)
  PROVE  [i \in DOMAIN orders |-> Synced(orders[i], Cancelled(S)[i])]
           = Departed(orders, S, {})
  BY BooksAre, CancelledIs, SyncedStruck DEF Departed

LEMMA WithdrawIs ==
  ASSUME Books, NEW S \in SUBSET InBook(book), Withdraw(S)
  PROVE  /\ orders' = Departed(orders, S, {})
         /\ ledger' = Struck(orders, ledger, S)
         /\ book' = Without(book, S)
<1>1. /\ orders' = [i \in DOMAIN orders |-> Synced(orders[i], Cancelled(S)[i])]
      /\ ledger' = Cancelled(S)
      /\ book' = {r \in book : r.id \notin S}
  BY DEF Withdraw
<1> QED  BY <1>1, WithdrawnAll, CancelledIs DEF Without

LEMMA ExpireIs ==
  ASSUME Books, NEW S \in SUBSET Live, Expire(S)
  PROVE  /\ orders' = Departed(orders, {}, S)
         /\ ledger' = Struck(orders, ledger, S \cap InBook(book))
         /\ book' = Without(book, S)
         /\ S \in SUBSET (InBook(book) \cup Auctioned(orders))
<1> DEFINE T == S \cap InBook(book)
           L == Cancelled(T)
<1>0. LiveInBook = InBook(book)
  BY BooksAre
<1>1. /\ orders' = [i \in DOMAIN orders |->
            IF i \in T THEN ExpiredOrder(orders[i], L[i])
            ELSE IF i \in S
                 THEN [orders[i] EXCEPT !.expired = @ + Remaining(orders[i])]
                 ELSE Synced(orders[i], L[i])]
      /\ ledger' = L
      /\ book' = {r \in book : r.id \notin S}
  BY <1>0 DEF Expire
<1>2. L = Struck(orders, ledger, T)
  BY CancelledIs
<1> HIDE DEF L
<1>3. ASSUME NEW i \in 1 .. Len(orders)
      PROVE  (IF i \in T THEN ExpiredOrder(orders[i], L[i])
              ELSE IF i \in S
                   THEN [orders[i] EXCEPT !.expired = @ + Remaining(orders[i])]
                   ELSE Synced(orders[i], L[i]))
               = IF i \in S THEN Lapsed(orders[i]) ELSE orders[i]
  <2>1. /\ orders[i] \in OrderType(rules) /\ ledger[i] \in EntryType
        /\ Agreed(orders[i], ledger[i])
    BY BooksAre
  <2>2. CASE i \in T
    <3>1. ledger[i].known /\ Remaining(orders[i]) > 0
      BY <2>2, InBookIs DEF Books
    <3>2. L[i] = Closed(ledger[i], Remaining(orders[i]))
      BY <1>2, <2>2 DEF Struck
    <3>3. ExpiredOrder(orders[i], L[i]) = Lapsed(orders[i])
      BY <2>1, <3>1, <3>2, ExpiredIsLapsed
    <3> QED  BY <2>2, <3>3
  <2>3. CASE i \in S /\ i \notin T
    BY <2>3 DEF Lapsed
  <2>4. CASE i \notin S
    <3>1. Synced(orders[i], L[i]) = orders[i]
      BY <1>2, <2>4, SyncedStruck
    <3> QED  BY <2>4, <3>1
  <2> QED  BY <2>2, <2>3, <2>4
<1>4. orders' = Departed(orders, {}, S)
  BY <1>1, <1>3, BooksAre DEF Departed
<1>5. S \in SUBSET (InBook(book) \cup Auctioned(orders))
  BY BooksAre DEF Live
<1> QED  BY <1>1, <1>2, <1>4, <1>5 DEF Without

LEMMA DepartureBalances ==
  ASSUME NEW r, NEW os, NEW ls, NEW bk, NEW n, Accounts(r, os, ls, bk, n),
         NEW W \in SUBSET InBook(bk), NEW E \in SUBSET (InBook(bk) \cup Auctioned(os))
  PROVE  Balance(Departed(os, W, E)) = Balance(os)
<1> DEFINE ot == Departed(os, W, E)
<1>1. Accounts(r, ot, Struck(os, ls, W \cup (E \cap InBook(bk))), Without(bk, W \cup E), n)
  BY DepartureKeeps
<1>2. ot \in Seq(OrderType(r)) /\ os \in Seq(OrderType(r))
  BY <1>1 DEF Accounts
<1>3. Len(ot) = Len(os)
  BY <1>2, ListIs, AccountsAre DEF Departed
<1>6. \A i \in 1 .. Len(os) : ot[i].request = os[i].request /\ ot[i].filled = os[i].filled
  <2> TAKE i \in 1 .. Len(os)
  <2>1. /\ Departed(os, W, E)[i].request = os[i].request
        /\ Departed(os, W, E)[i].filled = os[i].filled
    <3>1. os[i] \in OrderType(r) /\ Remaining(os[i]) >= 0
      BY AccountsAre
    <3>2. /\ Withdrawn(os[i]).request = os[i].request
          /\ Withdrawn(os[i]).filled = os[i].filled
          /\ Lapsed(os[i]).request = os[i].request
          /\ Lapsed(os[i]).filled = os[i].filled
      BY <3>1, ClosedOrder
    <3> QED  BY <3>2 DEF Departed
  <2> QED  BY <2>1
<1> HIDE DEF ot
<1>4. \A i \in 1 .. Len(os) : Earned(ot[i]) = Earned(os[i])
  BY <1>6 DEF Earned
<1>5. Balance(ot) = Balance(os)
  BY <1>2, <1>3, <1>4, BalanceSame
<1> QED  BY <1>5 DEF ot

\* Orders expire, or are cancelled in the book.
LEMMA DepartureStep ==
  ASSUME Books, position = Balance(orders), rules' = rules, rested' = rested,
         position' = position,
         \/ \E S \in SUBSET InBook(book) : Withdraw(S)
         \/ \E S \in SUBSET Live : Expire(S)
  PROVE  Books' /\ position' = Balance(orders')
<1>1. CASE \E S \in SUBSET InBook(book) : Withdraw(S)
  <2>1. PICK S \in SUBSET InBook(book) : Withdraw(S)
    BY <1>1
  <2>2. /\ orders' = Departed(orders, S, {}) /\ book' = Without(book, S)
        /\ ledger' = Struck(orders, ledger, S)
    BY <2>1, WithdrawIs
  <2>3. S \cup ({} \cap InBook(book)) = S /\ S \cup {} = S
    OBVIOUS
  <2>4. Accounts(rules, orders', ledger', book', rested)
    BY <2>2, <2>3, DepartureKeeps DEF Books
  <2>5. Balance(orders') = Balance(orders)
    BY <2>2, DepartureBalances DEF Books
  <2> QED  BY <2>4, <2>5 DEF Books
<1>2. CASE \E S \in SUBSET Live : Expire(S)
  <2>1. PICK S \in SUBSET Live : Expire(S)
    BY <1>2
  <2>2. /\ orders' = Departed(orders, {}, S) /\ book' = Without(book, S)
        /\ ledger' = Struck(orders, ledger, S \cap InBook(book))
        /\ S \in SUBSET (InBook(book) \cup Auctioned(orders))
    BY <2>1, ExpireIs
  <2>3. {} \cup (S \cap InBook(book)) = S \cap InBook(book) /\ {} \cup S = S
    OBVIOUS
  <2>4. Accounts(rules, orders', ledger', book', rested)
    BY <2>2, <2>3, DepartureKeeps DEF Books
  <2>5. Balance(orders') = Balance(orders)
    BY <2>2, DepartureBalances DEF Books
  <2> QED  BY <2>4, <2>5 DEF Books
<1> QED  BY <1>1, <1>2

LEMMA ReasonsAreLive ==
  ASSUME Books
  PROVE  /\ \A to : EndedBy(to) \subseteq Live
         /\ \A t : Outlived(t) \subseteq Live
         /\ \A q : Prevented(q) \subseteq InBook(book)
<1>1. \A to : EndedBy(to) \subseteq Live
  BY DEF EndedBy, Live
<1>2. \A t : Outlived(t) \subseteq Live
  BY DEF Outlived
<1>3. \A q : Prevented(q) \subseteq InBook(book)
  BY DEF Prevented, OwnMakers, Makers, Eligible, InBook
<1> QED  BY <1>1, <1>2, <1>3

-----------------------------------------------------------------------------
(* Orders that arrive, and do not trade *)

LEMMA NothingRests ==
  ASSUME NEW r, NEW os, NEW ls, NEW bk, NEW n, Accounts(r, os, ls, bk, n),
         NEW o \in OrderType(r), NEW l \in EntryType, Agreed(o, l),
         ~(l.known /\ Remaining(o) > 0)
  PROVE  /\ Accounts(r, Append(os, o), Append(ls, l), bk, n)
         /\ Balance(Append(os, o)) = Balance(os) + Earned(o)
<1>1. n \in Nat /\ n >= n /\ os \in Seq(OrderType(r))
  BY AccountsAre DEF Accounts
<1>2. bk \cup (IF l.known /\ Remaining(o) > 0 THEN {o} ELSE {}) = bk
  OBVIOUS
<1>3. Accounts(r, Append(os, o), Append(ls, l),
               bk \cup (IF l.known /\ Remaining(o) > 0 THEN {o} ELSE {}), n)
  BY <1>1, ArrivalKeeps
<1>4. Balance(Append(os, o)) = Balance(os) + Earned(o)
  BY <1>1, BalanceAppend
<1> QED  BY <1>2, <1>3, <1>4

\* An order that is refused, and one that waits for an auction, has filled
\* nothing and is not in the book.
LEMMA NotBooked ==
  ASSUME NEW r, NEW q \in RequestType(r)
  PROVE  /\ Unbooked \in EntryType /\ ~Unbooked.known
         /\ Rejected(q) \in OrderType(r) /\ Agreed(Rejected(q), Unbooked)
         /\ Earned(Rejected(q)) = 0
         /\ q.auction => /\ Managed(q) \in OrderType(r) /\ Agreed(Managed(q), Unbooked)
                         /\ Earned(Managed(q)) = 0
<1>1. q.quantity \in Nat
  BY DEF RequestType
<1>2. Unbooked \in EntryType /\ ~Unbooked.known
  BY DEF Unbooked, EntryType
<1>3. /\ Managed(q) \in OrderType(r) /\ Rejected(q) \in OrderType(r)
      /\ Managed(q).request = q /\ Managed(q).filled = 0 /\ Managed(q).cancelled = 0
      /\ Managed(q).expired = 0 /\ Managed(q).rejected = FALSE
      /\ Rejected(q).request = q /\ Rejected(q).filled = 0 /\ Rejected(q).cancelled = 0
      /\ Rejected(q).expired = 0 /\ Rejected(q).rejected = TRUE
  BY DEF Managed, Rejected, OrderType
<1>4. Remaining(Managed(q)) >= 0 /\ Remaining(Rejected(q)) >= 0
  BY <1>1, <1>3 DEF Remaining
<1>5. Earned(Managed(q)) = 0 /\ Earned(Rejected(q)) = 0
  <2>1. SignedBuy(q.side, 0) = 0
    <3>1. \A n \in Int : -n = 0 - n
      OBVIOUS
    <3>2. 0 \in Int /\ 0 - 0 = 0
      OBVIOUS
    <3>3. -0 = 0
      BY <3>1, <3>2, Zenon
    <3> QED  BY <3>3, Zenon DEF SignedBuy
  <2> QED  BY <1>3, <2>1 DEF Earned
<1>6. /\ Agreed(Rejected(q), Unbooked)
      /\ q.auction => Agreed(Managed(q), Unbooked)
  BY <1>2, <1>3, <1>4 DEF Agreed
<1> QED  BY <1>2, <1>3, <1>5, <1>6

\* The step appends the order o to what is left once the orders of W have been
\* cancelled and those of E have expired.
Arrival(o, W, E) ==
  /\ W \in SUBSET InBook(book) /\ E \in SUBSET InBook(book)
  /\ orders' = Append(Departed(orders, W, E), o)
  /\ ledger' = Append(Struck(orders, ledger, W \cup (E \cap InBook(book))), Unbooked)
  /\ book' = Without(book, W \cup E)
  /\ UNCHANGED <<rested, lastPrice, position>>

LEMMA ArrivalStep ==
  ASSUME Books, position = Balance(orders), rules' = rules,
         NEW q \in RequestType(rules),
         NEW o, o = Rejected(q) \/ (o = Managed(q) /\ q.auction),
         NEW W, NEW E, Arrival(o, W, E)
  PROVE  Books' /\ position' = Balance(orders')
<1>0. /\ W \in SUBSET InBook(book) /\ E \in SUBSET (InBook(book) \cup Auctioned(orders))
      /\ orders' = Append(Departed(orders, W, E), o)
      /\ ledger' = Append(Struck(orders, ledger, W \cup (E \cap InBook(book))), Unbooked)
      /\ book' = Without(book, W \cup E)
      /\ rested' = rested /\ position' = position
  BY DEF Arrival
<1> DEFINE os == Departed(orders, W, E)
           ls == Struck(orders, ledger, W \cup (E \cap InBook(book)))
<1>1. /\ Unbooked \in EntryType /\ ~Unbooked.known
      /\ o \in OrderType(rules) /\ Agreed(o, Unbooked) /\ Earned(o) = 0
  BY NotBooked
<1>2. Accounts(rules, os, ls, book', rested) /\ Balance(os) = Balance(orders)
  BY <1>0, DepartureKeeps, DepartureBalances DEF Books
<1> HIDE DEF os, ls
<1>3. /\ Accounts(rules, Append(os, o), Append(ls, Unbooked), book', rested)
      /\ Balance(Append(os, o)) = Balance(os) + Earned(o)
  BY <1>1, <1>2, NothingRests
<1>4. Balance(os) \in Int
  <2>1. os \in Seq(OrderType(rules))
    BY <1>2 DEF Accounts
  <2> QED  BY <2>1, BalanceInt
<1>5. orders' = Append(os, o) /\ ledger' = Append(ls, Unbooked)
  BY <1>0 DEF os, ls
<1>6. Balance(Append(os, o)) = Balance(os)
  <2> DEFINE b == Balance(os)
  <2>1. b \in Int /\ Balance(Append(os, o)) = b + 0
    BY <1>1, <1>3, <1>4
  <2> HIDE DEF b
  <2>2. Balance(Append(os, o)) = b
    BY <2>1
  <2> QED  BY <2>2 DEF b
<1>7. Accounts(rules', orders', ledger', book', rested')
  BY <1>0, <1>3, <1>5
<1>8. position' = Balance(orders')
  BY <1>0, <1>2, <1>5, <1>6
<1> QED  BY <1>7, <1>8 DEF Books

LEMMA NoDeparture ==
  ASSUME Books
  PROVE  /\ orders = Departed(orders, {}, {}) /\ ledger = Struck(orders, ledger, {})
         /\ book = Without(book, {})
<1>1. /\ orders \in [1 .. Len(orders) -> OrderType(rules)]
      /\ ledger \in [1 .. Len(orders) -> EntryType]
  BY AccountsAre DEF Books
<1>2. orders = Departed(orders, {}, {})
  BY <1>1 DEF Departed
<1>3. ledger = Struck(orders, ledger, {})
  BY <1>1 DEF Struck
<1> QED  BY <1>2, <1>3 DEF Without

LEMMA InvalidIs ==
  ASSUME Books, NEW q, SubmitInvalid(q) \/ SubmitToAuction(q)
  PROVE  /\ \E o : /\ o = Rejected(q) \/ (o = Managed(q) /\ q.auction /\ Valid(q))
                   /\ Arrival(o, {}, {})
         /\ session' = session
<1>1. /\ \/ orders' = Append(orders, Rejected(q))
         \/ orders' = Append(orders, Managed(q)) /\ q.auction /\ Valid(q)
      /\ ledger' = Append(ledger, Unbooked)
      /\ book' = book /\ UNCHANGED <<session, rested, lastPrice, position>>
  BY DEF SubmitInvalid, SubmitToAuction
<1>2. PICK o : /\ o = Rejected(q) \/ (o = Managed(q) /\ q.auction /\ Valid(q))
               /\ orders' = Append(orders, o)
  BY <1>1
<1>3. {} \cup ({} \cap InBook(book)) = {} /\ {} \cup {} = {}
  OBVIOUS
<1>4. /\ orders' = Append(Departed(orders, {}, {}), o)
      /\ ledger' = Append(Struck(orders, ledger, {} \cup ({} \cap InBook(book))), Unbooked)
      /\ book' = Without(book, {} \cup {})
  BY <1>1, <1>2, <1>3, NoDeparture
<1>5. {} \in SUBSET InBook(book)
  OBVIOUS
<1>6. Arrival(o, {}, {})
  BY <1>1, <1>4, <1>5 DEF Arrival
<1> QED  BY <1>1, <1>2, <1>6

LEMMA RefusedIs ==
  ASSUME Books, NEW q, SubmitRefused(q)
  PROVE  Arrival(Rejected(q), Prevented(q), {}) /\ session' = session
<1> DEFINE W == Prevented(q)
<1>1. /\ orders' = Append(AfterPrevention(q), Rejected(q))
      /\ ledger' = Append(Cancelled(W), Unbooked)
      /\ book' = Left(q)
      /\ UNCHANGED <<session, rested, lastPrice, position>>
  BY DEF SubmitRefused
<1>2. W \in SUBSET InBook(book)
  BY ReasonsAreLive
<1>3. AfterPrevention(q) = Departed(orders, W, {})
  BY <1>2, WithdrawnAll DEF AfterPrevention
<1>4. Left(q) = Without(book, W)
  BY DEF Left, Without
<1> HIDE DEF W
<1>5. W \cup ({} \cap InBook(book)) = W /\ W \cup {} = W
      /\ {} \in SUBSET InBook(book)
  OBVIOUS
<1>6. Cancelled(W) = Struck(orders, ledger, W)
  BY CancelledIs
<1>7. /\ orders' = Append(Departed(orders, W, {}), Rejected(q))
      /\ ledger' = Append(Struck(orders, ledger, W \cup ({} \cap InBook(book))), Unbooked)
      /\ book' = Without(book, W \cup {})
  BY <1>1, <1>3, <1>4, <1>5, <1>6
<1>8. Arrival(Rejected(q), W, {})
  BY <1>1, <1>2, <1>5, <1>7 DEF Arrival
<1> QED  BY <1>1, <1>8 DEF W

LEMMA HaltEnds ==
  ASSUME Books, session = "CONTINUOUS"
  PROVE  EndedBy("HALTED") \subseteq InBook(book)
  BY BooksAre DEF EndedBy, DayEnds, UncrossStates

LEMMA InterruptedIs ==
  ASSUME Books, NEW q, SubmitInterrupted(q)
  PROVE  /\ Arrival(Rejected(q), Prevented(q), EndedBy("HALTED") \ Prevented(q))
         /\ session = "CONTINUOUS" /\ session' = "HALTED"
<1> DEFINE W == Prevented(q)
           E == EndedBy("HALTED") \ W
           L == [i \in DOMAIN orders |-> IF i \in E THEN Cancelled(E)[i] ELSE Cancelled(W)[i]]
<1>1. /\ orders' = Append([i \in DOMAIN orders |->
                             IF i \in E THEN ExpiredOrder(orders[i], L[i])
                             ELSE AfterPrevention(q)[i]], Rejected(q))
      /\ ledger' = Append(L, Unbooked)
      /\ book' = {r \in Left(q) : r.id \notin E}
      /\ session' = "HALTED"
      /\ UNCHANGED <<rested, lastPrice, position>>
  BY DEF SubmitInterrupted
<1>2. session = "CONTINUOUS"
  BY DEF SubmitInterrupted, Valid
<1>3. W \in SUBSET InBook(book) /\ E \in SUBSET InBook(book) /\ W \cap E = {}
  BY <1>2, ReasonsAreLive, HaltEnds
<1>4. AfterPrevention(q) = Departed(orders, W, {})
  BY <1>3, WithdrawnAll DEF AfterPrevention
<1>5. {r \in Left(q) : r.id \notin E} = Without(book, W \cup E)
  BY DEF Left, Without
<1>6. L = Struck(orders, ledger, W \cup E)
  BY <1>3, CancelledIs, BooksAre DEF Struck
<1> HIDE DEF W, E
<1>7. \A i \in 1 .. Len(orders) :
        (IF i \in E THEN ExpiredOrder(orders[i], L[i]) ELSE AfterPrevention(q)[i])
          = Departed(orders, W, E)[i]
  <2> TAKE i \in 1 .. Len(orders)
  <2>1. CASE i \in E
    <3>1. /\ orders[i] \in OrderType(rules) /\ ledger[i] \in EntryType
          /\ Agreed(orders[i], ledger[i])
      BY BooksAre
    <3>2. ledger[i].known /\ Remaining(orders[i]) > 0
      BY <1>3, <2>1, InBookIs DEF Books
    <3>3. L[i] = Closed(ledger[i], Remaining(orders[i]))
      BY <1>6, <2>1 DEF Struck
    <3>4. ExpiredOrder(orders[i], L[i]) = Lapsed(orders[i])
      BY <3>1, <3>2, <3>3, ExpiredIsLapsed
    <3> QED  BY <1>3, <2>1, <3>4 DEF Departed
  <2>2. CASE i \notin E
    BY <1>4, <2>2 DEF Departed
  <2> QED  BY <2>1, <2>2
<1> HIDE DEF L
<1>8. orders' = Append(Departed(orders, W, E), Rejected(q))
  <2>1. [i \in DOMAIN orders |-> IF i \in E THEN ExpiredOrder(orders[i], L[i])
                                 ELSE AfterPrevention(q)[i]] = Departed(orders, W, E)
    BY <1>7, BooksAre DEF Departed
  <2> QED  BY <1>1, <2>1
<1>9. E \cap InBook(book) = E
  BY <1>3
<1>10. ledger' = Append(Struck(orders, ledger, W \cup (E \cap InBook(book))), Unbooked)
  BY <1>1, <1>6, <1>9
<1>11. book' = Without(book, W \cup E)
  BY <1>1, <1>5
<1>12. Arrival(Rejected(q), W, E)
  BY <1>1, <1>3, <1>8, <1>10, <1>11 DEF Arrival
<1> QED  BY <1>1, <1>2, <1>12 DEF W, E

\* An order that does not trade when it comes.
LEMMA ArrivalIs ==
  ASSUME Books, NEW q, Submit(q), ~SubmitExecuted(q)
  PROVE  \E o, W, E :
           /\ Arrival(o, W, E)
           /\ o = Rejected(q) \/ (o = Managed(q) /\ q.auction /\ Valid(q))
           /\ W = {} \/ W = Prevented(q)
           /\ \/ E = {} /\ session' = session
              \/ /\ E = EndedBy("HALTED") \ W
                 /\ session = "CONTINUOUS" /\ session' = "HALTED"
                 /\ o = Rejected(q)
<1>1. CASE SubmitInvalid(q) \/ SubmitToAuction(q)
  BY <1>1, InvalidIs
<1>2. CASE SubmitRefused(q)
  BY <1>2, RefusedIs
<1>3. CASE SubmitInterrupted(q)
  BY <1>3, InterruptedIs
<1> QED  BY <1>1, <1>2, <1>3 DEF Submit

-----------------------------------------------------------------------------
(* Trades in the book *)

\* An order, or its entry in the book's account, once n more of it is filled.
Filled(o, n) == [o EXCEPT !.filled = @ + n]

\* The accounts of the order still agree, and nothing else of it has changed.
FilledWell(r, o, l, n) ==
  /\ Filled(o, n) \in OrderType(r) /\ Filled(l, n) \in EntryType
  /\ Filled(o, n).filled = o.filled + n /\ Filled(o, n).request = o.request
  /\ Filled(o, n).rejected = o.rejected /\ Filled(l, n).known = l.known
  /\ Filled(o, n).cancelled = o.cancelled /\ Filled(o, n).expired = o.expired
  /\ Remaining(Filled(o, n)) = Remaining(o) - n
  /\ Agreed(Filled(o, n), Filled(l, n))
  /\ Synced(o, Filled(l, n)) = Filled(o, n)

LEMMA FilledIs ==
  ASSUME NEW r, NEW o \in OrderType(r), NEW l \in EntryType, Agreed(o, l), l.known,
         NEW n \in Nat, n <= Remaining(o)
  PROVE  FilledWell(r, o, l, n)
<1>1. /\ o.filled \in Nat /\ o.cancelled \in Nat /\ o.expired \in Nat
      /\ o.request.quantity \in Nat /\ Remaining(o) \in Int
      /\ Remaining(o) = o.request.quantity - o.filled - o.cancelled - o.expired
  BY OrderIs
<1>2. l.filled \in Nat /\ l.cancelled \in Nat /\ l.known \in BOOLEAN /\ l.expired \in BOOLEAN
  BY DEF EntryType
<1> DEFINE p == Filled(o, n)
           m == Filled(l, n)
<1>3. /\ p \in OrderType(r) /\ p.filled = o.filled + n
      /\ p.request = o.request /\ p.rejected = o.rejected
      /\ p.cancelled = o.cancelled /\ p.expired = o.expired
  BY <1>1 DEF Filled, OrderType
<1>4. /\ m \in EntryType /\ m.filled = l.filled + n
      /\ m.known = l.known /\ m.cancelled = l.cancelled /\ m.expired = l.expired
  <2>1. l.filled + n \in Nat
    BY <1>2
  <2> QED  BY <1>2, <2>1 DEF Filled, EntryType
<1>5. Synced(o, m) = p
  <2>1. /\ m.filled = o.filled + n
        /\ o.cancelled = IF m.expired THEN 0 ELSE m.cancelled - o.expired
        /\ o.expired = IF m.expired THEN m.cancelled ELSE o.expired
    BY <1>1, <1>2, <1>4 DEF Agreed
  <2> HIDE DEF m
  <2>2. Synced(o, m) = [o EXCEPT !.filled = o.filled + n, !.cancelled = o.cancelled,
                                 !.expired = o.expired]
    BY <1>4, <2>1 DEF Synced
  <2> QED  BY <2>2 DEF Filled, OrderType
<1> HIDE DEF p, m
<1>6. Remaining(p) = Remaining(o) - n
  BY <1>1, <1>3 DEF Remaining
<1>7. Agreed(p, m)
  <2>1. /\ Remaining(p) >= 0 /\ p.filled = m.filled /\ p.cancelled + p.expired = m.cancelled
        /\ ~o.rejected /\ ~o.request.auction
    BY <1>1, <1>2, <1>3, <1>4, <1>6 DEF Agreed
  <2>2. m.expired => p.cancelled = 0 /\ Remaining(p) = 0
    BY <1>1, <1>3, <1>4, <1>6 DEF Agreed
  <2> QED  BY <1>3, <1>4, <2>1, <2>2 DEF Agreed
<1> QED  BY <1>3, <1>4, <1>5, <1>6, <1>7 DEF p, m, FilledWell

\* Nothing more is filled.
LEMMA FilledNothing ==
  ASSUME NEW r, NEW o \in OrderType(r), NEW l \in EntryType
  PROVE  Filled(o, 0) = o /\ Filled(l, 0) = l
<1>1. o.filled + 0 = o.filled /\ l.filled + 0 = l.filled
  BY OrderIs DEF EntryType
<1>2. Filled(o, 0) = [o EXCEPT !.filled = o.filled] /\ Filled(l, 0) = [l EXCEPT !.filled = l.filled]
  BY <1>1 DEF Filled
<1> QED  BY <1>2 DEF OrderType, EntryType

Dealt(os, g) == [i \in 1 .. Len(os) |-> Filled(os[i], g[i])]

LEMMA BookIsOrdered ==
  ASSUME NEW r, NEW os, NEW ls, NEW bk, NEW n, Accounts(r, os, ls, bk, n)
  PROVE  Ordered(bk) /\ Records(bk)
<1>1. /\ IsFiniteSet(bk) /\ bk \subseteq RestingType
      /\ \A x, y \in bk : x.arrival = y.arrival => x = y
  BY DEF Accounts
<1> QED  BY <1>1 DEF Ordered, Records, RestingType

\* g is what each of the orders os gives to an incoming one.
Gives(g, os, bk, side, limit, quantity) ==
  /\ \A x \in bk : g[x.id] = Gave(x, quantity, Eligible(bk, side, limit))
  /\ \A i \in 1 .. Len(os) : i \notin InBook(bk) => g[i] = 0

LEMMA DealtIs ==
  ASSUME NEW r, NEW os, NEW ls, NEW bk, NEW n, Accounts(r, os, ls, bk, n),
         NEW side \in Sides, NEW limit, NEW quantity \in Nat, NEW g,
         Gives(g, os, bk, side, limit, quantity),
         NEW i \in 1 .. Len(os)
  PROVE  /\ FilledWell(r, os[i], ls[i], g[i])
         /\ g[i] \in Nat /\ g[i] <= Remaining(os[i])
<1>1. /\ os[i] \in OrderType(r) /\ ls[i] \in EntryType /\ Agreed(os[i], ls[i])
      /\ Remaining(os[i]) \in Nat
  BY AccountsAre
<1>2. CASE i \in InBook(bk)
  <2>1. PICK x \in bk : x.id = i
    BY <1>2 DEF InBook
  <2>2. x.quantity = Remaining(os[i]) /\ ls[i].known
    BY <2>1 DEF Accounts, RestsOf
  <2>3. g[i] \in Nat /\ g[i] <= x.quantity
    <3>1. \A y \in bk : LET k == Gave(y, quantity, Eligible(bk, side, limit))
                       IN k \in Nat /\ k <= y.quantity
      BY BookIsOrdered, SweptIs
    <3> QED  BY <2>1, <3>1 DEF Gives
  <2>4. g[i] <= Remaining(os[i])
    BY <2>2, <2>3
  <2> QED  BY <1>1, <2>2, <2>3, <2>4, FilledIs
<1>3. CASE i \notin InBook(bk)
  <2>1. g[i] = 0 /\ g[i] \in Nat /\ g[i] <= Remaining(os[i])
    BY <1>1, <1>3 DEF Gives
  <2>2. Filled(os[i], g[i]) = os[i] /\ Filled(ls[i], g[i]) = ls[i]
    BY <1>1, <2>1, FilledNothing
  <2>3. Synced(os[i], ls[i]) = os[i]
    BY <1>1, SyncedIsSame
  <2>4. os[i].filled = os[i].filled + g[i] /\ Remaining(os[i]) = Remaining(os[i]) - g[i]
    BY <1>1, <2>1, OrderIs
  <2>5. FilledWell(r, os[i], ls[i], g[i])
    BY <1>1, <2>1, <2>2, <2>3, <2>4 DEF FilledWell
  <2> QED  BY <2>1, <2>5
<1> QED  BY <1>2, <1>3

LEMMA TradeKeeps ==
  ASSUME NEW r, NEW os, NEW ls, NEW bk, NEW n, Accounts(r, os, ls, bk, n),
         NEW side \in Sides, NEW limit, NEW quantity \in Nat, NEW g,
         Gives(g, os, bk, side, limit, quantity)
  PROVE  Accounts(r, Dealt(os, g), Dealt(ls, g), Swept(bk, side, limit, quantity), n)
<1> DEFINE E == Eligible(bk, side, limit)
           L == {x \in bk : Gave(x, quantity, E) < x.quantity}
           K(x) == Kept(x, Gave(x, quantity, E))
           bt == Swept(bk, side, limit, quantity)
           ot == Dealt(os, g)
           lt == Dealt(ls, g)
<1>1. Ordered(bk) /\ Records(bk)
  BY BookIsOrdered
<1>2. /\ bt = {K(x) : x \in L}
      /\ \A x \in bk : Gave(x, quantity, E) \in Nat /\ Gave(x, quantity, E) <= x.quantity
  BY <1>1, SweptIs
<1>3. IsFiniteSet(bt)
  BY <1>1, SweptOrdered DEF Ordered
<1>4. /\ Len(os) \in Nat /\ Len(ls) = Len(os) /\ n \in Nat
  BY AccountsAre
<1>5. \A i \in 1 .. Len(os) :
        /\ ot[i] \in OrderType(r) /\ lt[i] \in EntryType /\ Agreed(ot[i], lt[i])
        /\ ot[i].request = os[i].request /\ lt[i].known = ls[i].known
        /\ Remaining(ot[i]) = Remaining(os[i]) - g[i]
        /\ g[i] \in Nat /\ Remaining(os[i]) \in Nat
  <2> TAKE i \in 1 .. Len(os)
  <2>1. ot[i] = Filled(os[i], g[i]) /\ lt[i] = Filled(ls[i], g[i])
    BY <1>4 DEF Dealt
  <2>2. /\ Filled(os[i], g[i]) \in OrderType(r) /\ Filled(ls[i], g[i]) \in EntryType
        /\ Agreed(Filled(os[i], g[i]), Filled(ls[i], g[i]))
        /\ Filled(os[i], g[i]).request = os[i].request
        /\ Filled(ls[i], g[i]).known = ls[i].known
        /\ Remaining(Filled(os[i], g[i])) = Remaining(os[i]) - g[i]
        /\ g[i] \in Nat
    <3>1. FilledWell(r, os[i], ls[i], g[i]) /\ g[i] \in Nat
      BY DealtIs
    <3> QED  BY <3>1 DEF FilledWell
  <2> QED  BY <2>1, <2>2, AccountsAre
<1>6. /\ ot \in [1 .. Len(os) -> OrderType(r)] /\ lt \in [1 .. Len(os) -> EntryType]
  BY <1>4, <1>5 DEF Dealt
<1> HIDE DEF ot, lt, bt
<1>7. /\ ot \in Seq(OrderType(r)) /\ lt \in Seq(EntryType)
      /\ Len(ot) = Len(os) /\ Len(lt) = Len(os)
  BY <1>4, <1>6, ListOf
<1>8. \A x \in bk : /\ x \in RestingType /\ RestsOf(x, os, ls) /\ x.arrival <= n
                    /\ g[x.id] = Gave(x, quantity, E)
  BY DEF Accounts, Gives
<1> HIDE DEF E
<1>9. \A x \in L : /\ K(x) \in RestingType /\ K(x).id = x.id /\ K(x).arrival = x.arrival
                   /\ K(x).side = x.side /\ K(x).price = x.price
                   /\ K(x).quantity = x.quantity - Gave(x, quantity, E)
  <2> SUFFICES ASSUME NEW x \in RestingType, NEW k \in Nat, k < x.quantity
               PROVE  /\ Kept(x, k) \in RestingType /\ Kept(x, k).id = x.id
                      /\ Kept(x, k).arrival = x.arrival
                      /\ Kept(x, k).side = x.side /\ Kept(x, k).price = x.price
                      /\ Kept(x, k).quantity = x.quantity - k
    BY <1>2, <1>8
  <2>1. x.quantity - k \in Nat \ {0}
    BY DEF RestingType
  <2> QED  BY <2>1 DEF Kept, RestingType
<1>10. \A x \in L : RestsOf(K(x), ot, lt) /\ K(x).arrival <= n
  <2> TAKE x \in L
  <2>1. x \in bk
    OBVIOUS
  <2>2. /\ x.id \in 1 .. Len(os) /\ ls[x.id].known /\ x.quantity = Remaining(os[x.id])
        /\ x.side = os[x.id].request.side /\ x.price = os[x.id].request.price
        /\ x.arrival <= n /\ g[x.id] = Gave(x, quantity, E)
    BY <1>8, <2>1 DEF RestsOf
  <2>3. /\ lt[x.id].known /\ ot[x.id].request = os[x.id].request
        /\ Remaining(ot[x.id]) = x.quantity - Gave(x, quantity, E)
    BY <1>5, <2>2
  <2>4. /\ K(x).id = x.id /\ K(x).arrival = x.arrival /\ K(x).side = x.side
        /\ K(x).price = x.price /\ K(x).quantity = x.quantity - Gave(x, quantity, E)
    BY <1>9
  <2> HIDE DEF K
  <2> QED  BY <1>7, <2>2, <2>3, <2>4 DEF RestsOf
<1>11. \A x, y \in L : K(x).id = K(y).id \/ K(x).arrival = K(y).arrival => K(x) = K(y)
  <2> SUFFICES ASSUME NEW x \in L, NEW y \in L, x.id = y.id \/ x.arrival = y.arrival
               PROVE  x = y
    BY <1>9
  <2> QED  BY DEF Accounts
<1>12. \A i \in 1 .. Len(os) :
         lt[i].known /\ Remaining(ot[i]) > 0 => \E x \in L : K(x).id = i
  <2> SUFFICES ASSUME NEW i \in 1 .. Len(os), lt[i].known, Remaining(ot[i]) > 0
               PROVE  \E x \in L : K(x).id = i
    OBVIOUS
  <2>1. ls[i].known /\ Remaining(os[i]) > 0 /\ g[i] < Remaining(os[i])
    BY <1>5
  <2>2. PICK x \in bk : x.id = i
    BY <2>1 DEF Accounts
  <2>3. x.quantity = Remaining(os[i]) /\ g[i] = Gave(x, quantity, E)
    BY <1>8, <2>2 DEF RestsOf
  <2>4. x \in L
    BY <2>1, <2>3
  <2> QED  BY <1>9, <2>2, <2>4
<1>13. bt \subseteq RestingType
  BY <1>2, <1>9
<1> HIDE DEF L, K
<1>14. /\ \A x \in bt : RestsOf(x, ot, lt) /\ x.arrival <= n
       /\ \A x, y \in bt : x.id = y.id \/ x.arrival = y.arrival => x = y
       /\ \A i \in 1 .. Len(ot) : lt[i].known /\ Remaining(ot[i]) > 0 => \E x \in bt : x.id = i
  BY <1>2, <1>7, <1>10, <1>11, <1>12
<1>15. \A i \in 1 .. Len(ot) : Agreed(ot[i], lt[i])
  BY <1>5, <1>7
<1>16. Accounts(r, ot, lt, bt, n)
  BY <1>3, <1>4, <1>7, <1>13, <1>14, <1>15 DEF Accounts
<1> QED  BY <1>16 DEF ot, lt, bt

-----------------------------------------------------------------------------
(* An order that trades *)

LEMMA SignedBuyIs ==
  ASSUME NEW side, NEW n \in Int, NEW m \in Int
  PROVE  /\ SignedBuy(side, n) \in Int
         /\ SignedBuy(side, n + m) = SignedBuy(side, n) + SignedBuy(side, m)
         /\ SignedBuy(side, 0) = 0
<1>1. SignedBuy(side, n) \in Int
  BY DEF SignedBuy
<1>2. SignedBuy(side, n + m) = SignedBuy(side, n) + SignedBuy(side, m)
  BY DEF SignedBuy
<1>3. SignedBuy(side, 0) = 0
  <2>1. \A k \in Int : -k = 0 - k
    OBVIOUS
  <2>2. 0 \in Int /\ 0 - 0 = 0
    OBVIOUS
  <2>3. -0 = 0
    BY <2>1, <2>2, Zenon
  <2> QED  BY <2>3, Zenon DEF SignedBuy
<1> QED  BY <1>1, <1>2, <1>3

\* What the orders of os earn through the trades g.
Gained(os, g) ==
  [i \in 1 .. Len(os) |-> IF os[i].request.account = Player
                          THEN SignedBuy(os[i].request.side, g[i]) ELSE 0]

LEMMA DealtBalances ==
  ASSUME NEW r, NEW os \in Seq(OrderType(r)), NEW g,
         Dealt(os, g) \in Seq(OrderType(r)),
         \A i \in 1 .. Len(os) : /\ g[i] \in Int
                                 /\ Filled(os[i], g[i]).filled = os[i].filled + g[i]
                                 /\ Filled(os[i], g[i]).request = os[i].request
  PROVE  /\ Balance(Dealt(os, g)) = Balance(os) + OfQuantity!Total(Gained(os, g), 1 .. Len(os))
         /\ \A i \in 1 .. Len(os) : Gained(os, g)[i] \in Int
<1> DEFINE S == 1 .. Len(os)
           ot == Dealt(os, g)
           u == Earnings(ot)
           w == Earnings(os)
           v == Gained(os, g)
<1>1. /\ Len(os) \in Nat /\ OfQuantity!IsFiniteSet(S)
      /\ \A i \in S : w[i] = Earned(os[i]) /\ w[i] \in Int /\ os[i] \in OrderType(r)
  BY EarningsAre, ListIs
<1>2. Len(ot) = Len(os) /\ \A i \in S : ot[i] = Filled(os[i], g[i])
  BY <1>1, ListIs DEF Dealt
<1>3. \A i \in S : u[i] = Earned(ot[i])
  BY <1>2, EarningsAre
<1>4. \A i \in S : v[i] \in Int /\ u[i] = w[i] + v[i]
  <2> TAKE i \in S
  <2>1. /\ ot[i].filled = os[i].filled + g[i] /\ ot[i].request = os[i].request
        /\ g[i] \in Int
    BY <1>2
  <2>2. os[i].filled \in Int
    BY <1>1, OrderIs
  <2> DEFINE s == os[i].request.side
             f == os[i].filled
  <2>3. v[i] = IF os[i].request.account = Player THEN SignedBuy(s, g[i]) ELSE 0
    BY DEF Gained
  <2>4. w[i] = IF os[i].request.account = Player THEN SignedBuy(s, f) ELSE 0
    BY <1>1 DEF Earned
  <2>5. u[i] = IF os[i].request.account = Player THEN SignedBuy(s, f + g[i]) ELSE 0
    BY <1>3, <2>1 DEF Earned
  <2> HIDE DEF s, f, u, v, w, ot
  <2>6. /\ SignedBuy(s, f) \in Int /\ SignedBuy(s, g[i]) \in Int
        /\ SignedBuy(s, f + g[i]) = SignedBuy(s, f) + SignedBuy(s, g[i])
    BY <2>1, <2>2, SignedBuyIs DEF f
  <2>7. CASE os[i].request.account = Player
    BY <2>3, <2>4, <2>5, <2>6, <2>7
  <2>8. CASE os[i].request.account # Player
    BY <2>3, <2>4, <2>5, <2>8
  <2> QED  BY <2>7, <2>8
<1>5. Balance(ot) = OfQuantity!Total(u, S) /\ Balance(os) = OfQuantity!Total(w, S)
  BY <1>2 DEF Balance
<1> HIDE DEF ot, S, u, v, w
<1>6. OfQuantity!Total(u, S) = OfQuantity!Total(w, S) + OfQuantity!Total(v, S)
  BY <1>1, <1>4, OfQuantity!TotalPlus
<1>7. Balance(ot) = Balance(os) + OfQuantity!Total(v, S) /\ \A i \in S : v[i] \in Int
  BY <1>4, <1>5, <1>6
<1> QED  BY <1>7 DEF ot, v, S

\* What the maker i gives q, and the sum of that over some makers.
Taken(bk, q, i) ==
  Allotted(CHOOSE x \in Makers(bk, q.side, q.price, q.quantity) : x.id = i,
           q.quantity, Eligible(bk, q.side, q.price))
TakenFrom(bk, q, S) ==
  (CHOOSE f : f = [s \in SUBSET S |->
     IF s = {} THEN 0
     ELSE Taken(bk, q, CHOOSE x \in s : TRUE) + f[s \ {CHOOSE x \in s : TRUE}]])[S]

LEMMA TakenTotal ==
  ASSUME NEW bk, NEW q, NEW S, IsFiniteSet(S), NEW w, \A i \in S : w[i] = Taken(bk, q, i)
  PROVE  TakenFrom(bk, q, S) = OfQuantity!Total(w, S)
<1> DEFINE P(f) == f = [s \in SUBSET S |->
              IF s = {} THEN 0
              ELSE Taken(bk, q, OfQuantity!First(s)) + f[s \ {OfQuantity!First(s)}]]
           i == CHOOSE f : P(f)
<1>1. TakenFrom(bk, q, S) = i[S]
  BY DEF TakenFrom, OfQuantity!First
<1>2. \A f : P(f) <=> OfQuantity!IsIter(f, w, S)
  <2>1. \A s \in SUBSET S : s # {} =>
          w[OfQuantity!First(s)] = Taken(bk, q, OfQuantity!First(s))
    BY OfQuantity!FirstIn
  <2> TAKE f
  <2>2. [s \in SUBSET S |-> IF s = {} THEN 0
                            ELSE Taken(bk, q, OfQuantity!First(s))
                                   + f[s \ {OfQuantity!First(s)}]]
          = [s \in SUBSET S |-> IF s = {} THEN 0
                                ELSE w[OfQuantity!First(s)] + f[s \ {OfQuantity!First(s)}]]
    BY <2>1
  <2> QED  BY <2>2 DEF OfQuantity!IsIter
<1> HIDE DEF P
<1>3. OfQuantity!IsIter(OfQuantity!Iter(w, S), w, S)
  BY SumFinite, OfQuantity!IterExists
<1>4. P(i)
  BY <1>2, <1>3
<1>5. OfQuantity!IsIter(i, w, S)
  BY <1>2, <1>4
<1> HIDE DEF i
<1>6. i[S] = OfQuantity!Iter(w, S)[S]
  BY <1>3, <1>5, SumFinite, OfQuantity!IterUnique
<1> QED  BY <1>1, <1>6, OfQuantity!TotalIsIter

LEMMA TotalMinus ==
  ASSUME NEW S, IsFiniteSet(S), NEW w, NEW v,
         \A x \in S : w[x] \in Int /\ v[x] \in Int /\ v[x] = -w[x]
  PROVE  OfQuantity!Total(v, S) = -OfQuantity!Total(w, S)
<1> DEFINE u == [x \in S |-> 0]
<1>1. \A x \in S : u[x] = 0
  OBVIOUS
<1> HIDE DEF u
<1>2. \A x \in S : w[x] \in Int /\ v[x] \in Int /\ u[x] = w[x] + v[x]
  BY <1>1
<1>3. OfQuantity!Total(u, S) = OfQuantity!Total(w, S) + OfQuantity!Total(v, S)
  BY <1>2, SumFinite, OfQuantity!TotalPlus
<1>4. OfQuantity!Total(u, S) = 0
  BY <1>1, SumFinite, OfQuantity!TotalZero
<1>5. OfQuantity!Total(w, S) \in Int /\ OfQuantity!Total(v, S) \in Int
  BY SumFinite, OfQuantity!TotalInt
<1> QED  BY <1>3, <1>4, <1>5

\* What every order gives to q, in the book bk.
GivenBy(bk, q, n) ==
  [i \in 1 .. n |-> IF i \in {r.id : r \in Makers(bk, q.side, q.price, q.quantity)}
                    THEN Taken(bk, q, i) ELSE 0]

LEMMA GivenByIs ==
  ASSUME NEW r, NEW os, NEW ls, NEW bk, NEW n, Accounts(r, os, ls, bk, n),
         NEW q \in RequestType(r)
  PROVE  LET g == GivenBy(bk, q, Len(os))
             ids == {x.id : x \in Makers(bk, q.side, q.price, q.quantity)}
         IN /\ ids \subseteq InBook(bk)
            /\ Gives(g, os, bk, q.side, q.price, q.quantity)
            /\ \A i \in ids : /\ g[i] = Taken(bk, q, i) /\ i \in 1 .. Len(os)
                              /\ os[i].request.side # q.side
            /\ \A i \in 1 .. Len(os) \ ids : g[i] = 0
<1> DEFINE E == Eligible(bk, q.side, q.price)
           M == Makers(bk, q.side, q.price, q.quantity)
           ids == {x.id : x \in M}
           g == GivenBy(bk, q, Len(os))
<1>1. M = {x \in E : Allotted(x, q.quantity, E) > 0}
  BY DEF Makers
<1>2. q.side \in Sides /\ q.quantity \in Nat
  BY DEF RequestType, Sides
<1>3. Queue(E) /\ E \in SUBSET bk /\ \A x \in E : x.side # q.side
  BY <1>2, BookIsOrdered, EligibleQueue
<1> HIDE DEF E, M
<1>4. /\ \A x \in bk : RestsOf(x, os, ls)
      /\ \A x, y \in bk : x.id = y.id => x = y
  BY DEF Accounts
<1>5. ids \subseteq InBook(bk)
  BY <1>1, <1>3 DEF InBook
<1>6. \A i \in ids : i \in 1 .. Len(os) /\ os[i].request.side # q.side
  BY <1>1, <1>3, <1>4 DEF RestsOf
<1>7. \A i \in 1 .. Len(os) : g[i] = IF i \in ids THEN Taken(bk, q, i) ELSE 0
  BY DEF GivenBy, M
<1> HIDE DEF g
<1>8. ASSUME NEW x \in bk
      PROVE  g[x.id] = Gave(x, q.quantity, E)
  <2>1. x.id \in 1 .. Len(os)
    BY <1>4 DEF RestsOf
  <2>2. CASE x \in M
    <3>1. (CHOOSE y \in M : y.id = x.id) = x
      <4>1. x \in M /\ \A y \in M : y.id = x.id => y = x
        BY <1>1, <1>3, <1>4, <2>2
      <4> DEFINE c == CHOOSE y \in M : y.id = x.id
      <4>2. c \in M /\ c.id = x.id
        BY <4>1
      <4> HIDE DEF c
      <4>3. c = x
        BY <4>1, <4>2
      <4> QED  BY <4>3 DEF c
    <3>2. Taken(bk, q, x.id) = Allotted(x, q.quantity, E)
      BY <3>1 DEF Taken, M, E
    <3> QED  BY <1>1, <1>7, <2>1, <2>2, <3>2 DEF Gave
  <2>3. CASE x \notin M
    <3>1. x.id \notin ids
      BY <1>1, <1>3, <1>4, <2>3
    <3>2. Gave(x, q.quantity, E) = 0
      <4>1. x \in E => Allotted(x, q.quantity, E) \in Nat
        BY <1>2, <1>3, AllottedIs
      <4>2. x \in E => ~(Allotted(x, q.quantity, E) > 0)
        BY <1>1, <2>3
      <4> QED  BY <4>1, <4>2 DEF Gave
    <3> QED  BY <1>7, <2>1, <3>1, <3>2
  <2> QED  BY <2>2, <2>3
<1>9. \A i \in 1 .. Len(os) : i \notin InBook(bk) => g[i] = 0
  BY <1>5, <1>7
<1>10. \A i \in ids : g[i] = Taken(bk, q, i)
  BY <1>6, <1>7
<1>11. \A i \in 1 .. Len(os) \ ids : g[i] = 0
  BY <1>7
<1>12. Gives(g, os, bk, q.side, q.price, q.quantity)
  BY <1>8, <1>9 DEF Gives, E
<1> QED  BY <1>5, <1>6, <1>10, <1>11, <1>12 DEF g, M

\* What the makers earn is what q does not.
LEMMA MakersEarn ==
  ASSUME NEW r, NEW os, NEW ls, NEW bk, NEW n, Accounts(r, os, ls, bk, n),
         NEW q \in RequestType(r)
  PROVE  LET ids == {x.id : x \in Makers(bk, q.side, q.price, q.quantity)}
             ofPlayer == {i \in ids : os[i].request.account = Player}
             e == OfQuantity!Total(Gained(os, GivenBy(bk, q, Len(os))), 1 .. Len(os))
         IN /\ e \in Int
            /\ e = -SignedBuy(q.side, TakenFrom(bk, q, ofPlayer))
            /\ SignedBuy(q.side, TakenFrom(bk, q, ofPlayer)) \in Int
<1> DEFINE ids == {x.id : x \in Makers(bk, q.side, q.price, q.quantity)}
           P == {i \in ids : os[i].request.account = Player}
           g == GivenBy(bk, q, Len(os))
           v == Gained(os, g)
           S == 1 .. Len(os)
<1>1. /\ Gives(g, os, bk, q.side, q.price, q.quantity)
      /\ \A i \in ids : g[i] = Taken(bk, q, i) /\ i \in S /\ os[i].request.side # q.side
      /\ \A i \in S \ ids : g[i] = 0
  BY GivenByIs
<1>2. q.side \in Sides /\ q.quantity \in Nat
  BY DEF RequestType, Sides
<1> HIDE DEF g
<1>3. \A i \in S : g[i] \in Nat
  <2> TAKE i \in S
  <2> HIDE DEF ids, P
  <2>1. g[i] \in Nat /\ g[i] <= Remaining(os[i])
    BY <1>1, <1>2, DealtIs
  <2> QED  BY <2>1
<1>4. \A i \in S : os[i].request.side \in Sides
  BY AccountsAre, OrderIs
<1>5. \A i \in S : v[i] = IF os[i].request.account = Player
                          THEN SignedBuy(os[i].request.side, g[i]) ELSE 0
  BY DEF Gained
<1>6. Len(os) \in Nat /\ IsFiniteSet(S)
  <2>1. Len(os) \in Nat
    BY AccountsAre
  <2> QED  BY <2>1, FS_Interval
<1> HIDE DEF S, ids, v
<1>7. P \in SUBSET S /\ IsFiniteSet(P)
  BY <1>1, <1>6, FS_Subset
<1>8. \A i \in S : v[i] \in Int
  <2> TAKE i \in S
  <2>1. SignedBuy(os[i].request.side, g[i]) \in Int
    BY <1>3, SignedBuyIs
  <2> QED  BY <1>5, <2>1
<1>9. \A i \in S \ P : v[i] = 0
  <2> TAKE i \in S \ P
  <2>1. CASE os[i].request.account = Player
    <3>1. g[i] = 0
      BY <1>1, <2>1
    <3>2. SignedBuy(os[i].request.side, 0) = 0
      BY SignedBuyIs
    <3> QED  BY <1>5, <2>1, <3>1, <3>2
  <2>2. CASE os[i].request.account # Player
    BY <1>5, <2>2
  <2> QED  BY <2>1, <2>2
<1>10. OfQuantity!Total(v, S) = OfQuantity!Total(v, P)
  BY <1>6, <1>7, <1>8, <1>9, SumFinite, OfQuantity!TotalWithin
<1>11. TakenFrom(bk, q, P) = OfQuantity!Total(g, P)
  BY <1>1, <1>7, TakenTotal
<1>12. OfQuantity!Total(g, P) \in Int
  BY <1>3, <1>7, SumFinite, OfQuantity!TotalInt
<1>13. \A i \in P : /\ v[i] = SignedBuy(os[i].request.side, g[i]) /\ v[i] \in Int
                    /\ os[i].request.side # q.side /\ os[i].request.side \in Sides
                    /\ g[i] \in Nat
  BY <1>1, <1>3, <1>4, <1>5, <1>7, <1>8
<1>14. OfQuantity!Total(v, P) = -SignedBuy(q.side, OfQuantity!Total(g, P))
  <2>1. CASE q.side = "BUY"
    <3>1. \A i \in P : g[i] \in Int /\ v[i] \in Int /\ v[i] = -g[i]
      BY <1>13, <2>1 DEF Sides, SignedBuy
    <3> HIDE DEF P
    <3>2. OfQuantity!Total(v, P) = -OfQuantity!Total(g, P)
      BY <1>7, <3>1, TotalMinus
    <3> QED  BY <2>1, <3>2 DEF SignedBuy
  <2>2. CASE q.side = "SELL"
    <3>1. \A i \in P : v[i] = g[i] /\ v[i] \in Int
      BY <1>13, <2>2 DEF Sides, SignedBuy
    <3> HIDE DEF P
    <3>2. OfQuantity!Total(v, P) = OfQuantity!Total(g, P)
      BY <1>7, <3>1, SumFinite, OfQuantity!TotalSame
    <3> DEFINE t == OfQuantity!Total(g, P)
    <3>3. t \in Int
      BY <1>12
    <3> HIDE DEF t
    <3>4. SignedBuy(q.side, t) = -t /\ - (-t) = t
      BY <2>2, <3>3 DEF SignedBuy
    <3> QED  BY <3>2, <3>4 DEF t
  <2> QED  BY <1>2, <2>1, <2>2 DEF Sides
<1>15. SignedBuy(q.side, OfQuantity!Total(g, P)) \in Int
  BY <1>12, SignedBuyIs
<1>16. OfQuantity!Total(v, S) \in Int
  BY <1>6, <1>8, SumFinite, OfQuantity!TotalInt
<1> QED  BY <1>10, <1>11, <1>14, <1>15, <1>16 DEF S, v, g, ids

\* Orders are what their fields are.
Fields(q, f, c, e) ==
  [request : {q}, filled : {f}, cancelled : {c}, expired : {e}, rejected : {FALSE}]

LEMMA FieldsAre ==
  ASSUME NEW q, NEW f, NEW c, NEW e, NEW o \in Fields(q, f, c, e)
  PROVE  o = [request |-> q, filled |-> f, cancelled |-> c, expired |-> e, rejected |-> FALSE]
  BY DEF Fields

\* The order that has traded: what does not stay has expired.
Executing(q, filled) ==
  [request |-> q, filled |-> filled, cancelled |-> 0,
   expired |-> IF Vanishes(q) THEN q.quantity - filled ELSE 0, rejected |-> FALSE]
Booking(q, filled) ==
  [known |-> TRUE, filled |-> filled,
   cancelled |-> IF Vanishes(q) THEN q.quantity - filled ELSE 0,
   expired |-> q.price = 0 /\ q.quantity - filled > 0]

LEMMA NewcomerIs ==
  ASSUME NEW r, NEW q \in RequestType(r), ~q.auction, NEW filled \in Nat,
         filled <= q.quantity
  PROVE  LET o == Executing(q, filled)
             l == Booking(q, filled)
         IN /\ o \in OrderType(r) /\ l \in EntryType /\ Agreed(o, l) /\ l.known
            /\ Remaining(o) = IF Vanishes(q) THEN 0 ELSE q.quantity - filled
            /\ IF q.lifetime = "IOC" /\ q.price # 0 /\ q.quantity - filled > 0
               THEN ExpiredOrder([Managed(q) EXCEPT !.filled = filled], l) = o
               ELSE Synced(Managed(q), l) = o
<1> DEFINE left == q.quantity - filled
           o == Executing(q, filled)
           l == Booking(q, filled)
           v == IF Vanishes(q) THEN left ELSE 0
<1>1. left \in Nat /\ q.quantity \in Nat /\ q.price \in Nat /\ filled + left = q.quantity
  BY DEF RequestType
<1>2. v \in Nat
  BY <1>1
<1>3. /\ o \in OrderType(r) /\ o.request = q /\ o.filled = filled /\ o.cancelled = 0
      /\ o.expired = v /\ o.rejected = FALSE
      /\ o = [request |-> q, filled |-> filled, cancelled |-> 0, expired |-> v,
              rejected |-> FALSE]
  BY <1>2 DEF Executing, OrderType
<1>4. /\ l \in EntryType /\ l.known = TRUE /\ l.filled = filled /\ l.cancelled = v
      /\ l.expired = (q.price = 0 /\ left > 0)
  BY <1>2 DEF Booking, EntryType
<1>5. q.price = 0 => Vanishes(q)
  BY DEF Vanishes
<1> HIDE DEF o, l, left
<1>6. Remaining(o) = IF Vanishes(q) THEN 0 ELSE left
  BY <1>1, <1>3 DEF Remaining
<1>7. Agreed(o, l)
  <2>1. Remaining(o) >= 0 /\ o.cancelled + o.expired = l.cancelled
    BY <1>1, <1>2, <1>3, <1>4, <1>6
  <2>2. l.expired => Remaining(o) = 0
    BY <1>4, <1>5, <1>6
  <2> QED  BY <1>3, <1>4, <2>1, <2>2 DEF Agreed
<1>8. ASSUME q.lifetime = "IOC", q.price # 0, left > 0
      PROVE  ExpiredOrder([Managed(q) EXCEPT !.filled = filled], l) = o
  <2> DEFINE m == [request |-> q, filled |-> filled, cancelled |-> 0, expired |-> 0,
                   rejected |-> FALSE]
  <2>1. [Managed(q) EXCEPT !.filled = filled] = m
    <3>1. [Managed(q) EXCEPT !.filled = filled] \in Fields(q, filled, 0, 0)
      BY DEF Managed, Fields
    <3> QED  BY <3>1, FieldsAre
  <2>2. Vanishes(q) /\ ~l.expired /\ l.cancelled = left
    BY <1>4, <1>8 DEF Vanishes
  <2>3. Remaining(m) = left
    BY <1>1 DEF Remaining
  <2>4. l.cancelled - m.expired = left /\ m.expired + Remaining(m) = left
    BY <1>1, <2>2, <2>3
  <2>5. Synced(m, l) \in Fields(q, filled, left, 0)
    <3>1. Synced(m, l) = [m EXCEPT !.filled = filled, !.cancelled = left, !.expired = 0]
      BY <1>4, <2>2, <2>4 DEF Synced
    <3> QED  BY <3>1 DEF Fields
  <2>6. Synced(m, l).expired + Remaining(m) = left
    BY <1>1, <2>3, <2>5 DEF Fields
  <2>7. ExpiredOrder(m, l) = [Synced(m, l) EXCEPT !.expired = left, !.cancelled = 0]
    BY <2>6 DEF ExpiredOrder
  <2>8. ExpiredOrder(m, l) = o
    <3>1. ExpiredOrder(m, l) \in Fields(q, filled, 0, left)
      BY <2>5, <2>7 DEF Fields
    <3> QED  BY <1>3, <2>2, <3>1, FieldsAre
  <2> QED  BY <2>1, <2>8
<1>9. ASSUME ~(q.lifetime = "IOC" /\ q.price # 0 /\ left > 0)
      PROVE  Synced(Managed(q), l) = o
  <2>1. /\ (IF l.expired THEN 0 ELSE l.cancelled - 0) = 0
        /\ (IF l.expired THEN l.cancelled ELSE 0) = v
    <3>1. CASE q.price = 0 /\ left > 0
      BY <1>4, <3>1
    <3>2. CASE ~(q.price = 0 /\ left > 0)
      <4>1. v = 0
        BY <1>1, <1>9, <3>2 DEF Vanishes
      <4> QED  BY <1>4, <3>2, <4>1
    <3> QED  BY <3>1, <3>2
  <2>2. Synced(Managed(q), l) =
          [Managed(q) EXCEPT !.filled = filled, !.cancelled = 0, !.expired = v]
    BY <1>4, <2>1 DEF Synced, Managed
  <2> QED  BY <1>3, <2>2 DEF Managed
<1> QED  BY <1>3, <1>4, <1>6, <1>7, <1>8, <1>9 DEF o, l, left

LEMMA LeftIs ==
  ASSUME Books, NEW q \in RequestType(rules)
  PROVE  LET W == Prevented(q)
         IN /\ W \in SUBSET InBook(book) /\ Left(q) = Without(book, W)
            /\ Accounts(rules, Departed(orders, W, {}), Struck(orders, ledger, W),
                        Left(q), rested)
            /\ Balance(Departed(orders, W, {})) = Balance(orders)
            /\ q.side \in Sides /\ q.quantity \in Nat \ {0}
<1> DEFINE W == Prevented(q)
<1>1. W \in SUBSET InBook(book) /\ Left(q) = Without(book, W)
  BY ReasonsAreLive DEF Left, Without
<1> HIDE DEF W
<1>2. W \cup ({} \cap InBook(book)) = W /\ W \cup {} = W
      /\ {} \in SUBSET (InBook(book) \cup Auctioned(orders))
  OBVIOUS
<1>3. /\ Accounts(rules, Departed(orders, W, {}), Struck(orders, ledger, W),
                  Left(q), rested)
      /\ Balance(Departed(orders, W, {})) = Balance(orders)
  BY <1>1, <1>2, DepartureKeeps, DepartureBalances DEF Books
<1>4. q.side \in Sides /\ q.quantity \in Nat \ {0}
  BY DEF RequestType, Sides
<1> QED  BY <1>1, <1>3, <1>4 DEF W

\* The step of an order that trades, in terms of the operators above.
LEMMA ExecutedIs ==
  ASSUME Books, NEW q \in RequestType(rules), SubmitExecuted(q)
  PROVE  LET W == Prevented(q)
             os == Departed(orders, W, {})
             ls == Struck(orders, ledger, W)
             R == Left(q)
             g == GivenBy(R, q, Len(os))
             filled == Executed(R, q.side, q.price, q.quantity)
             ids == {r.id : r \in Reached(q)}
         IN /\ orders' = Append(Dealt(os, g), Executing(q, filled))
            /\ ledger' = Append(Dealt(ls, g), Booking(q, filled))
            /\ ~q.auction /\ filled \in Nat /\ filled <= q.quantity
            /\ position' = position
                 + (IF q.account = Player THEN SignedBuy(q.side, filled) ELSE 0)
                 - SignedBuy(q.side, TakenFrom(R, q,
                     {i \in ids : orders[i].request.account = Player}))
            /\ book' = Swept(R, q.side, q.price, q.quantity) \cup
                       IF q.quantity - filled > 0 /\ ~Vanishes(q)
                       THEN {[id |-> Len(orders) + 1, side |-> q.side, price |-> q.price,
                              arrival |-> rested + 1, quantity |-> q.quantity - filled]}
                       ELSE {}
            /\ rested' = rested + IF q.quantity - filled > 0 /\ q.price # 0 THEN 1 ELSE 0
<1> DEFINE W == Prevented(q)
           os == Departed(orders, W, {})
           ls == Struck(orders, ledger, W)
           R == Left(q)
           g == GivenBy(R, q, Len(os))
           filled == Executed(R, q.side, q.price, q.quantity)
           ids == {r.id : r \in Reached(q)}
           prevented == Cancelled(W)
           L == [i \in DOMAIN orders |->
                   IF i \in ids THEN [ledger[i] EXCEPT !.filled = @ + Taken(R, q, i)]
                   ELSE prevented[i]]
           mine == Booking(q, filled)
           left == q.quantity - filled
<1>1. /\ ledger' = Append(L, mine)
      /\ orders' = Append([i \in DOMAIN orders |-> Synced(orders[i], L[i])],
           IF q.lifetime = "IOC" /\ q.price # 0 /\ left > 0
           THEN ExpiredOrder([Managed(q) EXCEPT !.filled = filled], mine)
           ELSE Synced(Managed(q), mine))
  BY DEF SubmitExecuted, Taken, Reached, Booking
<1>2. /\ ~q.auction
      /\ book' = Swept(R, q.side, q.price, q.quantity) \cup
                       IF q.quantity - filled > 0 /\ ~Vanishes(q)
                       THEN {[id |-> Len(orders) + 1, side |-> q.side, price |-> q.price,
                              arrival |-> rested + 1, quantity |-> q.quantity - filled]}
                       ELSE {}
      /\ rested' = rested + IF q.quantity - filled > 0 /\ q.price # 0 THEN 1 ELSE 0
  BY DEF SubmitExecuted
<1>3. position' = position
        + (IF q.account = Player THEN SignedBuy(q.side, filled) ELSE 0)
        - SignedBuy(q.side, TakenFrom(R, q, {i \in ids : orders[i].request.account = Player}))
  BY DEF SubmitExecuted, Taken, TakenFrom, Reached, MapThenSumSet, MapThenFoldSet
<1> HIDE DEF W
<1>4. /\ W \in SUBSET InBook(book) /\ R = Without(book, W)
      /\ Accounts(rules, os, ls, R, rested)
      /\ q.side \in Sides /\ q.quantity \in Nat \ {0}
  BY LeftIs DEF W
<1>5. /\ Len(os) = Len(orders) /\ DOMAIN orders = 1 .. Len(orders)
      /\ \A i \in 1 .. Len(orders) : /\ os[i] = IF i \in W THEN Withdrawn(orders[i]) ELSE orders[i]
                                     /\ i \notin W => ls[i] = ledger[i]
                                     /\ os[i].request = orders[i].request
      /\ Len(ls) = Len(orders)
  <2>1. /\ Len(os) \in Nat /\ DOMAIN os = 1 .. Len(os) /\ Len(ls) = Len(os)
    BY <1>4, AccountsAre
  <2>2. Len(orders) \in Nat /\ DOMAIN orders = 1 .. Len(orders)
    BY BooksAre
  <2>3. DOMAIN os = 1 .. Len(orders)
    BY DEF Departed
  <2>4. Len(os) = Len(orders)
    BY <2>1, <2>2, <2>3
  <2>5. ASSUME NEW i \in 1 .. Len(orders)
        PROVE  /\ os[i] = IF i \in W THEN Withdrawn(orders[i]) ELSE orders[i]
               /\ i \notin W => ls[i] = ledger[i]
    BY DEF Departed, Struck
  <2>6. \A i \in 1 .. Len(orders) : Withdrawn(orders[i]).request = orders[i].request
    BY BooksAre, ClosedOrder
  <2> QED  BY <2>1, <2>2, <2>4, <2>5, <2>6
<1>6. prevented = ls
  BY CancelledIs
<1> HIDE DEF os, ls, prevented
<1>7. /\ ids \subseteq InBook(R)
      /\ Gives(g, os, R, q.side, q.price, q.quantity)
      /\ \A i \in ids : g[i] = Taken(R, q, i) /\ i \in 1 .. Len(os)
      /\ \A i \in 1 .. Len(os) \ ids : g[i] = 0
  BY <1>4, GivenByIs DEF Reached
<1>8. \A i \in ids : i \notin W
  BY <1>4, <1>7 DEF InBook, Without
<1> HIDE DEF g, ids, R
<1>9. ASSUME NEW i \in 1 .. Len(orders)
      PROVE  L[i] = Filled(ls[i], g[i]) /\ Synced(orders[i], L[i]) = Filled(os[i], g[i])
  <2>0. /\ os[i] \in OrderType(rules) /\ ls[i] \in EntryType
        /\ FilledWell(rules, os[i], ls[i], g[i])
    BY <1>4, <1>5, <1>7, AccountsAre, DealtIs
  <2>1. L[i] = Filled(ls[i], g[i])
    <3>1. CASE i \in ids
      BY <1>5, <1>7, <1>8, <3>1 DEF Filled
    <3>2. CASE i \notin ids
      <4>1. g[i] = 0 /\ L[i] = ls[i]
        BY <1>5, <1>6, <1>7, <3>2
      <4> QED  BY <2>0, <4>1, FilledNothing
    <3> QED  BY <3>1, <3>2
  <2> HIDE DEF L
  <2>2. CASE i \in W
    <3>1. g[i] = 0
      BY <1>5, <1>7, <1>8, <2>2
    <3>2. L[i] = ls[i] /\ Filled(os[i], g[i]) = os[i]
      BY <2>0, <2>1, <3>1, FilledNothing
    <3>3. Synced(orders[i], ls[i]) = Withdrawn(orders[i])
      BY <1>4, <2>2, SyncedStruck DEF ls
    <3> QED  BY <1>5, <2>1, <2>2, <3>2, <3>3
  <2>3. CASE i \notin W
    <3>1. orders[i] = os[i]
      BY <1>5, <2>3
    <3>2. Synced(os[i], Filled(ls[i], g[i])) = Filled(os[i], g[i])
      BY <2>0 DEF FilledWell
    <3> QED  BY <2>1, <3>1, <3>2
  <2> QED  BY <2>1, <2>2, <2>3
<1>10. L = Dealt(ls, g) /\ [i \in DOMAIN orders |-> Synced(orders[i], L[i])] = Dealt(os, g)
  <2>1. L = [i \in 1 .. Len(orders) |-> Filled(ls[i], g[i])]
    BY <1>5, <1>9
  <2> HIDE DEF L
  <2>2. [i \in DOMAIN orders |-> Synced(orders[i], L[i])]
          = [i \in 1 .. Len(orders) |-> Filled(os[i], g[i])]
    BY <1>5, <1>9
  <2> QED  BY <1>5, <2>1, <2>2 DEF Dealt
<1>11. filled \in Nat /\ filled <= q.quantity
  <2> DEFINE s == QuantityOf(Eligible(R, q.side, q.price))
  <2>1. filled = Least(q.quantity, s)
    BY DEF Executed
  <2>2. s \in Nat
    <3>1. Queue(Eligible(R, q.side, q.price))
      BY <1>4, BookIsOrdered, EligibleQueue
    <3> QED  BY <3>1, OrderedParts, QuantityNat DEF Queue
  <2> HIDE DEF s, filled
  <2> QED  BY <1>4, <2>1, <2>2 DEF Least
<1>12. IF q.lifetime = "IOC" /\ q.price # 0 /\ left > 0
       THEN ExpiredOrder([Managed(q) EXCEPT !.filled = filled], mine) = Executing(q, filled)
       ELSE Synced(Managed(q), mine) = Executing(q, filled)
  BY <1>2, <1>11, NewcomerIs
<1> HIDE DEF L, mine, left, filled
<1>13. /\ orders' = Append(Dealt(os, g), Executing(q, filled))
       /\ ledger' = Append(Dealt(ls, g), mine)
  BY <1>1, <1>10, <1>12
<1> QED  BY <1>2, <1>3, <1>11, <1>13 DEF W, os, ls, R, g, filled, ids, mine

LEMMA ExecutedStep ==
  ASSUME Books, position = Balance(orders), rules' = rules,
         NEW q \in RequestType(rules), SubmitExecuted(q)
  PROVE  Books' /\ position' = Balance(orders')
<1> DEFINE W == Prevented(q)
           os == Departed(orders, W, {})
           ls == Struck(orders, ledger, W)
           R == Left(q)
           g == GivenBy(R, q, Len(os))
           filled == Executed(R, q.side, q.price, q.quantity)
           ids == {r.id : r \in Reached(q)}
           o == Executing(q, filled)
           l == Booking(q, filled)
           rest == [id |-> Len(orders) + 1, side |-> q.side, price |-> q.price,
                    arrival |-> rested + 1, quantity |-> q.quantity - filled]
           t == SignedBuy(q.side, TakenFrom(R, q,
                  {i \in ids : orders[i].request.account = Player}))
           S == Swept(R, q.side, q.price, q.quantity)
           m == rested + IF q.quantity - filled > 0 /\ q.price # 0 THEN 1 ELSE 0
<1>1. /\ orders' = Append(Dealt(os, g), o) /\ ledger' = Append(Dealt(ls, g), l)
      /\ ~q.auction /\ filled \in Nat /\ filled <= q.quantity
      /\ position' = position + (IF q.account = Player THEN SignedBuy(q.side, filled) ELSE 0) - t
      /\ book' = S \cup IF q.quantity - filled > 0 /\ ~Vanishes(q) THEN {rest} ELSE {}
      /\ rested' = m
  BY ExecutedIs
<1>2. /\ W \in SUBSET InBook(book)
      /\ Accounts(rules, os, ls, R, rested) /\ Balance(os) = Balance(orders)
      /\ q.side \in Sides /\ q.quantity \in Nat \ {0}
  BY LeftIs
<1>3. /\ Len(os) = Len(orders)
      /\ \A i \in 1 .. Len(orders) : os[i].request = orders[i].request
  <2>1. /\ Len(os) \in Nat /\ DOMAIN os = 1 .. Len(os)
    BY <1>2, AccountsAre
  <2>2. Len(orders) \in Nat /\ DOMAIN os = 1 .. Len(orders)
    BY BooksAre DEF Departed
  <2>3. \A i \in 1 .. Len(orders) : Withdrawn(orders[i]).request = orders[i].request
    BY BooksAre, ClosedOrder
  <2>4. \A i \in 1 .. Len(orders) : os[i] = IF i \in W THEN Withdrawn(orders[i]) ELSE orders[i]
    BY DEF Departed
  <2> HIDE DEF os, W
  <2> QED  BY <2>1, <2>2, <2>3, <2>4
<1>4. q.price \in Nat
  BY DEF RequestType
<1> HIDE DEF W, os, ls, R
<1>5. /\ o \in OrderType(rules) /\ l \in EntryType /\ Agreed(o, l) /\ l.known
      /\ Remaining(o) = IF Vanishes(q) THEN 0 ELSE q.quantity - filled
      /\ o.request = q /\ o.filled = filled
  BY <1>1, NewcomerIs DEF Executing
<1>6. Gives(g, os, R, q.side, q.price, q.quantity) /\ ids \subseteq InBook(R)
  BY <1>2, GivenByIs DEF Reached, R
<1>7. Accounts(rules, Dealt(os, g), Dealt(ls, g), S, rested)
  BY <1>2, <1>6, TradeKeeps
<1>8. /\ Balance(Dealt(os, g)) = Balance(os) + OfQuantity!Total(Gained(os, g), 1 .. Len(os))
      /\ Balance(os) \in Int
  <2>1. os \in Seq(OrderType(rules)) /\ Dealt(os, g) \in Seq(OrderType(rules))
    BY <1>2, <1>7 DEF Accounts
  <2>2. \A i \in 1 .. Len(os) : /\ g[i] \in Int
                                /\ Filled(os[i], g[i]).filled = os[i].filled + g[i]
                                /\ Filled(os[i], g[i]).request = os[i].request
    <3> TAKE i \in 1 .. Len(os)
    <3>1. FilledWell(rules, os[i], ls[i], g[i]) /\ g[i] \in Nat
      BY <1>2, <1>6, DealtIs
    <3> QED  BY <3>1 DEF FilledWell
  <2> HIDE DEF g
  <2> QED  BY <2>1, <2>2, DealtBalances, BalanceInt
<1>9. OfQuantity!Total(Gained(os, g), 1 .. Len(os)) = -t /\ t \in Int
  <2>1. {i \in ids : os[i].request.account = Player}
          = {i \in ids : orders[i].request.account = Player}
    <3>1. \A i \in ids : i \in 1 .. Len(orders)
      BY <1>2, <1>3, <1>6, InBookIs
    <3> HIDE DEF ids
    <3> QED  BY <1>3, <3>1
  <2>2. LET P == {i \in ids : os[i].request.account = Player}
        IN /\ OfQuantity!Total(Gained(os, g), 1 .. Len(os))
                = -SignedBuy(q.side, TakenFrom(R, q, P))
           /\ SignedBuy(q.side, TakenFrom(R, q, P)) \in Int
    BY <1>2, MakersEarn DEF Reached, R
  <2> HIDE DEF ids, g
  <2> QED  BY <2>1, <2>2
<1> HIDE DEF t, g, S, o, l, ids, filled
<1>10. /\ Len(Dealt(os, g)) = Len(orders)
       /\ Dealt(os, g) \in Seq(OrderType(rules))
  <2>1. /\ Len(Dealt(os, g)) \in Nat /\ DOMAIN Dealt(os, g) = 1 .. Len(Dealt(os, g))
    BY <1>7, AccountsAre
  <2>2. Len(orders) \in Nat /\ DOMAIN Dealt(os, g) = 1 .. Len(orders)
    BY <1>3, BooksAre DEF Dealt
  <2> QED  BY <1>7, <2>1, <2>2 DEF Accounts
<1>11. (l.known /\ Remaining(o) > 0) <=> (q.quantity - filled > 0 /\ ~Vanishes(q))
  BY <1>1, <1>2, <1>5
<1>12. rested \in Nat /\ m \in Nat /\ m >= rested
  BY BooksAre
<1>13. IF l.known /\ Remaining(o) > 0
       THEN /\ rest \in RestingType
            /\ rest.id = Len(Dealt(os, g)) + 1 /\ rest.quantity = Remaining(o)
            /\ rest.side = o.request.side /\ rest.price = o.request.price
            /\ rest.arrival = m /\ m > rested
       ELSE TRUE
  <2> SUFFICES ASSUME q.quantity - filled > 0, ~Vanishes(q)
               PROVE  /\ rest \in RestingType
                      /\ rest.id = Len(Dealt(os, g)) + 1 /\ rest.quantity = Remaining(o)
                      /\ rest.side = o.request.side /\ rest.price = o.request.price
                      /\ rest.arrival = m /\ m > rested
    BY <1>11
  <2>1. q.price # 0
    BY DEF Vanishes
  <2>2. m = rested + 1
    BY <2>1
  <2>3. rest \in RestingType
    <3>1. q.quantity - filled \in Nat \ {0} /\ rested + 1 \in Nat /\ Len(orders) + 1 \in Nat
      BY <1>1, <1>2, <1>12, BooksAre
    <3> QED  BY <1>2, <1>4, <2>1, <3>1 DEF RestingType
  <2> QED  BY <1>5, <1>10, <1>12, <2>2, <2>3
<1>14. Accounts(rules, Append(Dealt(os, g), o), Append(Dealt(ls, g), l),
                S \cup IF l.known /\ Remaining(o) > 0 THEN {rest} ELSE {}, m)
  <2> HIDE DEF m, rest
  <2> QED  BY <1>5, <1>7, <1>12, <1>13, ArrivalKeeps
<1>15. Books'
  <2>1. book' = S \cup IF l.known /\ Remaining(o) > 0 THEN {rest} ELSE {}
    BY <1>1, <1>11
  <2> HIDE DEF m, rest
  <2> QED  BY <1>1, <1>14, <2>1 DEF Books
<1>16. position' = Balance(orders')
  <2>1. Balance(orders') = Balance(Dealt(os, g)) + Earned(o)
    BY <1>1, <1>5, <1>10, BalanceAppend
  <2>2. Earned(o) = IF q.account = Player THEN SignedBuy(q.side, filled) ELSE 0
    BY <1>5 DEF Earned
  <2>3. Earned(o) \in Int
    BY <1>5, EarnedInt
  <2> DEFINE b == Balance(os)
             e == Earned(o)
  <2>4. Balance(orders') = (b + (-t)) + e /\ b \in Int /\ e \in Int /\ t \in Int
    BY <1>8, <1>9, <2>1, <2>3
  <2>5. position' = b + e - t
    BY <1>1, <1>2, <2>2
  <2> HIDE DEF b, e
  <2> QED  BY <2>4, <2>5
<1> QED  BY <1>15, <1>16

LEMMA SubmitStep ==
  ASSUME Books, position = Balance(orders), rules' = rules,
         NEW q \in RequestType(rules), Submit(q)
  PROVE  Books' /\ position' = Balance(orders')
<1>1. CASE ~SubmitExecuted(q)
  <2>1. PICK o, W, E : /\ Arrival(o, W, E)
                       /\ o = Rejected(q) \/ (o = Managed(q) /\ q.auction /\ Valid(q))
    BY <1>1, ArrivalIs
  <2> QED  BY <2>1, ArrivalStep
<1>2. CASE SubmitExecuted(q)
  BY <1>2, ExecutedStep
<1> QED  BY <1>1, <1>2

-----------------------------------------------------------------------------
(* Cancellation, replacement, and the turns of a cross *)

\* The order o of which k more has been cancelled.
Reduced(o, k) == [o EXCEPT !.cancelled = @ + k]

LEMMA ReducedOrder ==
  ASSUME NEW r, NEW o \in OrderType(r), NEW l \in EntryType, Agreed(o, l), l.known,
         NEW k \in Nat, k < Remaining(o)
  PROVE  /\ Reduced(o, k) \in OrderType(r)
         /\ Reduced(o, k).request = o.request /\ Reduced(o, k).filled = o.filled
         /\ Remaining(Reduced(o, k)) = Remaining(o) - k
         /\ Agreed(Reduced(o, k), Closed(l, k))
         /\ Synced(o, Closed(l, k)) = Reduced(o, k)
<1> DEFINE p == Reduced(o, k)
           m == Closed(l, k)
<1>1. /\ o.filled \in Nat /\ o.cancelled \in Nat /\ o.expired \in Nat
      /\ o.request.quantity \in Nat /\ Remaining(o) \in Int
      /\ Remaining(o) = o.request.quantity - o.filled - o.cancelled - o.expired
  BY OrderIs
<1>2. /\ o.filled = l.filled /\ o.cancelled + o.expired = l.cancelled /\ ~l.expired
      /\ ~o.rejected /\ ~o.request.auction
  BY <1>1 DEF Agreed
<1>3. /\ p \in OrderType(r) /\ p.request = o.request /\ p.filled = o.filled
      /\ p.rejected = o.rejected /\ p.expired = o.expired
      /\ p.cancelled = o.cancelled + k
  BY <1>1 DEF Reduced, OrderType
<1>4. /\ m \in EntryType /\ m.known = l.known /\ m.filled = l.filled
      /\ m.expired = l.expired /\ m.cancelled = l.cancelled + k /\ l.cancelled \in Nat
  BY EntryIs
<1> HIDE DEF m
<1>5. Synced(o, m) = p
  <2>1. m.cancelled - o.expired = o.cancelled + k
    BY <1>1, <1>2, <1>4
  <2>2. Synced(o, m) = [o EXCEPT !.filled = o.filled, !.cancelled = o.cancelled + k,
                                 !.expired = o.expired]
    BY <1>2, <1>4, <2>1 DEF Synced
  <2> QED  BY <2>2 DEF OrderType, Reduced
<1> HIDE DEF p
<1>6. Remaining(p) = Remaining(o) - k
  BY <1>1, <1>3 DEF Remaining
<1>7. Agreed(p, m)
  <2>1. p.cancelled + p.expired = m.cancelled /\ Remaining(p) >= 0
    BY <1>1, <1>2, <1>3, <1>4, <1>6
  <2> QED  BY <1>2, <1>3, <1>4, <2>1 DEF Agreed
<1> QED  BY <1>3, <1>5, <1>6, <1>7 DEF p, m

\* The books os, ls, bk become ot, lt when k of what is left of i is cancelled.
Reduction(r, os, ls, bk, n, i, k, ot, lt) ==
  /\ Accounts(r, os, ls, bk, n)
  /\ i \in InBook(bk) /\ k \in Nat /\ k < Remaining(os[i])
  /\ ot \in [1 .. Len(os) -> OrderType(r)] /\ lt \in [1 .. Len(os) -> EntryType]
  /\ \A j \in 1 .. Len(os) : j # i => ot[j] = os[j] /\ lt[j] = ls[j]
  /\ ot[i] = Reduced(os[i], k) /\ lt[i] = Closed(ls[i], k)

\* The order i has k of what is left of it cancelled, and keeps its place.
LEMMA ReductionKeeps ==
  ASSUME NEW r, NEW os, NEW ls, NEW bk, NEW n, NEW i, NEW k, NEW ot, NEW lt,
         Reduction(r, os, ls, bk, n, i, k, ot, lt)
  PROVE  Accounts(r, ot, lt,
                  {IF x.id = i THEN [x EXCEPT !.quantity = Remaining(os[i]) - k] ELSE x : x \in bk}, n)
<1>a. /\ Accounts(r, os, ls, bk, n)
      /\ i \in InBook(bk) /\ k \in Nat /\ k < Remaining(os[i])
  BY DEF Reduction
<1>b. /\ ot \in [1 .. Len(os) -> OrderType(r)] /\ lt \in [1 .. Len(os) -> EntryType]
      /\ \A j \in 1 .. Len(os) : j # i => ot[j] = os[j] /\ lt[j] = ls[j]
      /\ ot[i] = Reduced(os[i], k) /\ lt[i] = Closed(ls[i], k)
  BY DEF Reduction
<1> DEFINE v == Remaining(os[i]) - k
           N == [x \in bk |-> IF x.id = i THEN [x EXCEPT !.quantity = v] ELSE x]
           bt == {N[x] : x \in bk}
<1>1. /\ os[i] \in OrderType(r) /\ ls[i] \in EntryType /\ Agreed(os[i], ls[i])
      /\ Remaining(os[i]) \in Nat /\ i \in 1 .. Len(os)
      /\ ls[i].known /\ Remaining(os[i]) > 0 /\ ~ls[i].expired
  BY <1>a, AccountsAre, InBookIs
<1>2. Len(os) \in Nat /\ n \in Nat
  BY <1>a, AccountsAre
<1>3. v \in Nat \ {0}
  BY <1>1, <1>a
<1>4. /\ ot[i].request = os[i].request /\ Remaining(ot[i]) = Remaining(os[i]) - k
      /\ Agreed(ot[i], lt[i])
  BY <1>1, <1>a, <1>b, ReducedOrder
<1>5. Remaining(ot[i]) = v
  BY <1>4
<1>6. lt[i].known = ls[i].known
  <2>1. Closed(ls[i], k).known = ls[i].known
    BY <1>1, <1>a, EntryIs
  <2> QED  BY <1>b, <2>1
<1>7. Agreed(ot[i], lt[i])
  BY <1>4
<1> HIDE DEF v
<1>8. \A j \in 1 .. Len(os) :
        /\ Agreed(ot[j], lt[j]) /\ ot[j].request = os[j].request /\ lt[j].known = ls[j].known
        /\ j # i => Remaining(ot[j]) = Remaining(os[j])
  BY <1>4, <1>6, <1>7, <1>a, <1>b, AccountsAre
<1>9. /\ ot \in Seq(OrderType(r)) /\ lt \in Seq(EntryType)
      /\ Len(ot) = Len(os) /\ Len(lt) = Len(os)
  BY <1>2, <1>b, ListOf
<1>10. /\ IsFiniteSet(bk) /\ bk \subseteq RestingType
       /\ \A x \in bk : RestsOf(x, os, ls) /\ x.arrival <= n
       /\ \A x, y \in bk : x.id = y.id \/ x.arrival = y.arrival => x = y
       /\ \A j \in 1 .. Len(os) :
            ls[j].known /\ Remaining(os[j]) > 0 => \E x \in bk : x.id = j
  BY <1>a DEF Accounts
<1>11. \A x \in bk : /\ N[x] \in RestingType /\ N[x].id = x.id /\ N[x].arrival = x.arrival
                     /\ N[x].side = x.side /\ N[x].price = x.price
                     /\ N[x].quantity = IF x.id = i THEN v ELSE x.quantity
  <2> TAKE x \in bk
  <2>1. x \in RestingType
    BY <1>10
  <2>2. CASE x.id = i
    BY <1>3, <2>1, <2>2 DEF RestingType
  <2>3. CASE x.id # i
    BY <2>1, <2>3
  <2> QED  BY <2>2, <2>3
<1>12. IsFiniteSet(bt)
  <2> HIDE DEF N
  <2> QED  BY <1>10, FiniteImage
<1> HIDE DEF N
<1>13. \A x \in bk : RestsOf(N[x], ot, lt)
  <2> TAKE x \in bk
  <2>1. /\ x.id \in 1 .. Len(os) /\ ls[x.id].known /\ x.quantity = Remaining(os[x.id])
        /\ x.side = os[x.id].request.side /\ x.price = os[x.id].request.price
    BY <1>10 DEF RestsOf
  <2>2. /\ lt[x.id].known /\ ot[x.id].request = os[x.id].request
        /\ Remaining(ot[x.id]) = IF x.id = i THEN v ELSE x.quantity
    BY <1>5, <1>8, <2>1
  <2> QED  BY <1>9, <1>11, <2>1, <2>2 DEF RestsOf
<1>14. /\ bt \subseteq RestingType
       /\ \A x \in bt : RestsOf(x, ot, lt) /\ x.arrival <= n
       /\ \A x, y \in bt : x.id = y.id \/ x.arrival = y.arrival => x = y
  BY <1>10, <1>11, <1>13
<1>15. \A j \in 1 .. Len(ot) : lt[j].known /\ Remaining(ot[j]) > 0 => \E x \in bt : x.id = j
  <2> TAKE j \in 1 .. Len(ot)
  <2>1. lt[j].known /\ Remaining(ot[j]) > 0 => \E x \in bk : x.id = j
    BY <1>1, <1>8, <1>9, <1>10
  <2> QED  BY <1>11, <2>1
<1>16. bt = {IF x.id = i THEN [x EXCEPT !.quantity = Remaining(os[i]) - k] ELSE x : x \in bk}
  BY DEF N, v
<1> HIDE DEF bt
<1>17. Accounts(r, ot, lt, bt, n)
  BY <1>2, <1>8, <1>9, <1>12, <1>14, <1>15 DEF Accounts
<1> QED  BY <1>16, <1>17

\* Orders the book does not know change, and ask for what they did.
LEMMA AuctionKeeps ==
  ASSUME NEW r, NEW os, NEW ls, NEW bk, NEW n, Accounts(r, os, ls, bk, n),
         NEW ot \in [1 .. Len(os) -> OrderType(r)],
         \A i \in 1 .. Len(os) :
           \/ ot[i] = os[i]
           \/ /\ ~ls[i].known /\ ot[i].request = os[i].request
              /\ ot[i].rejected = os[i].rejected /\ Remaining(ot[i]) >= 0
              /\ os[i].rejected => ot[i].filled = 0
  PROVE  Accounts(r, ot, ls, bk, n)
<1>1. Len(os) \in Nat /\ Len(ls) = Len(os) /\ n \in Nat
  BY AccountsAre
<1>2. ot \in Seq(OrderType(r)) /\ Len(ot) = Len(os)
  BY <1>1, ListOf
<1>3. ASSUME NEW i \in 1 .. Len(os)
      PROVE  Agreed(ot[i], ls[i]) /\ (ls[i].known => ot[i] = os[i])
  <2>1. Agreed(os[i], ls[i])
    BY AccountsAre
  <2> QED  BY <2>1 DEF Agreed
<1>4. \A x \in bk : RestsOf(x, ot, ls) /\ x.arrival <= n
  <2> TAKE x \in bk
  <2>1. RestsOf(x, os, ls) /\ x.arrival <= n
    BY DEF Accounts
  <2> QED  BY <1>2, <1>3, <2>1 DEF RestsOf
<1>5. \A i \in 1 .. Len(ot) : ls[i].known /\ Remaining(ot[i]) > 0 => \E x \in bk : x.id = i
  BY <1>2, <1>3 DEF Accounts
<1>6. /\ IsFiniteSet(bk) /\ bk \subseteq RestingType /\ ls \in Seq(EntryType)
      /\ \A x, y \in bk : x.id = y.id \/ x.arrival = y.arrival => x = y
  BY DEF Accounts
<1> QED  BY <1>1, <1>2, <1>3, <1>4, <1>5, <1>6 DEF Accounts

\* Auction orders are cancelled.
LEMMA AuctionWithdraws ==
  ASSUME Books, position = Balance(orders), rules' = rules,
         UNCHANGED <<ledger, book, rested, position>>,
         NEW S \in SUBSET LiveInAuction,
         orders' = [i \in 1 .. Len(orders) |-> IF i \in S THEN Withdrawn(orders[i]) ELSE orders[i]]
  PROVE  Books' /\ position' = Balance(orders')
<1>1. \A i \in 1 .. Len(orders) :
        /\ orders[i] \in OrderType(rules) /\ Remaining(orders[i]) \in Nat
        /\ orders[i].rejected => orders[i].filled = 0
        /\ i \in S => ~ledger[i].known
  BY BooksAre, InBookIs DEF Books, Agreed
<1>2. \A i \in 1 .. Len(orders) :
        /\ Withdrawn(orders[i]) \in OrderType(rules)
        /\ Remaining(Withdrawn(orders[i])) = 0
        /\ Withdrawn(orders[i]).request = orders[i].request
        /\ Withdrawn(orders[i]).filled = orders[i].filled
        /\ Withdrawn(orders[i]).rejected = orders[i].rejected
  BY <1>1, ClosedOrder
<1>3. orders' \in [1 .. Len(orders) -> OrderType(rules)]
  BY <1>1, <1>2
<1>4. \A i \in 1 .. Len(orders) :
        \/ orders'[i] = orders[i]
        \/ /\ ~ledger[i].known /\ orders'[i].request = orders[i].request
           /\ orders'[i].rejected = orders[i].rejected /\ Remaining(orders'[i]) >= 0
           /\ orders[i].rejected => orders'[i].filled = 0
  BY <1>1, <1>2
<1>5. \A i \in 1 .. Len(orders) : Earned(orders'[i]) = Earned(orders[i])
  BY <1>2 DEF Earned
<1>6. Accounts(rules, orders', ledger, book, rested)
  <2> DEFINE ot == orders'
  <2>1. /\ ot \in [1 .. Len(orders) -> OrderType(rules)]
        /\ \A i \in 1 .. Len(orders) :
             \/ ot[i] = orders[i]
             \/ /\ ~ledger[i].known /\ ot[i].request = orders[i].request
                /\ ot[i].rejected = orders[i].rejected /\ Remaining(ot[i]) >= 0
                /\ orders[i].rejected => ot[i].filled = 0
    BY <1>3, <1>4
  <2> HIDE DEF ot
  <2>2. Accounts(rules, ot, ledger, book, rested)
    BY <2>1, AuctionKeeps DEF Books
  <2> QED  BY <2>2 DEF ot
<1>7. Balance(orders') = Balance(orders)
  <2> DEFINE ot == orders'
  <2>1. ot \in Seq(OrderType(rules)) /\ orders \in Seq(OrderType(rules))
    BY <1>6 DEF Books, Accounts
  <2>2. Len(ot) = Len(orders)
    BY <1>3, BooksAre, ListOf
  <2>3. \A i \in 1 .. Len(orders) : Earned(ot[i]) = Earned(orders[i])
    BY <1>5
  <2> HIDE DEF ot
  <2>4. Balance(ot) = Balance(orders)
    BY <2>1, <2>2, <2>3, BalanceSame
  <2> QED  BY <2>4 DEF ot
<1> QED  BY <1>6, <1>7 DEF Books

LEMMA ShrinkStep ==
  ASSUME Books, position = Balance(orders), rules' = rules,
         UNCHANGED <<rested, position>>,
         NEW i \in LiveInBook, NEW total \in Int, NEW price,
         total > ledger[i].filled, Shrink(i, total, price)
  PROVE  /\ Books' /\ position' = Balance(orders')
         /\ DOMAIN orders' = 1 .. Len(orders)
         /\ \A j \in 1 .. Len(orders) :
              /\ orders'[j].request = orders[j].request
              /\ orders'[j].filled = orders[j].filled
              /\ orders'[j].expired = orders[j].expired
              /\ j # i => orders'[j] = orders[j]
         /\ book' = {IF x.id = i THEN [x EXCEPT !.quantity = total - ledger[i].filled]
                     ELSE x : x \in book}
<1> DEFINE left == total - ledger[i].filled
           k == Remaining(orders[i]) - left
           L == [ledger EXCEPT ![i].cancelled = @ + Remaining(orders[i]) - left]
<1>1. /\ total < ledger[i].filled + Remaining(orders[i])
      /\ ledger' = L
      /\ orders' = [j \in DOMAIN orders |-> Synced(orders[j], L[j])]
      /\ book' = {IF x.id = i THEN [x EXCEPT !.quantity = left] ELSE x : x \in book}
  BY DEF Shrink, KeepsPlace
<1>2. /\ i \in InBook(book) /\ i \in 1 .. Len(orders) /\ ledger[i].known
  BY BooksAre, InBookIs DEF Books
<1>3. /\ \A j \in 1 .. Len(orders) :
           /\ orders[j] \in OrderType(rules) /\ ledger[j] \in EntryType
           /\ Agreed(orders[j], ledger[j]) /\ Remaining(orders[j]) \in Nat
      /\ DOMAIN orders = 1 .. Len(orders) /\ DOMAIN ledger = 1 .. Len(orders)
      /\ ledger \in [1 .. Len(orders) -> EntryType]
  BY BooksAre, AccountsAre DEF Books
<1>4. ledger[i].filled \in Nat /\ ledger[i].cancelled \in Nat
  BY <1>2, <1>3, EntryIs
<1>5. /\ k \in Nat /\ k < Remaining(orders[i]) /\ Remaining(orders[i]) - k = left
      /\ ledger[i].cancelled + Remaining(orders[i]) - left = ledger[i].cancelled + k
  <2> DEFINE R == Remaining(orders[i])
             f == ledger[i].filled
             c == ledger[i].cancelled
  <2>1. R \in Nat /\ f \in Nat /\ c \in Nat
    BY <1>2, <1>3, <1>4
  <2>2. total \in Int /\ total > f /\ total < f + R /\ left = total - f /\ k = R - left
    BY <1>1
  <2> HIDE DEF R, f, c, left, k
  <2>3. k \in Nat /\ k < R /\ R - k = left /\ c + R - left = c + k
    BY <2>1, <2>2
  <2> QED  BY <2>3 DEF R, c
<1>6. /\ L[i] = Closed(ledger[i], k)
      /\ \A j \in 1 .. Len(orders) : j # i => L[j] = ledger[j]
      /\ DOMAIN L = 1 .. Len(orders)
  <2>1. L[i] = [ledger[i] EXCEPT !.cancelled = ledger[i].cancelled + Remaining(orders[i]) - left]
    BY <1>2, <1>3
  <2>2. L[i] = [ledger[i] EXCEPT !.cancelled = ledger[i].cancelled + k]
    BY <1>5, <2>1
  <2> QED  BY <1>3, <2>2 DEF Closed
<1>7. L \in [1 .. Len(orders) -> EntryType]
  <2>1. Closed(ledger[i], k) \in EntryType
    BY <1>2, <1>3, <1>5, EntryIs
  <2>2. \A j \in 1 .. Len(orders) : L[j] \in EntryType
    BY <1>3, <1>6, <2>1
  <2>3. L = [j \in 1 .. Len(orders) |-> L[j]]
    BY <1>3
  <2> HIDE DEF L
  <2> QED  BY <2>2, <2>3
<1> HIDE DEF L, k, left
<1>8. /\ Synced(orders[i], L[i]) = Reduced(orders[i], k)
      /\ Reduced(orders[i], k) \in OrderType(rules)
      /\ Reduced(orders[i], k).request = orders[i].request
      /\ Reduced(orders[i], k).filled = orders[i].filled
  BY <1>2, <1>3, <1>5, <1>6, ReducedOrder
<1>9. \A j \in 1 .. Len(orders) : j # i => Synced(orders[j], L[j]) = orders[j]
  BY <1>3, <1>6, SyncedIsSame
<1> DEFINE ot == [j \in DOMAIN orders |-> Synced(orders[j], L[j])]
<1>10. /\ ot \in [1 .. Len(orders) -> OrderType(rules)]
       /\ ot[i] = Reduced(orders[i], k)
       /\ \A j \in 1 .. Len(orders) : j # i => ot[j] = orders[j]
  BY <1>2, <1>3, <1>8, <1>9
<1>11. orders' = ot
  BY <1>1
<1> HIDE DEF ot
<1>12. Accounts(rules, ot, L,
         {IF x.id = i THEN [x EXCEPT !.quantity = Remaining(orders[i]) - k] ELSE x : x \in book},
         rested)
  <2>1. \A j \in 1 .. Len(orders) : j # i => ot[j] = orders[j] /\ L[j] = ledger[j]
    BY <1>6, <1>10
  <2>2. Accounts(rules, orders, ledger, book, rested)
    BY DEF Books
  <2>3. k \in Nat /\ k < Remaining(orders[i]) /\ i \in InBook(book)
    BY <1>2, <1>5
  <2>4. ot[i] = Reduced(orders[i], k) /\ L[i] = Closed(ledger[i], k)
    BY <1>6, <1>10
  <2>5. ot \in [1 .. Len(orders) -> OrderType(rules)] /\ L \in [1 .. Len(orders) -> EntryType]
    BY <1>7, <1>10
  <2>6. Reduction(rules, orders, ledger, book, rested, i, k, ot, L)
    BY <2>1, <2>2, <2>3, <2>4, <2>5 DEF Reduction
  <2> QED  BY <2>6, ReductionKeeps
<1>13. Accounts(rules, ot, L, book', rested)
  BY <1>1, <1>5, <1>12
<1>14. Books'
  BY <1>1, <1>11, <1>13 DEF Books
<1>15. \A j \in 1 .. Len(orders) :
              /\ ot[j].request = orders[j].request
              /\ ot[j].filled = orders[j].filled
              /\ ot[j].expired = orders[j].expired
  <2>1. Reduced(orders[i], k).expired = orders[i].expired
    BY <1>2, <1>3 DEF Reduced, OrderType
  <2> QED  BY <1>8, <1>10, <2>1
<1>16. Balance(ot) = Balance(orders)
  <2>1. ot \in Seq(OrderType(rules)) /\ orders \in Seq(OrderType(rules))
    BY <1>13 DEF Books, Accounts
  <2>2. Len(ot) = Len(orders)
    BY <1>10, BooksAre, ListOf
  <2>3. \A j \in 1 .. Len(orders) : Earned(ot[j]) = Earned(orders[j])
    BY <1>15 DEF Earned
  <2> QED  BY <2>1, <2>2, <2>3, BalanceSame
<1>17. position' = Balance(orders')
  BY <1>11, <1>16
<1>18. DOMAIN orders' = 1 .. Len(orders)
  BY <1>10, <1>11
<1>19. book' = {IF x.id = i THEN [x EXCEPT !.quantity = total - ledger[i].filled]
                ELSE x : x \in book}
  BY <1>1 DEF left
<1> QED  BY <1>10, <1>11, <1>14, <1>15, <1>17, <1>18, <1>19

LEMMA FilledOrder ==
  ASSUME NEW r, NEW o \in OrderType(r), NEW n \in Nat
  PROVE  /\ Filled(o, n) \in OrderType(r) /\ Filled(o, n).filled = o.filled + n
         /\ Filled(o, n).request = o.request /\ Filled(o, n).rejected = o.rejected
         /\ Filled(o, n).cancelled = o.cancelled /\ Filled(o, n).expired = o.expired
         /\ Remaining(Filled(o, n)) = Remaining(o) - n
         /\ n = 0 => Filled(o, n) = o
<1>1. /\ o.filled \in Nat /\ o.cancelled \in Nat /\ o.expired \in Nat
      /\ o.request.quantity \in Nat
      /\ Remaining(o) = o.request.quantity - o.filled - o.cancelled - o.expired
  BY OrderIs
<1>2. /\ Filled(o, n) \in OrderType(r) /\ Filled(o, n).filled = o.filled + n
      /\ Filled(o, n).request = o.request /\ Filled(o, n).rejected = o.rejected
      /\ Filled(o, n).cancelled = o.cancelled /\ Filled(o, n).expired = o.expired
  BY <1>1 DEF Filled, OrderType
<1>3. Remaining(Filled(o, n)) = Remaining(o) - n
  <2> DEFINE p == Filled(o, n)
  <2>1. /\ p.filled = o.filled + n /\ p.request = o.request
        /\ p.cancelled = o.cancelled /\ p.expired = o.expired
    BY <1>2
  <2>2. Remaining(p) = p.request.quantity - p.filled - p.cancelled - p.expired
    BY DEF Remaining
  <2> HIDE DEF p
  <2>3. Remaining(p) = o.request.quantity - (o.filled + n) - o.cancelled - o.expired
    BY <2>1, <2>2
  <2>4. Remaining(p) = Remaining(o) - n
    BY <1>1, <2>3
  <2> QED  BY <2>4 DEF p
<1>4. n = 0 => Filled(o, n) = o
  <2> SUFFICES ASSUME n = 0 PROVE Filled(o, n) = o
    OBVIOUS
  <2>1. o.filled + n = o.filled
    BY <1>1
  <2>2. Filled(o, n) = [o EXCEPT !.filled = o.filled]
    BY <2>1 DEF Filled
  <2> QED  BY <2>2 DEF OrderType
<1> QED  BY <1>2, <1>3, <1>4

\* buy and sell have traded quantity in an auction.
Crosses(buy, sell, quantity) ==
  /\ DOMAIN orders' = 1 .. Len(orders) /\ book' = book
  /\ buy \in LiveInAuction /\ sell \in LiveInAuction /\ quantity \in Nat \ {0}
  /\ quantity = Least(Remaining(orders[buy]), Remaining(orders[sell]))
  /\ orders[buy].request.side = "BUY" /\ orders[sell].request.side = "SELL"
  /\ \A i \in 1 .. Len(orders) :
       /\ orders'[i].request = orders[i].request
       /\ orders'[i].rejected = orders[i].rejected
       /\ orders'[i].expired = orders[i].expired
       /\ orders'[i].cancelled = orders[i].cancelled
       /\ orders'[i].filled = orders[i].filled + IF i \in {buy, sell} THEN quantity ELSE 0
       /\ Remaining(orders'[i]) = Remaining(orders[i]) -
            IF i \in {buy, sell} THEN quantity ELSE 0
       /\ i \notin {buy, sell} => orders'[i] = orders[i]

\* Two auction orders trade.
LEMMA CrossTradesStep ==
  ASSUME Books, position = Balance(orders), rules' = rules,
         UNCHANGED <<ledger, book, rested>>,
         NEW buy \in LiveInAuction, NEW sell \in LiveInAuction,
         orders[buy].request.side = "BUY", orders[sell].request.side = "SELL",
         NEW quantity, quantity = Least(Remaining(orders[buy]), Remaining(orders[sell])),
         orders' = [orders EXCEPT ![buy].filled = @ + quantity, ![sell].filled = @ + quantity],
         position' = position
             + (IF orders[buy].request.account = Player THEN quantity ELSE 0)
             - (IF orders[sell].request.account = Player THEN quantity ELSE 0)
  PROVE  /\ Books' /\ position' = Balance(orders')
         /\ Crosses(buy, sell, quantity)
<1> DEFINE g == [i \in 1 .. Len(orders) |-> IF i \in {buy, sell} THEN quantity ELSE 0]
           S == 1 .. Len(orders)
<1>1. /\ buy \in S /\ sell \in S /\ buy # sell
      /\ ~ledger[buy].known /\ ~ledger[sell].known
      /\ Remaining(orders[buy]) > 0 /\ Remaining(orders[sell]) > 0
      /\ ~orders[buy].rejected /\ ~orders[sell].rejected
  BY BooksAre, InBookIs DEF Books, Auctioned
<1>2. \A i \in S : orders[i] \in OrderType(rules) /\ Remaining(orders[i]) \in Nat
  BY BooksAre
<1>3. /\ quantity \in Nat \ {0} /\ quantity <= Remaining(orders[buy])
      /\ quantity <= Remaining(orders[sell])
  BY <1>1, <1>2 DEF Least
<1>4. ASSUME NEW i \in S
      PROVE  LET p == Filled(orders[i], g[i])
             IN /\ p \in OrderType(rules) /\ p.filled = orders[i].filled + g[i]
                /\ p.request = orders[i].request /\ p.rejected = orders[i].rejected
                /\ p.cancelled = orders[i].cancelled /\ p.expired = orders[i].expired
                /\ Remaining(p) = Remaining(orders[i]) - g[i]
                /\ Remaining(p) >= 0 /\ g[i] \in Nat
                /\ i \notin {buy, sell} => p = orders[i]
  <2>1. g[i] \in Nat /\ g[i] <= Remaining(orders[i]) /\ (i \notin {buy, sell} => g[i] = 0)
    BY <1>2, <1>3
  <2> HIDE DEF g
  <2>2. orders[i] \in OrderType(rules) /\ Remaining(orders[i]) \in Nat
    BY <1>2
  <2> DEFINE o == orders[i]
             n == g[i]
  <2>3. /\ o \in OrderType(rules) /\ Remaining(o) \in Nat /\ n \in Nat /\ n <= Remaining(o)
    BY <2>1, <2>2
  <2> HIDE DEF o, n
  <2>5. /\ Filled(o, n) \in OrderType(rules) /\ Filled(o, n).filled = o.filled + n
        /\ Filled(o, n).request = o.request /\ Filled(o, n).rejected = o.rejected
        /\ Filled(o, n).cancelled = o.cancelled /\ Filled(o, n).expired = o.expired
        /\ Remaining(Filled(o, n)) = Remaining(o) - n
        /\ n = 0 => Filled(o, n) = o
    BY <2>3, FilledOrder
  <2>8. Remaining(Filled(o, n)) >= 0
    BY <2>3, <2>5
  <2> QED  BY <2>1, <2>3, <2>5, <2>8 DEF o, n
<1>5. orders' = Dealt(orders, g)
  <2>1. [orders EXCEPT ![buy].filled = @ + quantity, ![sell].filled = @ + quantity]
          = [i \in S |-> IF i \in {buy, sell} THEN Filled(orders[i], quantity) ELSE orders[i]]
    <3>1. orders \in [S -> OrderType(rules)]
      BY AccountsAre DEF Books
    <3> QED  BY <1>1, <3>1 DEF Filled
  <2>2. \A i \in S : Filled(orders[i], g[i])
                       = IF i \in {buy, sell} THEN Filled(orders[i], quantity) ELSE orders[i]
    <3> TAKE i \in S
    <3>1. i \notin {buy, sell} => Filled(orders[i], g[i]) = orders[i]
      BY <1>4
    <3>2. i \in {buy, sell} => g[i] = quantity
      OBVIOUS
    <3> HIDE DEF g
    <3> QED  BY <3>1, <3>2
  <2> HIDE DEF g
  <2> QED  BY <2>1, <2>2 DEF Dealt
<1>6. \A i \in S : g[i] = IF i \in {buy, sell} THEN quantity ELSE 0
  OBVIOUS
<1> HIDE DEF g
<1> DEFINE ot == Dealt(orders, g)
<1>7. /\ ot \in [S -> OrderType(rules)]
      /\ \A i \in S : ot[i] = Filled(orders[i], g[i])
  BY <1>4, BooksAre DEF Dealt
<1>8. \A i \in S :
        \/ ot[i] = orders[i]
        \/ /\ ~ledger[i].known /\ ot[i].request = orders[i].request
           /\ ot[i].rejected = orders[i].rejected /\ Remaining(ot[i]) >= 0
           /\ orders[i].rejected => ot[i].filled = 0
  <2> TAKE i \in S
  <2>1. ot[i] = Filled(orders[i], g[i])
    BY <1>7
  <2> HIDE DEF ot
  <2>2. CASE i \notin {buy, sell}
    BY <1>4, <2>1, <2>2
  <2>3. CASE i \in {buy, sell}
    <3>1. /\ ot[i].request = orders[i].request /\ ot[i].rejected = orders[i].rejected
          /\ Remaining(ot[i]) >= 0
      BY <1>4, <2>1
    <3> QED  BY <1>1, <2>3, <3>1
  <2> QED  BY <2>2, <2>3
<1> HIDE DEF ot
<1>9. Accounts(rules, ot, ledger, book, rested)
  BY <1>7, <1>8, AuctionKeeps DEF Books
<1>10. Books'
  BY <1>5, <1>9 DEF Books, ot
<1> DEFINE v == Gained(orders, g)
<1>11. /\ Balance(ot) = Balance(orders) + OfQuantity!Total(v, S)
       /\ \A i \in S : v[i] \in Int
       /\ Balance(orders) \in Int
  <2>1. orders \in Seq(OrderType(rules)) /\ Dealt(orders, g) \in Seq(OrderType(rules))
    BY <1>9 DEF Books, Accounts, ot
  <2>2. \A i \in 1 .. Len(orders) : /\ g[i] \in Int
                                    /\ Filled(orders[i], g[i]).filled = orders[i].filled + g[i]
                                    /\ Filled(orders[i], g[i]).request = orders[i].request
    BY <1>4
  <2> HIDE DEF S
  <2>3. /\ Balance(Dealt(orders, g)) = Balance(orders) + OfQuantity!Total(Gained(orders, g), 1 .. Len(orders))
        /\ \A i \in 1 .. Len(orders) : Gained(orders, g)[i] \in Int
        /\ Balance(orders) \in Int
    BY <2>1, <2>2, DealtBalances, BalanceInt
  <2> QED  BY <2>3 DEF S, ot
<1>12. /\ v[buy] = IF orders[buy].request.account = Player THEN quantity ELSE 0
       /\ v[sell] = IF orders[sell].request.account = Player THEN -quantity ELSE 0
       /\ \A i \in S \ {buy, sell} : v[i] = 0
  <2>1. \A i \in S : v[i] = IF orders[i].request.account = Player
                            THEN SignedBuy(orders[i].request.side, g[i]) ELSE 0
    BY DEF Gained
  <2>2. \A i \in S \ {buy, sell} : v[i] = 0
    <3> TAKE i \in S \ {buy, sell}
    <3>1. g[i] = 0
      BY <1>6
    <3>2. SignedBuy(orders[i].request.side, 0) = 0
      <4>1. 0 \in Int
        OBVIOUS
      <4> QED  BY <4>1, SignedBuyIs
    <3>3. v[i] = IF orders[i].request.account = Player
                 THEN SignedBuy(orders[i].request.side, 0) ELSE 0
      <4>1. i \in S
        OBVIOUS
      <4> HIDE DEF v, S
      <4> QED  BY <2>1, <3>1, <4>1
    <3> QED  BY <3>2, <3>3
  <2>3. v[buy] = IF orders[buy].request.account = Player THEN quantity ELSE 0
    BY <1>1, <1>6, <2>1 DEF SignedBuy
  <2>4. v[sell] = IF orders[sell].request.account = Player THEN -quantity ELSE 0
    BY <1>1, <1>6, <2>1 DEF SignedBuy
  <2> QED  BY <2>2, <2>3, <2>4
<1> HIDE DEF v
<1>13. OfQuantity!Total(v, S) = v[buy] + v[sell]
  <2>1. IsFiniteSet(S)
    <3>1. Len(orders) \in Int /\ 1 \in Int
      BY BooksAre
    <3>2. IsFiniteSet(1 .. Len(orders))
      BY <3>1, FS_Interval
    <3> QED  BY <3>2
  <2> HIDE DEF S
  <2>2. OfQuantity!Total(v, S) = OfQuantity!Total(v, {buy, sell})
    <3>1. {buy, sell} \in SUBSET S
      BY <1>1
    <3> QED  BY <1>11, <1>12, <2>1, <3>1, SumFinite, OfQuantity!TotalWithin
  <2>3. IsFiniteSet({sell}) /\ IsFiniteSet({})
    BY FS_Singleton, FS_EmptySet
  <2>4. v[buy] \in Int /\ v[sell] \in Int
    BY <1>1, <1>11
  <2>5. OfQuantity!Total(v, {} \cup {sell}) = v[sell] + OfQuantity!Total(v, {})
    <3>1. sell \notin {} /\ \A y \in {} \cup {sell} : v[y] \in Int
      BY <2>4
    <3> QED  BY <2>3, <3>1, SumFinite, OfQuantity!TotalAdd
  <2>6. OfQuantity!Total(v, {sell} \cup {buy}) = v[buy] + OfQuantity!Total(v, {sell})
    <3>1. buy \notin {sell} /\ \A y \in {sell} \cup {buy} : v[y] \in Int
      BY <1>1, <2>4
    <3> QED  BY <2>3, <3>1, SumFinite, OfQuantity!TotalAdd
  <2>7. {} \cup {sell} = {sell} /\ {sell} \cup {buy} = {buy, sell}
    OBVIOUS
  <2>8. OfQuantity!Total(v, {}) = 0
    BY OfQuantity!TotalEmpty
  <2>9. OfQuantity!Total(v, {buy, sell}) = v[buy] + (v[sell] + 0)
    BY <2>5, <2>6, <2>7, <2>8
  <2> QED  BY <2>2, <2>4, <2>9
<1>14. position' = Balance(orders')
  <2>1. Balance(orders') = Balance(orders) + (v[buy] + v[sell])
    BY <1>5, <1>11, <1>13 DEF ot
  <2>2. position' = Balance(orders) + v[buy] + v[sell]
    BY <1>3, <1>11, <1>12
  <2>3. v[buy] \in Int /\ v[sell] \in Int /\ Balance(orders) \in Int
    BY <1>1, <1>11
  <2> QED  BY <2>1, <2>2, <2>3
<1>15. ASSUME NEW i \in 1 .. Len(orders)
       PROVE  /\ orders'[i].request = orders[i].request
              /\ orders'[i].rejected = orders[i].rejected
              /\ orders'[i].expired = orders[i].expired
              /\ orders'[i].cancelled = orders[i].cancelled
              /\ orders'[i].filled = orders[i].filled +
                   IF i \in {buy, sell} THEN quantity ELSE 0
              /\ Remaining(orders'[i]) = Remaining(orders[i]) -
                   IF i \in {buy, sell} THEN quantity ELSE 0
              /\ i \notin {buy, sell} => orders'[i] = orders[i]
  <2>1. orders'[i] = Filled(orders[i], g[i]) /\ g[i] = IF i \in {buy, sell} THEN quantity ELSE 0
    BY <1>5, <1>6, <1>7 DEF ot
  <2> QED  BY <1>4, <2>1
<1>16. DOMAIN orders' = 1 .. Len(orders)
  BY <1>5, <1>7 DEF ot
<1>17. book' = book /\ quantity = Least(Remaining(orders[buy]), Remaining(orders[sell]))
  OBVIOUS
<1>18. Crosses(buy, sell, quantity)
  BY <1>3, <1>15, <1>16, <1>17 DEF Crosses
<1> QED  BY <1>10, <1>14, <1>18

-----------------------------------------------------------------------------
(* What a call has under way *)

\* A list of live auction orders of one side, each of them once.
Lined(os, side, list) ==
  /\ list \in Seq(Auctioned(os))
  /\ \A j, k \in 1 .. Len(list) : list[j] = list[k] => j = k
  /\ \A k \in 1 .. Len(list) : os[list[k]].request.side = side

CallType(r) ==
  [kind : {"none"}]
  \cup [kind : {"replace"}, old : Nat, total : Int, request : RequestType(r)]
  \cup [kind : {"uncross"}, price : Nat, matched : Nat, executed : Nat,
        prevented : BOOLEAN, buys : Seq(Nat), sells : Seq(Nat)]

CallInv ==
  /\ call \in CallType(rules)
  /\ call.kind = "replace" => ~call.request.auction
  /\ call.kind = "uncross" => /\ Lined(orders, "BUY", call.buys)
                              /\ Lined(orders, "SELL", call.sells)

LEMMA UncrossIs ==
  ASSUME NEW r, NEW c \in CallType(r), c.kind = "uncross"
  PROVE  /\ c \in [kind : {"uncross"}, price : Nat, matched : Nat, executed : Nat,
                   prevented : BOOLEAN, buys : Seq(Nat), sells : Seq(Nat)]
         /\ c.price \in Nat /\ c.matched \in Nat /\ c.executed \in Nat
         /\ c.prevented \in BOOLEAN /\ c.buys \in Seq(Nat) /\ c.sells \in Seq(Nat)
  BY DEF CallType

LEMMA ReplaceIs ==
  ASSUME NEW r, NEW c \in CallType(r), c.kind = "replace"
  PROVE  c.request \in RequestType(r)
  BY DEF CallType

\* The heads of the two lists.
LEMMA HeadsAre ==
  ASSUME Books, CallInv, Crossing
  PROVE  /\ Head(call.buys) \in LiveInAuction /\ Head(call.sells) \in LiveInAuction
         /\ Head(call.buys) \in 1 .. Len(orders) /\ Head(call.sells) \in 1 .. Len(orders)
         /\ orders[Head(call.buys)].request.side = "BUY"
         /\ orders[Head(call.sells)].request.side = "SELL"
<1>1. /\ call.buys \in Seq(LiveInAuction) /\ call.sells \in Seq(LiveInAuction)
      /\ \A k \in 1 .. Len(call.buys) : orders[call.buys[k]].request.side = "BUY"
      /\ \A k \in 1 .. Len(call.sells) : orders[call.sells[k]].request.side = "SELL"
  BY BooksAre DEF CallInv, Lined, Crossing
<1>2. call.buys # <<>> /\ call.sells # <<>>
  BY DEF Crossing
<1>3. /\ Head(call.buys) = call.buys[1] /\ Head(call.buys) \in LiveInAuction
      /\ 1 \in 1 .. Len(call.buys)
  BY <1>1, <1>2, ListTail
<1>4. /\ Head(call.sells) = call.sells[1] /\ Head(call.sells) \in LiveInAuction
      /\ 1 \in 1 .. Len(call.sells)
  BY <1>1, <1>2, ListTail
<1>5. LiveInAuction \subseteq 1 .. Len(orders)
  BY BooksAre DEF LiveInAuction
<1> QED  BY <1>1, <1>3, <1>4, <1>5

LEMMA StillStep ==
  ASSUME Books, position = Balance(orders),
         UNCHANGED <<rules, orders, ledger, book, rested, position>>
  PROVE  Books' /\ position' = Balance(orders')
  BY DEF Books

LEMMA CancelStep ==
  ASSUME Books, position = Balance(orders), NEW i \in DOMAIN orders, Cancel(i)
  PROVE  Books' /\ position' = Balance(orders')
<1>1. UNCHANGED <<rules, rested, position>>
  BY DEF Cancel
<1>2. CASE i \in LiveInBook /\ Withdraw({i})
  <2>1. {i} \in SUBSET InBook(book)
    BY <1>2, BooksAre
  <2> QED  BY <1>1, <1>2, <2>1, DepartureStep
<1>3. CASE /\ i \in LiveInAuction /\ UNCHANGED <<ledger, book>>
           /\ orders' = [orders EXCEPT ![i].cancelled = @ + Remaining(orders[i])]
  <2>1. orders' = [j \in 1 .. Len(orders) |->
                     IF j \in {i} THEN Withdrawn(orders[j]) ELSE orders[j]]
    <3>1. orders \in [1 .. Len(orders) -> OrderType(rules)]
      BY AccountsAre DEF Books
    <3> QED  BY <1>3, <3>1 DEF Withdrawn
  <2>2. {i} \in SUBSET LiveInAuction
    BY <1>3
  <2> QED  BY <1>1, <1>3, <2>1, <2>2, AuctionWithdraws
<1>4. CASE UNCHANGED <<orders, ledger, book>>
  BY <1>1, <1>4, StillStep
<1> QED  BY <1>2, <1>3, <1>4 DEF Cancel

LEMMA StoppedAre ==
  ASSUME NEW buy \in Nat, NEW sell \in Nat
  PROVE  Stopped(buy, sell) \subseteq {buy, sell}
  BY DEF Stopped, Least

LEMMA CrossPreventsStep ==
  ASSUME Books, position = Balance(orders), CallInv, CrossPrevents
  PROVE  LET S == Stopped(Head(call.buys), Head(call.sells))
         IN /\ Books' /\ position' = Balance(orders')
            /\ S \in SUBSET LiveInAuction
            /\ S \subseteq {Head(call.buys), Head(call.sells)}
            /\ orders' = [i \in 1 .. Len(orders) |->
                            IF i \in S THEN Withdrawn(orders[i]) ELSE orders[i]]
<1> DEFINE S == Stopped(Head(call.buys), Head(call.sells))
<1>1. /\ Crossing
      /\ UNCHANGED <<rules, ledger, book, rested, position>>
      /\ orders' = [i \in DOMAIN orders |->
             IF i \in S
             THEN [orders[i] EXCEPT !.cancelled = @ + Remaining(orders[i])]
             ELSE orders[i]]
  BY DEF CrossPrevents
<1>2. /\ Head(call.buys) \in LiveInAuction /\ Head(call.sells) \in LiveInAuction
      /\ Head(call.buys) \in Nat /\ Head(call.sells) \in Nat
  BY <1>1, HeadsAre, BooksAre
<1>3. S \subseteq {Head(call.buys), Head(call.sells)}
  BY <1>2, StoppedAre
<1>4. S \in SUBSET LiveInAuction
  BY <1>2, <1>3
<1> HIDE DEF S
<1>5. orders' = [i \in 1 .. Len(orders) |->
                   IF i \in S THEN Withdrawn(orders[i]) ELSE orders[i]]
  BY <1>1, BooksAre DEF Withdrawn
<1>6. Books' /\ position' = Balance(orders')
  BY <1>1, <1>4, <1>5, AuctionWithdraws
<1> QED  BY <1>3, <1>4, <1>5, <1>6 DEF S

\* The list moves on, and keeps the live orders.
LEMMA OnwardKeeps ==
  ASSUME NEW os, NEW side, NEW list, Lined(os, side, list), list # <<>>,
         NEW ot, Len(ot) = Len(os),
         \A i \in 1 .. Len(os) : /\ ot[i].request = os[i].request
                                 /\ ot[i].rejected = os[i].rejected
                                 /\ os[i].request.side = side /\ i # Head(list)
                                      => ot[i] = os[i],
         Remaining(ot[Head(list)]) \in Nat
  PROVE  Lined(ot, side, IF Remaining(ot[Head(list)]) = 0 THEN Tail(list) ELSE list)
<1> DEFINE h == Head(list)
           n == Len(list)
<1>1. /\ list \in Seq(Auctioned(os)) /\ n \in Nat \ {0} /\ h = list[1]
      /\ Tail(list) \in Seq(Auctioned(os)) /\ Len(Tail(list)) = n - 1
      /\ \A k \in 1 .. n - 1 : Tail(list)[k] = list[k + 1]
  BY ListTail DEF Lined
<1>2. /\ \A j, k \in 1 .. n : list[j] = list[k] => j = k
      /\ \A k \in 1 .. n : os[list[k]].request.side = side
  BY DEF Lined
<1>3. \A k \in 1 .. n : list[k] \in Auctioned(os)
  BY <1>1, ListIs
<1>4. \A k \in 1 .. n : /\ ot[list[k]].request.side = side
                        /\ k # 1 \/ Remaining(ot[h]) # 0 => list[k] \in Auctioned(ot)
  <2> TAKE k \in 1 .. n
  <2>1. /\ list[k] \in 1 .. Len(os) /\ os[list[k]].request.auction
        /\ ~os[list[k]].rejected /\ Remaining(os[list[k]]) > 0
    BY <1>3 DEF Auctioned
  <2>2. ot[list[k]].request = os[list[k]].request /\ ot[list[k]].rejected = os[list[k]].rejected
    BY <2>1
  <2>3. k # 1 => list[k] # h
    BY <1>1, <1>2
  <2>4. k # 1 => ot[list[k]] = os[list[k]]
    BY <1>2, <2>1, <2>3
  <2>5. k = 1 /\ Remaining(ot[h]) # 0 => Remaining(ot[list[k]]) > 0
    BY <1>1
  <2>6. k # 1 \/ Remaining(ot[h]) # 0 => Remaining(ot[list[k]]) > 0
    BY <2>1, <2>4, <2>5
  <2> QED  BY <1>2, <2>1, <2>2, <2>6 DEF Auctioned
<1>5. CASE Remaining(ot[h]) = 0
  <2> DEFINE t == Tail(list)
  <2>1. \A k \in 1 .. n - 1 : /\ k + 1 \in 1 .. n /\ k + 1 # 1
                              /\ t[k] = list[k + 1]
    BY <1>1
  <2>2. \A k \in 1 .. n - 1 : t[k] \in Auctioned(ot) /\ ot[t[k]].request.side = side
    BY <1>4, <2>1
  <2>3. \A j, k \in 1 .. n - 1 : t[j] = t[k] => j = k
    <3> TAKE j, k \in 1 .. n - 1
    <3> HAVE t[j] = t[k]
    <3>1. j + 1 = k + 1
      BY <1>2, <2>1
    <3> QED  BY <1>1, <3>1
  <2>4. Len(t) = n - 1 /\ n - 1 \in Nat /\ t = [k \in 1 .. n - 1 |-> t[k]]
    BY <1>1, ListIs
  <2> HIDE DEF t, n
  <2>5. t \in [1 .. n - 1 -> Auctioned(ot)]
    BY <2>2, <2>4
  <2>6. t \in Seq(Auctioned(ot))
    BY <2>4, <2>5, ListOf
  <2> QED  BY <1>5, <2>2, <2>3, <2>4, <2>6, ZenonT(40) DEF Lined, t
<1>6. CASE Remaining(ot[h]) # 0
  <2>1. list = [k \in 1 .. n |-> list[k]] /\ n \in Nat
    BY <1>1, ListIs
  <2>2. list \in [1 .. n -> Auctioned(ot)]
    BY <1>4, <1>6, <2>1
  <2>3. list \in Seq(Auctioned(ot))
    BY <2>1, <2>2, ListOf
  <2> QED  BY <1>2, <1>4, <1>6, <2>3 DEF Lined
<1> QED  BY <1>5, <1>6

-----------------------------------------------------------------------------
(* Sorted lists *)

\* R is a strict total order of S.
Ranks(R, S) ==
  /\ \A x \in S : <<x, x>> \notin R
  /\ \A x, y, z \in S : <<x, y>> \in R /\ <<y, z>> \in R => <<x, z>> \in R
  /\ \A x, y \in S : x = y \/ <<x, y>> \in R \/ <<y, x>> \in R

LEMMA RanksPart ==
  ASSUME NEW R, NEW S, Ranks(R, S), NEW U \in SUBSET S
  PROVE  Ranks(R, U)
  BY DEF Ranks

\* A finite set that is not empty has a last element ...
LEMMA LastOf ==
  ASSUME NEW R, NEW S, IsFiniteSet(S), Ranks(R, S), S # {}
  PROVE  \E m \in S : \A x \in S \ {m} : <<x, m>> \in R
<1> DEFINE Has(U) == U = {} \/ \E m \in U : \A x \in U \ {m} : <<x, m>> \in R
           T == {U \in SUBSET S : Has(U)}
<1>1. {} \in T
  OBVIOUS
<1>2. ASSUME NEW U \in SUBSET S, NEW x \in S \ U, U \in T
      PROVE  U \cup {x} \in T
  <2>1. CASE U = {}
    <3>1. \A y \in {x} \ {x} : <<y, x>> \in R
      OBVIOUS
    <3>2. U \cup {x} = {x}
      BY <2>1
    <3>3. Has(U \cup {x})
      BY <3>1, <3>2
    <3> QED  BY <3>3
  <2>2. CASE U # {}
    <3>1. PICK m \in U : \A y \in U \ {m} : <<y, m>> \in R
      BY <1>2, <2>2
    <3>2. CASE <<m, x>> \in R
      <4>1. \A y \in U : <<y, x>> \in R
        BY <3>1, <3>2 DEF Ranks
      <4>2. Has(U \cup {x})
        BY <4>1
      <4> QED  BY <4>2
    <3>3. CASE <<m, x>> \notin R
      <4>1. <<x, m>> \in R
        BY <3>3 DEF Ranks
      <4>2. \A y \in (U \cup {x}) \ {m} : <<y, m>> \in R
        BY <3>1, <4>1
      <4>3. Has(U \cup {x})
        BY <4>2
      <4> QED  BY <4>3
    <3> QED  BY <3>2, <3>3
  <2> QED  BY <2>1, <2>2
<1> HIDE DEF T
<1>3. S \in T
  BY <1>1, <1>2, SumFinite, OfQuantity!GrowingSubsets
<1> QED  BY <1>3 DEF T

\* ... and can be listed in order.
Sorted(R, list) == \A j, k \in DOMAIN list : j < k => <<list[j], list[k]>> \in R

LEMMA ListExists ==
  ASSUME NEW R, NEW S, IsFiniteSet(S), Ranks(R, S)
  PROVE  \E list \in [1 .. Cardinality(S) -> S] : Sorted(R, list)
<1> DEFINE Has(U) == \E list \in [1 .. Cardinality(U) -> U] : Sorted(R, list)
           T == {U \in SUBSET S : ~Has(U)}
<1> SUFFICES ASSUME S \in T PROVE FALSE
  OBVIOUS
<1>1. PICK m \in T : \A y \in T : y \subseteq m => y = m
  <2>1. T \subseteq SUBSET S /\ T # {}
    OBVIOUS
  <2> HIDE DEF T
  <2> QED  BY <2>1, SumFinite, OfQuantity!SmallestSubset
<1>2. m \in SUBSET S /\ ~Has(m)
  OBVIOUS
<1>3. \A y \in SUBSET S : y \subseteq m /\ y # m => Has(y)
  BY <1>1
<1> HIDE DEF T
<1>4. IsFiniteSet(m) /\ Ranks(R, m)
  BY <1>2, FS_Subset, RanksPart
<1>5. CASE m = {}
  <2>1. Cardinality(m) = 0
    BY <1>5, FS_EmptySet
  <2>2. [k \in 1 .. 0 |-> k] \in [1 .. 0 -> m]
    OBVIOUS
  <2>3. Sorted(R, [k \in 1 .. 0 |-> k])
    BY DEF Sorted
  <2> QED  BY <1>2, <2>1, <2>2, <2>3
<1>6. CASE m # {}
  <2>1. PICK x \in m : \A y \in m \ {x} : <<y, x>> \in R
    BY <1>4, <1>6, LastOf
  <2> DEFINE u == m \ {x}
             n == Cardinality(u)
  <2>2. /\ IsFiniteSet(u) /\ n \in Nat /\ Cardinality(m) = n + 1
    <3>1. IsFiniteSet(u) /\ n = Cardinality(m) - 1
      BY <1>4, FS_RemoveElement
    <3>2. n \in Nat /\ Cardinality(m) \in Nat
      BY <1>4, <3>1, FS_CardinalityType
    <3> QED  BY <3>1, <3>2
  <2>3. Has(u)
    BY <1>2, <1>3
  <2>4. PICK l \in [1 .. n -> u] : Sorted(R, l)
    BY <2>3
  <2> DEFINE list == [k \in 1 .. n + 1 |-> IF k = n + 1 THEN x ELSE l[k]]
  <2> HIDE DEF n
  <2>5. list \in [1 .. n + 1 -> m]
    BY <2>2
  <2>6. Sorted(R, list)
    <3> SUFFICES ASSUME NEW j \in 1 .. n + 1, NEW k \in 1 .. n + 1, j < k
                 PROVE  <<list[j], list[k]>> \in R
      BY DEF Sorted
    <3>1. j \in 1 .. n /\ list[j] = l[j] /\ l[j] \in u
      BY <2>2
    <3>2. CASE k = n + 1
      BY <2>1, <3>1, <3>2
    <3>3. CASE k # n + 1
      <4>1. k \in 1 .. n /\ list[k] = l[k]
        BY <2>2, <3>3
      <4> QED  BY <2>4, <3>1, <4>1 DEF Sorted
    <3> QED  BY <3>2, <3>3
  <2> HIDE DEF list
  <2>7. Has(m)
    BY <2>2, <2>5, <2>6 DEF n
  <2> QED  BY <1>2, <2>7
<1> QED  BY <1>5, <1>6

\* A sorted list of all of a set names each element once.
Enumerates(list, S) ==
  /\ \A j, k \in 1 .. Cardinality(S) : list[j] = list[k] => j = k
  /\ \A x \in S : \E k \in 1 .. Cardinality(S) : list[k] = x

LEMMA SortedIsOnce ==
  ASSUME NEW R, NEW S, IsFiniteSet(S), Ranks(R, S),
         NEW list \in [1 .. Cardinality(S) -> S], Sorted(R, list)
  PROVE  Enumerates(list, S)
<1> DEFINE n == Cardinality(S)
<1>1. n \in Nat
  BY FS_CardinalityType
<1>2. ASSUME NEW j \in 1 .. n, NEW k \in 1 .. n, list[j] = list[k]
      PROVE  j = k
  <2>1. list[j] \in S /\ list[k] \in S
    OBVIOUS
  <2>2. ~(j < k)
    BY <1>2, <2>1 DEF Sorted, Ranks
  <2>3. ~(k < j)
    BY <1>2, <2>1 DEF Sorted, Ranks
  <2> QED  BY <1>1, <2>2, <2>3
<1>3. IsFiniteSet(1 .. n) /\ Cardinality(1 .. n) = n
  BY <1>1, FS_Interval
<1>4. list \in Injection(1 .. n, S)
  BY <1>2 DEF Injection, IsInjective
<1>5. list \in Surjection(1 .. n, S)
  BY <1>3, <1>4, FS_Injection
<1>6. \A x \in S : \E k \in 1 .. n : list[k] = x
  BY <1>5 DEF Surjection
<1> QED  BY <1>2, <1>6 DEF Enumerates

-----------------------------------------------------------------------------
(* What an uncross begins with *)

Ready(side, p) == {i \in LiveInAuction : orders[i].request.side = side /\ Marketable(i, p)}

LEMMA ReadyAre ==
  ASSUME Books, NEW side, NEW p
  PROVE  /\ Ready(side, p) \in SUBSET (1 .. Len(orders))
         /\ Ready(side, p) \in SUBSET LiveInAuction
         /\ IsFiniteSet(Ready(side, p)) /\ IsFiniteSet(LiveInAuction)
         /\ LiveInAuction \in SUBSET (1 .. Len(orders))
<1>1. Len(orders) \in Int /\ 1 \in Int /\ DOMAIN orders = 1 .. Len(orders)
  BY BooksAre
<1>2. IsFiniteSet(1 .. Len(orders))
  BY <1>1, FS_Interval
<1>3. LiveInAuction \in SUBSET (1 .. Len(orders))
  BY <1>1 DEF LiveInAuction
<1>4. Ready(side, p) \in SUBSET LiveInAuction
  BY DEF Ready
<1>5. IsFiniteSet(LiveInAuction)
  BY <1>2, <1>3, FS_Subset
<1>6. IsFiniteSet(Ready(side, p))
  BY <1>4, <1>5, FS_Subset
<1> QED  BY <1>3, <1>4, <1>5, <1>6

\* The priority of an auction is an order of each side.
Earlier(S) == {e \in S \X S : First(e[1], e[2])}

LEMMA FirstRanks ==
  ASSUME Books, NEW S \in SUBSET (1 .. Len(orders)), NEW side,
         \A i \in S : orders[i].request.side = side
  PROVE  Ranks(Earlier(S), S)
<1>1. \A i \in S : orders[i].request.price \in Nat /\ i \in Nat
  BY BooksAre, OrderIs
<1>2. \A i, j \in S : <<i, j>> \in Earlier(S) <=> First(i, j)
  BY DEF Earlier
<1>3. \A i \in S : ~First(i, i)
  BY <1>1 DEF First
<1>4. \A i, j, k \in S : First(i, j) /\ First(j, k) => First(i, k)
  BY <1>1 DEF First
<1>5. \A i, j \in S : i = j \/ First(i, j) \/ First(j, i)
  BY <1>1 DEF First
<1> QED  BY <1>2, <1>3, <1>4, <1>5 DEF Ranks

\* The list of one side holds every order that can trade, in order.
LEMMA InTurnIs ==
  ASSUME Books, NEW side, NEW p
  PROVE  LET S == Ready(side, p)
             list == InTurn(side, p)
         IN /\ Cardinality(S) \in Nat
            /\ list \in [1 .. Cardinality(S) -> S]
            /\ list \in Seq(S) /\ Len(list) = Cardinality(S)
            /\ \A j, k \in 1 .. Cardinality(S) : list[j] = list[k] => j = k
            /\ \A i \in S : \E k \in 1 .. Cardinality(S) : list[k] = i
            /\ Lined(orders, side, list)
<1> DEFINE S == Ready(side, p)
           n == Cardinality(S)
           list == InTurn(side, p)
<1>1. /\ S \in SUBSET (1 .. Len(orders)) /\ S \in SUBSET LiveInAuction /\ IsFiniteSet(S)
      /\ \A i \in S : orders[i].request.side = side
  BY ReadyAre DEF Ready
<1>2. list = CHOOSE l \in [1 .. n -> S] : \A j, k \in DOMAIN l : j < k => First(l[j], l[k])
  BY DEF InTurn, Ready
<1> HIDE DEF S, list
<1>3. Ranks(Earlier(S), S)
  BY <1>1, FirstRanks
<1>4. n \in Nat
  BY <1>1, FS_CardinalityType
<1>5. \A l \in [1 .. n -> S] :
        Sorted(Earlier(S), l) <=> \A j, k \in DOMAIN l : j < k => First(l[j], l[k])
  BY DEF Sorted, Earlier
<1>6. \E l \in [1 .. n -> S] : Sorted(Earlier(S), l)
  BY <1>1, <1>3, ListExists
<1>7. list \in [1 .. n -> S] /\ Sorted(Earlier(S), list)
  <2> HIDE DEF n
  <2>1. list \in [1 .. n -> S] /\ \A j, k \in DOMAIN list : j < k => First(list[j], list[k])
    BY <1>2, <1>5, <1>6
  <2> QED  BY <1>5, <2>1
<1>8. /\ \A j, k \in 1 .. n : list[j] = list[k] => j = k
      /\ \A x \in S : \E k \in 1 .. n : list[k] = x
  <2>1. IsFiniteSet(S) /\ Ranks(Earlier(S), S)
    BY <1>1, <1>3
  <2>2. list \in [1 .. Cardinality(S) -> S] /\ Sorted(Earlier(S), list)
    BY <1>7
  <2> HIDE DEF n
  <2>3. Enumerates(list, S)
    BY <2>1, <2>2, SortedIsOnce
  <2> QED  BY <2>3 DEF n, Enumerates
<1> HIDE DEF n
<1>9. list \in Seq(S) /\ Len(list) = n
  BY <1>4, <1>7, ListOf
<1>10. Lined(orders, side, list)
  <2>1. S \subseteq Auctioned(orders)
    BY <1>1, BooksAre
  <2>2. list \in [1 .. n -> Auctioned(orders)]
    BY <1>7, <2>1
  <2>3. list \in Seq(Auctioned(orders))
    BY <1>4, <2>2, ListOf
  <2>4. \A k \in 1 .. n : orders[list[k]].request.side = side
    BY <1>1, <1>7
  <2> QED  BY <1>8, <1>9, <2>3, <2>4 DEF Lined
<1> QED  BY <1>4, <1>7, <1>8, <1>9, <1>10 DEF S, n, list

-----------------------------------------------------------------------------
(* Quantities that can trade *)

Rests(os) == [i \in 1 .. Len(os) |-> Remaining(os[i])]

\* The sum the engine takes over some of the orders.
RestOf(os, L) == MapThenSumSet(LAMBDA i : Remaining(os[i]), L)

LEMMA RestTotal ==
  ASSUME NEW os, NEW L \in SUBSET (1 .. Len(os)), IsFiniteSet(L)
  PROVE  RestOf(os, L) = OfQuantity!Total(Rests(os), L)
<1> DEFINE w == Rests(os)
           P(f) == f = [s \in SUBSET L |->
              IF s = {} THEN 0
              ELSE Remaining(os[OfQuantity!First(s)]) + f[s \ {OfQuantity!First(s)}]]
           i == CHOOSE f : P(f)
<1>1. RestOf(os, L) = i[L]
  BY DEF RestOf, OfQuantity!First, MapThenSumSet, MapThenFoldSet
<1>2. \A f : P(f) <=> OfQuantity!IsIter(f, w, L)
  <2>1. \A s \in SUBSET L : s # {} =>
          w[OfQuantity!First(s)] = Remaining(os[OfQuantity!First(s)])
    BY OfQuantity!FirstIn DEF Rests
  <2> TAKE f
  <2> HIDE DEF w
  <2>2. [s \in SUBSET L |-> IF s = {} THEN 0
                            ELSE Remaining(os[OfQuantity!First(s)])
                                   + f[s \ {OfQuantity!First(s)}]]
          = [s \in SUBSET L |-> IF s = {} THEN 0
                                ELSE w[OfQuantity!First(s)] + f[s \ {OfQuantity!First(s)}]]
    BY <2>1
  <2> QED  BY <2>2 DEF OfQuantity!IsIter
<1> HIDE DEF w, P
<1>3. OfQuantity!IsFiniteSet(L)
  BY SumFinite
<1>4. OfQuantity!IsIter(OfQuantity!Iter(w, L), w, L)
  BY <1>3, OfQuantity!IterExists
<1>5. P(i)
  BY <1>2, <1>4
<1>6. OfQuantity!IsIter(i, w, L)
  BY <1>2, <1>5
<1> HIDE DEF i
<1>7. i[L] = OfQuantity!Iter(w, L)[L]
  BY <1>3, <1>4, <1>6, OfQuantity!IterUnique
<1>8. i[L] = OfQuantity!Total(w, L)
  BY <1>7, OfQuantity!TotalIsIter
<1> QED  BY <1>1, <1>8 DEF w

LEMMA VolumeIs ==
  ASSUME Books, NEW side, NEW p
  PROVE  /\ Volume(side, p) = OfQuantity!Total(Rests(orders), Ready(side, p))
         /\ Volume(side, p) \in Nat
<1> DEFINE S == Ready(side, p)
           w == Rests(orders)
<1>1. S \in SUBSET (1 .. Len(orders)) /\ IsFiniteSet(S) /\ OfQuantity!IsFiniteSet(S)
  BY ReadyAre, SumFinite
<1>2. \A i \in S : Remaining(orders[i]) \in Nat /\ w[i] \in Nat
  BY <1>1, BooksAre DEF Rests
<1>3. Volume(side, p) = RestOf(orders, S)
  BY DEF Volume, Ready, RestOf
<1> HIDE DEF S
<1>4. RestOf(orders, S) = OfQuantity!Total(Rests(orders), S)
  BY <1>1, RestTotal
<1> HIDE DEF w
<1>5. OfQuantity!Total(w, S) \in Nat
  BY <1>1, <1>2, OfQuantity!TotalNat
<1> QED  BY <1>3, <1>4, <1>5 DEF S, w

LEMMA MatchedIs ==
  ASSUME Books, NEW p
  PROVE  Matched(p) \in Nat /\ Imbalance(p) \in Nat
<1>1. Volume("BUY", p) \in Nat /\ Volume("SELL", p) \in Nat
  BY VolumeIs
<1>2. Matched(p) \in Nat
  BY <1>1 DEF Matched, Least
<1>3. Imbalance(p) \in Nat
  BY <1>1 DEF Imbalance
<1> QED  BY <1>2, <1>3

LEMMA ReferenceIs ==
  ASSUME StateType
  PROVE  ReferencePrice \in Nat \ {0}
<1>1. lastPrice \in Nat /\ rules.reference \in Nat \ {0}
  BY RulesAssumption DEF StateType
<1> QED  BY <1>1 DEF ReferencePrice

Candidates == {ReferencePrice} \cup ({orders[i].request.price : i \in LiveInAuction} \ {0})

LEMMA CandidatesAre ==
  ASSUME Books, StateType
  PROVE  /\ Candidates \in SUBSET (Nat \ {0}) /\ IsFiniteSet(Candidates)
         /\ ReferencePrice \in Candidates
<1> DEFINE f == [i \in LiveInAuction |-> orders[i].request.price]
           D == {f[i] : i \in LiveInAuction}
<1>1. \A i \in LiveInAuction : orders[i].request.price \in Nat
  BY BooksAre, OrderIs, ReadyAre
<1>2. Candidates = {ReferencePrice} \cup (D \ {0})
  BY DEF Candidates
<1>3. IsFiniteSet(D)
  <2> HIDE DEF f
  <2> QED  BY ReadyAre, FiniteImage
<1>4. IsFiniteSet(D \ {0}) /\ IsFiniteSet({ReferencePrice})
  <2> HIDE DEF D
  <2> QED  BY <1>3, FS_Difference, FS_Singleton
<1>5. IsFiniteSet({ReferencePrice} \cup (D \ {0}))
  BY <1>4, FS_Union
<1>6. D \subseteq Nat
  BY <1>1
<1> HIDE DEF D
<1> QED  BY <1>2, <1>5, <1>6, ReferenceIs

\* The tie break leaves one price.
LEMMA BestIs ==
  ASSUME Books, StateType
  PROVE  /\ ClearingPrice \in Candidates
         /\ \A r \in Candidates \ {ClearingPrice} : Preferred(ClearingPrice, r)
<1> DEFINE C == Candidates
           R == {e \in C \X C : Preferred(e[2], e[1])}
<1>1. C \in SUBSET Nat /\ IsFiniteSet(C) /\ C # {}
  BY CandidatesAre
<1>2. \A p \in C : Matched(p) \in Nat /\ Imbalance(p) \in Nat /\ Distance(p) \in Int
  BY <1>1, MatchedIs, ReferenceIs DEF Distance
<1> HIDE DEF C
<1>3. \A p, r \in C : <<p, r>> \in R <=> Preferred(r, p)
  OBVIOUS
<1>4. \A p \in C : ~Preferred(p, p)
  BY <1>1, <1>2 DEF Preferred
<1>5. \A p, r, s \in C : Preferred(p, r) /\ Preferred(r, s) => Preferred(p, s)
  BY <1>1, <1>2 DEF Preferred
<1>6. \A p, r \in C : p = r \/ Preferred(p, r) \/ Preferred(r, p)
  BY <1>1, <1>2 DEF Preferred
<1> HIDE DEF R
<1>7. Ranks(R, C)
  BY <1>3, <1>4, <1>5, <1>6 DEF Ranks
<1>8. PICK m \in C : \A x \in C \ {m} : <<x, m>> \in R
  <2>1. IsFiniteSet(C) /\ C # {} /\ Ranks(R, C)
    BY <1>1, <1>7
  <2> QED  BY <2>1, LastOf
<1>9. \A r \in C \ {m} : Preferred(m, r)
  BY <1>3, <1>8
<1>10. ClearingPrice = CHOOSE p \in C : \A r \in C \ {p} : Preferred(p, r)
  BY DEF ClearingPrice, C, Candidates
<1>11. /\ ClearingPrice \in C
       /\ \A r \in C \ {ClearingPrice} : Preferred(ClearingPrice, r)
  BY <1>9, <1>10
<1> QED  BY <1>11 DEF C

LEMMA UncrossBegins ==
  ASSUME Books, StateType, Uncross
  PROVE  /\ call' \in CallType(rules) /\ call'.kind = "uncross"
         /\ Lined(orders, "BUY", call'.buys) /\ Lined(orders, "SELL", call'.sells)
         /\ UNCHANGED <<rules, orders, ledger, book, rested, position>>
<1> DEFINE p == ClearingPrice
           b == InTurn("BUY", p)
           s == InTurn("SELL", p)
<1>1. /\ call' = [kind |-> "uncross", price |-> p, matched |-> Matched(p),
                  executed |-> 0, prevented |-> FALSE, buys |-> b, sells |-> s]
      /\ UNCHANGED <<rules, orders, ledger, book, rested, position>>
  BY DEF Uncross, trading
<1>2. p \in Nat
  BY BestIs, CandidatesAre
<1>3. Lined(orders, "BUY", b) /\ Lined(orders, "SELL", s)
  BY InTurnIs
<1>4. Auctioned(orders) \subseteq Nat
  BY BooksAre DEF Auctioned
<1>5. b \in Seq(Auctioned(orders)) /\ s \in Seq(Auctioned(orders))
  BY <1>3 DEF Lined
<1> HIDE DEF b, s, p
<1>6. b \in Seq(Nat) /\ s \in Seq(Nat)
  BY <1>4, <1>5
<1>7. Matched(p) \in Nat
  BY MatchedIs
<1>8. call' \in CallType(rules)
  BY <1>1, <1>2, <1>6, <1>7 DEF CallType
<1> QED  BY <1>1, <1>3, <1>8

-----------------------------------------------------------------------------
(* The steps *)

LEMMA RulesAre ==
  ASSUME StateType
  PROVE  /\ rules.reference \in Nat \ {0} /\ rules.collar \in Nat /\ rules.volatility \in Nat
         /\ rules.schedule \in Seq([time : Nat, state : SessionState])
         /\ \A a \in DOMAIN rules.stp : rules.stp[a] \in StpMode
         /\ Requests(rules) \subseteq RequestType(rules)
         /\ Limits \subseteq Nat \ {0}
         /\ Times \subseteq Nat
         /\ \A total \in Totals : total \in Int /\ total > 0
<1>1. /\ rules.reference \in Nat \ {0} /\ rules.collar \in Nat /\ rules.volatility \in Nat
      /\ rules.schedule \in Seq([time : Nat, state : SessionState])
      /\ \A a \in DOMAIN rules.stp : rules.stp[a] \in StpMode
      /\ Requests(rules) \subseteq RequestType(rules)
  BY RulesAssumption DEF StateType
<1>2. \A q \in Requests(rules) : q.price \in Nat /\ q.until \in Nat
  BY <1>1 DEF RequestType
<1>3. Limits \subseteq Nat \ {0}
  BY <1>2 DEF Limits
<1>4. \A k \in DOMAIN rules.schedule : rules.schedule[k].time \in Nat
  <2> DEFINE E == [time : Nat, state : SessionState]
             sch == rules.schedule
  <2>1. sch \in Seq(E)
    BY <1>1
  <2>2. \A e \in E : e.time \in Nat
    OBVIOUS
  <2> HIDE DEF E, sch
  <2>3. \A k \in DOMAIN sch : sch[k] \in E
    BY <2>1, ListIs
  <2>4. \A k \in DOMAIN sch : sch[k].time \in Nat
    BY <2>2, <2>3
  <2> QED  BY <2>4 DEF sch
<1>5. Times \subseteq Nat
  BY <1>2, <1>4 DEF Times
<1>6. \A total \in Totals : total \in Int /\ total > 0
  BY DEF Totals
<1> QED  BY <1>1, <1>3, <1>5, <1>6

LEMMA LeavingStep ==
  ASSUME Books, position = Balance(orders),
         \/ \E to \in SessionState : Transition(to)
         \/ \E t \in Times : AdvanceTo(t)
         \/ CrossEnds
  PROVE  Books' /\ position' = Balance(orders')
<1>1. CASE \E to \in SessionState : Transition(to)
  <2>1. PICK to \in SessionState : Transition(to)
    BY <1>1
  <2>2. Expire(EndedBy(to)) /\ UNCHANGED <<rules, rested, position>>
    BY <2>1 DEF Transition
  <2>3. EndedBy(to) \in SUBSET Live
    BY ReasonsAreLive
  <2> QED  BY <2>2, <2>3, DepartureStep
<1>2. CASE \E t \in Times : AdvanceTo(t)
  <2>1. PICK t \in Times : AdvanceTo(t)
    BY <1>2
  <2>2. UNCHANGED <<rules, rested, position>>
    BY <2>1 DEF AdvanceTo
  <2>3. \/ Expire(Outlived(t))
        \/ \E to : Expire(Outlived(t) \cup IF to = session THEN {} ELSE EndedBy(to))
        \/ UNCHANGED <<orders, ledger, book>>
    BY <2>1 DEF AdvanceTo
  <2>4. Outlived(t) \in SUBSET Live /\ \A to : EndedBy(to) \in SUBSET Live
    BY ReasonsAreLive
  <2>5. CASE Expire(Outlived(t))
    BY <2>2, <2>4, <2>5, DepartureStep
  <2>6. CASE \E to : Expire(Outlived(t) \cup IF to = session THEN {} ELSE EndedBy(to))
    <3>1. PICK to : Expire(Outlived(t) \cup IF to = session THEN {} ELSE EndedBy(to))
      BY <2>6
    <3>2. Outlived(t) \cup (IF to = session THEN {} ELSE EndedBy(to)) \in SUBSET Live
      BY <2>4
    <3> QED  BY <2>2, <3>1, <3>2, DepartureStep
  <2>7. CASE UNCHANGED <<orders, ledger, book>>
    BY <2>2, <2>7, StillStep
  <2> QED  BY <2>3, <2>5, <2>6, <2>7
<1>3. CASE CrossEnds
  <2>1. Expire(LiveInAuction) /\ UNCHANGED <<rules, rested, position>>
    BY <1>3 DEF CrossEnds
  <2>2. LiveInAuction \in SUBSET Live
    BY DEF Live
  <2> QED  BY <2>1, <2>2, DepartureStep
<1> QED  BY <1>1, <1>2, <1>3

\* The request of a replacement's second leg.
LEMMA ReplacementIs ==
  ASSUME StateType, Books, NEW i \in LiveInBook, NEW total \in Int, NEW price \in Limits,
         total > ledger[i].filled
  PROVE  /\ Replacement(i, total - ledger[i].filled, price) \in RequestType(rules)
         /\ ~Replacement(i, total - ledger[i].filled, price).auction
<1>1. i \in InBook(book) /\ i \in 1 .. Len(orders) /\ ~orders[i].request.auction
  BY BooksAre, InBookIs DEF Books
<1>2. PICK x \in book : x.id = i
  BY <1>1 DEF InBook
<1>3. x.price \in Nat \ {0} /\ orders[i].request.price = x.price
  BY <1>2 DEF Books, Accounts, RestsOf, RestingType
<1>4. orders[i].request \in RequestType(rules) /\ ledger[i].filled \in Nat
  BY <1>1, BooksAre, OrderIs DEF EntryType
<1>5. price \in Nat \ {0}
  BY RulesAre
<1> DEFINE left == total - ledger[i].filled
           q == orders[i].request
<1>6. left \in Nat \ {0}
  BY <1>4
<1>7. Replacement(i, left, price) = [q EXCEPT !.quantity = left, !.price = price]
  BY DEF Replacement
<1>8. q \in RequestType(rules) /\ q.price # 0 /\ ~q.auction
  BY <1>1, <1>3, <1>4
<1> HIDE DEF left, q
<1>9. /\ [q EXCEPT !.quantity = left, !.price = price] \in RequestType(rules)
      /\ ~[q EXCEPT !.quantity = left, !.price = price].auction
  BY <1>5, <1>6, <1>8 DEF RequestType
<1> QED  BY <1>7, <1>9 DEF left

LEMMA ReplaceStep ==
  ASSUME StateType, Books, position = Balance(orders), NEW i \in LiveInBook,
         NEW total \in Totals, NEW price \in Limits, Replace(i, total, price)
  PROVE  /\ Books' /\ position' = Balance(orders') /\ rules' = rules
         /\ \/ call' = call
            \/ /\ call' \in CallType(rules) /\ call'.kind = "replace"
               /\ ~call'.request.auction
<1>1. /\ total > ledger[i].filled
      /\ UNCHANGED <<rules, rested, position>>
      /\ Shrink(i, total, price) \/ CancelLeg(i, total, price)
  BY DEF Replace
<1>2. total \in Int
  BY RulesAre
<1>3. CASE Shrink(i, total, price)
  <2>1. Books' /\ position' = Balance(orders')
    BY <1>1, <1>2, <1>3, ShrinkStep
  <2> QED  BY <1>1, <1>3, <2>1 DEF Shrink
<1>4. CASE CancelLeg(i, total, price)
  <2> DEFINE q == Replacement(i, total - ledger[i].filled, price)
  <2>1. /\ Withdraw({i})
        /\ call' = [kind |-> "replace", old |-> i, total |-> total, request |-> q]
    BY <1>4 DEF CancelLeg
  <2>2. {i} \in SUBSET InBook(book) /\ i \in Nat
    BY BooksAre, InBookIs DEF Books
  <2>3. Books' /\ position' = Balance(orders')
    BY <1>1, <2>1, <2>2, DepartureStep
  <2>4. q \in RequestType(rules) /\ ~q.auction
    BY <1>1, <1>2, ReplacementIs
  <2> HIDE DEF q
  <2>5. /\ call' \in CallType(rules) /\ call'.kind = "replace" /\ ~call'.request.auction
    BY <1>2, <2>1, <2>2, <2>4 DEF CallType
  <2> QED  BY <1>1, <2>3, <2>5
<1> QED  BY <1>1, <1>3, <1>4

\* One turn of the loop leaves both lists as they should be.
LEMMA ListsMoveOn ==
  ASSUME Books, CallInv, Crossing, Books', rules' = rules,
         DOMAIN orders' = 1 .. Len(orders),
         \A i \in 1 .. Len(orders) :
           /\ orders'[i].request = orders[i].request
           /\ orders'[i].rejected = orders[i].rejected
           /\ i \notin {Head(call.buys), Head(call.sells)} => orders'[i] = orders[i]
  PROVE  /\ Lined(orders', "BUY", Onward(call.buys))
         /\ Lined(orders', "SELL", Onward(call.sells))
         /\ Onward(call.buys) \in Seq(Nat) /\ Onward(call.sells) \in Seq(Nat)
<1> DEFINE b == call.buys
           s == call.sells
           os == orders
           ot == orders'
<1>1. /\ Lined(os, "BUY", b) /\ Lined(os, "SELL", s) /\ b # <<>> /\ s # <<>>
  BY DEF CallInv, Crossing
<1>2. /\ Head(b) \in 1 .. Len(os) /\ Head(s) \in 1 .. Len(os)
      /\ os[Head(b)].request.side = "BUY" /\ os[Head(s)].request.side = "SELL"
  BY HeadsAre
<1>3. /\ ot \in [1 .. Len(ot) -> OrderType(rules)] /\ DOMAIN ot = 1 .. Len(ot)
      /\ \A i \in 1 .. Len(ot) : Remaining(ot[i]) \in Nat
  <2>1. Accounts(rules, orders', ledger', book', rested')
    BY DEF Books
  <2> QED  BY <2>1, AccountsAre
<1>4. Len(os) \in Nat /\ 1 .. Len(ot) = 1 .. Len(os)
  BY <1>3, BooksAre
<1>5. \A i \in 1 .. Len(os) :
           /\ ot[i].request = os[i].request
           /\ ot[i].rejected = os[i].rejected
           /\ i \notin {Head(b), Head(s)} => ot[i] = os[i]
  OBVIOUS
<1>6. /\ Onward(b) = IF Remaining(ot[Head(b)]) = 0 THEN Tail(b) ELSE b
      /\ Onward(s) = IF Remaining(ot[Head(s)]) = 0 THEN Tail(s) ELSE s
  BY DEF Onward
<1>7. DOMAIN ot = 1 .. Len(os)
  OBVIOUS
<1> HIDE DEF b, s, os, ot
<1>8. Len(ot) = Len(os)
  <2>1. ot \in [1 .. Len(os) -> OrderType(rules)]
    BY <1>3, <1>4
  <2> QED  BY <1>4, <2>1, ListOf
<1>9. Lined(ot, "BUY", IF Remaining(ot[Head(b)]) = 0 THEN Tail(b) ELSE b)
  <2>1. \A i \in 1 .. Len(os) : /\ ot[i].request = os[i].request
                                /\ ot[i].rejected = os[i].rejected
                                /\ os[i].request.side = "BUY" /\ i # Head(b)
                                     => ot[i] = os[i]
    BY <1>2, <1>5
  <2>2. Remaining(ot[Head(b)]) \in Nat
    BY <1>2, <1>3, <1>4
  <2> QED  BY <1>1, <1>8, <2>1, <2>2, OnwardKeeps
<1>10. Lined(ot, "SELL", IF Remaining(ot[Head(s)]) = 0 THEN Tail(s) ELSE s)
  <2>1. \A i \in 1 .. Len(os) : /\ ot[i].request = os[i].request
                                /\ ot[i].rejected = os[i].rejected
                                /\ os[i].request.side = "SELL" /\ i # Head(s)
                                     => ot[i] = os[i]
    BY <1>2, <1>5
  <2>2. Remaining(ot[Head(s)]) \in Nat
    BY <1>2, <1>3, <1>4
  <2> QED  BY <1>1, <1>8, <2>1, <2>2, OnwardKeeps
<1>11. Auctioned(ot) \subseteq Nat
  BY <1>4 DEF Auctioned
<1>12. \A side, list : Lined(ot, side, list) => list \in Seq(Nat)
  BY <1>11 DEF Lined
<1> QED  BY <1>6, <1>9, <1>10, <1>12 DEF b, s, ot

LEMMA CrossStep ==
  ASSUME StateType, CallInv, Books, position = Balance(orders), CrossPrevents \/ CrossTrades
  PROVE  Books' /\ position' = Balance(orders') /\ CallInv'
<1> DEFINE buy == Head(call.buys)
           sell == Head(call.sells)
           b == Onward(call.buys)
           s == Onward(call.sells)
<1>1. call.kind = "uncross" /\ Crossing /\ rules' = rules
  BY DEF CrossPrevents, CrossTrades, Crossing
<1>2. /\ call \in [kind : {"uncross"}, price : Nat, matched : Nat, executed : Nat,
                   prevented : BOOLEAN, buys : Seq(Nat), sells : Seq(Nat)]
      /\ call.executed \in Nat
  BY <1>1, UncrossIs DEF CallInv
<1>3. /\ buy \in LiveInAuction /\ sell \in LiveInAuction
      /\ orders[buy].request.side = "BUY" /\ orders[sell].request.side = "SELL"
  BY <1>1, HeadsAre
<1>4. CASE CrossPrevents
  <2> DEFINE S == Stopped(buy, sell)
  <2>1. /\ Books' /\ position' = Balance(orders')
        /\ S \in SUBSET LiveInAuction /\ S \subseteq {buy, sell}
        /\ orders' = [i \in 1 .. Len(orders) |->
                        IF i \in S THEN Withdrawn(orders[i]) ELSE orders[i]]
    BY <1>4, CrossPreventsStep
  <2>2. call' = [call EXCEPT !.prevented = TRUE, !.buys = b, !.sells = s]
    BY <1>4 DEF CrossPrevents
  <2> HIDE DEF S, b, s, buy, sell
  <2>3. \A i \in 1 .. Len(orders) :
          /\ orders'[i].request = orders[i].request
          /\ orders'[i].rejected = orders[i].rejected
          /\ i \notin {buy, sell} => orders'[i] = orders[i]
    <3> TAKE i \in 1 .. Len(orders)
    <3>1. orders[i] \in OrderType(rules) /\ Remaining(orders[i]) >= 0
      BY BooksAre
    <3>2. /\ Withdrawn(orders[i]).request = orders[i].request
          /\ Withdrawn(orders[i]).rejected = orders[i].rejected
      <4>1. "request" \in {"request", "filled", "rejected", "expired"}
            /\ "rejected" \in {"request", "filled", "rejected", "expired"}
        OBVIOUS
      <4> QED  BY <3>1, <4>1, ClosedOrder
    <3> QED  BY <2>1, <3>2
  <2>4. DOMAIN orders' = 1 .. Len(orders)
    BY <2>1
  <2>5. /\ Lined(orders', "BUY", b) /\ Lined(orders', "SELL", s)
        /\ b \in Seq(Nat) /\ s \in Seq(Nat)
    BY <1>1, <2>1, <2>3, <2>4, ListsMoveOn DEF b, s, buy, sell
  <2>6. /\ call' \in CallType(rules') /\ call'.kind = "uncross"
        /\ call'.buys = b /\ call'.sells = s
    BY <1>1, <1>2, <2>2, <2>5 DEF CallType
  <2>7. CallInv'
    BY <2>5, <2>6 DEF CallInv
  <2> QED  BY <2>1, <2>7
<1>5. CASE CrossTrades
  <2> DEFINE quantity == Least(Remaining(orders[buy]), Remaining(orders[sell]))
  <2>1. /\ orders' = [orders EXCEPT ![buy].filled = @ + quantity, ![sell].filled = @ + quantity]
        /\ position' = position
             + (IF orders[buy].request.account = Player THEN quantity ELSE 0)
             - (IF orders[sell].request.account = Player THEN quantity ELSE 0)
        /\ call' = [call EXCEPT !.executed = @ + quantity, !.buys = b, !.sells = s]
        /\ UNCHANGED <<rules, ledger, book, rested>>
    BY <1>5 DEF CrossTrades
  <2> HIDE DEF b, s, buy, sell
  <2>6. Books' /\ position' = Balance(orders') /\ Crosses(buy, sell, quantity)
    BY <1>3, <2>1, CrossTradesStep
  <2> HIDE DEF quantity
  <2>2. /\ Books' /\ position' = Balance(orders')
        /\ quantity \in Nat \ {0}
        /\ DOMAIN orders' = 1 .. Len(orders)
        /\ \A i \in 1 .. Len(orders) :
             /\ orders'[i].request = orders[i].request
             /\ orders'[i].rejected = orders[i].rejected
             /\ i \notin {buy, sell} => orders'[i] = orders[i]
    BY <2>6 DEF Crosses
  <2>3. /\ Lined(orders', "BUY", b) /\ Lined(orders', "SELL", s)
        /\ b \in Seq(Nat) /\ s \in Seq(Nat)
    BY <1>1, <2>2, ListsMoveOn DEF b, s, buy, sell
  <2>4. /\ call' \in CallType(rules') /\ call'.kind = "uncross"
        /\ call'.buys = b /\ call'.sells = s
    <3> DEFINE n == call.executed + quantity
               C == [kind : {"uncross"}, price : Nat, matched : Nat, executed : Nat,
                     prevented : BOOLEAN, buys : Seq(Nat), sells : Seq(Nat)]
    <3>1. n \in Nat
      BY <1>2, <2>2
    <3>2. call' = [call EXCEPT !.executed = n, !.buys = b, !.sells = s]
      BY <2>1
    <3> HIDE DEF n
    <3>3. /\ call' \in C /\ call'.kind = "uncross" /\ call'.buys = b /\ call'.sells = s
      BY <1>2, <2>3, <3>1, <3>2
    <3>4. C \subseteq CallType(rules')
      BY DEF CallType
    <3> QED  BY <3>3, <3>4
  <2>5. CallInv'
    BY <2>3, <2>4 DEF CallInv
  <2> QED  BY <2>2, <2>5
<1> QED  BY <1>4, <1>5

LEMMA LastIsPositive ==
  ASSUME Books, lastPrice \in Nat, NEW q \in RequestType(rules), Submit(q)
  PROVE  lastPrice' \in Nat
<1>1. CASE SubmitExecuted(q)
  <2> DEFINE R == Left(q)
             E == Eligible(R, q.side, q.price)
             makers == Reached(q)
  <2>1. lastPrice' = IF makers = {} THEN lastPrice
                     ELSE (CHOOSE r \in makers : \A x \in makers : x = r \/ Served(x, r)).price
    BY <1>1 DEF SubmitExecuted
  <2>2. Ordered(R) /\ Records(R) /\ R \subseteq book
    <3> DEFINE W == Prevented(q)
    <3>1. W \in SUBSET InBook(book)
      BY ReasonsAreLive
    <3>2. W \cup {} = W /\ R = Without(book, W) /\ {} \in SUBSET (InBook(book) \cup Auctioned(orders))
      BY DEF Left, Without
    <3> HIDE DEF W, R
    <3>3. Accounts(rules, Departed(orders, W, {}), Struck(orders, ledger, W \cup ({} \cap InBook(book))),
                   Without(book, W \cup {}), rested)
      BY <3>1, <3>2, DepartureKeeps DEF Books
    <3>4. Accounts(rules, Departed(orders, W, {}), Struck(orders, ledger, W \cup ({} \cap InBook(book))),
                   R, rested)
      BY <3>2, <3>3
    <3>5. Ordered(R) /\ Records(R)
      BY <3>4, BookIsOrdered
    <3> QED  BY <3>2, <3>5 DEF Without
  <2>3. makers \in SUBSET E /\ makers \subseteq book
    BY <2>2 DEF Reached, Makers, Eligible
  <2> HIDE DEF makers, R
  <2>4. q.side \in Sides
    BY DEF RequestType, Sides
  <2>5. Queue(E)
    BY <2>2, <2>4, EligibleQueue
  <2> HIDE DEF E
  <2>6. ASSUME makers # {}
        PROVE  \E r \in makers : \A x \in makers : x = r \/ Served(x, r)
    <3>1. PICK r \in makers : Before(makers, r) = makers \ {r}
      BY <2>3, <2>5, <2>6, LastInQueue
    <3>2. \A x \in makers : x = r \/ Served(x, r)
      BY <3>1 DEF Before
    <3> QED  BY <3>2
  <2>7. \A r \in makers : r.price \in Nat
    BY <2>3 DEF Books, Accounts, RestingType
  <2> QED  BY <2>1, <2>6, <2>7
<1>2. CASE ~SubmitExecuted(q)
  BY <1>2 DEF Submit, SubmitInvalid, SubmitToAuction, SubmitRefused, SubmitInterrupted
<1> QED  BY <1>1, <1>2

\* Everything together.
MechanicsInv == StateType /\ CallInv /\ Books /\ position = Balance(orders)

LEMMA TypeStep ==
  ASSUME MechanicsInv, Next
  PROVE  StateType' /\ rules' = rules
<1>15. rules' = rules
  BY DEF Next, Transition, AdvanceTo, New, Cancel, Replace, SecondLeg, Uncross, CrossPrevents,
         CrossTrades, CrossEnds
<1>0. StateType /\ CallInv /\ Books
  BY DEF MechanicsInv
<1>1. /\ rules \in Rules /\ session \in SessionState
      /\ now \in Nat /\ cursor \in Nat /\ lastPrice \in Nat /\ failed \in BOOLEAN
  BY <1>0 DEF StateType
<1>2. \A q \in RequestType(rules) : Submit(q) => session' \in SessionState
  BY <1>1 DEF Submit, SubmitInvalid, SubmitToAuction, SubmitRefused, SubmitInterrupted,
              SubmitExecuted, SessionState
<1>3. \A q \in RequestType(rules) : Submit(q) => lastPrice' \in Nat
  BY <1>0, <1>1, LastIsPositive
<1>4. CASE \E to \in SessionState : Transition(to)
  BY <1>1, <1>4 DEF Transition, StateType
<1>5. CASE \E t \in Times : AdvanceTo(t)
  <2>1. PICK t \in Times : AdvanceTo(t)
    BY <1>5
  <2>2. t \in Nat
    BY <1>0, RulesAre
  <2>3. Due(t) => rules.schedule[cursor + 1].state \in SessionState
    <3> DEFINE E == [time : Nat, state : SessionState]
               sch == rules.schedule
    <3>1. sch \in Seq(E) /\ \A e \in E : e.state \in SessionState
      BY <1>0, RulesAre
    <3>2. Due(t) => cursor < Len(sch)
      BY DEF Due
    <3> HIDE DEF E, sch
    <3>3. Due(t) => cursor + 1 \in 1 .. Len(sch)
      BY <1>1, <3>1, <3>2, ListIs
    <3>4. Due(t) => sch[cursor + 1] \in E
      BY <3>1, <3>3, ListIs
    <3>5. Due(t) => sch[cursor + 1].state \in SessionState
      BY <3>1, <3>4
    <3> QED  BY <3>5 DEF sch
  <2>4. /\ now' = t /\ UNCHANGED <<rules, lastPrice>>
        /\ session' = session \/ (Due(t) /\ session' = rules.schedule[cursor + 1].state)
        /\ cursor' = cursor \/ cursor' = cursor + 1
    BY <2>1 DEF AdvanceTo
  <2>5. session' \in SessionState
    BY <1>1, <2>3, <2>4
  <2>6. now' \in Nat /\ cursor' \in Nat /\ lastPrice' \in Nat
    BY <1>1, <2>2, <2>4
  <2>7. failed' \in BOOLEAN
    BY <1>1, <2>1 DEF AdvanceTo
  <2> QED  BY <1>1, <2>4, <2>5, <2>6, <2>7 DEF StateType
<1>6. CASE \E q \in Requests(rules) : New(q)
  <2>1. PICK q \in Requests(rules) : New(q)
    BY <1>6
  <2>2. q \in RequestType(rules)
    BY <1>0, RulesAre
  <2>3. Submit(q) /\ UNCHANGED <<rules, now, cursor, failed>>
    BY <2>1 DEF New
  <2> QED  BY <1>1, <1>2, <1>3, <2>2, <2>3 DEF StateType
<1>7. CASE \E i \in DOMAIN orders : Cancel(i)
  <2>1. UNCHANGED <<rules, session, now, cursor, lastPrice>> /\ failed' \in BOOLEAN
    BY <1>1, <1>7 DEF Cancel
  <2> QED  BY <1>1, <2>1 DEF StateType
<1>8. CASE \E i \in LiveInBook, total \in Totals, price \in Limits : Replace(i, total, price)
  <2>1. UNCHANGED <<rules, session, now, cursor, lastPrice, failed>>
    BY <1>8 DEF Replace
  <2> QED  BY <1>1, <2>1 DEF StateType
<1>9. CASE SecondLeg
  <2>1. call.kind = "replace" /\ Submit(call.request) /\ UNCHANGED <<rules, now, cursor, failed>>
    BY <1>9 DEF SecondLeg
  <2>2. call.request \in RequestType(rules)
    BY <1>0, <2>1, ReplaceIs DEF CallInv
  <2> QED  BY <1>1, <1>2, <1>3, <2>1, <2>2 DEF StateType
<1>10. CASE Uncross
  <2>1. UNCHANGED <<rules, session, now, cursor, lastPrice, failed>>
    BY <1>10 DEF Uncross, trading
  <2> QED  BY <1>1, <2>1 DEF StateType
<1>11. CASE CrossPrevents
  <2>1. UNCHANGED <<rules, session, now, cursor, lastPrice, failed>>
    BY <1>11 DEF CrossPrevents
  <2> QED  BY <1>1, <2>1 DEF StateType
<1>12. CASE CrossTrades
  <2>1. UNCHANGED <<rules, session, now, cursor, failed>> /\ lastPrice' = call.price
    BY <1>12 DEF CrossTrades
  <2>2. call.price \in Nat
    <3>1. call.kind = "uncross"
      BY <1>12 DEF CrossTrades, Crossing
    <3> QED  BY <1>0, <3>1, UncrossIs DEF CallInv
  <2> QED  BY <1>1, <2>1, <2>2 DEF StateType
<1>13. CASE CrossEnds
  <2>1. UNCHANGED <<rules, session, now, cursor, lastPrice, failed>>
    BY <1>13 DEF CrossEnds
  <2> QED  BY <1>1, <2>1 DEF StateType
<1>14. StateType'
  BY <1>4, <1>5, <1>6, <1>7, <1>8, <1>9, <1>10, <1>11, <1>12, <1>13 DEF Next
<1> QED  BY <1>14, <1>15

LEMMA MechanicsStep ==
  ASSUME MechanicsInv, Next
  PROVE  MechanicsInv'
<1>0. StateType /\ CallInv /\ Books /\ position = Balance(orders)
  BY DEF MechanicsInv
<1>1. StateType' /\ rules' = rules
  BY TypeStep
<1>2. ASSUME Idle, call' = call
      PROVE  CallInv'
  <2>1. call'.kind = "none" /\ call' \in CallType(rules')
    BY <1>0, <1>1, <1>2 DEF Idle, CallInv
  <2> QED  BY <2>1 DEF CallInv
<1>3. ASSUME call' = [kind |-> "none"]
      PROVE  CallInv'
  <2>1. call'.kind = "none" /\ call' \in CallType(rules')
    BY <1>3 DEF CallType
  <2> QED  BY <2>1 DEF CallInv
<1>4. CASE (\E to \in SessionState : Transition(to)) \/ (\E t \in Times : AdvanceTo(t))
  <2>1. Books' /\ position' = Balance(orders')
    BY <1>0, <1>4, LeavingStep
  <2>2. Idle /\ call' = call
    BY <1>4 DEF Transition, AdvanceTo
  <2> QED  BY <1>1, <1>2, <2>1, <2>2 DEF MechanicsInv
<1>5. CASE \E q \in Requests(rules) : New(q)
  <2>1. PICK q \in Requests(rules) : New(q)
    BY <1>5
  <2>2. q \in RequestType(rules) /\ Submit(q) /\ Idle /\ call' = call
    BY <1>0, <2>1, RulesAre DEF New
  <2>3. Books' /\ position' = Balance(orders')
    BY <1>0, <1>1, <2>2, SubmitStep
  <2> QED  BY <1>1, <1>2, <2>2, <2>3 DEF MechanicsInv
<1>6. CASE \E i \in DOMAIN orders : Cancel(i)
  <2>1. Books' /\ position' = Balance(orders')
    BY <1>0, <1>6, CancelStep
  <2>2. Idle /\ call' = call
    BY <1>6 DEF Cancel
  <2> QED  BY <1>1, <1>2, <2>1, <2>2 DEF MechanicsInv
<1>7. CASE \E i \in LiveInBook, total \in Totals, price \in Limits : Replace(i, total, price)
  <2>1. PICK i \in LiveInBook, total \in Totals, price \in Limits : Replace(i, total, price)
    BY <1>7
  <2>2. /\ Books' /\ position' = Balance(orders')
        /\ \/ call' = call
           \/ call' \in CallType(rules) /\ call'.kind = "replace" /\ ~call'.request.auction
    BY <1>0, <2>1, ReplaceStep
  <2>3. Idle
    BY <2>1 DEF Replace
  <2>4. CASE call' = call
    BY <1>1, <1>2, <2>2, <2>3, <2>4 DEF MechanicsInv
  <2>5. CASE call' \in CallType(rules) /\ call'.kind = "replace" /\ ~call'.request.auction
    <3>1. CallInv'
      BY <1>1, <2>5 DEF CallInv
    <3> QED  BY <1>1, <2>2, <3>1 DEF MechanicsInv
  <2> QED  BY <2>2, <2>4, <2>5
<1>8. CASE SecondLeg
  <2>1. /\ call.kind = "replace" /\ Submit(call.request) /\ call' = [kind |-> "none"]
    BY <1>8 DEF SecondLeg
  <2>2. call.request \in RequestType(rules)
    BY <1>0, <2>1, ReplaceIs DEF CallInv
  <2>3. Books' /\ position' = Balance(orders')
    BY <1>0, <1>1, <2>1, <2>2, SubmitStep
  <2> QED  BY <1>1, <1>3, <2>1, <2>3 DEF MechanicsInv
<1>9. CASE Uncross
  <2>1. /\ call' \in CallType(rules) /\ call'.kind = "uncross"
        /\ Lined(orders, "BUY", call'.buys) /\ Lined(orders, "SELL", call'.sells)
        /\ UNCHANGED <<rules, orders, ledger, book, rested, position>>
    BY <1>0, <1>9, UncrossBegins
  <2>2. Books' /\ position' = Balance(orders')
    BY <1>0, <2>1, StillStep
  <2>3. CallInv'
    BY <2>1 DEF CallInv
  <2> QED  BY <1>1, <2>2, <2>3 DEF MechanicsInv
<1>10. CASE CrossPrevents \/ CrossTrades
  BY <1>0, <1>1, <1>10, CrossStep DEF MechanicsInv
<1>11. CASE CrossEnds
  <2>1. Books' /\ position' = Balance(orders')
    BY <1>0, <1>11, LeavingStep
  <2>2. call' = [kind |-> "none"]
    BY <1>11 DEF CrossEnds
  <2> QED  BY <1>1, <1>3, <2>1, <2>2 DEF MechanicsInv
<1> QED  BY <1>4, <1>5, <1>6, <1>7, <1>8, <1>9, <1>10, <1>11 DEF Next

LEMMA MechanicsInit == Init => MechanicsInv
<1> SUFFICES ASSUME Init PROVE MechanicsInv
  OBVIOUS
<1>1. StateType
  BY DEF Init, StateType, SessionState
<1>2. CallInv
  BY DEF Init, CallInv, CallType
<1>3. orders = <<>> /\ ledger = <<>> /\ book = {} /\ rested = 0 /\ position = 0
  BY DEF Init
<1>4. Books
  <2>1. Len(orders) = 0 /\ orders \in Seq(OrderType(rules)) /\ ledger \in Seq(EntryType)
        /\ Len(ledger) = 0 /\ 1 .. 0 = {}
    BY <1>3
  <2>2. IsFiniteSet({})
    BY FS_EmptySet
  <2> QED  BY <1>3, <2>1, <2>2 DEF Books, Accounts
<1>5. Balance(orders) = 0
  <2>1. 1 .. Len(orders) = {}
    BY <1>3
  <2>2. Balance(orders) = OfQuantity!Total(Earnings(orders), {})
    BY <2>1 DEF Balance
  <2> QED  BY <2>2, OfQuantity!TotalEmpty
<1> QED  BY <1>1, <1>2, <1>3, <1>4, <1>5 DEF MechanicsInv

\* The invariant of every behaviour.
THEOREM MechanicsHolds == Spec => []MechanicsInv
<1>1. Init => MechanicsInv
  BY MechanicsInit
<1>2. MechanicsInv /\ [Next]_vars => MechanicsInv'
  <2>1. MechanicsInv /\ UNCHANGED vars => MechanicsInv'
    BY DEF MechanicsInv, StateType, CallInv, Books, vars, trading
  <2> QED  BY <2>1, MechanicsStep
<1> QED  BY <1>1, <1>2, PTL DEF Spec

-----------------------------------------------------------------------------
(* The accounts agree *)

LEMMA BooksLedgers ==
  ASSUME Books, position = Balance(orders)
  PROVE  LedgersAgree
<1>1. Len(ledger) = Len(orders) /\ DOMAIN orders = 1 .. Len(orders)
  BY BooksAre
<1>2. ASSUME NEW i \in 1 .. Len(orders)
      PROVE  LET o == orders[i]  l == ledger[i]
                 resting == {r \in book : r.id = i}
             IN /\ o.filled >= 0 /\ o.cancelled >= 0 /\ o.expired >= 0
                /\ Remaining(o) >= 0
                /\ l.known <=> ~o.rejected /\ ~o.request.auction
                /\ l.known => /\ o.filled = l.filled
                              /\ o.cancelled + o.expired = l.cancelled
                /\ IF l.known /\ Remaining(o) > 0
                   THEN \E r \in resting : /\ resting = {r}
                                           /\ r.quantity = Remaining(o)
                                           /\ r.side = o.request.side
                                           /\ r.price = o.request.price
                   ELSE resting = {}
  <2> DEFINE o == orders[i]
             l == ledger[i]
             resting == {r \in book : r.id = i}
  <2>1. o \in OrderType(rules) /\ Agreed(o, l)
    BY BooksAre
  <2>2. o.filled >= 0 /\ o.cancelled >= 0 /\ o.expired >= 0
    BY <2>1, OrderIs
  <2>3. /\ \A r \in book : RestsOf(r, orders, ledger) /\ r.quantity \in Nat \ {0}
        /\ \A x, y \in book : x.id = y.id => x = y
        /\ l.known /\ Remaining(o) > 0 => \E r \in book : r.id = i
    BY DEF Books, Accounts, RestingType
  <2>4. CASE l.known /\ Remaining(o) > 0
    <3>1. PICK r \in book : r.id = i
      BY <2>3, <2>4
    <3>2. resting = {r}
      BY <2>3, <3>1
    <3>3. r.quantity = Remaining(o) /\ r.side = o.request.side /\ r.price = o.request.price
      BY <2>3, <3>1 DEF RestsOf
    <3> QED  BY <2>1, <2>2, <2>4, <3>2, <3>3 DEF Agreed
  <2>5. CASE ~(l.known /\ Remaining(o) > 0)
    <3>1. resting = {}
      BY <2>3, <2>5 DEF RestsOf
    <3> QED  BY <2>1, <2>2, <2>5, <3>1 DEF Agreed
  <2> QED  BY <2>4, <2>5
<1>3. position = PlayerSum(orders)
  <2>1. orders \in Seq(OrderType(rules))
    BY DEF Books, Accounts
  <2> QED  BY <2>1, BalanceOfPlayer
<1>4. position = MapThenSumSet(
         LAMBDA i : SignedBuy(orders[i].request.side, orders[i].filled),
         {i \in DOMAIN orders : orders[i].request.account = Player})
  BY <1>3 DEF PlayerSum
<1> QED  BY <1>1, <1>2, <1>4 DEF LedgersAgree

\* The engine's account of every order and the book's agree through fills,
\* reductions, cancellations, expirations and replacements in any order, the
\* book holds exactly what is left of them, and the player's position is what
\* the player's orders have filled: whatever the rules, however many orders and
\* accounts (assert_invariants).
THEOREM LedgersAlwaysAgree == Spec => []LedgersAgree
<1>1. MechanicsInv => LedgersAgree
  BY BooksLedgers DEF MechanicsInv
<1> QED  BY <1>1, MechanicsHolds, PTL

-----------------------------------------------------------------------------
(* What a step does to the single orders *)

\* The orders the engine holds to be active.
LiveOf(os, bk) == InBook(bk) \cup Auctioned(os)

LEMMA LiveIs == Books => Live = LiveOf(orders, book)
  BY BooksAre DEF Live, LiveOf

LEMMA LiveNext == Books' => Live' = LiveOf(orders', book')
<1> SUFFICES ASSUME Books' PROVE Live' = LiveOf(orders', book')
  OBVIOUS
<1>1. Accounts(rules', orders', ledger', book', rested')
  BY DEF Books
<1>2. DOMAIN orders' = 1 .. Len(orders')
  BY <1>1, AccountsAre
<1>3. LiveInAuction' = Auctioned(orders')
  BY <1>2 DEF LiveInAuction, InAuction, Auctioned
<1>4. LiveInBook' = InBook(book')
  BY DEF LiveInBook, InBook
<1> QED  BY <1>3, <1>4 DEF Live, LiveOf

LEMMA DepartedFields ==
  ASSUME NEW r, NEW os, NEW ls, NEW bk, NEW n, Accounts(r, os, ls, bk, n),
         NEW W \in SUBSET InBook(bk), NEW E \in SUBSET LiveOf(os, bk),
         NEW i \in 1 .. Len(os)
  PROVE  LET m == Struck(os, ls, W \cup (E \cap InBook(bk)))[i]
         IN Departs(r, os[i], ls[i], Departed(os, W, E)[i], m, i, W, E)
<1>1. E \in SUBSET (InBook(bk) \cup Auctioned(os))
  BY DEF LiveOf
<1> QED  BY <1>1, DepartedIs

LEMMA DepartedLive ==
  ASSUME NEW r, NEW os, NEW ls, NEW bk, NEW n, Accounts(r, os, ls, bk, n),
         NEW W \in SUBSET InBook(bk), NEW E \in SUBSET LiveOf(os, bk)
  PROVE  /\ LiveOf(Departed(os, W, E), Without(bk, W \cup E)) \subseteq LiveOf(os, bk) \ (W \cup E)
         /\ Len(Departed(os, W, E)) = Len(os)
         /\ DOMAIN Departed(os, W, E) = 1 .. Len(os)
         /\ Departed(os, W, E) \in Seq(OrderType(r))
<1> DEFINE ot == Departed(os, W, E)
           bt == Without(bk, W \cup E)
<1>0. \A i \in 1 .. Len(os) : \E m : Departs(r, os[i], ls[i], ot[i], m, i, W, E)
  BY DepartedFields
<1>1. \A i \in 1 .. Len(os) :
        /\ ot[i].request = os[i].request /\ ot[i].rejected = os[i].rejected
        /\ i \in W \cup E => Remaining(ot[i]) = 0
        /\ i \notin W \cup E => ot[i] = os[i]
        /\ ot[i] \in OrderType(r)
  BY <1>0 DEF Departs
<1>2. DOMAIN ot = 1 .. Len(os) /\ ot = [i \in 1 .. Len(os) |-> ot[i]]
  BY DEF Departed
<1>3. InBook(bt) \subseteq InBook(bk) \ (W \cup E)
  BY DEF InBook, Without
<1>4. Len(os) \in Nat
  BY AccountsAre
<1> HIDE DEF ot, bt
<1>5. ot \in [1 .. Len(os) -> OrderType(r)]
  BY <1>1, <1>2
<1>6. ot \in Seq(OrderType(r)) /\ Len(ot) = Len(os)
  BY <1>4, <1>5, ListOf
<1>7. Auctioned(ot) \subseteq Auctioned(os) \ (W \cup E)
  BY <1>1, <1>6 DEF Auctioned
<1> QED  BY <1>2, <1>3, <1>6, <1>7 DEF LiveOf, ot, bt

\* What is left of the swept orders was there before.
LEMMA SweptIds ==
  ASSUME NEW r, NEW os, NEW ls, NEW bk, NEW n, Accounts(r, os, ls, bk, n),
         NEW side \in Sides, NEW limit, NEW quantity \in Nat
  PROVE  InBook(Swept(bk, side, limit, quantity)) \subseteq InBook(bk)
<1>1. Records(bk) /\ \A x \in bk : x \in RestingType
  BY BookIsOrdered DEF Accounts
<1>2. \A x \in bk : \A v : [x EXCEPT !.quantity = v].id = x.id
  BY <1>1 DEF RestingType
<1>3. \A y \in Swept(bk, side, limit, quantity) : \E x \in bk : y.id = x.id
  <2> DEFINE E == Eligible(bk, side, limit)
  <2>1. Swept(bk, side, limit, quantity) =
          {Kept(x, Gave(x, quantity, E)) : x \in {x \in bk : Gave(x, quantity, E) < x.quantity}}
    BY BookIsOrdered, SweptIs
  <2> HIDE DEF E
  <2>2. \A x \in bk : Kept(x, Gave(x, quantity, E)).id = x.id
    BY <1>2 DEF Kept
  <2> QED  BY <2>1, <2>2
<1> QED  BY <1>3 DEF InBook

\* The step trades: the orders of W are prevented, g is what each order gives.
Trades(q, W, g, filled) ==
  LET n == Len(orders) + 1
  IN /\ DOMAIN orders' = 1 .. n /\ orders'[n] = Executing(q, filled)
     /\ filled \in Nat /\ filled <= q.quantity /\ ~q.auction
     /\ InBook(book') \subseteq (InBook(book) \ W)
          \cup IF q.quantity - filled > 0 /\ ~Vanishes(q) THEN {n} ELSE {}
     /\ \A i \in 1 .. Len(orders) :
          /\ orders'[i].request = orders[i].request
          /\ orders'[i].rejected = orders[i].rejected
          /\ orders'[i].expired = orders[i].expired
          /\ g[i] \in Nat /\ orders'[i].filled = orders[i].filled + g[i]
          /\ g[i] > 0 => i \in {r.id : r \in Reached(q)}
          /\ i \notin W => orders'[i].cancelled = orders[i].cancelled
          /\ Remaining(orders'[i]) <= Remaining(orders[i])

LEMMA ExecutedOrders ==
  ASSUME Books, NEW q \in RequestType(rules), SubmitExecuted(q)
  PROVE  Trades(q, Prevented(q), GivenBy(Left(q), q, Len(orders)),
                Executed(Left(q), q.side, q.price, q.quantity))
<1> DEFINE W == Prevented(q)
           os == Departed(orders, W, {})
           ls == Struck(orders, ledger, W)
           R == Left(q)
           g == GivenBy(R, q, Len(os))
           filled == Executed(R, q.side, q.price, q.quantity)
           n == Len(orders) + 1
           o == Executing(q, filled)
<1>1. /\ orders' = Append(Dealt(os, g), o)
      /\ ~q.auction /\ filled \in Nat /\ filled <= q.quantity
      /\ book' = Swept(R, q.side, q.price, q.quantity) \cup
                   IF q.quantity - filled > 0 /\ ~Vanishes(q)
                   THEN {[id |-> Len(orders) + 1, side |-> q.side, price |-> q.price,
                          arrival |-> rested + 1, quantity |-> q.quantity - filled]}
                   ELSE {}
  BY ExecutedIs
<1>2. /\ W \in SUBSET InBook(book) /\ R = Without(book, W)
      /\ Accounts(rules, os, ls, R, rested)
      /\ q.side \in Sides /\ q.quantity \in Nat \ {0}
  BY LeftIs
<1>3. \A i \in 1 .. Len(orders) :
        /\ os[i] \in OrderType(rules)
        /\ os[i].request = orders[i].request /\ os[i].filled = orders[i].filled
        /\ os[i].rejected = orders[i].rejected /\ os[i].expired = orders[i].expired
        /\ i \notin W => os[i] = orders[i]
        /\ Remaining(os[i]) <= Remaining(orders[i])
  <2> TAKE i \in 1 .. Len(orders)
  <2>1. {} \in SUBSET LiveOf(orders, book) /\ Accounts(rules, orders, ledger, book, rested)
    BY DEF Books
  <2>4. \E m : Departs(rules, orders[i], ledger[i], Departed(orders, W, {})[i], m, i, W, {})
    BY <1>2, <2>1, DepartedFields
  <2>2. /\ os[i] \in OrderType(rules)
        /\ os[i].request = orders[i].request /\ os[i].filled = orders[i].filled
        /\ os[i].rejected = orders[i].rejected
        /\ i \in W \cup {} => Remaining(os[i]) = 0
        /\ i \notin W \cup {} => os[i] = orders[i]
        /\ i \in W => os[i].expired = orders[i].expired
    BY <2>4 DEF Departs
  <2>3. Remaining(orders[i]) \in Nat
    BY BooksAre
  <2> HIDE DEF W, os
  <2> QED  BY <2>2, <2>3
<1>4. Len(os) = Len(orders) /\ DOMAIN os = 1 .. Len(orders)
  <2>1. os \in [1 .. Len(orders) -> OrderType(rules)]
    <3>1. os = [i \in 1 .. Len(orders) |-> os[i]]
      BY DEF Departed
    <3> HIDE DEF os
    <3> QED  BY <1>3, <3>1
  <2>2. Len(orders) \in Nat
    BY BooksAre
  <2> HIDE DEF os
  <2> QED  BY <2>1, <2>2, ListOf
<1> HIDE DEF W, os, ls, R, o, filled
<1>5. /\ Gives(g, os, R, q.side, q.price, q.quantity)
      /\ \A i \in 1 .. Len(os) \ {x.id : x \in Makers(R, q.side, q.price, q.quantity)} : g[i] = 0
  BY <1>2, GivenByIs
<1> HIDE DEF g
<1>6. \A i \in 1 .. Len(os) : FilledWell(rules, os[i], ls[i], g[i]) /\ g[i] \in Nat
  BY <1>2, <1>5, DealtIs
<1>7. Accounts(rules, Dealt(os, g), Dealt(ls, g), Swept(R, q.side, q.price, q.quantity), rested)
  BY <1>2, <1>5, TradeKeeps
<1>8. /\ Len(Dealt(os, g)) = Len(orders) /\ Dealt(os, g) \in Seq(OrderType(rules))
      /\ \A i \in 1 .. Len(orders) : Dealt(os, g)[i] = Filled(os[i], g[i])
  <2>1. Dealt(os, g) \in [1 .. Len(os) -> OrderType(rules)]
    BY <1>6 DEF Dealt, FilledWell
  <2> QED  BY <1>4, <2>1, BooksAre, ListOf DEF Dealt
<1>9. o \in OrderType(rules)
  BY <1>1, NewcomerIs DEF o
<1>10. /\ DOMAIN orders' = 1 .. n /\ orders'[n] = o
       /\ \A i \in 1 .. Len(orders) : orders'[i] = Filled(os[i], g[i])
  <2> DEFINE d == Dealt(os, g)
  <2>1. d \in Seq(OrderType(rules)) /\ Len(d) = Len(orders)
    BY <1>8
  <2> HIDE DEF d
  <2>2. /\ DOMAIN Append(d, o) = 1 .. Len(d) + 1 /\ Append(d, o)[Len(d) + 1] = o
        /\ \A i \in 1 .. Len(d) : Append(d, o)[i] = d[i]
    BY <1>9, <2>1, ListAnd
  <2>3. orders' = Append(d, o) /\ \A i \in 1 .. Len(orders) : d[i] = Filled(os[i], g[i])
    BY <1>1, <1>8 DEF d
  <2> QED  BY <2>1, <2>2, <2>3
<1>11. ASSUME NEW i \in 1 .. Len(orders)
       PROVE  /\ orders'[i].request = orders[i].request
              /\ orders'[i].rejected = orders[i].rejected
              /\ orders'[i].expired = orders[i].expired
              /\ g[i] \in Nat /\ orders'[i].filled = orders[i].filled + g[i]
              /\ g[i] > 0 => i \in {r.id : r \in Reached(q)}
              /\ i \notin W => orders'[i].cancelled = orders[i].cancelled
              /\ Remaining(orders'[i]) <= Remaining(orders[i])
  <2> DEFINE p == Filled(os[i], g[i])
  <2>1. /\ p.filled = os[i].filled + g[i] /\ p.request = os[i].request
        /\ p.rejected = os[i].rejected /\ p.cancelled = os[i].cancelled
        /\ p.expired = os[i].expired /\ Remaining(p) = Remaining(os[i]) - g[i]
        /\ g[i] \in Nat
    BY <1>4, <1>6 DEF FilledWell
  <2>2. orders'[i] = p
    BY <1>10
  <2> HIDE DEF p
  <2>3. Remaining(os[i]) \in Int /\ Remaining(orders[i]) \in Int
    BY <1>3, BooksAre, OrderIs
  <2>4. Remaining(orders'[i]) <= Remaining(orders[i])
    BY <1>3, <2>1, <2>2, <2>3
  <2>5. g[i] > 0 => i \in {r.id : r \in Reached(q)}
    BY <1>4, <1>5 DEF Reached, R
  <2> QED  BY <1>3, <2>1, <2>2, <2>4, <2>5
<1>12. InBook(book') \subseteq (InBook(book) \ W)
           \cup IF q.quantity - filled > 0 /\ ~Vanishes(q) THEN {n} ELSE {}
  <2>1. InBook(Swept(R, q.side, q.price, q.quantity)) \subseteq InBook(R)
    BY <1>2, SweptIds
  <2>2. InBook(R) \subseteq InBook(book) \ W
    BY <1>2 DEF InBook, Without
  <2>3. \A x \in book' : \/ x \in Swept(R, q.side, q.price, q.quantity)
                         \/ q.quantity - filled > 0 /\ ~Vanishes(q) /\ x.id = n
    BY <1>1
  <2> QED  BY <2>1, <2>2, <2>3 DEF InBook
<1>13. Trades(q, W, g, filled)
  BY <1>1, <1>10, <1>11, <1>12 DEF Trades, o
<1>14. g = GivenBy(R, q, Len(orders))
  BY <1>4 DEF g
<1> QED  BY <1>13, <1>14 DEF W, filled, R

\* The order o comes, the orders of W are cancelled and those of E expire.
Comes(o, W, E) ==
  LET n == Len(orders) + 1
  IN /\ DOMAIN orders' = 1 .. n /\ orders'[n] = o
     /\ InBook(book') \subseteq InBook(book) \ (W \cup E)
     /\ \A i \in 1 .. Len(orders) :
          /\ orders'[i].request = orders[i].request
          /\ orders'[i].rejected = orders[i].rejected
          /\ orders'[i].filled = orders[i].filled
          /\ i \notin W => orders'[i].cancelled = orders[i].cancelled
          /\ i \notin E \/ i \in W => orders'[i].expired = orders[i].expired
          /\ i \in W \cup E => Remaining(orders'[i]) = 0
          /\ i \notin W \cup E => orders'[i] = orders[i]

LEMMA ArrivalOrders ==
  ASSUME Books, NEW q \in RequestType(rules), NEW o,
         o = Rejected(q) \/ (o = Managed(q) /\ q.auction),
         NEW W, NEW E, Arrival(o, W, E)
  PROVE  Comes(o, W, E)
<1> DEFINE d == Departed(orders, W, E)
           n == Len(orders) + 1
<1>1. /\ W \in SUBSET InBook(book) /\ E \in SUBSET InBook(book)
      /\ orders' = Append(d, o) /\ book' = Without(book, W \cup E)
  BY DEF Arrival
<1>2. Accounts(rules, orders, ledger, book, rested)
  BY DEF Books
<1>3. /\ E \in SUBSET (InBook(book) \cup Auctioned(orders)) /\ E \in SUBSET LiveOf(orders, book)
  BY <1>1 DEF LiveOf
<1>4. d \in Seq(OrderType(rules)) /\ Len(d) = Len(orders)
  BY <1>1, <1>2, <1>3, DepartedLive
<1>5. ASSUME NEW i \in 1 .. Len(orders)
      PROVE  /\ d[i].request = orders[i].request /\ d[i].filled = orders[i].filled
             /\ d[i].rejected = orders[i].rejected
             /\ i \in W \cup E => Remaining(d[i]) = 0
             /\ i \notin W \cup E => d[i] = orders[i]
             /\ i \in W => d[i].expired = orders[i].expired
             /\ i \notin W => d[i].cancelled = orders[i].cancelled
  <2>1. \E m : Departs(rules, orders[i], ledger[i], Departed(orders, W, E)[i], m, i, W, E)
    BY <1>1, <1>2, <1>3, DepartedFields
  <2> QED  BY <2>1 DEF Departs
<1>6. o \in OrderType(rules)
  BY NotBooked
<1> HIDE DEF d
<1>7. /\ DOMAIN orders' = 1 .. n /\ orders'[n] = o
      /\ \A i \in 1 .. Len(orders) : orders'[i] = d[i]
  BY <1>1, <1>4, <1>6, ListAnd
<1>8. InBook(book') \subseteq InBook(book) \ (W \cup E)
  BY <1>1 DEF InBook, Without
<1> QED  BY <1>5, <1>7, <1>8 DEF Comes

-----------------------------------------------------------------------------
(* What an arriving order executes *)

LEMMA ReachedIs ==
  ASSUME Books, NEW q \in RequestType(rules)
  PROVE  LET filled == Executed(Left(q), q.side, q.price, q.quantity)
         IN /\ filled \in Nat
            /\ Reached(q) = {} => filled = 0
            /\ Reached(q) # {} => filled > 0
            /\ QuantityOf(Reached(q)) >= q.quantity => filled = q.quantity
<1> DEFINE R == Left(q)
           E == Eligible(R, q.side, q.price)
           M == {r \in E : Allotted(r, q.quantity, E) > 0}
           filled == Executed(R, q.side, q.price, q.quantity)
           w == Given(q.quantity, E)
<1>1. q.side \in Sides /\ q.quantity \in Nat \ {0}
  BY LeftIs
<1>2. Ordered(R) /\ Records(R)
  <2>1. Accounts(rules, Departed(orders, Prevented(q), {}),
                 Struck(orders, ledger, Prevented(q)), R, rested)
    BY LeftIs
  <2> HIDE DEF R
  <2> QED  BY <2>1, BookIsOrdered
<1>3. Reached(q) = M
  BY DEF Reached, Makers
<1> HIDE DEF R
<1>4. Queue(E)
  BY <1>1, <1>2, EligibleQueue
<1>5. filled = OfQuantity!Total(w, E) /\ filled \in Nat
  BY <1>1, <1>2, ExecutedIsGiven
<1>6. filled = Least(q.quantity, QuantityOf(E))
  BY DEF Executed
<1> HIDE DEF filled, E
<1>7. Counted(E) /\ \A r \in E : r.quantity \in Nat \ {0}
  BY <1>4, OrderedParts DEF Queue, Ordered
<1>8. QuantityOf(E) \in Nat
  BY <1>7, QuantityNat
<1>9. M # {} => filled > 0
  <2> SUFFICES ASSUME M # {} PROVE filled > 0
    OBVIOUS
  <2>1. PICK r \in M : TRUE
    OBVIOUS
  <2>2. r.quantity <= QuantityOf(E) /\ r.quantity > 0 /\ r.quantity \in Nat
    BY <1>7, QuantityMember
  <2> HIDE DEF M
  <2> QED  BY <1>1, <1>6, <1>7, <1>8, <2>2 DEF Least
<1>10. QuantityOf(M) >= q.quantity => filled = q.quantity
  <2>1. M \in SUBSET E
    OBVIOUS
  <2> HIDE DEF M
  <2>2. QuantityOf(M) <= QuantityOf(E) /\ QuantityOf(M) \in Nat
    BY <1>7, <2>1, QuantityPart, CountedParts, QuantityNat
  <2> QED  BY <1>1, <1>6, <1>8, <2>2 DEF Least
<1>11. M = {} => filled = 0
  <2> SUFFICES ASSUME M = {} PROVE filled = 0
    OBVIOUS
  <2>1. \A r \in E : w[r] = 0 /\ w[r] \in Int
    <3> TAKE r \in E
    <3>1. Allotted(r, q.quantity, E) \in Nat
      BY <1>1, <1>4, AllottedIs
    <3> QED  BY <3>1 DEF Given
  <2>2. OfQuantity!IsFiniteSet(E) /\ OfQuantity!IsFiniteSet({})
    BY <1>7, SumFinite, FS_EmptySet DEF Counted
  <2> HIDE DEF w
  <2>3. OfQuantity!Total(w, E) = OfQuantity!Total(w, {})
    BY <2>1, <2>2, OfQuantity!TotalWithin
  <2> QED  BY <1>5, <2>3, OfQuantity!TotalEmpty
<1> QED  BY <1>3, <1>5, <1>9, <1>10, <1>11 DEF filled, R

-----------------------------------------------------------------------------
(* The phases of the orders *)

\* An order asked for by q may be live in session s at time t.
Phase(q, s, t, f) ==
  /\ q.lifetime = "GOOD_UNTIL_TIME" => q.until > t \/ f
  /\ IF q.auction THEN s \in AcceptingStates
     ELSE /\ q.lifetime \notin {"IOC", "FOK"}
          /\ q.lifetime = "SESSION" => s = "CONTINUOUS"
          /\ q.lifetime = "DAY" => s \notin DayEnds \cup {"PREOPEN", "OPENING_AUCTION"}

InPhase(os, bk, s, t, f) == \A i \in LiveOf(os, bk) : Phase(os[i].request, s, t, f)

LEMMA PhaseIs ==
  /\ Books => (LivesInItsPhase <=> InPhase(orders, book, session, now, failed))
  /\ Books' => (LivesInItsPhase' <=> InPhase(orders', book', session', now', failed'))
<1>1. ASSUME Books PROVE LivesInItsPhase <=> InPhase(orders, book, session, now, failed)
  BY <1>1, LiveIs DEF LivesInItsPhase, InPhase, Phase
<1>2. ASSUME Books'
      PROVE  LivesInItsPhase' <=> InPhase(orders', book', session', now', failed')
  BY <1>2, LiveNext DEF LivesInItsPhase, InPhase, Phase
<1> QED  BY <1>1, <1>2

\* What a move to another session leaves is in its phase there.
LEMMA PhaseMoves ==
  ASSUME NEW q, q.auction \in BOOLEAN, NEW s \in SessionState, NEW to \in Allowed[s],
         NEW t, NEW f, Phase(q, s, t, f),
         q.auction => ~(to \in DayEnds \/ (s \in UncrossStates /\ to \notin UncrossStates)),
         ~q.auction => ~(\/ s = "CONTINUOUS" /\ q.lifetime = "SESSION"
                         \/ to \in DayEnds /\ q.lifetime \in {"DAY", "SESSION"})
  PROVE  Phase(q, to, t, f)
<1>1. CASE q.auction
  <2>1. s \in AcceptingStates /\ to \notin DayEnds /\ (s \in UncrossStates => to \in UncrossStates)
    BY <1>1 DEF Phase
  <2>2. to \in AcceptingStates
    BY <2>1 DEF SessionState, Allowed, AcceptingStates, UncrossStates, DayEnds
  <2> QED  BY <1>1, <2>2 DEF Phase
<1>2. CASE ~q.auction
  <2>1. /\ q.lifetime \notin {"IOC", "FOK"} /\ q.lifetime # "SESSION"
        /\ q.lifetime = "DAY" => /\ s \notin DayEnds \cup {"PREOPEN", "OPENING_AUCTION"}
                                 /\ to \notin DayEnds
    BY <1>2 DEF Phase
  <2>2. q.lifetime = "DAY" => to \notin DayEnds \cup {"PREOPEN", "OPENING_AUCTION"}
    BY <2>1 DEF SessionState, Allowed, DayEnds
  <2> QED  BY <1>2, <2>1, <2>2 DEF Phase
<1> QED  BY <1>1, <1>2

LEMMA LiveAre ==
  ASSUME Books
  PROVE  \A i \in LiveOf(orders, book) :
           /\ i \in 1 .. Len(orders) /\ orders[i].request \in RequestType(rules)
           /\ orders[i].request.auction \in BOOLEAN
           /\ orders[i].request.until \in Nat
           /\ orders[i].request.auction => i \in LiveInAuction
           /\ ~orders[i].request.auction => i \in LiveInBook
<1> TAKE i \in LiveOf(orders, book)
<1>1. i \in 1 .. Len(orders)
  BY InBookIs DEF LiveOf, Books
<1>2. i \in InBook(book) => ~orders[i].request.auction
  BY InBookIs DEF Books
<1>3. i \in Auctioned(orders) => orders[i].request.auction
  BY DEF Auctioned
<1>4. orders[i] \in OrderType(rules)
  BY <1>1, BooksAre
<1> QED  BY <1>1, <1>2, <1>3, <1>4, OrderIs, BooksAre DEF LiveOf

LEMMA AfterEnds ==
  ASSUME Books, StateType, NEW to \in Allowed[session], NEW t, NEW f,
         NEW i \in LiveOf(orders, book) \ EndedBy(to),
         Phase(orders[i].request, session, t, f)
  PROVE  Phase(orders[i].request, to, t, f)
<1> DEFINE q == orders[i].request
<1>1. /\ q.auction \in BOOLEAN /\ (q.auction => i \in LiveInAuction)
      /\ ~q.auction => i \in LiveInBook
  BY LiveAre
<1>2. q.auction => ~(to \in DayEnds \/ (session \in UncrossStates /\ to \notin UncrossStates))
  BY <1>1 DEF EndedBy
<1>3. ~q.auction => ~(\/ session = "CONTINUOUS" /\ q.lifetime = "SESSION"
                      \/ to \in DayEnds /\ q.lifetime \in {"DAY", "SESSION"})
  BY <1>1 DEF EndedBy
<1>4. session \in SessionState
  BY DEF StateType
<1> HIDE DEF q
<1> QED  BY <1>1, <1>2, <1>3, <1>4, PhaseMoves DEF q

\* The step changes no request, and what is live after it was live before and
\* is not in S.
Narrows(S) ==
  /\ LiveOf(orders', book') \subseteq LiveOf(orders, book) \ S
  /\ \A i \in 1 .. Len(orders) : orders'[i].request = orders[i].request

LEMMA ExpireNarrows ==
  ASSUME Books, NEW S \in SUBSET Live, Expire(S)
  PROVE  Narrows(S)
<1>1. /\ orders' = Departed(orders, {}, S) /\ book' = Without(book, S)
      /\ S \in SUBSET LiveOf(orders, book)
      /\ Accounts(rules, orders, ledger, book, rested)
  BY ExpireIs DEF LiveOf, Books
<1>2. {} \in SUBSET InBook(book) /\ {} \cup S = S
  OBVIOUS
<1>3. LiveOf(Departed(orders, {}, S), Without(book, {} \cup S))
        \subseteq LiveOf(orders, book) \ ({} \cup S)
  BY <1>1, <1>2, DepartedLive
<1>4. LiveOf(orders', book') \subseteq LiveOf(orders, book) \ S
  BY <1>1, <1>2, <1>3
<1>5. ASSUME NEW i \in 1 .. Len(orders)
      PROVE  orders'[i].request = orders[i].request
  <2>1. \E m : Departs(rules, orders[i], ledger[i], Departed(orders, {}, S)[i], m, i, {}, S)
    BY <1>1, <1>2, DepartedFields
  <2> QED  BY <1>1, <2>1 DEF Departs
<1> QED  BY <1>4, <1>5 DEF Narrows

LEMMA WithdrawNarrows ==
  ASSUME Books, NEW S \in SUBSET InBook(book), Withdraw(S)
  PROVE  Narrows(S)
<1>1. /\ orders' = Departed(orders, S, {}) /\ book' = Without(book, S)
      /\ Accounts(rules, orders, ledger, book, rested)
  BY WithdrawIs DEF Books
<1>2. {} \in SUBSET LiveOf(orders, book) /\ S \cup {} = S
  OBVIOUS
<1>3. LiveOf(Departed(orders, S, {}), Without(book, S \cup {}))
        \subseteq LiveOf(orders, book) \ (S \cup {})
  BY <1>1, <1>2, DepartedLive
<1>4. LiveOf(orders', book') \subseteq LiveOf(orders, book) \ S
  BY <1>1, <1>2, <1>3
<1>5. ASSUME NEW i \in 1 .. Len(orders)
      PROVE  orders'[i].request = orders[i].request
  <2>1. \E m : Departs(rules, orders[i], ledger[i], Departed(orders, S, {})[i], m, i, S, {})
    BY <1>1, <1>2, DepartedFields
  <2> QED  BY <1>1, <2>1 DEF Departs
<1> QED  BY <1>4, <1>5 DEF Narrows

\* Nothing new is live, in the same session and at the same time.
LEMMA NarrowsKeeps ==
  ASSUME Books, InPhase(orders, book, session, now, failed), NEW S, Narrows(S),
         session' = session, now' = now, failed' \in {failed, TRUE}
  PROVE  InPhase(orders', book', session', now', failed')
<1> SUFFICES ASSUME NEW i \in LiveOf(orders', book')
             PROVE  Phase(orders'[i].request, session', now', failed')
  BY DEF InPhase
<1>1. i \in LiveOf(orders, book) /\ i \in 1 .. Len(orders)
  BY LiveAre DEF Narrows
<1>2. orders'[i].request = orders[i].request
  BY <1>1 DEF Narrows
<1>3. Phase(orders[i].request, session, now, failed)
  BY <1>1 DEF InPhase
<1> QED  BY <1>2, <1>3 DEF Phase

\* A move to another session, or to the time t, or both.
LEMMA MovesKeep ==
  ASSUME Books, StateType, InPhase(orders, book, session, now, failed),
         NEW S, Narrows(S), NEW t \in Nat, Outlived(t) \subseteq S \/ t = now,
         now' = t, t >= now, failed' = failed,
         session' = session \/ (session' \in Allowed[session] /\ EndedBy(session') \subseteq S)
  PROVE  InPhase(orders', book', session', now', failed')
<1> SUFFICES ASSUME NEW i \in LiveOf(orders', book')
             PROVE  Phase(orders'[i].request, session', now', failed')
  BY DEF InPhase
<1>1. /\ i \in LiveOf(orders, book) /\ i \in 1 .. Len(orders) /\ i \notin S
      /\ orders[i].request.until \in Nat
  BY LiveAre DEF Narrows
<1>2. orders'[i].request = orders[i].request
  BY <1>1 DEF Narrows
<1>3. Phase(orders[i].request, session, now, failed)
  BY <1>1 DEF InPhase
<1>4. Phase(orders[i].request, session, t, failed)
  <2>1. t = now \/ i \notin Outlived(t)
    BY <1>1
  <2>2. orders[i].request.lifetime = "GOOD_UNTIL_TIME" /\ t # now => orders[i].request.until > t
    BY <1>1, <2>1, LiveIs DEF Outlived
  <2> QED  BY <1>3, <2>2 DEF Phase
<1>5. CASE session' = session
  BY <1>2, <1>4, <1>5
<1>6. CASE session' \in Allowed[session] /\ EndedBy(session') \subseteq S
  <2>1. i \in LiveOf(orders, book) \ EndedBy(session')
    BY <1>1, <1>6
  <2>2. Phase(orders[i].request, session', t, failed)
    BY <1>4, <1>6, <2>1, AfterEnds
  <2> QED  BY <1>2, <2>2
<1> QED  BY <1>5, <1>6

LEMMA TransitionPhase ==
  ASSUME Books, StateType, InPhase(orders, book, session, now, failed),
         NEW to \in SessionState, Transition(to)
  PROVE  InPhase(orders', book', session', now', failed')
<1>1. /\ to \in Allowed[session] /\ session' = to /\ Expire(EndedBy(to))
      /\ now' = now /\ failed' = failed
  BY DEF Transition
<1>2. Narrows(EndedBy(to))
  BY <1>1, ReasonsAreLive, ExpireNarrows
<1>3. now \in Nat /\ now >= now
  BY DEF StateType
<1> QED  BY <1>1, <1>2, <1>3, MovesKeep

LEMMA AdvancePhase ==
  ASSUME Books, StateType, InPhase(orders, book, session, now, failed),
         NEW t \in Nat, AdvanceTo(t)
  PROVE  InPhase(orders', book', session', now', failed')
<1>1. now' = t /\ t >= now
  BY DEF AdvanceTo
<1>2. Outlived(t) \in SUBSET Live /\ \A to : EndedBy(to) \in SUBSET Live
  BY ReasonsAreLive
<1>3. CASE Expire(Outlived(t)) /\ UNCHANGED <<session, cursor, failed>>
  <2>1. Narrows(Outlived(t))
    BY <1>2, <1>3, ExpireNarrows
  <2> QED  BY <1>1, <1>3, <2>1, MovesKeep
<1>4. CASE \E to : /\ to = session \/ to \in Allowed[session]
                   /\ session' = to /\ failed' = failed
                   /\ Expire(Outlived(t) \cup IF to = session THEN {} ELSE EndedBy(to))
  <2>1. PICK to : /\ to = session \/ to \in Allowed[session]
                  /\ session' = to /\ failed' = failed
                  /\ Expire(Outlived(t) \cup IF to = session THEN {} ELSE EndedBy(to))
    BY <1>4
  <2> DEFINE S == Outlived(t) \cup IF to = session THEN {} ELSE EndedBy(to)
  <2>2. S \in SUBSET Live
    BY <1>2
  <2>3. /\ Outlived(t) \subseteq S
        /\ session' = session \/ (session' \in Allowed[session] /\ EndedBy(session') \subseteq S)
    BY <2>1
  <2>4. Expire(S) /\ failed' = failed
    BY <2>1
  <2> HIDE DEF S
  <2>5. Narrows(S)
    BY <2>2, <2>4, ExpireNarrows
  <2> QED  BY <1>1, <2>3, <2>4, <2>5, MovesKeep
<1>5. CASE failed' = TRUE /\ UNCHANGED <<session, cursor, orders, ledger, book>>
  <2> SUFFICES ASSUME NEW i \in LiveOf(orders, book)
               PROVE  Phase(orders[i].request, session, t, TRUE)
    BY <1>1, <1>5 DEF InPhase
  <2>1. Phase(orders[i].request, session, now, failed)
    BY DEF InPhase
  <2> QED  BY <2>1 DEF Phase
<1>6. \/ Expire(Outlived(t)) /\ UNCHANGED <<session, cursor, failed>>
      \/ \E to : /\ to = session \/ to \in Allowed[session]
                 /\ session' = to /\ failed' = failed
                 /\ Expire(Outlived(t) \cup IF to = session THEN {} ELSE EndedBy(to))
      \/ failed' = TRUE /\ UNCHANGED <<session, cursor, orders, ledger, book>>
  BY DEF AdvanceTo
<1> QED  BY <1>3, <1>4, <1>5, <1>6

-----------------------------------------------------------------------------
(* Steps that cancel *)

\* No order comes, and none trades or expires.
Reduces ==
  /\ DOMAIN orders' = 1 .. Len(orders)
  /\ InBook(book') \subseteq InBook(book)
  /\ \A i \in 1 .. Len(orders) :
       /\ orders'[i].request = orders[i].request
       /\ orders'[i].filled = orders[i].filled
       /\ orders'[i].expired = orders[i].expired
       /\ orders[i].request.auction =>
            /\ orders'[i].rejected = orders[i].rejected
            /\ Remaining(orders'[i]) <= Remaining(orders[i])

LEMMA WithdrawReduces ==
  ASSUME Books, NEW S \in SUBSET InBook(book), Withdraw(S)
  PROVE  Reduces
<1>1. /\ orders' = Departed(orders, S, {}) /\ book' = Without(book, S)
      /\ Accounts(rules, orders, ledger, book, rested)
  BY WithdrawIs DEF Books
<1>2. {} \in SUBSET LiveOf(orders, book)
  OBVIOUS
<1>3. DOMAIN orders' = 1 .. Len(orders)
  BY <1>1 DEF Departed
<1>4. InBook(book') \subseteq InBook(book)
  BY <1>1 DEF InBook, Without
<1>5. ASSUME NEW i \in 1 .. Len(orders)
      PROVE  /\ orders'[i].request = orders[i].request
             /\ orders'[i].filled = orders[i].filled
             /\ orders'[i].expired = orders[i].expired
             /\ orders'[i].rejected = orders[i].rejected
             /\ Remaining(orders'[i]) <= Remaining(orders[i])
  <2>1. \E m : Departs(rules, orders[i], ledger[i], Departed(orders, S, {})[i], m, i, S, {})
    BY <1>1, <1>2, DepartedFields
  <2>2. Remaining(orders[i]) \in Nat
    BY BooksAre
  <2>3. i \in S => Remaining(orders'[i]) = 0
    BY <1>1, <2>1 DEF Departs
  <2>4. i \notin S => orders'[i] = orders[i]
    BY <1>1, <2>1 DEF Departs
  <2>5. /\ orders'[i].request = orders[i].request
        /\ orders'[i].filled = orders[i].filled
        /\ orders'[i].expired = orders[i].expired
        /\ orders'[i].rejected = orders[i].rejected
    BY <1>1, <2>1 DEF Departs
  <2> QED  BY <2>2, <2>3, <2>4, <2>5
<1> QED  BY <1>3, <1>4, <1>5 DEF Reduces

\* Auction orders are cancelled.
LEMMA WithdrawnReduces ==
  ASSUME Books, book' = book, NEW S \in SUBSET (1 .. Len(orders)),
         orders' = [i \in 1 .. Len(orders) |-> IF i \in S THEN Withdrawn(orders[i]) ELSE orders[i]]
  PROVE  Reduces
<1>1. ASSUME NEW i \in 1 .. Len(orders)
      PROVE  /\ orders'[i].request = orders[i].request
             /\ orders'[i].filled = orders[i].filled
             /\ orders'[i].expired = orders[i].expired
             /\ orders'[i].rejected = orders[i].rejected
             /\ Remaining(orders'[i]) <= Remaining(orders[i])
  <2>1. orders[i] \in OrderType(rules) /\ Remaining(orders[i]) \in Nat
    BY BooksAre
  <2>2. /\ Withdrawn(orders[i]).request = orders[i].request
        /\ Withdrawn(orders[i]).filled = orders[i].filled
        /\ Withdrawn(orders[i]).expired = orders[i].expired
        /\ Withdrawn(orders[i]).rejected = orders[i].rejected
        /\ Remaining(Withdrawn(orders[i])) = 0
    <3>1. /\ \A f \in {"request", "filled", "rejected", "expired"} :
                Withdrawn(orders[i])[f] = orders[i][f]
          /\ Remaining(Withdrawn(orders[i])) = 0
      BY <2>1, ClosedOrder
    <3> QED  BY <3>1
  <2> QED  BY <2>1, <2>2
<1>2. DOMAIN orders' = 1 .. Len(orders)
  OBVIOUS
<1> QED  BY <1>1, <1>2 DEF Reduces

LEMMA CancelReduces ==
  ASSUME Books, NEW i \in DOMAIN orders, Cancel(i)
  PROVE  Reduces \/ UNCHANGED <<orders, book>>
<1>1. CASE i \in LiveInBook /\ Withdraw({i})
  <2>1. {i} \in SUBSET InBook(book)
    BY <1>1, BooksAre
  <2> QED  BY <1>1, <2>1, WithdrawReduces
<1>2. CASE /\ i \in LiveInAuction /\ UNCHANGED <<ledger, book>>
           /\ orders' = [orders EXCEPT ![i].cancelled = @ + Remaining(orders[i])]
  <2>1. orders' = [j \in 1 .. Len(orders) |->
                     IF j \in {i} THEN Withdrawn(orders[j]) ELSE orders[j]]
    <3>1. orders \in [1 .. Len(orders) -> OrderType(rules)]
      BY AccountsAre DEF Books
    <3> QED  BY <1>2, <3>1 DEF Withdrawn
  <2>2. {i} \in SUBSET (1 .. Len(orders))
    BY BooksAre
  <2> QED  BY <1>2, <2>1, <2>2, WithdrawnReduces
<1>3. CASE UNCHANGED <<orders, ledger, book>>
  BY <1>3
<1> QED  BY <1>1, <1>2, <1>3 DEF Cancel

LEMMA ReplaceReduces ==
  ASSUME StateType, Books, position = Balance(orders), NEW i \in LiveInBook,
         NEW total \in Totals, NEW price \in Limits, Replace(i, total, price)
  PROVE  Reduces
<1>1. /\ total > ledger[i].filled
      /\ UNCHANGED <<rules, rested, position>>
      /\ Shrink(i, total, price) \/ CancelLeg(i, total, price)
  BY DEF Replace
<1>2. total \in Int
  BY RulesAre
<1>3. CASE Shrink(i, total, price)
  <2>1. /\ DOMAIN orders' = 1 .. Len(orders)
        /\ \A j \in 1 .. Len(orders) :
             /\ orders'[j].request = orders[j].request
             /\ orders'[j].filled = orders[j].filled
             /\ orders'[j].expired = orders[j].expired
             /\ j # i => orders'[j] = orders[j]
        /\ book' = {IF x.id = i THEN [x EXCEPT !.quantity = total - ledger[i].filled]
                    ELSE x : x \in book}
    BY <1>1, <1>2, <1>3, ShrinkStep
  <2>2. ~orders[i].request.auction
    BY BooksAre, InBookIs DEF Books
  <2>3. \A x \in book : \A v : [x EXCEPT !.quantity = v].id = x.id
    BY DEF Books, Accounts, RestingType
  <2>4. InBook(book') \subseteq InBook(book)
    <3> DEFINE left == total - ledger[i].filled
    <3>1. book' = {IF x.id = i THEN [x EXCEPT !.quantity = left] ELSE x : x \in book}
      BY <2>1
    <3> HIDE DEF left
    <3>2. ASSUME NEW y \in book' PROVE \E x \in book : y.id = x.id
      <4>1. PICK x \in book : y = IF x.id = i THEN [x EXCEPT !.quantity = left] ELSE x
        BY <3>1
      <4>2. [x EXCEPT !.quantity = left].id = x.id
        BY DEF Books, Accounts, RestingType
      <4> QED  BY <4>1, <4>2
    <3> QED  BY <3>2 DEF InBook
  <2>5. ASSUME NEW j \in 1 .. Len(orders), orders[j].request.auction
        PROVE  /\ orders'[j].rejected = orders[j].rejected
               /\ Remaining(orders'[j]) <= Remaining(orders[j])
    <3>1. orders'[j] = orders[j] /\ Remaining(orders[j]) \in Nat
      BY <2>1, <2>2, <2>5, BooksAre
    <3> QED  BY <3>1
  <2> QED  BY <2>1, <2>4, <2>5 DEF Reduces
<1>4. CASE CancelLeg(i, total, price)
  <2>1. Withdraw({i}) /\ {i} \in SUBSET InBook(book)
    BY <1>4, BooksAre DEF CancelLeg
  <2> QED  BY <2>1, WithdrawReduces
<1> QED  BY <1>1, <1>3, <1>4

LEMMA CrossPreventsReduces ==
  ASSUME Books, position = Balance(orders), CallInv, CrossPrevents
  PROVE  Reduces
<1> DEFINE S == Stopped(Head(call.buys), Head(call.sells))
<1>1. /\ S \in SUBSET LiveInAuction
      /\ orders' = [i \in 1 .. Len(orders) |->
                      IF i \in S THEN Withdrawn(orders[i]) ELSE orders[i]]
  BY CrossPreventsStep
<1>2. book' = book
  BY DEF CrossPrevents
<1>3. S \in SUBSET (1 .. Len(orders))
  BY <1>1, BooksAre DEF LiveInAuction
<1> HIDE DEF S
<1> QED  BY <1>1, <1>2, <1>3, WithdrawnReduces

LEMMA CrossTradesCrosses ==
  ASSUME Books, position = Balance(orders), CallInv, CrossTrades
  PROVE  LET buy == Head(call.buys)  sell == Head(call.sells)
         IN /\ Crosses(buy, sell, Least(Remaining(orders[buy]), Remaining(orders[sell])))
            /\ ~SameAccount(buy, sell) \/ Mode(orders[buy].request.account) = "NONE"
<1> DEFINE buy == Head(call.buys)
           sell == Head(call.sells)
           quantity == Least(Remaining(orders[buy]), Remaining(orders[sell]))
<1>1. /\ Crossing /\ UNCHANGED <<rules, ledger, book, rested>>
      /\ ~SameAccount(buy, sell) \/ Mode(orders[buy].request.account) = "NONE"
      /\ orders' = [orders EXCEPT ![buy].filled = @ + quantity, ![sell].filled = @ + quantity]
      /\ position' = position
           + (IF orders[buy].request.account = Player THEN quantity ELSE 0)
           - (IF orders[sell].request.account = Player THEN quantity ELSE 0)
  BY DEF CrossTrades
<1>2. /\ buy \in LiveInAuction /\ sell \in LiveInAuction
      /\ orders[buy].request.side = "BUY" /\ orders[sell].request.side = "SELL"
  BY <1>1, HeadsAre
<1>6. quantity = Least(Remaining(orders[buy]), Remaining(orders[sell]))
  OBVIOUS
<1> HIDE DEF buy, sell, quantity
<1>3. Crosses(buy, sell, quantity)
  BY <1>1, <1>2, <1>6, CrossTradesStep
<1> QED  BY <1>1, <1>3, <1>6 DEF buy, sell, quantity

\* What is live in the auctions has been live before.
LEMMA OrdersNarrow ==
  ASSUME Books, Books', DOMAIN orders' = 1 .. Len(orders), InBook(book') \subseteq InBook(book),
         \A i \in 1 .. Len(orders) :
           /\ orders'[i].request = orders[i].request
           /\ orders[i].request.auction =>
                /\ orders'[i].rejected = orders[i].rejected
                /\ Remaining(orders'[i]) <= Remaining(orders[i])
  PROVE  Narrows({})
<1>1. Len(orders') = Len(orders)
  <2>1. Len(orders) \in Nat
    BY BooksAre
  <2>2. Accounts(rules', orders', ledger', book', rested')
    BY DEF Books
  <2>3. Len(orders') \in Nat /\ DOMAIN orders' = 1 .. Len(orders')
    BY <2>2, AccountsAre
  <2> QED  BY <2>1, <2>3
<1>2. ASSUME NEW i \in Auctioned(orders')
      PROVE  i \in Auctioned(orders)
  <2>1. /\ i \in 1 .. Len(orders) /\ orders'[i].request.auction /\ ~orders'[i].rejected
        /\ Remaining(orders'[i]) > 0
    BY <1>1 DEF Auctioned
  <2>2. orders[i].request.auction /\ ~orders[i].rejected
        /\ Remaining(orders'[i]) <= Remaining(orders[i])
    BY <2>1
  <2>3. Remaining(orders[i]) \in Nat /\ Remaining(orders'[i]) \in Int
    <3>1. Accounts(rules', orders', ledger', book', rested')
      BY DEF Books
    <3> QED  BY <1>1, <2>1, <3>1, AccountsAre, BooksAre
  <2> QED  BY <2>1, <2>2, <2>3 DEF Auctioned
<1> QED  BY <1>2 DEF Narrows, LiveOf

LEMMA ReducesPhase ==
  ASSUME Books, Books', InPhase(orders, book, session, now, failed),
         Reduces \/ UNCHANGED <<orders, book>> \/ \E b, s, k : Crosses(b, s, k),
         session' = session, now' = now, failed' \in {failed, TRUE}
  PROVE  InPhase(orders', book', session', now', failed')
<1>1. \A i \in 1 .. Len(orders) : Remaining(orders[i]) \in Nat
  BY BooksAre
<1>2. CASE Reduces
  <2>1. Narrows({})
    BY <1>2, OrdersNarrow DEF Reduces
  <2> QED  BY <2>1, NarrowsKeeps
<1>3. CASE UNCHANGED <<orders, book>>
  <2>1. Narrows({})
    BY <1>3 DEF Narrows
  <2> QED  BY <2>1, NarrowsKeeps
<1>4. CASE \E b, s, k : Crosses(b, s, k)
  <2>1. PICK b, s, k : Crosses(b, s, k)
    BY <1>4
  <2>2. /\ DOMAIN orders' = 1 .. Len(orders) /\ InBook(book') \subseteq InBook(book)
        /\ k \in Nat
    BY <2>1 DEF Crosses
  <2>3. ASSUME NEW i \in 1 .. Len(orders)
        PROVE  /\ orders'[i].request = orders[i].request
               /\ orders'[i].rejected = orders[i].rejected
               /\ Remaining(orders'[i]) <= Remaining(orders[i])
    <3>1. /\ orders'[i].request = orders[i].request
          /\ orders'[i].rejected = orders[i].rejected
          /\ Remaining(orders'[i]) = Remaining(orders[i]) - IF i \in {b, s} THEN k ELSE 0
      BY <2>1 DEF Crosses
    <3> QED  BY <1>1, <2>2, <3>1
  <2>4. Narrows({})
    BY <2>2, <2>3, OrdersNarrow
  <2> QED  BY <2>4, NarrowsKeeps
<1> QED  BY <1>2, <1>3, <1>4

\* A live order after a submission is one that was live and stays so, in the
\* same session or through a halt, or the new one.
StaysOn(i) ==
  /\ i \in LiveOf(orders, book) /\ orders'[i].request = orders[i].request
  /\ \/ session' = session
     \/ /\ session = "CONTINUOUS" /\ session' = "HALTED"
        /\ i \notin EndedBy("HALTED")
Enters(i, q) ==
  /\ orders'[i].request = q /\ session' = session
  /\ Phase(q, session, now, failed)

LEMMA LengthNext ==
  ASSUME Books, Books', NEW n \in Nat, DOMAIN orders' = 1 .. n
  PROVE  Len(orders') = n /\ Auctioned(orders') \subseteq 1 .. n
<1>1. Accounts(rules', orders', ledger', book', rested')
  BY DEF Books
<1>2. Len(orders') \in Nat /\ DOMAIN orders' = 1 .. Len(orders')
  BY <1>1, AccountsAre
<1> QED  BY <1>2 DEF Auctioned

LEMMA ExecutedLive ==
  ASSUME Books, Books', NEW q \in RequestType(rules), SubmitExecuted(q),
         NEW i \in LiveOf(orders', book')
  PROVE  StaysOn(i) \/ Enters(i, q)
<1> DEFINE W == Prevented(q)
           g == GivenBy(Left(q), q, Len(orders))
           filled == Executed(Left(q), q.side, q.price, q.quantity)
           n == Len(orders) + 1
<1>1. Trades(q, W, g, filled)
  BY ExecutedOrders
<1>2. /\ session' = session /\ Valid(q) /\ ~q.auction /\ ~Refused(q)
  BY DEF SubmitExecuted
<1>3. /\ filled \in Nat /\ q.quantity \in Nat
      /\ q.lifetime = "FOK" => filled = q.quantity
  <2>1. q.lifetime = "FOK" => ~(QuantityOf(Reached(q)) < q.quantity)
    BY <1>2 DEF Refused
  <2>2. QuantityOf(Reached(q)) \in Nat /\ q.quantity \in Nat
    <3>1. Counted(Reached(q))
      <4>1. IsFiniteSet(book) /\ \A r \in book : r.quantity \in Nat
        BY DEF Books, Accounts, RestingType
      <4>2. Reached(q) \subseteq book
        BY DEF Reached, Makers, Eligible, Left
      <4> QED  BY <4>1, <4>2, FS_Subset DEF Counted
    <3> QED  BY <3>1, QuantityNat DEF RequestType
  <2>3. filled \in Nat /\ (QuantityOf(Reached(q)) >= q.quantity => filled = q.quantity)
    BY ReachedIs
  <2> HIDE DEF filled
  <2> QED  BY <2>1, <2>2, <2>3
<1>4. Len(orders) \in Nat
  BY BooksAre
<1> HIDE DEF W, g, filled
<1>5. /\ DOMAIN orders' = 1 .. n /\ orders'[n].request = q
      /\ InBook(book') \subseteq (InBook(book) \ W)
           \cup IF q.quantity - filled > 0 /\ ~Vanishes(q) THEN {n} ELSE {}
      /\ \A j \in 1 .. Len(orders) :
           /\ orders'[j].request = orders[j].request
           /\ orders'[j].rejected = orders[j].rejected
           /\ Remaining(orders'[j]) <= Remaining(orders[j])
  BY <1>1 DEF Trades, Executing
<1>6. CASE i \in InBook(book') /\ i \in InBook(book)
  <2>1. i \in 1 .. Len(orders)
    BY <1>6, InBookIs DEF Books
  <2> QED  BY <1>2, <1>5, <1>6, <2>1 DEF StaysOn, LiveOf
<1>7. CASE i \in InBook(book') /\ i \notin InBook(book)
  <2>1. i = n /\ q.quantity - filled > 0 /\ ~Vanishes(q)
    BY <1>5, <1>7
  <2>2. /\ session = "CONTINUOUS" /\ q.lifetime \notin {"IOC", "FOK"}
        /\ q.lifetime = "GOOD_UNTIL_TIME" => q.until > now
    BY <1>2, <1>3, <2>1 DEF Valid, Vanishes
  <2>3. Phase(q, session, now, failed)
    BY <1>2, <2>2 DEF Phase, DayEnds
  <2> QED  BY <1>2, <1>5, <2>1, <2>3 DEF Enters
<1>8. CASE i \in Auctioned(orders')
  <2>1. /\ i \in 1 .. n /\ orders'[i].request.auction /\ ~orders'[i].rejected
        /\ Remaining(orders'[i]) > 0
    BY <1>4, <1>5, <1>8, LengthNext DEF Auctioned
  <2>2. i \in 1 .. Len(orders)
    BY <1>2, <1>4, <1>5, <2>1
  <2>3. Remaining(orders[i]) > 0
    <3>1. Remaining(orders'[i]) \in Int /\ Remaining(orders[i]) \in Int
      <4>1. Accounts(rules', orders', ledger', book', rested')
        BY DEF Books
      <4>2. Len(orders') = n
        BY <1>4, <1>5, LengthNext
      <4> QED  BY <2>1, <2>2, <4>1, <4>2, AccountsAre, BooksAre
    <3> QED  BY <1>5, <2>1, <2>2, <3>1
  <2>4. i \in Auctioned(orders)
    BY <1>5, <2>1, <2>2, <2>3 DEF Auctioned
  <2> QED  BY <1>2, <1>5, <2>2, <2>4 DEF StaysOn, LiveOf
<1> QED  BY <1>6, <1>7, <1>8 DEF LiveOf

LEMMA ComesLive ==
  ASSUME Books, Books', NEW q \in RequestType(rules), Submit(q), ~SubmitExecuted(q),
         NEW i \in LiveOf(orders', book')
  PROVE  StaysOn(i) \/ Enters(i, q)
<1> DEFINE n == Len(orders) + 1
<1>1. PICK o, W, E :
        /\ Arrival(o, W, E)
        /\ o = Rejected(q) \/ (o = Managed(q) /\ q.auction /\ Valid(q))
        /\ \/ E = {} /\ session' = session
           \/ /\ E = EndedBy("HALTED") \ W
              /\ session = "CONTINUOUS" /\ session' = "HALTED"
              /\ o = Rejected(q)
  BY ArrivalIs
<1>2. Comes(o, W, E)
  <2>1. o = Rejected(q) \/ (o = Managed(q) /\ q.auction)
    BY <1>1
  <2> QED  BY <1>1, <2>1, ArrivalOrders
<1>3. Len(orders) \in Nat
  BY BooksAre
<1>4. /\ DOMAIN orders' = 1 .. n /\ orders'[n] = o
      /\ InBook(book') \subseteq InBook(book) \ (W \cup E)
      /\ \A j \in 1 .. Len(orders) :
           /\ orders'[j].request = orders[j].request
           /\ j \in W \cup E => Remaining(orders'[j]) = 0
           /\ j \notin W \cup E => orders'[j] = orders[j]
  BY <1>2 DEF Comes
<1>5. ASSUME i \in LiveOf(orders, book), i \notin W \cup E
      PROVE  StaysOn(i)
  <2>1. i \in 1 .. Len(orders)
    BY <1>5, LiveAre
  <2>2. orders'[i].request = orders[i].request
    BY <1>4, <2>1
  <2>3. \/ session' = session
        \/ session = "CONTINUOUS" /\ session' = "HALTED" /\ i \notin EndedBy("HALTED")
    BY <1>1, <1>5
  <2> QED  BY <1>5, <2>2, <2>3 DEF StaysOn
<1>6. CASE i \in InBook(book')
  BY <1>4, <1>5, <1>6 DEF LiveOf
<1>7. CASE i \in Auctioned(orders')
  <2>1. /\ i \in 1 .. n /\ orders'[i].request.auction /\ ~orders'[i].rejected
        /\ Remaining(orders'[i]) > 0
    BY <1>3, <1>4, <1>7, LengthNext DEF Auctioned
  <2>2. CASE i \in 1 .. Len(orders)
    <3>1. i \notin W \cup E /\ orders'[i] = orders[i]
      BY <1>4, <2>1, <2>2
    <3>2. i \in Auctioned(orders)
      BY <2>1, <2>2, <3>1 DEF Auctioned
    <3> QED  BY <1>5, <3>1, <3>2 DEF LiveOf
  <2>3. CASE i = n
    <3>1. o.request.auction /\ ~o.rejected
      BY <1>4, <2>1, <2>3
    <3>2. Rejected(q).rejected /\ Managed(q).request = q
      BY DEF Rejected, Managed
    <3>3. o = Managed(q) /\ q.auction /\ Valid(q) /\ o.request = q
      BY <1>1, <3>1, <3>2
    <3>4. session' = session
      BY <1>1, <3>1, <3>2
    <3>5. Phase(q, session, now, failed)
      BY <3>3 DEF Phase, Valid
    <3> QED  BY <1>4, <2>3, <3>3, <3>4, <3>5 DEF Enters
  <2> QED  BY <1>3, <2>1, <2>2, <2>3
<1> QED  BY <1>6, <1>7 DEF LiveOf

LEMMA SubmitPhase ==
  ASSUME Books, Books', StateType, InPhase(orders, book, session, now, failed),
         NEW q \in RequestType(rules), Submit(q), now' = now, failed' = failed
  PROVE  InPhase(orders', book', session', now', failed')
<1> SUFFICES ASSUME NEW i \in LiveOf(orders', book')
             PROVE  Phase(orders'[i].request, session', now, failed)
  BY DEF InPhase
<1>1. StaysOn(i) \/ Enters(i, q)
  BY ExecutedLive, ComesLive
<1>2. CASE StaysOn(i)
  <2>1. Phase(orders[i].request, session, now, failed)
    BY <1>2 DEF StaysOn, InPhase
  <2>2. CASE session' = session
    BY <1>2, <2>1, <2>2 DEF StaysOn
  <2>3. CASE session = "CONTINUOUS" /\ session' = "HALTED" /\ i \notin EndedBy("HALTED")
    <3>1. "HALTED" \in Allowed[session]
      BY <2>3 DEF Allowed, SessionState
    <3>2. i \in LiveOf(orders, book) \ EndedBy("HALTED")
      BY <1>2, <2>3 DEF StaysOn
    <3>3. Phase(orders[i].request, "HALTED", now, failed)
      BY <2>1, <3>1, <3>2, AfterEnds
    <3> QED  BY <1>2, <2>3, <3>3 DEF StaysOn
  <2> QED  BY <1>2, <2>2, <2>3 DEF StaysOn
<1>3. CASE Enters(i, q)
  BY <1>3 DEF Enters
<1> QED  BY <1>1, <1>2, <1>3

LEMMA PhaseStep ==
  ASSUME MechanicsInv, MechanicsInv', Next, InPhase(orders, book, session, now, failed)
  PROVE  InPhase(orders', book', session', now', failed')
<1>0. /\ StateType /\ CallInv /\ Books /\ position = Balance(orders) /\ Books'
      /\ rules' = rules
  BY TypeStep DEF MechanicsInv
<1>1. CASE \E to \in SessionState : Transition(to)
  BY <1>0, <1>1, TransitionPhase
<1>2. CASE \E t \in Times : AdvanceTo(t)
  <2>1. PICK t \in Times : AdvanceTo(t)
    BY <1>2
  <2>2. t \in Nat
    BY <1>0, RulesAre
  <2> QED  BY <1>0, <2>1, <2>2, AdvancePhase
<1>3. CASE \E q \in Requests(rules) : New(q)
  <2>1. PICK q \in Requests(rules) : New(q)
    BY <1>3
  <2>2. q \in RequestType(rules) /\ Submit(q) /\ now' = now /\ failed' = failed
    BY <1>0, <2>1, RulesAre DEF New
  <2> QED  BY <1>0, <2>2, SubmitPhase
<1>4. CASE \E i \in DOMAIN orders : Cancel(i)
  <2>1. PICK i \in DOMAIN orders : Cancel(i)
    BY <1>4
  <2>2. session' = session /\ now' = now /\ failed' \in {failed, TRUE}
    BY <2>1 DEF Cancel
  <2>3. Reduces \/ UNCHANGED <<orders, book>>
    BY <1>0, <2>1, CancelReduces
  <2> QED  BY <1>0, <2>2, <2>3, ReducesPhase
<1>5. CASE \E i \in LiveInBook, total \in Totals, price \in Limits : Replace(i, total, price)
  <2>1. PICK i \in LiveInBook, total \in Totals, price \in Limits : Replace(i, total, price)
    BY <1>5
  <2>2. session' = session /\ now' = now /\ failed' \in {failed, TRUE}
    BY <2>1 DEF Replace
  <2>3. Reduces
    BY <1>0, <2>1, ReplaceReduces
  <2> QED  BY <1>0, <2>2, <2>3, ReducesPhase
<1>6. CASE SecondLeg
  <2>1. call.kind = "replace" /\ Submit(call.request) /\ now' = now /\ failed' = failed
    BY <1>6 DEF SecondLeg
  <2>2. call.request \in RequestType(rules)
    BY <1>0, <2>1, ReplaceIs DEF CallInv
  <2> QED  BY <1>0, <2>1, <2>2, SubmitPhase
<1>7. CASE Uncross
  <2>1. /\ session' = session /\ now' = now /\ failed' \in {failed, TRUE}
        /\ UNCHANGED <<orders, book>>
    BY <1>7 DEF Uncross, trading
  <2> QED  BY <1>0, <2>1, ReducesPhase
<1>8. CASE CrossPrevents
  <2>1. session' = session /\ now' = now /\ failed' \in {failed, TRUE}
    BY <1>8 DEF CrossPrevents
  <2>2. Reduces
    BY <1>0, <1>8, CrossPreventsReduces
  <2> QED  BY <1>0, <2>1, <2>2, ReducesPhase
<1>9. CASE CrossTrades
  <2>1. session' = session /\ now' = now /\ failed' \in {failed, TRUE}
    BY <1>9 DEF CrossTrades
  <2>2. \E b, s, k : Crosses(b, s, k)
    BY <1>0, <1>9, CrossTradesCrosses
  <2> QED  BY <1>0, <2>1, <2>2, ReducesPhase
<1>10. CASE CrossEnds
  <2>1. /\ Expire(LiveInAuction) /\ session' = session /\ now' = now
        /\ failed' \in {failed, TRUE}
    BY <1>10 DEF CrossEnds
  <2>2. LiveInAuction \in SUBSET Live
    BY DEF Live
  <2>3. Narrows(LiveInAuction)
    BY <1>0, <2>1, <2>2, ExpireNarrows
  <2> QED  BY <1>0, <2>1, <2>3, NarrowsKeeps
<1> QED  BY <1>1, <1>2, <1>3, <1>4, <1>5, <1>6, <1>7, <1>8, <1>9, <1>10 DEF Next

\* A live order is in a phase its instruction is for, whatever the rules, their
\* schedule and the orders: no move of the session, commanded, scheduled or
\* forced by a price, and no advance of the clock leaves one behind that should
\* have ended, and none comes in that may not wait there (transition_session,
\* advance_to, _volatility_interruption).
THEOREM LivesOnlyInItsPhase == Spec => []LivesInItsPhase
<1> DEFINE I == InPhase(orders, book, session, now, failed)
<1>1. Init => MechanicsInv /\ LivesInItsPhase
  <2> SUFFICES ASSUME Init PROVE MechanicsInv /\ LivesInItsPhase
    OBVIOUS
  <2>1. MechanicsInv
    BY MechanicsInit
  <2>2. LiveOf(orders, book) = {}
    BY DEF Init, LiveOf, InBook, Auctioned
  <2> QED  BY <2>1, <2>2, PhaseIs DEF InPhase, MechanicsInv
<1>2. MechanicsInv /\ MechanicsInv' /\ LivesInItsPhase /\ [Next]_vars => LivesInItsPhase'
  <2> SUFFICES ASSUME MechanicsInv, MechanicsInv', LivesInItsPhase, [Next]_vars
               PROVE  LivesInItsPhase'
    OBVIOUS
  <2>1. CASE Next
    BY <2>1, PhaseStep, PhaseIs DEF MechanicsInv
  <2>2. CASE UNCHANGED vars
    <3>1. InPhase(orders', book', session', now', failed')
            <=> InPhase(orders, book, session, now, failed)
      BY <2>2 DEF vars, trading
    <3> QED  BY <3>1, PhaseIs DEF MechanicsInv
  <2> QED  BY <2>1, <2>2
<1> QED  BY <1>1, <1>2, MechanicsHolds, PTL DEF Spec

-----------------------------------------------------------------------------
(* The kinds of steps *)

\* The orders of S expire.
Lapses(S) ==
  /\ DOMAIN orders' = 1 .. Len(orders)
  /\ \A i \in 1 .. Len(orders) :
       /\ orders'[i].request = orders[i].request
       /\ orders'[i].filled = orders[i].filled
       /\ orders'[i].cancelled = orders[i].cancelled
       /\ i \notin S => orders'[i].expired = orders[i].expired

LEMMA ExpireLapses ==
  ASSUME Books, NEW S \in SUBSET Live, Expire(S)
  PROVE  Lapses(S)
<1>1. /\ orders' = Departed(orders, {}, S)
      /\ S \in SUBSET LiveOf(orders, book)
      /\ Accounts(rules, orders, ledger, book, rested)
  BY ExpireIs DEF LiveOf, Books
<1>2. {} \in SUBSET InBook(book)
  OBVIOUS
<1>3. DOMAIN orders' = 1 .. Len(orders)
  BY <1>1 DEF Departed
<1>4. ASSUME NEW i \in 1 .. Len(orders)
      PROVE  /\ orders'[i].request = orders[i].request
             /\ orders'[i].filled = orders[i].filled
             /\ orders'[i].cancelled = orders[i].cancelled
             /\ i \notin S => orders'[i].expired = orders[i].expired
  <2>1. \E m : Departs(rules, orders[i], ledger[i], Departed(orders, {}, S)[i], m, i, {}, S)
    BY <1>1, <1>2, DepartedFields
  <2> QED  BY <1>1, <2>1 DEF Departs
<1> QED  BY <1>3, <1>4 DEF Lapses

\* The ends an order's own instruction names.
Ends(i) ==
  LET q == orders[i].request
  IN \/ q.lifetime = "GOOD_UNTIL_TIME" /\ q.until = now'
     \/ /\ q.auction
        /\ \/ call.kind = "uncross"
           \/ session' \in DayEnds
           \/ session \in UncrossStates /\ session' \notin UncrossStates
     \/ /\ ~q.auction /\ q.lifetime = "SESSION"
        /\ session = "CONTINUOUS" /\ session' # "CONTINUOUS"
     \/ /\ ~q.auction /\ q.lifetime \in {"DAY", "SESSION"}
        /\ session' \in DayEnds

LEMMA EndedEnds ==
  ASSUME Books, StateType, session' \in Allowed[session], NEW i \in EndedBy(session')
  PROVE  Ends(i)
<1>1. CASE i \in LiveInBook
  <2>1. i \in InBook(book)
    BY <1>1, BooksAre
  <2>2. ~orders[i].request.auction /\ i \notin LiveInAuction
    BY <2>1, BooksAre, InBookIs DEF Books
  <2>3. session = "CONTINUOUS" => session' # "CONTINUOUS"
    BY DEF Allowed, SessionState
  <2> QED  BY <2>2, <2>3 DEF EndedBy, Ends
<1>2. CASE i \notin LiveInBook
  <2>1. /\ i \in LiveInAuction
        /\ session' \in DayEnds \/ (session \in UncrossStates /\ session' \notin UncrossStates)
    BY <1>2 DEF EndedBy
  <2>2. orders[i].request.auction
    BY <2>1 DEF LiveInAuction, InAuction
  <2> QED  BY <2>1, <2>2 DEF Ends
<1> QED  BY <1>1, <1>2

\* The clock stops at the time of the next order to expire.
LEMMA OutlivedEnds ==
  ASSUME Books, StateType, LivesInItsPhase, NEW t \in Nat, AdvanceTo(t), NEW i \in Outlived(t)
  PROVE  Ends(i)
<1>1. /\ Idle /\ now' = t /\ t >= now
      /\ \A u \in now .. t - 1 : Outlived(u) = {}
  BY DEF AdvanceTo
<1> DEFINE u == orders[i].request.until
<1>2. /\ i \in Live /\ orders[i].request.lifetime = "GOOD_UNTIL_TIME" /\ u <= t
  BY DEF Outlived
<1>3. u \in Nat /\ now \in Nat
  BY <1>2, LiveIs, LiveAre DEF StateType
<1>4. u > now
  BY <1>1, <1>2 DEF LivesInItsPhase, Idle
<1>5. u \in now .. t - 1 => i \in Outlived(u)
  BY <1>2, <1>3 DEF Outlived
<1> HIDE DEF u
<1>6. u = t
  BY <1>1, <1>2, <1>3, <1>4, <1>5
<1> QED  BY <1>1, <1>2, <1>6 DEF Ends, u

\* Two auction orders trade, not of one account that prevents it.
MayCross(b, s, k) ==
  /\ Crosses(b, s, k)
  /\ ~SameAccount(b, s) \/ Mode(orders[b].request.account) = "NONE"

LEMMA StepKinds ==
  ASSUME MechanicsInv, LivesInItsPhase, Next
  PROVE  \/ Reduces
         \/ orders' = orders
         \/ \E S : Lapses(S) /\ \A i \in S : Ends(i)
         \/ \E b, s, k : MayCross(b, s, k)
         \/ \E q \in RequestType(rules) : Submit(q)
<1>0. /\ StateType /\ CallInv /\ Books /\ position = Balance(orders)
  BY DEF MechanicsInv
<1>1. CASE \E to \in SessionState : Transition(to)
  <2>1. PICK to \in SessionState : Transition(to)
    BY <1>1
  <2>2. to \in Allowed[session] /\ session' = to /\ Expire(EndedBy(to))
    BY <2>1 DEF Transition
  <2>3. EndedBy(to) \in SUBSET Live
    BY <1>0, ReasonsAreLive
  <2>4. Lapses(EndedBy(to))
    BY <1>0, <2>2, <2>3, ExpireLapses
  <2>5. \A i \in EndedBy(to) : Ends(i)
    BY <1>0, <2>2, EndedEnds
  <2> QED  BY <2>4, <2>5
<1>2. CASE \E t \in Times : AdvanceTo(t)
  <2>1. PICK t \in Times : AdvanceTo(t)
    BY <1>2
  <2>2. t \in Nat
    BY <1>0, RulesAre
  <2>3. Outlived(t) \in SUBSET Live /\ \A to : EndedBy(to) \in SUBSET Live
    BY <1>0, ReasonsAreLive
  <2>4. \A i \in Outlived(t) : Ends(i)
    BY <1>0, <2>1, <2>2, OutlivedEnds
  <2>5. CASE Expire(Outlived(t))
    <3>1. Lapses(Outlived(t))
      BY <1>0, <2>3, <2>5, ExpireLapses
    <3> QED  BY <2>4, <3>1
  <2>6. CASE \E to : /\ to = session \/ to \in Allowed[session]
                     /\ session' = to
                     /\ Expire(Outlived(t) \cup IF to = session THEN {} ELSE EndedBy(to))
    <3>1. PICK to : /\ to = session \/ to \in Allowed[session]
                    /\ session' = to
                    /\ Expire(Outlived(t) \cup IF to = session THEN {} ELSE EndedBy(to))
      BY <2>6
    <3> DEFINE S == Outlived(t) \cup IF to = session THEN {} ELSE EndedBy(to)
    <3>2. S \in SUBSET Live /\ Expire(S)
      BY <2>3, <3>1
    <3>3. \A i \in S : Ends(i)
      <4> TAKE i \in S
      <4>1. CASE i \in Outlived(t)
        BY <2>4, <4>1
      <4>2. CASE i \notin Outlived(t)
        <5>1. to # session /\ i \in EndedBy(session') /\ session' \in Allowed[session]
          BY <3>1, <4>2
        <5> QED  BY <1>0, <5>1, EndedEnds
      <4> QED  BY <4>1, <4>2
    <3> HIDE DEF S
    <3>4. Lapses(S)
      BY <1>0, <3>2, ExpireLapses
    <3> QED  BY <3>3, <3>4
  <2>7. CASE UNCHANGED <<session, cursor, orders, ledger, book>>
    BY <2>7
  <2>8. \/ Expire(Outlived(t))
        \/ \E to : /\ to = session \/ to \in Allowed[session]
                   /\ session' = to
                   /\ Expire(Outlived(t) \cup IF to = session THEN {} ELSE EndedBy(to))
        \/ UNCHANGED <<session, cursor, orders, ledger, book>>
    BY <2>1 DEF AdvanceTo
  <2> QED  BY <2>5, <2>6, <2>7, <2>8
<1>3. CASE \E q \in Requests(rules) : New(q)
  BY <1>0, <1>3, RulesAre DEF New
<1>4. CASE \E i \in DOMAIN orders : Cancel(i)
  BY <1>0, <1>4, CancelReduces
<1>5. CASE \E i \in LiveInBook, total \in Totals, price \in Limits : Replace(i, total, price)
  BY <1>0, <1>5, ReplaceReduces
<1>6. CASE SecondLeg
  <2>1. call.kind = "replace" /\ Submit(call.request)
    BY <1>6 DEF SecondLeg
  <2>2. call.request \in RequestType(rules)
    BY <1>0, <2>1, ReplaceIs DEF CallInv
  <2> QED  BY <2>1, <2>2
<1>7. CASE Uncross
  BY <1>7 DEF Uncross, trading
<1>8. CASE CrossPrevents
  BY <1>0, <1>8, CrossPreventsReduces
<1>9. CASE CrossTrades
  BY <1>0, <1>9, CrossTradesCrosses DEF MayCross
<1>10. CASE CrossEnds
  <2>1. Expire(LiveInAuction) /\ call.kind = "uncross"
    BY <1>10 DEF CrossEnds
  <2>2. LiveInAuction \in SUBSET Live
    BY DEF Live
  <2>3. Lapses(LiveInAuction)
    BY <1>0, <2>1, <2>2, ExpireLapses
  <2>4. \A i \in LiveInAuction : Ends(i)
    BY <2>1 DEF LiveInAuction, InAuction, Ends
  <2> QED  BY <2>3, <2>4
<1> QED  BY <1>1, <1>2, <1>3, <1>4, <1>5, <1>6, <1>7, <1>8, <1>9, <1>10 DEF Next

-----------------------------------------------------------------------------
(* What the single orders gain in a step *)

\* The orders self-trade prevention cancels for q would have traded with it.
LEMMA PreventedOrders ==
  ASSUME Books, NEW q \in RequestType(rules), NEW i \in Prevented(q)
  PROVE  LET x == orders[i].request
         IN /\ x.account = q.account /\ x.side # q.side
            /\ Mode(q.account) \in {"CANCEL_RESTING", "CANCEL_BOTH"}
            /\ q.price # 0 => IF q.side = "BUY" THEN x.price <= q.price
                                                ELSE x.price >= q.price
<1>1. /\ Mode(q.account) \in {"CANCEL_RESTING", "CANCEL_BOTH"}
      /\ \E r \in OwnMakers(q) : r.id = i
  BY DEF Prevented
<1>2. PICK r \in OwnMakers(q) : r.id = i
  BY <1>1
<1>3. r \in Eligible(book, q.side, q.price) /\ orders[i].request.account = q.account
  BY <1>2 DEF OwnMakers, Makers, Account
<1>4. r \in book /\ r.side # q.side
      /\ (q.price # 0 => IF q.side = "BUY" THEN r.price <= q.price ELSE r.price >= q.price)
  BY <1>3 DEF Eligible
<1>5. orders[i].request.side = r.side /\ orders[i].request.price = r.price
  BY <1>2, <1>4 DEF Books, Accounts, RestsOf
<1> QED  BY <1>1, <1>3, <1>4, <1>5

\* Where self-trade prevention is on and has not refused q, what q reaches is
\* of other accounts; the mode CANCEL_RESTING reaches again what lay behind.
LEMMA ReachedOrders ==
  ASSUME Books, NEW q \in RequestType(rules), NEW r \in Reached(q)
  PROVE  LET x == orders[r.id].request
         IN /\ r.id \in 1 .. Len(orders) /\ ~x.auction
            /\ x.side # q.side /\ x.price = r.price
            /\ ~Refused(q) /\ x.account = q.account =>
                 Mode(q.account) \notin {"CANCEL_AGGRESSOR", "CANCEL_BOTH"}
<1>1. r \in Left(q) /\ r.side # q.side
  BY DEF Reached, Makers, Eligible
<1>2. r \in book
  BY <1>1 DEF Left
<1>3. /\ r.id \in 1 .. Len(orders) /\ orders[r.id].request.side = r.side
      /\ orders[r.id].request.price = r.price
  BY <1>2 DEF Books, Accounts, RestsOf
<1>4. ~orders[r.id].request.auction
  BY <1>2, InBookIs DEF Books
<1>5. ASSUME ~Refused(q), orders[r.id].request.account = q.account,
             Mode(q.account) \in {"CANCEL_AGGRESSOR", "CANCEL_BOTH"}
      PROVE  FALSE
  <2>1. OwnMakers(q) = {}
    BY <1>5 DEF Refused
  <2>2. Prevented(q) = {}
    BY <2>1 DEF Prevented
  <2>3. Left(q) = book
    BY <2>2 DEF Left
  <2>4. r \in Makers(book, q.side, q.price, q.quantity)
    BY <2>3 DEF Reached
  <2> QED  BY <1>5, <2>1, <2>4 DEF OwnMakers, Account
<1> QED  BY <1>1, <1>3, <1>4, <1>5

\* What a submission does to the orders: q trades, or q comes and trades not.
Executes(q) ==
  /\ SubmitExecuted(q)
  /\ Trades(q, Prevented(q), GivenBy(Left(q), q, Len(orders)),
            Executed(Left(q), q.side, q.price, q.quantity))

Waits(q, o, W, E) ==
  /\ Comes(o, W, E)
  /\ o = Rejected(q) \/ (o = Managed(q) /\ q.auction /\ Valid(q))
  /\ W \subseteq Prevented(q)
  /\ \A i \in E : Ends(i)

LEMMA SubmitKinds ==
  ASSUME Books, StateType, NEW q \in RequestType(rules), Submit(q)
  PROVE  Executes(q) \/ \E o, W, E : Waits(q, o, W, E)
<1>1. CASE SubmitExecuted(q)
  <2>1. Trades(q, Prevented(q), GivenBy(Left(q), q, Len(orders)),
               Executed(Left(q), q.side, q.price, q.quantity))
    BY <1>1, ExecutedOrders
  <2> QED  BY <1>1, <2>1 DEF Executes
<1>2. CASE ~SubmitExecuted(q)
  <2>1. PICK o, W, E :
          /\ Arrival(o, W, E)
          /\ o = Rejected(q) \/ (o = Managed(q) /\ q.auction /\ Valid(q))
          /\ W = {} \/ W = Prevented(q)
          /\ \/ E = {} /\ session' = session
             \/ /\ E = EndedBy("HALTED") \ W
                /\ session = "CONTINUOUS" /\ session' = "HALTED"
                /\ o = Rejected(q)
    BY <1>2, ArrivalIs
  <2>2. Comes(o, W, E)
    <3>1. o = Rejected(q) \/ (o = Managed(q) /\ q.auction)
      BY <2>1
    <3> QED  BY <2>1, <3>1, ArrivalOrders
  <2>3. ASSUME NEW i \in E PROVE Ends(i)
    <3>1. session = "CONTINUOUS" /\ session' = "HALTED" /\ i \in EndedBy(session')
      BY <2>1, <2>3
    <3>2. session' \in Allowed[session]
      BY <3>1 DEF Allowed, SessionState
    <3> QED  BY <3>1, <3>2, EndedEnds
  <2>4. W \subseteq Prevented(q)
    BY <2>1
  <2> QED  BY <2>1, <2>2, <2>3, <2>4 DEF Waits
<1> QED  BY <1>1, <1>2

LEMMA OldAre ==
  ASSUME Books
  PROVE  /\ Len(orders) \in Nat /\ DOMAIN orders = 1 .. Len(orders)
         /\ \A i \in 1 .. Len(orders) :
              /\ orders[i].filled \in Nat /\ orders[i].expired \in Nat
              /\ orders[i].cancelled \in Nat
<1>1. /\ Len(orders) \in Nat /\ DOMAIN orders = 1 .. Len(orders)
      /\ \A i \in 1 .. Len(orders) : orders[i] \in OrderType(rules)
  BY BooksAre
<1> QED  BY <1>1, OrderIs


\* An order that gains something has changed, or is new.
LEMMA GainsAre ==
  ASSUME Books, NEW f \in {"filled", "cancelled", "expired"}
  PROVE  /\ DOMAIN orders' = 1 .. Len(orders) =>
              /\ NewIn = {}
              /\ \A i \in Gains(f) : i \in 1 .. Len(orders) /\ orders'[i][f] # orders[i][f]
         /\ DOMAIN orders' = 1 .. Len(orders) + 1 =>
              /\ NewIn = {Len(orders) + 1}
              /\ \A i \in Gains(f) :
                   \/ i = Len(orders) + 1 /\ orders'[i][f] > 0
                   \/ i \in 1 .. Len(orders) /\ orders'[i][f] # orders[i][f]
<1>1. Len(orders) \in Nat /\ DOMAIN orders = 1 .. Len(orders)
  BY OldAre
<1>2. \A i \in 1 .. Len(orders) : orders[i][f] \in Nat
  <2>1. CASE f = "filled"
    BY <2>1, OldAre
  <2>2. CASE f = "cancelled"
    BY <2>2, OldAre
  <2>3. CASE f = "expired"
    BY <2>3, OldAre
  <2> QED  BY <2>1, <2>2, <2>3
<1>3. \A i \in 1 .. Len(orders) : ~(orders[i][f] > orders[i][f])
  BY <1>2
<1>4. ASSUME DOMAIN orders' = 1 .. Len(orders)
      PROVE  /\ NewIn = {}
             /\ \A i \in Gains(f) : i \in 1 .. Len(orders) /\ orders'[i][f] # orders[i][f]
  <2>1. NewIn = {}
    BY <1>1, <1>4 DEF NewIn
  <2>2. ASSUME NEW i \in Gains(f)
        PROVE  i \in 1 .. Len(orders) /\ orders'[i][f] # orders[i][f]
    <3>1. i \in 1 .. Len(orders) /\ orders'[i][f] > orders[i][f]
      BY <1>1, <1>4 DEF Gains
    <3> QED  BY <1>3, <3>1
  <2> QED  BY <2>1, <2>2
<1>5. ASSUME DOMAIN orders' = 1 .. Len(orders) + 1
      PROVE  /\ NewIn = {Len(orders) + 1}
             /\ \A i \in Gains(f) :
                  \/ i = Len(orders) + 1 /\ orders'[i][f] > 0
                  \/ i \in 1 .. Len(orders) /\ orders'[i][f] # orders[i][f]
  <2>1. NewIn = {Len(orders) + 1}
    BY <1>1, <1>5 DEF NewIn
  <2>2. ASSUME NEW i \in Gains(f)
        PROVE  \/ i = Len(orders) + 1 /\ orders'[i][f] > 0
               \/ i \in 1 .. Len(orders) /\ orders'[i][f] # orders[i][f]
    <3>1. i \in 1 .. Len(orders) + 1
          /\ orders'[i][f] > IF i \in 1 .. Len(orders) THEN orders[i][f] ELSE 0
      BY <1>1, <1>5 DEF Gains
    <3>2. CASE i \in 1 .. Len(orders)
      BY <1>3, <3>1, <3>2
    <3>3. CASE i \notin 1 .. Len(orders)
      <4>1. i = Len(orders) + 1
        BY <1>1, <3>1, <3>3
      <4> QED  BY <3>1, <3>3, <4>1
    <3> QED  BY <3>2, <3>3
  <2> QED  BY <2>1, <2>2
<1> QED  BY <1>4, <1>5

\* Which orders trade in a step.
LEMMA FilledGains ==
  ASSUME MechanicsInv, LivesInItsPhase, Next
  PROVE  \/ Gains("filled") = {}
         \/ \E b, s, k : MayCross(b, s, k) /\ Gains("filled") \subseteq {b, s}
         \/ \E q \in RequestType(rules) :
              /\ Executes(q)
              /\ Gains("filled") \subseteq {Len(orders) + 1} \cup {r.id : r \in Reached(q)}
<1>0. Books /\ StateType
  BY DEF MechanicsInv
<1> DEFINE n == Len(orders) + 1
<1>1. ASSUME DOMAIN orders' = 1 .. Len(orders),
             \A i \in 1 .. Len(orders) : orders'[i].filled = orders[i].filled
      PROVE  Gains("filled") = {}
  <2>1. \A i \in Gains("filled") : i \in 1 .. Len(orders) /\ orders'[i].filled # orders[i].filled
    BY <1>0, <1>1, GainsAre
  <2> QED  BY <1>1, <2>1
<1>2. CASE Reduces
  BY <1>1, <1>2 DEF Reduces
<1>3. CASE orders' = orders
  BY <1>0, <1>1, <1>3, OldAre
<1>4. CASE \E S : Lapses(S) /\ \A i \in S : Ends(i)
  BY <1>1, <1>4 DEF Lapses
<1>5. CASE \E b, s, k : MayCross(b, s, k)
  <2>1. PICK b, s, k : MayCross(b, s, k)
    BY <1>5
  <2>2. /\ DOMAIN orders' = 1 .. Len(orders)
        /\ \A i \in 1 .. Len(orders) : i \notin {b, s} => orders'[i] = orders[i]
    BY <2>1 DEF MayCross, Crosses
  <2>3. \A i \in Gains("filled") : i \in 1 .. Len(orders) /\ orders'[i].filled # orders[i].filled
    BY <1>0, <2>2, GainsAre
  <2>4. Gains("filled") \subseteq {b, s}
    BY <2>2, <2>3
  <2> QED  BY <2>1, <2>4
<1>6. ASSUME NEW q \in RequestType(rules), Executes(q)
      PROVE  Gains("filled") \subseteq {n} \cup {r.id : r \in Reached(q)}
  <2>1. PICK W, g, filled : Trades(q, W, g, filled)
    BY <1>6 DEF Executes
  <2>2. /\ DOMAIN orders' = 1 .. n
        /\ \A i \in 1 .. Len(orders) :
             /\ g[i] \in Nat /\ orders'[i].filled = orders[i].filled + g[i]
             /\ g[i] > 0 => i \in {r.id : r \in Reached(q)}
    BY <2>1 DEF Trades
  <2>3. \A i \in Gains("filled") :
          i = n \/ (i \in 1 .. Len(orders) /\ orders'[i].filled # orders[i].filled)
    BY <1>0, <2>2, GainsAre
  <2>4. \A i \in 1 .. Len(orders) : orders[i].filled \in Nat
    BY <1>0, OldAre
  <2>5. \A i \in 1 .. Len(orders) : orders'[i].filled # orders[i].filled => g[i] > 0
    BY <2>2, <2>4
  <2> QED  BY <2>2, <2>3, <2>5
<1>7. ASSUME NEW q \in RequestType(rules), NEW o, NEW W, NEW E, Waits(q, o, W, E)
      PROVE  Gains("filled") = {}
  <2>1. /\ DOMAIN orders' = 1 .. n /\ orders'[n] = o
        /\ \A i \in 1 .. Len(orders) : orders'[i].filled = orders[i].filled
        /\ o = Rejected(q) \/ o = Managed(q)
    BY <1>7 DEF Waits, Comes
  <2>2. o.filled = 0
    BY <2>1 DEF Rejected, Managed
  <2>3. \A i \in Gains("filled") :
          \/ i = n /\ orders'[i].filled > 0
          \/ i \in 1 .. Len(orders) /\ orders'[i].filled # orders[i].filled
    BY <1>0, <2>1, GainsAre
  <2> QED  BY <2>1, <2>2, <2>3
<1>8. CASE \E q \in RequestType(rules) : Submit(q)
  <2>1. PICK q \in RequestType(rules) : Submit(q)
    BY <1>8
  <2>2. Executes(q) \/ \E o, W, E : Waits(q, o, W, E)
    BY <1>0, <2>1, SubmitKinds
  <2> QED  BY <1>6, <1>7, <2>2
<1> QED  BY <1>2, <1>3, <1>4, <1>5, <1>8, StepKinds

\* What trades in an execution: the new order on one side, and what it reaches.
LEMMA Traders ==
  ASSUME Books, NEW q \in RequestType(rules), Executes(q),
         NEW i \in {Len(orders) + 1} \cup {r.id : r \in Reached(q)}
  PROVE  /\ ~orders'[i].request.auction /\ orders'[i].request.side \in Sides
         /\ i = Len(orders) + 1 => orders'[i].request = q
         /\ i # Len(orders) + 1 => /\ i \in {r.id : r \in Reached(q)}
                                   /\ orders'[i].request = orders[i].request
                                   /\ orders'[i].request.side # q.side
<1> DEFINE n == Len(orders) + 1
<1>1. PICK W, g, filled : Trades(q, W, g, filled)
  BY DEF Executes
<1>2. /\ orders'[n].request = q /\ ~q.auction
      /\ \A j \in 1 .. Len(orders) : orders'[j].request = orders[j].request
  BY <1>1 DEF Trades, Executing
<1>3. q.side \in Sides
  BY LeftIs
<1>4. CASE i = n
  BY <1>2, <1>3, <1>4
<1>5. CASE i # n
  <2>1. PICK r \in Reached(q) : i = r.id
    BY <1>5
  <2>2. /\ i \in 1 .. Len(orders) /\ ~orders[i].request.auction
        /\ orders[i].request.side # q.side
    BY <2>1, ReachedOrders
  <2>3. orders[i].request.side \in Sides
    BY <2>2, BooksAre, OrderIs
  <2> QED  BY <1>2, <1>5, <2>1, <2>2, <2>3
<1> QED  BY <1>4, <1>5

NoSelfTradeNow ==
  \A a, b \in Gains("filled") :
    LET q == orders'[a].request  x == orders'[b].request
    IN q.account = x.account /\ q.side # x.side =>
         \/ Mode(q.account) = "NONE"
         \/ Mode(q.account) = "CANCEL_RESTING" /\ ~q.auction

LEMMA NoSelfTradeStep ==
  ASSUME MechanicsInv, LivesInItsPhase, Next
  PROVE  NoSelfTradeNow
<1>0. Books /\ StateType
  BY DEF MechanicsInv
<1> SUFFICES ASSUME NEW a \in Gains("filled"), NEW b \in Gains("filled"),
                    orders'[a].request.account = orders'[b].request.account,
                    orders'[a].request.side # orders'[b].request.side
             PROVE  LET q == orders'[a].request
                    IN \/ Mode(q.account) = "NONE"
                       \/ Mode(q.account) = "CANCEL_RESTING" /\ ~q.auction
  BY DEF NoSelfTradeNow
<1>1. ASSUME NEW c, NEW s, NEW k, MayCross(c, s, k), Gains("filled") \subseteq {c, s}
      PROVE  Mode(orders'[a].request.account) = "NONE"
  <2>1. /\ c \in LiveInAuction /\ s \in LiveInAuction
        /\ \A i \in 1 .. Len(orders) : orders'[i].request = orders[i].request
        /\ ~SameAccount(c, s) \/ Mode(orders[c].request.account) = "NONE"
    BY <1>1 DEF MayCross, Crosses
  <2>2. c \in 1 .. Len(orders) /\ s \in 1 .. Len(orders)
    BY <1>0, <2>1, ReadyAre
  <2>3. a \in {c, s} /\ b \in {c, s} /\ a # b
    BY <1>1
  <2>4. SameAccount(c, s)
    BY <2>1, <2>2, <2>3 DEF SameAccount
  <2>5. orders'[a].request.account = orders[c].request.account
    BY <2>1, <2>2, <2>3, <2>4 DEF SameAccount
  <2> QED  BY <2>1, <2>4, <2>5
<1>2. ASSUME NEW q \in RequestType(rules), Executes(q),
             Gains("filled") \subseteq {Len(orders) + 1} \cup {r.id : r \in Reached(q)}
      PROVE  LET y == orders'[a].request
             IN \/ Mode(y.account) = "NONE"
                \/ Mode(y.account) = "CANCEL_RESTING" /\ ~y.auction
  <2> DEFINE n == Len(orders) + 1
  <2>1. /\ a \in {n} \cup {r.id : r \in Reached(q)}
        /\ b \in {n} \cup {r.id : r \in Reached(q)}
    BY <1>2
  <2>2. /\ ~orders'[a].request.auction /\ orders'[a].request.side \in Sides
        /\ a = n => orders'[a].request = q
        /\ a # n => /\ a \in {r.id : r \in Reached(q)}
                    /\ orders'[a].request = orders[a].request
                    /\ orders'[a].request.side # q.side
    BY <1>0, <1>2, <2>1, Traders
  <2>3. /\ orders'[b].request.side \in Sides
        /\ b = n => orders'[b].request = q
        /\ b # n => /\ b \in {r.id : r \in Reached(q)}
                    /\ orders'[b].request = orders[b].request
                    /\ orders'[b].request.side # q.side
    BY <1>0, <1>2, <2>1, Traders
  <2>4. q.side \in Sides
    BY <1>0, LeftIs
  <2>5. PICK r \in Reached(q) : /\ r.id = a \/ r.id = b
                                /\ orders[r.id].request.account = q.account
                                /\ orders'[a].request.account = q.account
    BY <2>2, <2>3, <2>4 DEF Sides
  <2>6. ~Refused(q)
    BY <1>2 DEF Executes, SubmitExecuted
  <2>7. Mode(q.account) \notin {"CANCEL_AGGRESSOR", "CANCEL_BOTH"}
    BY <1>0, <2>5, <2>6, ReachedOrders
  <2>8. Mode(q.account) \in StpMode
    <3>1. q.account \in DOMAIN rules.stp
      BY DEF RequestType
    <3> QED  BY <1>0, <3>1, RulesAre DEF Mode
  <2> QED  BY <2>2, <2>5, <2>7, <2>8 DEF StpMode
<1>3. \/ \E c, s, k : MayCross(c, s, k) /\ Gains("filled") \subseteq {c, s}
      \/ \E q \in RequestType(rules) :
           /\ Executes(q)
           /\ Gains("filled") \subseteq {Len(orders) + 1} \cup {r.id : r \in Reached(q)}
  BY FilledGains
<1> QED  BY <1>1, <1>2, <1>3

\* No account trades with itself where self-trade prevention is on, in the book
\* or in an auction, but for continuous orders in the mode CANCEL_RESTING, which
\* looks once at what the order reaches (_apply_continuous_stp,
\* _apply_auction_stp): whatever the books, the modes and the accounts.
THEOREM NoSelfTradeIsMade == Spec => NoSelfTrade
<1>1. MechanicsInv /\ LivesInItsPhase /\ [Next]_vars => [NoSelfTradeNow]_vars
  BY NoSelfTradeStep
<1> QED  BY <1>1, MechanicsHolds, LivesOnlyInItsPhase, PTL DEF Spec, NoSelfTrade, NoSelfTradeNow

\* What leaves in a step leaves at an end of its own, or is cancelled for the
\* sake of an order that comes.
LeavesNow ==
  /\ \A i \in Gains("expired") \cap DOMAIN orders : Ends(i)
  /\ \A i \in Gains("cancelled") \cap DOMAIN orders, n \in NewIn :
       LET q == orders[i].request  x == orders'[n].request
       IN /\ q.account = x.account /\ q.side # x.side
          /\ Mode(q.account) \in {"CANCEL_RESTING", "CANCEL_BOTH"}
          /\ x.price # 0 => IF x.side = "BUY" THEN q.price <= x.price
                                             ELSE q.price >= x.price

\* q comes; at most the orders of W are cancelled and those of E expire.
Displaces(q, W, E) ==
  /\ W \subseteq Prevented(q) /\ \A i \in E : Ends(i)
  /\ DOMAIN orders' = 1 .. Len(orders) + 1
  /\ orders'[Len(orders) + 1].request = q
  /\ \A i \in 1 .. Len(orders) :
       /\ i \notin E => orders'[i].expired = orders[i].expired
       /\ i \notin W => orders'[i].cancelled = orders[i].cancelled

LEMMA LeavesStep ==
  ASSUME MechanicsInv, LivesInItsPhase, Next
  PROVE  LeavesNow
<1> DEFINE n == Len(orders) + 1
<1>0. Books /\ StateType
  BY DEF MechanicsInv
<1>1. Len(orders) \in Nat /\ DOMAIN orders = 1 .. Len(orders)
  BY <1>0, OldAre
<1>2. ASSUME DOMAIN orders' = 1 .. Len(orders), NEW S, \A i \in S : Ends(i),
             \A i \in 1 .. Len(orders) :
               i \notin S => orders'[i].expired = orders[i].expired
      PROVE  LeavesNow
  <2>1. \A i \in Gains("expired") : i \in 1 .. Len(orders) /\ orders'[i].expired # orders[i].expired
    BY <1>0, <1>2, GainsAre
  <2>2. NewIn = {}
    BY <1>0, <1>2, GainsAre
  <2>3. \A i \in Gains("expired") \cap DOMAIN orders : Ends(i)
    BY <1>2, <2>1
  <2> QED  BY <2>2, <2>3 DEF LeavesNow
<1>3. CASE Reduces
  <2>1. /\ DOMAIN orders' = 1 .. Len(orders) /\ \A i \in {} : Ends(i)
        /\ \A i \in 1 .. Len(orders) :
             i \notin {} => orders'[i].expired = orders[i].expired
    BY <1>3 DEF Reduces
  <2> QED  BY <1>2, <2>1
<1>4. CASE orders' = orders
  <2>1. /\ DOMAIN orders' = 1 .. Len(orders) /\ \A i \in {} : Ends(i)
        /\ \A i \in 1 .. Len(orders) :
             i \notin {} => orders'[i].expired = orders[i].expired
    BY <1>1, <1>4
  <2> QED  BY <1>2, <2>1
<1>5. CASE \E S : Lapses(S) /\ \A i \in S : Ends(i)
  <2>1. PICK S : Lapses(S) /\ \A i \in S : Ends(i)
    BY <1>5
  <2>2. /\ DOMAIN orders' = 1 .. Len(orders)
        /\ \A i \in 1 .. Len(orders) :
             i \notin S => orders'[i].expired = orders[i].expired
    BY <2>1 DEF Lapses
  <2> QED  BY <1>2, <2>1, <2>2
<1>6. CASE \E b, s, k : MayCross(b, s, k)
  <2>1. /\ DOMAIN orders' = 1 .. Len(orders) /\ \A i \in {} : Ends(i)
        /\ \A i \in 1 .. Len(orders) :
             i \notin {} => orders'[i].expired = orders[i].expired
    BY <1>6 DEF MayCross, Crosses
  <2> QED  BY <1>2, <2>1
<1>7. ASSUME NEW q \in RequestType(rules), NEW W, NEW E, Displaces(q, W, E)
      PROVE  LeavesNow
  <2>0. /\ W \subseteq Prevented(q) /\ \A i \in E : Ends(i)
        /\ DOMAIN orders' = 1 .. n /\ orders'[n].request = q
        /\ \A i \in 1 .. Len(orders) :
             /\ i \notin E => orders'[i].expired = orders[i].expired
             /\ i \notin W => orders'[i].cancelled = orders[i].cancelled
    BY <1>7 DEF Displaces
  <2>1. n \notin DOMAIN orders
    BY <1>1
  <2>2. NewIn = {n}
    BY <1>0, <2>0, GainsAre
  <2>3. \A i \in Gains("expired") \cap DOMAIN orders : orders'[i].expired # orders[i].expired
    <3>1. \A i \in Gains("expired") :
            \/ i = n /\ orders'[i].expired > 0
            \/ i \in 1 .. Len(orders) /\ orders'[i].expired # orders[i].expired
      BY <1>0, <2>0, GainsAre
    <3> QED  BY <2>1, <3>1
  <2>4. \A i \in Gains("cancelled") \cap DOMAIN orders :
          orders'[i].cancelled # orders[i].cancelled
    <3>1. \A i \in Gains("cancelled") :
            \/ i = n /\ orders'[i].cancelled > 0
            \/ i \in 1 .. Len(orders) /\ orders'[i].cancelled # orders[i].cancelled
      BY <1>0, <2>0, GainsAre
    <3> QED  BY <2>1, <3>1
  <2>5. \A i \in Gains("expired") \cap DOMAIN orders : i \in E
    BY <1>1, <2>0, <2>3
  <2>6. \A i \in Gains("cancelled") \cap DOMAIN orders : i \in Prevented(q)
    BY <1>1, <2>0, <2>4
  <2>7. \A i \in Prevented(q) :
          LET x == orders[i].request
          IN /\ x.account = q.account /\ x.side # q.side
             /\ Mode(q.account) \in {"CANCEL_RESTING", "CANCEL_BOTH"}
             /\ q.price # 0 => IF q.side = "BUY" THEN x.price <= q.price
                                                 ELSE x.price >= q.price
    BY <1>0, PreventedOrders
  <2>8. \A i \in Gains("expired") \cap DOMAIN orders : Ends(i)
    BY <2>0, <2>5
  <2>9. ASSUME NEW i \in Gains("cancelled") \cap DOMAIN orders, NEW m \in NewIn
        PROVE  LET y == orders[i].request  x == orders'[m].request
               IN /\ y.account = x.account /\ y.side # x.side
                  /\ Mode(y.account) \in {"CANCEL_RESTING", "CANCEL_BOTH"}
                  /\ x.price # 0 => IF x.side = "BUY" THEN y.price <= x.price
                                                     ELSE y.price >= x.price
    <3>1. orders'[m].request = q
      BY <2>0, <2>2
    <3> QED  BY <2>6, <2>7, <3>1
  <2> QED  BY <2>8, <2>9, Zenon DEF LeavesNow
<1>8. ASSUME NEW q \in RequestType(rules), Executes(q)
      PROVE  LeavesNow
  <2>1. PICK g, filled : Trades(q, Prevented(q), g, filled)
    BY <1>8 DEF Executes
  <2>2. /\ DOMAIN orders' = 1 .. n /\ orders'[n].request = q
        /\ \A i \in 1 .. Len(orders) :
             /\ i \notin {} => orders'[i].expired = orders[i].expired
             /\ i \notin Prevented(q) => orders'[i].cancelled = orders[i].cancelled
    BY <2>1 DEF Trades, Executing
  <2>3. Displaces(q, Prevented(q), {})
    BY <2>2 DEF Displaces
  <2> QED  BY <1>7, <2>3
<1>9. ASSUME NEW q \in RequestType(rules), NEW o, NEW W, NEW E, Waits(q, o, W, E)
      PROVE  LeavesNow
  <2>1. /\ Comes(o, W, E) /\ W \subseteq Prevented(q) /\ \A i \in E : Ends(i)
        /\ o = Rejected(q) \/ o = Managed(q)
    BY <1>9 DEF Waits
  <2>2. o.request = q
    BY <2>1 DEF Rejected, Managed
  <2>3. /\ DOMAIN orders' = 1 .. n /\ orders'[n].request = q
        /\ \A i \in 1 .. Len(orders) :
             /\ i \notin E => orders'[i].expired = orders[i].expired
             /\ i \notin W => orders'[i].cancelled = orders[i].cancelled
    BY <2>1, <2>2 DEF Comes
  <2>4. Displaces(q, W, E)
    BY <2>1, <2>3 DEF Displaces
  <2> QED  BY <1>7, <2>4
<1>10. CASE \E q \in RequestType(rules) : Submit(q)
  <2>1. PICK q \in RequestType(rules) : Submit(q)
    BY <1>10
  <2>2. Executes(q) \/ \E o, W, E : Waits(q, o, W, E)
    BY <1>0, <2>1, SubmitKinds
  <2> QED  BY <1>8, <1>9, <2>2
<1> QED  BY <1>3, <1>4, <1>5, <1>6, <1>10, StepKinds

\* A live order leaves the market only for a reason the rules give: it expires
\* at the end its own instruction names, and is cancelled for another order
\* only where self-trade prevention is on for its account and the other order
\* would have traded with it (transition_session, advance_to,
\* _volatility_interruption, _apply_continuous_stp, uncross_auction): whatever
\* the schedule, the instructions and the orders.
THEOREM LeavesOnlyForAReason == Spec => LeavesForAReason
<1>1. MechanicsInv /\ LivesInItsPhase /\ [Next]_vars => [LeavesNow]_vars
  BY LeavesStep
<1> QED  BY <1>1, MechanicsHolds, LivesOnlyInItsPhase, PTL
         DEF Spec, LeavesForAReason, LeavesNow, Ends

-----------------------------------------------------------------------------
(* The instruction of an arriving order *)

InstructionsNow ==
  \A n \in NewIn :
    LET o == orders'[n]  q == o.request
    IN /\ q.lifetime = "FOK" => o.filled \in {0, q.quantity}
       /\ q.postOnly => o.filled = 0
       /\ q.type = "MARKETABLE_LIMIT" /\ ~o.rejected => o.filled > 0
       /\ \A i \in Gains("filled") \ {n} :
            /\ ~Beyond(orders[i].request.price, rules.collar)
            /\ ~Beyond(orders[i].request.price, rules.volatility)

LEMMA ExecutedWell ==
  ASSUME Books, NEW q \in RequestType(rules), ~Refused(q)
  PROVE  LET filled == Executed(Left(q), q.side, q.price, q.quantity)
         IN /\ q.lifetime = "FOK" => filled = q.quantity
            /\ q.postOnly => filled = 0
            /\ q.type = "MARKETABLE_LIMIT" => filled > 0
<1> DEFINE filled == Executed(Left(q), q.side, q.price, q.quantity)
<1>1. /\ q.lifetime = "FOK" => ~(QuantityOf(Reached(q)) < q.quantity)
      /\ q.postOnly => Reached(q) = {}
      /\ q.type = "MARKETABLE_LIMIT" => Reached(q) # {}
  BY DEF Refused
<1>2. QuantityOf(Reached(q)) \in Nat /\ q.quantity \in Nat
  <2>1. IsFiniteSet(book) /\ \A r \in book : r.quantity \in Nat
    BY DEF Books, Accounts, RestingType
  <2>2. Reached(q) \subseteq book
    BY DEF Reached, Makers, Eligible, Left
  <2>3. Counted(Reached(q))
    BY <2>1, <2>2, FS_Subset DEF Counted
  <2> QED  BY <2>3, QuantityNat DEF RequestType
<1>3. /\ Reached(q) = {} => filled = 0
      /\ Reached(q) # {} => filled > 0
      /\ QuantityOf(Reached(q)) >= q.quantity => filled = q.quantity
  BY ReachedIs
<1> HIDE DEF filled
<1>4. q.lifetime = "FOK" => QuantityOf(Reached(q)) >= q.quantity
  BY <1>1, <1>2
<1> QED  BY <1>1, <1>3, <1>4 DEF filled

LEMMA InstructionsStep ==
  ASSUME MechanicsInv, LivesInItsPhase, Next
  PROVE  InstructionsNow
<1> DEFINE n == Len(orders) + 1
<1>0. Books /\ StateType
  BY DEF MechanicsInv
<1>1. Len(orders) \in Nat /\ DOMAIN orders = 1 .. Len(orders)
  BY <1>0, OldAre
<1>2. ASSUME DOMAIN orders' = 1 .. Len(orders)
      PROVE  InstructionsNow
  <2>1. NewIn = {}
    BY <1>0, <1>2, GainsAre
  <2> QED  BY <2>1 DEF InstructionsNow
<1>3. ASSUME NEW q \in RequestType(rules), Executes(q)
      PROVE  InstructionsNow
  <2> DEFINE filled == Executed(Left(q), q.side, q.price, q.quantity)
  <2>1. PICK g : Trades(q, Prevented(q), g, filled)
    BY <1>3 DEF Executes
  <2>2. ~Refused(q) /\ ~Interrupted(q)
    BY <1>3 DEF Executes, SubmitExecuted
  <2>3. /\ q.lifetime = "FOK" => filled = q.quantity
        /\ q.postOnly => filled = 0
        /\ q.type = "MARKETABLE_LIMIT" => filled > 0
    BY <1>0, <2>2, ExecutedWell
  <2> HIDE DEF filled
  <2>4. /\ DOMAIN orders' = 1 .. n
        /\ orders'[n].request = q /\ orders'[n].filled = filled
        /\ \A i \in 1 .. Len(orders) :
             /\ g[i] \in Nat /\ orders'[i].filled = orders[i].filled + g[i]
             /\ g[i] > 0 => i \in {r.id : r \in Reached(q)}
    BY <2>1 DEF Trades, Executing
  <2>5. NewIn = {n}
    BY <1>0, <2>4, GainsAre
  <2>6. ASSUME NEW i \in Gains("filled") \ {n}
        PROVE  /\ ~Beyond(orders[i].request.price, rules.collar)
               /\ ~Beyond(orders[i].request.price, rules.volatility)
    <3>1. \/ i = n /\ orders'[i].filled > 0
          \/ i \in 1 .. Len(orders) /\ orders'[i].filled # orders[i].filled
      BY <1>0, <2>4, <2>6, GainsAre
    <3>2. i \in 1 .. Len(orders) /\ orders'[i].filled # orders[i].filled
      BY <2>6, <3>1
    <3>3. orders[i].filled \in Nat
      BY <1>0, <3>2, OldAre
    <3>4. g[i] > 0
      BY <2>4, <3>2, <3>3
    <3>5. PICK r \in Reached(q) : r.id = i
      BY <2>4, <3>2, <3>4
    <3>6. orders[i].request.price = r.price
      BY <1>0, <3>5, ReachedOrders
    <3>7. ~Beyond(r.price, rules.collar) /\ ~Beyond(r.price, rules.volatility)
      BY <2>2 DEF Refused, Interrupted
    <3> QED  BY <3>6, <3>7
  <2> QED  BY <2>3, <2>4, <2>5, <2>6 DEF InstructionsNow
<1>4. ASSUME NEW q \in RequestType(rules), NEW o, NEW W, NEW E, Waits(q, o, W, E)
      PROVE  InstructionsNow
  <2>1. /\ DOMAIN orders' = 1 .. n /\ orders'[n] = o
        /\ \A i \in 1 .. Len(orders) : orders'[i].filled = orders[i].filled
        /\ o = Rejected(q) \/ (o = Managed(q) /\ q.auction /\ Valid(q))
    BY <1>4 DEF Waits, Comes
  <2>2. o.filled = 0 /\ o.request = q /\ (o = Rejected(q) => o.rejected)
    BY <2>1 DEF Rejected, Managed
  <2>3. q.type = "MARKETABLE_LIMIT" => o.rejected
    BY <2>1, <2>2 DEF Valid
  <2>4. NewIn = {n}
    BY <1>0, <2>1, GainsAre
  <2>5. \A i \in Gains("filled") :
          \/ i = n /\ orders'[i].filled > 0
          \/ i \in 1 .. Len(orders) /\ orders'[i].filled # orders[i].filled
    BY <1>0, <2>1, GainsAre
  <2>6. Gains("filled") \ {n} = {}
    BY <2>1, <2>5
  <2> QED  BY <2>1, <2>2, <2>3, <2>4, <2>6 DEF InstructionsNow
<1>5. CASE \E q \in RequestType(rules) : Submit(q)
  <2>1. PICK q \in RequestType(rules) : Submit(q)
    BY <1>5
  <2>2. Executes(q) \/ \E o, W, E : Waits(q, o, W, E)
    BY <1>0, <2>1, SubmitKinds
  <2> QED  BY <1>3, <1>4, <2>2
<1>6. ASSUME \/ Reduces \/ orders' = orders
             \/ \E S : Lapses(S) /\ \A i \in S : Ends(i)
             \/ \E b, s, k : MayCross(b, s, k)
      PROVE  InstructionsNow
  <2>1. DOMAIN orders' = 1 .. Len(orders)
    BY <1>1, <1>6 DEF Reduces, Lapses, MayCross, Crosses
  <2> QED  BY <1>2, <2>1
<1> QED  BY <1>5, <1>6, StepKinds

\* An arriving order keeps its instruction, also when self-trade prevention has
\* changed the book under it (submit): whatever the book, the limits of the
\* rules and the instruction.
THEOREM InstructionsAreKept == Spec => InstructionsKept
<1>1. MechanicsInv /\ LivesInItsPhase /\ [Next]_vars => [InstructionsNow]_vars
  BY InstructionsStep
<1> QED  BY <1>1, MechanicsHolds, LivesOnlyInItsPhase, PTL
         DEF Spec, InstructionsKept, InstructionsNow

-----------------------------------------------------------------------------
(* What an uncross trades *)

\* What is left of the orders along a list, and the orders on it.
LeftAlong(os, list) == MapThenSumSet(LAMBDA k : Remaining(os[list[k]]), DOMAIN list)
Listed(list) == {list[k] : k \in DOMAIN list}

LEMMA AlongTotal ==
  ASSUME NEW os, NEW list, IsFiniteSet(DOMAIN list)
  PROVE  LeftAlong(os, list) =
           OfQuantity!Total([k \in DOMAIN list |-> Remaining(os[list[k]])], DOMAIN list)
<1> DEFINE L == DOMAIN list
           w == [k \in L |-> Remaining(os[list[k]])]
           P(f) == f = [s \in SUBSET L |->
              IF s = {} THEN 0
              ELSE Remaining(os[list[OfQuantity!First(s)]]) + f[s \ {OfQuantity!First(s)}]]
           i == CHOOSE f : P(f)
<1>1. LeftAlong(os, list) = i[L]
  BY DEF LeftAlong, OfQuantity!First, MapThenSumSet, MapThenFoldSet
<1>2. \A f : P(f) <=> OfQuantity!IsIter(f, w, L)
  <2>1. \A s \in SUBSET L : s # {} =>
          w[OfQuantity!First(s)] = Remaining(os[list[OfQuantity!First(s)]])
    BY OfQuantity!FirstIn
  <2> TAKE f
  <2> HIDE DEF w, L
  <2>2. [s \in SUBSET L |-> IF s = {} THEN 0
                            ELSE Remaining(os[list[OfQuantity!First(s)]])
                                   + f[s \ {OfQuantity!First(s)}]]
          = [s \in SUBSET L |-> IF s = {} THEN 0
                                ELSE w[OfQuantity!First(s)] + f[s \ {OfQuantity!First(s)}]]
    BY <2>1
  <2> QED  BY <2>2 DEF OfQuantity!IsIter
<1>3. OfQuantity!IsFiniteSet(L)
  BY SumFinite
<1> HIDE DEF w, P, L
<1>4. OfQuantity!IsIter(OfQuantity!Iter(w, L), w, L)
  BY <1>3, OfQuantity!IterExists
<1>5. P(i)
  BY <1>2, <1>4
<1>6. OfQuantity!IsIter(i, w, L)
  BY <1>2, <1>5
<1> HIDE DEF i
<1>7. i[L] = OfQuantity!Iter(w, L)[L]
  BY <1>3, <1>4, <1>6, OfQuantity!IterUnique
<1>8. i[L] = OfQuantity!Total(w, L)
  BY <1>7, OfQuantity!TotalIsIter
<1> QED  BY <1>1, <1>8 DEF w, L

\* All orders of the sequence have a remainder to speak of.
Restful(os) == \A i \in 1 .. Len(os) : Remaining(os[i]) \in Nat

\* A list counts each of its orders once.
LEMMA AlongIs ==
  ASSUME NEW os, Restful(os), NEW side, NEW list, Lined(os, side, list)
  PROVE  /\ IsFiniteSet(Listed(list)) /\ OfQuantity!IsFiniteSet(Listed(list))
         /\ Listed(list) \in SUBSET (1 .. Len(os))
         /\ \A i \in Listed(list) : os[i].request.side = side
         /\ \A i \in Listed(list) : Rests(os)[i] = Remaining(os[i]) /\ Remaining(os[i]) \in Nat
         /\ LeftAlong(os, list) = OfQuantity!Total(Rests(os), Listed(list))
         /\ LeftAlong(os, list) \in Nat
<1> DEFINE L == DOMAIN list
           v == [k \in L |-> Remaining(os[list[k]])]
           w == Rests(os)
<1>1. /\ list \in Seq(Auctioned(os)) /\ \A k \in 1 .. Len(list) : os[list[k]].request.side = side
      /\ \A j, k \in 1 .. Len(list) : list[j] = list[k] => j = k
  BY DEF Lined
<1>2. L = 1 .. Len(list) /\ Len(list) \in Nat /\ \A k \in L : list[k] \in Auctioned(os)
  BY <1>1, ListIs
<1>3. \A k \in L : list[k] \in 1 .. Len(os)
  BY <1>2 DEF Auctioned
<1>4. IsFiniteSet(L)
  <2>1. 1 \in Int /\ Len(list) \in Int
    BY <1>2
  <2> QED  BY <1>2, <2>1, FS_Interval
<1>5. Listed(list) \in SUBSET (1 .. Len(os)) /\ \A i \in Listed(list) : os[i].request.side = side
  BY <1>1, <1>2, <1>3 DEF Listed
<1>6. \A i \in 1 .. Len(os) : w[i] = Remaining(os[i]) /\ Remaining(os[i]) \in Nat
  BY DEF Restful, Rests
<1>7. \A k \in L : v[k] = w[list[k]] /\ v[k] \in Int
  BY <1>3, <1>6
<1>8. LeftAlong(os, list) = OfQuantity!Total(v, L)
  BY <1>4, AlongTotal
<1>9. \A j, k \in L : list[j] = list[k] => j = k
  BY <1>1, <1>2
<1>10. Listed(list) = {list[k] : k \in L}
  BY DEF Listed
<1>11. OfQuantity!IsFiniteSet(L)
  BY <1>4, SumFinite
<1> HIDE DEF L, v, w
<1>12. /\ OfQuantity!IsFiniteSet({list[k] : k \in L})
       /\ OfQuantity!Total(w, {list[k] : k \in L}) = OfQuantity!Total(v, L)
  BY <1>7, <1>9, <1>11, OfQuantity!TotalImage
<1>13. IsFiniteSet(Listed(list)) /\ OfQuantity!IsFiniteSet(Listed(list))
  BY <1>10, <1>12, SumFinite
<1>14. \A i \in Listed(list) : w[i] = Remaining(os[i]) /\ Remaining(os[i]) \in Nat
  BY <1>5, <1>6
<1>15. OfQuantity!Total(w, Listed(list)) \in Nat
  BY <1>13, <1>14, OfQuantity!TotalNat
<1> QED  BY <1>5, <1>8, <1>10, <1>12, <1>13, <1>14, <1>15 DEF w

LEMMA OnwardListed ==
  ASSUME NEW os, NEW side, NEW list, Lined(os, side, list), list # <<>>
  PROVE  /\ Head(list) \in Listed(list)
         /\ Listed(Tail(list)) = Listed(list) \ {Head(list)}
<1> DEFINE n == Len(list)
           t == Tail(list)
<1>1. /\ list \in Seq(Auctioned(os)) /\ n \in Nat \ {0} /\ Head(list) = list[1]
      /\ t \in Seq(Auctioned(os)) /\ Len(t) = n - 1
      /\ \A k \in 1 .. n - 1 : t[k] = list[k + 1]
  BY ListTail DEF Lined
<1>2. DOMAIN list = 1 .. n /\ DOMAIN t = 1 .. n - 1
  BY <1>1, ListIs
<1>3. \A j, k \in 1 .. n : list[j] = list[k] => j = k
  BY DEF Lined
<1> HIDE DEF n, t
<1>4. \A k \in 1 .. n - 1 : k + 1 \in 1 .. n /\ k + 1 # 1
  BY <1>1
<1>5. \A k \in 1 .. n : k # 1 => k - 1 \in 1 .. n - 1 /\ (k - 1) + 1 = k
  BY <1>1
<1>6. 1 \in 1 .. n
  BY <1>1
<1>7. Listed(t) \subseteq Listed(list) \ {Head(list)}
  <2> SUFFICES ASSUME NEW k \in 1 .. n - 1 PROVE t[k] \in Listed(list) \ {Head(list)}
    BY <1>2 DEF Listed
  <2>1. t[k] = list[k + 1] /\ k + 1 \in 1 .. n /\ k + 1 # 1
    BY <1>1, <1>4
  <2> QED  BY <1>1, <1>2, <1>3, <1>6, <2>1 DEF Listed
<1>8. Listed(list) \ {Head(list)} \subseteq Listed(t)
  <2> SUFFICES ASSUME NEW k \in 1 .. n, list[k] # Head(list) PROVE list[k] \in Listed(t)
    BY <1>2 DEF Listed
  <2>1. k # 1
    BY <1>1
  <2>2. k - 1 \in 1 .. n - 1 /\ t[k - 1] = list[k]
    BY <1>1, <1>5, <2>1
  <2> QED  BY <1>2, <2>2 DEF Listed
<1> QED  BY <1>1, <1>2, <1>6, <1>7, <1>8 DEF Listed, t

\* The head of the list has traded q, the others on its side are as before, and
\* the list has moved on.
Turned(os, ot, side, list, on, q) ==
  /\ Restful(os) /\ Restful(ot) /\ Len(ot) = Len(os)
  /\ Lined(os, side, list) /\ list # <<>> /\ Lined(ot, side, on)
  /\ on = IF Remaining(ot[Head(list)]) = 0 THEN Tail(list) ELSE list
  /\ q \in Nat /\ Remaining(ot[Head(list)]) = Remaining(os[Head(list)]) - q
  /\ \A i \in 1 .. Len(os) :
       os[i].request.side = side /\ i # Head(list) => ot[i] = os[i]

\* One turn takes from a list what its head trades.
LEMMA OnwardLeft ==
  ASSUME NEW os, NEW ot, NEW side, NEW list, NEW on, NEW q, Turned(os, ot, side, list, on, q)
  PROVE  LeftAlong(ot, on) = LeftAlong(os, list) - q
<1> DEFINE h == Head(list)
           L == Listed(list)
           R == L \ {h}
           v == Rests(os)
           w == Rests(ot)
<1>0. /\ Restful(os) /\ Restful(ot) /\ Len(ot) = Len(os)
      /\ Lined(os, side, list) /\ list # <<>> /\ Lined(ot, side, on)
      /\ on = IF Remaining(ot[h]) = 0 THEN Tail(list) ELSE list
      /\ q \in Nat /\ Remaining(ot[h]) = Remaining(os[h]) - q
      /\ \A i \in 1 .. Len(os) : os[i].request.side = side /\ i # h => ot[i] = os[i]
  BY DEF Turned
<1>1. /\ OfQuantity!IsFiniteSet(L) /\ IsFiniteSet(L) /\ L \in SUBSET (1 .. Len(os))
      /\ \A i \in L : os[i].request.side = side
      /\ \A i \in L : v[i] = Remaining(os[i]) /\ Remaining(os[i]) \in Nat
      /\ LeftAlong(os, list) = OfQuantity!Total(v, L)
  BY <1>0, AlongIs
<1>2. LeftAlong(ot, on) = OfQuantity!Total(w, Listed(on))
  BY <1>0, AlongIs
<1>3. h \in L /\ Listed(Tail(list)) = R
  BY <1>0, OnwardListed
<1>4. \A i \in 1 .. Len(os) : w[i] = Remaining(ot[i]) /\ Remaining(ot[i]) \in Nat
  BY <1>0 DEF Rests, Restful
<1>5. \A i \in R : v[i] = w[i] /\ v[i] \in Int
  BY <1>0, <1>1, <1>4
<1>6. v[h] = Remaining(os[h]) /\ w[h] = Remaining(ot[h]) /\ v[h] \in Nat /\ w[h] \in Nat
      /\ w[h] = v[h] - q
  BY <1>0, <1>1, <1>3, <1>4
<1>7. on = IF w[h] = 0 THEN Tail(list) ELSE list
  BY <1>0, <1>6
<1>8. \A i \in L : v[i] \in Int /\ w[i] \in Int
  BY <1>0, <1>1, <1>4
<1> HIDE DEF h, L, v, w
<1>9. OfQuantity!IsFiniteSet(R)
  BY <1>1, FS_Subset, SumFinite
<1>10. OfQuantity!Total(v, L) = v[h] + OfQuantity!Total(v, R)
  BY <1>1, <1>3, <1>8, OfQuantity!TotalRemove
<1>11. OfQuantity!Total(w, L) = w[h] + OfQuantity!Total(w, R)
  BY <1>1, <1>3, <1>8, OfQuantity!TotalRemove
<1> HIDE DEF R
<1>12. OfQuantity!Total(v, R) = OfQuantity!Total(w, R)
  BY <1>5, <1>9, OfQuantity!TotalSame
<1>13. OfQuantity!Total(v, R) \in Int
  BY <1>5, <1>9, OfQuantity!TotalInt
<1>14. CASE w[h] = 0
  <2>1. LeftAlong(ot, on) = OfQuantity!Total(w, R)
    BY <1>2, <1>3, <1>7, <1>14
  <2> QED  BY <1>0, <1>1, <1>6, <1>10, <1>12, <1>13, <1>14, <2>1
<1>15. CASE w[h] # 0
  <2>1. LeftAlong(ot, on) = OfQuantity!Total(w, L)
    BY <1>2, <1>7, <1>15 DEF L
  <2> QED  BY <1>0, <1>1, <1>6, <1>10, <1>11, <1>12, <1>13, <2>1
<1> QED  BY <1>14, <1>15

\* More orders ready on a side are more volume.
LEMMA VolumeMonotone ==
  ASSUME Books, NEW side, NEW p, NEW r, Ready(side, p) \subseteq Ready(side, r)
  PROVE  Volume(side, p) <= Volume(side, r)
<1> DEFINE A == Ready(side, p)
           B == Ready(side, r)
           w == Rests(orders)
<1>1. /\ IsFiniteSet(A) /\ IsFiniteSet(B) /\ B \in SUBSET (1 .. Len(orders))
  BY ReadyAre
<1>2. \A i \in B : w[i] \in Nat
  BY <1>1, BooksAre DEF Rests
<1>3. /\ Volume(side, p) = OfQuantity!Total(w, A) /\ Volume(side, r) = OfQuantity!Total(w, B)
      /\ Volume(side, p) \in Nat /\ Volume(side, r) \in Nat
  BY VolumeIs
<1>4. A \subseteq B
  OBVIOUS
<1> HIDE DEF A, B, w
<1> DEFINE C == B \ A
<1>5. OfQuantity!IsFiniteSet(A) /\ OfQuantity!IsFiniteSet(C)
  BY <1>1, FS_Difference, SumFinite
<1>6. A \cap C = {} /\ A \cup C = B /\ \A i \in A \cup C : w[i] \in Int
  BY <1>2, <1>4
<1>7. \A i \in C : w[i] \in Nat
  BY <1>2
<1> HIDE DEF C
<1>8. OfQuantity!Total(w, A \cup C) = OfQuantity!Total(w, A) + OfQuantity!Total(w, C)
  BY <1>5, <1>6, OfQuantity!TotalUnion
<1>9. OfQuantity!Total(w, C) \in Nat
  BY <1>5, <1>7, OfQuantity!TotalNat
<1> QED  BY <1>3, <1>6, <1>8, <1>9

\* At some candidate every order is ready that is ready at the price p.
LEMMA CandidateCovers ==
  ASSUME Books, StateType, NEW p \in Nat \ {0}
  PROVE  \E r \in Candidates : /\ Ready("BUY", p) \subseteq Ready("BUY", r)
                               /\ Ready("SELL", p) \subseteq Ready("SELL", r)
<1> DEFINE price(i) == orders[i].request.price
           Of(side) == {price(i) : i \in Ready(side, p)} \ {0}
<1>1. \A i \in LiveInAuction : price(i) \in Nat
  BY BooksAre, OrderIs, ReadyAre
<1>2. \A side : Ready(side, p) \subseteq LiveInAuction
  BY DEF Ready
<1>3. \A side : \A r \in Of(side) : r \in Candidates /\ r \in Nat \ {0}
  BY <1>1, <1>2 DEF Candidates
<1>4. \A r, i : i \in Ready("BUY", r) <=>
        /\ i \in LiveInAuction /\ orders[i].request.side = "BUY"
        /\ price(i) = 0 \/ price(i) >= r
  BY DEF Ready, Marketable
<1>5. \A r, i : i \in Ready("SELL", r) <=>
        /\ i \in LiveInAuction /\ orders[i].request.side = "SELL"
        /\ price(i) = 0 \/ price(i) <= r
  BY DEF Ready, Marketable
<1>6. CASE Of("BUY") # {}
  <2>1. PICK r \in Of("BUY") : \A y \in Of("BUY") : r <= y
    <3>1. Of("BUY") \subseteq Nat
      BY <1>3
    <3> HIDE DEF Of
    <3> QED  BY <1>6, <3>1, OfQuantity!LeastNatural
  <2>2. r \in Candidates /\ r \in Nat \ {0} /\ r >= p
    <3>1. PICK i \in Ready("BUY", p) : r = price(i) /\ r # 0
      BY <2>1
    <3> QED  BY <1>3, <1>4, <2>1, <3>1
  <2>3. ASSUME NEW i \in Ready("BUY", p) PROVE i \in Ready("BUY", r)
    <3>1. price(i) # 0 => price(i) \in Of("BUY")
      BY <2>3
    <3>2. price(i) = 0 \/ price(i) >= r
      BY <1>1, <1>2, <2>1, <2>2, <3>1
    <3> QED  BY <1>4, <2>3, <3>2
  <2>4. ASSUME NEW i \in Ready("SELL", p) PROVE i \in Ready("SELL", r)
    <3>1. price(i) \in Nat /\ (price(i) = 0 \/ price(i) <= p)
      BY <1>1, <1>2, <1>5
    <3>2. price(i) = 0 \/ price(i) <= r
      BY <2>2, <3>1
    <3> QED  BY <1>5, <2>4, <3>2
  <2> QED  BY <2>2, <2>3, <2>4
<1>7. CASE Of("BUY") = {} /\ Of("SELL") # {}
  <2> DEFINE D == {p - y : y \in Of("SELL")}
  <2>1. \A y \in Of("SELL") : y \in Nat /\ y <= p
    <3> TAKE y \in Of("SELL")
    <3>1. PICK i \in Ready("SELL", p) : y = price(i) /\ y # 0
      OBVIOUS
    <3> QED  BY <1>3, <1>5, <3>1
  <2>2. D \subseteq Nat /\ D # {}
    BY <1>7, <2>1
  <2>3. PICK m \in D : \A y \in D : m <= y
    <3> HIDE DEF D
    <3> QED  BY <2>2, OfQuantity!LeastNatural
  <2>4. PICK r \in Of("SELL") : m = p - r
    BY <2>3
  <2>5. ASSUME NEW y \in Of("SELL") PROVE y <= r
    <3>1. p - y \in D /\ y \in Nat /\ r \in Nat
      BY <2>1, <2>4
    <3>2. p - r <= p - y
      BY <2>3, <2>4, <3>1
    <3> HIDE DEF Of
    <3> QED  BY <3>1, <3>2
  <2>6. r \in Candidates /\ r \in Nat
    BY <1>3, <2>4
  <2>7. ASSUME NEW i \in Ready("SELL", p) PROVE i \in Ready("SELL", r)
    <3>1. price(i) = 0 \/ price(i) \in Of("SELL")
      BY <2>7
    <3> QED  BY <1>5, <2>5, <2>7, <3>1
  <2>8. ASSUME NEW i \in Ready("BUY", p) PROVE i \in Ready("BUY", r)
    <3>1. price(i) = 0
      BY <1>7, <2>8
    <3> QED  BY <1>4, <2>8, <3>1
  <2> QED  BY <2>6, <2>7, <2>8
<1>8. CASE Of("BUY") = {} /\ Of("SELL") = {}
  <2>1. \A i \in Ready("BUY", p) \cup Ready("SELL", p) : price(i) = 0
    BY <1>8
  <2>2. ReferencePrice \in Candidates
    BY CandidatesAre
  <2>3. Ready("BUY", p) \subseteq Ready("BUY", ReferencePrice)
    BY <1>4, <2>1
  <2>4. Ready("SELL", p) \subseteq Ready("SELL", ReferencePrice)
    BY <1>5, <2>1
  <2> QED  BY <2>2, <2>3, <2>4
<1> QED  BY <1>6, <1>7, <1>8

LEMMA ClearsMost ==
  ASSUME Books, StateType, NEW p \in Nat \ {0}
  PROVE  Matched(p) <= Matched(ClearingPrice)
<1>1. PICK r \in Candidates : /\ Ready("BUY", p) \subseteq Ready("BUY", r)
                              /\ Ready("SELL", p) \subseteq Ready("SELL", r)
  BY CandidateCovers
<1>2. Volume("BUY", p) <= Volume("BUY", r) /\ Volume("SELL", p) <= Volume("SELL", r)
  BY <1>1, VolumeMonotone
<1>3. /\ Volume("BUY", p) \in Nat /\ Volume("BUY", r) \in Nat
      /\ Volume("SELL", p) \in Nat /\ Volume("SELL", r) \in Nat
  BY VolumeIs
<1>4. Matched(p) <= Matched(r)
  BY <1>2, <1>3 DEF Matched, Least
<1>5. Matched(p) \in Nat /\ Matched(r) \in Nat /\ Matched(ClearingPrice) \in Nat
  BY MatchedIs
<1>6. r = ClearingPrice \/ Preferred(ClearingPrice, r)
  BY BestIs
<1>7. Matched(r) <= Matched(ClearingPrice)
  BY <1>5, <1>6 DEF Preferred
<1> QED  BY <1>4, <1>5, <1>7

\* The list of a side holds all of its volume.
LEMMA InTurnLeft ==
  ASSUME Books, NEW side, NEW p
  PROVE  LeftAlong(orders, InTurn(side, p)) = Volume(side, p)
<1> DEFINE list == InTurn(side, p)
           S == Ready(side, p)
<1>1. /\ list \in [1 .. Cardinality(S) -> S]
      /\ \A i \in S : \E k \in 1 .. Cardinality(S) : list[k] = i
      /\ Lined(orders, side, list)
  BY InTurnIs
<1>2. Restful(orders)
  BY BooksAre DEF Restful
<1>3. Volume(side, p) = OfQuantity!Total(Rests(orders), S)
  BY VolumeIs
<1> HIDE DEF list, S
<1>4. Listed(list) = S
  BY <1>1 DEF Listed
<1>5. LeftAlong(orders, list) = OfQuantity!Total(Rests(orders), Listed(list))
  BY <1>1, <1>2, AlongIs
<1> QED  BY <1>3, <1>4, <1>5 DEF list

\* What may trade at p depends on the orders alone.
ReadyOf(os, side, p) ==
  {i \in Auctioned(os) :
     LET q == os[i].request
     IN q.side = side /\ (q.price = 0 \/ IF side = "BUY" THEN q.price >= p ELSE q.price <= p)}
MatchedOf(os, p) == Least(RestOf(os, ReadyOf(os, "BUY", p)), RestOf(os, ReadyOf(os, "SELL", p)))

LEMMA MatchedOrders ==
  ASSUME Books, NEW p
  PROVE  Matched(p) = MatchedOf(orders, p)
<1>1. \A side : Ready(side, p) = ReadyOf(orders, side, p)
  BY BooksAre DEF Ready, Marketable, ReadyOf
<1>2. \A side : Volume(side, p) = RestOf(orders, Ready(side, p))
  BY DEF Volume, Ready, RestOf
<1> QED  BY <1>1, <1>2 DEF Matched, MatchedOf

-----------------------------------------------------------------------------
(* The best price *)

\* While self-trade prevention has cancelled nothing: what has been executed
\* and what the lists still let trade is what the price let trade; and before
\* anything is executed no price would let trade more.
BestLeft ==
  call.kind = "uncross" /\ ~call.prevented =>
    /\ call.executed + Least(LeftAlong(orders, call.buys), LeftAlong(orders, call.sells))
         = call.matched
    /\ call.executed = 0 => \A p \in Nat \ {0} : MatchedOf(orders, p) <= call.matched

LEMMA BestIsLeft == Books /\ BestLeft => UncrossIsBest
<1> SUFFICES ASSUME Books, BestLeft, call.kind = "uncross", ~call.prevented
             PROVE  /\ call.executed + Least(LeftIn(call.buys), LeftIn(call.sells)) = call.matched
                    /\ call.executed = 0 =>
                         \A p \in 1 .. Max(Limits) + 1 : Matched(p) <= call.matched
  BY DEF UncrossIsBest
<1>1. call.executed + Least(LeftAlong(orders, call.buys), LeftAlong(orders, call.sells))
        = call.matched
  BY DEF BestLeft
<1>2. \A list : LeftIn(list) = LeftAlong(orders, list)
  BY DEF LeftIn, LeftAlong
<1>3. ASSUME call.executed = 0, NEW p \in 1 .. Max(Limits) + 1
      PROVE  Matched(p) <= call.matched
  <2>1. p \in Nat \ {0}
    OBVIOUS
  <2> QED  BY <1>3, <2>1, MatchedOrders DEF BestLeft
<1> QED  BY <1>1, <1>2, <1>3

\* An uncross begins as Uncross begins it and goes on as its loop goes on.
LEMMA UncrossSteps ==
  ASSUME Next, call'.kind = "uncross"
  PROVE  Uncross \/ CrossPrevents \/ CrossTrades
<1>1. "none" # "uncross" /\ "replace" # "uncross"
  OBVIOUS
<1>2. CASE \E to \in SessionState : Transition(to)
  BY <1>2 DEF Transition, Idle
<1>3. CASE \E t \in Times : AdvanceTo(t)
  BY <1>3 DEF AdvanceTo, Idle
<1>4. CASE \E q \in Requests(rules) : New(q)
  BY <1>4 DEF New, Idle
<1>5. CASE \E i \in DOMAIN orders : Cancel(i)
  BY <1>5 DEF Cancel, Idle
<1>6. CASE \E i \in LiveInBook, total \in Totals, price \in Limits : Replace(i, total, price)
  <2>1. PICK i \in LiveInBook, total \in Totals, price \in Limits : Replace(i, total, price)
    BY <1>6
  <2>2. Idle /\ (Shrink(i, total, price) \/ CancelLeg(i, total, price))
    BY <2>1 DEF Replace
  <2>3. Shrink(i, total, price) => call' = call
    BY DEF Shrink
  <2>4. CancelLeg(i, total, price) => call'.kind = "replace"
    BY DEF CancelLeg
  <2> QED  BY <1>1, <2>2, <2>3, <2>4 DEF Idle
<1>7. CASE SecondLeg
  BY <1>7 DEF SecondLeg
<1>8. CASE CrossEnds
  BY <1>8 DEF CrossEnds
<1> QED  BY <1>2, <1>3, <1>4, <1>5, <1>6, <1>7, <1>8 DEF Next

LEMMA BestBegins ==
  ASSUME Books, StateType, Uncross
  PROVE  BestLeft'
<1> DEFINE p == ClearingPrice
           b == InTurn("BUY", p)
           s == InTurn("SELL", p)
<1>1. /\ call'.matched = Matched(p) /\ call'.executed = 0
      /\ call'.buys = b /\ call'.sells = s /\ orders' = orders
  BY DEF Uncross, trading
<1>2. LeftAlong(orders, b) = Volume("BUY", p) /\ LeftAlong(orders, s) = Volume("SELL", p)
  BY InTurnLeft
<1>3. 0 + Least(LeftAlong(orders, b), LeftAlong(orders, s)) = Matched(p)
  <2>1. Matched(p) = Least(Volume("BUY", p), Volume("SELL", p)) /\ Matched(p) \in Nat
    BY MatchedIs DEF Matched
  <2> HIDE DEF b, s, p
  <2> QED  BY <1>2, <2>1
<1>4. \A r \in Nat \ {0} : MatchedOf(orders, r) <= Matched(p)
  BY ClearsMost, MatchedOrders
<1> HIDE DEF b, s, p
<1> QED  BY <1>1, <1>3, <1>4 DEF BestLeft

\* A turn that trades takes what it trades from both lists.
LEMMA BestTrades ==
  ASSUME Books, Books', CallInv, CallInv', position = Balance(orders), CrossTrades, BestLeft
  PROVE  BestLeft'
<1> DEFINE b == call.buys
           s == call.sells
           x == Onward(call.buys)
           y == Onward(call.sells)
           q == Least(Remaining(orders[Head(b)]), Remaining(orders[Head(s)]))
<1>1. /\ Crossing /\ call.kind = "uncross"
      /\ call' = [call EXCEPT !.executed = @ + q, !.buys = x, !.sells = y]
  BY DEF CrossTrades, Crossing
<1>2. Crosses(Head(b), Head(s), q)
  BY CrossTradesCrosses
<1>3. /\ call \in [kind : {"uncross"}, price : Nat, matched : Nat, executed : Nat,
                   prevented : BOOLEAN, buys : Seq(Nat), sells : Seq(Nat)]
      /\ call.executed \in Nat /\ call.matched \in Nat
  BY <1>1, UncrossIs DEF CallInv
<1>4. /\ b # <<>> /\ s # <<>> /\ Lined(orders, "BUY", b) /\ Lined(orders, "SELL", s)
  BY <1>1 DEF Crossing, CallInv
<1>5. /\ x = IF Remaining(orders'[Head(b)]) = 0 THEN Tail(b) ELSE b
      /\ y = IF Remaining(orders'[Head(s)]) = 0 THEN Tail(s) ELSE s
  BY DEF Onward
<1>6. Head(b) \in 1 .. Len(orders) /\ Head(s) \in 1 .. Len(orders)
  BY <1>1, HeadsAre
<1> HIDE DEF x, y, q
<1>7. /\ call'.kind = "uncross" /\ call'.executed = call.executed + q
      /\ call'.buys = x /\ call'.sells = y /\ call'.prevented = call.prevented
      /\ call'.matched = call.matched
  BY <1>1, <1>3
<1>8. Lined(orders', "BUY", x) /\ Lined(orders', "SELL", y)
  BY <1>7 DEF CallInv
<1> HIDE DEF b, s
<1>9. /\ q \in Nat \ {0} /\ DOMAIN orders' = 1 .. Len(orders)
      /\ orders[Head(b)].request.side = "BUY" /\ orders[Head(s)].request.side = "SELL"
      /\ \A i \in 1 .. Len(orders) :
           /\ Remaining(orders'[i]) =
                Remaining(orders[i]) - IF i \in {Head(b), Head(s)} THEN q ELSE 0
           /\ i \notin {Head(b), Head(s)} => orders'[i] = orders[i]
  BY <1>2 DEF Crosses
<1>10. Restful(orders) /\ Restful(orders') /\ Len(orders') = Len(orders)
  <2>1. Accounts(rules', orders', ledger', book', rested')
    BY DEF Books
  <2>2. Restful(orders')
    BY <2>1, AccountsAre DEF Restful
  <2>3. Restful(orders) /\ Len(orders) \in Nat
    BY BooksAre DEF Restful
  <2>4. Len(orders') = Len(orders)
    BY <1>9, <2>3, LengthNext
  <2> QED  BY <2>2, <2>3, <2>4
<1>11. LeftAlong(orders', x) = LeftAlong(orders, b) - q
  <2>1. Remaining(orders'[Head(b)]) = Remaining(orders[Head(b)]) - q
    BY <1>6, <1>9
  <2>2. \A i \in 1 .. Len(orders) :
          orders[i].request.side = "BUY" /\ i # Head(b) => orders'[i] = orders[i]
    BY <1>9
  <2>3. q \in Nat
    BY <1>9
  <2>4. Turned(orders, orders', "BUY", b, x, q)
    BY <1>4, <1>5, <1>8, <1>10, <2>1, <2>2, <2>3 DEF Turned
  <2> QED  BY <2>4, OnwardLeft
<1>12. LeftAlong(orders', y) = LeftAlong(orders, s) - q
  <2>1. Remaining(orders'[Head(s)]) = Remaining(orders[Head(s)]) - q
    BY <1>6, <1>9
  <2>2. \A i \in 1 .. Len(orders) :
          orders[i].request.side = "SELL" /\ i # Head(s) => orders'[i] = orders[i]
    BY <1>9
  <2>3. q \in Nat
    BY <1>9
  <2>4. Turned(orders, orders', "SELL", s, y, q)
    BY <1>4, <1>5, <1>8, <1>10, <2>1, <2>2, <2>3 DEF Turned
  <2> QED  BY <2>4, OnwardLeft
<1>13. LeftAlong(orders, b) \in Nat /\ LeftAlong(orders, s) \in Nat
  BY <1>4, <1>10, AlongIs
<1>14. ~call.prevented =>
         call.executed + Least(LeftAlong(orders, b), LeftAlong(orders, s)) = call.matched
  BY <1>1 DEF BestLeft, b, s
<1>15. ~call.prevented =>
         call'.executed + Least(LeftAlong(orders', x), LeftAlong(orders', y)) = call'.matched
  <2> DEFINE m == LeftAlong(orders, b)
             n == LeftAlong(orders, s)
  <2>1. Least(m - q, n - q) = Least(m, n) - q
    <3>1. m \in Nat /\ n \in Nat /\ q \in Nat
      BY <1>9, <1>13
    <3> HIDE DEF m, n
    <3> QED  BY <3>1 DEF Least
  <2>2. Least(m, n) \in Nat
    BY <1>13 DEF Least
  <2> HIDE DEF m, n
  <2>3. LeftAlong(orders', x) = m - q /\ LeftAlong(orders', y) = n - q
    BY <1>11, <1>12 DEF m, n
  <2>4. ~call.prevented => call.executed + Least(m, n) = call.matched
    BY <1>14 DEF m, n
  <2> QED  BY <1>3, <1>7, <1>9, <2>1, <2>2, <2>3, <2>4
<1>16. call'.executed # 0
  BY <1>3, <1>7, <1>9
<1> QED  BY <1>7, <1>15, <1>16 DEF BestLeft

\* The clearing price lets at least as much trade as any price whatever, and
\* while self-trade prevention cancels nothing the loop of an uncross executes
\* exactly that much (AuctionBook.indication, uncross): whatever the orders,
\* their limits and the reference price.
THEOREM UncrossIsBestMade == Spec => []UncrossIsBest
<1>1. Init => BestLeft
  BY DEF Init, BestLeft
<1>2. MechanicsInv /\ MechanicsInv' /\ BestLeft /\ [Next]_vars => BestLeft'
  <2> SUFFICES ASSUME MechanicsInv, MechanicsInv', BestLeft, [Next]_vars
               PROVE  BestLeft'
    OBVIOUS
  <2>0. /\ Books /\ StateType /\ CallInv /\ position = Balance(orders)
        /\ Books' /\ CallInv'
    BY DEF MechanicsInv
  <2>1. CASE Uncross
    BY <2>0, <2>1, BestBegins
  <2>2. CASE CrossTrades
    BY <2>0, <2>2, BestTrades
  <2>3. CASE CrossPrevents
    <3>1. call.kind = "uncross" /\ call' = [call EXCEPT !.prevented = TRUE,
                                       !.buys = Onward(@), !.sells = Onward(@)]
      BY <2>3 DEF CrossPrevents, Crossing
    <3>2. call'.prevented
      BY <2>0, <3>1, UncrossIs DEF CallInv
    <3> QED  BY <3>2 DEF BestLeft
  <2>4. CASE Next /\ call'.kind # "uncross"
    BY <2>4 DEF BestLeft
  <2>5. CASE UNCHANGED vars
    BY <2>5 DEF vars, trading, BestLeft
  <2> QED  BY <2>1, <2>2, <2>3, <2>4, <2>5, UncrossSteps
<1>3. MechanicsInv /\ BestLeft => UncrossIsBest
  BY BestIsLeft DEF MechanicsInv
<1> QED  BY <1>1, <1>2, <1>3, MechanicsHolds, PTL DEF Spec
=============================================================================

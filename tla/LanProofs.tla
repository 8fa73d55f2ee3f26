------------------------------ MODULE LanProofs ------------------------------
(***************************************************************************)
(* Proofs about LanExecution.  The inductive invariant IInv says where the *)
(* two ends of a connection and the two streams between them can be.  A    *)
(* step at one connection keeps that connection in step (one lemma per     *)
(* action, named after it), and disturbs the others only through the lease *)
(* book (Frame, OthersStay).  A second part shows that the backend keeps   *)
(* the promise of ExecutionBackend, with an invariant on which units each  *)
(* connection was dealt and has started (Deal), and a third that a         *)
(* worker's heartbeats come before its lease runs out (OnTime).  A last    *)
(* part is about ResourceAdmission, the resource controller of a worker.   *)
(***************************************************************************)
EXTENDS LanExecution, ResourceAdmission, SequenceTheorems, FiniteSetTheorems, TLAPS

\* What LanMessageChannelV1.send does to a stream: the messages are appended while
\* the connection is up, and lost when it is not.
LEMMA SentHere ==
  ASSUME NEW M, NEW channel \in [Peer -> Seq(M)], NEW p \in Peer, NEW s \in Seq(M),
         NEW on \in BOOLEAN, NEW r,
         r = IF on THEN [channel EXCEPT ![p] = @ \o s] ELSE channel
  PROVE  /\ r \in [Peer -> Seq(M)]
         /\ \A q \in Peer \ {p} : r[q] = channel[q]
         /\ ~on => r[p] = channel[p]
         /\ on => /\ Len(r[p]) = Len(channel[p]) + Len(s)
                  /\ \A i \in 1 .. Len(channel[p]) : r[p][i] = channel[p][i]
                  /\ \A i \in 1 .. Len(s) : r[p][Len(channel[p]) + i] = s[i]
<1>1. channel[p] \in Seq(M) /\ Len(channel[p]) \in Nat /\ Len(s) \in Nat
  BY LenProperties
<1>2. /\ channel[p] \o s \in Seq(M)
      /\ Len(channel[p] \o s) = Len(channel[p]) + Len(s)
      /\ \A i \in 1 .. Len(channel[p]) + Len(s) : (channel[p] \o s)[i] =
            IF i <= Len(channel[p]) THEN channel[p][i] ELSE s[i - Len(channel[p])]
  BY <1>1, ConcatProperties
<1> DEFINE n == Len(channel[p])
           t == channel[p] \o s
<1>3. \A i \in 1 .. n : t[i] = channel[p][i]
  BY <1>1, <1>2
<1>4. \A i \in 1 .. Len(s) : t[n + i] = s[i]
  <2> SUFFICES ASSUME NEW i \in 1 .. Len(s) PROVE t[n + i] = s[i]
    OBVIOUS
  <2>1. n + i \in 1 .. n + Len(s) /\ ~(n + i <= n) /\ n + i - n = i
    BY <1>1
  <2> QED
    BY <1>2, <2>1
<1> QED
  BY <1>1, <1>2, <1>3, <1>4

\* The same for one message.
LEMMA SentOne ==
  ASSUME NEW M, NEW channel \in [Peer -> Seq(M)], NEW p \in Peer, NEW m \in M,
         NEW on \in BOOLEAN, NEW r,
         r = IF on THEN [channel EXCEPT ![p] = @ \o <<m>>] ELSE channel
  PROVE  /\ r \in [Peer -> Seq(M)]
         /\ \A q \in Peer \ {p} : r[q] = channel[q]
         /\ ~on => r[p] = channel[p]
         /\ on => /\ Len(r[p]) = Len(channel[p]) + 1
                       /\ \A i \in 1 .. Len(channel[p]) : r[p][i] = channel[p][i]
                       /\ r[p][Len(channel[p]) + 1] = m
<1> DEFINE s == <<m>>
<1>1. s \in Seq(M) /\ Len(s) = 1 /\ s[1] = m
  OBVIOUS
<1>2. r = IF on THEN [channel EXCEPT ![p] = @ \o s] ELSE channel
  OBVIOUS
<1> HIDE DEF s
<1>3. /\ r \in [Peer -> Seq(M)]
      /\ \A q \in Peer \ {p} : r[q] = channel[q]
      /\ ~on => r[p] = channel[p]
      /\ on => /\ Len(r[p]) = Len(channel[p]) + Len(s)
               /\ \A i \in 1 .. Len(channel[p]) : r[p][i] = channel[p][i]
               /\ \A i \in 1 .. Len(s) : r[p][Len(channel[p]) + i] = s[i]
  BY <1>1, <1>2, SentHere
<1>4. 1 \in 1 .. 1
  OBVIOUS
<1>5. on => r[p][Len(channel[p]) + 1] = m
  BY <1>1, <1>3, <1>4
<1> QED
  BY <1>1, <1>3, <1>5

\* The same for two messages.
LEMMA SentTwo ==
  ASSUME NEW M, NEW channel \in [Peer -> Seq(M)], NEW p \in Peer, NEW m \in M, NEW n \in M,
         NEW on \in BOOLEAN, NEW r,
         r = IF on THEN [channel EXCEPT ![p] = @ \o <<m, n>>] ELSE channel
  PROVE  /\ r \in [Peer -> Seq(M)]
         /\ \A q \in Peer \ {p} : r[q] = channel[q]
         /\ ~on => r[p] = channel[p]
         /\ on => /\ Len(r[p]) = Len(channel[p]) + 2
                       /\ \A i \in 1 .. Len(channel[p]) : r[p][i] = channel[p][i]
                       /\ r[p][Len(channel[p]) + 1] = m
                       /\ r[p][Len(channel[p]) + 2] = n
<1> DEFINE s == <<m, n>>
<1>1. s \in Seq(M) /\ Len(s) = 2 /\ s[1] = m /\ s[2] = n
  OBVIOUS
<1>2. r = IF on THEN [channel EXCEPT ![p] = @ \o s] ELSE channel
  OBVIOUS
<1> HIDE DEF s
<1>3. /\ r \in [Peer -> Seq(M)]
      /\ \A q \in Peer \ {p} : r[q] = channel[q]
      /\ ~on => r[p] = channel[p]
      /\ on => /\ Len(r[p]) = Len(channel[p]) + Len(s)
               /\ \A i \in 1 .. Len(channel[p]) : r[p][i] = channel[p][i]
               /\ \A i \in 1 .. Len(s) : r[p][Len(channel[p]) + i] = s[i]
  BY <1>1, <1>2, SentHere
<1>4. 1 \in 1 .. 2 /\ 2 \in 1 .. 2
  OBVIOUS
<1>5. on => r[p][Len(channel[p]) + 1] = m /\ r[p][Len(channel[p]) + 2] = n
  BY <1>1, <1>3, <1>4
<1> QED
  BY <1>1, <1>3, <1>5

\* What receive takes, and what it leaves.
LEMMA TailHere ==
  ASSUME NEW M, NEW s \in Seq(M), s # <<>>
  PROVE  /\ Head(s) = s[1] /\ Head(s) \in M
         /\ Len(s) \in Nat /\ Len(s) >= 1
         /\ Tail(s) \in Seq(M) /\ Len(Tail(s)) = Len(s) - 1
         /\ \A i \in 1 .. Len(s) - 1 : Tail(s)[i] = s[i + 1]
<1>1. Len(s) \in Nat /\ Len(s) # 0
  BY LenProperties, EmptySeq
<1> QED
  BY <1>1, HeadTailProperties

\* What a step at p may change outside its own connection.
Frame(p) ==
    /\ \A q \in Peer \ {p} :
          /\ coord'[q] = coord[q] /\ worker'[q] = worker[q] /\ claims'[q] = claims[q]
          /\ link'[q] = link[q] /\ up'[q] = up[q] /\ down'[q] = down[q]
    /\ sequence' \in Nat /\ sequence' >= sequence
    /\ \A l \in leases :
          l \in leases' \/ (coord[p].pc = "await" /\ l.id = coord[p].lease)

\* A step at one connection leaves the others in step.
LEMMA OthersStay ==
  ASSUME IInv, NEW p \in Peer, Frame(p), NEW q \in Peer \ {p}
  PROVE  Session(q)'
<1>1. Session(q)
  BY DEF IInv, InStep
<1>2. coord[q].pc = "await" => \A l \in leases : l.id = coord[q].lease => l \in leases'
  BY DEF IInv, InStep, BookInStep, Frame
<1>3. DownInStep(q)'
  <2>1. sequence \in Nat
    BY DEF IInv, TypeOK
  <2>2. \A m \in DownMessage : m.kind = "LEASE_GRANT" => m.lease \in Nat
    BY DEF DownMessage
  <2>3. \A i \in DOMAIN down[q] : down[q][i] \in DownMessage
    BY LenProperties DEF IInv, TypeOK
  <2>4. Len(down[q]) \in Nat /\ DOMAIN down[q] = 1 .. Len(down[q])
    BY LenProperties DEF IInv, TypeOK
  <2> QED
    BY <1>1, <2>1, <2>2, <2>3, <2>4 DEF Session, DownInStep, Frame
<1>4. \A l \in leases : Awaits(q, l) => Awaits(q, l)'
  BY DEF Awaits, Item, Frame
<1>5. coord[q].pc = "await" => \E l \in leases' : Awaits(q, l)'
  BY <1>1, <1>2, <1>4 DEF Session, Awaits
<1> QED
  BY <1>1, <1>3, <1>5 DEF Session, Frame

\* What the type invariant says of one connection.
LEMMA Typed ==
  ASSUME TypeOK, NEW p \in Peer
  PROVE  /\ coord[p] \in Thread /\ worker[p] \in Service /\ claims[p] \subseteq Unit
         /\ link[p] \in BOOLEAN
         /\ up[p] \in Seq(UpMessage) /\ down[p] \in Seq(DownMessage)
         /\ Len(up[p]) \in Nat /\ DOMAIN up[p] = 1 .. Len(up[p])
         /\ Len(down[p]) \in Nat /\ DOMAIN down[p] = 1 .. Len(down[p])
         /\ \A i \in 1 .. Len(up[p]) : up[p][i] \in UpMessage
         /\ \A i \in 1 .. Len(down[p]) : down[p][i] \in DownMessage
BY LenProperties DEF TypeOK

\* The book is undisturbed.
LEMMA BookStays ==
  ASSUME IInv, NEW p \in Peer, leases' \subseteq leases, sequence' = sequence,
         \A q \in Peer \ {p} : coord'[q] = coord[q],
         \/ coord'[p].pc # "await"
         \/ coord[p].pc = "await" /\ coord'[p].lease = coord[p].lease
  PROVE  BookInStep'
<1> USE DEF IInv, InStep, BookInStep
<1>1. \A l \in leases' : l.id <= sequence' /\ l.deadline <= Term(l)'
  BY DEF Term
<1>2. \A l, m \in leases' : l.id = m.id => l = m
  OBVIOUS
<1>3. ASSUME NEW q \in Peer, NEW r \in Peer, coord'[q].pc = "await", coord'[r].pc = "await",
             q # r
      PROVE  coord'[q].lease # coord'[r].lease
  BY <1>3
<1> QED
  BY <1>1, <1>2, <1>3

\* What each step at p keeps.
Kept(p) == TypeOK' /\ Session(p)' /\ BookInStep' /\ Frame(p)

\* A thread that only turns to its next point.
LEMMA ThreadTurns ==
  ASSUME NEW v \in Thread,
         NEW pc \in {"claim", "decision", "await", "release", "done", "failed"}
  PROVE  /\ [v EXCEPT !.pc = pc] \in Thread
         /\ [v EXCEPT !.pc = pc].pc = pc /\ [v EXCEPT !.pc = pc].unit = v.unit
BY DEF Thread

\* A thread that is granted a lease.
LEMMA ThreadGranted ==
  ASSUME NEW v \in Thread, NEW id \in Nat
  PROVE  LET c == [v EXCEPT !.pc = "await", !.lease = id]
         IN  c \in Thread /\ c.pc = "await" /\ c.unit = v.unit /\ c.lease = id
BY DEF Thread

\* A thread that asks for its next unit leaves its connection in step.
LEMMA ClaimUnitKeeps ==
  ASSUME IInv, NEW p \in Peer, ClaimUnit(p)
  PROVE  Kept(p)
<1> DEFINE m == [kind |-> "RESOURCE_CLAIM", unit |-> coord[p].unit]
           c == [coord[p] EXCEPT !.pc = "decision"]
<1>1. m \in DownMessage
  BY DEF ClaimUnit, DownMessage
<1>2. /\ c \in Thread /\ c.pc = "decision" /\ c.unit = coord[p].unit /\ c.unit \in Unit
      /\ coord' \in [Peer -> Thread] /\ coord'[p] = c
      /\ \A q \in Peer \ {p} : coord'[q] = coord[q]
  <2>1. coord \in [Peer -> Thread] /\ coord[p] \in Thread /\ coord[p].unit \in Unit
    BY DEF IInv, TypeOK, ClaimUnit
  <2>2. c \in Thread /\ c.pc = "decision" /\ c.unit = coord[p].unit
    BY <2>1, ThreadTurns
  <2>3. coord' = [coord EXCEPT ![p] = c]
    BY DEF ClaimUnit
  <2> HIDE DEF c
  <2> QED
    BY <2>1, <2>2, <2>3
<1>3. /\ down' \in [Peer -> Seq(DownMessage)]
      /\ \A q \in Peer \ {p} : down'[q] = down[q]
      /\ ~link[p] => down'[p] = down[p]
      /\ link[p] => Len(down'[p]) = Len(down[p]) + 1 /\ down'[p][Len(down[p]) + 1] = m
  <2> HIDE DEF m
  <2>0. down \in [Peer -> Seq(DownMessage)] /\ link[p] \in BOOLEAN
    BY DEF IInv, TypeOK
  <2>1. down' = IF link[p] THEN [down EXCEPT ![p] = @ \o <<m>>] ELSE down
    BY DEF ClaimUnit, m, Sent
  <2> QED
    BY <1>1, <2>0, <2>1, SentOne
<1>4. UNCHANGED <<now, late, call, outcome, worker, claims, skew, link, leases, sequence, expired, up>>
  BY DEF ClaimUnit, ThreadUnchanged, book
<1>5. Frame(p)
  BY <1>2, <1>3, <1>4 DEF Frame, IInv, TypeOK
<1>6. TypeOK'
  BY <1>2, <1>3, <1>4 DEF IInv, TypeOK
<1>7. BookInStep'
  BY <1>2, <1>4, BookStays
<1>8. Session(p)'
  <2>1. Session(p) /\ coord[p].pc = "claim"
    BY DEF IInv, InStep, ClaimUnit
  <2> HIDE DEF c
  <2> QED
    BY <1>2, <1>3, <1>4, <2>1, Typed DEF IInv, Session, DownInStep, AtMost
<1> QED
  BY <1>5, <1>6, <1>7, <1>8 DEF Kept

\* A thread that has no unit left and closes the session does.
LEMMA CloseSessionKeeps ==
  ASSUME IInv, NEW p \in Peer, CloseSession(p)
  PROVE  Kept(p)
<1> DEFINE m == [kind |-> "SESSION_CLOSE"]
           c == [coord[p] EXCEPT !.pc = "done"]
<1>1. m \in DownMessage
  BY DEF DownMessage
<1>2. /\ c \in Thread /\ c.pc = "done" /\ coord' \in [Peer -> Thread] /\ coord'[p] = c
      /\ \A q \in Peer \ {p} : coord'[q] = coord[q]
  <2>1. coord \in [Peer -> Thread] /\ coord[p] \in Thread
    BY DEF IInv, TypeOK
  <2>2. c \in Thread /\ c.pc = "done"
    BY <2>1, ThreadTurns
  <2>3. coord' = [coord EXCEPT ![p] = c]
    BY DEF CloseSession
  <2> HIDE DEF c
  <2> QED
    BY <2>1, <2>2, <2>3
<1>3. /\ down' \in [Peer -> Seq(DownMessage)]
      /\ \A q \in Peer \ {p} : down'[q] = down[q]
      /\ ~link[p] => down'[p] = down[p]
      /\ link[p] => Len(down'[p]) = Len(down[p]) + 1 /\ down'[p][Len(down[p]) + 1] = m
  <2> HIDE DEF m
  <2>0. down \in [Peer -> Seq(DownMessage)] /\ link[p] \in BOOLEAN
    BY DEF IInv, TypeOK
  <2>1. down' = IF link[p] THEN [down EXCEPT ![p] = @ \o <<m>>] ELSE down
    BY DEF CloseSession, m, Sent
  <2> QED
    BY <1>1, <2>0, <2>1, SentOne
<1>4. UNCHANGED <<now, late, call, outcome, worker, claims, skew, link, leases, sequence, expired, up>>
  BY DEF CloseSession, ThreadUnchanged, book
<1>5. Frame(p)
  BY <1>2, <1>3, <1>4 DEF Frame, IInv, TypeOK
<1>6. TypeOK'
  BY <1>2, <1>3, <1>4 DEF IInv, TypeOK
<1>7. BookInStep'
  BY <1>2, <1>4, BookStays
<1>8. Session(p)'
  <2>1. Session(p) /\ coord[p].pc = "claim"
    BY DEF IInv, InStep, CloseSession
  <2> HIDE DEF c
  <2> QED
    BY <1>2, <1>3, <1>4, <2>1, Typed DEF IInv, Session, DownInStep, AtMost
<1> QED
  BY <1>5, <1>6, <1>7, <1>8 DEF Kept

\* The head of a channel is read.
LEMMA TailAt ==
  ASSUME NEW M, NEW channel \in [Peer -> Seq(M)], NEW p \in Peer, channel[p] # <<>>,
         NEW r, r = [channel EXCEPT ![p] = Tail(@)]
  PROVE  /\ r \in [Peer -> Seq(M)]
         /\ \A q \in Peer \ {p} : r[q] = channel[q]
         /\ Head(channel[p]) = channel[p][1] /\ channel[p][1] \in M
         /\ Len(channel[p]) \in Nat /\ Len(channel[p]) >= 1
         /\ Len(r[p]) = Len(channel[p]) - 1
         /\ \A i \in 1 .. Len(channel[p]) - 1 : r[p][i] = channel[p][i + 1]
BY TailHere

\* A thread that raises keeps its lease and disturbs no other thread.
LEMMA FailsThread ==
  ASSUME TypeOK, NEW p \in Peer,
         NEW why \in {"refused", "expired", "skewed", "aborted", "lost"}, Fails(p, why)
  PROVE  /\ coord' \in [Peer -> Thread] /\ coord'[p].pc = "failed"
         /\ coord'[p].lease = coord[p].lease
         /\ \A q \in Peer \ {p} : coord'[q] = coord[q]
<1> DEFINE c == [coord[p] EXCEPT !.pc = "failed", !.why = why]
<1>1. coord[p] \in Thread /\ coord \in [Peer -> Thread]
  BY DEF TypeOK
<1>2. c \in Thread /\ c.pc = "failed" /\ c.lease = coord[p].lease
  BY <1>1 DEF Thread
<1>3. coord' = [coord EXCEPT ![p] = c]
  BY <1>1 DEF Fails, Thread
<1> HIDE DEF c
<1> QED
  BY <1>1, <1>2, <1>3

\* A thread that fails leaves its worker in step.
LEMMA FailedKeeps ==
  ASSUME IInv, NEW p \in Peer, NEW why \in {"refused", "expired", "skewed", "aborted", "lost"},
         Fails(p, why), BookInStep',
         UNCHANGED <<now, late, call, outcome, worker, claims, skew, link, sequence, down>>,
         leases' \subseteq Lease, expired' \subseteq Unit \X Nat,
         \A l \in leases : l \in leases' \/ (coord[p].pc = "await" /\ l.id = coord[p].lease),
         up' \in [Peer -> Seq(UpMessage)],
         \A q \in Peer \ {p} : up'[q] = up[q],
         \A i \in 1 .. Len(up'[p]) : \E j \in 1 .. Len(up[p]) : up'[p][i] = up[p][j]
  PROVE  Kept(p)
<1>2. /\ coord' \in [Peer -> Thread] /\ coord'[p].pc = "failed"
      /\ \A q \in Peer \ {p} : coord'[q] = coord[q]
  BY FailsThread DEF IInv
<1>5. Frame(p)
  BY <1>2 DEF Frame, IInv, TypeOK
<1>6. TypeOK'
  BY <1>2 DEF IInv, TypeOK
<1>8. Session(p)'
  <2>1. Session(p)
    BY DEF IInv, InStep
  <2>2. ASSUME NEW i \in DOMAIN up'[p], up'[p][i].kind = "RESOURCE_DECISION"
        PROVE  up'[p][i].status # "QUEUED"
    <3>1. DOMAIN up'[p] = 1 .. Len(up'[p]) /\ DOMAIN up[p] = 1 .. Len(up[p])
      <4>1. up'[p] \in Seq(UpMessage) /\ up[p] \in Seq(UpMessage)
        BY DEF TypeOK, IInv
      <4> QED
        BY <4>1, LenProperties
    <3>2. PICK j \in 1 .. Len(up[p]) : up'[p][i] = up[p][j]
      BY <3>1
    <3> QED
      BY <2>1, <2>2, <3>1, <3>2 DEF Session
  <2> QED
    BY <1>2, <2>1, <2>2 DEF Session, DownInStep
<1> QED
  BY <1>5, <1>6, <1>8 DEF Kept

\* A refused claim ends the thread.
LEMMA NotAdmittedKeeps ==
  ASSUME IInv, NEW p \in Peer, NotAdmitted(p)
  PROVE  Kept(p)
<1>1. Fails(p, "refused") /\ coord'[p].pc = "failed"
      /\ \A q \in Peer \ {p} : coord'[q] = coord[q]
  BY FailsThread DEF NotAdmitted, IInv
<1>2. UNCHANGED <<now, late, call, outcome, worker, claims, skew, link, leases, sequence, expired, down>>
  BY DEF NotAdmitted, ThreadUnchanged, book
<1>3. /\ up \in [Peer -> Seq(UpMessage)] /\ up[p] # <<>> /\ up' = [up EXCEPT ![p] = Tail(@)]
      /\ leases' \subseteq Lease /\ expired' \subseteq Unit \X Nat
  BY <1>2 DEF NotAdmitted, Arrives, IInv, TypeOK
<1>4. BookInStep'
  BY <1>1, <1>2, BookStays
<1>5. /\ up' \in [Peer -> Seq(UpMessage)]
      /\ \A q \in Peer \ {p} : up'[q] = up[q]
      /\ \A i \in 1 .. Len(up'[p]) : \E j \in 1 .. Len(up[p]) : up'[p][i] = up[p][j]
  BY <1>3, TailAt
<1> QED
  BY <1>1, <1>2, <1>3, <1>4, <1>5, FailedKeeps

\* An aborted claim ends the thread.
LEMMA AbortedKeeps ==
  ASSUME IInv, NEW p \in Peer, Aborted(p)
  PROVE  Kept(p)
<1>1. Fails(p, "aborted") /\ coord'[p].pc = "failed"
      /\ \A q \in Peer \ {p} : coord'[q] = coord[q]
  BY FailsThread DEF Aborted, IInv
<1>2. UNCHANGED <<now, late, call, outcome, worker, claims, skew, link, leases, sequence, expired, down>>
  BY DEF Aborted, ThreadUnchanged, book
<1>3. /\ up \in [Peer -> Seq(UpMessage)] /\ up[p] # <<>> /\ up' = [up EXCEPT ![p] = Tail(@)]
      /\ leases' \subseteq Lease /\ expired' \subseteq Unit \X Nat
  BY <1>2 DEF Aborted, Arrives, IInv, TypeOK
<1>4. BookInStep'
  BY <1>1, <1>2, BookStays
<1>5. /\ up' \in [Peer -> Seq(UpMessage)]
      /\ \A q \in Peer \ {p} : up'[q] = up[q]
      /\ \A i \in 1 .. Len(up'[p]) : \E j \in 1 .. Len(up[p]) : up'[p][i] = up[p][j]
  BY <1>3, TailAt
<1> QED
  BY <1>1, <1>2, <1>3, <1>4, <1>5, FailedKeeps

\* A lost peer ends the thread.
LEMMA LostKeeps ==
  ASSUME IInv, NEW p \in Peer, ReceiveFails(p) \/ SendFails(p)
  PROVE  Kept(p)
<1>1. Fails(p, "lost") /\ coord'[p].pc = "failed"
      /\ \A q \in Peer \ {p} : coord'[q] = coord[q]
  BY FailsThread DEF ReceiveFails, SendFails, IInv
<1>2. UNCHANGED <<now, late, call, outcome, worker, claims, skew, link, leases, sequence, expired, down, up>>
  BY DEF ReceiveFails, SendFails, ThreadUnchanged, book
<1>3. /\ leases' \subseteq Lease /\ expired' \subseteq Unit \X Nat
      /\ up' \in [Peer -> Seq(UpMessage)]
  BY <1>2 DEF IInv, TypeOK
<1>4. BookInStep'
  BY <1>1, <1>2, BookStays
<1> QED
  BY <1>1, <1>2, <1>3, <1>4, FailedKeeps

\* Arithmetic the steps below use.
LEMMA JustOne ==
  ASSUME NEW n \in Nat, n >= 1, n <= 1
  PROVE  n = 1
OBVIOUS

\* LeaseBookV1.grant gives a well-formed lease with a new identity.
LEMMA GrantedLease ==
  ASSUME TypeOK, NEW u \in Unit
  PROVE  /\ NewLease(u) \in Lease
         /\ NewLease(u).id = sequence + 1 /\ NewLease(u).unit = u /\ NewLease(u).beat = 0
         /\ NewLease(u).deadline <= NewLease(u).issued + LeaseSeconds
<1> DEFINE d == now + Smaller(LeaseSeconds, Window)
<1>1. /\ now \in Nat /\ sequence \in Nat /\ sequence + 1 \in Nat \ {0}
      /\ LeaseSeconds \in Nat /\ Interval \in Nat /\ Missed \in Nat
  BY LeasePolicyAssumption, ClockAssumption DEF TypeOK
<1>2. Window \in Nat
  BY <1>1 DEF Window
<1>3. d \in Nat /\ d <= now + LeaseSeconds
  BY <1>1, <1>2 DEF Smaller
<1> HIDE DEF d
<1>4. NewLease(u) = [id |-> sequence + 1, unit |-> u, attempt |-> 1, issued |-> now,
                     deadline |-> d, beat |-> 0]
  BY DEF NewLease, d
<1> QED
  BY <1>1, <1>3, <1>4 DEF Lease

\* An admitted claim starts a lease no other thread has.
LEMMA AdmittedKeeps ==
  ASSUME IInv, NEW p \in Peer, Admitted(p)
  PROVE  Kept(p)
<1>0. PICK u, lease : u = coord[p].unit /\ lease = NewLease(u)
  OBVIOUS
<1> DEFINE m == [kind |-> "LEASE_GRANT", lease |-> lease.id]
           n == [kind |-> "WORK_REQUEST", unit |-> lease.unit]
           c == [coord[p] EXCEPT !.pc = "await", !.lease = lease.id]
<1>1. /\ Session(p) /\ coord[p].pc = "decision" /\ u \in Unit /\ TypeOK
      /\ up[p] # <<>> /\ Head(up[p]).status = "ADMITTED"
  BY <1>0 DEF IInv, InStep, Session, Admitted, Arrives
<1>2. /\ lease \in Lease /\ lease.id = sequence + 1 /\ lease.unit = u /\ lease.beat = 0
      /\ lease.deadline <= lease.issued + LeaseSeconds
      /\ lease.id \in Nat \ {0}
  <2>1. lease \in Lease /\ lease.id = sequence + 1 /\ lease.unit = u /\ lease.beat = 0
        /\ lease.deadline <= lease.issued + LeaseSeconds
    BY <1>0, <1>1, GrantedLease
  <2> QED
    BY <2>1 DEF Lease
<1>3. /\ leases' = leases \cup {lease} /\ sequence' = lease.id
      /\ down' = Sent(down, p, <<m, n>>)
      /\ coord' = [coord EXCEPT ![p].pc = "await", ![p].lease = lease.id]
      /\ up' = [up EXCEPT ![p] = Tail(@)]
      /\ UNCHANGED <<now, late, call, outcome, worker, claims, skew, link, expired>>
  BY <1>0, <1>2 DEF Admitted, ThreadUnchanged
<1>4. /\ m \in DownMessage /\ m.kind = "LEASE_GRANT" /\ m.lease = lease.id
      /\ n \in DownMessage /\ n.kind = "WORK_REQUEST" /\ n.unit = u
  BY <1>1, <1>2 DEF DownMessage
<1> HIDE DEF m, n
<1>5. /\ coord \in [Peer -> Thread] /\ up \in [Peer -> Seq(UpMessage)]
      /\ down \in [Peer -> Seq(DownMessage)] /\ link[p] \in BOOLEAN /\ sequence \in Nat
  BY <1>1 DEF TypeOK
<1>6. /\ coord' \in [Peer -> Thread] /\ coord'[p].pc = "await" /\ coord'[p].unit = u
      /\ coord'[p].lease = lease.id
      /\ \A q \in Peer \ {p} : coord'[q] = coord[q]
  <2>1. c \in Thread /\ c.pc = "await" /\ c.unit = u /\ c.lease = lease.id
    <3>1. coord[p] \in Thread
      BY <1>5
    <3>2. lease.id \in Nat
      BY <1>2
    <3>3. c \in Thread /\ c.pc = "await" /\ c.unit = coord[p].unit /\ c.lease = lease.id
      BY <3>1, <3>2, ThreadGranted
    <3> QED
      BY <1>0, <3>3
  <2>2. coord' = [coord EXCEPT ![p] = c]
    BY <1>3, <1>5 DEF Thread
  <2> HIDE DEF c
  <2> QED
    BY <1>5, <2>1, <2>2
<1>7. /\ down' \in [Peer -> Seq(DownMessage)]
      /\ \A q \in Peer \ {p} : down'[q] = down[q]
      /\ ~link[p] => down'[p] = down[p]
      /\ link[p] => /\ Len(down'[p]) = Len(down[p]) + 2
                    /\ down'[p][Len(down[p]) + 1] = m /\ down'[p][Len(down[p]) + 2] = n
  <2>1. down' = IF link[p] THEN [down EXCEPT ![p] = @ \o <<m, n>>] ELSE down
    BY <1>3 DEF Sent
  <2> QED
    BY <1>4, <1>5, <2>1, SentTwo
<1>8. /\ up' \in [Peer -> Seq(UpMessage)]
      /\ \A q \in Peer \ {p} : up'[q] = up[q]
      /\ Head(up[p]) = up[p][1] /\ Len(up[p]) \in Nat /\ Len(up[p]) >= 1
      /\ Len(up'[p]) = Len(up[p]) - 1
  BY <1>1, <1>3, <1>5, TailAt
<1>9. /\ Len(up[p]) = 1 /\ Len(up'[p]) = 0 /\ worker[p].pc \in {"lease", "failed"}
      /\ worker[p].pc = "lease" => Len(down[p]) = 0 /\ worker[p].unit = u
  <2>1. Len(up[p]) = 1 /\ up[p][1].status = "ADMITTED"
    <3>1. Len(up[p]) <= 1
      BY <1>1 DEF Session
    <3>2. Len(up[p]) = 1
      <4>1. Len(up[p]) \in Nat /\ Len(up[p]) >= 1
        BY <1>8, Zenon
      <4> QED
        BY <3>1, <4>1, JustOne
    <3>3. up[p][1].status = "ADMITTED"
      BY <1>1, <1>8, Zenon
    <3> QED
      BY <3>2, <3>3
  <2>2. worker[p].pc = "idle" => FALSE
    BY <1>1, <2>1 DEF Session, AtMost, Decision
  <2> QED
    BY <1>0, <1>1, <1>8, <2>1, <2>2 DEF Session
<1>10. Frame(p)
  <2>1. ASSUME NEW q \in Peer \ {p}
        PROVE  /\ coord'[q] = coord[q] /\ worker'[q] = worker[q] /\ claims'[q] = claims[q]
               /\ link'[q] = link[q] /\ up'[q] = up[q] /\ down'[q] = down[q]
    BY <1>3, <1>6, <1>7, <1>8
  <2>2. sequence' \in Nat /\ sequence' >= sequence
    BY <1>2, <1>3, <1>5
  <2>3. \A l \in leases : l \in leases'
    BY <1>3
  <2> QED
    BY <2>1, <2>2, <2>3 DEF Frame
<1>11. TypeOK'
  BY <1>1, <1>2, <1>3, <1>6, <1>7, <1>8 DEF TypeOK
<1>12. BookInStep'
  <2>1. \A l \in leases : l.id \in Nat /\ l.id <= sequence /\ l.deadline <= Term(l)
    BY <1>1 DEF IInv, InStep, BookInStep, TypeOK, Lease
  <2>2. \A l \in leases' : l.id <= sequence' /\ l.deadline <= Term(l)'
    BY <1>2, <1>3, <1>5, <2>1 DEF Term
  <2>3. \A l, k \in leases' : l.id = k.id => l = k
    BY <1>2, <1>3, <1>5, <2>1 DEF IInv, InStep, BookInStep
  <2>4. ASSUME NEW q \in Peer \ {p}, coord[q].pc = "await" PROVE coord[q].lease <= sequence
    <3>1. PICK l \in leases : Awaits(q, l)
      BY <2>4 DEF IInv, InStep, Session
    <3> QED
      BY <2>1, <3>1 DEF Awaits
  <2>5. ASSUME NEW q \in Peer, NEW r \in Peer, coord'[q].pc = "await", coord'[r].pc = "await",
               q # r
        PROVE  coord'[q].lease # coord'[r].lease
    <3>1. \A s \in Peer : coord[s].lease \in Nat
      BY <1>5 DEF Thread
    <3>2. CASE q = p
      BY <1>2, <1>5, <1>6, <2>4, <2>5, <3>1, <3>2
    <3>3. CASE r = p
      BY <1>2, <1>5, <1>6, <2>4, <2>5, <3>1, <3>3
    <3>4. CASE q # p /\ r # p
      BY <1>6, <2>5, <3>4 DEF IInv, InStep, BookInStep
    <3> QED
      BY <3>2, <3>3, <3>4
  <2> QED
    BY <2>2, <2>3, <2>5 DEF BookInStep
<1>13. Awaits(p, lease)'
  <2>2. \A i \in DOMAIN up'[p] : FALSE
    <3>1. DOMAIN up'[p] = 1 .. Len(up'[p])
      BY <1>8, LenProperties
    <3> QED
      BY <1>9, <3>1
  <2> QED
    BY <1>2, <1>3, <1>4, <1>5, <1>6, <1>7, <1>9, <2>2 DEF Awaits
<1>14. Session(p)'
  <2>1. DOMAIN up'[p] = {}
    <3>1. DOMAIN up'[p] = 1 .. Len(up'[p])
      BY <1>8, LenProperties
    <3> QED
      BY <1>9, <3>1
  <2>2. DownInStep(p)'
    <3>1. CASE worker[p].pc = "failed"
      BY <1>3, <3>1 DEF DownInStep
    <3>2. CASE worker[p].pc = "lease"
      <4>1. /\ worker[p].unit = u /\ claims[p] = {u} /\ worker[p].beat = 0
            /\ Len(down[p]) = 0
        BY <1>1, <1>9, <3>2 DEF Session, DownInStep
      <4>2. Len(down[p]) + 1 = 1 /\ Len(down[p]) + 2 = 2
        BY <4>1
      <4>3. \/ Len(down'[p]) = 0
            \/ Len(down'[p]) = 2 /\ down'[p][1] = m /\ down'[p][2] = n
        <5>1. CASE link[p]
          BY <1>7, <4>2, <5>1, Zenon
        <5>2. CASE ~link[p]
          BY <1>7, <4>1, <5>2
        <5> QED
          BY <5>1, <5>2
      <4>4. lease.id <= sequence'
        BY <1>2, <1>3
      <4>5. /\ worker'[p].pc = "lease" /\ worker'[p].unit = u /\ worker'[p].beat = 0
            /\ claims'[p] = {u} /\ u \in Unit
        BY <1>1, <1>3, <3>2, <4>1
      <4>6. Len(down'[p]) >= 1 => /\ Len(down'[p]) = 2
                                  /\ down'[p][1] = m /\ down'[p][2] = n
        BY <4>3
      <4>7. Len(down'[p]) <= 2
        <5>1. CASE Len(down'[p]) = 0
          BY <5>1
        <5>2. CASE Len(down'[p]) = 2
          BY <5>2
        <5> QED
          BY <4>3, <5>1, <5>2
      <4> QED
        BY <1>4, <4>4, <4>5, <4>6, <4>7 DEF DownInStep
    <3> QED
      BY <1>9, <3>1, <3>2
  <2>3. lease \in leases'
    BY <1>3
  <2> QED
    BY <1>1, <1>6, <1>13, <2>1, <2>2, <2>3 DEF Session
<1> QED
  BY <1>10, <1>11, <1>12, <1>14 DEF Kept

\* Arithmetic the steps below use.
LEMMA SecondOrLater ==
  ASSUME NEW i \in Nat, i >= 1, i # 1, NEW n \in Nat, i = n
  PROVE  i > 1 /\ i - 1 \in 1 .. n /\ i - 1 + 1 = i
OBVIOUS

\* Reading one of n heartbeats leaves n - 1 that follow the next.
LEMMA OneMoreBeat ==
  ASSUME NEW b \in Nat, NEW n \in Nat, NEW k \in Nat, k = n - 1
  PROVE  b + n = (b + 1) + k
OBVIOUS

\* LeaseBookV1.heartbeat keeps the identity and never passes the end of the term.
LEMMA ExtendedLease ==
  ASSUME TypeOK, NEW lease \in Lease
  PROVE  /\ Extended(lease) \in Lease
         /\ Extended(lease).id = lease.id /\ Extended(lease).unit = lease.unit
         /\ Extended(lease).beat = lease.beat + 1
         /\ Extended(lease).issued = lease.issued
         /\ Extended(lease).deadline <= lease.issued + LeaseSeconds
<1> DEFINE d == Smaller(Term(lease), now + Window)
<1>1. /\ now \in Nat /\ lease.issued \in Nat /\ lease.beat \in Nat
      /\ LeaseSeconds \in Nat /\ Interval \in Nat /\ Missed \in Nat
  BY LeasePolicyAssumption, ClockAssumption DEF TypeOK, Lease
<1>2. Window \in Nat
  BY <1>1 DEF Window
<1>3. d \in Nat /\ d <= lease.issued + LeaseSeconds
  BY <1>1, <1>2 DEF Smaller, Term
<1> HIDE DEF d
<1>4. Extended(lease) = [lease EXCEPT !.beat = @ + 1, !.deadline = d]
  BY DEF Extended, d
<1> DEFINE b == lease.beat + 1
<1>5. b \in Nat /\ Extended(lease) = [lease EXCEPT !.beat = b, !.deadline = d]
  BY <1>1, <1>4
<1> HIDE DEF b
<1>6. /\ Extended(lease) \in Lease
      /\ Extended(lease).id = lease.id /\ Extended(lease).unit = lease.unit
      /\ Extended(lease).beat = b /\ Extended(lease).issued = lease.issued
      /\ Extended(lease).deadline = d
  BY <1>3, <1>5 DEF Lease
<1> QED
  BY <1>3, <1>6 DEF b

\* The lease that a thread awaits, when a heartbeat is at the head of its stream.
LEMMA BeatenLease ==
  ASSUME IInv, NEW p \in Peer, coord[p].pc = "await", up[p] # <<>>,
         Head(up[p]).kind = "LEASE_HEARTBEAT", NEW lease \in Live(Head(up[p]).lease)
  PROVE  lease \in leases /\ Awaits(p, lease) /\ Item(p, lease, 1)
<1>1. Session(p) /\ TypeOK /\ up[p] \in Seq(UpMessage)
  BY DEF IInv, InStep, TypeOK
<1>2. PICK l \in leases : Awaits(p, l)
  BY <1>1 DEF Session
<1>3. Head(up[p]) = up[p][1] /\ 1 \in DOMAIN up[p]
  <2>1. Head(up[p]) = up[p][1] /\ Len(up[p]) \in Nat /\ Len(up[p]) >= 1
    BY <1>1, TailHere
  <2>2. DOMAIN up[p] = 1 .. Len(up[p])
    BY <1>1, LenProperties
  <2> QED
    BY <2>1, <2>2
<1>4. Item(p, l, 1)
  BY <1>2, <1>3 DEF Awaits
<1>5. up[p][1].kind = "LEASE_HEARTBEAT"
  BY <1>3, Zenon
<1>6. Head(up[p]).lease = l.id
  <2>1. up[p][1].lease = l.id
    BY <1>4, <1>5 DEF Item, Decision
  <2> QED
    BY <2>1, <1>3, Zenon
<1>7. lease \in leases /\ lease.id = l.id
  BY <1>6 DEF Live
<1>8. lease = l
  BY <1>7 DEF IInv, InStep, BookInStep
<1> QED
  BY <1>2, <1>4, <1>7, <1>8

\* A heartbeat extends the awaited lease, or ends the thread.
LEMMA HeartbeatKeeps ==
  ASSUME IInv, NEW p \in Peer, Heartbeat(p)
  PROVE  Kept(p)
<1>1. /\ TypeOK /\ Session(p) /\ coord[p].pc = "await" /\ up[p] # <<>>
      /\ Head(up[p]).kind = "LEASE_HEARTBEAT"
      /\ up' = [up EXCEPT ![p] = Tail(@)]
      /\ UNCHANGED <<now, late, call, outcome, worker, claims, skew, link, sequence, down>>
  BY DEF Heartbeat, Arrives, ThreadUnchanged, IInv, InStep
<1>2. PICK lease \in Live(Head(up[p]).lease) :
         \/ /\ ~Expired(lease)
            /\ leases' = (leases \ {lease}) \cup {Extended(lease)}
            /\ UNCHANGED <<coord, expired>>
         \/ Fails(p, "skewed") /\ UNCHANGED <<leases, expired>>
         \/ leases' = leases \ {lease} /\ LeaseExpires(p, lease)
  BY DEF Heartbeat
<1>3. /\ lease \in leases /\ lease \in Lease /\ Awaits(p, lease) /\ Item(p, lease, 1)
      /\ lease.id = coord[p].lease /\ lease.unit \in Unit /\ lease.attempt \in Nat
      /\ lease.beat \in Nat
  <2>1. lease \in leases /\ Awaits(p, lease) /\ Item(p, lease, 1)
    BY <1>1, <1>2, BeatenLease
  <2>2. lease \in Lease
    BY <1>1, <2>1 DEF TypeOK
  <2> QED
    BY <2>1, <2>2 DEF Lease, Awaits
<1>4. /\ coord \in [Peer -> Thread] /\ up \in [Peer -> Seq(UpMessage)]
      /\ leases \subseteq Lease /\ expired \subseteq Unit \X Nat /\ sequence \in Nat
  BY <1>1 DEF TypeOK
<1>5. /\ up' \in [Peer -> Seq(UpMessage)]
      /\ \A q \in Peer \ {p} : up'[q] = up[q]
      /\ Head(up[p]) = up[p][1] /\ Len(up[p]) \in Nat /\ Len(up[p]) >= 1
      /\ Len(up'[p]) = Len(up[p]) - 1
      /\ \A i \in 1 .. Len(up[p]) - 1 : up'[p][i] = up[p][i + 1]
  BY <1>1, <1>4, TailAt
<1>6. /\ \A i \in 1 .. Len(up'[p]) : up'[p][i] = up[p][i + 1]
      /\ \A i \in 1 .. Len(up'[p]) : \E j \in 1 .. Len(up[p]) : up'[p][i] = up[p][j]
      /\ DOMAIN up[p] = 1 .. Len(up[p]) /\ DOMAIN up'[p] = 1 .. Len(up'[p])
      /\ Len(up'[p]) \in Nat
  <2>1. DOMAIN up[p] = 1 .. Len(up[p]) /\ DOMAIN up'[p] = 1 .. Len(up'[p])
    BY <1>4, <1>5, LenProperties
  <2>2. ASSUME NEW i \in 1 .. Len(up'[p])
        PROVE  up'[p][i] = up[p][i + 1] /\ i + 1 \in 1 .. Len(up[p])
    <3>1. i \in 1 .. Len(up[p]) - 1 /\ i + 1 \in 1 .. Len(up[p])
      BY <1>5, <2>2
    <3> QED
      BY <1>5, <3>1
  <2>3. Len(up'[p]) \in Nat
    BY <1>5
  <2> QED
    BY <2>1, <2>2, <2>3
<1>7. CASE Fails(p, "skewed") /\ UNCHANGED <<leases, expired>>
  <2>1. BookInStep'
    BY <1>1, <1>4, <1>7, FailsThread, BookStays
  <2> QED
    BY <1>1, <1>4, <1>5, <1>6, <1>7, <2>1, FailedKeeps
<1>8. CASE leases' = leases \ {lease} /\ LeaseExpires(p, lease)
  <2>1. Fails(p, "expired") /\ expired' \subseteq Unit \X Nat
    BY <1>3, <1>4, <1>8 DEF LeaseExpires
  <2>2. BookInStep'
    BY <1>1, <1>4, <1>8, <2>1, FailsThread, BookStays
  <2>3. /\ leases' \subseteq Lease
        /\ \A l \in leases : l \in leases' \/ (coord[p].pc = "await" /\ l.id = coord[p].lease)
    BY <1>1, <1>3, <1>4, <1>8
  <2> QED
    BY <1>1, <1>5, <1>6, <2>1, <2>2, <2>3, FailedKeeps
<1>9. CASE leases' = (leases \ {lease}) \cup {Extended(lease)} /\ UNCHANGED <<coord, expired>>
  <2>0. PICK longer : longer = Extended(lease)
    OBVIOUS
  <2>1. /\ longer \in Lease /\ longer.id = lease.id /\ longer.unit = lease.unit
        /\ longer.beat = lease.beat + 1
        /\ longer.deadline <= longer.issued + LeaseSeconds
        /\ leases' = (leases \ {lease}) \cup {longer}
    BY <1>1, <1>3, <1>9, <2>0, ExtendedLease
  <2>2. Frame(p)
    BY <1>1, <1>3, <1>4, <1>5, <1>9, <2>1 DEF Frame
  <2>3. TypeOK'
    BY <1>1, <1>4, <1>5, <1>9, <2>1 DEF TypeOK
  <2>4. BookInStep'
    BY <1>1, <1>3, <1>9, <2>1 DEF IInv, InStep, BookInStep, Term
  <2>5. up[p][1].kind = "LEASE_HEARTBEAT"
    BY <1>1, <1>5, Zenon
  <2>6. ASSUME NEW i \in DOMAIN up'[p] PROVE Item(p, longer, i)'
    <3>1. PICK j \in DOMAIN up[p] : j = i + 1
      BY <1>5, <1>6, <2>6
    <3>2. /\ i \in Nat /\ i >= 1 /\ j \in Nat /\ i = j - 1 /\ j \in 1 .. Len(up[p])
          /\ up'[p][i] = up[p][j] /\ (j = Len(up[p]) => i = Len(up'[p]))
      BY <1>5, <1>6, <2>6, <3>1
    <3>3. Item(p, lease, j)
      BY <1>3, <3>1 DEF Awaits
    <3>4. CASE up[p][j].kind = "LEASE_HEARTBEAT"
      <4>1. up[p][j].lease = lease.id /\ up[p][j].beat = lease.beat + j
        BY <3>3, <3>4 DEF Item, Decision
      <4>2. lease.beat + j = (lease.beat + 1) + i
        BY <1>3, <3>2, OneMoreBeat
      <4>3. up'[p][i].beat = longer.beat + i
        BY <2>1, <3>2, <4>1, <4>2
      <4> QED
        BY <2>1, <3>2, <3>4, <4>1, <4>3 DEF Item
    <3>5. CASE up[p][j] = [kind |-> "WORK_RESULT", unit |-> coord[p].unit] /\ j = Len(up[p])
      BY <1>9, <3>2, <3>5 DEF Item
    <3>6. CASE /\ up[p][j] = [kind |-> "WORK_RESULT", unit |-> coord[p].unit]
               /\ j + 1 = Len(up[p])
               /\ up[p][j + 1] = Decision(coord[p].unit, "RELEASED")
      <4>1. j \in 1 .. Len(up'[p]) /\ j = Len(up'[p]) /\ j = i + 1
        BY <1>5, <1>6, <3>1, <3>2, <3>6
      <4>2. /\ up'[p][i] = [kind |-> "WORK_RESULT", unit |-> coord'[p].unit]
            /\ i + 1 = Len(up'[p])
            /\ up'[p][i + 1] = Decision(coord'[p].unit, "RELEASED")
        BY <1>6, <1>9, <3>2, <3>6, <4>1
      <4> QED
        BY <4>2 DEF Item, Decision
    <3>7. CASE /\ up[p][j] = Decision(coord[p].unit, "RELEASED")
               /\ j = Len(up[p]) /\ j > 1
               /\ up[p][j - 1] = [kind |-> "WORK_RESULT", unit |-> coord[p].unit]
      <4>1. up[p][i] = [kind |-> "WORK_RESULT", unit |-> coord[p].unit]
        BY <3>2, <3>7
      <4>2. i # 1
        BY <2>5, <4>1
      <4>3. i > 1 /\ i - 1 \in 1 .. Len(up'[p]) /\ i - 1 + 1 = i /\ i = Len(up'[p])
        BY <1>6, <3>2, <3>7, <4>2, SecondOrLater
      <4>4. up'[p][i - 1] = [kind |-> "WORK_RESULT", unit |-> coord[p].unit]
        BY <1>6, <4>1, <4>3
      <4>5. /\ up'[p][i] = Decision(coord'[p].unit, "RELEASED")
            /\ up'[p][i - 1] = [kind |-> "WORK_RESULT", unit |-> coord'[p].unit]
        BY <1>9, <3>2, <3>7, <4>4
      <4> QED
        BY <4>3, <4>5 DEF Item, Decision
    <3>8. CASE up[p][j] = Decision(coord[p].unit, "ABORTED") /\ j = Len(up[p])
      BY <1>9, <3>2, <3>8 DEF Item, Decision
    <3> QED
      BY <3>3, <3>4, <3>5, <3>6, <3>7, <3>8 DEF Item
  <2>7. Awaits(p, longer)'
    <3>1. worker[p].pc \in {"idle", "run", "failed"}
      BY <1>3, <1>5 DEF Awaits
    <3>2. worker[p].pc = "run" =>
             /\ \A i \in DOMAIN up'[p] : up'[p][i].kind = "LEASE_HEARTBEAT"
             /\ link[p] => worker[p].beat = longer.beat + Len(up'[p])
      <4>0. SUFFICES ASSUME worker[p].pc = "run"
                     PROVE  /\ \A i \in DOMAIN up'[p] : up'[p][i].kind = "LEASE_HEARTBEAT"
                            /\ link[p] => worker[p].beat = longer.beat + Len(up'[p])
        OBVIOUS
      <4>1. \A i \in DOMAIN up[p] : up[p][i].kind = "LEASE_HEARTBEAT"
        BY <1>3, <4>0 DEF Awaits
      <4>2. ASSUME NEW i \in DOMAIN up'[p] PROVE up'[p][i].kind = "LEASE_HEARTBEAT"
        <5>1. i + 1 \in DOMAIN up[p] /\ up'[p][i] = up[p][i + 1]
          BY <1>5, <1>6, <4>2
        <5> QED
          BY <4>1, <5>1
      <4>3. lease.beat + Len(up[p]) = (lease.beat + 1) + Len(up'[p])
        BY <1>3, <1>5, <1>6, OneMoreBeat
      <4>4. link[p] => worker[p].beat = lease.beat + Len(up[p])
        BY <1>3, <4>0 DEF Awaits
      <4> QED
        BY <2>1, <4>2, <4>3, <4>4
    <3> QED
      BY <1>1, <1>3, <1>9, <2>1, <2>6, <3>1, <3>2 DEF Awaits
  <2>8. \A i \in DOMAIN up'[p] :
           up'[p][i].kind = "RESOURCE_DECISION" => up'[p][i].status # "QUEUED"
    <3>1. \A j \in DOMAIN up[p] :
             up[p][j].kind = "RESOURCE_DECISION" => up[p][j].status # "QUEUED"
      BY <1>1 DEF Session
    <3>2. ASSUME NEW i \in DOMAIN up'[p] PROVE i + 1 \in DOMAIN up[p] /\ up'[p][i] = up[p][i + 1]
      BY <1>5, <1>6, <3>2
    <3> QED
      BY <3>1, <3>2
  <2>9. Session(p)'
    <3>1. longer \in leases' /\ coord[p].unit \in Unit
      BY <1>1, <2>1 DEF Session
    <3>2. DownInStep(p)'
      BY <1>1, <1>9 DEF Session, DownInStep
    <3> QED
      BY <1>1, <1>9, <2>7, <2>8, <3>1, <3>2 DEF Session
  <2> QED
    BY <2>2, <2>3, <2>4, <2>9 DEF Kept
<1> QED
  BY <1>2, <1>7, <1>8, <1>9

\* The live lease of the thread's identity is the one it awaits.
LEMMA AwaitedLease ==
  ASSUME IInv, NEW p \in Peer, coord[p].pc = "await", NEW lease \in Live(coord[p].lease)
  PROVE  lease \in leases /\ Awaits(p, lease)
<1>1. PICK l \in leases : Awaits(p, l)
  BY DEF IInv, InStep, Session
<1>2. lease \in leases /\ lease.id = coord[p].lease /\ l.id = coord[p].lease
  BY <1>1 DEF Live, Awaits
<1>3. lease = l
  BY <1>1, <1>2 DEF IInv, InStep, BookInStep
<1> QED
  BY <1>1, <1>2, <1>3

\* A result completes the lease, or ends the thread.
LEMMA ResultKeeps ==
  ASSUME IInv, NEW p \in Peer, Result(p)
  PROVE  Kept(p)
<1>1. /\ TypeOK /\ Session(p) /\ coord[p].pc = "await" /\ up[p] # <<>>
      /\ Head(up[p]).kind = "WORK_RESULT"
      /\ up' = [up EXCEPT ![p] = Tail(@)]
      /\ UNCHANGED <<now, late, call, outcome, worker, claims, skew, link, sequence, down>>
  BY DEF Result, Arrives, ThreadUnchanged, IInv, InStep
<1>2. PICK lease \in Live(coord[p].lease) :
         /\ leases' = leases \ {lease}
         /\ \/ coord' = [coord EXCEPT ![p].pc = "release"] /\ UNCHANGED expired
            \/ LeaseExpires(p, lease)
  BY DEF Result
<1>3. /\ lease \in leases /\ lease \in Lease /\ Awaits(p, lease)
      /\ lease.id = coord[p].lease /\ lease.unit \in Unit /\ lease.attempt \in Nat
      /\ coord[p].unit \in Unit
  <2>1. lease \in leases /\ Awaits(p, lease)
    BY <1>1, <1>2, AwaitedLease
  <2>2. lease \in Lease
    BY <1>1, <2>1 DEF TypeOK
  <2> QED
    BY <2>1, <2>2 DEF Lease, Awaits
<1>4. /\ coord \in [Peer -> Thread] /\ up \in [Peer -> Seq(UpMessage)]
      /\ leases \subseteq Lease /\ expired \subseteq Unit \X Nat /\ sequence \in Nat
  BY <1>1 DEF TypeOK
<1>5. /\ up' \in [Peer -> Seq(UpMessage)]
      /\ \A q \in Peer \ {p} : up'[q] = up[q]
      /\ Head(up[p]) = up[p][1] /\ Len(up[p]) \in Nat /\ Len(up[p]) >= 1
      /\ Len(up'[p]) = Len(up[p]) - 1
      /\ \A i \in 1 .. Len(up[p]) - 1 : up'[p][i] = up[p][i + 1]
  BY <1>1, <1>4, TailAt
<1>6. /\ \A i \in 1 .. Len(up'[p]) : up'[p][i] = up[p][i + 1]
      /\ \A i \in 1 .. Len(up'[p]) : \E j \in 1 .. Len(up[p]) : up'[p][i] = up[p][j]
      /\ DOMAIN up[p] = 1 .. Len(up[p]) /\ DOMAIN up'[p] = 1 .. Len(up'[p])
      /\ Len(up'[p]) \in Nat
  <2>1. DOMAIN up[p] = 1 .. Len(up[p]) /\ DOMAIN up'[p] = 1 .. Len(up'[p])
    BY <1>4, <1>5, LenProperties
  <2>2. ASSUME NEW i \in 1 .. Len(up'[p])
        PROVE  up'[p][i] = up[p][i + 1] /\ i + 1 \in 1 .. Len(up[p])
    <3>1. i \in 1 .. Len(up[p]) - 1 /\ i + 1 \in 1 .. Len(up[p])
      BY <1>5, <2>2
    <3> QED
      BY <1>5, <3>1
  <2>3. Len(up'[p]) \in Nat
    BY <1>5
  <2> QED
    BY <2>1, <2>2, <2>3
<1>7. /\ leases' \subseteq Lease
      /\ \A l \in leases : l \in leases' \/ (coord[p].pc = "await" /\ l.id = coord[p].lease)
  BY <1>1, <1>2, <1>3, <1>4
<1>8. CASE LeaseExpires(p, lease)
  <2>1. Fails(p, "expired") /\ expired' \subseteq Unit \X Nat
    BY <1>3, <1>4, <1>8 DEF LeaseExpires
  <2>2. BookInStep'
    BY <1>1, <1>2, <1>4, <2>1, FailsThread, BookStays
  <2> QED
    BY <1>1, <1>5, <1>6, <1>7, <2>1, <2>2, FailedKeeps
<1>9. CASE coord' = [coord EXCEPT ![p].pc = "release"] /\ UNCHANGED expired
  <2> DEFINE c == [coord[p] EXCEPT !.pc = "release"]
  <2>1. /\ coord' \in [Peer -> Thread] /\ coord'[p].pc = "release"
        /\ coord'[p].unit = coord[p].unit
        /\ \A q \in Peer \ {p} : coord'[q] = coord[q]
    <3>1. c \in Thread /\ c.pc = "release" /\ c.unit = coord[p].unit
      BY <1>4 DEF Thread
    <3>2. coord' = [coord EXCEPT ![p] = c]
      BY <1>4, <1>9 DEF Thread
    <3> HIDE DEF c
    <3> QED
      BY <1>4, <3>1, <3>2
  <2>2. Frame(p)
    BY <1>1, <1>4, <1>5, <1>7, <2>1 DEF Frame
  <2>3. TypeOK'
    BY <1>1, <1>4, <1>5, <1>7, <1>9, <2>1 DEF TypeOK
  <2>4. BookInStep'
    BY <1>1, <1>2, <2>1, BookStays
  <2>5. up[p][1].kind = "WORK_RESULT" /\ Item(p, lease, 1)
    <3>1. up[p][1].kind = "WORK_RESULT"
      BY <1>1, <1>5, Zenon
    <3>2. 1 \in DOMAIN up[p]
      BY <1>5, <1>6
    <3> QED
      BY <1>3, <3>1, <3>2 DEF Awaits
  <2>6. \/ 1 = Len(up[p])
        \/ 1 + 1 = Len(up[p]) /\ up[p][1 + 1] = Decision(coord[p].unit, "RELEASED")
    BY <2>5 DEF Item, Decision
  <2>7. AtMost(up'[p], Decision(coord[p].unit, "RELEASED"))
    <3>1. Len(up'[p]) = 0 \/ Len(up'[p]) = 1
      BY <1>5, <2>6
    <3>2. CASE Len(up'[p]) = 1
      <4>1. 1 + 1 = Len(up[p]) /\ 1 \in 1 .. Len(up[p]) - 1
        <5>1. Len(up[p]) \in Nat /\ Len(up[p]) - 1 = 1
          BY <1>5, <3>2
        <5>2. Len(up[p]) = 2
          BY <5>1
        <5> QED
          BY <5>2
      <4>2. up'[p][1] = up[p][1 + 1]
        BY <1>5, <4>1
      <4>3. up[p][1 + 1] = Decision(coord[p].unit, "RELEASED")
        BY <1>5, <2>6, <4>1
      <4> QED
        BY <3>2, <4>2, <4>3 DEF AtMost
    <3> QED
      BY <3>1, <3>2 DEF AtMost
  <2>8. worker[p].pc \in {"idle", "failed"} /\ (worker[p].pc = "idle" => Len(down[p]) = 0)
    <3>1. 1 \in DOMAIN up[p]
      BY <1>5, <1>6
    <3> QED
      BY <1>3, <1>5, <2>5, <3>1 DEF Awaits
  <2>9. \A i \in DOMAIN up'[p] :
           up'[p][i].kind = "RESOURCE_DECISION" => up'[p][i].status # "QUEUED"
    <3>1. \A j \in DOMAIN up[p] :
             up[p][j].kind = "RESOURCE_DECISION" => up[p][j].status # "QUEUED"
      BY <1>1 DEF Session
    <3>2. ASSUME NEW i \in DOMAIN up'[p]
          PROVE  i + 1 \in DOMAIN up[p] /\ up'[p][i] = up[p][i + 1]
      BY <1>5, <1>6, <3>2
    <3> QED
      BY <3>1, <3>2
  <2>10. DownInStep(p)'
    BY <1>1 DEF Session, DownInStep
  <2>11. Session(p)'
    BY <1>1, <1>3, <2>1, <2>7, <2>8, <2>9, <2>10 DEF Session, Decision, AtMost
  <2> QED
    BY <2>2, <2>3, <2>4, <2>11 DEF Kept
<1> QED
  BY <1>2, <1>8, <1>9

\* After the release decision the connection is as it was before the claim.
LEMMA ReleasedKeeps ==
  ASSUME IInv, NEW p \in Peer, Released(p)
  PROVE  Kept(p)
<1>1. /\ TypeOK /\ Session(p) /\ coord[p].pc = "release" /\ up[p] # <<>>
      /\ up' = [up EXCEPT ![p] = Tail(@)]
      /\ UNCHANGED <<now, late, call, outcome, worker, claims, skew, link, sequence, down, leases,
                     expired>>
  BY DEF Released, Arrives, ThreadUnchanged, IInv, InStep, book
<1>2. PICK next : next = coord[p].unit + Workers
  OBVIOUS
<1> DEFINE c == [coord[p] EXCEPT !.pc = "claim", !.lease = 0, !.results = @ \cup {coord[p].unit},
                                 !.unit = next]
<1>4. /\ coord \in [Peer -> Thread] /\ up \in [Peer -> Seq(UpMessage)]
      /\ leases \subseteq Lease /\ expired \subseteq Unit \X Nat /\ sequence \in Nat
      /\ coord[p].unit \in Unit
  BY <1>1 DEF TypeOK, Session
<1>5. /\ up' \in [Peer -> Seq(UpMessage)]
      /\ \A q \in Peer \ {p} : up'[q] = up[q]
      /\ Len(up[p]) \in Nat /\ Len(up[p]) >= 1
      /\ Len(up'[p]) = Len(up[p]) - 1
  BY <1>1, <1>4, TailAt
<1>6. Len(up'[p]) = 0 /\ DOMAIN up'[p] = 1 .. Len(up'[p])
  <2>1. Len(up[p]) <= 1
    BY <1>1 DEF Session, AtMost
  <2>2. DOMAIN up'[p] = 1 .. Len(up'[p])
    BY <1>5, LenProperties
  <2>3. Len(up[p]) = 1
    BY <1>5, <2>1, JustOne
  <2> QED
    BY <1>5, <2>2, <2>3
<1>7. /\ coord' \in [Peer -> Thread] /\ coord'[p].pc = "claim"
      /\ \A q \in Peer \ {p} : coord'[q] = coord[q]
  <2>1. next \in Nat \ {0}
    BY <1>2, <1>4, SizesAssumption DEF Unit
  <2>2. c \in Thread /\ c.pc = "claim"
    BY <1>4, <2>1 DEF Thread
  <2>3. coord' = [coord EXCEPT ![p] = c]
    BY <1>2, <1>4 DEF Thread, Released
  <2> HIDE DEF c
  <2> QED
    BY <1>4, <2>2, <2>3
<1>8. Frame(p)
  BY <1>1, <1>4, <1>5, <1>7 DEF Frame
<1>9. TypeOK'
  BY <1>1, <1>5, <1>7 DEF TypeOK
<1>10. BookInStep'
  BY <1>1, <1>7, BookStays
<1>11. DownInStep(p)'
  BY <1>1 DEF Session, DownInStep
<1>12. DOMAIN up'[p] = {}
  BY <1>6
<1>13. worker'[p].pc \in {"idle", "failed"} /\ (worker'[p].pc = "idle" => Len(down'[p]) = 0)
  BY <1>1 DEF Session
<1>14. Session(p)'
  BY <1>6, <1>7, <1>11, <1>12, <1>13 DEF Session
<1> QED
  BY <1>8, <1>9, <1>10, <1>14 DEF Kept

\* What a stream holds after one message was sent.
LEMMA OneMore ==
  ASSUME NEW s, NEW r, NEW m, Len(s) \in Nat, Len(r) = Len(s) + 1,
         \A i \in 1 .. Len(s) : r[i] = s[i], r[Len(s) + 1] = m
  PROVE  \A i \in 1 .. Len(r) : (i \in 1 .. Len(s) /\ r[i] = s[i]) \/ r[i] = m
OBVIOUS

\* A worker that waits holds no claim, so it admits or refuses.
LEMMA TakeClaimKeeps ==
  ASSUME IInv, NEW p \in Peer, TakeClaim(p)
  PROVE  Kept(p)
<1>1. /\ TypeOK /\ Session(p) /\ DownInStep(p) /\ worker[p].pc = "idle" /\ down[p] # <<>>
      /\ Head(down[p]).kind = "RESOURCE_CLAIM"
      /\ down' = [down EXCEPT ![p] = Tail(@)]
      /\ UNCHANGED <<now, late, call, outcome, coord, skew, link, leases, sequence, expired>>
  BY DEF TakeClaim, Arrives, ServiceUnchanged, IInv, InStep, Session, book
<1>2. PICK u : u = Head(down[p]).unit
  OBVIOUS
<1>3. /\ worker \in [Peer -> Service] /\ up \in [Peer -> Seq(UpMessage)]
      /\ down \in [Peer -> Seq(DownMessage)] /\ claims \in [Peer -> SUBSET Unit]
      /\ link[p] \in BOOLEAN /\ sequence \in Nat
  BY <1>1 DEF TypeOK
<1>4. /\ down' \in [Peer -> Seq(DownMessage)]
      /\ \A q \in Peer \ {p} : down'[q] = down[q]
      /\ Head(down[p]) = down[p][1] /\ down[p][1] \in DownMessage
      /\ Len(down[p]) \in Nat /\ Len(down[p]) >= 1
      /\ Len(down'[p]) = Len(down[p]) - 1
  BY <1>1, <1>3, TailAt
<1>5. /\ claims[p] = {} /\ worker[p].beat = 0 /\ Len(down[p]) <= 1
  BY <1>1 DEF DownInStep
<1>6. Len(down[p]) = 1 /\ Len(down'[p]) = 0
  <2>1. Len(down[p]) = 1
    BY <1>4, <1>5, JustOne
  <2> QED
    BY <1>4, <2>1
<1>7. down[p][1].kind = "RESOURCE_CLAIM" /\ down[p][1].unit = u
  BY <1>1, <1>2, <1>4, Zenon
<1>8. u \in Unit
  BY <1>4, <1>7 DEF DownMessage
<1>9. \/ coord[p].pc = "decision" /\ Len(up[p]) = 0 /\ coord[p].unit = u
      \/ coord[p].pc = "failed"
  <2>1. coord[p].pc \in {"claim", "decision", "await", "release", "done", "failed"}
    BY <1>1 DEF TypeOK, Thread
  <2>2. coord[p].pc \notin {"claim", "await", "release", "done"}
    <3>1. coord[p].pc # "await"
      BY <1>1, <1>6 DEF Session, Awaits
    <3> QED
      BY <1>1, <1>6, <1>7, <3>1 DEF Session, AtMost
  <2>3. coord[p].pc = "decision" => Len(up[p]) = 0 /\ coord[p].unit = u
    BY <1>1, <1>6, <1>7 DEF Session, AtMost
  <2> QED
    BY <2>1, <2>2, <2>3
<1>10. PICK status \in {"ADMITTED", "REFUSED"} :
         /\ up' = Sent(up, p, <<Decision(u, status)>>)
         /\ \/ /\ status = "ADMITTED"
               /\ claims' = [claims EXCEPT ![p] = @ \cup {u}]
               /\ worker' = [worker EXCEPT ![p].pc = "lease", ![p].unit = u]
            \/ status = "REFUSED" /\ UNCHANGED <<claims, worker>>
  <2>1. Cardinality(claims[p]) < MaxRuns
    BY <1>5, FS_EmptySet, SizesAssumption
  <2> QED
    BY <1>2, <2>1 DEF TakeClaim
<1> DEFINE m == Decision(u, status)
<1>11. m \in UpMessage /\ m.kind = "RESOURCE_DECISION" /\ m.status # "QUEUED"
  BY <1>8 DEF Decision, UpMessage
<1> HIDE DEF m
<1>12. /\ up' \in [Peer -> Seq(UpMessage)]
       /\ \A q \in Peer \ {p} : up'[q] = up[q]
       /\ ~link[p] => up'[p] = up[p]
       /\ link[p] => /\ Len(up'[p]) = Len(up[p]) + 1
                     /\ \A i \in 1 .. Len(up[p]) : up'[p][i] = up[p][i]
                     /\ up'[p][Len(up[p]) + 1] = m
  <2>1. up' = IF link[p] THEN [up EXCEPT ![p] = @ \o <<m>>] ELSE up
    BY <1>10 DEF Sent, m
  <2> QED
    BY <1>3, <1>11, <2>1, SentOne
<1>13. /\ worker' \in [Peer -> Service] /\ claims' \in [Peer -> SUBSET Unit]
       /\ \A q \in Peer \ {p} : worker'[q] = worker[q] /\ claims'[q] = claims[q]
       /\ worker'[p].beat = 0
       /\ \/ /\ status = "ADMITTED" /\ worker'[p].pc = "lease" /\ worker'[p].unit = u
             /\ claims'[p] = {u}
          \/ status = "REFUSED" /\ worker'[p].pc = "idle" /\ claims'[p] = {}
  <2>1. CASE status = "REFUSED"
    BY <1>1, <1>3, <1>5, <1>10, <2>1
  <2>2. CASE status = "ADMITTED"
    <3> DEFINE w == [worker[p] EXCEPT !.pc = "lease", !.unit = u]
    <3>0. u \in Nat
      BY <1>8, SizesAssumption DEF Unit
    <3>1. w \in Service /\ w.pc = "lease" /\ w.unit = u /\ w.beat = 0
      BY <1>3, <1>5, <3>0 DEF Service
    <3>2. worker' = [worker EXCEPT ![p] = w]
      BY <1>3, <1>10, <2>2 DEF Service
    <3> HIDE DEF w
    <3>3. claims' = [claims EXCEPT ![p] = {u}]
      BY <1>3, <1>5, <1>10, <2>2
    <3> QED
      BY <1>3, <1>8, <2>2, <3>1, <3>2, <3>3
  <2> QED
    BY <2>1, <2>2
<1>14. Frame(p)
  BY <1>1, <1>3, <1>4, <1>12, <1>13 DEF Frame
<1>15. TypeOK'
  BY <1>1, <1>4, <1>12, <1>13 DEF TypeOK
<1>16. BookInStep'
  BY <1>1, BookStays
<1>17. DownInStep(p)'
  BY <1>6, <1>8, <1>13 DEF DownInStep
<1>18. \A i \in DOMAIN up'[p] :
          up'[p][i].kind = "RESOURCE_DECISION" => up'[p][i].status # "QUEUED"
  <2>1. /\ DOMAIN up[p] = 1 .. Len(up[p]) /\ DOMAIN up'[p] = 1 .. Len(up'[p])
        /\ Len(up[p]) \in Nat
    BY <1>3, <1>12, LenProperties
  <2>2. \A i \in 1 .. Len(up[p]) :
           up[p][i].kind = "RESOURCE_DECISION" => up[p][i].status # "QUEUED"
    BY <1>1, <2>1 DEF Session
  <2>3. CASE link[p]
    <3>1. \A i \in 1 .. Len(up'[p]) : (i \in 1 .. Len(up[p]) /\ up'[p][i] = up[p][i]) \/ up'[p][i] = m
      BY <1>12, <2>1, <2>3, OneMore
    <3> QED
      BY <1>11, <2>1, <2>2, <3>1
  <2>4. CASE ~link[p]
    BY <1>12, <2>1, <2>2, <2>4
  <2> QED
    BY <2>3, <2>4
<1>19. coord[p].pc = "decision" =>
          /\ Len(up'[p]) <= 1
          /\ Len(up'[p]) = 1 => up'[p][1] = Decision(coord[p].unit, status)
  <2>1. SUFFICES ASSUME coord[p].pc = "decision"
                 PROVE  /\ Len(up'[p]) <= 1
                        /\ Len(up'[p]) = 1 => up'[p][1] = m
    BY <1>9 DEF m
  <2>2. Len(up[p]) = 0
    BY <1>9, <2>1
  <2>3. CASE link[p]
    <3>1. Len(up[p]) + 1 = 1
      BY <2>2
    <3>2. Len(up'[p]) = 1 /\ up'[p][1] = m
      BY <1>12, <2>3, <3>1, Zenon
    <3> QED
      BY <3>2
  <2>4. CASE ~link[p]
    BY <1>12, <2>2, <2>4
  <2> QED
    BY <1>3, <2>3, <2>4
<1>20. Session(p)'
  BY <1>1, <1>6, <1>9, <1>13, <1>17, <1>18, <1>19 DEF Session, AtMost
<1> QED
  BY <1>14, <1>15, <1>16, <1>20 DEF Kept

\* The grant a worker reads is that of the lease its thread awaits.
LEMMA TakeLeaseKeeps ==
  ASSUME IInv, NEW p \in Peer, TakeLease(p)
  PROVE  Kept(p)
<1>1. /\ TypeOK /\ Session(p) /\ DownInStep(p) /\ worker[p].pc = "lease" /\ down[p] # <<>>
      /\ Head(down[p]).kind = "LEASE_GRANT"
      /\ down' = [down EXCEPT ![p] = Tail(@)]
      /\ UNCHANGED <<now, late, call, outcome, coord, claims, skew, link, up, leases, sequence, expired>>
  BY DEF TakeLease, Arrives, ServiceUnchanged, IInv, InStep, Session, book
<1>2. PICK l : l = Head(down[p]).lease
  OBVIOUS
<1>3. /\ worker \in [Peer -> Service] /\ up \in [Peer -> Seq(UpMessage)]
      /\ down \in [Peer -> Seq(DownMessage)] /\ sequence \in Nat
      /\ worker' = [worker EXCEPT ![p].pc = "request", ![p].lease = l]
  BY <1>1, <1>2 DEF TypeOK, TakeLease
<1>4. /\ down' \in [Peer -> Seq(DownMessage)]
      /\ \A q \in Peer \ {p} : down'[q] = down[q]
      /\ Head(down[p]) = down[p][1] /\ down[p][1] \in DownMessage
      /\ Len(down[p]) \in Nat /\ Len(down[p]) >= 1
      /\ Len(down'[p]) = Len(down[p]) - 1
      /\ \A i \in 1 .. Len(down[p]) - 1 : down'[p][i] = down[p][i + 1]
  BY <1>1, <1>3, TailAt
<1>5. down[p][1].kind = "LEASE_GRANT" /\ down[p][1].lease = l
  BY <1>1, <1>2, <1>4, Zenon
<1>6. l \in Nat /\ l # 0
  BY <1>4, <1>5 DEF DownMessage
<1>7. /\ worker' \in [Peer -> Service]
      /\ \A q \in Peer \ {p} : worker'[q] = worker[q]
      /\ worker'[p].pc = "request" /\ worker'[p].lease = l
      /\ worker'[p].unit = worker[p].unit /\ worker'[p].beat = 0
  <2> DEFINE w == [worker[p] EXCEPT !.pc = "request", !.lease = l]
  <2>1. worker[p].beat = 0
    BY <1>1 DEF DownInStep
  <2>2. w \in Service /\ w.pc = "request" /\ w.lease = l /\ w.unit = worker[p].unit /\ w.beat = 0
    BY <1>3, <1>6, <2>1 DEF Service
  <2>3. worker' = [worker EXCEPT ![p] = w]
    BY <1>3 DEF Service
  <2> HIDE DEF w
  <2> QED
    BY <1>3, <2>2, <2>3
<1>8. Frame(p)
  BY <1>1, <1>3, <1>4, <1>7 DEF Frame
<1>9. TypeOK'
  BY <1>1, <1>4, <1>7 DEF TypeOK
<1>10. BookInStep'
  BY <1>1, BookStays
<1>11. DownInStep(p)'
  <2>1. Len(down[p]) <= 2
    BY <1>1 DEF DownInStep
  <2>2. Len(down'[p]) <= 1 /\ (Len(down'[p]) = 1 => Len(down[p]) = 2 /\ down'[p][1] = down[p][2])
    BY <1>4, <2>1
  <2> QED
    BY <1>1, <1>6, <1>7, <2>2 DEF DownInStep
<1>12. coord[p].pc \in {"await", "failed"}
  <2>1. coord[p].pc \in {"claim", "decision", "await", "release", "done", "failed"}
    BY <1>1 DEF TypeOK, Thread
  <2> QED
    BY <1>1, <1>4, <2>1 DEF Session
<1>13. ASSUME coord[p].pc = "await", NEW lease \in leases, Awaits(p, lease) PROVE Awaits(p, lease)'
  <2>1. l = coord[p].lease
    BY <1>1, <1>4, <1>5, <1>13 DEF Awaits
  <2> QED
    BY <1>1, <1>7, <1>13, <2>1 DEF Awaits, Item
<1>14. Session(p)'
  BY <1>1, <1>11, <1>12, <1>13 DEF Session
<1> QED
  BY <1>8, <1>9, <1>10, <1>14 DEF Kept

\* The same, with the place of the message.
LEMMA OneMoreAt ==
  ASSUME NEW s, NEW r, NEW m, Len(s) \in Nat, Len(r) = Len(s) + 1,
         \A i \in 1 .. Len(s) : r[i] = s[i], r[Len(s) + 1] = m
  PROVE  \A i \in 1 .. Len(r) :
            (i \in 1 .. Len(s) /\ r[i] = s[i]) \/ (i = Len(s) + 1 /\ r[i] = m)
OBVIOUS

\* The worker starts its unit.
LEMMA TakeRequestKeeps ==
  ASSUME IInv, NEW p \in Peer, TakeRequest(p)
  PROVE  Kept(p)
<1>1. /\ TypeOK /\ Session(p) /\ DownInStep(p) /\ worker[p].pc = "request" /\ down[p] # <<>>
      /\ down' = [down EXCEPT ![p] = Tail(@)]
      /\ UNCHANGED <<now, late, call, outcome, coord, claims, skew, link, up, leases, sequence, expired>>
  BY DEF TakeRequest, Arrives, ServiceUnchanged, IInv, InStep, Session, book
<1>2. PICK t, r : t = now + Interval /\ r = Append(worker[p].runs, worker[p].unit)
  OBVIOUS
<1>3. /\ worker \in [Peer -> Service] /\ up \in [Peer -> Seq(UpMessage)]
      /\ down \in [Peer -> Seq(DownMessage)] /\ sequence \in Nat
  BY <1>1 DEF TypeOK
<1>4. /\ down' \in [Peer -> Seq(DownMessage)]
      /\ \A q \in Peer \ {p} : down'[q] = down[q]
      /\ Len(down[p]) \in Nat /\ Len(down[p]) >= 1
      /\ Len(down'[p]) = Len(down[p]) - 1
  BY <1>1, <1>3, TailAt
<1>5. Len(down[p]) = 1 /\ Len(down'[p]) = 0
  <2>1. Len(down[p]) <= 1
    BY <1>1 DEF DownInStep
  <2>2. Len(down[p]) = 1
    BY <1>4, <2>1, JustOne
  <2> QED
    BY <1>4, <2>2
<1>6. /\ worker' \in [Peer -> Service]
      /\ \A q \in Peer \ {p} : worker'[q] = worker[q]
      /\ worker'[p].pc = "run" /\ worker'[p].lease = worker[p].lease
      /\ worker'[p].unit = worker[p].unit /\ worker'[p].beat = 0 /\ worker[p].beat = 0
  <2> DEFINE w == [worker[p] EXCEPT !.pc = "run", !.due = t, !.runs = r]
  <2>1. worker[p].beat = 0 /\ worker[p].unit \in Unit
    BY <1>1 DEF DownInStep
  <2>2. t \in Nat /\ r \in Seq(Unit)
    <3>1. now \in Nat /\ Interval \in Nat
      BY <1>1, LeasePolicyAssumption, ClockAssumption DEF TypeOK
    <3>2. worker[p].runs \in Seq(Unit)
      BY <1>3 DEF Service
    <3> QED
      BY <1>2, <2>1, <3>1, <3>2, AppendProperties
  <2>3. /\ w \in Service /\ w.pc = "run" /\ w.lease = worker[p].lease
        /\ w.unit = worker[p].unit /\ w.beat = 0
    BY <1>3, <2>1, <2>2 DEF Service
  <2>4. worker' = [worker EXCEPT ![p] = w]
    BY <1>2, <1>3 DEF Service, TakeRequest
  <2> HIDE DEF w
  <2> QED
    BY <1>3, <2>1, <2>3, <2>4
<1>7. Frame(p)
  BY <1>1, <1>3, <1>4, <1>6 DEF Frame
<1>8. TypeOK'
  BY <1>1, <1>4, <1>6 DEF TypeOK
<1>9. BookInStep'
  BY <1>1, BookStays
<1>10. DownInStep(p)'
  BY <1>1, <1>5, <1>6 DEF DownInStep
<1>11. coord[p].pc \in {"await", "failed"}
  <2>1. coord[p].pc \in {"claim", "decision", "await", "release", "done", "failed"}
    BY <1>1 DEF TypeOK, Thread
  <2> QED
    BY <1>1, <2>1 DEF Session
<1>12. ASSUME coord[p].pc = "await", NEW lease \in leases, Awaits(p, lease) PROVE Awaits(p, lease)'
  <2>1. Len(up[p]) = 0 /\ lease.beat = 0
    BY <1>1, <1>12 DEF Awaits
  <2>2. DOMAIN up[p] = {}
    BY <1>3, <2>1, LenProperties
  <2> QED
    BY <1>1, <1>6, <1>12, <2>1, <2>2 DEF Awaits
<1>13. Session(p)'
  BY <1>1, <1>10, <1>11, <1>12 DEF Session
<1> QED
  BY <1>7, <1>8, <1>9, <1>13 DEF Kept

\* Where the thread can be while its worker runs.
LEMMA WhileRunning ==
  ASSUME IInv, NEW p \in Peer, worker[p].pc = "run"
  PROVE  /\ TypeOK /\ Session(p) /\ DownInStep(p)
         /\ coord[p].pc \in {"await", "failed"}
         /\ Len(down[p]) = 0 /\ worker[p].unit \in Unit /\ claims[p] = {worker[p].unit}
         /\ worker[p].lease \in Nat \ {0} /\ worker[p].beat \in Nat
<1>1. TypeOK /\ Session(p) /\ DownInStep(p)
  BY DEF IInv, InStep, Session
<1>2. coord[p].pc \in {"claim", "decision", "await", "release", "done", "failed"}
  BY <1>1 DEF TypeOK, Thread
<1>3. worker[p] \in Service
  BY <1>1 DEF TypeOK
<1> QED
  BY <1>1, <1>2, <1>3 DEF Session, DownInStep, Service

\* A heartbeat follows the ones that are in flight.
LEMMA BeatKeeps ==
  ASSUME IInv, NEW p \in Peer, Beat(p)
  PROVE  Kept(p)
<1>1. /\ worker[p].pc = "run" /\ TypeOK /\ Session(p) /\ DownInStep(p)
      /\ coord[p].pc \in {"await", "failed"}
      /\ worker[p].lease \in Nat \ {0} /\ worker[p].beat \in Nat
      /\ UNCHANGED <<now, late, call, outcome, coord, claims, skew, link, down, leases, sequence, expired>>
  <2>1. worker[p].pc = "run"
    BY DEF Beat
  <2> QED
    BY <2>1, WhileRunning DEF Beat, ServiceUnchanged, book
<1>2. PICK t, b, s : t = now + Interval /\ b = worker[p].beat + 1 /\ s = now + skew[p]
  OBVIOUS
<1>3. /\ worker \in [Peer -> Service] /\ up \in [Peer -> Seq(UpMessage)]
      /\ link[p] \in BOOLEAN /\ sequence \in Nat
      /\ t \in Nat /\ b \in Nat \ {0} /\ s \in Int
  <2>0. now \in Nat /\ Interval \in Nat
    BY <1>1, LeasePolicyAssumption, ClockAssumption DEF TypeOK
  <2>1. now \in Nat /\ Interval \in Nat /\ skew[p] \in Int
    <3>1. skew[p] \in Skews
      BY <1>1 DEF TypeOK
    <3> QED
      BY <2>0, <3>1, ClockAssumption
  <2>2. t \in Nat /\ b \in Nat \ {0} /\ s \in Int
    BY <1>1, <1>2, <2>1
  <2> QED
    BY <1>1, <2>2 DEF TypeOK
<1> DEFINE m == [kind |-> "LEASE_HEARTBEAT", lease |-> worker[p].lease, beat |-> b, sent |-> s]
<1>4. /\ m \in UpMessage /\ m.kind = "LEASE_HEARTBEAT" /\ m.lease = worker[p].lease
      /\ m.beat = b
  BY <1>1, <1>3 DEF UpMessage
<1>5. up' = IF link[p] THEN [up EXCEPT ![p] = @ \o <<m>>] ELSE up
  BY <1>2 DEF Beat, Sent
<1> HIDE DEF m
<1>6. /\ up' \in [Peer -> Seq(UpMessage)]
      /\ \A q \in Peer \ {p} : up'[q] = up[q]
      /\ ~link[p] => up'[p] = up[p]
      /\ link[p] => /\ Len(up'[p]) = Len(up[p]) + 1
                    /\ \A i \in 1 .. Len(up[p]) : up'[p][i] = up[p][i]
                    /\ up'[p][Len(up[p]) + 1] = m
  BY <1>3, <1>4, <1>5, SentOne
<1>7. /\ DOMAIN up[p] = 1 .. Len(up[p]) /\ DOMAIN up'[p] = 1 .. Len(up'[p])
      /\ Len(up[p]) \in Nat
  BY <1>3, <1>6, LenProperties
<1>8. /\ worker' \in [Peer -> Service]
      /\ \A q \in Peer \ {p} : worker'[q] = worker[q]
      /\ worker'[p].pc = "run" /\ worker'[p].lease = worker[p].lease
      /\ worker'[p].unit = worker[p].unit /\ worker'[p].beat = b
  <2> DEFINE w == [worker[p] EXCEPT !.due = t, !.beat = b]
  <2>1. /\ w \in Service /\ w.pc = "run" /\ w.lease = worker[p].lease
        /\ w.unit = worker[p].unit /\ w.beat = b
    BY <1>1, <1>3 DEF Service
  <2>2. worker' = [worker EXCEPT ![p] = w]
    BY <1>2, <1>3 DEF Service, Beat
  <2> HIDE DEF w
  <2> QED
    BY <1>3, <2>1, <2>2
<1>9. Frame(p)
  BY <1>1, <1>3, <1>6, <1>8 DEF Frame
<1>10. TypeOK'
  BY <1>1, <1>6, <1>8 DEF TypeOK
<1>11. BookInStep'
  BY <1>1, BookStays
<1>12. DownInStep(p)'
  BY <1>1, <1>8 DEF DownInStep
<1>13. \A i \in 1 .. Len(up'[p]) : (i \in 1 .. Len(up[p]) /\ up'[p][i] = up[p][i]) \/
          (link[p] /\ i = Len(up[p]) + 1 /\ up'[p][i] = m)
  <2>1. CASE link[p]
    BY <1>6, <1>7, <2>1, OneMoreAt
  <2>2. CASE ~link[p]
    BY <1>6, <1>7, <2>2
  <2> QED
    BY <1>3, <2>1, <2>2
<1>14. \A i \in DOMAIN up'[p] :
          up'[p][i].kind = "RESOURCE_DECISION" => up'[p][i].status # "QUEUED"
  BY <1>1, <1>4, <1>7, <1>13 DEF Session
<1>15. ASSUME coord[p].pc = "await", NEW lease \in leases, Awaits(p, lease) PROVE Awaits(p, lease)'
  <2>1. /\ \A i \in DOMAIN up[p] : up[p][i].kind = "LEASE_HEARTBEAT" /\ Item(p, lease, i)
        /\ worker[p].lease = lease.id /\ lease.beat \in Nat
        /\ link[p] => worker[p].beat = lease.beat + Len(up[p])
    BY <1>1, <1>15 DEF Awaits, TypeOK, Lease
  <2>2. \A i \in DOMAIN up[p] : up[p][i].lease = lease.id /\ up[p][i].beat = lease.beat + i
    BY <2>1 DEF Item, Decision
  <2>3. link[p] => b = lease.beat + (Len(up[p]) + 1)
    BY <1>2, <1>7, <2>1
  <2>4. ASSUME NEW i \in DOMAIN up'[p]
        PROVE  up'[p][i].kind = "LEASE_HEARTBEAT" /\ up'[p][i].lease = lease.id
               /\ up'[p][i].beat = lease.beat + i
    <3>1. CASE i \in 1 .. Len(up[p]) /\ up'[p][i] = up[p][i]
      BY <1>7, <2>1, <2>2, <3>1
    <3>2. CASE link[p] /\ i = Len(up[p]) + 1 /\ up'[p][i] = m
      BY <1>4, <2>1, <2>3, <3>2
    <3> QED
      BY <1>7, <1>13, <2>4, <3>1, <3>2
  <2>5. link[p] => b = lease.beat + Len(up'[p])
    BY <1>6, <2>3
  <2>6. \A i \in DOMAIN up'[p] : Item(p, lease, i)'
    BY <2>4 DEF Item
  <2> QED
    BY <1>1, <1>8, <1>15, <2>4, <2>5, <2>6 DEF Awaits
<1>16. Session(p)'
  BY <1>1, <1>12, <1>14, <1>15 DEF Session
<1> QED
  BY <1>9, <1>10, <1>11, <1>16 DEF Kept

\* The worker has executed its unit and gives the claim back.
LEMMA IdledService ==
  ASSUME IInv, NEW p \in Peer, worker[p].pc = "run",
         claims' = [claims EXCEPT ![p] = @ \ {worker[p].unit}],
         worker' = [worker EXCEPT ![p] = Idles(p)]
  PROVE  /\ worker' \in [Peer -> Service] /\ claims' \in [Peer -> SUBSET Unit]
         /\ \A q \in Peer \ {p} : worker'[q] = worker[q] /\ claims'[q] = claims[q]
         /\ worker'[p].pc = "idle" /\ worker'[p].beat = 0 /\ claims'[p] = {}
<1> DEFINE w == [worker[p] EXCEPT !.pc = "idle", !.unit = 0, !.lease = 0, !.due = 0, !.beat = 0]
<1>1. worker \in [Peer -> Service] /\ claims \in [Peer -> SUBSET Unit]
  BY DEF IInv, TypeOK
<1>2. w \in Service /\ w.pc = "idle" /\ w.beat = 0
  BY <1>1 DEF Service
<1>3. worker' = [worker EXCEPT ![p] = w]
  BY DEF Idles
<1>4. claims[p] = {worker[p].unit}
  BY WhileRunning
<1> HIDE DEF w
<1> QED
  BY <1>1, <1>2, <1>3, <1>4

\* What a stream holds after two messages were sent.
LEMMA TwoMoreAt ==
  ASSUME NEW s, NEW r, NEW m, NEW n, Len(s) \in Nat, Len(r) = Len(s) + 2,
         \A i \in 1 .. Len(s) : r[i] = s[i], r[Len(s) + 1] = m, r[Len(s) + 2] = n
  PROVE  \A i \in 1 .. Len(r) :
            \/ i \in 1 .. Len(s) /\ r[i] = s[i]
            \/ i + 1 = Len(r) /\ r[i] = m /\ r[i + 1] = n
            \/ i = Len(r) /\ r[i] = n /\ i > 1 /\ r[i - 1] = m
<1> SUFFICES ASSUME NEW i \in 1 .. Len(r)
             PROVE  \/ i \in 1 .. Len(s) /\ r[i] = s[i]
                    \/ i + 1 = Len(r) /\ r[i] = m /\ r[i + 1] = n
                    \/ i = Len(r) /\ r[i] = n /\ i > 1 /\ r[i - 1] = m
  OBVIOUS
<1>1. CASE i \in 1 .. Len(s)
  BY <1>1
<1>2. CASE i = Len(s) + 1
  <2>1. i + 1 = Len(s) + 2
    BY <1>2
  <2> QED
    BY <1>2, <2>1
<1>3. CASE i = Len(s) + 2
  <2>1. i - 1 = Len(s) + 1 /\ i > 1
    BY <1>3
  <2> QED
    BY <1>3, <2>1
<1> QED
  BY <1>1, <1>2, <1>3

\* The result is followed by the release decision, and nothing else.
LEMMA DoneKeeps ==
  ASSUME IInv, NEW p \in Peer, Done(p)
  PROVE  Kept(p)
<1>0. worker[p].pc = "run"
  BY DEF Done
<1>1. /\ TypeOK /\ Session(p) /\ DownInStep(p)
      /\ coord[p].pc \in {"await", "failed"}
      /\ Len(down[p]) = 0 /\ worker[p].unit \in Unit
      /\ UNCHANGED <<now, late, call, outcome, coord, skew, link, down, leases, sequence, expired>>
  BY <1>0, WhileRunning DEF Done, ServiceUnchanged, book
<1>2. /\ worker' \in [Peer -> Service] /\ claims' \in [Peer -> SUBSET Unit]
      /\ \A q \in Peer \ {p} : worker'[q] = worker[q] /\ claims'[q] = claims[q]
      /\ worker'[p].pc = "idle" /\ worker'[p].beat = 0 /\ claims'[p] = {}
  BY <1>0, IdledService DEF Done
<1>3. PICK u : u = worker[p].unit
  OBVIOUS
<1> DEFINE m == [kind |-> "WORK_RESULT", unit |-> u]
           n == Decision(u, "RELEASED")
<1>4. /\ m \in UpMessage /\ n \in UpMessage /\ m.kind = "WORK_RESULT"
      /\ n.kind = "RESOURCE_DECISION" /\ n.status = "RELEASED"
  BY <1>1, <1>3 DEF UpMessage, Decision
<1>5. up' = IF link[p] THEN [up EXCEPT ![p] = @ \o <<m, n>>] ELSE up
  BY <1>3 DEF Done, Sent
<1>6. up \in [Peer -> Seq(UpMessage)] /\ link[p] \in BOOLEAN /\ sequence \in Nat
  BY <1>1 DEF TypeOK
<1> HIDE DEF m, n
<1>7. /\ up' \in [Peer -> Seq(UpMessage)]
      /\ \A q \in Peer \ {p} : up'[q] = up[q]
      /\ ~link[p] => up'[p] = up[p]
      /\ link[p] => /\ Len(up'[p]) = Len(up[p]) + 2
                    /\ \A i \in 1 .. Len(up[p]) : up'[p][i] = up[p][i]
                    /\ up'[p][Len(up[p]) + 1] = m /\ up'[p][Len(up[p]) + 2] = n
  BY <1>4, <1>5, <1>6, SentTwo
<1>8. /\ DOMAIN up[p] = 1 .. Len(up[p]) /\ DOMAIN up'[p] = 1 .. Len(up'[p])
      /\ Len(up[p]) \in Nat
  BY <1>6, <1>7, LenProperties
<1>9. \A i \in DOMAIN up'[p] :
          \/ i \in 1 .. Len(up[p]) /\ up'[p][i] = up[p][i]
          \/ i + 1 = Len(up'[p]) /\ up'[p][i] = m /\ up'[p][i + 1] = n
          \/ i = Len(up'[p]) /\ up'[p][i] = n /\ i > 1 /\ up'[p][i - 1] = m
  <2>1. CASE link[p]
    <3>1. \A i \in 1 .. Len(up'[p]) :
             \/ i \in 1 .. Len(up[p]) /\ up'[p][i] = up[p][i]
             \/ i + 1 = Len(up'[p]) /\ up'[p][i] = m /\ up'[p][i + 1] = n
             \/ i = Len(up'[p]) /\ up'[p][i] = n /\ i > 1 /\ up'[p][i - 1] = m
      <4>1. /\ Len(up'[p]) = Len(up[p]) + 2 /\ Len(up[p]) \in Nat
            /\ \A i \in 1 .. Len(up[p]) : up'[p][i] = up[p][i]
            /\ up'[p][Len(up[p]) + 1] = m /\ up'[p][Len(up[p]) + 2] = n
        BY <1>7, <1>8, <2>1, Zenon
      <4> QED
        BY <4>1, TwoMoreAt, SMTT(20)
    <3> QED
      BY <1>8, <3>1
  <2>2. CASE ~link[p]
    BY <1>7, <1>8, <2>2
  <2> QED
    BY <1>6, <2>1, <2>2
<1>10. Frame(p)
  BY <1>1, <1>2, <1>6, <1>7 DEF Frame
<1>11. TypeOK'
  BY <1>1, <1>2, <1>7 DEF TypeOK
<1>12. BookInStep'
  BY <1>1, BookStays
<1>13. DownInStep(p)'
  BY <1>1, <1>2 DEF DownInStep
<1>14. \A i \in DOMAIN up'[p] :
          up'[p][i].kind = "RESOURCE_DECISION" => up'[p][i].status # "QUEUED"
  BY <1>1, <1>4, <1>8, <1>9 DEF Session
<1>15. ASSUME coord[p].pc = "await", NEW lease \in leases, Awaits(p, lease) PROVE Awaits(p, lease)'
  <2>1. \A i \in DOMAIN up[p] : up[p][i].kind = "LEASE_HEARTBEAT" /\ Item(p, lease, i)
    BY <1>0, <1>15 DEF Awaits
  <2>2. \A i \in DOMAIN up[p] : up[p][i].lease = lease.id /\ up[p][i].beat = lease.beat + i
    BY <2>1 DEF Item, Decision
  <2>3. u = coord[p].unit /\ coord'[p].unit = u
    BY <1>0, <1>1, <1>3, <1>15 DEF Awaits
  <2>4. ASSUME NEW i \in DOMAIN up'[p] PROVE Item(p, lease, i)'
    <3>1. CASE i \in 1 .. Len(up[p]) /\ up'[p][i] = up[p][i]
      BY <1>8, <2>1, <2>2, <3>1 DEF Item
    <3>2. CASE i + 1 = Len(up'[p]) /\ up'[p][i] = m /\ up'[p][i + 1] = n
      BY <2>3, <3>2 DEF Item, m, n, Decision
    <3>3. CASE i = Len(up'[p]) /\ up'[p][i] = n /\ i > 1 /\ up'[p][i - 1] = m
      BY <2>3, <3>3 DEF Item, m, n, Decision
    <3> QED
      BY <1>9, <2>4, <3>1, <3>2, <3>3
  <2> QED
    BY <1>1, <1>2, <1>15, <2>4 DEF Awaits
<1>16. Session(p)'
  BY <1>1, <1>13, <1>14, <1>15 DEF Session
<1> QED
  BY <1>10, <1>11, <1>12, <1>16 DEF Kept

\* An abort is the last message of its attempt.
LEMMA OverKeeps ==
  ASSUME IInv, NEW p \in Peer, Over(p)
  PROVE  Kept(p)
<1>0. worker[p].pc = "run"
  BY DEF Over
<1>1. /\ TypeOK /\ Session(p) /\ DownInStep(p)
      /\ coord[p].pc \in {"await", "failed"}
      /\ Len(down[p]) = 0 /\ worker[p].unit \in Unit
      /\ UNCHANGED <<now, late, call, outcome, coord, skew, link, down, leases, sequence, expired>>
  BY <1>0, WhileRunning DEF Over, ServiceUnchanged, book
<1>2. /\ worker' \in [Peer -> Service] /\ claims' \in [Peer -> SUBSET Unit]
      /\ \A q \in Peer \ {p} : worker'[q] = worker[q] /\ claims'[q] = claims[q]
      /\ worker'[p].pc = "idle" /\ worker'[p].beat = 0 /\ claims'[p] = {}
  BY <1>0, IdledService DEF Over
<1>3. PICK u : u = worker[p].unit
  OBVIOUS
<1> DEFINE m == Decision(u, "ABORTED")
<1>4. m \in UpMessage /\ m.kind = "RESOURCE_DECISION" /\ m.status = "ABORTED"
  BY <1>1, <1>3 DEF UpMessage, Decision
<1>5. up' = IF link[p] THEN [up EXCEPT ![p] = @ \o <<m>>] ELSE up
  BY <1>3 DEF Over, Sent
<1>6. up \in [Peer -> Seq(UpMessage)] /\ link[p] \in BOOLEAN /\ sequence \in Nat
  BY <1>1 DEF TypeOK
<1> HIDE DEF m
<1>7. /\ up' \in [Peer -> Seq(UpMessage)]
      /\ \A q \in Peer \ {p} : up'[q] = up[q]
      /\ ~link[p] => up'[p] = up[p]
      /\ link[p] => /\ Len(up'[p]) = Len(up[p]) + 1
                    /\ \A i \in 1 .. Len(up[p]) : up'[p][i] = up[p][i]
                    /\ up'[p][Len(up[p]) + 1] = m
  BY <1>4, <1>5, <1>6, SentOne
<1>8. /\ DOMAIN up[p] = 1 .. Len(up[p]) /\ DOMAIN up'[p] = 1 .. Len(up'[p])
      /\ Len(up[p]) \in Nat
  BY <1>6, <1>7, LenProperties
<1>9. \A i \in DOMAIN up'[p] :
          \/ i \in 1 .. Len(up[p]) /\ up'[p][i] = up[p][i]
          \/ i = Len(up'[p]) /\ up'[p][i] = m
  <2>1. CASE link[p]
    <3>1. \A i \in 1 .. Len(up'[p]) :
             \/ i \in 1 .. Len(up[p]) /\ up'[p][i] = up[p][i]
             \/ i = Len(up[p]) + 1 /\ up'[p][i] = m
      BY <1>7, <1>8, <2>1, OneMoreAt
    <3> QED
      BY <1>7, <1>8, <2>1, <3>1
  <2>2. CASE ~link[p]
    BY <1>7, <1>8, <2>2
  <2> QED
    BY <1>6, <2>1, <2>2
<1>10. Frame(p)
  BY <1>1, <1>2, <1>6, <1>7 DEF Frame
<1>11. TypeOK'
  BY <1>1, <1>2, <1>7 DEF TypeOK
<1>12. BookInStep'
  BY <1>1, BookStays
<1>13. DownInStep(p)'
  BY <1>1, <1>2 DEF DownInStep
<1>14. \A i \in DOMAIN up'[p] :
          up'[p][i].kind = "RESOURCE_DECISION" => up'[p][i].status # "QUEUED"
  BY <1>1, <1>4, <1>8, <1>9 DEF Session
<1>15. ASSUME coord[p].pc = "await", NEW lease \in leases, Awaits(p, lease) PROVE Awaits(p, lease)'
  <2>1. \A i \in DOMAIN up[p] : up[p][i].kind = "LEASE_HEARTBEAT" /\ Item(p, lease, i)
    BY <1>0, <1>15 DEF Awaits
  <2>2. \A i \in DOMAIN up[p] : up[p][i].lease = lease.id /\ up[p][i].beat = lease.beat + i
    BY <2>1 DEF Item, Decision
  <2>3. u = coord[p].unit /\ coord'[p].unit = u
    BY <1>0, <1>1, <1>3, <1>15 DEF Awaits
  <2>4. ASSUME NEW i \in DOMAIN up'[p] PROVE Item(p, lease, i)'
    <3>1. CASE i \in 1 .. Len(up[p]) /\ up'[p][i] = up[p][i]
      BY <1>8, <2>1, <2>2, <3>1 DEF Item
    <3>2. CASE i = Len(up'[p]) /\ up'[p][i] = m
      BY <2>3, <3>2 DEF Item, m, Decision
    <3> QED
      BY <1>9, <2>4, <3>1, <3>2
  <2> QED
    BY <1>1, <1>2, <1>15, <2>4 DEF Awaits
<1>16. Session(p)'
  BY <1>1, <1>13, <1>14, <1>15 DEF Session
<1> QED
  BY <1>10, <1>11, <1>12, <1>16 DEF Kept

\* A worker ends its session only after its thread has.
LEMMA CloseKeeps ==
  ASSUME IInv, NEW p \in Peer, Close(p)
  PROVE  Kept(p)
<1>1. /\ TypeOK /\ Session(p) /\ DownInStep(p) /\ worker[p].pc = "idle" /\ down[p] # <<>>
      /\ Head(down[p]).kind = "SESSION_CLOSE"
      /\ down' = [down EXCEPT ![p] = Tail(@)]
      /\ worker' = [worker EXCEPT ![p].pc = "ended"]
      /\ link' = [link EXCEPT ![p] = FALSE]
      /\ UNCHANGED <<now, late, call, outcome, coord, skew, claims, up, leases, sequence, expired>>
  BY DEF Close, Leaves, Arrives, ServiceUnchanged, IInv, InStep, Session, book
<1>2. /\ worker \in [Peer -> Service] /\ up \in [Peer -> Seq(UpMessage)]
      /\ down \in [Peer -> Seq(DownMessage)] /\ link \in [Peer -> BOOLEAN] /\ sequence \in Nat
  BY <1>1 DEF TypeOK
<1>3. /\ down' \in [Peer -> Seq(DownMessage)]
      /\ \A q \in Peer \ {p} : down'[q] = down[q]
      /\ Head(down[p]) = down[p][1]
      /\ Len(down[p]) \in Nat /\ Len(down[p]) >= 1
  BY <1>1, <1>2, TailAt
<1>4. Len(down[p]) = 1
  <2>1. Len(down[p]) <= 1
    BY <1>1 DEF DownInStep
  <2> QED
    BY <1>3, <2>1, JustOne
<1>5. down[p][1].kind = "SESSION_CLOSE"
  BY <1>1, <1>3, Zenon
<1>6. /\ worker' \in [Peer -> Service]
      /\ \A q \in Peer \ {p} : worker'[q] = worker[q]
      /\ worker'[p].pc = "ended"
  <2> DEFINE w == [worker[p] EXCEPT !.pc = "ended"]
  <2>1. w \in Service /\ w.pc = "ended"
    BY <1>2 DEF Service
  <2>2. worker' = [worker EXCEPT ![p] = w]
    BY <1>1, <1>2 DEF Service
  <2> HIDE DEF w
  <2> QED
    BY <1>2, <2>1, <2>2
<1>7. link' \in [Peer -> BOOLEAN] /\ \A q \in Peer \ {p} : link'[q] = link[q]
  BY <1>1, <1>2
<1>8. coord[p].pc \in {"done", "failed"}
  <2>1. coord[p].pc \in {"claim", "decision", "await", "release", "done", "failed"}
    BY <1>1 DEF TypeOK, Thread
  <2>2. coord[p].pc # "await"
    BY <1>1, <1>4 DEF Session, Awaits
  <2>3. coord[p].pc \notin {"claim", "decision", "release"}
    BY <1>1, <1>4, <1>5 DEF Session, AtMost
  <2> QED
    BY <2>1, <2>2, <2>3
<1>9. Frame(p)
  BY <1>1, <1>2, <1>3, <1>6, <1>7 DEF Frame
<1>10. TypeOK'
  BY <1>1, <1>3, <1>6, <1>7 DEF TypeOK
<1>11. BookInStep'
  BY <1>1, BookStays
<1>12. DownInStep(p)'
  BY <1>6 DEF DownInStep
<1>13. Session(p)'
  BY <1>1, <1>6, <1>8, <1>12 DEF Session
<1> QED
  BY <1>9, <1>10, <1>11, <1>13 DEF Kept

\* What a broken connection leaves of a stream.
LEMMA PrefixHere ==
  ASSUME NEW M, NEW s \in Seq(M), NEW kept \in Prefixes(s)
  PROVE  /\ kept \in Seq(M) /\ Len(kept) \in Nat /\ Len(kept) <= Len(s)
         /\ \A i \in 1 .. Len(kept) : kept[i] = s[i]
<1>1. PICK n \in 0 .. Len(s) : kept = SubSeq(s, 1, n)
  BY DEF Prefixes
<1>2. Len(s) \in Nat /\ n \in Nat /\ n <= Len(s) /\ \A i \in 1 .. n : s[i] \in M
  BY <1>1, LenProperties
<1>3. /\ SubSeq(s, 1, n) \in Seq(M)
      /\ Len(SubSeq(s, 1, n)) = IF 1 <= n THEN n - 1 + 1 ELSE 0
      /\ \A i \in 1 .. n - 1 + 1 : SubSeq(s, 1, n)[i] = s[1 + i - 1]
  BY <1>2, SubSeqProperties
<1>4. Len(kept) = n /\ n - 1 + 1 = n
  BY <1>1, <1>2, <1>3
<1>5. ASSUME NEW i \in 1 .. n PROVE kept[i] = s[i]
  <2>1. 1 + i - 1 = i /\ i \in 1 .. n - 1 + 1
    BY <1>2
  <2> QED
    BY <1>1, <1>3, <2>1
<1> QED
  BY <1>1, <1>2, <1>3, <1>4, <1>5

\* A prefix of a stream of at most one message.
LEMMA ShortPrefix ==
  ASSUME NEW s, NEW k, Len(s) \in Nat, Len(k) \in Nat, Len(k) <= Len(s),
         \A i \in 1 .. Len(k) : k[i] = s[i]
  PROVE  /\ Len(s) = 0 => Len(k) = 0
         /\ Len(s) <= 1 => Len(k) <= 1 /\ (Len(k) = 1 => Len(s) = 1 /\ k[1] = s[1])
         /\ \A m : AtMost(s, m) => AtMost(k, m)
<1>1. Len(s) = 0 => Len(k) = 0
  OBVIOUS
<1>2. ASSUME Len(s) <= 1 PROVE Len(k) <= 1 /\ (Len(k) = 1 => Len(s) = 1 /\ k[1] = s[1])
  <2>1. Len(k) <= 1 /\ (Len(k) = 1 => Len(s) = 1)
    BY <1>2
  <2> QED
    BY <2>1
<1> QED
  BY <1>1, <1>2 DEF AtMost

LEMMA FailedService ==
  ASSUME NEW v \in Service
  PROVE  [v EXCEPT !.pc = "failed"] \in Service /\ [v EXCEPT !.pc = "failed"].pc = "failed"
BY DEF Service

\* What is left of a stream is what an end that reads on can still expect.
LEMMA BrokenKeeps ==
  ASSUME IInv, NEW p \in Peer,
         UNCHANGED <<now, late, call, outcome, coord, claims, skew, leases, sequence, expired>>,
         link' = [link EXCEPT ![p] = FALSE],
         worker' = worker \/ worker' = [worker EXCEPT ![p].pc = "failed"],
         NEW U \in Prefixes(up[p]), up' = [up EXCEPT ![p] = U],
         NEW D \in Prefixes(down[p]), down' = [down EXCEPT ![p] = D]
  PROVE  Kept(p)
<1>1. TypeOK /\ Session(p) /\ DownInStep(p)
  BY DEF IInv, InStep, Session
<1>2. /\ worker \in [Peer -> Service] /\ up \in [Peer -> Seq(UpMessage)]
      /\ down \in [Peer -> Seq(DownMessage)] /\ link \in [Peer -> BOOLEAN] /\ sequence \in Nat
  BY <1>1 DEF TypeOK
<1>3. /\ U \in Seq(UpMessage) /\ Len(U) \in Nat /\ Len(U) <= Len(up[p])
      /\ \A i \in 1 .. Len(U) : U[i] = up[p][i]
      /\ D \in Seq(DownMessage) /\ Len(D) \in Nat /\ Len(D) <= Len(down[p])
      /\ \A i \in 1 .. Len(D) : D[i] = down[p][i]
  BY <1>2, PrefixHere
<1>4. /\ up' \in [Peer -> Seq(UpMessage)] /\ up'[p] = U
      /\ down' \in [Peer -> Seq(DownMessage)] /\ down'[p] = D
      /\ \A q \in Peer \ {p} : up'[q] = up[q] /\ down'[q] = down[q] /\ link'[q] = link[q]
      /\ link' \in [Peer -> BOOLEAN] /\ link'[p] = FALSE
  BY <1>2, <1>3
<1>5. /\ DOMAIN up[p] = 1 .. Len(up[p]) /\ DOMAIN U = 1 .. Len(U)
      /\ Len(up[p]) \in Nat /\ Len(down[p]) \in Nat
  BY <1>2, <1>3, LenProperties
<1>6. /\ worker' \in [Peer -> Service]
      /\ \A q \in Peer \ {p} : worker'[q] = worker[q]
      /\ worker'[p] = worker[p] \/ worker'[p].pc = "failed"
  <2>1. CASE worker' = worker
    BY <1>2, <2>1
  <2>2. CASE worker' = [worker EXCEPT ![p].pc = "failed"]
    <3>1. PICK v, w : v = worker[p] /\ w = [v EXCEPT !.pc = "failed"]
      OBVIOUS
    <3>2. v \in Service
      BY <1>2, <3>1
    <3>3. w \in Service /\ w.pc = "failed"
      BY <3>1, <3>2, FailedService
    <3>4. worker' = [worker EXCEPT ![p] = w]
      BY <2>2, <3>1
    <3> QED
      BY <1>2, <3>3, <3>4
  <2> QED
    BY <2>1, <2>2
<1>7. Frame(p)
  BY <1>2, <1>4, <1>6 DEF Frame
<1>8. TypeOK'
  BY <1>1, <1>4, <1>6 DEF TypeOK
<1>9. BookInStep'
  BY BookStays
<1>10. DownInStep(p)'
  <2>1. CASE worker'[p].pc = "failed"
    BY <2>1 DEF DownInStep
  <2>2. CASE worker'[p] = worker[p]
    BY <1>1, <1>3, <1>4, <1>5, <2>2, SMTT(20) DEF DownInStep
  <2> QED
    BY <1>6, <2>1, <2>2
<1>11. \A i \in DOMAIN U : U[i].kind = "RESOURCE_DECISION" => U[i].status # "QUEUED"
  BY <1>1, <1>3, <1>5 DEF Session
<1>12. ASSUME coord[p].pc = "await", NEW lease \in leases, Awaits(p, lease) PROVE Awaits(p, lease)'
  <2>1. ASSUME NEW i \in DOMAIN up'[p] PROVE Item(p, lease, i)'
    <3>1. i \in 1 .. Len(U) /\ i \in 1 .. Len(up[p]) /\ i \in DOMAIN up[p] /\ U[i] = up[p][i]
      BY <1>3, <1>4, <1>5, <2>1
    <3>2. Item(p, lease, i)
      BY <1>12, <3>1 DEF Awaits
    <3>3. i = Len(up[p]) => i = Len(U)
      BY <1>3, <1>5, <3>1
    <3>4. i + 1 = Len(up[p]) /\ i # Len(U) => i + 1 = Len(U) /\ U[i + 1] = up[p][i + 1]
      <4>1. ASSUME i + 1 = Len(up[p]), i # Len(U) PROVE i + 1 = Len(U) /\ i + 1 \in 1 .. Len(U)
        BY <1>3, <1>5, <3>1, <4>1
      <4> QED
        BY <1>3, <4>1
    <3>5. i > 1 => U[i - 1] = up[p][i - 1]
      <4>1. Len(U) \in Nat /\ i \in 1 .. Len(U)
        BY <1>3, <3>1
      <4>2. ASSUME i > 1 PROVE i - 1 \in 1 .. Len(U)
        BY <4>1, <4>2
      <4> QED
        BY <1>3, <4>2
    <3> QED
      BY <1>4, <3>1, <3>2, <3>3, <3>4, <3>5 DEF Item, Decision
  <2>2. worker[p].pc = "run" => \A i \in DOMAIN U : U[i].kind = "LEASE_HEARTBEAT"
    BY <1>3, <1>5, <1>12 DEF Awaits
  <2>3. CASE worker'[p].pc = "failed"
    BY <1>4, <1>12, <2>1, <2>3 DEF Awaits
  <2>4. CASE worker'[p] = worker[p]
    <3>1. /\ worker[p].pc \in {"lease", "request"} => Len(U) = 0
          /\ worker[p].pc = "idle" => Len(D) = 0
          /\ worker[p].pc = "lease" /\ Len(D) >= 1 => D[1].lease = coord[p].lease
      BY <1>3, <1>5, <1>12 DEF Awaits
    <3> QED
      BY <1>4, <1>12, <2>1, <2>2, <2>4, <3>1 DEF Awaits
  <2> QED
    BY <1>6, <2>3, <2>4
<1>13. Session(p)'
  <2>1. \A m : AtMost(up[p], m) => AtMost(U, m)
    BY <1>3, <1>5, ShortPrefix
  <2>2. \A m : AtMost(down[p], m) => AtMost(D, m)
    BY <1>3, <1>5, ShortPrefix
  <2>3. /\ Len(up[p]) = 0 => Len(U) = 0
        /\ Len(down[p]) = 0 => Len(D) = 0
        /\ Len(up[p]) <= 1 => Len(U) <= 1 /\ (Len(U) = 1 => Len(up[p]) = 1 /\ U[1] = up[p][1])
    BY <1>3, <1>5, ShortPrefix
  <2>4. CASE coord[p].pc = "await"
    BY <1>1, <1>4, <1>10, <1>11, <1>12, <2>4 DEF Session
  <2>5. CASE coord[p].pc = "claim"
    BY <1>1, <1>4, <1>6, <1>10, <1>11, <2>3, <2>5 DEF Session
  <2>6. CASE coord[p].pc = "decision"
    BY <1>1, <1>4, <1>6, <1>10, <1>11, <2>1, <2>2, <2>3, <2>6 DEF Session, Decision
  <2>7. CASE coord[p].pc = "release"
    BY <1>1, <1>4, <1>6, <1>10, <1>11, <2>1, <2>3, <2>7 DEF Session, Decision
  <2>8. CASE coord[p].pc = "done"
    BY <1>1, <1>4, <1>6, <1>10, <1>11, <2>2, <2>3, <2>8 DEF Session
  <2>9. CASE coord[p].pc = "failed"
    BY <1>1, <1>4, <1>10, <1>11, <2>9 DEF Session
  <2> QED
    <3>1. coord[p].pc \in {"claim", "decision", "await", "release", "done", "failed"}
      BY <1>1 DEF TypeOK, Thread
    <3> QED
      BY <2>4, <2>5, <2>6, <2>7, <2>8, <2>9, <3>1
<1> QED
  BY <1>7, <1>8, <1>9, <1>13 DEF Kept

\* A stream is a prefix of itself.
LEMMA WholePrefix ==
  ASSUME NEW M, NEW s \in Seq(M)
  PROVE  s \in Prefixes(s)
<1>1. Len(s) \in Nat /\ Len(s) \in 0 .. Len(s) /\ \A i \in 1 .. Len(s) : s[i] \in M
  BY LenProperties
<1>2. SubSeq(s, 1, Len(s)) = s
  OBVIOUS
<1> QED
  BY <1>1, <1>2 DEF Prefixes

\* A worker that times out or dies, or a connection that breaks, leaves the thread in
\* step.
LEMMA GoneKeeps ==
  ASSUME IInv, NEW p \in Peer, ServiceReceiveFails(p) \/ Dies(p) \/ Break(p)
  PROVE  Kept(p)
<1>1. up \in [Peer -> Seq(UpMessage)] /\ down \in [Peer -> Seq(DownMessage)]
  BY DEF IInv, TypeOK
<1>2. up[p] \in Prefixes(up[p]) /\ down[p] \in Prefixes(down[p])
  BY <1>1, WholePrefix
<1>3. up = [up EXCEPT ![p] = up[p]] /\ down = [down EXCEPT ![p] = down[p]]
  BY <1>1
<1>4. PICK U \in Prefixes(up[p]), D \in Prefixes(down[p]) :
         up' = [up EXCEPT ![p] = U] /\ down' = [down EXCEPT ![p] = D]
  BY <1>2, <1>3 DEF ServiceReceiveFails, Dies, Break
<1>5. /\ UNCHANGED <<now, late, call, outcome, coord, claims, skew, leases, sequence, expired>>
      /\ link' = [link EXCEPT ![p] = FALSE]
      /\ worker' = worker \/ worker' = [worker EXCEPT ![p].pc = "failed"]
  BY DEF ServiceReceiveFails, Dies, Break, Leaves, ServiceUnchanged, book
<1> QED
  BY <1>4, <1>5, BrokenKeeps

\* What the threads and services start as.
LEMMA FreshTyped ==
  ASSUME NEW p \in Peer
  PROVE  FreshThread(p) \in Thread /\ FreshService \in Service
<1>1. p \in Nat \ {0}
  BY SizesAssumption DEF Peer
<1>2. FreshThread(p) \in Thread
  BY <1>1 DEF FreshThread, Thread
<1>3. <<>> \in Seq(Unit)
  BY EmptySeq
<1>4. FreshService \in Service
  BY <1>3 DEF FreshService, Service
<1> QED
  BY <1>2, <1>4

\* The first call starts in step.
LEMMA InitInStep == Init => IInv
<1> SUFFICES ASSUME Init PROVE IInv
  OBVIOUS
<1>0. \A p \in Peer : FreshThread(p) \in Thread /\ FreshService \in Service
  BY FreshTyped
<1>1. TypeOK
  <2>1. now \in 0 .. MaxTime /\ call \in Nat \ {0} /\ sequence \in Nat
    BY ClockAssumption DEF Init, Connected
  <2>2. /\ up \in [Peer -> Seq(UpMessage)] /\ down \in [Peer -> Seq(DownMessage)]
        /\ link \in [Peer -> BOOLEAN] /\ claims \in [Peer -> SUBSET Unit]
    BY EmptySeq DEF Init, Connected
  <2>3. coord \in [Peer -> Thread] /\ worker \in [Peer -> Service]
    BY <1>0 DEF Init, Connected
  <2> QED
    BY <2>1, <2>2, <2>3 DEF Init, Connected, TypeOK
<1>2. ASSUME NEW p \in Peer PROVE Session(p) /\ coord[p].pc = "claim"
  <2>1. /\ coord[p].pc = "claim" /\ worker[p].pc = "idle" /\ worker[p].beat = 0
        /\ up[p] = <<>> /\ down[p] = <<>> /\ claims[p] = {}
    BY DEF Init, Connected, FreshThread, FreshService
  <2>2. Len(up[p]) = 0 /\ Len(down[p]) = 0 /\ DOMAIN up[p] = {}
    BY <2>1
  <2> QED
    BY <2>1, <2>2 DEF Session, DownInStep
<1>3. BookInStep
  BY <1>2 DEF Init, Connected, BookInStep
<1> QED
  BY <1>1, <1>2, <1>3 DEF IInv, InStep

\* Every later call does, with an empty lease book.
LEMMA AgainInStep ==
  ASSUME IInv, Again
  PROVE  IInv'
<1>0. \A p \in Peer : FreshThread(p) \in Thread /\ FreshService \in Service
  BY FreshTyped
<1>1. TypeOK'
  <2>0. TypeOK
    BY DEF IInv
  <2>1. call' \in Nat \ {0} /\ sequence' \in Nat
    BY <2>0 DEF Again, TypeOK
  <2>2. /\ up' \in [Peer -> Seq(UpMessage)] /\ down' \in [Peer -> Seq(DownMessage)]
        /\ link' \in [Peer -> BOOLEAN] /\ claims' \in [Peer -> SUBSET Unit]
    BY EmptySeq DEF Again
  <2>3. coord' \in [Peer -> Thread] /\ worker' \in [Peer -> Service]
    BY <1>0 DEF Again
  <2> QED
    BY <2>0, <2>1, <2>2, <2>3 DEF Again, TypeOK
<1>2. ASSUME NEW p \in Peer PROVE Session(p)' /\ coord'[p].pc = "claim"
  <2>1. /\ coord'[p].pc = "claim" /\ worker'[p].pc = "idle" /\ worker'[p].beat = 0
        /\ up'[p] = <<>> /\ down'[p] = <<>> /\ claims'[p] = {}
    BY DEF Again, FreshThread, FreshService
  <2>2. Len(up'[p]) = 0 /\ Len(down'[p]) = 0 /\ DOMAIN up'[p] = {}
    BY <2>1
  <2> QED
    BY <2>1, <2>2 DEF Session, DownInStep
<1>3. BookInStep'
  BY <1>2 DEF Again, BookInStep
<1> QED
  BY <1>1, <1>2, <1>3 DEF IInv, InStep

\* The end of a call and the passing of time disturb nothing.
LEMMA ClosedInStep ==
  ASSUME IInv, Finish \/ Tick
  PROVE  IInv'
<1>1. TypeOK /\ BookInStep /\ \A p \in Peer : Session(p)
  BY DEF IInv, InStep
<1>2. /\ UNCHANGED <<call, leases, sequence, expired, coord, worker, claims, skew, up, down>>
      /\ link' = link \/ link' = [p \in Peer |-> FALSE]
  BY DEF Finish, Tick, book, wires
<1>3. /\ now' \in 0 .. MaxTime /\ late' \in BOOLEAN
      /\ outcome' \in {"running", "returned", "raised"}
  <2>1. CASE Finish
    BY <1>1, <2>1 DEF Finish, TypeOK
  <2>2. CASE Tick
    BY <1>1, <2>2, ClockAssumption DEF Tick, TypeOK
  <2> QED
    BY <2>1, <2>2
<1>4. TypeOK'
  BY <1>1, <1>2, <1>3 DEF TypeOK
<1>5. BookInStep'
  BY <1>1, <1>2 DEF BookInStep, Term
<1>6. ASSUME NEW p \in Peer PROVE Session(p)'
  <2>1. Session(p) /\ (link'[p] => link[p])
    BY <1>1, <1>2, <1>6
  <2>2. DownInStep(p)'
    BY <1>2, <2>1 DEF Session, DownInStep
  <2>3. \A lease \in leases : Awaits(p, lease) => Awaits(p, lease)'
    BY <1>2, <2>1 DEF Awaits, Item
  <2> QED
    BY <1>2, <2>1, <2>2, <2>3 DEF Session
<1> QED
  BY <1>4, <1>5, <1>6 DEF IInv, InStep

\* Every step of a coordinator thread keeps its connection in step.
LEMMA ThreadKeeps ==
  ASSUME IInv, NEW p \in Peer, ThreadStep(p)
  PROVE  Kept(p)
BY ClaimUnitKeeps, CloseSessionKeeps, AdmittedKeeps, NotAdmittedKeeps, HeartbeatKeeps,
   AbortedKeeps, ResultKeeps, ReleasedKeeps, LostKeeps DEF ThreadStep

\* Every step of a worker does, and so do breaks and deaths.
LEMMA ServiceKeeps ==
  ASSUME IInv, NEW p \in Peer, ServiceStep(p) \/ Break(p) \/ Dies(p)
  PROVE  Kept(p)
BY TakeClaimKeeps, TakeLeaseKeeps, TakeRequestKeeps, BeatKeeps, DoneKeeps, OverKeeps,
   CloseKeeps, GoneKeeps DEF ServiceStep

\* The invariant is inductive.
LEMMA StepInStep == IInv /\ [Next]_vars => IInv'
<1> SUFFICES ASSUME IInv, [Next]_vars PROVE IInv'
  OBVIOUS
<1>1. ASSUME NEW p \in Peer, ThreadStep(p) \/ ServiceStep(p) \/ Break(p) \/ Dies(p)
      PROVE  IInv'
  <2>1. Kept(p)
    BY <1>1, ThreadKeeps, ServiceKeeps
  <2>2. \A q \in Peer \ {p} : Session(q)'
    BY <2>1, OthersStay DEF Kept
  <2> QED
    BY <2>1, <2>2 DEF Kept, IInv, InStep
<1>2. CASE UNCHANGED vars
  <2>1. UNCHANGED <<now, late, call, outcome, leases, sequence, expired, coord, worker, claims, skew,
                    link, up, down>>
    BY <1>2 DEF vars, book, wires
  <2>2. TypeOK' /\ BookInStep'
    BY <2>1 DEF IInv, InStep, TypeOK, BookInStep, Term
  <2>3. ASSUME NEW p \in Peer PROVE Session(p)'
    <3>1. Session(p)
      BY DEF IInv, InStep
    <3>2. DownInStep(p)'
      BY <2>1, <3>1 DEF Session, DownInStep
    <3>3. \A lease \in leases : Awaits(p, lease) => Awaits(p, lease)'
      BY <2>1 DEF Awaits, Item
    <3> QED
      BY <2>1, <3>1, <3>2, <3>3 DEF Session
  <2> QED
    BY <2>2, <2>3 DEF IInv, InStep
<1> QED
  BY <1>1, <1>2, AgainInStep, ClosedInStep DEF Next

\* Whatever breaks and whoever fails, each thread of execute_many and its worker agree
\* on where they are in the session up to what is in flight, and the lease book has one
\* lease per identity, no two of them awaited by the same thread, each within its term.
THEOREM Safety == Spec => []IInv
<1> QED
  BY InitInStep, StepInStep, PTL DEF Spec

\* InOrder follows from the invariant.
LEMMA OrderHolds == IInv => InOrder
<1> SUFFICES ASSUME IInv, NEW p \in Peer
             PROVE  /\ up[p] # <<>> => ThreadExpects(p, Head(up[p]))
                    /\ down[p] # <<>> => ServiceExpects(p, Head(down[p]))
  BY DEF InOrder
<1>1. TypeOK /\ Session(p) /\ DownInStep(p)
  BY DEF IInv, InStep, Session
<1>2. /\ up[p] \in Seq(UpMessage) /\ down[p] \in Seq(DownMessage)
      /\ coord[p].pc \in {"claim", "decision", "await", "release", "done", "failed"}
      /\ worker[p].pc \in {"idle", "lease", "request", "run", "ended", "failed"}
  BY <1>1 DEF TypeOK, Thread, Service
<1>3. ASSUME up[p] # <<>> PROVE ThreadExpects(p, Head(up[p]))
  <2>1. /\ Head(up[p]) = up[p][1] /\ Len(up[p]) \in Nat /\ Len(up[p]) >= 1
        /\ 1 \in DOMAIN up[p]
    BY <1>2, <1>3, TailHere, LenProperties
  <2>2. PICK m : m = up[p][1]
    OBVIOUS
  <2>3. CASE coord[p].pc = "decision"
    <3>1. Len(up[p]) <= 1
      BY <1>1, <2>3 DEF Session
    <3>2. Len(up[p]) = 1
      BY <2>1, <3>1, JustOne
    <3>3. m.kind = "RESOURCE_DECISION" /\ m.unit = coord[p].unit
      BY <1>1, <2>2, <2>3, <3>2 DEF Session, Decision
    <3> QED
      BY <2>1, <2>2, <2>3, <3>3 DEF ThreadExpects
  <2>4. CASE coord[p].pc = "await"
    <3>1. PICK l \in leases : Awaits(p, l)
      BY <1>1, <2>4 DEF Session
    <3>2. Item(p, l, 1) /\ l.id = coord[p].lease
      BY <2>1, <3>1 DEF Awaits
    <3>3. \/ m.kind = "LEASE_HEARTBEAT" /\ m.lease = coord[p].lease
          \/ m.kind = "WORK_RESULT" /\ m.unit = coord[p].unit
          \/ m.kind = "RESOURCE_DECISION" /\ m.unit = coord[p].unit /\ m.status = "ABORTED"
      BY <2>2, <3>2 DEF Item, Decision
    <3> QED
      BY <2>1, <2>2, <2>4, <3>3 DEF ThreadExpects
  <2>5. CASE coord[p].pc = "release"
    <3>1. Len(up[p]) <= 1
      BY <1>1, <2>5 DEF Session, AtMost
    <3>2. Len(up[p]) = 1
      BY <2>1, <3>1, JustOne
    <3>3. /\ m.kind = "RESOURCE_DECISION" /\ m.unit = coord[p].unit
          /\ m.status = "RELEASED"
      BY <1>1, <2>2, <2>5, <3>2 DEF Session, AtMost, Decision
    <3> QED
      BY <2>1, <2>2, <2>5, <3>3 DEF ThreadExpects
  <2>6. CASE coord[p].pc = "claim"
    BY <1>1, <2>1, <2>6 DEF Session
  <2>7. CASE coord[p].pc \in {"done", "failed"}
    BY <2>7 DEF ThreadExpects
  <2> QED
    BY <1>2, <2>3, <2>4, <2>5, <2>6, <2>7
<1>4. ASSUME down[p] # <<>> PROVE ServiceExpects(p, Head(down[p]))
  <2>1. Head(down[p]) = down[p][1] /\ Len(down[p]) \in Nat /\ Len(down[p]) >= 1
    BY <1>2, <1>4, TailHere
  <2>2. CASE worker[p].pc = "idle"
    BY <1>1, <2>1, <2>2, JustOne DEF DownInStep, ServiceExpects
  <2>3. CASE worker[p].pc = "lease"
    BY <1>1, <2>1, <2>3 DEF DownInStep, ServiceExpects
  <2>4. CASE worker[p].pc = "request"
    BY <1>1, <2>1, <2>4, JustOne DEF DownInStep, ServiceExpects
  <2>5. CASE worker[p].pc = "run"
    BY <1>1, <2>1, <2>5 DEF DownInStep
  <2>6. CASE worker[p].pc \in {"ended", "failed"}
    BY <2>6 DEF ServiceExpects
  <2> QED
    BY <1>2, <2>2, <2>3, <2>4, <2>5, <2>6
<1> QED
  BY <1>3, <1>4

\* Neither _receive_attempt_result nor LanWorkerServiceV1.run meets a message it does
\* not expect: no MESSAGE_ORDER_INVALID, LEASE_INVALID or WORK_RESULT_INVALID.
THEOREM Order == Spec => []InOrder
<1> QED
  BY Safety, OrderHolds, PTL

\* HeartbeatsAreNext follows from the invariant.
LEMMA BeatsHold == IInv => HeartbeatsAreNext
<1> SUFFICES ASSUME IInv, NEW p \in Peer, coord[p].pc = "await"
             PROVE  \E lease \in Live(coord[p].lease) :
                       /\ lease.unit = coord[p].unit
                       /\ \A i \in DOMAIN up[p] :
                             up[p][i].kind = "LEASE_HEARTBEAT" => up[p][i].beat = lease.beat + i
  BY DEF HeartbeatsAreNext
<1>1. PICK l \in leases : Awaits(p, l)
  BY DEF IInv, InStep, Session
<1>2. l \in Live(coord[p].lease) /\ l.unit = coord[p].unit
  BY <1>1 DEF Awaits, Live
<1>3. \A i \in DOMAIN up[p] : up[p][i].kind = "LEASE_HEARTBEAT" => up[p][i].beat = l.beat + i
  BY <1>1 DEF Awaits, Item, Decision
<1> QED
  BY <1>2, <1>3

\* LeaseBookV1.heartbeat meets neither UNKNOWN_LEASE nor HEARTBEAT_SEQUENCE_GAP.
THEOREM Beats == Spec => []HeartbeatsAreNext
<1> QED
  BY Safety, BeatsHold, PTL

\* NeverQueued follows from the invariant.
LEMMA AdmissionHolds == IInv => NeverQueued
BY DEF IInv, InStep, Session, DownInStep, NeverQueued

\* ResourceControllerV1 has given back what an earlier unit took whenever a worker
\* waits for a claim, so none is queued.
THEOREM Admission == Spec => []NeverQueued
<1> QED
  BY Safety, AdmissionHolds, PTL

\* RunsUnderItsLease follows from the invariant.
LEMMA RunsHold == IInv => RunsUnderItsLease
<1> SUFFICES ASSUME IInv, NEW p \in Peer, worker[p].pc = "run"
             PROVE  \/ /\ coord[p].pc = "await"
                       /\ worker[p].unit = coord[p].unit
                       /\ worker[p].lease = coord[p].lease
                    \/ coord[p].pc = "failed"
  BY DEF RunsUnderItsLease
<1>1. coord[p].pc \in {"await", "failed"} /\ Session(p)
  BY WhileRunning
<1> QED
  BY <1>1 DEF Session, Awaits

\* A worker runs a unit only under the lease its thread awaits, or after the thread
\* has raised.
THEOREM Running == Spec => []RunsUnderItsLease
<1> QED
  BY Safety, RunsHold, PTL

\* A step that takes a result takes it within the term.
LEMMA TermStep ==
  ASSUME IInv, [Next]_vars, NEW p \in Peer, coord[p].pc = "await", coord'[p].pc = "release"
  PROVE  \E lease \in Live(coord[p].lease) : now < Term(lease)
<1>1. coord'[p] # coord[p]
  OBVIOUS
<1>2. Result(p)
  <2>1. ASSUME NEW q \in Peer, q # p, ThreadStep(q) \/ ServiceStep(q) \/ Break(q) \/ Dies(q)
        PROVE  FALSE
    <3>1. Kept(q)
      BY <2>1, ThreadKeeps, ServiceKeeps
    <3> QED
      BY <1>1, <2>1, <3>1 DEF Kept, Frame
  <2>2. ~(ServiceStep(p) \/ Break(p) \/ Dies(p))
    BY <1>1 DEF ServiceStep, TakeClaim, TakeLease, TakeRequest, Beat, Done, Over, Close,
                ServiceReceiveFails, Break, Dies, ServiceUnchanged
  <2>3. ~Finish /\ ~Tick /\ ~UNCHANGED vars
    BY <1>1 DEF Finish, Tick, vars
  <2>4. ~Again
    BY DEF Again, FreshThread
  <2>5. TypeOK
    BY DEF IInv
  <2>6. \A why \in {"refused", "expired", "skewed", "aborted", "lost"} : ~Fails(p, why)
    BY <2>5, FailsThread
  <2>7. ThreadStep(p) => Result(p)
    <3>1. ~Heartbeat(p)
      BY <1>1, <2>6 DEF Heartbeat, LeaseExpires
    <3> QED
      BY <2>6, <3>1 DEF ThreadStep, ClaimUnit, CloseSession, Admitted, NotAdmitted, Aborted,
                        Released, ReceiveFails, SendFails
  <2> QED
    BY <2>1, <2>2, <2>3, <2>4, <2>7 DEF Next
<1>3. PICK lease \in Live(coord[p].lease) :
         ~Expired(lease) \/ LeaseExpires(p, lease)
  BY <1>2 DEF Result
<1>4. ~LeaseExpires(p, lease)
  <2>1. TypeOK
    BY DEF IInv
  <2> QED
    BY <2>1, FailsThread DEF LeaseExpires
<1>5. lease \in leases /\ lease \in Lease /\ lease.deadline <= Term(lease) /\ now \in Nat
  BY ClockAssumption DEF Live, IInv, InStep, BookInStep, TypeOK
<1>6. lease.deadline \in Nat /\ Term(lease) \in Nat
  BY <1>5, LeasePolicyAssumption DEF Lease, Term
<1>7. now < Term(lease)
  BY <1>3, <1>4, <1>5, <1>6 DEF Expired
<1> QED
  BY <1>7

\* LeaseBookV1.complete is never reached after lease_seconds, however many heartbeats
\* have extended the deadline.
THEOREM Terms == Spec => TakenInTerm
<1>1. IInv /\ [Next]_vars =>
         [\A p \in Peer : coord[p].pc = "await" /\ coord'[p].pc = "release" =>
             \E lease \in Live(coord[p].lease) : now < Term(lease)]_vars
  BY TermStep
<1> QED
  BY <1>1, Safety, PTL DEF Spec, TakenInTerm

-----------------------------------------------------------------------------
(***************************************************************************)
(* Units are dealt round robin: a thread's next unit is Workers further.   *)
(***************************************************************************)

\* Unit u is dealt to peer p.
Deals(p, u) == \E k \in Nat : u = p + k * Workers

LEMMA Rounds ==
  ASSUME NEW k \in Nat, NEW l \in Nat
  PROVE  /\ k * Workers \in Nat /\ l * Workers \in Nat
         /\ (k + 1) * Workers = k * Workers + Workers
         /\ k < l => k * Workers + Workers <= l * Workers
<1>1. Workers \in Nat /\ Workers >= 1
  BY SizesAssumption
<1>2. k * Workers \in Nat /\ l * Workers \in Nat
  BY <1>1
<1>3. (k + 1) * Workers = k * Workers + Workers
  BY <1>1
<1>4. ASSUME k < l PROVE k * Workers + Workers <= l * Workers
  <2>1. PICK d \in Nat : l = k + 1 + d
    <3>1. l - k - 1 \in Nat /\ l = k + 1 + (l - k - 1)
      BY <1>4
    <3> QED  BY <3>1
  <2>2. (k + 1 + d) * Workers = (k + 1) * Workers + d * Workers
    BY <1>1
  <2>3. d * Workers \in Nat
    BY <1>1
  <2> QED  BY <1>1, <1>2, <1>3, <2>1, <2>2, <2>3
<1> QED  BY <1>2, <1>3, <1>4

\* From a unit dealt to p the next one is Workers further, with none between.
LEMMA DealtNext ==
  ASSUME NEW p \in Peer, NEW u, NEW v, Deals(p, u), Deals(p, v)
  PROVE  /\ u \in Nat \ {0} /\ v \in Nat \ {0}
         /\ Deals(p, u + Workers)
         /\ u < v => u + Workers <= v
<1>1. p \in Nat \ {0} /\ Workers \in Nat \ {0}
  BY SizesAssumption DEF Peer
<1>2. PICK k \in Nat : u = p + k * Workers
  BY DEF Deals
<1>3. PICK l \in Nat : v = p + l * Workers
  BY DEF Deals
<1>4. /\ k * Workers \in Nat /\ l * Workers \in Nat
      /\ (k + 1) * Workers = k * Workers + Workers
      /\ k < l => k * Workers + Workers <= l * Workers
      /\ l < k => l * Workers + Workers <= k * Workers
  BY Rounds
<1> DEFINE x == k * Workers
           y == l * Workers
           z == (k + 1) * Workers
<1>5. /\ x \in Nat /\ y \in Nat /\ z = x + Workers /\ u = p + x /\ v = p + y
      /\ k < l => x + Workers <= y
      /\ l < k => y + Workers <= x
      /\ k = l => x = y
  BY <1>2, <1>3, <1>4
<1>6. Deals(p, u + Workers)
  <2>1. k + 1 \in Nat /\ u + Workers = p + z
    <3> HIDE DEF x, z
    <3> QED  BY <1>1, <1>5
  <2> QED  BY <2>1 DEF Deals
<1> HIDE DEF x, y, z
<1>7. u < v => u + Workers <= v
  <2>1. k < l \/ l < k \/ k = l
    OBVIOUS
  <2> QED  BY <1>1, <1>5, <2>1
<1> QED  BY <1>1, <1>5, <1>6, <1>7

\* No unit is dealt to two peers.
LEMMA DealtApart ==
  ASSUME NEW p \in Peer, NEW q \in Peer, NEW u, Deals(p, u), Deals(q, u)
  PROVE  p = q
<1>1. /\ p \in Nat \ {0} /\ q \in Nat \ {0} /\ Workers \in Nat \ {0}
      /\ p <= Workers /\ q <= Workers
  BY SizesAssumption DEF Peer
<1>2. PICK k \in Nat : u = p + k * Workers
  BY DEF Deals
<1>3. PICK l \in Nat : u = q + l * Workers
  BY DEF Deals
<1> DEFINE x == k * Workers
           y == l * Workers
<1>4. /\ x \in Nat /\ y \in Nat /\ u = p + x /\ u = q + y
      /\ k < l => x + Workers <= y
      /\ l < k => y + Workers <= x
      /\ k = l => x = y
  BY <1>2, <1>3, Rounds
<1> HIDE DEF x, y
<1>5. k < l \/ l < k \/ k = l
  OBVIOUS
<1> QED  BY <1>1, <1>4, <1>5

LEMMA Division ==
  ASSUME NEW n \in Nat, NEW W \in Nat \ {0}
  PROVE  n \div W \in Nat /\ n % W \in 0 .. W - 1 /\ n = (n \div W) * W + (n % W)
<1>1. n \div W \in Nat
  OBVIOUS
<1>2. n % W \in 0 .. W - 1
  OBVIOUS
<1>3. n = (n \div W) * W + (n % W)
  OBVIOUS
<1> QED  BY <1>1, <1>2, <1>3

\* Every unit is dealt to somebody.
LEMMA DealtOut ==
  ASSUME NEW u \in Unit
  PROVE  \E p \in Peer : Deals(p, u)
<1> DEFINE k == (u - 1) \div Workers
           r == (u - 1) % Workers
<1>1. Workers \in Nat \ {0} /\ u - 1 \in Nat
  BY SizesAssumption DEF Unit
<1>2. k \in Nat /\ r \in 0 .. Workers - 1 /\ u - 1 = k * Workers + r
  BY <1>1, Division
<1> HIDE DEF k, r
<1>3. k * Workers \in Nat
  BY <1>1, <1>2
<1>4. r + 1 \in Peer /\ u = (r + 1) + k * Workers
  BY <1>1, <1>2, <1>3 DEF Peer, Unit
<1> QED  BY <1>2, <1>4 DEF Deals

-----------------------------------------------------------------------------
(***************************************************************************)
(* What a connection has executed.                                         *)
(***************************************************************************)

\* Unit u was started in a session that started R; all that it started are before u.
Ran(R, u) == \E i \in DOMAIN R : R[i] = u
Before(R, u) == \A i \in DOMAIN R : R[i] < u

\* A thread c, a worker w and the streams U and D between them: the worker starts
\* the units dealt to it in order, each once, and the thread has the results of
\* those before the unit in hand.
Deal(p, c, w, U, D) ==
  /\ Deals(p, c.unit)
  /\ \A i \in DOMAIN w.runs : Deals(p, w.runs[i])
  /\ \A i, j \in DOMAIN w.runs : i < j => w.runs[i] < w.runs[j]
  /\ w.pc \in {"lease", "request"} => Deals(p, w.unit) /\ Before(w.runs, w.unit)
  /\ w.pc = "run" => Ran(w.runs, w.unit)
  /\ w.pc = "idle" =>
       \A i \in DOMAIN D : D[i].kind = "RESOURCE_CLAIM" =>
         Deals(p, D[i].unit) /\ Before(w.runs, D[i].unit)
  /\ c.pc \in {"claim", "decision"} => Before(w.runs, c.unit)
  /\ c.pc \in {"await", "release"} => Before(w.runs, c.unit + 1)
  /\ c.pc = "await" => \A i \in DOMAIN U : U[i].kind = "WORK_RESULT" => Ran(w.runs, c.unit)
  /\ c.pc = "release" => Ran(w.runs, c.unit)
  /\ c.pc = "done" => c.unit \notin Unit
  /\ c.pc # "failed" =>
       /\ c.results = {v \in Unit : Deals(p, v) /\ v < c.unit}
       /\ \A v \in c.results : Ran(w.runs, v)

\* The messages of s are messages of t.
From(s, t) == \A i \in DOMAIN s : \E j \in DOMAIN t : s[i] = t[j]

LEMMA FromRest ==
  ASSUME NEW M, NEW s \in Seq(M), s # <<>>
  PROVE  From(Tail(s), s)
<1>1. /\ Len(s) \in Nat /\ Tail(s) \in Seq(M) /\ Len(Tail(s)) = Len(s) - 1
      /\ \A i \in 1 .. Len(s) - 1 : Tail(s)[i] = s[i + 1]
  BY TailHere
<1>2. DOMAIN Tail(s) = 1 .. Len(s) - 1 /\ DOMAIN s = 1 .. Len(s)
  BY <1>1, LenProperties
<1> QED  BY <1>1, <1>2 DEF From

LEMMA FromPrefix ==
  ASSUME NEW M, NEW s \in Seq(M), NEW kept \in Prefixes(s)
  PROVE  From(kept, s)
<1>1. /\ kept \in Seq(M) /\ Len(kept) \in Nat /\ Len(kept) <= Len(s)
      /\ \A i \in 1 .. Len(kept) : kept[i] = s[i]
  BY PrefixHere
<1>2. DOMAIN kept = 1 .. Len(kept) /\ DOMAIN s = 1 .. Len(s) /\ Len(s) \in Nat
  BY <1>1, LenProperties
<1> QED  BY <1>1, <1>2 DEF From

\* What a stream holds once messages were sent on it.
LEMMA FromSent ==
  ASSUME NEW M, NEW t \in Seq(M), NEW s \in Seq(M), NEW r, r = t \/ r = t \o s
  PROVE  \A i \in DOMAIN r : \/ \E j \in DOMAIN t : r[i] = t[j]
                             \/ \E j \in DOMAIN s : r[i] = s[j]
<1>1. CASE r = t \o s
  <2> DEFINE n == Len(t)
  <2>1. n \in Nat /\ Len(s) \in Nat /\ DOMAIN t = 1 .. n /\ DOMAIN s = 1 .. Len(s)
    BY LenProperties
  <2>2. /\ t \o s \in Seq(M) /\ Len(t \o s) = n + Len(s)
        /\ \A i \in 1 .. n + Len(s) : (t \o s)[i] = IF i <= n THEN t[i] ELSE s[i - n]
    BY ConcatProperties
  <2>3. DOMAIN (t \o s) = 1 .. n + Len(s)
    BY <2>2, LenProperties
  <2> SUFFICES ASSUME NEW i \in 1 .. n + Len(s)
               PROVE  \/ \E j \in 1 .. n : (t \o s)[i] = t[j]
                      \/ \E j \in 1 .. Len(s) : (t \o s)[i] = s[j]
    BY <1>1, <2>1, <2>3
  <2>4. i <= n => i \in 1 .. n
    BY <2>1
  <2>5. ~(i <= n) => i - n \in 1 .. Len(s)
    BY <2>1
  <2> QED  BY <2>2, <2>4, <2>5
<1>2. CASE r = t
  BY <1>2
<1> QED  BY <1>1, <1>2

\* Nothing is claimed, started or taken.
Quiet(c, w, U, D, d, x, V, E) ==
  /\ d.unit = c.unit /\ d.results = c.results
  /\ d.pc \in {c.pc, "failed"}
  /\ x.runs = w.runs
  /\ \/ x.pc \in {"failed", "ended"}
     \/ /\ x.unit = w.unit
        /\ x.pc = w.pc \/ (w.pc = "lease" /\ x.pc = "request")
  /\ From(E, D)
  /\ \A i \in DOMAIN V : V[i].kind = "WORK_RESULT" => \E j \in DOMAIN U : V[i] = U[j]

LEMMA QuietDeal ==
  ASSUME NEW p, NEW c, NEW w, NEW U, NEW D, NEW d, NEW x, NEW V, NEW E,
         Deal(p, c, w, U, D), Quiet(c, w, U, D, d, x, V, E)
  PROVE  Deal(p, d, x, V, E)
<1>1. x.pc = "idle" =>
        \A i \in DOMAIN E : E[i].kind = "RESOURCE_CLAIM" =>
          Deals(p, E[i].unit) /\ Before(x.runs, E[i].unit)
  BY DEF Quiet, From, Deal
<1>2. d.pc = "await" => \A i \in DOMAIN V : V[i].kind = "WORK_RESULT" => Ran(x.runs, d.unit)
  BY DEF Quiet, Deal
<1> QED  BY <1>1, <1>2 DEF Quiet, Deal

\* What was started was dealt, so it is a positive number.
LEMMA Started ==
  ASSUME NEW p \in Peer, NEW c, NEW w, NEW U, NEW D, Deal(p, c, w, U, D)
  PROVE  /\ c.unit \in Nat \ {0}
         /\ \A i \in DOMAIN w.runs : w.runs[i] \in Nat \ {0}
<1>1. \A v : Deals(p, v) => v \in Nat \ {0}
  BY DealtNext
<1> QED  BY <1>1 DEF Deal

LEMMA ClaimDeal ==
  ASSUME NEW p, NEW c, NEW w, NEW U, NEW D, NEW d, NEW E,
         Deal(p, c, w, U, D), c.pc = "claim",
         d.pc = "decision", d.unit = c.unit, d.results = c.results,
         \A i \in DOMAIN E : \/ \E j \in DOMAIN D : E[i] = D[j]
                             \/ E[i].unit = c.unit
  PROVE  Deal(p, d, w, U, E)
<1>1. \A i \in DOMAIN E : E[i].kind = "RESOURCE_CLAIM" /\ w.pc = "idle" =>
          Deals(p, E[i].unit) /\ Before(w.runs, E[i].unit)
  BY DEF Deal
<1> QED  BY <1>1 DEF Deal

LEMMA CloseDeal ==
  ASSUME NEW p, NEW c, NEW w, NEW U, NEW D, NEW d, NEW E,
         Deal(p, c, w, U, D), c.pc = "claim", c.unit \notin Unit,
         d.pc = "done", d.unit = c.unit, d.results = c.results,
         \A i \in DOMAIN E : \/ \E j \in DOMAIN D : E[i] = D[j]
                             \/ E[i].kind # "RESOURCE_CLAIM"
  PROVE  Deal(p, d, w, U, E)
<1>1. \A i \in DOMAIN E : E[i].kind = "RESOURCE_CLAIM" /\ w.pc = "idle" =>
          Deals(p, E[i].unit) /\ Before(w.runs, E[i].unit)
  BY DEF Deal
<1> QED  BY <1>1 DEF Deal

LEMMA GrantDeal ==
  ASSUME NEW p \in Peer, NEW c, NEW w, NEW U, NEW D, NEW d, NEW V, NEW E,
         Deal(p, c, w, U, D), c.pc = "decision", DOMAIN V = {},
         d.pc = "await", d.unit = c.unit, d.results = c.results,
         \A i \in DOMAIN E : \/ \E j \in DOMAIN D : E[i] = D[j]
                             \/ E[i].kind # "RESOURCE_CLAIM"
  PROVE  Deal(p, d, w, V, E)
<1>1. \A i \in DOMAIN E : E[i].kind = "RESOURCE_CLAIM" /\ w.pc = "idle" =>
          Deals(p, E[i].unit) /\ Before(w.runs, E[i].unit)
  BY DEF Deal
<1>2. Before(w.runs, c.unit + 1)
  <2>1. Before(w.runs, c.unit)
    BY DEF Deal
  <2> QED  BY <2>1, Started DEF Before
<1> QED  BY <1>1, <1>2 DEF Deal

LEMMA ResultDeal ==
  ASSUME NEW p, NEW c, NEW w, NEW U, NEW D, NEW d, NEW V,
         Deal(p, c, w, U, D), c.pc = "await",
         NEW i \in DOMAIN U, U[i].kind = "WORK_RESULT",
         d.pc = "release", d.unit = c.unit, d.results = c.results
  PROVE  Deal(p, d, w, V, D)
BY DEF Deal

LEMMA TakenDeal ==
  ASSUME NEW p \in Peer, NEW c, NEW w, NEW U, NEW D, NEW d, NEW V,
         Deal(p, c, w, U, D), c.pc = "release", c.unit \in Unit,
         d.pc = "claim", d.unit = c.unit + Workers, d.results = c.results \cup {c.unit}
  PROVE  Deal(p, d, w, V, D)
<1>1. /\ Deals(p, c.unit) /\ Ran(w.runs, c.unit) /\ Before(w.runs, c.unit + 1)
      /\ c.results = {v \in Unit : Deals(p, v) /\ v < c.unit}
      /\ \A v \in c.results : Ran(w.runs, v)
  BY DEF Deal
<1>2. Workers \in Nat \ {0} /\ c.unit \in Nat /\ c.unit + Workers \in Nat
  BY SizesAssumption DEF Unit
<1>3. Deals(p, d.unit)
  BY <1>1, DealtNext
<1>4. Before(w.runs, d.unit)
  BY <1>1, <1>2, Started DEF Before
<1>5. \A v \in Unit : Deals(p, v) => (v < c.unit + Workers <=> v < c.unit \/ v = c.unit)
  <2> SUFFICES ASSUME NEW v \in Unit, Deals(p, v)
               PROVE  v < c.unit + Workers <=> v < c.unit \/ v = c.unit
    OBVIOUS
  <2>1. c.unit < v => c.unit + Workers <= v
    BY <1>1, DealtNext
  <2>2. v \in Nat
    BY DEF Unit
  <2> QED  BY <1>2, <2>1, <2>2
<1>6. d.results = {v \in Unit : Deals(p, v) /\ v < d.unit}
  BY <1>1, <1>5
<1>7. \A v \in d.results : Ran(w.runs, v)
  BY <1>1
<1> QED  BY <1>3, <1>4, <1>6, <1>7 DEF Deal

LEMMA AdmitDeal ==
  ASSUME NEW p, NEW c, NEW w, NEW U, NEW D, NEW x, NEW V, NEW E, NEW i \in DOMAIN D,
         Deal(p, c, w, U, D), w.pc = "idle", D[i].kind = "RESOURCE_CLAIM",
         x.pc = "lease", x.unit = D[i].unit, x.runs = w.runs,
         \A k \in DOMAIN V : \/ \E j \in DOMAIN U : V[k] = U[j]
                             \/ V[k].kind # "WORK_RESULT"
  PROVE  Deal(p, c, x, V, E)
<1>1. \A k \in DOMAIN V : V[k].kind = "WORK_RESULT" /\ c.pc = "await" => Ran(w.runs, c.unit)
  BY DEF Deal
<1> QED  BY <1>1 DEF Deal

LEMMA StartDeal ==
  ASSUME NEW p \in Peer, NEW c, NEW w, NEW U, NEW D, NEW x, NEW E,
         Deal(p, c, w, U, D), w.pc = "request", w.runs \in Seq(Unit), w.unit \in Unit,
         x.pc = "run", x.unit = w.unit, x.runs = Append(w.runs, w.unit),
         c.pc \in {"await", "failed"}, c.pc = "await" => c.unit = w.unit
  PROVE  Deal(p, c, x, U, E)
<1> DEFINE R == w.runs
           n == Len(R)
           S == x.runs
<1>1. n \in Nat /\ DOMAIN R = 1 .. n
  BY LenProperties
<1>2. /\ S \in Seq(Unit) /\ Len(S) = n + 1
      /\ \A i \in 1 .. n : S[i] = R[i]
      /\ S[n + 1] = w.unit
  BY AppendProperties
<1>3. DOMAIN S = 1 .. n + 1 /\ 1 .. n \subseteq 1 .. n + 1 /\ n + 1 \in 1 .. n + 1
      /\ \A i \in 1 .. n + 1 : i \in 1 .. n \/ i = n + 1
  BY <1>1, <1>2, LenProperties
<1>4. /\ Deals(p, w.unit) /\ Before(R, w.unit) /\ \A i \in DOMAIN R : Deals(p, R[i])
      /\ \A i, j \in DOMAIN R : i < j => R[i] < R[j]
  BY DEF Deal
<1> HIDE DEF n, R, S
<1>5. \A i \in DOMAIN S : Deals(p, S[i])
  BY <1>1, <1>2, <1>3, <1>4
<1>6. \A i, j \in DOMAIN S : i < j => S[i] < S[j]
  <2> SUFFICES ASSUME NEW i \in 1 .. n + 1, NEW j \in 1 .. n + 1, i < j PROVE S[i] < S[j]
    BY <1>3
  <2>1. i \in 1 .. n
    BY <1>1
  <2>2. CASE j \in 1 .. n
    BY <1>1, <1>2, <1>4, <2>1, <2>2
  <2>3. CASE j = n + 1
    BY <1>1, <1>2, <1>4, <2>1, <2>3 DEF Before
  <2> QED  BY <1>3, <2>2, <2>3
<1>7. Ran(S, w.unit) /\ \A u : Ran(R, u) => Ran(S, u)
  BY <1>1, <1>2, <1>3 DEF Ran
<1>8. c.pc = "await" => Before(S, c.unit + 1)
  <2> SUFFICES ASSUME c.pc = "await", NEW i \in 1 .. n + 1 PROVE S[i] < c.unit + 1
    BY <1>3 DEF Before
  <2>1. c.unit = w.unit /\ c.unit \in Nat
    BY DEF Unit
  <2>2. CASE i \in 1 .. n
    <3>1. R[i] < w.unit /\ R[i] \in Nat
      <4>1. R[i] \in Nat
        BY <1>1, <2>2, Started DEF R
      <4> QED  BY <1>1, <1>4, <2>2, <4>1 DEF Before
    <3> QED  BY <1>2, <2>1, <2>2, <3>1
  <2>3. CASE i = n + 1
    BY <1>2, <2>1, <2>3
  <2> QED  BY <1>3, <2>2, <2>3
<1> QED  BY <1>5, <1>6, <1>7, <1>8 DEF Deal, R, S

LEMMA EndDeal ==
  ASSUME NEW p, NEW c, NEW w, NEW U, NEW D, NEW x, NEW V,
         Deal(p, c, w, U, D), w.pc = "run", DOMAIN D = {},
         x.pc = "idle", x.runs = w.runs, c.pc = "await" => c.unit = w.unit
  PROVE  Deal(p, c, x, V, D)
BY DEF Deal

LEMMA FreshDeal ==
  ASSUME NEW p \in Peer
  PROVE  Deal(p, FreshThread(p), FreshService, <<>>, <<>>)
<1>1. p \in Nat \ {0} /\ Workers \in Nat \ {0} /\ p <= Workers
  BY SizesAssumption DEF Peer
<1>2. Deals(p, p)
  <2>1. p = p + 0 * Workers /\ 0 \in Nat
    BY <1>1
  <2> QED  BY <2>1 DEF Deals
<1>3. {v \in Unit : Deals(p, v) /\ v < p} = {}
  <2> SUFFICES ASSUME NEW v \in Unit, Deals(p, v), v < p PROVE FALSE
    OBVIOUS
  <2>1. v + Workers <= p /\ v \in Nat \ {0}
    BY <1>2, DealtNext
  <2> QED  BY <1>1, <2>1
<1>4. DOMAIN <<>> = {}
  OBVIOUS
<1> QED  BY <1>2, <1>3, <1>4 DEF Deal, FreshThread, FreshService, Before, Ran

-----------------------------------------------------------------------------
(***************************************************************************)
(* Every step deals on.                                                    *)
(***************************************************************************)

Dealt(p) == Deal(p, coord[p], worker[p], up[p], down[p])

LEMMA FromSame == \A s : From(s, s)
BY DEF From

LEMMA ReadUp ==
  ASSUME TypeOK, NEW p \in Peer, up[p] # <<>>, up' = [up EXCEPT ![p] = Tail(@)]
  PROVE  From(up'[p], up[p])
<1>1. up[p] \in Seq(UpMessage) /\ up'[p] = Tail(up[p])
  BY DEF TypeOK
<1> QED  BY <1>1, FromRest

LEMMA ReadDown ==
  ASSUME TypeOK, NEW p \in Peer, down[p] # <<>>, down' = [down EXCEPT ![p] = Tail(@)]
  PROVE  /\ From(down'[p], down[p])
         /\ 1 \in DOMAIN down[p] /\ Head(down[p]) = down[p][1]
<1>1. down[p] \in Seq(DownMessage) /\ down'[p] = Tail(down[p])
  BY DEF TypeOK
<1>2. From(down'[p], down[p])
  BY <1>1, FromRest
<1>3. Head(down[p]) = down[p][1] /\ Len(down[p]) \in Nat /\ Len(down[p]) >= 1
  BY <1>1, TailHere
<1>4. DOMAIN down[p] = 1 .. Len(down[p])
  BY <1>1, LenProperties
<1> QED  BY <1>2, <1>3, <1>4

LEMMA RaisesQuietly ==
  ASSUME TypeOK, NEW p \in Peer, NEW why, Fails(p, why)
  PROVE  /\ coord'[p].pc = "failed"
         /\ coord'[p].unit = coord[p].unit /\ coord'[p].results = coord[p].results
BY DEF Fails, TypeOK, Thread

\* A thread that raises or only reads.
LEMMA ThreadQuiet ==
  ASSUME TypeOK, NEW p \in Peer, Dealt(p),
         \/ coord' = coord
         \/ \E why \in {"refused", "expired", "skewed", "aborted", "lost"} : Fails(p, why),
         up' = up \/ (up[p] # <<>> /\ up' = [up EXCEPT ![p] = Tail(@)]),
         UNCHANGED <<worker, down>>
  PROVE  Dealt(p)'
<1>1. /\ coord'[p].pc \in {coord[p].pc, "failed"}
      /\ coord'[p].unit = coord[p].unit /\ coord'[p].results = coord[p].results
  BY RaisesQuietly
<1>2. From(up'[p], up[p])
  BY ReadUp, FromSame
<1>3. Quiet(coord[p], worker[p], up[p], down[p], coord'[p], worker'[p], up'[p], down'[p])
  BY <1>1, <1>2, FromSame DEF Quiet, From
<1> QED  BY <1>3, QuietDeal DEF Dealt

LEMMA SentDown ==
  ASSUME TypeOK, NEW p \in Peer, NEW s \in Seq(DownMessage), down' = Sent(down, p, s)
  PROVE  \A i \in DOMAIN down'[p] : \/ \E j \in DOMAIN down[p] : down'[p][i] = down[p][j]
                                    \/ \E j \in DOMAIN s : down'[p][i] = s[j]
<1>1. PICK t, r : t = down[p] /\ r = down'[p]
  OBVIOUS
<1>2. t \in Seq(DownMessage)
  BY <1>1 DEF TypeOK
<1>3. r = t \/ r = t \o s
  BY <1>1 DEF Sent, TypeOK
<1>4. \A i \in DOMAIN r : \/ \E j \in DOMAIN t : r[i] = t[j]
                          \/ \E j \in DOMAIN s : r[i] = s[j]
  BY <1>2, <1>3, FromSent, SMTT(20)
<1> QED  BY <1>1, <1>4

LEMMA SentUp ==
  ASSUME TypeOK, NEW p \in Peer, NEW s \in Seq(UpMessage), up' = Sent(up, p, s)
  PROVE  \A i \in DOMAIN up'[p] : \/ \E j \in DOMAIN up[p] : up'[p][i] = up[p][j]
                                  \/ \E j \in DOMAIN s : up'[p][i] = s[j]
<1>1. PICK t, r : t = up[p] /\ r = up'[p]
  OBVIOUS
<1>2. t \in Seq(UpMessage)
  BY <1>1 DEF TypeOK
<1>3. r = t \/ r = t \o s
  BY <1>1 DEF Sent, TypeOK
<1>4. \A i \in DOMAIN r : \/ \E j \in DOMAIN t : r[i] = t[j]
                          \/ \E j \in DOMAIN s : r[i] = s[j]
  BY <1>2, <1>3, FromSent
<1> QED  BY <1>1, <1>4

LEMMA ClaimUnitDeals ==
  ASSUME IInv, NEW p \in Peer, Dealt(p), ClaimUnit(p)
  PROVE  Dealt(p)'
<1> DEFINE m == [kind |-> "RESOURCE_CLAIM", unit |-> coord[p].unit]
<1>1. TypeOK /\ down \in [Peer -> Seq(DownMessage)] /\ link[p] \in BOOLEAN
  BY DEF IInv, TypeOK
<1>2. <<m>> \in Seq(DownMessage)
  <2>1. m \in DownMessage
    BY DEF ClaimUnit, DownMessage
  <2> QED  BY <2>1
<1>3. down' = Sent(down, p, <<m>>)
  BY DEF ClaimUnit
<1>4. \A i \in DOMAIN down'[p] : \/ \E j \in DOMAIN down[p] : down'[p][i] = down[p][j]
                                 \/ \E j \in DOMAIN <<m>> : down'[p][i] = <<m>>[j]
  <2> HIDE DEF m
  <2> QED  BY <1>1, <1>2, <1>3, SentDown
<1>5. \A j \in DOMAIN <<m>> : <<m>>[j].unit = coord[p].unit
  OBVIOUS
<1>6. /\ coord[p].pc = "claim" /\ coord'[p].pc = "decision"
      /\ coord'[p].unit = coord[p].unit /\ coord'[p].results = coord[p].results
      /\ worker' = worker /\ up' = up
  BY <1>1 DEF ClaimUnit, ThreadUnchanged, TypeOK, Thread
<1>7. \A i \in DOMAIN down'[p] : \/ \E j \in DOMAIN down[p] : down'[p][i] = down[p][j]
                                 \/ down'[p][i].unit = coord[p].unit
  <2> HIDE DEF m
  <2> QED  BY <1>4, <1>5
<1> QED  BY <1>6, <1>7, ClaimDeal DEF Dealt

LEMMA CloseSessionDeals ==
  ASSUME IInv, NEW p \in Peer, Dealt(p), CloseSession(p)
  PROVE  Dealt(p)'
<1> DEFINE m == [kind |-> "SESSION_CLOSE"]
<1>1. TypeOK /\ down \in [Peer -> Seq(DownMessage)] /\ link[p] \in BOOLEAN
  BY DEF IInv, TypeOK
<1>2. <<m>> \in Seq(DownMessage)
  <2>1. m \in DownMessage
    BY DEF DownMessage
  <2> QED  BY <2>1
<1>3. down' = Sent(down, p, <<m>>)
  BY DEF CloseSession
<1>4. \A i \in DOMAIN down'[p] : \/ \E j \in DOMAIN down[p] : down'[p][i] = down[p][j]
                                 \/ \E j \in DOMAIN <<m>> : down'[p][i] = <<m>>[j]
  <2> HIDE DEF m
  <2> QED  BY <1>1, <1>2, <1>3, SentDown
<1>5. \A j \in DOMAIN <<m>> : <<m>>[j].kind # "RESOURCE_CLAIM"
  OBVIOUS
<1>6. /\ coord[p].pc = "claim" /\ coord[p].unit \notin Unit /\ coord'[p].pc = "done"
      /\ coord'[p].unit = coord[p].unit /\ coord'[p].results = coord[p].results
      /\ worker' = worker /\ up' = up
  BY <1>1 DEF CloseSession, ThreadUnchanged, TypeOK, Thread
<1>7. \A i \in DOMAIN down'[p] : \/ \E j \in DOMAIN down[p] : down'[p][i] = down[p][j]
                                 \/ down'[p][i].kind # "RESOURCE_CLAIM"
  <2> HIDE DEF m
  <2> QED  BY <1>4, <1>5
<1> QED  BY <1>6, <1>7, CloseDeal DEF Dealt

LEMMA AdmittedDeals ==
  ASSUME IInv, NEW p \in Peer, Dealt(p), Admitted(p)
  PROVE  Dealt(p)'
<1>0. PICK lease : lease = NewLease(coord[p].unit)
  OBVIOUS
<1> DEFINE m == [kind |-> "LEASE_GRANT", lease |-> lease.id]
           n == [kind |-> "WORK_REQUEST", unit |-> lease.unit]
           grant == <<m, n>>
<1>1. TypeOK /\ down \in [Peer -> Seq(DownMessage)] /\ link[p] \in BOOLEAN /\ Session(p)
  BY DEF IInv, InStep, TypeOK
<1>2. coord[p].pc = "decision" /\ up[p] # <<>> /\ coord[p].unit \in Unit
  BY <1>1 DEF Admitted, Arrives, Session
<1>3. grant \in Seq(DownMessage)
  <2>1. lease \in Lease /\ lease.unit = coord[p].unit
    BY <1>0, <1>1, <1>2, GrantedLease
  <2>2. m \in DownMessage /\ n \in DownMessage
    BY <1>2, <2>1 DEF DownMessage, Lease
  <2> QED  BY <2>2
<1>4. down' = Sent(down, p, grant)
  BY <1>0 DEF Admitted
<1>5. \A i \in DOMAIN down'[p] : \/ \E j \in DOMAIN down[p] : down'[p][i] = down[p][j]
                                 \/ \E j \in DOMAIN grant : down'[p][i] = grant[j]
  <2> HIDE DEF grant
  <2> QED  BY <1>1, <1>3, <1>4, SentDown
<1>6. \A j \in DOMAIN grant : grant[j].kind # "RESOURCE_CLAIM"
  OBVIOUS
<1>7. /\ coord'[p].pc = "await"
      /\ coord'[p].unit = coord[p].unit /\ coord'[p].results = coord[p].results
      /\ worker' = worker /\ up' = [up EXCEPT ![p] = Tail(@)]
  BY <1>0, <1>1 DEF Admitted, ThreadUnchanged, TypeOK, Thread
<1>8. \A i \in DOMAIN down'[p] : \/ \E j \in DOMAIN down[p] : down'[p][i] = down[p][j]
                                 \/ down'[p][i].kind # "RESOURCE_CLAIM"
  <2> HIDE DEF grant
  <2> QED  BY <1>5, <1>6
<1>9. DOMAIN up'[p] = {}
  <2>1. up[p] \in Seq(UpMessage) /\ Len(up[p]) <= 1 /\ up'[p] = Tail(up[p])
    BY <1>1, <1>2, <1>7 DEF Session, TypeOK
  <2>2. /\ Len(up[p]) \in Nat /\ Len(up[p]) >= 1 /\ Tail(up[p]) \in Seq(UpMessage)
        /\ Len(Tail(up[p])) = Len(up[p]) - 1
    BY <1>2, <2>1, TailHere
  <2>3. DOMAIN Tail(up[p]) = 1 .. Len(up[p]) - 1
    BY <2>2, LenProperties
  <2> QED  BY <2>1, <2>2, <2>3
<1>10. Deal(p, coord[p], worker[p], up[p], down[p])
  BY DEF Dealt
<1>11. Deal(p, coord'[p], worker[p], up'[p], down'[p])
  <2>1. PICK c, d, w, U, D, V, E :
          /\ c = coord[p] /\ d = coord'[p] /\ w = worker[p]
          /\ U = up[p] /\ D = down[p] /\ V = up'[p] /\ E = down'[p]
    OBVIOUS
  <2>2. /\ Deal(p, c, w, U, D) /\ c.pc = "decision" /\ DOMAIN V = {}
        /\ d.pc = "await" /\ d.unit = c.unit /\ d.results = c.results
        /\ \A i \in DOMAIN E : \/ \E j \in DOMAIN D : E[i] = D[j]
                               \/ E[i].kind # "RESOURCE_CLAIM"
    BY <1>2, <1>7, <1>8, <1>9, <1>10, <2>1
  <2>3. Deal(p, d, w, V, E)
    BY <2>2, GrantDeal
  <2> QED  BY <2>1, <2>3
<1> QED  BY <1>7, <1>11 DEF Dealt

LEMMA HeartbeatDeals ==
  ASSUME IInv, NEW p \in Peer, Dealt(p), Heartbeat(p)
  PROVE  Dealt(p)'
<1>1. /\ up[p] # <<>> /\ up' = [up EXCEPT ![p] = Tail(@)]
      /\ UNCHANGED <<worker, down>>
      /\ \/ coord' = coord
         \/ \E why \in {"refused", "expired", "skewed", "aborted", "lost"} : Fails(p, why)
  BY DEF Heartbeat, Arrives, ThreadUnchanged, LeaseExpires
<1> QED  BY <1>1, ThreadQuiet DEF IInv

LEMMA RaiseDeals ==
  ASSUME IInv, NEW p \in Peer, Dealt(p),
         NotAdmitted(p) \/ Aborted(p) \/ ReceiveFails(p) \/ SendFails(p)
  PROVE  Dealt(p)'
<1>1. /\ up' = up \/ (up[p] # <<>> /\ up' = [up EXCEPT ![p] = Tail(@)])
      /\ UNCHANGED <<worker, down>>
      /\ \E why \in {"refused", "expired", "skewed", "aborted", "lost"} : Fails(p, why)
  BY DEF NotAdmitted, Aborted, ReceiveFails, SendFails, Arrives, ThreadUnchanged
<1> QED  BY <1>1, ThreadQuiet DEF IInv

LEMMA ResultDeals ==
  ASSUME IInv, NEW p \in Peer, Dealt(p), Result(p)
  PROVE  Dealt(p)'
<1>1. /\ coord[p].pc = "await" /\ up[p] # <<>> /\ Head(up[p]).kind = "WORK_RESULT"
      /\ up' = [up EXCEPT ![p] = Tail(@)]
      /\ worker' = worker /\ down' = down
      /\ \/ coord' = [coord EXCEPT ![p].pc = "release"]
         \/ Fails(p, "expired")
  BY DEF Result, Arrives, ThreadUnchanged, LeaseExpires
<1>2. TypeOK
  BY DEF IInv
<1>3. CASE Fails(p, "expired")
  BY <1>1, <1>2, <1>3, ThreadQuiet
<1>4. CASE coord' = [coord EXCEPT ![p].pc = "release"]
  <2>1. /\ coord'[p].pc = "release"
        /\ coord'[p].unit = coord[p].unit /\ coord'[p].results = coord[p].results
    BY <1>2, <1>4 DEF TypeOK, Thread
  <2>2. 1 \in DOMAIN up[p] /\ up[p][1].kind = "WORK_RESULT"
    <3>1. up[p] \in Seq(UpMessage)
      BY <1>2 DEF TypeOK
    <3>2. Head(up[p]) = up[p][1] /\ Len(up[p]) \in Nat /\ Len(up[p]) >= 1
      BY <1>1, <3>1, TailHere
    <3>3. DOMAIN up[p] = 1 .. Len(up[p])
      BY <3>1, LenProperties
    <3> QED  BY <1>1, <3>2, <3>3
  <2> QED  BY <1>1, <2>1, <2>2, ResultDeal DEF Dealt
<1> QED  BY <1>1, <1>3, <1>4

LEMMA ReleasedDeals ==
  ASSUME IInv, NEW p \in Peer, Dealt(p), Released(p)
  PROVE  Dealt(p)'
<1>1. /\ coord[p].pc = "release" /\ worker' = worker /\ down' = down
      /\ coord' = [coord EXCEPT ![p].pc = "claim", ![p].lease = 0,
                                ![p].results = @ \cup {coord[p].unit},
                                ![p].unit = @ + Workers]
  BY DEF Released, ThreadUnchanged
<1>2. TypeOK /\ coord[p].unit \in Unit
  BY <1>1 DEF IInv, InStep, Session
<1>3. /\ coord'[p].pc = "claim" /\ coord'[p].unit = coord[p].unit + Workers
      /\ coord'[p].results = coord[p].results \cup {coord[p].unit}
  BY <1>1, <1>2 DEF TypeOK, Thread
<1> QED  BY <1>1, <1>2, <1>3, TakenDeal DEF Dealt

LEMMA ThreadDeals ==
  ASSUME IInv, NEW p \in Peer, Dealt(p), ThreadStep(p)
  PROVE  Dealt(p)'
BY ClaimUnitDeals, CloseSessionDeals, AdmittedDeals, HeartbeatDeals, RaiseDeals, ResultDeals,
   ReleasedDeals DEF ThreadStep

\* A service that neither claims, starts nor ends, or that leaves.
LEMMA ServiceQuiet ==
  ASSUME TypeOK, NEW p \in Peer, Dealt(p),
         coord' = coord,
         worker'[p].runs = worker[p].runs,
         \/ worker'[p].pc \in {"failed", "ended"}
         \/ /\ worker'[p].unit = worker[p].unit
            /\ \/ worker'[p].pc = worker[p].pc
               \/ worker[p].pc = "lease" /\ worker'[p].pc = "request",
         From(down'[p], down[p]),
         \A i \in DOMAIN up'[p] : up'[p][i].kind = "WORK_RESULT" =>
            \E j \in DOMAIN up[p] : up'[p][i] = up[p][j]
  PROVE  Dealt(p)'
<1>1. PICK c, d, w, x, U, D, V, E :
        /\ c = coord[p] /\ d = coord'[p] /\ w = worker[p] /\ x = worker'[p]
        /\ U = up[p] /\ D = down[p] /\ V = up'[p] /\ E = down'[p]
  OBVIOUS
<1>2. Deal(p, c, w, U, D)
  BY <1>1 DEF Dealt
<1>3. Quiet(c, w, U, D, d, x, V, E)
  BY <1>1 DEF Quiet
<1>4. Deal(p, d, x, V, E)
  BY <1>2, <1>3, QuietDeal
<1> QED  BY <1>1, <1>4 DEF Dealt

LEMMA TakeClaimDeals ==
  ASSUME IInv, NEW p \in Peer, Dealt(p), TakeClaim(p)
  PROVE  Dealt(p)'
<1>1. TypeOK /\ down \in [Peer -> Seq(DownMessage)] /\ worker \in [Peer -> Service]
  BY DEF IInv, TypeOK
<1>2. /\ worker[p].pc = "idle" /\ down[p] # <<>> /\ Head(down[p]).kind = "RESOURCE_CLAIM"
      /\ down' = [down EXCEPT ![p] = Tail(@)] /\ coord' = coord
  BY DEF TakeClaim, Arrives, ServiceUnchanged
<1>3. From(down'[p], down[p]) /\ 1 \in DOMAIN down[p] /\ Head(down[p]) = down[p][1]
  BY <1>1, <1>2, ReadDown
<1>4. PICK u : u = down[p][1].unit
  OBVIOUS
<1>5. u \in Unit
  BY <1>1, <1>2, <1>3, <1>4 DEF DownMessage
<1>6. ASSUME NEW status \in {"ADMITTED", "REFUSED", "QUEUED"},
             up' = Sent(up, p, <<Decision(u, status)>>)
      PROVE  \A i \in DOMAIN up'[p] : \/ \E j \in DOMAIN up[p] : up'[p][i] = up[p][j]
                                      \/ up'[p][i].kind # "WORK_RESULT"
  <2>1. PICK s : s = <<Decision(u, status)>>
    OBVIOUS
  <2>2. s \in Seq(UpMessage) /\ \A j \in DOMAIN s : s[j].kind # "WORK_RESULT"
    <3>1. Decision(u, status) \in UpMessage /\ Decision(u, status).kind # "WORK_RESULT"
      BY <1>5 DEF Decision, UpMessage
    <3> QED  BY <2>1, <3>1
  <2>3. up' = Sent(up, p, s)
    BY <1>6, <2>1
  <2>4. \A i \in DOMAIN up'[p] : \/ \E j \in DOMAIN up[p] : up'[p][i] = up[p][j]
                                 \/ \E j \in DOMAIN s : up'[p][i] = s[j]
    BY <1>1, <2>2, <2>3, SentUp
  <2> QED  BY <2>2, <2>4
<1>7. CASE /\ worker' = [worker EXCEPT ![p].pc = "lease", ![p].unit = u]
           /\ up' = Sent(up, p, <<Decision(u, "ADMITTED")>>)
  <2>1. PICK c, w, x, U, D, V, E :
          /\ c = coord[p] /\ w = worker[p] /\ x = worker'[p]
          /\ U = up[p] /\ D = down[p] /\ V = up'[p] /\ E = down'[p]
    OBVIOUS
  <2>2. Deal(p, c, w, U, D) /\ w.pc = "idle"
    BY <1>2, <2>1 DEF Dealt
  <2>3. 1 \in DOMAIN D /\ D[1].kind = "RESOURCE_CLAIM" /\ D[1].unit = u
    BY <1>2, <1>3, <1>4, <2>1
  <2>4. x.pc = "lease" /\ x.unit = u /\ x.runs = w.runs
    BY <1>1, <1>7, <2>1 DEF Service
  <2>5. \A k \in DOMAIN V : \/ \E j \in DOMAIN U : V[k] = U[j]
                            \/ V[k].kind # "WORK_RESULT"
    BY <1>6, <1>7, <2>1
  <2>6. Deal(p, c, x, V, E)
    BY <2>2, <2>3, <2>4, <2>5, AdmitDeal
  <2> QED  BY <1>2, <2>1, <2>6 DEF Dealt
<1>8. CASE /\ worker' = worker
           /\ \E status \in {"REFUSED", "QUEUED"} : up' = Sent(up, p, <<Decision(u, status)>>)
  BY <1>1, <1>2, <1>3, <1>6, <1>8, ServiceQuiet
<1>9. \/ /\ worker' = [worker EXCEPT ![p].pc = "lease", ![p].unit = u]
         /\ up' = Sent(up, p, <<Decision(u, "ADMITTED")>>)
      \/ /\ worker' = worker
         /\ \E status \in {"REFUSED", "QUEUED"} : up' = Sent(up, p, <<Decision(u, status)>>)
  BY <1>3, <1>4 DEF TakeClaim
<1> QED  BY <1>7, <1>8, <1>9

LEMMA TakeLeaseDeals ==
  ASSUME IInv, NEW p \in Peer, Dealt(p), TakeLease(p)
  PROVE  Dealt(p)'
<1>1. TypeOK /\ worker \in [Peer -> Service]
  BY DEF IInv, TypeOK
<1>2. /\ worker[p].pc = "lease" /\ down[p] # <<>>
      /\ down' = [down EXCEPT ![p] = Tail(@)] /\ coord' = coord /\ up' = up
  BY DEF TakeLease, Arrives, ServiceUnchanged
<1>3. From(down'[p], down[p])
  BY <1>1, <1>2, ReadDown
<1>4. /\ worker'[p].runs = worker[p].runs /\ worker'[p].unit = worker[p].unit
      /\ worker'[p].pc = "request"
  BY <1>1 DEF TakeLease, Service
<1> QED  BY <1>1, <1>2, <1>3, <1>4, ServiceQuiet

\* A unit that is started is the unit its thread awaits, if it still does.
LEMMA AwaitedUnit ==
  ASSUME IInv, NEW p \in Peer, worker[p].pc \in {"request", "run"}
  PROVE  /\ worker[p].unit \in Unit
         /\ coord[p].pc \in {"await", "failed"}
         /\ coord[p].pc = "await" => coord[p].unit = worker[p].unit
<1>1. TypeOK /\ Session(p) /\ DownInStep(p)
  BY DEF IInv, InStep, Session
<1>2. coord[p].pc \in {"claim", "decision", "await", "release", "done", "failed"}
  BY <1>1 DEF TypeOK, Thread
<1>3. coord[p].pc \in {"await", "failed"}
  BY <1>1, <1>2 DEF Session
<1>4. coord[p].pc = "await" => coord[p].unit = worker[p].unit
  BY <1>1 DEF Session, Awaits
<1> QED  BY <1>1, <1>3, <1>4 DEF DownInStep

LEMMA TakeRequestDeals ==
  ASSUME IInv, NEW p \in Peer, Dealt(p), TakeRequest(p)
  PROVE  Dealt(p)'
<1>1. TypeOK /\ worker \in [Peer -> Service] /\ worker[p].runs \in Seq(Unit)
  BY DEF IInv, TypeOK, Service
<1>2. worker[p].pc = "request" /\ coord' = coord /\ up' = up
  BY DEF TakeRequest, ServiceUnchanged
<1>3. /\ worker'[p].runs = Append(worker[p].runs, worker[p].unit)
      /\ worker'[p].unit = worker[p].unit /\ worker'[p].pc = "run"
  BY <1>1 DEF TakeRequest, Service
<1>4. PICK c, w, x, U, D, E :
        /\ c = coord[p] /\ w = worker[p] /\ x = worker'[p]
        /\ U = up[p] /\ D = down[p] /\ E = down'[p]
  OBVIOUS
<1>5. Deal(p, c, w, U, D) /\ w.pc = "request" /\ w.runs \in Seq(Unit)
  BY <1>1, <1>2, <1>4 DEF Dealt
<1>6. w.unit \in Unit /\ c.pc \in {"await", "failed"} /\ (c.pc = "await" => c.unit = w.unit)
  BY <1>2, <1>4, AwaitedUnit
<1>7. x.pc = "run" /\ x.unit = w.unit /\ x.runs = Append(w.runs, w.unit)
  BY <1>3, <1>4
<1>8. Deal(p, c, x, U, E)
  BY <1>5, <1>6, <1>7, StartDeal
<1> QED  BY <1>2, <1>4, <1>8 DEF Dealt

LEMMA BeatDeals ==
  ASSUME IInv, NEW p \in Peer, Dealt(p), Beat(p)
  PROVE  Dealt(p)'
<1>1. TypeOK /\ worker \in [Peer -> Service] /\ DownInStep(p)
  BY DEF IInv, InStep, Session, TypeOK
<1>2. worker[p].pc = "run" /\ coord' = coord /\ down' = down
  BY DEF Beat, ServiceUnchanged
<1>3. /\ worker'[p].runs = worker[p].runs /\ worker'[p].unit = worker[p].unit
      /\ worker'[p].pc = worker[p].pc
  BY <1>1 DEF Beat, Service
<1>4. PICK m : m = [kind |-> "LEASE_HEARTBEAT", lease |-> worker[p].lease,
                    beat |-> worker[p].beat + 1, sent |-> now + skew[p]]
  OBVIOUS
<1>5. m \in UpMessage
  <2>1. worker[p].lease \in Nat \ {0} /\ worker[p].beat + 1 \in Nat \ {0}
    BY <1>1, <1>2 DEF DownInStep, Service
  <2>2. now + skew[p] \in Int
    <3>1. now \in 0 .. MaxTime /\ skew[p] \in Skews
      BY <1>1 DEF TypeOK
    <3>2. Skews \subseteq Int
      BY ClockAssumption
    <3>3. now \in Int
      BY <3>1
    <3>4. skew[p] \in Int
      BY <3>1, <3>2
    <3> QED  BY <3>3, <3>4
  <2> QED  BY <1>4, <2>1, <2>2 DEF UpMessage
<1>6. PICK s : s = <<m>>
  OBVIOUS
<1>7. s \in Seq(UpMessage) /\ \A j \in DOMAIN s : s[j].kind # "WORK_RESULT"
  <2>1. m.kind # "WORK_RESULT"
    BY <1>4
  <2> QED  BY <1>5, <1>6, <2>1
<1>8. up' = Sent(up, p, s)
  BY <1>4, <1>6 DEF Beat
<1>9. \A i \in DOMAIN up'[p] : \/ \E j \in DOMAIN up[p] : up'[p][i] = up[p][j]
                               \/ \E j \in DOMAIN s : up'[p][i] = s[j]
  BY <1>1, <1>7, <1>8, SentUp
<1>10. \A i \in DOMAIN up'[p] : up'[p][i].kind = "WORK_RESULT" =>
          \E j \in DOMAIN up[p] : up'[p][i] = up[p][j]
  BY <1>7, <1>9
<1> QED  BY <1>1, <1>2, <1>3, <1>10, FromSame, ServiceQuiet

LEMMA EndsDeal ==
  ASSUME IInv, NEW p \in Peer, Dealt(p), Done(p) \/ Over(p)
  PROVE  Dealt(p)'
<1>1. TypeOK /\ worker \in [Peer -> Service] /\ DownInStep(p)
  BY DEF IInv, InStep, Session, TypeOK
<1>2. /\ worker[p].pc = "run" /\ coord' = coord /\ down' = down
      /\ worker' = [worker EXCEPT ![p] = Idles(p)]
  BY DEF Done, Over, ServiceUnchanged
<1>3. worker'[p].runs = worker[p].runs /\ worker'[p].pc = "idle"
  BY <1>1, <1>2 DEF Idles, Service
<1>4. DOMAIN down[p] = {}
  <2>1. down[p] \in Seq(DownMessage) /\ Len(down[p]) = 0
    BY <1>1, <1>2 DEF DownInStep, TypeOK
  <2> QED  BY <2>1, LenProperties
<1>5. PICK c, w, x, U, D, V :
        c = coord[p] /\ w = worker[p] /\ x = worker'[p] /\ U = up[p] /\ D = down[p] /\ V = up'[p]
  OBVIOUS
<1>6. Deal(p, c, w, U, D) /\ w.pc = "run" /\ DOMAIN D = {} /\ x.pc = "idle" /\ x.runs = w.runs
  BY <1>2, <1>3, <1>4, <1>5 DEF Dealt
<1>7. c.pc = "await" => c.unit = w.unit
  BY <1>2, <1>5, AwaitedUnit
<1>8. Deal(p, c, x, V, D)
  BY <1>6, <1>7, EndDeal
<1> QED  BY <1>2, <1>5, <1>8 DEF Dealt

LEMMA LeavesDeal ==
  ASSUME IInv, NEW p \in Peer, Dealt(p), Close(p) \/ ServiceReceiveFails(p) \/ Dies(p) \/ Break(p)
  PROVE  Dealt(p)'
<1>1. /\ TypeOK /\ worker \in [Peer -> Service]
      /\ up[p] \in Seq(UpMessage) /\ down[p] \in Seq(DownMessage)
  BY DEF IInv, TypeOK
<1>2. coord' = coord
  BY DEF Close, ServiceReceiveFails, Dies, Break, ServiceUnchanged
<1>3. /\ worker'[p].runs = worker[p].runs
      /\ \/ worker'[p].pc \in {"failed", "ended"}
         \/ worker'[p].unit = worker[p].unit /\ worker'[p].pc = worker[p].pc
  <2>1. CASE worker' = worker
    BY <2>1
  <2>2. CASE \E pc \in {"failed", "ended"} : worker' = [worker EXCEPT ![p].pc = pc]
    BY <1>1, <2>2 DEF Service
  <2> QED  BY <2>1, <2>2 DEF Close, ServiceReceiveFails, Dies, Break, Leaves
<1>4. From(down'[p], down[p])
  <2>1. CASE down' = down
    BY <2>1, FromSame
  <2>2. CASE down[p] # <<>> /\ down' = [down EXCEPT ![p] = Tail(@)]
    BY <1>1, <2>2, ReadDown
  <2>3. CASE \E kept \in Prefixes(down[p]) : down' = [down EXCEPT ![p] = kept]
    <3>1. PICK kept \in Prefixes(down[p]) : down' = [down EXCEPT ![p] = kept]
      BY <2>3
    <3>2. down'[p] = kept
      BY <1>1, <3>1 DEF TypeOK
    <3>3. From(kept, down[p])
      BY <1>1, FromPrefix
    <3> QED  BY <3>2, <3>3
  <2> QED  BY <2>1, <2>2, <2>3 DEF Close, ServiceReceiveFails, Dies, Break, Arrives
<1>5. From(up'[p], up[p])
  <2>1. CASE up' = up
    BY <2>1, FromSame
  <2>2. CASE \E kept \in Prefixes(up[p]) : up' = [up EXCEPT ![p] = kept]
    <3>1. PICK kept \in Prefixes(up[p]) : up' = [up EXCEPT ![p] = kept]
      BY <2>2
    <3>2. up'[p] = kept
      BY <1>1, <3>1 DEF TypeOK
    <3>3. From(kept, up[p])
      BY <1>1, FromPrefix
    <3> QED  BY <3>2, <3>3
  <2> QED  BY <2>1, <2>2 DEF Close, ServiceReceiveFails, Dies, Break
<1>6. \A i \in DOMAIN up'[p] : up'[p][i].kind = "WORK_RESULT" =>
         \E j \in DOMAIN up[p] : up'[p][i] = up[p][j]
  BY <1>5 DEF From
<1> QED  BY <1>1, <1>2, <1>3, <1>4, <1>6, ServiceQuiet

LEMMA ServiceDeals ==
  ASSUME IInv, NEW p \in Peer, Dealt(p), ServiceStep(p) \/ Break(p) \/ Dies(p)
  PROVE  Dealt(p)'
BY TakeClaimDeals, TakeLeaseDeals, TakeRequestDeals, BeatDeals, EndsDeal, LeavesDeal
   DEF ServiceStep

LEMMA OthersDeal ==
  ASSUME NEW p \in Peer, Frame(p), NEW q \in Peer \ {p}, Dealt(q)
  PROVE  Dealt(q)'
BY DEF Dealt, Frame

\* The inductive invariant of the refinement is IInv and what follows.
EveryDeal == \A p \in Peer : Dealt(p)

\* A call that is over has no thread at work, and one that returned no thread that
\* raised.
Ended ==
  outcome # "running" =>
    \A p \in Peer : coord[p].pc = "done" \/ (outcome = "raised" /\ coord[p].pc = "failed")

DealInv == IInv /\ EveryDeal /\ Ended

LEMMA EveryDealKept ==
  ASSUME IInv, EveryDeal, [Next]_vars
  PROVE  EveryDeal'
<1>1. ASSUME NEW p \in Peer, ThreadStep(p) \/ ServiceStep(p) \/ Break(p) \/ Dies(p)
      PROVE  EveryDeal'
  <2>1. Frame(p)
    <3>1. Kept(p)
      BY <1>1, ThreadKeeps, ServiceKeeps
    <3> QED  BY <3>1 DEF Kept
  <2>2. Dealt(p)'
    BY <1>1, ThreadDeals, ServiceDeals DEF EveryDeal
  <2>3. \A q \in Peer \ {p} : Dealt(q)'
    BY <2>1, OthersDeal DEF EveryDeal
  <2> QED  BY <2>2, <2>3 DEF EveryDeal
<1>2. CASE Again
  <2>1. ASSUME NEW p \in Peer PROVE Dealt(p)'
    <3>1. /\ coord'[p] = FreshThread(p) /\ worker'[p] = FreshService
          /\ up'[p] = <<>> /\ down'[p] = <<>>
      BY <1>2 DEF Again
    <3> QED  BY <3>1, FreshDeal DEF Dealt
  <2> QED  BY <2>1 DEF EveryDeal
<1>3. CASE UNCHANGED <<coord, worker, up, down>>
  BY <1>3 DEF EveryDeal, Dealt
<1> QED  BY <1>1, <1>2, <1>3 DEF Next, Finish, Tick, wires, vars

LEMMA EndedKept ==
  ASSUME IInv, Ended, [Next]_vars
  PROVE  Ended'
<1>1. ASSUME NEW p \in Peer, ThreadStep(p) PROVE outcome = "running" \/ Ended'
  BY <1>1 DEF Ended, ThreadStep, ClaimUnit, CloseSession, Admitted, NotAdmitted, Heartbeat,
     Aborted, Result, Released, ReceiveFails, SendFails
<1>2. ASSUME NEW p \in Peer, ThreadStep(p) PROVE outcome' = outcome
  BY <1>2 DEF ThreadStep, ClaimUnit, CloseSession, Admitted, NotAdmitted, Heartbeat,
     Aborted, Result, Released, ReceiveFails, SendFails, ThreadUnchanged
<1>3. ASSUME NEW p \in Peer, ServiceStep(p) \/ Break(p) \/ Dies(p)
      PROVE  outcome' = outcome /\ coord' = coord
  BY <1>3 DEF ServiceStep, TakeClaim, TakeLease, TakeRequest, Beat, Done, Over, Close,
     ServiceReceiveFails, Break, Dies, ServiceUnchanged
<1>4. CASE Finish
  BY <1>4 DEF Finish, Ended
<1>5. CASE Again
  BY <1>5 DEF Again, Ended
<1>6. CASE UNCHANGED <<outcome, coord>>
  BY <1>6 DEF Ended
<1> QED  BY <1>1, <1>2, <1>3, <1>4, <1>5, <1>6 DEF Next, Tick, vars, Ended

\* Units are dealt and answered in turn: a thread has the results of the units dealt
\* to its peer before the one in hand, all of which the worker started once, in order,
\* and a call that is over left no thread at work.
THEOREM DealtInTurn == Spec => []DealInv
<1>1. Init => DealInv
  <2> SUFFICES ASSUME Init PROVE DealInv
    OBVIOUS
  <2>1. IInv
    BY InitInStep
  <2>2. ASSUME NEW p \in Peer PROVE Dealt(p)
    <3>1. /\ coord[p] = FreshThread(p) /\ worker[p] = FreshService
          /\ up[p] = <<>> /\ down[p] = <<>>
      BY DEF Init, Connected
    <3> QED  BY <3>1, FreshDeal DEF Dealt
  <2>3. Ended
    BY DEF Init, Ended
  <2> QED  BY <2>1, <2>2, <2>3 DEF DealInv, EveryDeal
<1>2. DealInv /\ [Next]_vars => DealInv'
  BY StepInStep, EveryDealKept, EndedKept DEF DealInv
<1> QED  BY <1>1, <1>2, PTL DEF Spec

-----------------------------------------------------------------------------
(***************************************************************************)
(* The refinement: a unit counts as executed once it was started.          *)
(***************************************************************************)

\* Where the services W started the unit.
Places(W, u) ==
  UNION {{<<p, i>> : i \in {j \in DOMAIN W[p].runs : W[p].runs[j] = u}} : p \in Peer}

\* Each service started units dealt to it, in order.
StartsInOrder(W) ==
  \A p \in Peer :
    /\ W[p].runs \in Seq(Unit)
    /\ \A i \in DOMAIN W[p].runs : Deals(p, W[p].runs[i])
    /\ \A i, j \in DOMAIN W[p].runs : i < j => W[p].runs[i] < W[p].runs[j]

LEMMA OnePlace ==
  ASSUME NEW W, StartsInOrder(W), NEW u
  PROVE  /\ (\E p \in Peer : Ran(W[p].runs, u)) => Cardinality(Places(W, u)) = 1
         /\ ~(\E p \in Peer : Ran(W[p].runs, u)) => Cardinality(Places(W, u)) = 0
<1>1. ASSUME NEW p \in Peer, Ran(W[p].runs, u) PROVE Cardinality(Places(W, u)) = 1
  <2>1. PICK i \in DOMAIN W[p].runs : W[p].runs[i] = u
    BY <1>1 DEF Ran
  <2>2. ASSUME NEW q \in Peer, NEW j \in DOMAIN W[q].runs, W[q].runs[j] = u
        PROVE  q = p /\ j = i
    <3>1. Deals(q, u) /\ Deals(p, u)
      BY <2>1, <2>2 DEF StartsInOrder
    <3>2. q = p
      BY <3>1, DealtApart
    <3>3. W[p].runs \in Seq(Unit)
      BY DEF StartsInOrder
    <3>4. DOMAIN W[p].runs = 1 .. Len(W[p].runs) /\ Len(W[p].runs) \in Nat
      BY <3>3, LenProperties
    <3>5. i \in Nat /\ j \in Nat
      BY <2>1, <3>2, <3>4
    <3>6. u \in Nat
      BY <3>1, DealtNext
    <3>7. ~(i < j) /\ ~(j < i)
      <4>1. \A k, l \in DOMAIN W[p].runs : k < l => W[p].runs[k] < W[p].runs[l]
        BY DEF StartsInOrder
      <4>2. ~(u < u)
        BY <3>6
      <4> QED  BY <2>1, <2>2, <3>2, <4>1, <4>2
    <3> QED  BY <3>2, <3>5, <3>7
  <2>3. Places(W, u) = {<<p, i>>}
    BY <2>1, <2>2 DEF Places
  <2> QED  BY <2>3, FS_Singleton
<1>2. ASSUME ~(\E p \in Peer : Ran(W[p].runs, u)) PROVE Cardinality(Places(W, u)) = 0
  <2>1. Places(W, u) = {}
    BY <1>2 DEF Places, Ran
  <2> QED  BY <2>1, FS_EmptySet
<1> QED  BY <1>1, <1>2

LEMMA ExecutedOnce ==
  ASSUME EveryDeal, TypeOK, NEW u
  PROVE  /\ (\E p \in Peer : Ran(worker[p].runs, u)) => Executed(u) = 1
         /\ ~(\E p \in Peer : Ran(worker[p].runs, u)) => Executed(u) = 0
<1>1. Executed(u) = Cardinality(Places(worker, u))
  BY DEF Executed, Places
<1>2. StartsInOrder(worker)
  BY DEF StartsInOrder, EveryDeal, Dealt, Deal, TypeOK, Service
<1> QED  BY <1>1, <1>2, OnePlace

LEMMA ExecutedOnceNext ==
  ASSUME EveryDeal', TypeOK', NEW u
  PROVE  /\ (\E p \in Peer : Ran(worker'[p].runs, u)) => Executed(u)' = 1
         /\ ~(\E p \in Peer : Ran(worker'[p].runs, u)) => Executed(u)' = 0
<1>1. PICK W : W = worker'
  OBVIOUS
<1>2. Executed(u)' = Cardinality(Places(W, u))
  BY <1>1 DEF Executed, Places
<1>3. StartsInOrder(W)
  BY <1>1 DEF StartsInOrder, EveryDeal, Dealt, Deal, TypeOK, Service
<1>4. /\ (\E p \in Peer : Ran(W[p].runs, u)) => Cardinality(Places(W, u)) = 1
      /\ ~(\E p \in Peer : Ran(W[p].runs, u)) => Cardinality(Places(W, u)) = 0
  BY <1>3, OnePlace
<1> QED  BY <1>1, <1>2, <1>4

\* What has been executed, as the backend counts it.
Counted == [u \in Unit |-> Executed(u)]

\* An execution that is started was not started before, nor anywhere else.
LEMMA StartsOnce ==
  ASSUME DealInv, DealInv', NEW p \in Peer, TakeRequest(p)
  PROVE  Backend!Execute(worker[p].unit)
<1>1. /\ TypeOK /\ EveryDeal /\ Ended /\ IInv /\ EveryDeal' /\ TypeOK'
  BY DEF DealInv, IInv
<1>2. PICK u : u = worker[p].unit
  OBVIOUS
<1>3. /\ worker[p].pc = "request" /\ outcome' = outcome /\ coord' = coord
      /\ worker' = [worker EXCEPT ![p].pc = "run", ![p].due = now + Interval,
                                  ![p].runs = Append(@, u)]
  BY <1>2 DEF TakeRequest, ServiceUnchanged
<1>4. u \in Unit /\ coord[p].pc \in {"await", "failed"}
  BY <1>1, <1>2, <1>3, AwaitedUnit
<1>5. outcome # "returned" /\ outcome' # "returned"
  BY <1>1, <1>3, <1>4 DEF Ended
<1>6. PICK R : R = worker[p].runs
  OBVIOUS
<1>7. /\ R \in Seq(Unit) /\ worker'[p].runs = Append(R, u)
      /\ \A q \in Peer \ {p} : worker'[q] = worker[q]
  BY <1>1, <1>3, <1>6 DEF TypeOK, Service
<1>8. /\ Ran(Append(R, u), u)
      /\ \A v : v # u => (Ran(Append(R, u), v) <=> Ran(R, v))
  <2>1. /\ Append(R, u) \in Seq(Unit) /\ Len(Append(R, u)) = Len(R) + 1
        /\ \A i \in 1 .. Len(R) : Append(R, u)[i] = R[i]
        /\ Append(R, u)[Len(R) + 1] = u
    BY <1>4, <1>7, AppendProperties
  <2>2. Len(R) \in Nat /\ DOMAIN R = 1 .. Len(R)
    BY <1>7, LenProperties
  <2>3. DOMAIN Append(R, u) = 1 .. Len(R) + 1
    BY <2>1, LenProperties
  <2>4. /\ Len(R) + 1 \in DOMAIN Append(R, u)
        /\ \A i \in DOMAIN R : i \in DOMAIN Append(R, u)
        /\ \A i \in DOMAIN Append(R, u) : i \in DOMAIN R \/ i = Len(R) + 1
    BY <2>2, <2>3
  <2> QED  BY <2>1, <2>2, <2>4 DEF Ran
<1>9. ~ \E q \in Peer : Ran(worker[q].runs, u)
  <2> SUFFICES ASSUME NEW q \in Peer, Ran(worker[q].runs, u) PROVE FALSE
    OBVIOUS
  <2>1. Deals(p, u) /\ Before(R, u)
    BY <1>1, <1>2, <1>3, <1>6 DEF EveryDeal, Dealt, Deal
  <2>2. Deals(q, u)
    BY <1>1 DEF EveryDeal, Dealt, Deal, Ran
  <2>3. q = p
    BY <2>1, <2>2, DealtApart
  <2>4. u \in Nat /\ u < u
    BY <1>4, <1>6, <2>1, <2>3 DEF Ran, Before, Unit
  <2> QED  BY <2>4
<1>10. Executed(u) = 0
  BY <1>1, <1>9, ExecutedOnce
<1>11. Executed(u)' = 1
  <2>1. Ran(worker'[p].runs, u)
    BY <1>7, <1>8
  <2> QED  BY <1>1, <2>1, ExecutedOnceNext
<1>12. ASSUME NEW v \in Unit, v # u PROVE Executed(v)' = Executed(v)
  <2>1. (\E q \in Peer : Ran(worker'[q].runs, v)) <=> (\E q \in Peer : Ran(worker[q].runs, v))
    BY <1>6, <1>7, <1>8, <1>12
  <2>2. /\ (\E q \in Peer : Ran(worker'[q].runs, v)) => Executed(v)' = 1
        /\ ~(\E q \in Peer : Ran(worker'[q].runs, v)) => Executed(v)' = 0
    BY <1>1, ExecutedOnceNext
  <2>3. /\ (\E q \in Peer : Ran(worker[q].runs, v)) => Executed(v) = 1
        /\ ~(\E q \in Peer : Ran(worker[q].runs, v)) => Executed(v) = 0
    BY <1>1, ExecutedOnce
  <2> QED  BY <2>1, <2>2, <2>3
<1>13. Counted' = [Counted EXCEPT ![u] = 1]
  BY <1>4, <1>11, <1>12 DEF Counted
<1>14. Counted[u] = 0
  BY <1>4, <1>10 DEF Counted
<1>15. Answer = {} /\ Answer' = {}
  BY <1>5 DEF Answer
<1> QED  BY <1>2, <1>3, <1>5, <1>13, <1>14, <1>15 DEF Backend!Execute, Counted

\* When every thread is done, every unit was started and its result is returned.
LEMMA AllAnswered ==
  ASSUME DealInv, \A p \in Peer : coord[p].pc = "done"
  PROVE  /\ UNION {coord[p].results : p \in Peer} = Unit
         /\ \A u \in Unit : Executed(u) = 1
<1>1. EveryDeal /\ TypeOK /\ coord \in [Peer -> Thread]
  BY DEF DealInv, IInv, TypeOK
<1>2. ASSUME NEW u \in Unit
      PROVE  \E p \in Peer : u \in coord[p].results /\ Ran(worker[p].runs, u)
  <2>1. PICK p \in Peer : Deals(p, u)
    BY DealtOut
  <2>2. /\ Deals(p, coord[p].unit) /\ coord[p].unit \notin Unit
        /\ coord[p].results = {v \in Unit : Deals(p, v) /\ v < coord[p].unit}
        /\ \A v \in coord[p].results : Ran(worker[p].runs, v)
    BY <1>1 DEF EveryDeal, Dealt, Deal
  <2>3. u < coord[p].unit
    <3>1. coord[p].unit \in Nat \ {0}
      BY <1>1 DEF Thread
    <3>2. coord[p].unit > Units
      BY <2>2, <3>1, SizesAssumption DEF Unit
    <3> QED  BY <3>1, <3>2, SizesAssumption DEF Unit
  <2> QED  BY <2>1, <2>2, <2>3
<1>3. \A p \in Peer : coord[p].results \subseteq Unit
  BY <1>1 DEF Thread
<1>4. \A u \in Unit : Executed(u) = 1
  BY <1>1, <1>2, ExecutedOnce
<1> QED  BY <1>2, <1>3, <1>4

LEMMA FinishEnds ==
  ASSUME DealInv, Finish
  PROVE  Backend!Return \/ Backend!Raise
<1>1. /\ outcome = "running" /\ worker' = worker /\ coord' = coord
      /\ outcome' = IF \A p \in Peer : coord[p].pc = "done" THEN "returned" ELSE "raised"
  BY DEF Finish
<1>2. Counted' = Counted /\ Answer = {}
  BY <1>1 DEF Counted, Executed, Answer
<1>3. CASE \A p \in Peer : coord[p].pc = "done"
  <2>1. outcome' = "returned"
    BY <1>1, <1>3
  <2>2. UNION {coord[p].results : p \in Peer} = Unit /\ \A u \in Unit : Executed(u) = 1
    BY <1>3, AllAnswered
  <2>3. Answer' = Unit
    BY <1>1, <2>1, <2>2 DEF Answer
  <2>4. \A u \in Unit : Counted[u] = 1
    BY <2>2 DEF Counted
  <2> QED  BY <1>1, <1>2, <2>1, <2>3, <2>4 DEF Backend!Return, Counted
<1>4. CASE ~ \A p \in Peer : coord[p].pc = "done"
  <2>1. outcome' = "raised"
    BY <1>1, <1>4
  <2>2. Answer' = Answer
    BY <1>2, <2>1 DEF Answer
  <2> QED  BY <1>1, <1>2, <2>1, <2>2 DEF Backend!Raise, Counted
<1> QED  BY <1>3, <1>4

LEMMA AgainResets ==
  ASSUME DealInv', Again
  PROVE  Backend!Again
<1>1. outcome = "raised" /\ outcome' = "running" /\ Answer = {} /\ Answer' = {}
  BY DEF Again, Answer
<1>2. \A p \in Peer : worker'[p].runs = <<>>
  BY DEF Again, FreshService
<1>3. ASSUME NEW u \in Unit PROVE Executed(u)' = 0
  <2>1. EveryDeal' /\ TypeOK'
    BY DEF DealInv, IInv
  <2>2. ~ \E p \in Peer : Ran(worker'[p].runs, u)
    BY <1>2 DEF Ran
  <2> QED  BY <2>1, <2>2, ExecutedOnceNext
<1>4. Counted' = [u \in Unit |-> 0]
  BY <1>3 DEF Counted
<1> QED  BY <1>1, <1>4 DEF Backend!Again, Counted

\* What starts nothing, and leaves the outcome, is not seen by the caller.
LEMMA Unseen ==
  ASSUME DealInv, outcome' = outcome, outcome = "returned" => coord' = coord,
         \A p \in Peer : worker'[p].runs = worker[p].runs
  PROVE  UNCHANGED <<outcome, Counted, Answer>>
<1>1. Counted' = Counted
  BY DEF Counted, Executed
<1>2. Answer' = Answer
  BY DEF Answer
<1> QED  BY <1>1, <1>2

\* Only a request that is taken starts a unit.
LEMMA KeepsRuns ==
  ASSUME TypeOK, NEW p \in Peer, ServiceStep(p) \/ Break(p) \/ Dies(p), ~TakeRequest(p)
  PROVE  \A q \in Peer : worker'[q].runs = worker[q].runs
<1>1. worker \in [Peer -> Service]
  BY DEF TypeOK
<1>2. CASE worker' = worker
  BY <1>2
<1>3. CASE TakeClaim(p)
  <2>1. \/ worker' = worker
        \/ \E u : worker' = [worker EXCEPT ![p].pc = "lease", ![p].unit = u]
    BY <1>3 DEF TakeClaim
  <2> QED  BY <1>1, <2>1 DEF Service
<1>4. CASE TakeLease(p)
  BY <1>1, <1>4 DEF TakeLease, Service
<1>5. CASE Beat(p)
  BY <1>1, <1>5 DEF Beat, Service
<1>6. CASE Done(p) \/ Over(p)
  <2>1. worker' = [worker EXCEPT ![p] = Idles(p)] /\ Idles(p).runs = worker[p].runs
    BY <1>1, <1>6 DEF Done, Over, Idles, Service
  <2> QED  BY <1>1, <2>1
<1>7. CASE \E pc : worker' = [worker EXCEPT ![p].pc = pc]
  BY <1>1, <1>7 DEF Service
<1> QED
  <2>1. \/ TakeClaim(p) \/ TakeLease(p) \/ Beat(p) \/ Done(p) \/ Over(p)
        \/ Close(p) \/ ServiceReceiveFails(p) \/ Dies(p) \/ Break(p)
    BY DEF ServiceStep
  <2>2. Close(p) \/ ServiceReceiveFails(p) \/ Dies(p) =>
          \E pc : worker' = [worker EXCEPT ![p].pc = pc]
    BY DEF Close, ServiceReceiveFails, Dies, Leaves
  <2>3. Break(p) => worker' = worker
    BY DEF Break
  <2> QED  BY <1>2, <1>3, <1>4, <1>5, <1>6, <1>7, <2>1, <2>2, <2>3

LEMMA StepImplements ==
  ASSUME DealInv, DealInv', [Next]_vars
  PROVE  [Backend!Next]_(Backend!vars)
<1>1. TypeOK /\ worker \in [Peer -> Service] /\ Ended
  BY DEF DealInv, IInv, TypeOK
<1>2. ASSUME NEW p \in Peer, TakeRequest(p) PROVE Backend!Next
  <2>1. worker[p].unit \in Unit
    <3>1. IInv /\ worker[p].pc = "request"
      BY <1>2 DEF DealInv, TakeRequest
    <3> QED  BY <3>1, AwaitedUnit
  <2>2. Backend!Execute(worker[p].unit)
    BY <1>2, StartsOnce
  <2> QED  BY <2>1, <2>2 DEF Backend!Next
<1>3. ASSUME NEW p \in Peer, ThreadStep(p) PROVE UNCHANGED <<outcome, Counted, Answer>>
  <2>1. outcome' = outcome /\ worker' = worker /\ coord[p].pc # "done"
    BY <1>3 DEF ThreadStep, ClaimUnit, CloseSession, Admitted, NotAdmitted, Heartbeat,
       Aborted, Result, Released, ReceiveFails, SendFails, ThreadUnchanged
  <2>2. outcome # "returned"
    BY <1>1, <2>1 DEF Ended
  <2> QED  BY <2>1, <2>2, Unseen
<1>4. ASSUME NEW p \in Peer, ServiceStep(p) \/ Break(p) \/ Dies(p), ~TakeRequest(p)
      PROVE  UNCHANGED <<outcome, Counted, Answer>>
  <2>1. outcome' = outcome /\ coord' = coord
    BY <1>4 DEF ServiceStep, TakeClaim, TakeLease, TakeRequest, Beat, Done, Over, Close,
       ServiceReceiveFails, Break, Dies, ServiceUnchanged
  <2>2. \A q \in Peer : worker'[q].runs = worker[q].runs
    BY <1>1, <1>4, KeepsRuns
  <2> QED  BY <2>1, <2>2, Unseen
<1>5. CASE Finish
  BY <1>5, FinishEnds DEF Backend!Next
<1>6. CASE Again
  BY <1>6, AgainResets DEF Backend!Next
<1>7. CASE Tick \/ UNCHANGED vars
  <2>1. outcome' = outcome /\ coord' = coord /\ worker' = worker
    BY <1>7 DEF Tick, vars
  <2> QED  BY <2>1, Unseen DEF Backend!vars, Counted
<1> QED  BY <1>2, <1>3, <1>4, <1>5, <1>6, <1>7 DEF Next, Backend!vars, Counted

\* The backend's promise to its caller: one call of execute_many starts each unit
\* at most once, on whatever worker, and returns the results of all units, each of
\* which was executed, or raises and returns none.
THEOREM KeepsPromise == Spec => ImplementsBackend
<1>1. Init => Backend!Init
  <2> SUFFICES ASSUME Init PROVE Backend!Init
    OBVIOUS
  <2>1. outcome = "running" /\ Answer = {}
    BY DEF Init, Answer
  <2>2. ASSUME NEW u \in Unit PROVE Executed(u) = 0
    <3>1. \A p \in Peer : worker[p].runs = <<>>
      BY DEF Init, Connected, FreshService
    <3>2. Executed(u) = Cardinality(Places(worker, u)) /\ Places(worker, u) = {}
      BY <3>1 DEF Executed, Places
    <3> QED  BY <3>2, FS_EmptySet
  <2> QED  BY <2>1, <2>2 DEF Backend!Init
<1>2. DealInv /\ DealInv' /\ [Next]_vars => [Backend!Next]_(Backend!vars)
  BY StepImplements
<1> QED  BY <1>1, <1>2, DealtInTurn, PTL DEF Spec, ImplementsBackend, Backend!Spec

-----------------------------------------------------------------------------
(***************************************************************************)
(* Time: what a worker sends comes before its lease runs out.              *)
(***************************************************************************)

\* The lease is not lost at time t, unless its term is over.
Lasts(l, t) == t < l.deadline \/ l.deadline >= Term(l)

\* A worker w with m messages on their way from it and n to it, at time t: what it
\* has sent, and what it is still to send while its connection is up, comes in time.
Timely(l, w, m, n, on, t) ==
  /\ m > 0 => Lasts(l, t)
  /\ on /\ w.pc = "lease" => n = 2 /\ Lasts(l, t + Interval)
  /\ on /\ w.pc = "request" => n = 1 /\ Lasts(l, t + Interval)
  /\ on /\ w.pc = "run" =>
        /\ t <= w.due /\ w.due <= t + Interval
        /\ Lasts(l, t)
        /\ m = 0 => Lasts(l, w.due)

LEMMA WideWindow ==
  ASSUME Missed >= 2
  PROVE  Window \in Nat /\ Interval \in Nat /\ Interval > 0 /\ Window >= Interval + Interval
<1>1. Interval \in Nat \ {0} /\ Missed \in Nat
  BY LeasePolicyAssumption
<1>2. PICK k \in Nat : Missed = 2 + k
  <2>1. Missed - 2 \in Nat /\ Missed = 2 + (Missed - 2)
    BY <1>1
  <2> QED  BY <2>1
<1>3. Interval * (2 + k) = Interval + Interval + Interval * k
  BY <1>1
<1>4. Interval * k \in Nat
  BY <1>1
<1> QED  BY <1>1, <1>2, <1>3, <1>4 DEF Window

LEMMA LastsBefore ==
  ASSUME NEW l \in Lease, NEW s \in Nat, NEW t \in Nat, s <= t, Lasts(l, t)
  PROVE  Lasts(l, s)
<1>1. l.deadline \in Nat
  BY DEF Lease
<1> QED  BY <1>1 DEF Lasts

LEMMA GrantedLasts ==
  ASSUME TypeOK, Missed >= 2, NEW u
  PROVE  Lasts(NewLease(u), now + Interval)
<1>1. now \in Nat /\ LeaseSeconds \in Nat
  BY ClockAssumption, LeasePolicyAssumption DEF TypeOK
<1>2. Window \in Nat /\ Interval \in Nat /\ Interval > 0 /\ Window >= Interval + Interval
  BY WideWindow
<1>3. /\ NewLease(u).issued = now
      /\ NewLease(u).deadline = now + Smaller(LeaseSeconds, Window)
  BY DEF NewLease
<1> HIDE DEF Window
<1>4. CASE LeaseSeconds <= Window
  BY <1>1, <1>3, <1>4 DEF Lasts, Term, Smaller
<1>5. CASE ~(LeaseSeconds <= Window)
  <2>1. NewLease(u).deadline = now + Window
    BY <1>3, <1>5 DEF Smaller
  <2>2. now + Interval < now + Window
    BY <1>1, <1>2
  <2> QED  BY <2>1, <2>2 DEF Lasts
<1> QED  BY <1>4, <1>5

LEMMA ExtendedLasts ==
  ASSUME TypeOK, Missed >= 2, NEW l \in Lease, NEW t \in Nat, t <= now + Interval
  PROVE  Lasts(Extended(l), t)
<1>1. now \in Nat /\ LeaseSeconds \in Nat /\ l.issued \in Nat
  BY ClockAssumption, LeasePolicyAssumption DEF TypeOK, Lease
<1>2. Window \in Nat /\ Interval \in Nat /\ Interval > 0 /\ Window >= Interval + Interval
  BY WideWindow
<1>3. /\ Extended(l).issued = l.issued
      /\ Extended(l).deadline = Smaller(Term(l), now + Window)
  BY DEF Extended, Lease
<1> HIDE DEF Window
<1>4. CASE Term(l) <= now + Window
  BY <1>1, <1>3, <1>4 DEF Lasts, Term, Smaller
<1>5. CASE ~(Term(l) <= now + Window)
  <2>1. Extended(l).deadline = now + Window
    BY <1>3, <1>5 DEF Smaller
  <2>2. t < now + Window
    BY <1>1, <1>2
  <2> QED  BY <2>1, <2>2 DEF Lasts
<1> QED  BY <1>4, <1>5

\* The lease of a thread that awaits a result is in time.
Punctual(p) ==
  coord[p].pc = "await" =>
    \A l \in leases : l.id = coord[p].lease =>
      Timely(l, worker[p], Len(up[p]), Len(down[p]), link[p], now)

\* Unless time passed while something was due.
OnTime == late \/ \A p \in Peer : Punctual(p)

\* Value-level steps of a connection.
LEMMA StartsTimely ==
  ASSUME NEW l \in Lease, NEW t \in Nat, NEW w, NEW x, NEW n, NEW j, NEW on,
         Timely(l, w, 0, n, on, t), w.pc = "request", Interval \in Nat,
         x.pc = "run", x.due = t + Interval
  PROVE  Timely(l, x, 0, j, on, t)
<1>1. on => Lasts(l, t + Interval) /\ Lasts(l, t)
  BY LastsBefore DEF Timely
<1>2. t <= x.due /\ x.due <= t + Interval
  OBVIOUS
<1> QED  BY <1>1, <1>2 DEF Timely

LEMMA BeatsTimely ==
  ASSUME NEW l \in Lease, NEW t \in Nat, NEW w, NEW x, NEW n, NEW m \in Nat, NEW k \in Nat, NEW on,
         Timely(l, w, m, n, on, t), w.pc = "run", Interval \in Nat,
         x.pc \in {"run", "idle"}, x.pc = "run" => x.due = t + Interval,
         IF on THEN k > 0 ELSE k = m
  PROVE  Timely(l, x, k, n, on, t)
<1>1. on => Lasts(l, t)
  BY DEF Timely
<1>2. k > 0 => Lasts(l, t)
  BY <1>1 DEF Timely
<1>3. x.pc = "run" => t <= x.due /\ x.due <= t + Interval
  OBVIOUS
<1>4. on => k # 0
  OBVIOUS
<1> QED  BY <1>1, <1>2, <1>3, <1>4 DEF Timely

LEMMA ReadsTimely ==
  ASSUME TypeOK, Missed >= 2, NEW l \in Lease, NEW w, NEW n, NEW m, NEW k \in Nat, NEW on,
         Timely(l, w, m, n, on, now), w.pc \notin {"lease", "request"},
         w.pc = "run" => w.due \in Nat
  PROVE  Timely(Extended(l), w, k, n, on, now)
<1>1. now \in Nat /\ now <= now + Interval
  BY ClockAssumption, LeasePolicyAssumption DEF TypeOK
<1>2. Lasts(Extended(l), now)
  BY <1>1, ExtendedLasts
<1>3. on /\ w.pc = "run" => w.due <= now + Interval /\ now <= w.due
  BY DEF Timely
<1>4. on /\ w.pc = "run" => Lasts(Extended(l), w.due)
  BY <1>3, ExtendedLasts
<1> QED  BY <1>2, <1>3, <1>4 DEF Timely

LEMMA LeavesTimely ==
  ASSUME NEW l, NEW t, NEW w, NEW x, NEW n, NEW j, NEW m \in Nat, NEW k \in Nat, NEW on,
         Timely(l, w, m, n, on, t), k <= m
  PROVE  Timely(l, x, k, j, FALSE, t)
<1>1. k > 0 => m > 0
  OBVIOUS
<1> QED  BY <1>1 DEF Timely

LEMMA TicksTimely ==
  ASSUME NEW l \in Lease, NEW t \in Nat, NEW w, NEW n, NEW on,
         Timely(l, w, 0, n, on, t), Interval \in Nat,
         w.pc \in {"lease", "request"} => n = 0,
         w.pc = "run" => w.due \in Nat /\ ~(t >= w.due)
  PROVE  Timely(l, w, 0, n, on, t + 1)
<1>1. on => w.pc \notin {"lease", "request"}
  BY DEF Timely
<1>2. ASSUME on, w.pc = "run"
      PROVE  t + 1 <= w.due /\ w.due <= t + 1 + Interval /\ Lasts(l, w.due) /\ Lasts(l, t + 1)
  <2>1. w.due \in Nat /\ t + 1 <= w.due /\ w.due <= t + Interval /\ Lasts(l, w.due)
    BY <1>2 DEF Timely
  <2>2. w.due <= t + 1 + Interval
    BY <2>1
  <2>3. Lasts(l, t + 1)
    BY <2>1, LastsBefore
  <2> QED  BY <2>1, <2>2, <2>3
<1> QED  BY <1>1, <1>2 DEF Timely

\* The lease that a thread awaits.
LEMMA LeaseOf ==
  ASSUME IInv, NEW p \in Peer, coord[p].pc = "await", NEW l \in leases, l.id = coord[p].lease
  PROVE  l \in Lease /\ Awaits(p, l)
<1>1. l \in Live(coord[p].lease)
  BY DEF Live
<1> QED  BY <1>1, AwaitedLease DEF IInv, TypeOK

LEMMA AdmittedInTime ==
  ASSUME IInv, IInv', Missed >= 2, NEW p \in Peer, Admitted(p)
  PROVE  Punctual(p)'
<1>0. PICK lease : lease = NewLease(coord[p].unit)
  OBVIOUS
<1> DEFINE m == [kind |-> "LEASE_GRANT", lease |-> lease.id]
           n == [kind |-> "WORK_REQUEST", unit |-> lease.unit]
<1>1. TypeOK /\ Session(p) /\ coord[p].pc = "decision" /\ up[p] # <<>>
      /\ Head(up[p]).status = "ADMITTED"
  BY DEF Admitted, Arrives, IInv, InStep
<1>2. /\ leases' = leases \cup {lease} /\ now' = now /\ worker' = worker /\ link' = link
      /\ down' = Sent(down, p, <<m, n>>) /\ up' = [up EXCEPT ![p] = Tail(@)]
      /\ coord'[p].lease = lease.id
  BY <1>0, <1>1 DEF Admitted, ThreadUnchanged, TypeOK, Thread
<1>3. \A l \in leases' : l.id = coord'[p].lease => l = lease
  BY <1>2 DEF IInv, InStep, BookInStep
<1>4. /\ up[p] \in Seq(UpMessage) /\ down[p] \in Seq(DownMessage)
      /\ Head(up[p]) = up[p][1] /\ Len(up[p]) = 1 /\ Len(up'[p]) = 0
  <2>1. up[p] \in Seq(UpMessage) /\ down[p] \in Seq(DownMessage) /\ up'[p] = Tail(up[p])
    BY <1>1, <1>2 DEF TypeOK
  <2>2. /\ Head(up[p]) = up[p][1] /\ Len(up[p]) \in Nat /\ Len(up[p]) >= 1
        /\ Len(Tail(up[p])) = Len(up[p]) - 1
    BY <1>1, <2>1, TailHere
  <2>3. Len(up[p]) <= 1
    BY <1>1 DEF Session
  <2>4. Len(up[p]) = 1
    BY <2>2, <2>3, JustOne
  <2> QED  BY <2>1, <2>2, <2>4
<1>5. worker[p].pc # "request" /\ worker[p].pc # "run"
  BY <1>1 DEF Session
<1>6. worker[p].pc = "lease" => Len(down[p]) = 0
  BY <1>1 DEF Session
<1>7. worker[p].pc = "lease" /\ link[p] => Len(down'[p]) = 2
  <2> SUFFICES ASSUME worker[p].pc = "lease", link[p] PROVE Len(down'[p]) = 2
    OBVIOUS
  <2>1. lease \in Lease /\ lease.unit \in Unit
    <3>1. coord[p].unit \in Unit
      BY <1>1 DEF Session
    <3> QED  BY <1>0, <1>1, <3>1, GrantedLease
  <2>2. m \in DownMessage /\ n \in DownMessage
    BY <2>1 DEF DownMessage, Lease
  <2> HIDE DEF m, n
  <2>3. down'[p] = down[p] \o <<m, n>>
    BY <1>1, <1>2 DEF Sent, TypeOK
  <2>4. <<m, n>> \in Seq(DownMessage) /\ Len(<<m, n>>) = 2
    BY <2>2
  <2>5. Len(down[p] \o <<m, n>>) = Len(down[p]) + Len(<<m, n>>)
    BY <1>4, <2>4, ConcatProperties
  <2> QED  BY <1>6, <2>3, <2>4, <2>5
<1>8. Lasts(lease, now + Interval)
  BY <1>0, <1>1, GrantedLasts
<1>9. Timely(lease, worker'[p], Len(up'[p]), Len(down'[p]), link'[p], now')
  BY <1>2, <1>4, <1>5, <1>7, <1>8 DEF Timely
<1> QED  BY <1>3, <1>9 DEF Punctual

LEMMA HeartbeatInTime ==
  ASSUME IInv, IInv', Missed >= 2, NEW p \in Peer, Punctual(p), Heartbeat(p)
  PROVE  Punctual(p)'
<1>1. /\ TypeOK /\ coord[p].pc = "await" /\ up[p] # <<>>
      /\ Head(up[p]).kind = "LEASE_HEARTBEAT"
      /\ up' = [up EXCEPT ![p] = Tail(@)]
      /\ now' = now /\ worker' = worker /\ link' = link /\ down' = down
  BY DEF Heartbeat, Arrives, ThreadUnchanged, IInv
<1>2. PICK lease \in Live(Head(up[p]).lease) :
         \/ leases' = (leases \ {lease}) \cup {Extended(lease)} /\ coord' = coord
         \/ \E why \in {"skewed", "expired"} : Fails(p, why)
  BY DEF Heartbeat, LeaseExpires
<1>3. CASE \E why \in {"skewed", "expired"} : Fails(p, why)
  <2>1. coord'[p].pc = "failed"
    BY <1>1, <1>3, FailsThread
  <2> QED  BY <2>1 DEF Punctual
<1>4. CASE leases' = (leases \ {lease}) \cup {Extended(lease)} /\ coord' = coord
  <2>1. lease \in leases /\ Awaits(p, lease) /\ lease \in Lease /\ lease.id = coord[p].lease
    <3>1. lease \in leases /\ Awaits(p, lease)
      BY <1>1, <1>2, BeatenLease
    <3> QED  BY <1>1, <3>1 DEF TypeOK, Awaits
  <2>2. PICK longer : longer = Extended(lease)
    OBVIOUS
  <2>3. longer.id = lease.id
    BY <1>1, <2>1, <2>2, ExtendedLease
  <2>4. \A l \in leases' : l.id = coord'[p].lease => l = longer
    <3>1. longer \in leases' /\ longer.id = coord'[p].lease
      BY <1>4, <2>1, <2>2, <2>3
    <3> QED  BY <3>1 DEF IInv, InStep, BookInStep
  <2>5. Len(up[p]) \in Nat /\ Len(up[p]) >= 1 /\ Len(up'[p]) \in Nat
    <3>1. up[p] \in Seq(UpMessage) /\ up'[p] = Tail(up[p])
      BY <1>1 DEF TypeOK
    <3>2. Len(up[p]) \in Nat /\ Len(up[p]) >= 1 /\ Len(Tail(up[p])) = Len(up[p]) - 1
      BY <1>1, <3>1, TailHere
    <3> QED  BY <3>1, <3>2
  <2>6. worker[p].pc \notin {"lease", "request"}
    BY <2>1, <2>5 DEF Awaits
  <2>7. worker[p].due \in Nat
    BY <1>1 DEF TypeOK, Service
  <2>8. Timely(lease, worker[p], Len(up[p]), Len(down[p]), link[p], now)
    BY <1>1, <2>1 DEF Punctual
  <2>9. Timely(longer, worker[p], Len(up'[p]), Len(down[p]), link[p], now)
    BY <1>1, <2>1, <2>2, <2>5, <2>6, <2>7, <2>8, ReadsTimely
  <2> QED  BY <1>1, <2>4, <2>9 DEF Punctual
<1> QED  BY <1>2, <1>3, <1>4

LEMMA ThreadInTime ==
  ASSUME IInv, IInv', Missed >= 2, NEW p \in Peer, Punctual(p), ThreadStep(p)
  PROVE  Punctual(p)'
<1>1. TypeOK
  BY DEF IInv
<1>2. CASE Admitted(p)
  BY <1>2, AdmittedInTime
<1>3. CASE Heartbeat(p)
  BY <1>3, HeartbeatInTime
<1>4. CASE \E why \in {"refused", "expired", "aborted", "lost"} : Fails(p, why)
  <2>1. coord'[p].pc = "failed"
    BY <1>1, <1>4, FailsThread
  <2> QED  BY <2>1 DEF Punctual
<1>5. CASE \E pc \in {"decision", "done", "release"} : coord' = [coord EXCEPT ![p].pc = pc]
  <2>1. coord'[p].pc # "await"
    BY <1>1, <1>5 DEF TypeOK, Thread
  <2> QED  BY <2>1 DEF Punctual
<1>6. CASE Released(p)
  <2>1. coord'[p].pc # "await"
    BY <1>1, <1>6 DEF Released, TypeOK, Thread
  <2> QED  BY <2>1 DEF Punctual
<1> QED
  BY <1>2, <1>3, <1>4, <1>5, <1>6 DEF ThreadStep, ClaimUnit, CloseSession, NotAdmitted,
     Aborted, Result, LeaseExpires, ReceiveFails, SendFails

LEMMA SentLength ==
  ASSUME TypeOK, NEW p \in Peer, NEW s \in Seq(UpMessage), Len(s) > 0, up' = Sent(up, p, s)
  PROVE  /\ Len(up'[p]) \in Nat
         /\ IF link[p] THEN Len(up'[p]) > 0 ELSE Len(up'[p]) = Len(up[p])
<1>1. up[p] \in Seq(UpMessage) /\ Len(up[p]) \in Nat /\ Len(s) \in Nat
  BY LenProperties DEF TypeOK
<1>2. CASE link[p]
  <2>1. up'[p] = up[p] \o s
    BY <1>2 DEF Sent, TypeOK
  <2>2. Len(up[p] \o s) = Len(up[p]) + Len(s)
    BY <1>1, ConcatProperties
  <2>3. Len(up[p]) + Len(s) \in Nat /\ Len(up[p]) + Len(s) > 0
    BY <1>1
  <2> QED  BY <1>2, <2>1, <2>2, <2>3
<1>3. CASE ~link[p]
  BY <1>1, <1>3 DEF Sent
<1> QED  BY <1>2, <1>3

\* A service that sends what it has to.
LEMMA SendsInTime ==
  ASSUME IInv, NEW p \in Peer, coord[p].pc = "await", NEW l \in leases, l.id = coord[p].lease,
         Timely(l, worker[p], Len(up[p]), Len(down[p]), link[p], now),
         Beat(p) \/ Done(p) \/ Over(p)
  PROVE  Timely(l, worker'[p], Len(up'[p]), Len(down[p]), link[p], now)
<1>1. /\ TypeOK /\ worker \in [Peer -> Service] /\ l \in Lease /\ now \in Nat /\ Interval \in Nat
      /\ worker[p].pc = "run" /\ DownInStep(p) /\ Len(up[p]) \in Nat
  <2>1. worker[p].pc = "run"
    BY DEF Beat, Done, Over
  <2>2. TypeOK /\ l \in Lease /\ DownInStep(p)
    BY LeaseOf DEF IInv, InStep, Session
  <2>3. now \in Nat /\ Interval \in Nat
    BY <2>2, ClockAssumption, LeasePolicyAssumption DEF TypeOK
  <2> QED  BY <2>1, <2>2, <2>3, LenProperties DEF TypeOK
<1>2. /\ worker'[p].pc \in {"run", "idle"}
      /\ worker'[p].pc = "run" => worker'[p].due = now + Interval
  <2>1. CASE Beat(p)
    BY <1>1, <2>1 DEF Beat, Service
  <2>2. CASE Done(p) \/ Over(p)
    BY <1>1, <2>2 DEF Done, Over, Idles, Service
  <2> QED  BY <2>1, <2>2
<1>3. \E s \in Seq(UpMessage) : Len(s) > 0 /\ up' = Sent(up, p, s)
  <2>1. worker[p].unit \in Unit /\ worker[p].lease \in Nat \ {0} /\ worker[p].beat + 1 \in Nat \ {0}
    BY <1>1 DEF DownInStep, Service
  <2>2. now + skew[p] \in Int
    <3>1. skew[p] \in Skews
      BY <1>1 DEF TypeOK
    <3>2. Skews \subseteq Int
      BY ClockAssumption
    <3>3. skew[p] \in Int
      BY <3>1, <3>2
    <3>4. now \in Int
      BY <1>1
    <3> QED  BY <3>3, <3>4
  <2>3. CASE Beat(p)
    <3>1. PICK m : m = [kind |-> "LEASE_HEARTBEAT", lease |-> worker[p].lease,
                        beat |-> worker[p].beat + 1, sent |-> now + skew[p]]
      OBVIOUS
    <3>2. m \in UpMessage
      BY <2>1, <2>2, <3>1 DEF UpMessage
    <3>3. <<m>> \in Seq(UpMessage) /\ Len(<<m>>) > 0
      BY <3>2
    <3>4. up' = Sent(up, p, <<m>>)
      BY <2>3, <3>1 DEF Beat
    <3> QED  BY <3>3, <3>4
  <2>4. CASE Done(p)
    <3>1. PICK m, n : /\ m = [kind |-> "WORK_RESULT", unit |-> worker[p].unit]
                      /\ n = Decision(worker[p].unit, "RELEASED")
      OBVIOUS
    <3>2. m \in UpMessage /\ n \in UpMessage
      BY <2>1, <3>1 DEF UpMessage, Decision
    <3>3. <<m, n>> \in Seq(UpMessage) /\ Len(<<m, n>>) > 0
      BY <3>2
    <3>4. up' = Sent(up, p, <<m, n>>)
      BY <2>4, <3>1 DEF Done
    <3> QED  BY <3>3, <3>4
  <2>5. CASE Over(p)
    <3>1. PICK n : n = Decision(worker[p].unit, "ABORTED")
      OBVIOUS
    <3>2. n \in UpMessage
      BY <2>1, <3>1 DEF UpMessage, Decision
    <3>3. <<n>> \in Seq(UpMessage) /\ Len(<<n>>) > 0
      BY <3>2
    <3>4. up' = Sent(up, p, <<n>>)
      BY <2>5, <3>1 DEF Over
    <3> QED  BY <3>3, <3>4
  <2> QED  BY <2>3, <2>4, <2>5
<1>4. /\ Len(up'[p]) \in Nat
      /\ IF link[p] THEN Len(up'[p]) > 0 ELSE Len(up'[p]) = Len(up[p])
  BY <1>1, <1>3, SentLength
<1>5. PICK w, x, k : w = worker[p] /\ x = worker'[p] /\ k = Len(up'[p])
  OBVIOUS
<1>6. /\ Timely(l, w, Len(up[p]), Len(down[p]), link[p], now) /\ w.pc = "run"
      /\ x.pc \in {"run", "idle"} /\ (x.pc = "run" => x.due = now + Interval)
      /\ k \in Nat /\ IF link[p] THEN k > 0 ELSE k = Len(up[p])
  BY <1>1, <1>2, <1>4, <1>5
<1>7. Timely(l, x, k, Len(down[p]), link[p], now)
  BY <1>1, <1>6, BeatsTimely
<1> QED  BY <1>5, <1>7

LEMMA ServiceInTime ==
  ASSUME IInv, NEW p \in Peer, Punctual(p), ServiceStep(p) \/ Break(p) \/ Dies(p)
  PROVE  Punctual(p)'
<1>1. coord' = coord /\ leases' = leases /\ now' = now
  BY DEF ServiceStep, TakeClaim, TakeLease, TakeRequest, Beat, Done, Over, Close,
     ServiceReceiveFails, Break, Dies, ServiceUnchanged, book
<1> SUFFICES ASSUME coord[p].pc = "await", NEW l \in leases, l.id = coord[p].lease
             PROVE  Timely(l, worker'[p], Len(up'[p]), Len(down'[p]), link'[p], now)
  BY <1>1 DEF Punctual
<1>2. /\ Timely(l, worker[p], Len(up[p]), Len(down[p]), link[p], now)
      /\ l \in Lease /\ Awaits(p, l) /\ TypeOK
  BY LeaseOf DEF Punctual, IInv
<1>3. /\ worker \in [Peer -> Service] /\ now \in Nat /\ Interval \in Nat
      /\ up[p] \in Seq(UpMessage) /\ down[p] \in Seq(DownMessage) /\ DownInStep(p)
      /\ Len(up[p]) \in Nat /\ Len(down[p]) \in Nat
  <2>1. DownInStep(p)
    BY DEF IInv, InStep, Session
  <2>2. now \in Nat /\ Interval \in Nat
    BY <1>2, ClockAssumption, LeasePolicyAssumption DEF TypeOK
  <2> QED  BY <1>2, <2>1, <2>2, LenProperties DEF TypeOK
<1>4. ASSUME NEW kind, Arrives(down, p, kind)
      PROVE  Len(down[p]) >= 1 /\ Len(Tail(down[p])) = Len(down[p]) - 1
  BY <1>3, <1>4, TailHere DEF Arrives
<1>5. CASE TakeClaim(p) \/ Close(p)
  <2>1. worker[p].pc = "idle" /\ \E kind : Arrives(down, p, kind)
    BY <1>5 DEF TakeClaim, Close
  <2>2. Len(down[p]) = 0
    BY <1>2, <2>1 DEF Awaits
  <2> QED  BY <1>4, <2>1, <2>2
<1>6. CASE TakeLease(p)
  <2>1. /\ worker[p].pc = "lease" /\ worker'[p].pc = "request" /\ link' = link /\ up' = up
        /\ down'[p] = Tail(down[p])
    BY <1>2, <1>3, <1>6 DEF TakeLease, TypeOK, Service
  <2>2. Len(down'[p]) = Len(down[p]) - 1 /\ Len(up[p]) = 0
    BY <1>2, <1>4, <1>6, <2>1 DEF TakeLease, Awaits
  <2> QED  BY <1>2, <2>1, <2>2 DEF Timely
<1>7. CASE TakeRequest(p)
  <2>1. /\ worker[p].pc = "request" /\ worker'[p].pc = "run" /\ link' = link /\ up' = up
        /\ worker'[p].due = now + Interval
    BY <1>3, <1>7 DEF TakeRequest, Service
  <2>2. Len(up[p]) = 0
    BY <1>2, <2>1 DEF Awaits
  <2>3. PICK w, x, j : w = worker[p] /\ x = worker'[p] /\ j = Len(down'[p])
    OBVIOUS
  <2>4. /\ Timely(l, w, 0, Len(down[p]), link[p], now) /\ w.pc = "request"
        /\ x.pc = "run" /\ x.due = now + Interval
    BY <1>2, <2>1, <2>2, <2>3
  <2>5. Timely(l, x, 0, j, link[p], now)
    BY <1>2, <1>3, <2>4, StartsTimely
  <2> QED  BY <2>1, <2>2, <2>3, <2>5
<1>8. CASE Beat(p) \/ Done(p) \/ Over(p)
  <2>1. Timely(l, worker'[p], Len(up'[p]), Len(down[p]), link[p], now)
    BY <1>2, <1>8, SendsInTime
  <2>2. down' = down /\ link' = link
    BY <1>8 DEF Beat, Done, Over
  <2> QED  BY <2>1, <2>2
<1>9. CASE ServiceReceiveFails(p) \/ Break(p) \/ Dies(p)
  <2>1. link'[p] = FALSE
    BY <1>2, <1>9 DEF ServiceReceiveFails, Break, Dies, Leaves, TypeOK
  <2>2. Len(up'[p]) \in Nat /\ Len(up'[p]) <= Len(up[p])
    <3>1. CASE up' = up
      BY <1>3, <3>1
    <3>2. CASE \E kept \in Prefixes(up[p]) : up' = [up EXCEPT ![p] = kept]
      <4>1. PICK kept \in Prefixes(up[p]) : up' = [up EXCEPT ![p] = kept]
        BY <3>2
      <4>2. up'[p] = kept
        BY <1>2, <4>1 DEF TypeOK
      <4>3. Len(kept) \in Nat /\ Len(kept) <= Len(up[p])
        BY <1>3, PrefixHere
      <4> QED  BY <4>2, <4>3
    <3> QED  BY <1>9, <3>1, <3>2 DEF ServiceReceiveFails, Break, Dies
  <2>3. PICK w, x, j, k : /\ w = worker[p] /\ x = worker'[p]
                          /\ j = Len(down'[p]) /\ k = Len(up'[p])
    OBVIOUS
  <2>4. Timely(l, w, Len(up[p]), Len(down[p]), link[p], now) /\ k \in Nat /\ k <= Len(up[p])
    BY <1>2, <2>2, <2>3
  <2>5. Timely(l, x, k, j, FALSE, now)
    BY <1>3, <2>4, LeavesTimely
  <2> QED  BY <2>1, <2>3, <2>5
<1> QED  BY <1>5, <1>6, <1>7, <1>8, <1>9 DEF ServiceStep

LEMMA OthersInTime ==
  ASSUME IInv, IInv', NEW p \in Peer, Frame(p), now' = now, NEW q \in Peer \ {p}, Punctual(q)
  PROVE  Punctual(q)'
<1> SUFFICES ASSUME coord'[q].pc = "await", NEW l \in leases', l.id = coord'[q].lease
             PROVE  Timely(l, worker'[q], Len(up'[q]), Len(down'[q]), link'[q], now')
  BY DEF Punctual
<1>1. /\ coord'[q] = coord[q] /\ worker'[q] = worker[q] /\ link'[q] = link[q]
      /\ up'[q] = up[q] /\ down'[q] = down[q]
  BY DEF Frame
<1>2. PICK k \in leases : Awaits(q, k)
  BY <1>1 DEF IInv, InStep, Session
<1>3. k.id = coord[q].lease
  BY <1>2 DEF Awaits
<1>4. k \in leases'
  BY <1>1, <1>3 DEF Frame, IInv, InStep, BookInStep
<1>5. k = l
  BY <1>1, <1>3, <1>4 DEF IInv, InStep, BookInStep
<1> QED  BY <1>1, <1>3, <1>5 DEF Punctual

LEMMA TickInTime ==
  ASSUME IInv, ~late', Tick, NEW p \in Peer, Punctual(p)
  PROVE  Punctual(p)'
<1>1. /\ now' = now + 1 /\ leases' = leases /\ coord' = coord /\ worker' = worker
      /\ link' = link /\ up' = up /\ down' = down /\ Settled
  BY DEF Tick, book, wires
<1> SUFFICES ASSUME coord[p].pc = "await", NEW l \in leases, l.id = coord[p].lease
             PROVE  Timely(l, worker[p], Len(up[p]), Len(down[p]), link[p], now + 1)
  BY <1>1 DEF Punctual
<1>2. Timely(l, worker[p], Len(up[p]), Len(down[p]), link[p], now) /\ l \in Lease /\ TypeOK
  BY LeaseOf DEF Punctual, IInv
<1>3. now \in Nat /\ Interval \in Nat /\ worker[p].due \in Nat
  BY <1>2, ClockAssumption, LeasePolicyAssumption DEF TypeOK, Service
<1>4. up[p] = <<>> /\ Len(up[p]) = 0
  BY <1>1 DEF Settled
<1>5. worker[p].pc \in {"lease", "request"} => Len(down[p]) = 0
  BY <1>1 DEF Settled
<1>6. worker[p].pc = "run" => ~(now >= worker[p].due)
  BY <1>1 DEF Settled
<1>7. PICK w : w = worker[p]
  OBVIOUS
<1>8. /\ Timely(l, w, 0, Len(down[p]), link[p], now)
      /\ (w.pc \in {"lease", "request"} => Len(down[p]) = 0)
      /\ (w.pc = "run" => w.due \in Nat /\ ~(now >= w.due))
  BY <1>2, <1>3, <1>4, <1>5, <1>6, <1>7
<1>9. Timely(l, w, 0, Len(down[p]), link[p], now + 1)
  BY <1>2, <1>3, <1>8, TicksTimely
<1> QED  BY <1>4, <1>7, <1>9

LEMMA OnTimeKept ==
  ASSUME IInv, IInv', Missed >= 2, OnTime, [Next]_vars
  PROVE  OnTime'
<1> SUFFICES ASSUME ~late' PROVE \A q \in Peer : Punctual(q)'
  BY DEF OnTime
<1>1. ASSUME NEW p \in Peer, ThreadStep(p) \/ ServiceStep(p) \/ Break(p) \/ Dies(p)
      PROVE  \A q \in Peer : Punctual(q)'
  <2>1. Frame(p)
    <3>1. Kept(p)
      BY <1>1, ThreadKeeps, ServiceKeeps
    <3> QED  BY <3>1 DEF Kept
  <2>2. late' = late /\ now' = now
    <3>1. CASE ThreadStep(p)
      BY <3>1 DEF ThreadStep, ClaimUnit, CloseSession, Admitted, NotAdmitted, Heartbeat,
         Aborted, Result, Released, ReceiveFails, SendFails, ThreadUnchanged
    <3>2. CASE ServiceStep(p) \/ Break(p) \/ Dies(p)
      BY <3>2 DEF ServiceStep, TakeClaim, TakeLease, TakeRequest, Beat, Done, Over, Close,
         ServiceReceiveFails, Break, Dies, ServiceUnchanged
    <3> QED  BY <1>1, <3>1, <3>2
  <2>3. \A q \in Peer : Punctual(q)
    BY <2>2 DEF OnTime
  <2>4. Punctual(p)'
    BY <1>1, <2>3, ThreadInTime, ServiceInTime
  <2>5. \A q \in Peer \ {p} : Punctual(q)'
    BY <2>1, <2>2, <2>3, OthersInTime
  <2> QED  BY <2>4, <2>5
<1>2. CASE Again
  <2>1. \A q \in Peer : coord'[q].pc = "claim"
    BY <1>2 DEF Again, FreshThread
  <2> QED  BY <2>1 DEF Punctual
<1>3. CASE Finish
  <2>1. \A q \in Peer : coord'[q].pc # "await"
    BY <1>3 DEF Finish
  <2> QED  BY <2>1 DEF Punctual
<1>4. CASE Tick
  <2>1. ~late
    BY <1>4 DEF Tick
  <2> QED  BY <1>4, <2>1, TickInTime DEF OnTime
<1>5. CASE UNCHANGED vars
  <2>1. /\ late' = late /\ now' = now /\ coord' = coord /\ leases' = leases
        /\ worker' = worker /\ up' = up /\ down' = down /\ link' = link
    BY <1>5 DEF vars, book, wires
  <2> QED  BY <2>1 DEF OnTime, Punctual
<1> QED  BY <1>1, <1>2, <1>3, <1>4, <1>5 DEF Next

\* A thread loses its lease only by what it reads, at the end of the term.
LEMMA ExpiresAtTerm ==
  ASSUME IInv, OnTime, ~late, NEW p \in Peer, ThreadStep(p), coord[p].why # "expired",
         coord'[p].why = "expired"
  PROVE  \E lease \in Live(coord[p].lease) : now >= Term(lease)
<1>1. TypeOK
  BY DEF IInv
<1>2. \A why : Fails(p, why) => coord'[p].why = why
  BY <1>1 DEF Fails, TypeOK, Thread
<1>3. Heartbeat(p) \/ Result(p)
  <2>1. ASSUME ClaimUnit(p) \/ CloseSession(p) \/ Admitted(p) \/ Released(p)
        PROVE  coord'[p].why = coord[p].why
    BY <1>1, <2>1 DEF ClaimUnit, CloseSession, Admitted, Released, TypeOK, Thread
  <2>2. ~NotAdmitted(p) /\ ~Aborted(p) /\ ~ReceiveFails(p) /\ ~SendFails(p)
    BY <1>2 DEF NotAdmitted, Aborted, ReceiveFails, SendFails
  <2> QED  BY <2>1, <2>2 DEF ThreadStep
<1>4. coord[p].pc = "await" /\ up[p] # <<>>
  BY <1>3 DEF Heartbeat, Result, Arrives
<1>5. PICK l \in Live(coord[p].lease) : Expired(l)
  <2>1. CASE Heartbeat(p)
    <3>1. PICK l \in Live(Head(up[p]).lease) : Expired(l) \/ coord' = coord \/ Fails(p, "skewed")
      BY <2>1 DEF Heartbeat
    <3>2. Head(up[p]).kind = "LEASE_HEARTBEAT"
      BY <2>1 DEF Heartbeat, Arrives
    <3>3. l \in leases /\ l.id = coord[p].lease
      <4>1. l \in leases /\ Awaits(p, l)
        BY <1>4, <3>1, <3>2, BeatenLease
      <4> QED  BY <4>1 DEF Awaits
    <3>4. Expired(l)
      BY <1>2, <3>1
    <3> QED  BY <3>3, <3>4 DEF Live
  <2>2. CASE Result(p)
    <3>1. PICK l \in Live(coord[p].lease) :
            Expired(l) \/ coord' = [coord EXCEPT ![p].pc = "release"]
      BY <2>2 DEF Result
    <3>2. coord' # [coord EXCEPT ![p].pc = "release"]
      BY <1>1 DEF TypeOK, Thread
    <3> QED  BY <3>1, <3>2
  <2> QED  BY <1>3, <2>1, <2>2
<1>6. l \in leases /\ l.id = coord[p].lease
  BY <1>5 DEF Live
<1>7. l \in Lease
  BY <1>1, <1>6 DEF TypeOK
<1>8. Lasts(l, now)
  <2>1. Len(up[p]) > 0
    <3>1. up[p] \in Seq(UpMessage)
      BY <1>1 DEF TypeOK
    <3>2. Len(up[p]) \in Nat /\ Len(up[p]) >= 1
      BY <1>4, <3>1, TailHere
    <3> QED  BY <3>2
  <2>2. Punctual(p)
    BY DEF OnTime
  <2>3. Timely(l, worker[p], Len(up[p]), Len(down[p]), link[p], now)
    BY <1>4, <1>6, <2>2 DEF Punctual
  <2> QED  BY <2>1, <2>3 DEF Timely
<1>9. now >= Term(l)
  <2>1. now \in Nat /\ l.deadline \in Nat /\ Term(l) \in Nat
    BY <1>1, <1>7, ClockAssumption, LeasePolicyAssumption DEF TypeOK, Lease, Term
  <2> QED  BY <1>5, <1>8, <2>1 DEF Lasts, Expired
<1> QED  BY <1>5, <1>9

LEMMA ExpiryStep ==
  ASSUME IInv, OnTime, [Next]_vars, ~late, NEW p \in Peer, coord[p].why # "expired",
         coord'[p].why = "expired"
  PROVE  \E lease \in Live(coord[p].lease) : now >= Term(lease)
<1>1. coord'[p] # coord[p]
  OBVIOUS
<1>2. ThreadStep(p)
  <2>1. ASSUME NEW q \in Peer, q # p, ThreadStep(q) \/ ServiceStep(q) \/ Break(q) \/ Dies(q)
        PROVE  FALSE
    <3>1. Kept(q)
      BY <2>1, ThreadKeeps, ServiceKeeps
    <3> QED  BY <1>1, <2>1, <3>1 DEF Kept, Frame
  <2>2. ~(ServiceStep(p) \/ Break(p) \/ Dies(p))
    BY <1>1 DEF ServiceStep, TakeClaim, TakeLease, TakeRequest, Beat, Done, Over, Close,
                ServiceReceiveFails, Break, Dies, ServiceUnchanged
  <2>3. ~Finish /\ ~Tick /\ ~UNCHANGED vars
    BY <1>1 DEF Finish, Tick, vars
  <2>4. ~Again
    BY DEF Again, FreshThread
  <2> QED  BY <2>1, <2>2, <2>3, <2>4 DEF Next
<1> QED  BY <1>2, ExpiresAtTerm

\* LeaseBookV1 with at least two missed heartbeats allowed: as long as nothing was held
\* up, a thread loses its lease only at the end of the term.  With one, a heartbeat
\* that is sent when it is due comes when the deadline has been reached.
THEOREM BeatsKeepLease ==
  ASSUME Missed >= 2
  PROVE  Spec => HeartbeatsKeepLease
<1>1. Init => OnTime
  BY DEF Init, Connected, FreshThread, OnTime, Punctual
<1>2. IInv /\ IInv' /\ OnTime /\ [Next]_vars => OnTime'
  BY OnTimeKept
<1>3. IInv /\ OnTime /\ [Next]_vars =>
        [\A p \in Peer : ~late /\ coord[p].why # "expired" /\ coord'[p].why = "expired" =>
            \E lease \in Live(coord[p].lease) : now >= Term(lease)]_vars
  BY ExpiryStep
<1> QED  BY <1>1, <1>2, <1>3, Safety, PTL DEF Spec, HeartbeatsKeepLease

-----------------------------------------------------------------------------
(***************************************************************************)
(* The resource controller of a worker, ResourceAdmission.  The invariant  *)
(* ControllerInv relates what runs, what waits and what was told of each   *)
(* claim; the lemmas follow a place in the line through a promotion and a  *)
(* cancellation.                                                           *)
(***************************************************************************)

\* How many of the places of K are ahead of place i.
Ahead(K, i) == Cardinality({j \in K : j < i})

\* The places of K, counted from the front.
LEMMA Ranking ==
  ASSUME NEW n \in Nat, NEW K \in SUBSET (1 .. n)
  PROVE  /\ Cardinality(K) \in 0 .. n
         /\ \A i \in K : Ahead(K, i) \in 0 .. Cardinality(K) - 1
         /\ \A i, j \in K : i < j => Ahead(K, i) < Ahead(K, j)
         /\ \A k \in 1 .. Cardinality(K) : \E i \in K : Ahead(K, i) = k - 1
<1> DEFINE N == Cardinality(K)
           L(i) == {j \in K : j < i}
<1>1. IsFiniteSet(K) /\ N \in Nat /\ N <= n
  <2>1. IsFiniteSet(1 .. n) /\ Cardinality(1 .. n) = n
    BY FS_Interval
  <2> QED  BY <2>1, FS_Subset, FS_CardinalityType
<1>2. \A i : IsFiniteSet(L(i)) /\ Cardinality(L(i)) \in Nat
  <2> SUFFICES ASSUME NEW i PROVE IsFiniteSet(L(i)) /\ Cardinality(L(i)) \in Nat
    OBVIOUS
  <2>1. L(i) \in SUBSET K
    OBVIOUS
  <2> HIDE DEF L
  <2> QED  BY <1>1, <2>1, FS_Subset, FS_CardinalityType
<1>3. ASSUME NEW i \in K, NEW S, IsFiniteSet(S), L(i) \cup {i} \subseteq S
      PROVE  Cardinality(L(i)) + 1 <= Cardinality(S)
  <2>1. i \notin L(i)
    OBVIOUS
  <2> HIDE DEF L
  <2>2. Cardinality(L(i) \cup {i}) = Cardinality(L(i)) + 1
    BY <1>2, <2>1, FS_AddElement
  <2>3. L(i) \cup {i} \in SUBSET S
    BY <1>3
  <2> QED  BY <1>3, <2>2, <2>3, FS_Subset
<1>4. \A i \in K : Ahead(K, i) = Cardinality(L(i))
  BY DEF Ahead
<1>5. \A i \in K : Ahead(K, i) \in 0 .. N - 1
  <2> SUFFICES ASSUME NEW i \in K PROVE Ahead(K, i) \in 0 .. N - 1
    OBVIOUS
  <2>1. L(i) \cup {i} \subseteq K
    OBVIOUS
  <2> HIDE DEF L
  <2>2. Cardinality(L(i)) + 1 <= N
    BY <1>1, <1>3, <2>1
  <2> QED  BY <1>1, <1>2, <1>4, <2>2
<1>6. \A i, j \in K : i < j => Ahead(K, i) < Ahead(K, j)
  <2> SUFFICES ASSUME NEW i \in K, NEW j \in K, i < j
               PROVE  Ahead(K, i) < Ahead(K, j)
    OBVIOUS
  <2>1. L(i) \cup {i} \subseteq L(j)
    <3>1. \A x \in K : x < i => x < j
      <4>1. K \subseteq Int
        OBVIOUS
      <4> QED  BY <4>1
    <3> QED  BY <3>1
  <2> HIDE DEF L
  <2>2. Cardinality(L(i)) + 1 <= Cardinality(L(j))
    BY <1>2, <1>3, <2>1
  <2> QED  BY <1>2, <1>4, <2>2
<1>7. \A k \in 1 .. N : \E i \in K : Ahead(K, i) = k - 1
  <2> DEFINE f == [i \in K |-> Ahead(K, i) + 1]
             T == 1 .. N
  <2>1. f \in [K -> T]
    BY <1>1, <1>5
  <2>2. \A i, j \in K : f[i] = f[j] => i = j
    <3> SUFFICES ASSUME NEW i \in K, NEW j \in K, f[i] = f[j] PROVE i = j
      OBVIOUS
    <3>1. Ahead(K, i) = Ahead(K, j)
      BY <1>1, <1>5
    <3>2. i \in Int /\ j \in Int
      OBVIOUS
    <3>3. ~(Ahead(K, i) < Ahead(K, j)) /\ ~(Ahead(K, j) < Ahead(K, i))
      BY <1>1, <1>5, <3>1
    <3> QED  BY <1>6, <3>2, <3>3
  <2>3. IsFiniteSet(T) /\ Cardinality(T) = N
    BY <1>1, FS_Interval
  <2> HIDE DEF f, T
  <2>4. f \in Injection(K, T)
    BY <2>1, <2>2 DEF Injection, IsInjective
  <2>5. f \in Surjection(K, T)
    BY <2>3, <2>4, FS_Injection
  <2>6. \A k \in T : \E i \in K : f[i] = k
    BY <2>5 DEF Surjection
  <2>7. \A i \in K : f[i] = Ahead(K, i) + 1
    BY DEF f
  <2> SUFFICES ASSUME NEW k \in T PROVE \E i \in K : Ahead(K, i) = k - 1
    BY DEF T
  <2>8. PICK i \in K : Ahead(K, i) + 1 = k
    BY <2>6, <2>7
  <2>9. Ahead(K, i) = k - 1
    BY <1>1, <1>5, <2>8
  <2> QED  BY <2>9
<1> QED  BY <1>1, <1>5, <1>6, <1>7

\* The claims that stay in line, in the order they had.
Stays(s, line, e) ==
  \E at \in [1 .. Len(s) -> DOMAIN line] :
    /\ \A k \in 1 .. Len(s) : s[k] = line[at[k]] /\ ExperimentOf[s[k]] # e
    /\ \A k, l \in 1 .. Len(s) : k < l => at[k] < at[l]
    /\ \A i \in DOMAIN line :
         ExperimentOf[line[i]] # e => \E k \in 1 .. Len(s) : at[k] = i

LEMMA OthersStayInLine ==
  ASSUME NEW line \in Seq(Claim), NEW e
  PROVE  LET s == Others(line, e)
         IN s \in Seq(Claim) /\ Len(s) <= Len(line) /\ Stays(s, line, e)
<1> DEFINE n == Len(line)
           K == {i \in DOMAIN line : ExperimentOf[line[i]] # e}
           N == Cardinality(K)
           p(k) == CHOOSE i \in K : Ahead(K, i) = k - 1
           at == [k \in 1 .. N |-> p(k)]
           s == [k \in 1 .. N |-> line[p(k)]]
<1>1. n \in Nat /\ DOMAIN line = 1 .. n /\ \A i \in 1 .. n : line[i] \in Claim
  BY LenProperties, ElementOfSeq
<1>2. Others(line, e) = s
  BY DEF Others, Ahead
<1>3. K \in SUBSET (1 .. n) /\ K \subseteq Int
  BY <1>1
<1>4. \A i \in K : ExperimentOf[line[i]] # e
  OBVIOUS
<1>5. \A i \in 1 .. n : ExperimentOf[line[i]] # e => i \in K
  BY <1>1
<1> HIDE DEF n, K, N
<1>6. /\ N \in 0 .. n /\ N \in Nat
      /\ \A i \in K : Ahead(K, i) \in 0 .. N - 1
      /\ \A i, j \in K : i < j => Ahead(K, i) < Ahead(K, j)
      /\ \A k \in 1 .. N : \E i \in K : Ahead(K, i) = k - 1
  <2>1. N \in 0 .. n
    BY <1>1, <1>3, Ranking DEF N
  <2>2. N \in Nat
    BY <1>1, <2>1
  <2> QED  BY <1>1, <1>3, <2>1, <2>2, Ranking DEF N
<1>7. \A k \in 1 .. N : p(k) \in K /\ Ahead(K, p(k)) = k - 1
  BY <1>6
<1> HIDE DEF p
<1>8. s \in Seq(Claim) /\ Len(s) = N
  <2>1. s \in [1 .. N -> Claim]
    BY <1>1, <1>3, <1>7
  <2> HIDE DEF s
  <2>2. s \in Seq(Claim)
    BY <1>6, <2>1
  <2> QED  BY <1>6, <2>1, <2>2, LenProperties
<1>9. at \in [1 .. N -> DOMAIN line]
  BY <1>1, <1>3, <1>7
<1>10. \A k \in 1 .. N : s[k] = line[at[k]] /\ ExperimentOf[s[k]] # e /\ at[k] = p(k)
  BY <1>4, <1>7
<1>11. \A k, l \in 1 .. N : k < l => at[k] < at[l]
  <2> SUFFICES ASSUME NEW k \in 1 .. N, NEW l \in 1 .. N, k < l PROVE p(k) < p(l)
    OBVIOUS
  <2>1. p(k) \in Int /\ p(l) \in Int
    BY <1>3, <1>7
  <2>2. p(k) # p(l)
    BY <1>7
  <2>3. ~(p(l) < p(k))
    <3>1. p(l) < p(k) => l - 1 < k - 1
      BY <1>6, <1>7
    <3> QED  BY <1>6, <3>1
  <2> QED  BY <2>1, <2>2, <2>3
<1>12. \A i \in K : \E k \in 1 .. N : at[k] = i
  <2> SUFFICES ASSUME NEW i \in K PROVE \E k \in 1 .. N : p(k) = i
    OBVIOUS
  <2> DEFINE k == Ahead(K, i) + 1
  <2>1. k \in 1 .. N /\ k - 1 = Ahead(K, i)
    BY <1>6
  <2> HIDE DEF k
  <2>2. i \in Int /\ p(k) \in K /\ p(k) \in Int /\ Ahead(K, p(k)) = Ahead(K, i)
    BY <1>3, <1>7, <2>1
  <2>3. ~(Ahead(K, i) < Ahead(K, p(k))) /\ ~(Ahead(K, p(k)) < Ahead(K, i))
    BY <1>6, <2>2
  <2>4. p(k) = i
    BY <1>6, <2>2, <2>3
  <2> QED  BY <2>1, <2>4
<1> HIDE DEF at, s
<1>13. Stays(s, line, e)
  BY <1>1, <1>5, <1>8, <1>9, <1>10, <1>11, <1>12 DEF Stays
<1>14. N <= Len(line)
  BY <1>1, <1>6 DEF n
<1> QED  BY <1>2, <1>8, <1>13, <1>14

\* What runs, what waits, what is cancelled and what was last told of each claim
\* agree.
Orderly(held, line, dead, news) ==
  /\ held \subseteq Claim /\ IsFiniteSet(held) /\ Cardinality(held) <= MaximumRuns
  /\ line \in Seq(Claim) /\ Len(line) <= MaxQueue
  /\ dead \subseteq Experiment
  /\ news \in [Claim -> Status \cup {"NONE"}]
  /\ \A i, j \in DOMAIN line : line[i] = line[j] => i = j
  /\ \A i \in DOMAIN line : line[i] \notin held /\ ExperimentOf[line[i]] \notin dead
  /\ \A c \in held : ExperimentOf[c] \notin dead
  /\ \A c \in Claim : /\ news[c] = "ADMITTED" <=> c \in held
                      /\ news[c] = "QUEUED" <=> \E i \in DOMAIN line : line[i] = c

\* The inductive invariant: they do, and nothing waits while a run is free.
ControllerInv ==
  /\ Orderly(active, queue, cancelled, told)
  /\ queue # <<>> => Cardinality(active) = MaximumRuns

LEMMA LineFacts ==
  ASSUME NEW line \in Seq(Claim)
  PROVE  /\ Len(line) \in Nat /\ DOMAIN line = 1 .. Len(line)
         /\ \A i \in 1 .. Len(line) : line[i] \in Claim
         /\ line = <<>> <=> Len(line) = 0
  BY LenProperties, ElementOfSeq, EmptySeq

\* Where nothing in line is cancelled, a promotion takes the first k.
LEMMA FirstInLine ==
  ASSUME NEW held, NEW line, NEW dead, NEW news,
         Orderly(held, line, dead, news)
  PROVE  \E k \in 0 .. Len(line) :
           /\ Admissible(held, line, dead) = {line[i] : i \in 1 .. k}
           /\ Dropped(held, line, dead) = {}
           /\ Left(held, line, dead) = SubSeq(line, k + 1, Len(line))
           /\ Cardinality(held) + k <= MaximumRuns
           /\ k < Len(line) => Cardinality(held) + k = MaximumRuns
<1> DEFINE n == Len(line)
           h == Cardinality(held)
           k == IF n <= MaximumRuns - h THEN n ELSE MaximumRuns - h
<1>1. /\ n \in Nat /\ DOMAIN line = 1 .. n /\ MaximumRuns \in Nat
      /\ h \in Nat /\ h <= MaximumRuns
      /\ \A i \in 1 .. n : ExperimentOf[line[i]] \notin dead
  BY LineFacts, FS_CardinalityType, LimitAssumption DEF Orderly
<1> HIDE DEF n, h
<1>2. /\ k \in 0 .. n /\ k \in Nat /\ h + k <= MaximumRuns /\ (k < n => h + k = MaximumRuns)
      /\ \A i \in 1 .. n : h + (i - 1) < MaximumRuns <=> i <= k
  BY <1>1
<1> HIDE DEF k
<1>3. ASSUME NEW i \in 1 .. n
      PROVE  Cardinality(Alive(line, dead, i - 1)) = i - 1
  <2>1. i - 1 \in Nat /\ 1 .. i - 1 \subseteq 1 .. n
    BY <1>1
  <2>2. Alive(line, dead, i - 1) = 1 .. i - 1
    BY <1>1, <2>1 DEF Alive
  <2>3. Cardinality(1 .. i - 1) = i - 1
    BY <2>1, FS_Interval
  <2> QED  BY <2>2, <2>3
<1>4. Popped(held, line, dead) = 1 .. k
  <2>1. Popped(held, line, dead) = {i \in 1 .. n : h + (i - 1) < MaximumRuns}
    BY <1>1, <1>3 DEF Popped, h
  <2>2. {i \in 1 .. n : h + (i - 1) < MaximumRuns} = {i \in 1 .. n : i <= k}
    BY <1>2
  <2>3. {i \in 1 .. n : i <= k} = 1 .. k
    BY <1>1, <1>2
  <2> QED  BY <2>1, <2>2, <2>3
<1>5. \A i \in 1 .. k : ExperimentOf[line[i]] \notin dead
  BY <1>1, <1>2
<1>6. Admissible(held, line, dead) = {line[i] : i \in 1 .. k}
  BY <1>4, <1>5 DEF Admissible
<1>7. Dropped(held, line, dead) = {}
  BY <1>4, <1>5 DEF Dropped
<1>8. Left(held, line, dead) = SubSeq(line, k + 1, Len(line))
  <2>1. Cardinality(1 .. k) = k
    BY <1>2, FS_Interval
  <2> QED  BY <1>4, <2>1 DEF Left
<1> QED  BY <1>2, <1>6, <1>7, <1>8 DEF n, h

\* A promotion gives every free run to the line, from its front.
Promoted(held, line) ==
  \E k \in 0 .. Len(line) :
    /\ active' = held \cup {line[i] : i \in 1 .. k}
    /\ Len(queue') = Len(line) - k
    /\ \A i \in 1 .. Len(queue') : queue'[i] = line[k + i]

LEMMA PromoteKeeps ==
  ASSUME NEW held, NEW line, NEW dead, NEW news,
         Orderly(held, line, dead, news),
         Promote(held, line, dead, news), cancelled' = dead
  PROVE  ControllerInv' /\ Promoted(held, line)
<1> DEFINE n == Len(line)
           h == Cardinality(held)
<1>1. PICK k \in 0 .. n :
        /\ Admissible(held, line, dead) = {line[i] : i \in 1 .. k}
        /\ Dropped(held, line, dead) = {}
        /\ Left(held, line, dead) = SubSeq(line, k + 1, n)
        /\ h + k <= MaximumRuns
        /\ k < n => h + k = MaximumRuns
  BY FirstInLine
<1> DEFINE in == {line[i] : i \in 1 .. k}
<1>2. /\ active' = held \cup in
      /\ queue' = SubSeq(line, k + 1, n)
      /\ told' = [c \in Claim |-> IF c \in in THEN "ADMITTED" ELSE news[c]]
      /\ cancelled' = dead
  BY <1>1 DEF Promote
<1>3. /\ line \in Seq(Claim) /\ n \in Nat /\ DOMAIN line = 1 .. n
      /\ \A i \in 1 .. n : line[i] \in Claim
      /\ n <= MaxQueue /\ MaxQueue \in Nat
      /\ IsFiniteSet(held) /\ h \in Nat
  BY LineFacts, FS_CardinalityType, LimitAssumption DEF Orderly
<1>4. /\ held \subseteq Claim /\ dead \subseteq Experiment
      /\ news \in [Claim -> Status \cup {"NONE"}]
      /\ \A i, j \in 1 .. n : line[i] = line[j] => i = j
      /\ \A i \in 1 .. n : line[i] \notin held /\ ExperimentOf[line[i]] \notin dead
      /\ \A c \in held : ExperimentOf[c] \notin dead
      /\ \A c \in Claim : /\ news[c] = "ADMITTED" <=> c \in held
                          /\ news[c] = "QUEUED" <=> \E i \in 1 .. n : line[i] = c
  BY <1>3 DEF Orderly
<1> HIDE DEF n, h
<1>5. k \in Nat /\ k <= n /\ 1 .. k \subseteq 1 .. n
  BY <1>3
<1>6. IsFiniteSet(in) /\ Cardinality(in) = k
  <2> DEFINE f == [i \in 1 .. k |-> line[i]]
  <2>1. f \in Surjection(1 .. k, in) /\ f \in Injection(1 .. k, in)
    BY <1>4, <1>5 DEF Surjection, Injection, IsInjective
  <2>2. IsFiniteSet(1 .. k) /\ Cardinality(1 .. k) = k
    BY <1>5, FS_Interval
  <2> HIDE DEF f, in
  <2> QED  BY <2>1, <2>2, FS_Surjection
<1>7. IsFiniteSet(active') /\ Cardinality(active') = h + k
  <2>1. held \cap in = {}
    BY <1>4, <1>5
  <2> HIDE DEF in
  <2>2. Cardinality(held \cap in) = 0
    BY <2>1, FS_EmptySet
  <2>3. /\ IsFiniteSet(held \cup in)
        /\ Cardinality(held \cup in)
             = Cardinality(held) + Cardinality(in) - Cardinality(held \cap in)
    BY <1>3, <1>6, FS_Union
  <2>4. IsFiniteSet(active') /\ Cardinality(active') = h + k - 0
    BY <1>2, <1>6, <2>2, <2>3 DEF h
  <2>5. h + k - 0 = h + k
    BY <1>3, <1>5
  <2> QED  BY <2>4, <2>5
<1>8. /\ queue' \in Seq(Claim) /\ Len(queue') = n - k
      /\ DOMAIN queue' = 1 .. n - k /\ n - k \in Nat
      /\ \A i \in 1 .. n - k : queue'[i] = line[k + i] /\ k + i \in 1 .. n
  <2>1. k + 1 \in Int /\ n \in Int /\ \A i \in k + 1 .. n : line[i] \in Claim
    BY <1>3, <1>5
  <2>2. /\ queue' \in Seq(Claim)
        /\ Len(queue') = IF k + 1 <= n THEN n - (k + 1) + 1 ELSE 0
        /\ \A i \in 1 .. n - (k + 1) + 1 : queue'[i] = line[k + 1 + i - 1]
    BY <1>2, <2>1, SubSeqProperties
  <2>3. n - (k + 1) + 1 = n - k /\ n - k \in Nat
    BY <1>3, <1>5
  <2>4. Len(queue') = n - k
    BY <1>3, <1>5, <2>2, <2>3
  <2>5. \A i \in 1 .. n - k : k + 1 + i - 1 = k + i /\ k + i \in 1 .. n
    BY <1>3, <1>5
  <2> QED  BY <2>2, <2>3, <2>4, <2>5, LineFacts
<1>9. \A c \in Claim : told'[c] = IF c \in in THEN "ADMITTED" ELSE news[c]
  BY <1>2
<1>10. \A i \in 1 .. n : line[i] \in in <=> i <= k
  BY <1>4, <1>5
<1>11. \A c \in Claim : told'[c] = "ADMITTED" <=> c \in active'
  BY <1>2, <1>4, <1>9
<1>12. ASSUME NEW c \in Claim
       PROVE  told'[c] = "QUEUED" <=> \E i \in DOMAIN queue' : queue'[i] = c
  <2>1. CASE c \in in
    <3>1. \A i \in 1 .. n - k : ~(k + i <= k)
      BY <1>5
    <3> QED  BY <1>8, <1>9, <1>10, <2>1, <3>1
  <2>2. CASE c \notin in
    <3>1. told'[c] = "QUEUED" <=> \E i \in 1 .. n : line[i] = c
      BY <1>4, <1>9, <2>2
    <3>2. ASSUME NEW i \in 1 .. n, line[i] = c
          PROVE  \E j \in 1 .. n - k : queue'[j] = c
      <4>1. ~(i <= k)
        BY <1>10, <2>2, <3>2
      <4>2. i - k \in 1 .. n - k /\ k + (i - k) = i
        BY <1>3, <1>5, <4>1
      <4> QED  BY <1>8, <3>2, <4>2
    <3> QED  BY <1>8, <3>1, <3>2
  <2> QED  BY <2>1, <2>2
<1>13. \A i, j \in DOMAIN queue' : queue'[i] = queue'[j] => i = j
  <2> SUFFICES ASSUME NEW i \in 1 .. n - k, NEW j \in 1 .. n - k, queue'[i] = queue'[j]
               PROVE  i = j
    BY <1>8
  <2>1. k + i = k + j
    BY <1>4, <1>8
  <2> QED  BY <1>5, <1>8, <2>1
<1>14. \A i \in DOMAIN queue' : queue'[i] \notin active' /\ ExperimentOf[queue'[i]] \notin cancelled'
  <2> SUFFICES ASSUME NEW i \in 1 .. n - k
               PROVE  line[k + i] \notin held \cup in /\ ExperimentOf[line[k + i]] \notin dead
    BY <1>2, <1>8
  <2>1. ~(k + i <= k)
    BY <1>5
  <2> QED  BY <1>4, <1>8, <1>10, <2>1
<1>15. \A c \in active' : c \in Claim /\ ExperimentOf[c] \notin cancelled'
  BY <1>2, <1>3, <1>4, <1>5
<1>16. told' \in [Claim -> Status \cup {"NONE"}]
  BY <1>2, <1>4 DEF Status
<1>17. Cardinality(active') <= MaximumRuns /\ Len(queue') <= MaxQueue
       /\ (queue' # <<>> => Cardinality(active') = MaximumRuns)
  <2>1. queue' # <<>> => n - k # 0
    BY <1>8, LineFacts
  <2>2. n - k # 0 => k < n
    BY <1>3, <1>5
  <2>3. n - k <= MaxQueue
    BY <1>3, <1>5
  <2> QED  BY <1>1, <1>7, <1>8, <2>1, <2>2, <2>3
<1>18. Orderly(active', queue', cancelled', told')
  BY <1>2, <1>4, <1>7, <1>8, <1>11, <1>12, <1>13, <1>14, <1>15, <1>16, <1>17 DEF Orderly
<1>19. ControllerInv'
  BY <1>17, <1>18 DEF ControllerInv
<1>20. Promoted(held, line)
  BY <1>2, <1>8 DEF Promoted, n
<1> QED  BY <1>19, <1>20

\* Ending a run, with any word for it that is neither a place nor a turn.
LEMMA EndKeeps ==
  ASSUME ControllerInv, NEW c \in active,
         NEW word \in Status \ {"ADMITTED", "QUEUED"},
         Promote(active \ {c}, queue, cancelled, [told EXCEPT ![c] = word]),
         cancelled' = cancelled
  PROVE  ControllerInv' /\ Promoted(active \ {c}, queue)
<1> DEFINE held == active \ {c}
           news == [told EXCEPT ![c] = word]
<1>1. Orderly(active, queue, cancelled, told)
  BY DEF ControllerInv
<1>2. held \subseteq Claim /\ IsFiniteSet(held) /\ Cardinality(held) <= MaximumRuns
  <2>1. held \in SUBSET active /\ active \subseteq Claim
    BY <1>1 DEF Orderly
  <2>2. IsFiniteSet(active) /\ Cardinality(active) <= MaximumRuns /\ MaximumRuns \in Nat
    BY <1>1, LimitAssumption DEF Orderly
  <2> HIDE DEF held
  <2>3. /\ IsFiniteSet(held) /\ Cardinality(held) <= Cardinality(active)
        /\ Cardinality(held) \in Nat /\ Cardinality(active) \in Nat
    BY <2>1, <2>2, FS_Subset, FS_CardinalityType
  <2> QED  BY <2>1, <2>2, <2>3
<1>3. c \in Claim /\ told \in [Claim -> Status \cup {"NONE"}]
  BY <1>1 DEF Orderly
<1>4. /\ news \in [Claim -> Status \cup {"NONE"}]
      /\ \A d \in Claim : news[d] = IF d = c THEN word ELSE told[d]
  BY <1>3
<1>5. /\ news[c] # "ADMITTED" /\ news[c] # "QUEUED"
      /\ \A d \in Claim : d # c => news[d] = told[d]
  BY <1>3, <1>4
<1> HIDE DEF news
<1>6. \A d \in Claim : /\ news[d] = "ADMITTED" <=> d \in held
                       /\ news[d] = "QUEUED" <=> \E i \in DOMAIN queue : queue[i] = d
  BY <1>1, <1>3, <1>5 DEF Orderly
<1>7. Orderly(held, queue, cancelled, news)
  BY <1>1, <1>2, <1>4, <1>6 DEF Orderly
<1>8. Promote(held, queue, cancelled, news)
  BY DEF news
<1> HIDE DEF held
<1>9. ControllerInv' /\ Promoted(held, queue)
  BY <1>1, <1>7, <1>8, PromoteKeeps
<1> QED  BY <1>9 DEF held

LEMMA CancelKeeps ==
  ASSUME ControllerInv, NEW e \in Experiment, CancelExperiment(e)
  PROVE  ControllerInv' /\ Promoted(active \ Of(e), Others(queue, e))
<1> DEFINE held == active \ Of(e)
           line == Others(queue, e)
           dead == cancelled \cup {e}
           gone == Of(e) \cap (active \cup Waiting)
           news == [c \in Claim |-> IF c \in gone THEN "CANCELLED" ELSE told[c]]
<1>1. Orderly(active, queue, cancelled, told)
  BY DEF ControllerInv
<1>2. held \subseteq Claim /\ IsFiniteSet(held) /\ Cardinality(held) <= MaximumRuns
  <2>1. held \in SUBSET active /\ active \subseteq Claim
    BY <1>1 DEF Orderly
  <2>2. IsFiniteSet(active) /\ Cardinality(active) <= MaximumRuns /\ MaximumRuns \in Nat
    BY <1>1, LimitAssumption DEF Orderly
  <2> HIDE DEF held
  <2>3. /\ IsFiniteSet(held) /\ Cardinality(held) <= Cardinality(active)
        /\ Cardinality(held) \in Nat /\ Cardinality(active) \in Nat
    BY <2>1, <2>2, FS_Subset, FS_CardinalityType
  <2> QED  BY <2>1, <2>2, <2>3
<1>3. /\ Promote(held, line, dead, news)
      /\ cancelled' = dead
  BY DEF CancelExperiment
<1>4. \A c \in Claim : c \in Of(e) <=> ExperimentOf[c] = e
  BY DEF Of
<1>5. queue \in Seq(Claim) /\ Len(queue) \in Nat /\ MaxQueue \in Nat /\ Len(queue) <= MaxQueue
      /\ \A i \in DOMAIN queue : queue[i] \in Claim
  BY <1>1, LineFacts, LimitAssumption DEF Orderly
<1>6. line \in Seq(Claim) /\ Len(line) <= Len(queue) /\ Stays(line, queue, e)
  BY <1>5, OthersStayInLine
<1>7. \A c \in Claim : c \in gone <=> /\ ExperimentOf[c] = e
                                      /\ \/ c \in active
                                         \/ \E i \in DOMAIN queue : queue[i] = c
  BY <1>4 DEF Waiting
<1> HIDE DEF line, gone
<1>8. DOMAIN line = 1 .. Len(line) /\ Len(line) \in Nat
  BY <1>6, LineFacts
<1>9. PICK at \in [1 .. Len(line) -> DOMAIN queue] :
        /\ \A k \in 1 .. Len(line) : line[k] = queue[at[k]] /\ ExperimentOf[line[k]] # e
        /\ \A k, l \in 1 .. Len(line) : k < l => at[k] < at[l]
        /\ \A i \in DOMAIN queue :
             ExperimentOf[queue[i]] # e => \E k \in 1 .. Len(line) : at[k] = i
  BY <1>6 DEF Stays
<1>10. \A i \in DOMAIN line : at[i] \in DOMAIN queue /\ line[i] = queue[at[i]]
  BY <1>8, <1>9
<1>11. DOMAIN queue \subseteq Int
  BY <1>5, LineFacts
<1>12. \A i, j \in DOMAIN line : line[i] = line[j] => i = j
  <2> SUFFICES ASSUME NEW i \in DOMAIN line, NEW j \in DOMAIN line, line[i] = line[j]
               PROVE  i = j
    OBVIOUS
  <2>1. at[i] = at[j] /\ at[i] \in Int
    BY <1>1, <1>10, <1>11 DEF Orderly
  <2>2. ~(i < j) /\ ~(j < i)
    BY <1>8, <1>9, <2>1
  <2> QED  BY <1>8, <2>2
<1>13. \A i \in DOMAIN line : line[i] \notin held /\ ExperimentOf[line[i]] \notin dead
  BY <1>1, <1>8, <1>9, <1>10 DEF Orderly
<1>14. \A c \in held : ExperimentOf[c] \notin dead
  BY <1>1, <1>2, <1>4 DEF Orderly
<1>15. \A c \in Claim : news[c] = IF c \in gone THEN "CANCELLED" ELSE told[c]
  OBVIOUS
<1>16. news \in [Claim -> Status \cup {"NONE"}]
  BY <1>1 DEF Orderly, Status
<1> HIDE DEF news
<1>17. \A c \in Claim : news[c] = "ADMITTED" <=> c \in held
  <2> SUFFICES ASSUME NEW c \in Claim PROVE news[c] = "ADMITTED" <=> c \in held
    OBVIOUS
  <2>1. c \in held <=> c \in active /\ ExperimentOf[c] # e
    BY <1>4
  <2>2. told[c] = "ADMITTED" <=> c \in active
    BY <1>1 DEF Orderly
  <2> QED  BY <1>7, <1>15, <2>1, <2>2
<1>18. \A c \in Claim : news[c] = "QUEUED" <=> \E i \in DOMAIN line : line[i] = c
  <2> SUFFICES ASSUME NEW c \in Claim
               PROVE  news[c] = "QUEUED" <=> \E i \in DOMAIN line : line[i] = c
    OBVIOUS
  <2>1. told[c] = "QUEUED" <=> \E i \in DOMAIN queue : queue[i] = c
    BY <1>1 DEF Orderly
  <2>2. (\E i \in DOMAIN line : line[i] = c)
          <=> ExperimentOf[c] # e /\ \E i \in DOMAIN queue : queue[i] = c
    BY <1>8, <1>9
  <2> QED  BY <1>7, <1>15, <2>1, <2>2
<1>19. dead \subseteq Experiment /\ Len(line) <= MaxQueue
  <2>1. Len(line) <= MaxQueue
    BY <1>5, <1>6, <1>8
  <2> QED  BY <1>1, <2>1 DEF Orderly
<1> HIDE DEF held, dead
<1>20. Orderly(held, line, dead, news)
  BY <1>2, <1>6, <1>12, <1>13, <1>14, <1>16, <1>17, <1>18, <1>19 DEF Orderly
<1>21. ControllerInv' /\ Promoted(held, line)
  BY <1>1, <1>3, <1>20, PromoteKeeps
<1> QED  BY <1>21 DEF held, line

\* A claim that neither runs nor waits is told something that is no place.
LEMMA TurnedAwayKeeps ==
  ASSUME ControllerInv, NEW c \in Claim, c \notin active \cup Waiting,
         NEW word \in Status \ {"ADMITTED", "QUEUED"},
         Tell(c, word), UNCHANGED <<active, queue, cancelled>>
  PROVE  ControllerInv'
<1>1. Orderly(active, queue, cancelled, told)
  BY DEF ControllerInv
<1>2. told' \in [Claim -> Status \cup {"NONE"}]
  BY <1>1 DEF Orderly, Tell
<1>3. \A d \in Claim : told'[d] = IF d = c THEN word ELSE told[d]
  BY <1>1 DEF Orderly, Tell
<1>4. c \notin active /\ ~ \E i \in DOMAIN queue : queue[i] = c
  BY DEF Waiting
<1>5. \A d \in Claim : /\ told'[d] = "ADMITTED" <=> d \in active
                       /\ told'[d] = "QUEUED" <=> \E i \in DOMAIN queue : queue[i] = d
  BY <1>1, <1>3, <1>4 DEF Orderly
<1>6. Orderly(active, queue, cancelled, told')
  BY <1>1, <1>2, <1>5 DEF Orderly
<1>7. Orderly(active', queue', cancelled', told')
  BY <1>1, <1>6
<1> QED  BY <1>7 DEF ControllerInv

LEMMA AdmitKeeps ==
  ASSUME ControllerInv, NEW c \in Claim, Admit(c)
  PROVE  ControllerInv' /\ queue = <<>>
<1>1. Orderly(active, queue, cancelled, told)
  BY DEF ControllerInv
<1>2. /\ c \notin active /\ c \notin Waiting /\ ExperimentOf[c] \notin cancelled
      /\ Cardinality(active) < MaximumRuns
      /\ active' = active \cup {c}
      /\ told' = [told EXCEPT ![c] = "ADMITTED"]
      /\ queue' = queue /\ cancelled' = cancelled
  BY DEF Admit, Cancelled, Tell
<1>3. Cardinality(active) \in Nat /\ MaximumRuns \in Nat /\ IsFiniteSet(active)
  BY <1>1, FS_CardinalityType, LimitAssumption DEF Orderly
<1>4. queue = <<>>
  BY <1>2, <1>3 DEF ControllerInv
<1>5. DOMAIN queue = {}
  BY <1>4
<1>6. /\ active' \subseteq Claim /\ IsFiniteSet(active') /\ Cardinality(active') <= MaximumRuns
  <2>1. IsFiniteSet(active \cup {c}) /\ Cardinality(active \cup {c}) = Cardinality(active) + 1
    BY <1>2, <1>3, FS_AddElement
  <2>2. Cardinality(active) + 1 <= MaximumRuns
    BY <1>2, <1>3
  <2> QED  BY <1>1, <1>2, <2>1, <2>2 DEF Orderly
<1>7. told' \in [Claim -> Status \cup {"NONE"}]
  BY <1>1, <1>2 DEF Orderly, Status
<1>8. \A d \in Claim : told'[d] = IF d = c THEN "ADMITTED" ELSE told[d]
  BY <1>1, <1>2 DEF Orderly
<1>9. \A d \in Claim : /\ told'[d] = "ADMITTED" <=> d \in active'
                       /\ told'[d] = "QUEUED" <=> \E i \in DOMAIN queue : queue[i] = d
  BY <1>1, <1>2, <1>5, <1>8 DEF Orderly
<1>10. \A d \in active' : ExperimentOf[d] \notin cancelled
  BY <1>1, <1>2 DEF Orderly
<1>11. Orderly(active', queue, cancelled, told')
  BY <1>1, <1>5, <1>6, <1>7, <1>9, <1>10 DEF Orderly
<1>12. Orderly(active', queue', cancelled', told') /\ queue' = <<>>
  BY <1>1, <1>2, <1>4, <1>11
<1> QED  BY <1>4, <1>12 DEF ControllerInv

LEMMA EnqueueKeeps ==
  ASSUME ControllerInv, NEW c \in Claim, Enqueue(c)
  PROVE  ControllerInv' /\ active' = active
<1>1. Orderly(active, queue, cancelled, told)
  BY DEF ControllerInv
<1>2. /\ c \notin active /\ c \notin Waiting /\ ExperimentOf[c] \notin cancelled
      /\ Cardinality(active) >= MaximumRuns /\ Len(queue) < MaxQueue
      /\ queue' = Append(queue, c)
      /\ told' = [told EXCEPT ![c] = "QUEUED"]
      /\ active' = active /\ cancelled' = cancelled
  BY DEF Enqueue, Cancelled, Tell
<1>3. /\ Cardinality(active) \in Nat /\ MaximumRuns \in Nat /\ MaxQueue \in Nat
      /\ Cardinality(active) <= MaximumRuns /\ queue \in Seq(Claim)
  BY <1>1, FS_CardinalityType, LimitAssumption DEF Orderly
<1> DEFINE n == Len(queue)
<1>4. n \in Nat /\ DOMAIN queue = 1 .. n /\ \A i \in 1 .. n : queue[i] \in Claim
  BY <1>3, LineFacts
<1>5. /\ queue' \in Seq(Claim) /\ Len(queue') = n + 1
      /\ \A i \in 1 .. n : queue'[i] = queue[i]
      /\ queue'[n + 1] = c
  BY <1>2, <1>3, AppendProperties
<1> HIDE DEF n
<1>6. DOMAIN queue' = 1 .. n + 1 /\ n + 1 \in 1 .. n + 1
      /\ \A i \in 1 .. n + 1 : i \in 1 .. n \/ i = n + 1
  BY <1>4, <1>5, LineFacts
<1>7. Len(queue') <= MaxQueue
  BY <1>2, <1>3, <1>4, <1>5 DEF n
<1>8. \A i \in 1 .. n : queue[i] # c
  BY <1>2, <1>4 DEF Waiting
<1>9. \A i, j \in DOMAIN queue' : queue'[i] = queue'[j] => i = j
  BY <1>1, <1>4, <1>5, <1>6, <1>8 DEF Orderly
<1>10. \A i \in DOMAIN queue' : queue'[i] \notin active /\ ExperimentOf[queue'[i]] \notin cancelled
  BY <1>1, <1>2, <1>4, <1>5, <1>6 DEF Orderly
<1>11. told' \in [Claim -> Status \cup {"NONE"}]
  BY <1>1, <1>2 DEF Orderly, Status
<1>12. \A d \in Claim : told'[d] = IF d = c THEN "QUEUED" ELSE told[d]
  BY <1>1, <1>2 DEF Orderly
<1>13. \A d \in Claim : (\E i \in DOMAIN queue' : queue'[i] = d)
                          <=> d = c \/ \E i \in DOMAIN queue : queue[i] = d
  <2>1. 1 .. n \subseteq 1 .. n + 1
    BY <1>4
  <2> QED  BY <1>4, <1>5, <1>6, <2>1
<1>14. \A d \in Claim : /\ told'[d] = "ADMITTED" <=> d \in active
                        /\ told'[d] = "QUEUED" <=> \E i \in DOMAIN queue' : queue'[i] = d
  BY <1>1, <1>2, <1>12, <1>13 DEF Orderly
<1>15. Orderly(active, queue', cancelled, told')
  BY <1>1, <1>5, <1>7, <1>9, <1>10, <1>11, <1>14 DEF Orderly
<1>16. Orderly(active', queue', cancelled', told')
  BY <1>1, <1>2, <1>15
<1>17. Cardinality(active') = MaximumRuns
  BY <1>2, <1>3
<1> QED  BY <1>2, <1>16, <1>17 DEF ControllerInv

\* What a step may do to the order of the line.
InTurn ==
  \A i \in DOMAIN queue :
    (\E j \in DOMAIN queue' : queue'[j] = queue[i]) =>
      /\ \A j \in i + 1 .. Len(queue) : queue[j] \notin active'
      /\ active' \subseteq active \cup {queue[j] : j \in 1 .. i - 1}

LEMMA PromotedInOrder ==
  ASSUME ControllerInv, NEW held, held \subseteq active, NEW line \in Seq(Claim),
         NEW at \in [1 .. Len(line) -> DOMAIN queue],
         \A k \in 1 .. Len(line) : line[k] = queue[at[k]],
         \A k, l \in 1 .. Len(line) : k < l => at[k] < at[l],
         Promoted(held, line), queue' \in Seq(Claim)
  PROVE  InTurn
<1> DEFINE n == Len(line)
<1>1. /\ \A i, j \in DOMAIN queue : queue[i] = queue[j] => i = j
      /\ \A i \in DOMAIN queue : queue[i] \notin active
      /\ queue \in Seq(Claim)
  BY DEF ControllerInv, Orderly
<1>2. DOMAIN queue = 1 .. Len(queue) /\ Len(queue) \in Nat /\ n \in Nat
  BY <1>1, LineFacts
<1>3. PICK k \in 0 .. n :
        /\ active' = held \cup {line[q] : q \in 1 .. k}
        /\ Len(queue') = n - k
        /\ \A j \in 1 .. Len(queue') : queue'[j] = line[k + j]
  BY DEF Promoted
<1>4. DOMAIN queue' = 1 .. n - k
  BY <1>3, LineFacts
<1> SUFFICES ASSUME NEW i \in DOMAIN queue, NEW j \in DOMAIN queue', queue'[j] = queue[i]
             PROVE  /\ \A m \in i + 1 .. Len(queue) : queue[m] \notin active'
                    /\ active' \subseteq active \cup {queue[m] : m \in 1 .. i - 1}
  BY DEF InTurn
<1>5. k + j \in 1 .. n /\ queue'[j] = line[k + j]
  BY <1>2, <1>3, <1>4
<1>6. at[k + j] = i
  <2>1. at[k + j] \in DOMAIN queue /\ line[k + j] = queue[at[k + j]]
    BY <1>5
  <2>2. queue[at[k + j]] = queue[i]
    BY <1>5, <2>1
  <2> QED  BY <1>1, <2>1, <2>2
<1>7. ASSUME NEW q \in 1 .. k
      PROVE  line[q] = queue[at[q]] /\ at[q] \in DOMAIN queue /\ at[q] < i
  <2>1. q \in 1 .. n /\ q < k + j
    BY <1>2, <1>4
  <2> QED  BY <1>5, <1>6, <2>1
<1>8. ASSUME NEW m \in i + 1 .. Len(queue) PROVE queue[m] \notin active'
  <2>1. m \in DOMAIN queue /\ m \in Int /\ i \in Int /\ i < m
    BY <1>2
  <2>2. ASSUME NEW q \in 1 .. k PROVE queue[m] # line[q]
    <3>1. queue[m] = line[q] => m = at[q]
      BY <1>1, <1>7, <2>1
    <3>2. ~(m < i)
      BY <2>1
    <3> QED  BY <1>7, <3>1, <3>2
  <2> QED  BY <1>1, <1>3, <2>1, <2>2
<1> DEFINE before == {queue[m] : m \in 1 .. i - 1}
<1>9. \A q \in 1 .. k : line[q] \in before
  <2> SUFFICES ASSUME NEW q \in 1 .. k PROVE line[q] \in before
    OBVIOUS
  <2>1. at[q] \in 1 .. i - 1
    BY <1>2, <1>7
  <2> QED  BY <1>7, <2>1
<1>10. active' \subseteq active \cup before
  <2> HIDE DEF before
  <2>1. {line[q] : q \in 1 .. k} \subseteq before
    BY <1>9
  <2> QED  BY <1>3, <2>1
<1> QED  BY <1>8, <1>10

\* A step that admits nobody overtakes nobody.
LEMMA NobodyAdmitted ==
  ASSUME ControllerInv, active' \subseteq active
  PROVE  InTurn
<1>1. queue \in Seq(Claim) /\ \A i \in DOMAIN queue : queue[i] \notin active
  BY DEF ControllerInv, Orderly
<1>2. DOMAIN queue = 1 .. Len(queue) /\ Len(queue) \in Nat
  BY <1>1, LineFacts
<1>3. \A i \in DOMAIN queue : i + 1 .. Len(queue) \subseteq DOMAIN queue
  BY <1>2
<1> QED  BY <1>1, <1>3 DEF InTurn

LEMMA NextKeeps ==
  ASSUME ControllerInv, ControllerNext
  PROVE  ControllerInv' /\ InTurn
<1>1. /\ Orderly(active, queue, cancelled, told)
      /\ queue \in Seq(Claim) /\ active \subseteq Claim
  BY DEF ControllerInv, Orderly
<1>2. DOMAIN queue = 1 .. Len(queue) /\ Len(queue) \in Nat
  BY <1>1, LineFacts
<1>3. ControllerInv' => queue' \in Seq(Claim)
  BY DEF ControllerInv, Orderly
<1>4. ASSUME NEW c \in Claim, AdmitCancelled(c)
      PROVE  ControllerInv' /\ InTurn
  <2>1. ControllerInv'
    BY <1>4, TurnedAwayKeeps DEF AdmitCancelled, Status
  <2>2. active' = active
    BY <1>4 DEF AdmitCancelled
  <2> QED  BY <2>1, <2>2, NobodyAdmitted
<1>5. ASSUME NEW c \in Claim, Refuse(c)
      PROVE  ControllerInv' /\ InTurn
  <2>1. ControllerInv'
    BY <1>5, TurnedAwayKeeps DEF Refuse, Status
  <2>2. active' = active
    BY <1>5 DEF Refuse
  <2> QED  BY <2>1, <2>2, NobodyAdmitted
<1>6. ASSUME NEW c \in Claim, Admit(c)
      PROVE  ControllerInv' /\ InTurn
  <2>1. ControllerInv' /\ queue = <<>>
    BY <1>6, AdmitKeeps
  <2>2. DOMAIN queue = {}
    BY <2>1
  <2> QED  BY <2>1, <2>2 DEF InTurn
<1>7. ASSUME NEW c \in Claim, Enqueue(c)
      PROVE  ControllerInv' /\ InTurn
  BY <1>7, EnqueueKeeps, NobodyAdmitted
<1>8. ASSUME NEW c \in Claim, Ends(c)
      PROVE  ControllerInv' /\ InTurn
  <2>1. PICK word \in {"RELEASED", "ABORTED"} :
          /\ c \in active
          /\ Promote(active \ {c}, queue, cancelled, [told EXCEPT ![c] = word])
          /\ cancelled' = cancelled
    BY <1>8 DEF Ends, Release, Abort
  <2>2. word \in Status \ {"ADMITTED", "QUEUED"}
    BY DEF Status
  <2>3. ControllerInv' /\ Promoted(active \ {c}, queue)
    BY <2>1, <2>2, EndKeeps
  <2> DEFINE at == [k \in 1 .. Len(queue) |-> k]
  <2>4. /\ at \in [1 .. Len(queue) -> DOMAIN queue]
        /\ \A k \in 1 .. Len(queue) : queue[k] = queue[at[k]]
        /\ \A k, l \in 1 .. Len(queue) : k < l => at[k] < at[l]
    BY <1>2
  <2> HIDE DEF at
  <2>5. active \ {c} \subseteq active
    OBVIOUS
  <2>6. InTurn
    BY <1>1, <1>3, <2>3, <2>4, <2>5, PromotedInOrder
  <2> QED  BY <2>3, <2>6
<1>9. ASSUME NEW e \in Experiment, CancelExperiment(e)
      PROVE  ControllerInv' /\ InTurn
  <2> DEFINE held == active \ Of(e)
             line == Others(queue, e)
  <2>1. ControllerInv' /\ Promoted(held, line)
    BY <1>9, CancelKeeps
  <2>2. line \in Seq(Claim) /\ Stays(line, queue, e)
    BY <1>1, OthersStayInLine
  <2>3. held \subseteq active
    OBVIOUS
  <2> HIDE DEF held, line
  <2>4. PICK at \in [1 .. Len(line) -> DOMAIN queue] :
          /\ \A k \in 1 .. Len(line) : line[k] = queue[at[k]]
          /\ \A k, l \in 1 .. Len(line) : k < l => at[k] < at[l]
    BY <2>2 DEF Stays
  <2>5. InTurn
    BY <1>3, <2>1, <2>2, <2>3, <2>4, PromotedInOrder
  <2> QED  BY <2>1, <2>5
<1> QED  BY <1>4, <1>5, <1>6, <1>7, <1>8, <1>9 DEF ControllerNext

LEMMA StutterKeeps ==
  ASSUME ControllerInv, UNCHANGED controller
  PROVE  ControllerInv'
<1>1. /\ active' = active /\ queue' = queue
      /\ cancelled' = cancelled /\ told' = told
  BY DEF controller
<1>2. Orderly(active', queue', cancelled', told')
  BY <1>1 DEF ControllerInv
<1> QED  BY <1>1, <1>2 DEF ControllerInv

LEMMA ControllerStarts ==
  ASSUME ControllerInit
  PROVE  ControllerInv
<1>1. /\ active = {} /\ queue = <<>> /\ cancelled = {}
      /\ told = [c \in Claim |-> "NONE"]
  BY DEF ControllerInit
<1>2. IsFiniteSet(active) /\ Cardinality(active) = 0
  BY <1>1, FS_EmptySet
<1>3. MaximumRuns \in Nat /\ MaxQueue \in Nat
  BY LimitAssumption
<1>4. queue \in Seq(Claim) /\ Len(queue) = 0 /\ DOMAIN queue = {}
  BY <1>1
<1>5. told \in [Claim -> Status \cup {"NONE"}] /\ \A c \in Claim : told[c] = "NONE"
  BY <1>1
<1>6. Orderly(active, queue, cancelled, told)
  BY <1>1, <1>2, <1>3, <1>4, <1>5 DEF Orderly
<1> QED  BY <1>1, <1>6 DEF ControllerInv

LEMMA ControllerSound ==
  ASSUME ControllerInv
  PROVE  QueueSound
<1>1. Orderly(active, queue, cancelled, told)
  BY DEF ControllerInv
<1>2. FullWhileWaiting
  BY <1>1 DEF FullWhileWaiting, ControllerInv, Orderly
<1>3. \A c : c \in Waiting <=> \E i \in DOMAIN queue : queue[i] = c
  BY DEF Waiting
<1>4. CancelledHoldsNothing
  BY <1>1, <1>3 DEF CancelledHoldsNothing, Cancelled, Orderly
<1>5. DecisionsAreCurrent
  BY <1>1, <1>3 DEF DecisionsAreCurrent, Orderly
<1> QED  BY <1>2, <1>4, <1>5 DEF QueueSound

LEMMA ControllerKeeps == ControllerSpec => []ControllerInv
<1>1. ControllerInit => ControllerInv
  BY ControllerStarts
<1>2. ControllerInv /\ [ControllerNext]_controller => ControllerInv'
  BY NextKeeps, StutterKeeps
<1> QED  BY <1>1, <1>2, PTL DEF ControllerSpec

\* The fields of ResourceControllerV1 keep their types.
THEOREM ControllerTyped == ControllerSpec => []ControllerTypeOK
<1>1. ControllerInv => ControllerTypeOK
  BY DEF ControllerInv, Orderly, ControllerTypeOK
<1> QED  BY <1>1, ControllerKeeps, PTL

\* ResourceControllerV1: nothing waits while a run is free, a cancelled
\* experiment holds neither a run nor a place in line, and the last decision on
\* each claim says where the claim is, for every number of claims and experiments
\* and every limit.
THEOREM QueueHolds == ControllerSpec => []QueueSound
<1>1. ControllerInv => QueueSound
  BY ControllerSound
<1> QED  BY <1>1, ControllerKeeps, PTL

\* _promote_waiting and cancel_experiment keep the order of the line: a claim
\* that goes on waiting is overtaken by no claim behind it and by none that came
\* later.
THEOREM LineIsKept == ControllerSpec => NotOvertaken
<1>1. ControllerInv /\ [ControllerNext]_controller => [InTurn]_controller
  BY NextKeeps
<1>2. ControllerSpec => [][InTurn]_controller
  BY <1>1, ControllerKeeps, PTL DEF ControllerSpec
<1> QED  BY <1>2, PTL DEF NotOvertaken, InTurn
=============================================================================

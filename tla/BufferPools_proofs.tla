------------------------- MODULE BufferPools_proofs -------------------------
(***************************************************************************)
(* Proofs about the two pools of buffers that the connections of the host  *)
(* share: that of received data (AclFlow) and that of the entries of       *)
(* queued writes (QueuedWrites).  Both count what is out of the pool link  *)
(* by link, so that both rest on the lemmas about totals that come first.  *)
(*                                                                         *)
(* AclFlow.  CreditsAreKept is not inductive by itself.  That a link which *)
(* comes up has no buffers of its predecessor with the same handle depends *)
(* on the order in the event queue: a link is announced, its data are      *)
(* handled, its end is announced (Order).  That the report after the end   *)
(* of a link takes no credit from another one depends on what is counted   *)
(* being zero for connections the host does not have (Buffers).  And that  *)
(* nothing is dropped while links follow on each other needs the place of  *)
(* the data event between the two events of the link (Alone).  Buffers are *)
(* lost in a report that fails only where it resets the host, or where the *)
(* counts of another link were in it (Sent).                               *)
(*                                                                         *)
(* QueuedWrites.  The pool is conserved by every step once every variable  *)
(* has its type; the work is in the sorted insertion and in the least of   *)
(* the times that are left.  That an execution writes what was accepted    *)
(* needs the list to stay sorted and to hold each entry as often as it was *)
(* accepted (ListsHold).  What is concatenated is then found from the      *)
(* least place where it would be wrong, as no induction over sequences is  *)
(* at hand.                                                                *)
(***************************************************************************)
EXTENDS AclFlow, QueuedWrites, FiniteSetTheorems, SequenceTheorems, WellFoundedInduction,
        TLAPS

(***************************************************************************)
(* What the entries of a function add up to.                               *)
(***************************************************************************)
LEMMA UnitFacts ==
    ASSUME NEW S, NEW f \in [S -> Nat], NEW u
    PROVE  u \in Units(f) <=> \E x \in S : \E i \in 1 .. f[x] : u = <<x, i>>
BY DEF Units

\* A bijection is given by its inverse.
LEMMA BijectionExists ==
    ASSUME NEW S, NEW T, NEW f \in [S -> T], NEW g \in [T -> S],
           \A x \in S : g[f[x]] = x, \A y \in T : f[g[y]] = y
    PROVE  ExistsBijection(S, T)
<1>1. f \in Injection(S, T)
  BY DEF Injection, IsInjective
<1>2. f \in Surjection(S, T)
  BY DEF Surjection
<1>3. QED BY <1>1, <1>2 DEF ExistsBijection, Bijection

LEMMA UnitsFinite ==
    ASSUME NEW S, IsFiniteSet(S), NEW f \in [S -> Nat]
    PROVE  IsFiniteSet(Units(f)) /\ Total(f) \in Nat
<1> DEFINE column == [x \in S |-> {x} \X (1 .. f[x])]
           Columns == {{x} \X (1 .. f[x]) : x \in S}
<1>1. column \in Surjection(S, Columns)
  BY DEF Surjection
<1>2. IsFiniteSet(Columns)
  BY <1>1, FS_Surjection
<1>3. ASSUME NEW x \in S PROVE IsFiniteSet({x} \X (1 .. f[x]))
  <2>1. IsFiniteSet({x}) /\ IsFiniteSet(1 .. f[x])
    <3>1. 1 \in Int /\ f[x] \in Int
      OBVIOUS
    <3>2. QED BY <3>1, FS_Singleton, FS_Interval
  <2>2. QED BY <2>1, FS_Product
<1>4. IsFiniteSet(UNION Columns)
  BY <1>2, <1>3, FS_UNION
<1>5. Units(f) = UNION Columns
  BY DEF Units
<1>6. QED BY <1>4, <1>5, FS_CardinalityType DEF Total

\* Totals add up.
LEMMA TotalSum ==
    ASSUME NEW S, IsFiniteSet(S), NEW f \in [S -> Nat], NEW g \in [S -> Nat], NEW h \in [S -> Nat],
           \A x \in S : h[x] = f[x] + g[x]
    PROVE  Total(h) = Total(f) + Total(g)
<1> DEFINE Above == {u \in Units(h) : u[2] > f[u[1]]}
           raise == [u \in Units(g) |-> <<u[1], f[u[1]] + u[2]>>]
           lower == [u \in Above |-> <<u[1], u[2] - f[u[1]]>>]
<1>1. ASSUME NEW u \in Units(g)
      PROVE  raise[u] \in Above /\ lower[raise[u]] = u
  <2>1. PICK x \in S, i \in Nat : i \in 1 .. g[x] /\ u = <<x, i>>
    BY UnitFacts
  <2>2. raise[u] = <<x, f[x] + i>> /\ f[x] + i \in 1 .. h[x] /\ f[x] + i > f[x]
    BY <2>1
  <2>3. raise[u] \in Units(h)
    BY <2>2, UnitFacts
  <2>4. raise[u] \in Above
    BY <2>2, <2>3
  <2>5. lower[raise[u]] = <<x, (f[x] + i) - f[x]>>
    BY <2>2, <2>4
  <2>6. QED BY <2>1, <2>4, <2>5
<1>2. ASSUME NEW u \in Above
      PROVE  lower[u] \in Units(g) /\ raise[lower[u]] = u
  <2>1. PICK x \in S, i \in Nat : i \in 1 .. h[x] /\ u = <<x, i>>
    BY UnitFacts
  <2>2. i > f[x] /\ i - f[x] \in 1 .. g[x]
    BY <2>1
  <2>3. lower[u] = <<x, i - f[x]>>
    BY <2>1
  <2>4. lower[u] \in Units(g)
    BY <2>2, <2>3, UnitFacts
  <2>5. raise[lower[u]] = <<x, f[x] + (i - f[x])>>
    BY <2>3, <2>4
  <2>6. QED BY <2>1, <2>4, <2>5
<1>3. raise \in [Units(g) -> Above] /\ lower \in [Above -> Units(g)]
  BY <1>1, <1>2
<1>4. ExistsBijection(Units(g), Above)
  <2> HIDE DEF Above, raise, lower
  <2>1. QED BY <1>1, <1>2, <1>3, BijectionExists
<1>5. IsFiniteSet(Above) /\ Cardinality(Above) = Total(g)
  <2> HIDE DEF Above
  <2>1. QED BY <1>4, UnitsFinite, FS_Bijection DEF Total
<1>6. Units(f) \cap Above = {} /\ Units(f) \cup Above = Units(h)
  <2>1. ASSUME NEW u \in Units(f) PROVE u \in Units(h) /\ u \notin Above
    <3>1. PICK x \in S, i \in Nat : i \in 1 .. f[x] /\ u = <<x, i>>
      BY UnitFacts
    <3>2. i \in 1 .. h[x]
      BY <3>1
    <3>3. QED BY <3>1, <3>2, UnitFacts
  <2>2. ASSUME NEW u \in Units(h), u \notin Above PROVE u \in Units(f)
    <3>1. PICK x \in S, i \in Nat : i \in 1 .. h[x] /\ u = <<x, i>>
      BY UnitFacts
    <3>2. i \in 1 .. f[x]
      BY <2>2, <3>1
    <3>3. QED BY <3>1, <3>2, UnitFacts
  <2>3. QED BY <2>1, <2>2
<1>7. Cardinality(Units(f) \cup Above) = Cardinality(Units(f)) + Cardinality(Above)
          - Cardinality(Units(f) \cap Above)
  <2> HIDE DEF Above
  <2>1. QED BY <1>5, UnitsFinite, FS_Union
<1>8. Total(f) \in Nat /\ Total(g) \in Nat
  BY UnitsFinite
<1> HIDE DEF Above
<1>9. Cardinality({}) = 0
  BY FS_EmptySet
<1>10. Cardinality(Units(h)) = Cardinality(Units(f)) + Cardinality(Above) - 0
  BY <1>6, <1>7, <1>9, Zenon
<1>11. Total(h) = Total(f) + Cardinality(Above) - 0
  BY <1>10 DEF Total
<1>12. QED BY <1>5, <1>8, <1>11

\* Only one entry counts.
LEMMA TotalOne ==
    ASSUME NEW S, NEW f \in [S -> Nat], NEW a \in S, \A x \in S : x # a => f[x] = 0
    PROVE  Total(f) = f[a]
<1> DEFINE Number == 1 .. f[a]
           unit == [i \in Number |-> <<a, i>>]
           number == [u \in Units(f) |-> u[2]]
<1>1. ASSUME NEW i \in Number PROVE unit[i] \in Units(f) /\ number[unit[i]] = i
  <2>1. unit[i] = <<a, i>> /\ <<a, i>> \in Units(f)
    BY UnitFacts
  <2>2. QED BY <2>1
<1>2. ASSUME NEW u \in Units(f) PROVE number[u] \in Number /\ unit[number[u]] = u
  <2>1. PICK x \in S, i \in Nat : i \in 1 .. f[x] /\ u = <<x, i>>
    BY UnitFacts
  <2>2. x = a
    BY <2>1
  <2>3. QED BY <2>1, <2>2
<1>3. unit \in [Number -> Units(f)] /\ number \in [Units(f) -> Number]
  BY <1>1, <1>2
<1>4. ExistsBijection(Number, Units(f))
  <2> HIDE DEF Number, unit, number
  <2>1. QED BY <1>1, <1>2, <1>3, BijectionExists
<1>5. IsFiniteSet(Number) /\ Cardinality(Number) = f[a]
  <2>1. 1 \in Int /\ f[a] \in Nat
    OBVIOUS
  <2>2. QED BY <2>1, FS_Interval
<1> HIDE DEF Number
<1>6. QED BY <1>4, <1>5, FS_Bijection DEF Total

LEMMA TotalZero ==
    ASSUME NEW S, NEW f \in [S -> Nat], \A x \in S : f[x] = 0
    PROVE  Total(f) = 0
<1>1. Units(f) = {}
  BY UnitFacts
<1>2. QED BY <1>1, FS_EmptySet DEF Total

\* One entry is replaced.
LEMMA TotalReplaced ==
    ASSUME NEW S, IsFiniteSet(S), NEW f \in [S -> Nat], NEW g \in [S -> Nat], NEW a \in S,
           \A x \in S : x # a => g[x] = f[x]
    PROVE  Total(g) + f[a] = Total(f) + g[a]
<1> DEFINE rest == [x \in S |-> IF x = a THEN 0 ELSE f[x]]
           old == [x \in S |-> IF x = a THEN f[a] ELSE 0]
           new == [x \in S |-> IF x = a THEN g[a] ELSE 0]
<1>1. rest \in [S -> Nat] /\ old \in [S -> Nat] /\ new \in [S -> Nat]
  OBVIOUS
<1>2. Total(old) = f[a] /\ Total(new) = g[a]
  <2>1. old[a] = f[a] /\ new[a] = g[a] /\ \A x \in S : x # a => old[x] = 0 /\ new[x] = 0
    OBVIOUS
  <2> HIDE DEF old, new
  <2>2. QED BY <1>1, <2>1, TotalOne
<1>3. (\A x \in S : f[x] = rest[x] + old[x]) /\ (\A x \in S : g[x] = rest[x] + new[x])
  OBVIOUS
<1> HIDE DEF rest, old, new
<1>4. Total(f) = Total(rest) + Total(old)
  BY <1>1, <1>3, TotalSum
<1>5. Total(g) = Total(rest) + Total(new)
  BY <1>1, <1>3, TotalSum
<1>6. Total(rest) \in Nat
  BY <1>1, UnitsFinite
<1>7. QED BY <1>2, <1>4, <1>5, <1>6

LEMMA PartOfTotal ==
    ASSUME NEW S, IsFiniteSet(S), NEW f \in [S -> Nat], NEW a \in S
    PROVE  f[a] <= Total(f)
<1> DEFINE g == [x \in S |-> IF x = a THEN 0 ELSE f[x]]
<1>1. g \in [S -> Nat] /\ g[a] = 0 /\ \A x \in S : x # a => g[x] = f[x]
  OBVIOUS
<1> HIDE DEF g
<1>2. Total(g) + f[a] = Total(f) + g[a]
  BY <1>1, TotalReplaced
<1>3. Total(g) \in Nat /\ Total(f) \in Nat
  BY <1>1, UnitsFinite
<1>4. QED BY <1>1, <1>2, <1>3

\* Entries that are 0 need not be there.
LEMMA TotalOverPart ==
    ASSUME NEW S, NEW f \in [S -> Nat], NEW T \in SUBSET S,
           \A x \in S : x \notin T => f[x] = 0
    PROVE  Total([x \in T |-> f[x]]) = Total(f)
<1>1. ASSUME NEW u PROVE u \in Units([x \in T |-> f[x]]) <=> u \in Units(f)
  <2> DEFINE g == [x \in T |-> f[x]]
  <2>1. g \in [T -> Nat] /\ \A x \in T : g[x] = f[x]
    OBVIOUS
  <2> HIDE DEF g
  <2>2. u \in Units(g) <=> \E x \in T : \E i \in 1 .. g[x] : u = <<x, i>>
    BY <2>1, UnitFacts
  <2>3. u \in Units(f) <=> \E x \in S : \E i \in 1 .. f[x] : u = <<x, i>>
    BY UnitFacts
  <2>4. \A x \in S : x \notin T => 1 .. f[x] = {}
    OBVIOUS
  <2>5. u \in Units(g) <=> u \in Units(f)
    BY <2>1, <2>2, <2>3, <2>4
  <2>6. QED BY <2>5 DEF g
<1>2. Units([x \in T |-> f[x]]) = Units(f)
  BY <1>1
<1>3. QED BY <1>2 DEF Total
-----------------------------------------------------------------------------
(***************************************************************************)
(* The flow control of received data: what is in the event queue.          *)
(***************************************************************************)
Con(p) == [kind |-> "connected", peer |-> p]
Dis(p) == [kind |-> "disconnected", peer |-> p]
Plain(kind) == [kind |-> kind, peer |-> None]
Data == Plain("data")

In(e) == \E i \in DOMAIN evq : evq[i] = e
Ahead(e, f) == \E i, j \in DOMAIN evq : i < j /\ evq[i] = e /\ evq[j] = f

Counter == [Peer -> Nat]

Shape == /\ up \subseteq Peer /\ conns \subseteq Peer
         /\ credit \in Nat /\ num \in Nat /\ leftover \in Nat
         /\ overlap \in 0 .. MaxOverlap + 1
         /\ unreported \in Counter /\ held \in Counter /\ fragments \in Counter
         /\ completed \in Counter /\ dropped \in Counter /\ unsent \in Counter
         /\ evq \in Seq(Event) /\ IsInjective(evq)
         /\ rxq \in Seq(Packet)
         /\ receiving \in BOOLEAN /\ timer \in BOOLEAN /\ resetDue \in BOOLEAN

\* A link is announced, then used, then its end is announced, in this order.
LinkOK(p) == /\ In(Con(p)) => p \notin conns
             /\ p \in up => ~ In(Dis(p)) /\ (p \in conns \/ In(Con(p)))
             /\ p \notin up /\ (p \in conns \/ In(Con(p))) => In(Dis(p))
             /\ In(Dis(p)) => p \in conns \/ Ahead(Con(p), Dis(p))

\* The packets of a link are handled before its end is.
Queued(p) == \E i \in DOMAIN rxq : rxq[i].peer = p

QueueOK(p) == Queued(p) => \/ p \in up
                           \/ In(Dis(p)) /\ (receiving \/ Ahead(Data, Dis(p)))

Announced == rxq # <<>> => receiving \/ In(Data)

\* As long as one link follows on the other, the packets of a link are between the
\* two events of the link, and are not handled before the first one.
Present(p) == p \in up \/ p \in conns \/ In(Con(p)) \/ In(Dis(p))

Alone == overlap = 0 =>
           /\ dropped = Zero
           /\ \A p, q \in Peer : Present(p) /\ Present(q) => p = q
           /\ (\A p \in Peer : ~ Present(p)) => ~ receiving /\ ~ In(Data)
           /\ \A p \in Peer : In(Con(p)) => ~ receiving /\ (In(Data) => Ahead(Con(p), Data))
           /\ \A p \in Peer : In(Dis(p)) /\ In(Data) => Ahead(Data, Dis(p))

\* The buffers of a link.
FragmentsOK(p) == /\ held[p] <= fragments[p] /\ fragments[p] <= MaxFragments
                  /\ fragments[p] > 0 => held[p] > 0

Occupied(p) == InQueue(p) + held[p] + completed[p]

BuffersOK(p) == /\ p \in up => unreported[p] = Occupied(p) + dropped[p] + unsent[p]
                /\ p \notin up => /\ unreported[p] = 0 /\ dropped[p] = 0 /\ unsent[p] = 0
                                  /\ Occupied(p) <= BufCount
                /\ p \notin conns => held[p] = 0 /\ completed[p] = 0

Conserved == credit + Total(unreported) = BufCount

Order == (\A p \in Peer : LinkOK(p) /\ QueueOK(p)) /\ Announced /\ Alone

Buffers == (\A p \in Peer : FragmentsOK(p) /\ BuffersOK(p)) /\ Conserved

\* A report that fails ends the host, unless it is the one at the end of a link and
\* another link is there.
Sent == resetDue \/ overlap > 0 \/ unsent = Zero

IInv == Shape /\ Order /\ Buffers /\ Sent /\ CountIsExplained

-----------------------------------------------------------------------------
(***************************************************************************)
(* Steps of the queues.                                                    *)
(***************************************************************************)
LEMMA EventFacts ==
    /\ \A p \in Peer : Con(p) \in Event /\ Dis(p) \in Event
    /\ \A kind \in {"data", "flow", "timer"} : Plain(kind) \in Event
    /\ \A p, q \in Peer : Con(p) # Dis(q) /\ (Con(p) = Con(q) => p = q) /\ (Dis(p) = Dis(q) => p = q)
    /\ \A p \in Peer : \A kind \in {"data", "flow", "timer"} : Con(p) # Plain(kind) /\ Dis(p) # Plain(kind)
    /\ Plain("flow") # Data /\ Plain("timer") # Data
    /\ \A p \in Peer : Con(p).kind = "connected" /\ Dis(p).kind = "disconnected"
    /\ \A p \in Peer : Con(p).peer = p /\ Dis(p).peer = p /\ p # None
    /\ \A kind : Plain(kind).kind = kind /\ Plain(kind).peer = None
<1>1. \A p \in Peer : p # None
  BY PeerAssumption
<1>2. \A p \in Peer : Con(p).kind = "connected" /\ Dis(p).kind = "disconnected"
  BY DEF Con, Dis
<1>3. \A p \in Peer : Con(p).peer = p /\ Dis(p).peer = p
  BY DEF Con, Dis
<1>4. \A kind : Plain(kind).kind = kind /\ Plain(kind).peer = None
  BY DEF Plain
<1>5. \A p \in Peer : Con(p) \in Event /\ Dis(p) \in Event
  BY DEF Con, Dis, Event
<1>6. \A kind \in {"data", "flow", "timer"} : Plain(kind) \in Event
  BY DEF Plain, Event
<1>7. QED BY <1>1, <1>2, <1>3, <1>4, <1>5, <1>6 DEF Data

\* What an event is, from its kind.
LEMMA EventKinds ==
    ASSUME NEW e \in Event
    PROVE  /\ e.kind \in {"data", "flow", "timer"} => e = Plain(e.kind)
           /\ e.kind = "connected" => e.peer \in Peer /\ e = Con(e.peer)
           /\ e.kind = "disconnected" => e.peer \in Peer /\ e = Dis(e.peer)
           /\ e.kind \in {"data", "flow", "timer", "connected", "disconnected"}
BY DEF Event, Plain, Con, Dis

LEMMA AppendEvent ==
    ASSUME Shape, NEW e \in Event, ~ In(e), evq' = Append(evq, e)
    PROVE  /\ evq' \in Seq(Event) /\ IsInjective(evq)'
           /\ \A x : In(x)' <=> In(x) \/ x = e
           /\ \A x, y : Ahead(x, y)' <=> Ahead(x, y) \/ (In(x) /\ y = e)
<1>1. evq \in Seq(Event) /\ \A i, j \in DOMAIN evq : evq[i] = evq[j] => i = j
  BY DEF Shape, IsInjective
<1>2. /\ evq' \in Seq(Event) /\ Len(evq) \in Nat
      /\ DOMAIN evq = 1 .. Len(evq) /\ DOMAIN evq' = 1 .. Len(evq) + 1
      /\ evq'[Len(evq) + 1] = e /\ \A i \in DOMAIN evq : evq'[i] = evq[i]
  BY <1>1
<1>3. IsInjective(evq)'
  BY <1>1, <1>2 DEF IsInjective, In
<1>4. ASSUME NEW x PROVE In(x)' <=> In(x) \/ x = e
  BY <1>2 DEF In
<1>5. ASSUME NEW x, NEW y PROVE Ahead(x, y)' <=> Ahead(x, y) \/ (In(x) /\ y = e)
  <2>1. ASSUME Ahead(x, y)' PROVE Ahead(x, y) \/ (In(x) /\ y = e)
    <3>1. PICK i, j \in DOMAIN evq' : i < j /\ evq'[i] = x /\ evq'[j] = y
      BY <2>1 DEF Ahead
    <3>2. i \in DOMAIN evq /\ (j \in DOMAIN evq \/ j = Len(evq) + 1)
      BY <1>2, <3>1
    <3>3. QED BY <1>2, <3>1, <3>2 DEF Ahead, In
  <2>2. ASSUME Ahead(x, y) PROVE Ahead(x, y)'
    BY <1>2, <2>2 DEF Ahead
  <2>3. ASSUME In(x), y = e PROVE Ahead(x, y)'
    <3>1. PICK i \in DOMAIN evq : evq[i] = x
      BY <2>3 DEF In
    <3>2. i < Len(evq) + 1 /\ i \in DOMAIN evq' /\ Len(evq) + 1 \in DOMAIN evq' /\ evq'[i] = x
      BY <1>2, <3>1
    <3>3. QED BY <1>2, <2>3, <3>2 DEF Ahead
  <2>4. QED BY <2>1, <2>2, <2>3
<1>6. QED BY <1>2, <1>3, <1>4, <1>5

LEMMA TakeEvent ==
    ASSUME Shape, evq # <<>>, evq' = Tail(evq)
    PROVE  /\ Head(evq) \in Event /\ evq' \in Seq(Event) /\ IsInjective(evq)'
           /\ In(Head(evq)) /\ \A x : ~ Ahead(x, Head(evq))
           /\ \A x : In(x)' <=> In(x) /\ x # Head(evq)
           /\ \A x, y : Ahead(x, y)' <=> Ahead(x, y) /\ x # Head(evq)
<1> DEFINE h == Head(evq)
<1>1. evq \in Seq(Event) /\ \A i, j \in DOMAIN evq : evq[i] = evq[j] => i = j
  BY DEF Shape, IsInjective
<1>2. /\ evq' \in Seq(Event) /\ Len(evq) \in Nat /\ 1 \in DOMAIN evq
      /\ DOMAIN evq = 1 .. Len(evq) /\ DOMAIN evq' = 1 .. Len(evq) - 1
      /\ evq[1] = h /\ h \in Event /\ \A i \in DOMAIN evq' : i + 1 \in DOMAIN evq /\ evq'[i] = evq[i + 1]
  BY <1>1
<1> HIDE DEF h
<1>3. IsInjective(evq)'
  BY <1>1, <1>2 DEF IsInjective
<1>4. In(h)
  BY <1>2 DEF In
<1>5. \A x : ~ Ahead(x, h)
  <2>1. ASSUME NEW i \in DOMAIN evq, NEW j \in DOMAIN evq, i < j PROVE evq[j] # h
    BY <1>1, <1>2, <2>1
  <2>2. QED BY <2>1 DEF Ahead
<1>6. \A j \in DOMAIN evq : evq[j] # h => j - 1 \in DOMAIN evq' /\ evq'[j - 1] = evq[j]
  <2>1. ASSUME NEW j \in DOMAIN evq, j # 1 PROVE j - 1 \in DOMAIN evq' /\ evq'[j - 1] = evq[j]
    <3>1. j - 1 \in DOMAIN evq' /\ (j - 1) + 1 = j
      BY <1>2, <2>1
    <3>2. QED BY <1>2, <3>1
  <2>2. QED BY <1>2, <2>1
<1>7. \A i \in DOMAIN evq' : evq'[i] # h
  BY <1>1, <1>2
<1>8. ASSUME NEW x PROVE In(x)' <=> In(x) /\ x # h
  BY <1>2, <1>6, <1>7 DEF In
<1>9. ASSUME NEW x, NEW y PROVE Ahead(x, y)' <=> Ahead(x, y) /\ x # h
  <2>1. ASSUME Ahead(x, y)' PROVE Ahead(x, y) /\ x # h
    <3>1. PICK i, j \in DOMAIN evq' : i < j /\ evq'[i] = x /\ evq'[j] = y
      BY <2>1 DEF Ahead
    <3>2. i + 1 < j + 1 /\ evq[i + 1] = x /\ evq[j + 1] = y /\ i + 1 \in DOMAIN evq /\ j + 1 \in DOMAIN evq
      BY <1>2, <3>1
    <3>3. QED BY <1>7, <3>1, <3>2 DEF Ahead
  <2>2. ASSUME Ahead(x, y), x # h PROVE Ahead(x, y)'
    <3>1. PICK i, j \in DOMAIN evq : i < j /\ evq[i] = x /\ evq[j] = y
      BY <2>2 DEF Ahead
    <3>2. y # h
      BY <1>5, <2>2
    <3>3. /\ i - 1 \in DOMAIN evq' /\ evq'[i - 1] = x
          /\ j - 1 \in DOMAIN evq' /\ evq'[j - 1] = y
      BY <1>6, <2>2, <3>1, <3>2
    <3>4. i - 1 < j - 1
      BY <1>2, <3>1
    <3>5. QED BY <3>3, <3>4 DEF Ahead
  <2>3. QED BY <2>1, <2>2
<1>10. QED BY <1>2, <1>3, <1>4, <1>5, <1>8, <1>9 DEF h

LEMMA PutEvent ==
    ASSUME Shape, NEW kind \in {"data", "flow", "timer"}, evq' = Put(kind)
    PROVE  \/ In(Plain(kind)) /\ evq' = evq
           \/ ~ In(Plain(kind)) /\ evq' = Append(evq, Plain(kind))
<1>1. \A i \in DOMAIN evq : evq[i] \in Event
  BY DEF Shape
<1>2. (\E e \in ToSet(evq) : e.kind = kind) <=> In(Plain(kind))
  BY <1>1, EventKinds, EventFacts DEF In, ToSet
<1>3. QED BY <1>2 DEF Put, Plain

LEMMA SameEvents ==
    ASSUME evq' = evq
    PROVE  /\ \A x : In(x)' <=> In(x)
           /\ \A x, y : Ahead(x, y)' <=> Ahead(x, y)
BY DEF In, Ahead

\* What Put does, in one: an event of the kind is in the queue.
LEMMA PutFacts ==
    ASSUME Shape, NEW kind \in {"data", "flow", "timer"}, evq' = Put(kind)
    PROVE  /\ evq' \in Seq(Event) /\ IsInjective(evq)'
           /\ \A x : In(x)' <=> In(x) \/ x = Plain(kind)
           /\ \A x, y : Ahead(x, y) => Ahead(x, y)'
           /\ \A x, y : Ahead(x, y)' => Ahead(x, y) \/ y = Plain(kind)
           /\ ~ In(Plain(kind)) => \A x : In(x) => Ahead(x, Plain(kind))'
<1>1. Plain(kind) \in Event
  BY EventFacts
<1>2. CASE In(Plain(kind)) /\ evq' = evq
  BY <1>2, SameEvents DEF Shape, IsInjective
<1>3. CASE ~ In(Plain(kind)) /\ evq' = Append(evq, Plain(kind))
  BY <1>1, <1>3, AppendEvent
<1>4. QED BY <1>2, <1>3, PutEvent

\* The packets of a link.
PeerCount(q, p) == Cardinality({i \in DOMAIN q : q[i].peer = p})

LEMMA PeerCountType ==
    ASSUME NEW q \in Seq(Packet), NEW p
    PROVE  /\ PeerCount(q, p) \in Nat /\ PeerCount(q, p) <= Len(q)
           /\ (\A i \in DOMAIN q : q[i].peer # p) => PeerCount(q, p) = 0
           /\ (\A i \in DOMAIN q : q[i].peer = p) => PeerCount(q, p) = Len(q)
<1> DEFINE P == {i \in DOMAIN q : q[i].peer = p}
<1>1. Len(q) \in Nat /\ DOMAIN q = 1 .. Len(q) /\ 1 \in Int /\ Len(q) \in Int
  OBVIOUS
<1>2. IsFiniteSet(DOMAIN q) /\ Cardinality(DOMAIN q) = Len(q)
  BY <1>1, FS_Interval
<1>3. P \in SUBSET DOMAIN q
  OBVIOUS
<1>4. Cardinality(P) \in Nat /\ Cardinality(P) <= Len(q)
  <2> HIDE DEF P
  <2>1. QED BY <1>2, <1>3, FS_Subset, FS_CardinalityType
<1>5. ASSUME \A i \in DOMAIN q : q[i].peer # p PROVE Cardinality(P) = 0
  <2>1. P = {}
    BY <1>5
  <2>2. QED BY <2>1, FS_EmptySet
<1>6. ASSUME \A i \in DOMAIN q : q[i].peer = p PROVE Cardinality(P) = Len(q)
  <2>1. P = DOMAIN q
    BY <1>6
  <2>2. QED BY <1>2, <2>1
<1>7. QED BY <1>4, <1>5, <1>6 DEF PeerCount

LEMMA PeerCountAppend ==
    ASSUME NEW q \in Seq(Packet), NEW r \in Seq(Packet), Len(r) = Len(q) + 1,
           \A i \in 1 .. Len(q) : r[i] = q[i], NEW p
    PROVE  PeerCount(r, p) = IF r[Len(q) + 1].peer = p THEN PeerCount(q, p) + 1 ELSE PeerCount(q, p)
<1> DEFINE P == {i \in DOMAIN q : q[i].peer = p}
           R == {i \in DOMAIN r : r[i].peer = p}
           n == Len(q) + 1
<1>1. /\ DOMAIN q = 1 .. Len(q) /\ Len(q) \in Nat /\ DOMAIN r = 1 .. n
      /\ \A i \in DOMAIN q : r[i] = q[i]
  OBVIOUS
<1>2. R = IF r[n].peer = p THEN P \cup {n} ELSE P
  <2>1. \A i : i \in DOMAIN r <=> i \in DOMAIN q \/ i = n
    BY <1>1
  <2>2. \A i \in DOMAIN q : i \in R <=> i \in P
    BY <1>1, <2>1
  <2>3. n \in R <=> r[n].peer = p
    BY <1>1, <2>1
  <2>4. QED BY <2>1, <2>2, <2>3
<1>3. n \notin P
  BY <1>1
<1>4. IsFiniteSet(P)
  <2>1. P \in SUBSET (1 .. Len(q)) /\ 1 \in Int /\ Len(q) \in Int
    BY <1>1
  <2> HIDE DEF P
  <2>2. QED BY <2>1, FS_Interval, FS_Subset
<1> HIDE DEF P, n
<1>5. Cardinality(P \cup {n}) = Cardinality(P) + 1
  BY <1>3, <1>4, FS_AddElement
<1>6. Cardinality(R) = IF r[n].peer = p THEN Cardinality(P) + 1 ELSE Cardinality(P)
  <2> HIDE DEF R
  <2>1. QED BY <1>2, <1>5
<1>7. QED BY <1>6 DEF PeerCount, P, n

LEMMA PeerCountTail ==
    ASSUME NEW q \in Seq(Packet), NEW r, q # <<>>, r = Tail(q), NEW p
    PROVE  PeerCount(q, p) = IF Head(q).peer = p THEN PeerCount(r, p) + 1 ELSE PeerCount(r, p)
<1> DEFINE P == {i \in DOMAIN q : q[i].peer = p}
           Rest == {i \in DOMAIN q : i # 1 /\ q[i].peer = p}
           R == {i \in DOMAIN r : r[i].peer = p}
           next == [i \in R |-> i + 1]
           last == [i \in Rest |-> i - 1]
<1>1. /\ DOMAIN q = 1 .. Len(q) /\ Len(q) \in Nat /\ 1 \in DOMAIN q
      /\ DOMAIN r = 1 .. Len(q) - 1 /\ q[1] = Head(q)
      /\ \A i \in DOMAIN r : i + 1 \in DOMAIN q /\ r[i] = q[i + 1]
  OBVIOUS
<1>2. ASSUME NEW i \in R PROVE next[i] \in Rest /\ last[next[i]] = i
  BY <1>1
<1>3. ASSUME NEW j \in Rest PROVE last[j] \in R /\ next[last[j]] = j
  <2>1. j - 1 \in DOMAIN r /\ (j - 1) + 1 = j
    BY <1>1
  <2>2. r[j - 1] = q[j]
    BY <1>1, <2>1
  <2>3. QED BY <1>1, <2>1, <2>2
<1>4. next \in [R -> Rest] /\ last \in [Rest -> R]
  BY <1>2, <1>3
<1>5. ExistsBijection(R, Rest)
  <2> HIDE DEF R, Rest, next, last
  <2>1. QED BY <1>2, <1>3, <1>4, BijectionExists
<1>6. IsFiniteSet(R)
  <2>1. R \in SUBSET (1 .. Len(q) - 1) /\ 1 \in Int /\ Len(q) - 1 \in Int
    BY <1>1
  <2> HIDE DEF R
  <2>2. QED BY <2>1, FS_Interval, FS_Subset
<1>7. IsFiniteSet(Rest) /\ Cardinality(Rest) = Cardinality(R)
  <2> HIDE DEF R, Rest
  <2>1. QED BY <1>5, <1>6, FS_Bijection
<1>8. P = (IF Head(q).peer = p THEN Rest \cup {1} ELSE Rest) /\ 1 \notin Rest
  BY <1>1
<1>9. Cardinality(P) = IF Head(q).peer = p THEN Cardinality(R) + 1 ELSE Cardinality(R)
  <2> HIDE DEF P, R, Rest
  <2>1. Cardinality(Rest \cup {1}) = Cardinality(Rest) + 1
    BY <1>7, <1>8, FS_AddElement
  <2>2. QED BY <1>7, <1>8, <2>1
<1>10. QED BY <1>9 DEF PeerCount
-----------------------------------------------------------------------------
(***************************************************************************)
(* What the steps have in common.                                          *)
(***************************************************************************)
LEMMA Bounds == /\ BufCount \in Nat /\ Threshold \in Nat /\ MaxOverlap \in Nat
                /\ MaxFragments \in Nat /\ MaxFragments > 0
                /\ IsFiniteSet(Peer)
BY BoundAssumption, PeerAssumption

LEMMA KnownFacts ==
    ASSUME Shape, NEW p \in Peer
    PROVE  p \in up \/ Known(p) <=> Present(p)
<1>1. \A i \in DOMAIN evq : evq[i] \in Event
  BY DEF Shape
<1>2. ASSUME NEW e \in Event, e.peer = p PROVE e = Con(p) \/ e = Dis(p)
  <2>1. e.kind \notin {"data", "flow", "timer"}
    BY <1>2, EventKinds, EventFacts
  <2>2. QED BY <1>2, <2>1, EventKinds
<1>3. (\E e \in ToSet(evq) : e.peer = p) <=> In(Con(p)) \/ In(Dis(p))
  BY <1>1, <1>2, EventFacts DEF In, ToSet
<1>4. QED BY <1>3 DEF Known, Present

LEMMA InQueueCount ==
    ASSUME NEW p
    PROVE  InQueue(p) = PeerCount(rxq, p) /\ InQueue(p)' = PeerCount(rxq', p)
BY DEF InQueue, PeerCount

LEMMA InQueueType ==
    ASSUME Shape, NEW p
    PROVE  /\ InQueue(p) \in Nat
           /\ ~ Queued(p) => InQueue(p) = 0
           /\ (\A i \in DOMAIN rxq : rxq[i].peer = p) => InQueue(p) = Len(rxq)
<1>1. rxq \in Seq(Packet) /\ InQueue(p) = PeerCount(rxq, p)
  BY DEF Shape, InQueue, PeerCount
<1>2. QED BY <1>1, PeerCountType DEF Queued

LEMMA SamePackets ==
    ASSUME rxq' = rxq
    PROVE  /\ \A p : InQueue(p)' = InQueue(p)
           /\ \A p : Queued(p)' <=> Queued(p)
BY DEF InQueue, Queued

LEMMA AppendPacket ==
    ASSUME Shape, NEW pkt \in Packet, rxq' = Append(rxq, pkt)
    PROVE  /\ rxq' \in Seq(Packet) /\ rxq' # <<>>
           /\ \A p : Queued(p)' <=> Queued(p) \/ p = pkt.peer
           /\ \A p : InQueue(p)' = IF pkt.peer = p THEN InQueue(p) + 1 ELSE InQueue(p)
<1>1. rxq \in Seq(Packet)
  BY DEF Shape
<1>2. /\ rxq' \in Seq(Packet) /\ rxq' # <<>> /\ Len(rxq) \in Nat /\ Len(rxq') = Len(rxq) + 1
      /\ DOMAIN rxq = 1 .. Len(rxq) /\ DOMAIN rxq' = 1 .. Len(rxq) + 1
      /\ rxq'[Len(rxq) + 1] = pkt /\ \A i \in DOMAIN rxq : rxq'[i] = rxq[i]
  BY <1>1
<1>3. ASSUME NEW p PROVE Queued(p)' <=> Queued(p) \/ p = pkt.peer
  BY <1>2 DEF Queued
<1>4. ASSUME NEW p PROVE InQueue(p)' = IF pkt.peer = p THEN InQueue(p) + 1 ELSE InQueue(p)
  <2>1. InQueue(p) = PeerCount(rxq, p) /\ InQueue(p)' = PeerCount(rxq', p)
    BY InQueueCount
  <2>2. PeerCount(rxq', p) = IF pkt.peer = p THEN PeerCount(rxq, p) + 1 ELSE PeerCount(rxq, p)
    <3>1. PICK r : r = rxq'
      OBVIOUS
    <3>2. r \in Seq(Packet) /\ Len(r) = Len(rxq) + 1 /\ \A i \in 1 .. Len(rxq) : r[i] = rxq[i]
      BY <1>2, <3>1
    <3>3. PeerCount(r, p) = IF r[Len(rxq) + 1].peer = p THEN PeerCount(rxq, p) + 1 ELSE PeerCount(rxq, p)
      BY <1>1, <3>2, PeerCountAppend
    <3>4. r[Len(rxq) + 1] = pkt
      BY <1>2, <3>1
    <3>5. QED BY <3>1, <3>3, <3>4
  <2>3. QED BY <2>1, <2>2
<1>5. QED BY <1>2, <1>3, <1>4

LEMMA TakePacket ==
    ASSUME Shape, rxq # <<>>, rxq' = Tail(rxq)
    PROVE  /\ rxq' \in Seq(Packet) /\ Head(rxq) \in Packet
           /\ Queued(Head(rxq).peer)
           /\ \A p : Queued(p)' => Queued(p)
           /\ \A p : InQueue(p) = IF Head(rxq).peer = p THEN InQueue(p)' + 1 ELSE InQueue(p)'
<1>1. rxq \in Seq(Packet)
  BY DEF Shape
<1>2. /\ rxq' \in Seq(Packet) /\ Head(rxq) \in Packet /\ 1 \in DOMAIN rxq /\ rxq[1] = Head(rxq)
      /\ \A i \in DOMAIN rxq' : i + 1 \in DOMAIN rxq /\ rxq'[i] = rxq[i + 1]
  BY <1>1
<1>3. ASSUME NEW p PROVE Queued(p)' => Queued(p)
  BY <1>2 DEF Queued
<1>4. ASSUME NEW p
      PROVE  InQueue(p) = IF Head(rxq).peer = p THEN InQueue(p)' + 1 ELSE InQueue(p)'
  <2>1. InQueue(p) = PeerCount(rxq, p) /\ InQueue(p)' = PeerCount(rxq', p)
    BY InQueueCount
  <2>2. PeerCount(rxq, p) = IF Head(rxq).peer = p THEN PeerCount(rxq', p) + 1 ELSE PeerCount(rxq', p)
    BY <1>1, PeerCountTail
  <2>3. QED BY <2>1, <2>2
<1>5. QED BY <1>2, <1>3, <1>4 DEF Queued

\* The events of the links, and that of the data, are in the queue as they were.
SameOrder == /\ In(Data)' <=> In(Data)
             /\ \A p \in Peer : /\ In(Con(p))' <=> In(Con(p))
                                /\ In(Dis(p))' <=> In(Dis(p))
                                /\ Ahead(Con(p), Dis(p))' <=> Ahead(Con(p), Dis(p))
                                /\ Ahead(Data, Dis(p))' <=> Ahead(Data, Dis(p))
                                /\ Ahead(Con(p), Data)' <=> Ahead(Con(p), Data)

LEMMA OrderKept ==
    ASSUME Order, SameOrder, UNCHANGED <<up, conns, receiving>>,
           \A p \in Peer : Queued(p)' => Queued(p), rxq' # <<>> => rxq # <<>>,
           overlap' = overlap, overlap = 0 => dropped' = dropped
    PROVE  Order'
<1>1. ASSUME NEW p \in Peer PROVE LinkOK(p)' /\ QueueOK(p)'
  BY DEF Order, LinkOK, QueueOK, SameOrder
<1>2. Announced'
  BY DEF Order, Announced, SameOrder
<1>3. \A p \in Peer : Present(p)' <=> Present(p)
  BY DEF SameOrder, Present
<1>4. Alone'
  BY <1>3 DEF Order, Alone, SameOrder, Zero
<1>5. QED BY <1>1, <1>2, <1>4 DEF Order

LEMMA PutKeepsOrder ==
    ASSUME Shape, NEW kind \in {"flow", "timer"}, evq' = Put(kind)
    PROVE  SameOrder
<1>1. /\ \A x : In(x)' <=> In(x) \/ x = Plain(kind)
      /\ \A x, y : Ahead(x, y) => Ahead(x, y)'
      /\ \A x, y : Ahead(x, y)' => Ahead(x, y) \/ y = Plain(kind)
  BY PutFacts
<1>2. Data # Plain(kind) /\ \A p \in Peer : Con(p) # Plain(kind) /\ Dis(p) # Plain(kind)
  BY EventFacts
<1>3. QED BY <1>1, <1>2 DEF SameOrder

LEMMA TakeKeepsOrder ==
    ASSUME Shape, Takes({"flow", "timer"})
    PROVE  SameOrder /\ evq' \in Seq(Event) /\ IsInjective(evq)'
<1>1. /\ Head(evq) \in Event /\ evq' \in Seq(Event) /\ IsInjective(evq)'
      /\ \A x : In(x)' <=> In(x) /\ x # Head(evq)
      /\ \A x, y : Ahead(x, y)' <=> Ahead(x, y) /\ x # Head(evq)
  BY TakeEvent DEF Takes
<1>2. Head(evq) = Plain("flow") \/ Head(evq) = Plain("timer")
  BY <1>1, EventKinds DEF Takes
<1>3. Data # Head(evq) /\ \A p \in Peer : Con(p) # Head(evq) /\ Dis(p) # Head(evq)
  BY <1>2, EventFacts
<1>4. QED BY <1>1, <1>3 DEF SameOrder

LEMMA BuffersKept ==
    ASSUME Buffers, UNCHANGED <<up, conns, credit, unreported, unsent, rxq, held, fragments, completed, dropped>>
    PROVE  Buffers'
<1>1. \A p : InQueue(p)' = InQueue(p)
  BY SamePackets
<1>2. QED BY <1>1 DEF Buffers, FragmentsOK, BuffersOK, Occupied, Conserved

\* A link fills no more buffers than there are.
LEMMA LinkBound ==
    ASSUME Shape, Buffers, NEW p \in Peer
    PROVE  /\ unreported[p] <= BufCount /\ Occupied(p) <= BufCount /\ Occupied(p) \in Nat
           /\ held[p] <= BufCount /\ completed[p] <= BufCount /\ dropped[p] <= BufCount
           /\ unsent[p] <= BufCount
           /\ InQueue(p) + held[p] <= unreported[p] \/ p \notin up
           /\ Total(unreported) <= BufCount /\ credit <= BufCount
<1>1. /\ unreported[p] \in Nat /\ held[p] \in Nat /\ completed[p] \in Nat /\ dropped[p] \in Nat
      /\ unsent[p] \in Nat /\ InQueue(p) \in Nat /\ credit \in Nat
  BY InQueueType DEF Shape, Counter
<1>2. unreported[p] <= Total(unreported) /\ Total(unreported) \in Nat
  BY Bounds, PartOfTotal, UnitsFinite DEF Shape, Counter
<1>3. credit + Total(unreported) = BufCount
  BY DEF Buffers, Conserved
<1>4. Total(unreported) <= BufCount /\ credit <= BufCount /\ unreported[p] <= BufCount
  BY <1>1, <1>2, <1>3, Bounds
<1>5. Occupied(p) = InQueue(p) + held[p] + completed[p]
  BY DEF Occupied
<1>6. \/ p \in up /\ unreported[p] = Occupied(p) + dropped[p] + unsent[p]
      \/ p \notin up /\ unreported[p] = 0 /\ dropped[p] = 0 /\ unsent[p] = 0 /\ Occupied(p) <= BufCount
  BY DEF Buffers, BuffersOK
<1>7. QED BY <1>1, <1>4, <1>5, <1>6, Bounds
-----------------------------------------------------------------------------
(***************************************************************************)
(* The controller.                                                         *)
(***************************************************************************)
LEMMA LinkStartsStep ==
    ASSUME IInv, NEW p \in Peer, LinkStarts(p)
    PROVE  IInv'
<1>1. Shape /\ Order /\ Buffers /\ Sent /\ CountIsExplained /\ ~ resetDue
  BY DEF IInv, LinkStarts, Running
<1>2. ~ Present(p) /\ Con(p) \in Event
  BY <1>1, KnownFacts, EventFacts DEF LinkStarts
<1>3. /\ evq' \in Seq(Event) /\ IsInjective(evq)'
      /\ \A x : In(x)' <=> In(x) \/ x = Con(p)
      /\ \A x, y : Ahead(x, y)' <=> Ahead(x, y) \/ (In(x) /\ y = Con(p))
  <2>1. ~ In(Con(p))
    BY <1>2 DEF Present
  <2>2. evq' = Append(evq, Con(p))
    BY DEF LinkStarts, Con
  <2>3. QED BY <1>1, <1>2, <2>1, <2>2, AppendEvent
<1>4. ASSUME NEW q \in Peer
      PROVE  /\ In(Con(q))' <=> In(Con(q)) \/ q = p
             /\ In(Dis(q))' <=> In(Dis(q))
             /\ Ahead(Con(q), Dis(q))' <=> Ahead(Con(q), Dis(q))
             /\ Ahead(Data, Dis(q))' <=> Ahead(Data, Dis(q))
  BY <1>3, EventFacts
<1>5. In(Data)' <=> In(Data)
  BY <1>3, EventFacts DEF Data
<1>6. Shape'
  BY <1>1, <1>3, Bounds DEF LinkStarts, Shape, l2capVars, flowVars
<1>7. UNCHANGED <<conns, rxq, receiving, dropped>> /\ up' = up \cup {p}
  BY DEF LinkStarts
<1>8. \A q : Queued(q)' <=> Queued(q)
  BY <1>7, SamePackets
<1>9. ASSUME NEW q \in Peer PROVE LinkOK(q)' /\ QueueOK(q)'
  <2>1. LinkOK(q) /\ QueueOK(q)
    BY <1>1 DEF Order
  <2>2. CASE q = p
    BY <1>2, <1>4, <1>7, <2>2 DEF LinkOK, QueueOK, Present
  <2>3. CASE q # p
    BY <1>4, <1>7, <1>8, <2>1, <2>3 DEF LinkOK, QueueOK
  <2>4. QED BY <2>2, <2>3
<1>10. Announced'
  BY <1>1, <1>5, <1>7 DEF Order, Announced
<1>11. ASSUME overlap' = 0
       PROVE  overlap = 0 /\ \A q \in Peer : ~ Present(q)
  BY <1>1, <1>11, KnownFacts DEF LinkStarts
<1>12. Alone'
  <2>1. ASSUME overlap' = 0
        PROVE  /\ dropped' = Zero /\ ~ receiving' /\ ~ In(Data)'
               /\ \A q \in Peer : Present(q)' <=> q = p
               /\ \A q \in Peer : ~ In(Dis(q))'
    <3>1. dropped = Zero /\ ~ receiving /\ ~ In(Data)
      BY <1>1, <1>11, <2>1 DEF Order, Alone
    <3>2. QED BY <1>4, <1>5, <1>7, <1>11, <2>1, <3>1 DEF Present
  <2>2. QED BY <2>1 DEF Alone, Zero
<1>13. Buffers'
  <2>1. UNCHANGED <<conns, credit, unreported, unsent, rxq, held, fragments, completed, dropped>>
    BY DEF LinkStarts, l2capVars, flowVars
  <2>2. \A q : InQueue(q)' = InQueue(q)
    BY <2>1, SamePackets
  <2>3. ASSUME NEW q \in Peer, q # p PROVE BuffersOK(q)'
    BY <1>1, <1>7, <2>1, <2>2, <2>3 DEF Buffers, BuffersOK, Occupied
  <2>4. /\ unreported[p] = 0 /\ dropped[p] = 0 /\ unsent[p] = 0
        /\ held[p] = 0 /\ completed[p] = 0 /\ InQueue(p) = 0
    <3>1. p \notin up /\ p \notin conns /\ ~ Queued(p)
      BY <1>1, <1>2 DEF Present, Order, QueueOK
    <3>2. QED BY <1>1, <3>1, InQueueType DEF Buffers, BuffersOK
  <2>5. BuffersOK(p)'
    BY <1>7, <2>1, <2>2, <2>4 DEF BuffersOK, Occupied
  <2>6. QED BY <1>1, <2>1, <2>3, <2>5 DEF Buffers, FragmentsOK, Conserved
<1>14. CountIsExplained'
  <2>1. UNCHANGED <<completed, num, resetDue, leftover>>
    BY DEF LinkStarts, flowVars
  <2>2. QED BY <1>1, <2>1 DEF CountIsExplained
<1>15. Sent'
  <2>1. overlap' = 1 \/ overlap' = overlap
    BY DEF LinkStarts
  <2>2. unsent' = unsent
    BY DEF LinkStarts
  <2>3. QED BY <1>1, <2>1, <2>2 DEF Sent, Zero
<1>16. QED BY <1>6, <1>9, <1>10, <1>12, <1>13, <1>14, <1>15 DEF IInv, Order

LEMMA LinkEndsStep ==
    ASSUME IInv, NEW p \in Peer, LinkEnds(p)
    PROVE  IInv'
<1>1. Shape /\ Order /\ Buffers /\ Sent /\ CountIsExplained /\ ~ resetDue
  BY DEF IInv, LinkEnds, Running
<1>2. /\ p \in up /\ up' = up \ {p} /\ credit' = credit + unreported[p]
      /\ UNCHANGED <<conns, rxq, receiving, held, fragments, completed, num, timer, resetDue, leftover, overlap>>
  BY DEF LinkEnds, l2capVars, flowVars
<1>3. ~ In(Dis(p)) /\ (p \in conns \/ In(Con(p))) /\ Dis(p) \in Event
  BY <1>1, <1>2, EventFacts DEF Order, LinkOK
<1>4. /\ evq' \in Seq(Event) /\ IsInjective(evq)'
      /\ \A x : In(x)' <=> In(x) \/ x = Dis(p)
      /\ \A x, y : Ahead(x, y)' <=> Ahead(x, y) \/ (In(x) /\ y = Dis(p))
  <2>1. evq' = Append(evq, Dis(p))
    BY DEF LinkEnds, Dis
  <2>2. QED BY <1>1, <1>3, <2>1, AppendEvent
<1>5. ASSUME NEW q \in Peer
      PROVE  /\ In(Con(q))' <=> In(Con(q))
             /\ In(Dis(q))' <=> In(Dis(q)) \/ q = p
             /\ Ahead(Con(q), Dis(q))' <=> Ahead(Con(q), Dis(q)) \/ (In(Con(q)) /\ q = p)
             /\ Ahead(Data, Dis(q))' <=> Ahead(Data, Dis(q)) \/ (In(Data) /\ q = p)
             /\ Ahead(Con(q), Data)' <=> Ahead(Con(q), Data)
  BY <1>4, EventFacts DEF Data
<1>6. In(Data)' <=> In(Data)
  BY <1>4, EventFacts DEF Data
<1>7. /\ unreported' \in Counter /\ unreported'[p] = 0
      /\ \A q \in Peer : q # p => unreported'[q] = unreported[q]
      /\ dropped' \in Counter /\ dropped'[p] = 0
      /\ \A q \in Peer : q # p => dropped'[q] = dropped[q]
      /\ unsent' \in Counter /\ unsent'[p] = 0
      /\ \A q \in Peer : q # p => unsent'[q] = unsent[q]
  BY <1>1 DEF LinkEnds, Shape, Counter
<1>8. Shape'
  <2>1. unreported[p] \in Nat
    BY <1>1 DEF Shape, Counter
  <2>2. QED BY <1>1, <1>2, <1>4, <1>7, <2>1 DEF Shape
<1>9. \A q : Queued(q)' <=> Queued(q)
  BY <1>2, SamePackets
<1>10. ASSUME NEW q \in Peer PROVE LinkOK(q)' /\ QueueOK(q)'
  <2>1. LinkOK(q) /\ QueueOK(q)
    BY <1>1 DEF Order
  <2>2. CASE q = p
    <3>1. LinkOK(q)'
      BY <1>2, <1>3, <1>5, <2>1, <2>2 DEF LinkOK
    <3>2. Queued(p) => receiving \/ In(Data)
      BY <1>1 DEF Order, Announced, Queued
    <3>3. QED BY <1>2, <1>5, <1>9, <2>2, <3>1, <3>2 DEF QueueOK
  <2>3. CASE q # p
    BY <1>2, <1>5, <1>9, <2>1, <2>3 DEF LinkOK, QueueOK
  <2>4. QED BY <2>2, <2>3
<1>11. Announced'
  BY <1>1, <1>2, <1>6 DEF Order, Announced
<1>12. Alone'
  <2>1. \A q \in Peer : Present(q)' <=> Present(q)
    BY <1>2, <1>3, <1>5 DEF Present
  <2>2. Present(p)
    BY <1>2 DEF Present
  <2>3. ASSUME dropped = Zero PROVE dropped' = Zero
    BY <1>7, <2>3 DEF Zero, Counter
  <2>4. QED BY <1>1, <1>2, <1>5, <1>6, <2>1, <2>2, <2>3 DEF Order, Alone, Zero
<1>13. Buffers'
  <2>1. \A q : InQueue(q)' = InQueue(q)
    BY <1>2, SamePackets
  <2>2. ASSUME NEW q \in Peer, q # p PROVE BuffersOK(q)'
    BY <1>1, <1>2, <1>7, <2>1, <2>2 DEF Buffers, BuffersOK, Occupied
  <2>3. BuffersOK(p)'
    <3>1. Occupied(p) <= BufCount
      BY <1>1, LinkBound
    <3>2. QED BY <1>1, <1>2, <1>7, <2>1, <3>1 DEF Buffers, BuffersOK, Occupied
  <2>4. Conserved'
    <3>1. unreported \in [Peer -> Nat] /\ unreported' \in [Peer -> Nat]
      BY <1>1, <1>7 DEF Shape, Counter
    <3>2. Total(unreported') + unreported[p] = Total(unreported) + unreported'[p]
      BY <1>7, <3>1, Bounds, TotalReplaced
    <3>3. Total(unreported') \in Nat /\ Total(unreported) \in Nat
      BY <3>1, Bounds, UnitsFinite
    <3>4. unreported[p] \in Nat /\ credit \in Nat /\ BufCount \in Nat
      BY <1>1, <3>1, Bounds DEF Shape
    <3>5. credit + Total(unreported) = BufCount
      BY <1>1 DEF Buffers, Conserved
    <3>6. credit' + Total(unreported') = BufCount
      BY <1>2, <1>7, <3>2, <3>3, <3>4, <3>5
    <3>7. Total(unreported)' = Total(unreported')
      BY DEF Total, Units
    <3>8. QED BY <3>6, <3>7 DEF Conserved
  <2>5. QED BY <1>1, <1>2, <2>2, <2>3, <2>4 DEF Buffers, FragmentsOK
<1>14. CountIsExplained'
  BY <1>1, <1>2 DEF CountIsExplained
<1>15. Sent'
  <2>1. ASSUME unsent = Zero PROVE unsent' = Zero
    BY <1>7, <2>1 DEF Zero, Counter
  <2>2. QED BY <1>1, <1>2, <2>1 DEF Sent, Zero
<1>16. QED BY <1>8, <1>10, <1>11, <1>12, <1>13, <1>14, <1>15 DEF IInv, Order

\* A controller that keeps to its credit finds a buffer as long as there is one link.
LEMMA BufferFound ==
    ASSUME IInv, overlap = 0, NEW p \in Peer, p \in up, credit > 0
    PROVE  Used < BufCount
<1>1. Shape /\ Order /\ Buffers
  BY DEF IInv
<1>2. \A q \in Peer : Present(q) => q = p
  <2>1. Present(p)
    BY DEF Present
  <2>2. QED BY <1>1, <2>1 DEF Order, Alone
<1>3. \A i \in DOMAIN rxq : rxq[i].peer = p
  <2>1. ASSUME NEW i \in DOMAIN rxq PROVE rxq[i].peer \in Peer /\ Queued(rxq[i].peer)
    <3>1. rxq[i] \in Packet
      BY <1>1 DEF Shape
    <3>2. QED BY <3>1 DEF Packet, Queued
  <2>2. \A q \in Peer : Queued(q) => Present(q)
    BY <1>1 DEF Order, QueueOK, Present
  <2>3. QED BY <1>2, <2>1, <2>2
<1>4. Len(rxq) = InQueue(p)
  BY <1>1, <1>3, InQueueType
<1>5. Total(held) = held[p]
  <2>1. \A q \in Peer : q # p => held[q] = 0
    BY <1>1, <1>2 DEF Present, Buffers, BuffersOK
  <2>2. held \in [Peer -> Nat]
    BY <1>1 DEF Shape, Counter
  <2>3. QED BY <2>1, <2>2, TotalOne
<1>6. unreported[p] = InQueue(p) + held[p] + completed[p] + dropped[p] + unsent[p]
  BY <1>1 DEF Buffers, BuffersOK, Occupied
<1>7. /\ InQueue(p) \in Nat /\ held[p] \in Nat /\ completed[p] \in Nat /\ dropped[p] \in Nat
      /\ unsent[p] \in Nat /\ unreported[p] \in Nat /\ credit \in Nat /\ BufCount \in Nat
  BY <1>1, Bounds, InQueueType DEF Shape, Counter
<1>8. unreported[p] <= Total(unreported) /\ Total(unreported) \in Nat
  <2>1. unreported \in [Peer -> Nat]
    BY <1>1 DEF Shape, Counter
  <2>2. QED BY <2>1, Bounds, PartOfTotal, UnitsFinite
<1>9. credit + Total(unreported) = BufCount
  BY <1>1 DEF Buffers, Conserved
<1>10. QED BY <1>4, <1>5, <1>6, <1>7, <1>8, <1>9 DEF Used

LEMMA ReceiveStep ==
    ASSUME IInv, NEW pkt \in Packet, Receive(pkt)
    PROVE  IInv'
<1> DEFINE p == pkt.peer
<1>1. Shape /\ Order /\ Buffers /\ Sent /\ CountIsExplained /\ ~ resetDue
  BY DEF IInv, Receive, Running
<1>2. /\ p \in Peer /\ p \in up /\ credit > 0 /\ credit' = credit - 1 /\ overlap <= MaxOverlap
      /\ overlap' = (IF overlap = 0 THEN 0 ELSE overlap + 1)
      /\ UNCHANGED <<up, unsent, receiving, conns, held, fragments, completed, num, timer, resetDue, leftover>>
  BY DEF Receive, Packet, l2capVars, flowVars
<1>3. /\ unreported' \in Counter /\ unreported'[p] = unreported[p] + 1
      /\ \A q \in Peer : q # p => unreported'[q] = unreported[q]
  BY <1>1, <1>2 DEF Receive, Shape, Counter
<1>4. Conserved'
  <2>1. unreported \in [Peer -> Nat] /\ unreported' \in [Peer -> Nat]
    BY <1>1, <1>3 DEF Shape, Counter
  <2>2. Total(unreported') + unreported[p] = Total(unreported) + unreported'[p]
    BY <1>2, <1>3, <2>1, Bounds, TotalReplaced
  <2>3. Total(unreported') \in Nat /\ Total(unreported) \in Nat
    BY <2>1, Bounds, UnitsFinite
  <2>4. unreported[p] \in Nat /\ credit \in Nat /\ BufCount \in Nat
    BY <1>1, <1>2, <2>1, Bounds DEF Shape
  <2>5. credit + Total(unreported) = BufCount
    BY <1>1 DEF Buffers, Conserved
  <2>6. credit' + Total(unreported') = BufCount
    BY <1>2, <1>3, <2>2, <2>3, <2>4, <2>5
  <2>7. Total(unreported)' = Total(unreported')
    BY DEF Total, Units
  <2>8. QED BY <2>6, <2>7 DEF Conserved
<1>5. CountIsExplained' /\ Sent'
  <2>1. overlap \in Nat /\ (overlap' = 0 <=> overlap = 0) /\ overlap' \in Nat
    BY <1>1, <1>2, Bounds DEF Shape
  <2>2. QED BY <1>1, <1>2, <2>1 DEF CountIsExplained, Sent, Zero
<1>6. credit' \in Nat /\ overlap' \in 0 .. MaxOverlap + 1
  BY <1>1, <1>2, Bounds DEF Shape
<1>7. ASSUME NEW q \in Peer
      PROVE  /\ unreported[q] \in Nat /\ dropped[q] \in Nat /\ held[q] \in Nat /\ completed[q] \in Nat
             /\ InQueue(q) \in Nat /\ unsent[q] \in Nat
  BY <1>1, InQueueType DEF Shape, Counter
<1>8. CASE Used < BufCount
  <2>1. rxq' = Append(rxq, pkt) /\ evq' = Put("data") /\ dropped' = dropped
    BY <1>8 DEF Receive
  <2>2. /\ rxq' \in Seq(Packet)
        /\ \A q : Queued(q)' <=> Queued(q) \/ q = p
        /\ \A q : InQueue(q)' = IF p = q THEN InQueue(q) + 1 ELSE InQueue(q)
    BY <1>1, <2>1, AppendPacket
  <2>3. /\ evq' \in Seq(Event) /\ IsInjective(evq)'
        /\ \A x : In(x)' <=> In(x) \/ x = Data
        /\ \A x, y : Ahead(x, y) => Ahead(x, y)'
        /\ \A x, y : Ahead(x, y)' => Ahead(x, y) \/ y = Data
        /\ ~ In(Data) => \A x : In(x) => Ahead(x, Data)'
    BY <1>1, <2>1, PutFacts DEF Data
  <2>4. ASSUME NEW q \in Peer
        PROVE  /\ In(Con(q))' <=> In(Con(q))
               /\ In(Dis(q))' <=> In(Dis(q))
               /\ Ahead(Con(q), Dis(q))' <=> Ahead(Con(q), Dis(q))
               /\ Ahead(Data, Dis(q))' <=> Ahead(Data, Dis(q))
               /\ In(Con(q)) /\ (In(Data) => Ahead(Con(q), Data)) => Ahead(Con(q), Data)'
    BY <2>3, EventFacts DEF Data
  <2>5. Shape'
    BY <1>1, <1>2, <1>3, <1>6, <2>1, <2>2, <2>3 DEF Shape
  <2>6. ASSUME NEW q \in Peer PROVE LinkOK(q)' /\ QueueOK(q)'
    <3>1. LinkOK(q) /\ QueueOK(q)
      BY <1>1 DEF Order
    <3>2. QED BY <1>2, <2>2, <2>4, <3>1 DEF LinkOK, QueueOK
  <2>7. Announced'
    BY <2>3 DEF Announced
  <2>8. Alone'
    <3>1. \A q \in Peer : Present(q)' <=> Present(q)
      BY <1>2, <2>4 DEF Present
    <3>2. Present(p) /\ ~ In(Dis(p))
      BY <1>1, <1>2 DEF Present, Order, LinkOK
    <3>3. SUFFICES ASSUME overlap' = 0
                   PROVE  /\ dropped = Zero
                          /\ \A q, r \in Peer : Present(q) /\ Present(r) => q = r
                          /\ \A q \in Peer : In(Con(q)) => ~ receiving /\ Ahead(Con(q), Data)'
                          /\ \A q \in Peer : ~ In(Dis(q))
      BY <1>2, <2>1, <2>4, <3>1, <3>2 DEF Alone, Zero
    <3>4. overlap = 0
      BY <1>1, <1>2, <3>3 DEF Shape
    <3>5. /\ dropped = Zero
          /\ \A q, r \in Peer : Present(q) /\ Present(r) => q = r
          /\ \A q \in Peer : In(Con(q)) => ~ receiving /\ (In(Data) => Ahead(Con(q), Data))
      BY <1>1, <3>4 DEF Order, Alone
    <3>6. \A q \in Peer : ~ In(Dis(q))
      BY <1>2, <3>2, <3>5 DEF Present
    <3>7. QED BY <2>4, <3>5, <3>6
  <2>9. ASSUME NEW q \in Peer PROVE BuffersOK(q)'
    <3>1. BuffersOK(q)
      BY <1>1 DEF Buffers
    <3>2. CASE q = p
      <4>1. InQueue(p)' = InQueue(p) + 1
        BY <2>2
      <4>2. Occupied(p)' = Occupied(p) + 1
        BY <1>2, <1>7, <4>1 DEF Occupied
      <4>3. unreported[p] = Occupied(p) + dropped[p] + unsent[p]
        BY <1>2, <3>1, <3>2 DEF BuffersOK
      <4>4. Occupied(p) \in Nat
        BY <1>2, <1>7 DEF Occupied
      <4>5. unreported'[p] = Occupied(p)' + dropped[p] + unsent[p]
        BY <1>2, <1>3, <1>7, <4>2, <4>3, <4>4
      <4>6. QED BY <1>2, <2>1, <3>1, <3>2, <4>5 DEF BuffersOK
    <3>3. CASE q # p
      <4>1. InQueue(q)' = InQueue(q)
        BY <2>2, <3>3
      <4>2. QED BY <1>2, <1>3, <2>1, <3>1, <3>3, <4>1 DEF BuffersOK, Occupied
    <3>4. QED BY <3>2, <3>3
  <2>10. Buffers'
    BY <1>1, <1>2, <1>4, <2>9 DEF Buffers, FragmentsOK
  <2>11. QED BY <1>5, <2>5, <2>6, <2>7, <2>8, <2>10 DEF IInv, Order
<1>9. CASE ~ (Used < BufCount)
  <2>1. UNCHANGED <<rxq, evq>>
    BY <1>9 DEF Receive
  <2>2. /\ dropped' \in Counter /\ dropped'[p] = dropped[p] + 1
        /\ \A q \in Peer : q # p => dropped'[q] = dropped[q]
    <3>1. dropped' = [dropped EXCEPT ![p] = dropped[p] + 1]
      BY <1>9 DEF Receive
    <3>2. QED BY <1>1, <1>2, <3>1 DEF Shape, Counter
  <2>3. overlap # 0 /\ overlap' # 0
    BY <1>1, <1>2, <1>9, BufferFound DEF Shape
  <2>4. /\ \A x : In(x)' <=> In(x)
        /\ \A x, y : Ahead(x, y)' <=> Ahead(x, y)
        /\ \A q : Queued(q)' <=> Queued(q)
        /\ \A q : InQueue(q)' = InQueue(q)
    BY <2>1, SameEvents, SamePackets
  <2>5. Shape'
    BY <1>1, <1>2, <1>3, <1>6, <2>1, <2>2 DEF Shape, IsInjective
  <2>6. ASSUME NEW q \in Peer PROVE LinkOK(q)' /\ QueueOK(q)'
    <3>1. LinkOK(q) /\ QueueOK(q)
      BY <1>1 DEF Order
    <3>2. QED BY <1>2, <2>4, <3>1 DEF LinkOK, QueueOK
  <2>7. Announced' /\ Alone'
    BY <1>1, <1>2, <2>1, <2>3, <2>4 DEF Order, Announced, Alone
  <2>8. ASSUME NEW q \in Peer PROVE BuffersOK(q)'
    <3>1. BuffersOK(q)
      BY <1>1 DEF Buffers
    <3>2. CASE q = p
      <4>1. unreported[p] = Occupied(p) + dropped[p] + unsent[p] /\ Occupied(p) \in Nat
        BY <1>2, <1>7, <3>1, <3>2 DEF BuffersOK, Occupied
      <4>2. Occupied(p)' = Occupied(p)
        BY <1>2, <2>4 DEF Occupied
      <4>3. unreported'[p] = Occupied(p)' + dropped'[p] + unsent'[p]
        BY <1>2, <1>3, <1>7, <2>2, <4>1, <4>2
      <4>4. QED BY <1>2, <3>1, <3>2, <4>3 DEF BuffersOK
    <3>3. CASE q # p
      BY <1>2, <1>3, <2>2, <2>4, <3>1, <3>3 DEF BuffersOK, Occupied
    <3>4. QED BY <3>2, <3>3
  <2>9. Buffers'
    BY <1>1, <1>2, <1>4, <2>8 DEF Buffers, FragmentsOK
  <2>10. QED BY <1>5, <2>5, <2>6, <2>7, <2>9 DEF IInv, Order
<1>10. QED BY <1>8, <1>9
-----------------------------------------------------------------------------
(***************************************************************************)
(* Reports.                                                                *)
(***************************************************************************)
LEMMA TimerExpiresStep ==
    ASSUME IInv, TimerExpires
    PROVE  IInv'
<1>1. Shape /\ Order /\ Buffers /\ Sent /\ CountIsExplained
  BY DEF IInv
<1>2. /\ evq' = Put("timer") /\ timer' = FALSE
      /\ UNCHANGED <<up, credit, unreported, unsent, rxq, receiving, conns, held, fragments, completed, num,
                     resetDue, leftover, dropped, overlap>>
  BY DEF TimerExpires, linkVars, l2capVars
<1>3. SameOrder /\ evq' \in Seq(Event) /\ IsInjective(evq)'
  BY <1>1, <1>2, PutKeepsOrder, PutFacts
<1>4. Order'
  <2>1. \A p \in Peer : Queued(p)' => Queued(p)
    BY <1>2, SamePackets
  <2>2. QED BY <1>1, <1>2, <1>3, <2>1, OrderKept
<1>5. Buffers'
  BY <1>1, <1>2, BuffersKept
<1>6. Shape' /\ Sent' /\ CountIsExplained'
  BY <1>1, <1>2, <1>3 DEF Shape, Sent, Zero, CountIsExplained
<1>7. QED BY <1>4, <1>5, <1>6 DEF IInv

\* What a report leaves: the buffers of a link are accounted for as before, and what
\* was counted is still counted or not.
Reported(gone) ==
    /\ credit' \in Nat /\ unreported' \in Counter /\ unsent' \in Counter /\ completed' \in Counter
    /\ credit' + Total(unreported') = BufCount
    /\ \A p \in Peer : p \notin up => unreported'[p] = 0 /\ unsent'[p] = unsent[p]
    /\ \A p \in Peer : p \in up =>
          unreported'[p] = InQueue(p) + held[p] + completed'[p] + dropped[p] + unsent'[p]
    /\ \A p \in Peer : completed'[p] = 0 \/ completed'[p] = completed[p]
    /\ \A p \in gone : completed'[p] = 0
    /\ Total(completed') \in Nat /\ Total(completed') <= Total(completed)

LEMMA ReportKinds ==
    ASSUME NEW gone, Report(gone) \/ ReportFails(gone)
    PROVE  \E sent \in SUBSET Peer, lost \in SUBSET Peer :
              /\ Reports(sent, lost, gone) /\ sent \cap lost = {}
              /\ \A r \in lost : completed[r] > 0
<1>1. CASE Report(gone)
  <2>1. Reports(Peer, {}, gone) /\ Peer \cap {} = {}
    BY <1>1 DEF Report
  <2>2. QED BY <2>1
<1>2. CASE ReportFails(gone)
  <2>1. PICK p \in Peer : \E sent \in SUBSET (Peer \ {p}) : completed[p] > 0 /\ Reports(sent, {p}, gone)
    BY <1>2 DEF ReportFails
  <2>2. PICK sent \in SUBSET (Peer \ {p}) : completed[p] > 0 /\ Reports(sent, {p}, gone)
    BY <2>1
  <2>3. sent \in SUBSET Peer /\ {p} \in SUBSET Peer /\ sent \cap {p} = {}
    BY <2>2
  <2>4. QED BY <2>2, <2>3
<1>3. QED BY <1>1, <1>2

LEMMA ReportFacts ==
    ASSUME Shape, Buffers, NEW sent \in SUBSET Peer, NEW lost \in SUBSET Peer, sent \cap lost = {},
           NEW gone \in SUBSET Peer, gone \cap up = {}, Reports(sent, lost, gone)
    PROVE  /\ Reported(gone)
           /\ \A p \in Peer : p \notin lost => unsent'[p] = unsent[p]
           /\ sent = Peer => completed' = Zero
<1> DEFINE part == [p \in Peer |-> IF p \in up \cap sent THEN completed[p] ELSE 0]
           rest == [p \in Peer |-> unreported[p] - IF p \in up \cap sent THEN completed[p] ELSE 0]
           failed == [p \in Peer |-> unsent[p] + IF p \in up \cap lost THEN completed[p] ELSE 0]
           counted == [p \in Peer |-> IF p \in sent \cup lost \cup gone THEN 0 ELSE completed[p]]
           cleared == [p \in Peer |-> IF p \in sent \cup lost \cup gone THEN completed[p] ELSE 0]
<1>1. /\ credit' = credit + Total([p \in up \cap sent |-> completed[p]]) /\ unreported' = rest
      /\ unsent' = failed /\ completed' = counted
      /\ up \in SUBSET Peer /\ credit \in Nat /\ BufCount \in Nat
      /\ unreported \in [Peer -> Nat] /\ completed \in [Peer -> Nat] /\ unsent \in [Peer -> Nat]
      /\ credit + Total(unreported) = BufCount
  BY Bounds DEF Shape, Counter, Reports, Cleared, Buffers, Conserved
<1>2. ASSUME NEW p \in Peer
      PROVE  /\ unreported[p] \in Nat /\ dropped[p] \in Nat /\ held[p] \in Nat /\ completed[p] \in Nat
             /\ InQueue(p) \in Nat /\ unsent[p] \in Nat
  BY InQueueType DEF Shape, Counter
<1>3. ASSUME NEW p \in Peer, p \in up
      PROVE  unreported[p] = InQueue(p) + held[p] + completed[p] + dropped[p] + unsent[p]
  BY <1>3 DEF Buffers, BuffersOK, Occupied
<1>4. /\ rest \in [Peer -> Nat] /\ part \in [Peer -> Nat] /\ failed \in [Peer -> Nat]
      /\ counted \in [Peer -> Nat] /\ cleared \in [Peer -> Nat]
  <2>1. ASSUME NEW p \in Peer, p \in up \cap sent PROVE unreported[p] - completed[p] \in Nat
    BY <1>2, <1>3, <2>1
  <2>2. QED BY <1>2, <2>1
<1>5. /\ \A p \in Peer : unreported[p] = part[p] + rest[p]
      /\ \A p \in Peer : completed[p] = counted[p] + cleared[p]
  <2>1. ASSUME NEW p \in Peer PROVE unreported[p] = part[p] + rest[p]
    <3>1. CASE p \in up \cap sent
      <4>1. part[p] = completed[p] /\ rest[p] = unreported[p] - completed[p]
        BY <3>1
      <4>2. QED BY <1>2, <4>1
    <3>2. CASE p \notin up \cap sent
      <4>1. part[p] = 0 /\ rest[p] = unreported[p]
        BY <1>2, <3>2
      <4>2. QED BY <1>2, <4>1
    <3>3. QED BY <3>1, <3>2
  <2>2. \A p \in Peer : completed[p] = counted[p] + cleared[p]
    BY <1>2
  <2>3. QED BY <2>1, <2>2
<1>6. Total([p \in up \cap sent |-> completed[p]]) = Total(part)
  <2>1. \A p \in Peer : p \notin up \cap sent => part[p] = 0
    OBVIOUS
  <2>2. [p \in up \cap sent |-> completed[p]] = [p \in up \cap sent |-> part[p]]
    BY <1>1
  <2>3. up \cap sent \in SUBSET Peer
    OBVIOUS
  <2> HIDE DEF part
  <2>4. Total([p \in up \cap sent |-> part[p]]) = Total(part)
    BY <1>1, <1>4, <2>1, <2>3, TotalOverPart
  <2>5. QED BY <2>2, <2>4
<1>7. ASSUME NEW p \in Peer, p \notin up PROVE rest[p] = 0 /\ failed[p] = unsent[p]
  <2>1. unreported[p] = 0
    BY <1>7 DEF Buffers, BuffersOK
  <2>2. QED BY <1>2, <1>7, <2>1
<1>8. ASSUME NEW p \in Peer, p \in up
      PROVE  rest[p] = InQueue(p) + held[p] + counted[p] + dropped[p] + failed[p]
  <2>1. p \notin gone
    BY <1>8
  <2>2. unreported[p] = InQueue(p) + held[p] + completed[p] + dropped[p] + unsent[p]
    BY <1>3, <1>8
  <2>3. CASE p \in sent
    <3>1. rest[p] = unreported[p] - completed[p] /\ counted[p] = 0 /\ failed[p] = unsent[p]
      BY <1>2, <1>8, <2>3
    <3>2. QED BY <1>2, <2>2, <3>1
  <2>4. CASE p \in lost
    <3>1. rest[p] = unreported[p] /\ counted[p] = 0 /\ failed[p] = unsent[p] + completed[p]
      BY <1>2, <1>8, <2>4
    <3>2. QED BY <1>2, <2>2, <3>1
  <2>5. CASE p \notin sent \cup lost
    <3>1. rest[p] = unreported[p] /\ counted[p] = completed[p] /\ failed[p] = unsent[p]
      BY <1>2, <2>1, <2>5
    <3>2. QED BY <1>2, <2>2, <3>1
  <2>6. QED BY <2>3, <2>4, <2>5
<1>9. /\ \A p \in Peer : p \notin lost => failed[p] = unsent[p]
      /\ \A p \in Peer : counted[p] = 0 \/ counted[p] = completed[p]
      /\ \A p \in gone : counted[p] = 0
      /\ sent = Peer => counted = Zero
  BY <1>2 DEF Zero
<1> HIDE DEF part, rest, failed, counted, cleared
<1>10. Total(unreported) = Total(part) + Total(rest) /\ Total(completed) = Total(counted) + Total(cleared)
  BY <1>1, <1>4, <1>5, Bounds, TotalSum
<1>11. /\ Total(part) \in Nat /\ Total(rest) \in Nat /\ Total(counted) \in Nat /\ Total(cleared) \in Nat
  BY <1>4, Bounds, UnitsFinite
<1>12. credit' \in Nat /\ credit' + Total(rest) = BufCount
  BY <1>1, <1>6, <1>10, <1>11
<1>13. Total(counted) <= Total(completed)
  BY <1>10, <1>11
<1>14. Reported(gone)
  BY <1>1, <1>4, <1>7, <1>8, <1>9, <1>11, <1>12, <1>13 DEF Reported, Counter
<1>15. QED BY <1>1, <1>9, <1>14

\* What a report keeps of the invariant, apart from what else its caller does.
LEMMA ReportKeeps ==
    ASSUME Shape, Buffers, NEW gone \in SUBSET Peer, Reported(gone), UNCHANGED <<up, rxq, dropped>>,
           NEW q \in Peer, q \notin gone, held'[q] = held[q], fragments'[q] = fragments[q],
           q \in conns' <=> q \in conns
    PROVE  BuffersOK(q)' /\ FragmentsOK(q)'
<1>1. InQueue(q)' = InQueue(q)
  BY SamePackets
<1>2. /\ InQueue(q) \in Nat /\ held[q] \in Nat /\ completed[q] \in Nat /\ dropped[q] \in Nat
      /\ unsent[q] \in Nat /\ unsent'[q] \in Nat /\ completed'[q] \in Nat /\ BufCount \in Nat
  BY Bounds, InQueueType DEF Shape, Counter, Reported
<1>3. BuffersOK(q) /\ FragmentsOK(q)
  BY DEF Buffers
<1>4. completed'[q] = 0 \/ completed'[q] = completed[q]
  BY DEF Reported
<1>5. CASE q \in up
  <2>1. unreported'[q] = InQueue(q) + held[q] + completed'[q] + dropped[q] + unsent'[q]
    BY <1>5 DEF Reported
  <2>2. q \notin conns => completed[q] = 0 /\ held[q] = 0
    BY <1>3 DEF BuffersOK
  <2>3. QED BY <1>1, <1>2, <1>3, <1>4, <1>5, <2>1, <2>2 DEF BuffersOK, FragmentsOK, Occupied
<1>6. CASE q \notin up
  <2>1. unreported'[q] = 0 /\ unsent'[q] = unsent[q]
    BY <1>6 DEF Reported
  <2>2. /\ dropped[q] = 0 /\ unsent[q] = 0 /\ InQueue(q) + held[q] + completed[q] <= BufCount
        /\ q \notin conns => completed[q] = 0 /\ held[q] = 0
    BY <1>3, <1>6 DEF BuffersOK, Occupied
  <2>3. InQueue(q) + held[q] + completed'[q] <= BufCount
    BY <1>2, <1>4, <2>2
  <2>4. QED BY <1>1, <1>3, <1>4, <1>6, <2>1, <2>2, <2>3 DEF BuffersOK, FragmentsOK, Occupied
<1>7. QED BY <1>5, <1>6

LEMMA FlowEventStep ==
    ASSUME IInv, FlowEvent
    PROVE  IInv'
<1>1. Shape /\ Order /\ Buffers /\ Sent /\ CountIsExplained /\ ~ resetDue
  BY DEF IInv, FlowEvent, Takes, Running
<1>2. /\ num' = 0 /\ leftover' = 0
      /\ UNCHANGED <<up, rxq, receiving, conns, held, fragments, timer, dropped, overlap>>
  BY DEF FlowEvent, NumAfterReport, l2capVars
<1>3. SameOrder /\ evq' \in Seq(Event) /\ IsInjective(evq)'
  BY <1>1, TakeKeepsOrder DEF FlowEvent
<1>4. Order'
  <2>1. \A p \in Peer : Queued(p)' => Queued(p)
    BY <1>2, SamePackets
  <2>2. QED BY <1>1, <1>2, <1>3, <2>1, OrderKept
<1>5. Total(completed)' = Total(completed') /\ Total(unreported)' = Total(unreported')
  BY DEF Total, Units
<1>6. ASSUME NEW sent \in SUBSET Peer, NEW lost \in SUBSET Peer, sent \cap lost = {}, Reports(sent, lost, {}),
             \/ sent = Peer /\ lost = {} /\ resetDue' = resetDue
             \/ resetDue' = TRUE
      PROVE  IInv'
  <2>1. /\ Reported({}) /\ \A p \in Peer : p \notin lost => unsent'[p] = unsent[p]
        /\ sent = Peer => completed' = Zero
    BY <1>1, <1>6, ReportFacts
  <2>2. \A q \in Peer : BuffersOK(q)' /\ FragmentsOK(q)'
    BY <1>1, <1>2, <2>1, ReportKeeps
  <2>3. Buffers'
    BY <1>5, <2>1, <2>2 DEF Buffers, Conserved, Reported
  <2>4. Shape'
    BY <1>1, <1>2, <1>3, <1>6, <2>1 DEF Shape, Reported
  <2>5. Sent'
    <3>1. ASSUME lost = {} PROVE unsent' = unsent
      BY <1>1, <2>1, <3>1 DEF Reported, Shape, Counter
    <3>2. QED BY <1>1, <1>2, <1>6, <3>1 DEF Sent, Zero
  <2>6. CountIsExplained'
    <3>1. sent = Peer => Total(completed') = 0
      <4>1. Zero \in [Peer -> Nat] /\ \A p \in Peer : Zero[p] = 0
        BY DEF Zero
      <4>2. Total(Zero) = 0
        BY <4>1, TotalZero
      <4>3. QED BY <2>1, <4>2
    <3>2. QED BY <1>1, <1>2, <1>5, <1>6, <3>1 DEF CountIsExplained
  <2>7. QED BY <1>4, <2>3, <2>4, <2>5, <2>6 DEF IInv
<1>7. CASE Report({}) /\ resetDue' = resetDue
  <2>1. Peer \in SUBSET Peer /\ {} \in SUBSET Peer /\ Peer \cap {} = {}
    OBVIOUS
  <2>2. QED BY <1>6, <1>7, <2>1 DEF Report
<1>8. CASE ReportFails({}) /\ resetDue' = TRUE
  <2>1. PICK sent \in SUBSET Peer, lost \in SUBSET Peer : Reports(sent, lost, {}) /\ sent \cap lost = {}
    BY <1>8, ReportKinds
  <2>2. QED BY <1>6, <1>8, <2>1
<1>9. CASE num = 0 /\ UNCHANGED <<credit, unreported, unsent, completed, resetDue>>
  <2>1. Buffers'
    BY <1>1, <1>2, <1>9, BuffersKept
  <2>2. Shape' /\ Sent'
    BY <1>1, <1>2, <1>3, <1>9 DEF Shape, Sent, Zero
  <2>3. CountIsExplained'
    <3>1. Total(completed) \in Nat /\ leftover \in Nat
      BY <1>1, Bounds, UnitsFinite DEF Shape, Counter
    <3>2. Total(completed) = 0
      BY <1>1, <1>9, <3>1 DEF CountIsExplained
    <3>3. QED BY <1>1, <1>2, <1>9, <3>2 DEF CountIsExplained
  <2>4. QED BY <1>4, <2>1, <2>2, <2>3 DEF IInv
<1>10. QED BY <1>7, <1>8, <1>9 DEF FlowEvent
-----------------------------------------------------------------------------
(***************************************************************************)
(* The events of the host task.                                            *)
(***************************************************************************)
LEMMA DataEventStep ==
    ASSUME IInv, DataEvent
    PROVE  IInv'
<1>1. Shape /\ Order /\ Buffers /\ Sent /\ CountIsExplained
  BY DEF IInv
<1>2. /\ evq # <<>> /\ evq' = Tail(evq) /\ Head(evq).kind = "data" /\ receiving' = TRUE
      /\ UNCHANGED <<up, credit, unreported, unsent, rxq, conns, held, fragments, completed, num, timer,
                     resetDue, leftover, dropped, overlap>>
  BY DEF DataEvent, Takes, linkVars, l2capVars, flowVars
<1>3. /\ evq' \in Seq(Event) /\ IsInjective(evq)'
      /\ In(Data) /\ \A x : ~ Ahead(x, Data)
      /\ \A x : In(x)' <=> In(x) /\ x # Data
      /\ \A x, y : Ahead(x, y)' <=> Ahead(x, y) /\ x # Data
  <2>1. Head(evq) \in Event
    BY <1>1, <1>2, TakeEvent
  <2>2. Head(evq) = Data
    BY <1>2, <2>1, EventKinds DEF Data
  <2>3. QED BY <1>1, <1>2, <2>2, TakeEvent
<1>4. ASSUME NEW p \in Peer
      PROVE  /\ In(Con(p))' <=> In(Con(p))
             /\ In(Dis(p))' <=> In(Dis(p))
             /\ Ahead(Con(p), Dis(p))' <=> Ahead(Con(p), Dis(p))
  BY <1>3, EventFacts DEF Data
<1>5. ASSUME NEW p \in Peer PROVE LinkOK(p)' /\ QueueOK(p)'
  <2>1. LinkOK(p) /\ QueueOK(p)
    BY <1>1 DEF Order
  <2>2. Queued(p)' <=> Queued(p)
    BY <1>2, SamePackets
  <2>3. QED BY <1>2, <1>4, <2>1, <2>2 DEF LinkOK, QueueOK
<1>6. Announced'
  BY <1>2 DEF Announced
<1>7. Alone'
  <2>1. \A p \in Peer : Present(p)' <=> Present(p)
    BY <1>2, <1>4 DEF Present
  <2>2. SUFFICES ASSUME overlap = 0
                 PROVE  /\ dropped = Zero
                        /\ \A p, q \in Peer : Present(p) /\ Present(q) => p = q
                        /\ \E p \in Peer : Present(p)
                        /\ \A p \in Peer : ~ In(Con(p))
    BY <1>2, <1>3, <1>4, <2>1 DEF Alone, Zero
  <2>3. QED BY <1>1, <1>3, <2>2 DEF Order, Alone
<1>8. Buffers'
  BY <1>1, <1>2, BuffersKept
<1>9. Shape' /\ Sent' /\ CountIsExplained'
  BY <1>1, <1>2, <1>3 DEF Shape, Sent, Zero, CountIsExplained
<1>10. QED BY <1>5, <1>6, <1>7, <1>8, <1>9 DEF IInv, Order

LEMMA ConnectedStep ==
    ASSUME IInv, Connected
    PROVE  IInv'
<1> DEFINE p == Head(evq).peer
<1>1. Shape /\ Order /\ Buffers /\ Sent /\ CountIsExplained
  BY DEF IInv
<1>2. /\ evq # <<>> /\ evq' = Tail(evq) /\ Head(evq).kind = "connected" /\ conns' = conns \cup {p}
      /\ UNCHANGED <<up, credit, unreported, unsent, rxq, receiving, held, fragments, completed, num, timer,
                     resetDue, leftover, dropped, overlap>>
  BY DEF Connected, Takes, linkVars, l2capVars, flowVars
<1>3. Head(evq) \in Event
  BY <1>1, <1>2, TakeEvent
<1>4. p \in Peer /\ Head(evq) = Con(p)
  BY <1>2, <1>3, EventKinds
<1>5. /\ evq' \in Seq(Event) /\ IsInjective(evq)'
      /\ In(Con(p))
      /\ \A x : In(x)' <=> In(x) /\ x # Con(p)
      /\ \A x, y : Ahead(x, y)' <=> Ahead(x, y) /\ x # Con(p)
  BY <1>1, <1>2, <1>4, TakeEvent
<1>6. ASSUME NEW q \in Peer
      PROVE  /\ In(Con(q))' <=> In(Con(q)) /\ q # p
             /\ In(Dis(q))' <=> In(Dis(q))
             /\ Ahead(Con(q), Dis(q))' <=> Ahead(Con(q), Dis(q)) /\ q # p
             /\ Ahead(Data, Dis(q))' <=> Ahead(Data, Dis(q))
  BY <1>4, <1>5, EventFacts DEF Data
<1>7. In(Data)' <=> In(Data)
  BY <1>4, <1>5, EventFacts DEF Data
<1> HIDE DEF p
<1>8. ASSUME NEW q \in Peer PROVE LinkOK(q)' /\ QueueOK(q)'
  <2>1. LinkOK(q) /\ QueueOK(q)
    BY <1>1 DEF Order
  <2>2. Queued(q)' <=> Queued(q)
    BY <1>2, SamePackets
  <2>3. CASE q = p
    BY <1>2, <1>5, <1>6, <2>1, <2>2, <2>3 DEF LinkOK, QueueOK
  <2>4. CASE q # p
    BY <1>2, <1>6, <2>1, <2>2, <2>4 DEF LinkOK, QueueOK
  <2>5. QED BY <2>3, <2>4
<1>9. Announced'
  BY <1>1, <1>2, <1>7 DEF Order, Announced
<1>10. Alone'
  <2>1. \A q \in Peer : Present(q)' <=> Present(q)
    BY <1>2, <1>4, <1>5, <1>6 DEF Present
  <2>2. Present(p)
    BY <1>5 DEF Present
  <2>3. SUFFICES ASSUME overlap = 0
                 PROVE  /\ dropped = Zero
                        /\ \A q, r \in Peer : Present(q) /\ Present(r) => q = r
                        /\ \A q \in Peer : In(Con(q)) => q = p
                        /\ \A q \in Peer : In(Dis(q)) /\ In(Data) => Ahead(Data, Dis(q))
    BY <1>2, <1>4, <1>6, <1>7, <2>1, <2>2 DEF Alone, Zero
  <2>4. QED BY <1>1, <1>4, <2>2, <2>3 DEF Order, Alone, Present
<1>11. Buffers'
  <2>1. \A q : InQueue(q)' = InQueue(q)
    BY <1>2, SamePackets
  <2>2. QED BY <1>1, <1>2, <2>1 DEF Buffers, FragmentsOK, BuffersOK, Occupied, Conserved
<1>12. Shape' /\ Sent' /\ CountIsExplained'
  BY <1>1, <1>2, <1>4, <1>5 DEF Shape, Sent, Zero, CountIsExplained
<1>13. QED BY <1>8, <1>9, <1>10, <1>11, <1>12 DEF IInv, Order

LEMMA DisconnectedStep ==
    ASSUME IInv, Disconnected
    PROVE  IInv'
<1> DEFINE p == Head(evq).peer
<1>1. Shape /\ Order /\ Buffers /\ Sent /\ CountIsExplained
  BY DEF IInv
<1>2. /\ evq # <<>> /\ evq' = Tail(evq) /\ Head(evq).kind = "disconnected" /\ ~ receiving /\ ~ resetDue
      /\ conns' = conns \ {p} /\ leftover' = num - Total(completed')
      /\ UNCHANGED <<up, rxq, receiving, num, timer, resetDue, dropped, overlap>>
  BY DEF Disconnected, Takes, Running
<1>3. Head(evq) \in Event
  BY <1>1, <1>2, TakeEvent
<1>4. p \in Peer /\ Head(evq) = Dis(p)
  BY <1>2, <1>3, EventKinds
<1>5. /\ evq' \in Seq(Event) /\ IsInjective(evq)'
      /\ In(Dis(p)) /\ \A x : ~ Ahead(x, Dis(p))
      /\ \A x : In(x)' <=> In(x) /\ x # Dis(p)
      /\ \A x, y : Ahead(x, y)' <=> Ahead(x, y) /\ x # Dis(p)
  BY <1>1, <1>2, <1>4, TakeEvent
<1>6. ASSUME NEW q \in Peer
      PROVE  /\ In(Con(q))' <=> In(Con(q))
             /\ In(Dis(q))' <=> In(Dis(q)) /\ q # p
             /\ Ahead(Con(q), Dis(q))' <=> Ahead(Con(q), Dis(q))
             /\ Ahead(Data, Dis(q))' <=> Ahead(Data, Dis(q))
  BY <1>4, <1>5, EventFacts DEF Data
<1>7. In(Data)' <=> In(Data)
  BY <1>4, <1>5, EventFacts DEF Data
<1>8. /\ held' \in Counter /\ held'[p] = 0 /\ \A q \in Peer : q # p => held'[q] = held[q]
      /\ fragments' \in Counter /\ fragments'[p] = 0 /\ \A q \in Peer : q # p => fragments'[q] = fragments[q]
  BY <1>1, <1>4 DEF Disconnected, Shape, Counter
<1> HIDE DEF p
<1>9. p \notin up /\ p \in conns /\ ~ In(Con(p)) /\ ~ Queued(p)
  BY <1>1, <1>2, <1>4, <1>5 DEF Order, LinkOK, QueueOK
\* The report goes to all, or fails for r.
<1>r. PICK sent \in SUBSET Peer, lost \in SUBSET Peer :
         /\ Reports(sent, lost, {p}) /\ sent \cap lost = {}
         /\ \A r \in lost : completed[r] > 0
  BY <1>4, ReportKinds DEF Disconnected, p
<1>10. Reported({p}) /\ \A r \in Peer : r \notin lost => unsent'[r] = unsent[r]
  BY <1>1, <1>4, <1>9, <1>r, ReportFacts
<1>11. ASSUME NEW q \in Peer PROVE LinkOK(q)' /\ QueueOK(q)'
  <2>1. LinkOK(q) /\ QueueOK(q)
    BY <1>1 DEF Order
  <2>2. Queued(q)' <=> Queued(q)
    BY <1>2, SamePackets
  <2>3. CASE q = p
    BY <1>2, <1>6, <1>9, <2>1, <2>2, <2>3 DEF LinkOK, QueueOK
  <2>4. CASE q # p
    BY <1>2, <1>6, <2>1, <2>2, <2>4 DEF LinkOK, QueueOK
  <2>5. QED BY <2>3, <2>4
<1>12. Announced'
  BY <1>1, <1>2, <1>7 DEF Order, Announced
<1>13. Alone'
  <2>1. \A q \in Peer : Present(q)' <=> Present(q) /\ q # p
    BY <1>2, <1>6, <1>9 DEF Present
  <2>2. Present(p)
    BY <1>5 DEF Present
  <2>3. SUFFICES ASSUME overlap = 0
                 PROVE  /\ dropped = Zero /\ ~ In(Data)
                        /\ \A q \in Peer : ~ Present(q)'
    BY <1>2, <1>6, <1>7, <2>3 DEF Alone, Zero, Present
  <2>4. QED BY <1>1, <1>4, <1>5, <2>1, <2>2, <2>3 DEF Order, Alone
<1>14. ASSUME NEW q \in Peer PROVE BuffersOK(q)' /\ FragmentsOK(q)'
  <2>1. CASE q = p
    <3>1. /\ InQueue(q)' = InQueue(q) /\ completed'[q] = 0
          /\ unreported'[q] = 0 /\ unsent'[q] = unsent[q]
      <4>1. InQueue(q)' = InQueue(q)
        BY <1>2, SamePackets
      <4>2. q \in {p} /\ q \notin up
        BY <1>9, <2>1
      <4>3. QED BY <1>10, <4>1, <4>2 DEF Reported
    <3>2. /\ InQueue(q) \in Nat /\ held[q] \in Nat /\ completed[q] \in Nat
          /\ BufCount \in Nat /\ MaxFragments \in Nat
      BY <1>1, Bounds, InQueueType DEF Shape, Counter
    <3>3. BuffersOK(q)
      BY <1>1 DEF Buffers
    <3>4. dropped'[q] = 0 /\ unsent'[q] = 0 /\ InQueue(q)' + 0 + 0 <= BufCount
      BY <1>2, <1>9, <2>1, <3>1, <3>2, <3>3 DEF BuffersOK, Occupied
    <3>5. held'[q] = 0 /\ fragments'[q] = 0 /\ q \notin up' /\ q \notin conns' /\ 0 <= MaxFragments
      BY <1>2, <1>8, <1>9, <2>1, <3>2
    <3>6. BuffersOK(q)'
      BY <3>1, <3>4, <3>5 DEF BuffersOK, Occupied
    <3>7. FragmentsOK(q)'
      BY <3>5 DEF FragmentsOK
    <3>8. QED BY <3>6, <3>7
  <2>2. CASE q # p
    <3>1. /\ held'[q] = held[q] /\ fragments'[q] = fragments[q] /\ (q \in conns' <=> q \in conns)
          /\ q \notin {p} /\ {p} \in SUBSET Peer
      BY <1>2, <1>4, <1>8, <2>2
    <3>2. QED BY <1>1, <1>2, <1>10, <3>1, ReportKeeps
  <2>3. QED BY <2>1, <2>2
<1>15. Buffers'
  <2>1. Total(unreported)' = Total(unreported')
    BY DEF Total, Units
  <2>2. QED BY <1>10, <1>14, <2>1 DEF Buffers, Conserved, Reported
<1>16. /\ num = Total(completed) + leftover /\ Total(completed) \in Nat /\ num \in Nat
       /\ Total(completed') \in Nat /\ Total(completed') <= Total(completed)
       /\ leftover' \in Nat /\ num = Total(completed') + leftover'
  <2>1. num = Total(completed) + leftover /\ Total(completed) \in Nat /\ num \in Nat /\ leftover \in Nat
    BY <1>1, <1>2, Bounds, UnitsFinite DEF CountIsExplained, Shape, Counter
  <2>2. Total(completed') \in Nat /\ Total(completed') <= Total(completed)
    BY <1>10 DEF Reported
  <2> HIDE DEF Total
  <2>3. QED BY <1>2, <2>1, <2>2
<1>17. Shape'
  BY <1>1, <1>2, <1>5, <1>8, <1>10, <1>16 DEF Shape, Reported
<1>18. CountIsExplained'
  <2>1. Total(completed)' = Total(completed')
    BY DEF Total, Units
  <2>2. QED BY <1>2, <1>16, <2>1 DEF CountIsExplained
\* A count that is lost is that of another link, which is known besides this one.
<1>19. Sent'
  <2>1. ASSUME NEW r \in lost, r \in up PROVE overlap # 0
    <3>1. r \in Peer /\ r # p /\ Present(r) /\ Present(p)
      BY <1>5, <1>9, <2>1 DEF Present
    <3>2. QED BY <1>1, <1>4, <3>1 DEF Order, Alone
  <2>2. ASSUME \A r \in lost : r \notin up PROVE unsent' = unsent
    <3>1. \A r \in Peer : unsent'[r] = unsent[r]
      BY <1>10, <2>2 DEF Reported
    <3>2. unsent' \in Counter /\ unsent \in Counter
      BY <1>1, <1>10 DEF Reported, Shape
    <3>3. QED BY <3>1, <3>2 DEF Counter
  <2>3. overlap \in Nat
    BY <1>1, Bounds DEF Shape
  <2>4. QED BY <1>1, <1>2, <2>1, <2>2, <2>3 DEF Sent, Zero
<1>20. QED BY <1>11, <1>12, <1>13, <1>15, <1>17, <1>18, <1>19 DEF IInv, Order
-----------------------------------------------------------------------------
(***************************************************************************)
(* The packets.                                                            *)
(***************************************************************************)
LEMMA QueueEmptyStep ==
    ASSUME IInv, QueueEmpty
    PROVE  IInv'
<1>1. Shape /\ Order /\ Buffers /\ Sent /\ CountIsExplained
  BY DEF IInv
<1>2. /\ rxq = <<>> /\ receiving' = FALSE
      /\ UNCHANGED <<up, credit, unreported, unsent, evq, rxq, conns, held, fragments, completed, num, timer,
                     resetDue, leftover, dropped, overlap>>
  BY DEF QueueEmpty, linkVars, l2capVars, flowVars
<1>3. \A x, y : (In(x)' <=> In(x)) /\ (Ahead(x, y)' <=> Ahead(x, y))
  BY <1>2, SameEvents
<1>4. ASSUME NEW p \in Peer PROVE LinkOK(p)' /\ QueueOK(p)'
  BY <1>1, <1>2, <1>3 DEF Order, LinkOK, QueueOK, Queued
<1>5. Announced' /\ Alone'
  <2>1. \A p \in Peer : Present(p)' <=> Present(p)
    BY <1>2, <1>3 DEF Present
  <2>2. QED BY <1>1, <1>2, <1>3, <2>1 DEF Order, Announced, Alone, Zero
<1>6. Buffers'
  BY <1>1, <1>2, BuffersKept
<1>7. Shape' /\ Sent' /\ CountIsExplained'
  BY <1>1, <1>2 DEF Shape, Sent, Zero, CountIsExplained, IsInjective
<1>8. QED BY <1>4, <1>5, <1>6, <1>7 DEF IInv, Order

LEMMA DiscardUnconnectedStep ==
    ASSUME IInv, DiscardUnconnected
    PROVE  IInv'
<1> DEFINE p == Head(rxq).peer
<1>1. Shape /\ Order /\ Buffers /\ Sent /\ CountIsExplained
  BY DEF IInv
<1>2. /\ rxq # <<>> /\ rxq' = Tail(rxq) /\ receiving /\ p \notin conns
      /\ UNCHANGED <<up, credit, unreported, unsent, evq, receiving, conns, held, fragments, completed, num, timer,
                     resetDue, leftover, overlap>>
  BY DEF DiscardUnconnected, Take, linkVars, l2capVars, flowVars
<1>3. dropped' = IF p \in up THEN [dropped EXCEPT ![p] = dropped[p] + 1] ELSE dropped
  BY DEF DiscardUnconnected
<1>4. /\ rxq' \in Seq(Packet) /\ p \in Peer /\ Queued(p)
      /\ \A q : Queued(q)' => Queued(q)
      /\ \A q : InQueue(q) = IF p = q THEN InQueue(q)' + 1 ELSE InQueue(q)'
  <2>1. Head(rxq) \in Packet
    BY <1>1, <1>2, TakePacket
  <2>2. QED BY <1>1, <1>2, <2>1, TakePacket DEF Packet
<1> HIDE DEF p
<1>5. /\ dropped' \in Counter
      /\ p \in up => dropped'[p] = dropped[p] + 1
      /\ \A q \in Peer : q # p \/ p \notin up => dropped'[q] = dropped[q]
  BY <1>1, <1>3, <1>4 DEF Shape, Counter
<1>6. ASSUME overlap = 0 PROVE dropped' = dropped
  <2>1. p \in up => In(Con(p))
    BY <1>1, <1>2, <1>4 DEF Order, LinkOK
  <2>2. p \notin up
    BY <1>1, <1>2, <1>4, <1>6, <2>1 DEF Order, Alone
  <2>3. QED BY <1>3, <2>2
<1>7. Order'
  <2>1. SameOrder
    BY <1>2, SameEvents DEF SameOrder
  <2>2. QED BY <1>1, <1>2, <1>4, <1>6, <2>1, OrderKept
<1>8. ASSUME NEW q \in Peer PROVE BuffersOK(q)'
  <2>1. /\ InQueue(q) \in Nat /\ held[q] \in Nat /\ completed[q] \in Nat /\ dropped[q] \in Nat
        /\ BufCount \in Nat /\ unsent[q] \in Nat
    BY <1>1, Bounds, InQueueType DEF Shape, Counter
  <2>2. InQueue(q)' \in Nat
    BY <1>4, PeerCountType, InQueueCount
  <2>3. BuffersOK(q)
    BY <1>1 DEF Buffers
  <2>4. CASE q = p
    <3>1. InQueue(q) = InQueue(q)' + 1
      BY <1>4, <2>4
    <3>2. CASE q \in up
      <4>1. dropped'[q] = dropped[q] + 1
        BY <1>5, <2>4, <3>2
      <4>2. unreported[q] = InQueue(q) + held[q] + completed[q] + dropped[q] + unsent[q]
        BY <2>3, <3>2 DEF BuffersOK, Occupied
      <4>3. unreported[q] = InQueue(q)' + held[q] + completed[q] + dropped'[q] + unsent[q]
        BY <2>1, <2>2, <3>1, <4>1, <4>2
      <4>4. QED BY <1>2, <2>3, <3>2, <4>3 DEF BuffersOK, Occupied
    <3>3. CASE q \notin up
      <4>1. dropped'[q] = dropped[q]
        BY <1>5, <2>4, <3>3
      <4>2. QED BY <1>2, <2>1, <2>2, <2>3, <3>1, <3>3, <4>1 DEF BuffersOK, Occupied
    <3>4. QED BY <3>2, <3>3
  <2>5. CASE q # p
    <3>1. InQueue(q) = InQueue(q)'
      BY <1>4, <2>5
    <3>2. QED BY <1>2, <1>5, <2>3, <2>5, <3>1 DEF BuffersOK, Occupied
  <2>6. QED BY <2>4, <2>5
<1>9. Buffers'
  BY <1>1, <1>2, <1>8 DEF Buffers, FragmentsOK, Conserved
<1>10. Shape' /\ Sent' /\ CountIsExplained'
  BY <1>1, <1>2, <1>4, <1>5 DEF Shape, Sent, Zero, CountIsExplained, IsInjective
<1>11. QED BY <1>7, <1>9, <1>10 DEF IInv

\* The packet p has at the head of the queue: n buffers are freed, h are held.
LEMMA PacketStep ==
    ASSUME IInv, Take, NEW p \in Peer, p = Head(rxq).peer, p \in conns,
           NEW h \in Nat, NEW f \in Nat, NEW n \in Nat, h + n = held[p] + 1,
           h <= f, f <= MaxFragments, f > 0 => h > 0,
           Reassembly(p, h, f, n), dropped' = dropped
    PROVE  IInv'
<1>1. Shape /\ Order /\ Buffers /\ Sent /\ CountIsExplained
  BY DEF IInv
<1>2. /\ ~ resetDue /\ receiving /\ rxq # <<>> /\ rxq' = Tail(rxq)
      /\ UNCHANGED <<up, credit, unreported, unsent, receiving, conns, overlap, leftover, dropped>>
      /\ num' = num + n
  BY DEF Take, Running, linkVars, Reassembly, Free
<1>3. /\ timer' \in BOOLEAN /\ (evq' = evq \/ evq' = Put("flow"))
      /\ resetDue' \in BOOLEAN /\ (resetDue' => num' > BufCount)
  BY <1>1, <1>2 DEF Reassembly, Free, Shape
<1>4. /\ held' \in Counter /\ held'[p] = h /\ \A q \in Peer : q # p => held'[q] = held[q]
      /\ fragments' \in Counter /\ fragments'[p] = f
      /\ \A q \in Peer : q # p => fragments'[q] = fragments[q]
  BY <1>1 DEF Reassembly, Shape, Counter
<1>5. /\ completed' \in Counter /\ completed'[p] = completed[p] + n
      /\ \A q \in Peer : q # p => completed'[q] = completed[q]
  <2>1. completed' = [completed EXCEPT ![p] = completed[p] + n]
    BY DEF Reassembly, Free
  <2>2. QED BY <1>1, <2>1 DEF Shape, Counter
<1>6. /\ rxq' \in Seq(Packet) /\ Queued(p)
      /\ \A q : Queued(q)' => Queued(q)
      /\ \A q : InQueue(q) = IF p = q THEN InQueue(q)' + 1 ELSE InQueue(q)'
  BY <1>1, <1>2, TakePacket
<1>7. SameOrder /\ evq' \in Seq(Event) /\ IsInjective(evq)'
  <2>1. CASE evq' = evq
    BY <1>1, <2>1, SameEvents DEF SameOrder, Shape, IsInjective
  <2>2. CASE evq' = Put("flow")
    BY <1>1, <2>2, PutKeepsOrder, PutFacts
  <2>3. QED BY <1>3, <2>1, <2>2
<1>8. Order'
  BY <1>1, <1>2, <1>6, <1>7, OrderKept
<1>9. /\ InQueue(p) \in Nat /\ InQueue(p)' \in Nat /\ held[p] \in Nat /\ completed[p] \in Nat
      /\ InQueue(p) = InQueue(p)' + 1 /\ BufCount \in Nat
  BY <1>1, <1>6, Bounds, InQueueType, InQueueCount, PeerCountType DEF Shape, Counter
<1>10. Occupied(p)' = Occupied(p)
  BY <1>4, <1>5, <1>9 DEF Occupied
<1>11. ASSUME NEW q \in Peer PROVE BuffersOK(q)' /\ FragmentsOK(q)'
  <2>1. BuffersOK(q) /\ FragmentsOK(q)
    BY <1>1 DEF Buffers
  <2>2. CASE q = p
    BY <1>2, <1>4, <1>10, <2>1, <2>2 DEF BuffersOK, FragmentsOK
  <2>3. CASE q # p
    <3>1. InQueue(q)' = InQueue(q)
      BY <1>6, <2>3
    <3>2. QED BY <1>2, <1>4, <1>5, <2>1, <2>3, <3>1 DEF BuffersOK, FragmentsOK, Occupied
  <2>4. QED BY <2>2, <2>3
<1>12. Buffers'
  BY <1>1, <1>2, <1>11 DEF Buffers, Conserved
<1>13. Shape'
  BY <1>1, <1>2, <1>3, <1>4, <1>5, <1>6, <1>7 DEF Shape
<1>14. completed \in [Peer -> Nat] /\ completed' \in [Peer -> Nat]
  BY <1>1, <1>5 DEF Shape, Counter
<1>15. num' = Total(completed') + leftover
  <2>1. Total(completed') + completed[p] = Total(completed) + completed'[p]
    BY <1>5, <1>14, Bounds, TotalReplaced
  <2>2. Total(completed') \in Nat /\ Total(completed) \in Nat
    BY <1>14, Bounds, UnitsFinite
  <2>3. num = Total(completed) + leftover /\ leftover \in Nat
    BY <1>1, <1>2 DEF CountIsExplained, Shape
  <2>4. num' = num + n /\ completed'[p] = completed[p] + n /\ completed[p] \in Nat
    BY <1>2, <1>5, <1>9
  <2> HIDE DEF Total
  <2>5. QED BY <2>1, <2>2, <2>3, <2>4
\* With one link and nothing left over, the host has counted no more buffers than there are.
<1>16. ASSUME overlap = 0, leftover = 0 PROVE ~ resetDue'
  <2>1. \A q \in Peer : q # p => q \notin conns
    BY <1>1, <1>16 DEF Order, Alone, Present
  <2>2. \A q \in Peer : q # p => completed'[q] = 0
    BY <1>1, <1>5, <2>1 DEF Buffers, BuffersOK
  <2>3. Total(completed') = completed'[p]
    BY <1>14, <2>2, TotalOne
  <2>4. Occupied(p) <= BufCount
    BY <1>1, LinkBound
  <2>5. completed[p] + n <= BufCount
    BY <1>9, <2>4 DEF Occupied
  <2>6. num' <= BufCount /\ num' \in Nat
    BY <1>5, <1>9, <1>13, <1>15, <1>16, <2>3, <2>5 DEF Shape
  <2>7. QED BY <1>3, <1>9, <2>6
<1>17. CountIsExplained'
  <2>1. Total(completed)' = Total(completed')
    BY DEF Total, Units
  <2>2. overlap \in Nat /\ leftover \in Nat
    BY <1>1, Bounds DEF Shape
  <2>3. QED BY <1>2, <1>15, <1>16, <2>1, <2>2 DEF CountIsExplained
<1>18. Sent'
  BY <1>1, <1>2 DEF Sent, Zero
<1>19. QED BY <1>8, <1>12, <1>13, <1>17, <1>18 DEF IInv

LEMMA FirstFragmentStep ==
    ASSUME IInv, FirstFragment
    PROVE  IInv'
<1>1. PICK p : p = Head(rxq).peer
  OBVIOUS
<1>2. Shape /\ Take /\ p \in conns /\ p \in Peer /\ held[p] \in Nat
  BY <1>1 DEF FirstFragment, IInv, Shape, Counter
<1>3. 0 <= MaxFragments /\ 1 <= MaxFragments
  BY Bounds
<1>4. /\ dropped' = dropped /\ held[p] <= fragments[p] /\ fragments[p] <= MaxFragments
      /\ (fragments[p] > 0 => held[p] > 0) /\ fragments[p] \in Nat
  BY <1>2 DEF FirstFragment, IInv, Shape, Counter, Buffers, FragmentsOK
<1>5. CASE Reassembly(p, held[p], fragments[p], 1)
  BY <1>1, <1>2, <1>4, <1>5, PacketStep
<1>6. CASE Reassembly(p, 0, 0, held[p] + 1)
  <2>1. held[p] + 1 \in Nat /\ 0 + (held[p] + 1) = held[p] + 1
    BY <1>2
  <2>2. QED BY <1>1, <1>2, <1>3, <1>4, <1>6, <2>1, PacketStep
<1>7. CASE Reassembly(p, 1, 1, held[p])
  <2>1. 1 + held[p] = held[p] + 1
    BY <1>2
  <2>2. QED BY <1>1, <1>2, <1>3, <1>4, <1>7, <2>1, PacketStep
<1>8. QED BY <1>1, <1>5, <1>6, <1>7 DEF FirstFragment

LEMMA NextFragmentStep ==
    ASSUME IInv, NextFragment
    PROVE  IInv'
<1>1. PICK p : p = Head(rxq).peer
  OBVIOUS
<1>2. /\ Shape /\ Take /\ p \in conns /\ p \in Peer /\ held[p] \in Nat /\ fragments[p] \in Nat
      /\ dropped' = dropped /\ FragmentsOK(p)
  BY <1>1 DEF NextFragment, IInv, Shape, Counter, Buffers
<1>3. MaxFragments \in Nat /\ held[p] <= fragments[p] /\ fragments[p] <= MaxFragments
      /\ (fragments[p] > 0 => held[p] > 0)
  BY <1>2, Bounds DEF FragmentsOK
<1>4. CASE fragments[p] = 0 /\ Reassembly(p, 0, 0, 1)
  <2>1. held[p] = 0
    BY <1>2, <1>3, <1>4
  <2>2. QED BY <1>1, <1>2, <1>3, <1>4, <2>1, PacketStep
<1>5. CASE fragments[p] > 0 /\ Reassembly(p, 0, 0, held[p] + 1)
  <2>1. held[p] + 1 \in Nat /\ 0 + (held[p] + 1) = held[p] + 1 /\ 0 <= MaxFragments
    BY <1>2, <1>3
  <2>2. QED BY <1>1, <1>2, <1>5, <2>1, PacketStep
<1>6. CASE fragments[p] < MaxFragments /\ Reassembly(p, held[p] + 1, fragments[p] + 1, 0)
  <2>1. /\ held[p] + 1 \in Nat /\ fragments[p] + 1 \in Nat /\ (held[p] + 1) + 0 = held[p] + 1
        /\ held[p] + 1 <= fragments[p] + 1 /\ fragments[p] + 1 <= MaxFragments /\ held[p] + 1 > 0
    BY <1>2, <1>3, <1>6
  <2>2. QED BY <1>1, <1>2, <1>6, <2>1, PacketStep
<1>7. CASE fragments[p] > 0 /\ fragments[p] < MaxFragments /\ Reassembly(p, held[p], fragments[p] + 1, 1)
  <2>1. /\ fragments[p] + 1 \in Nat /\ held[p] <= fragments[p] + 1 /\ fragments[p] + 1 <= MaxFragments
        /\ held[p] > 0
    BY <1>2, <1>3, <1>7
  <2>2. QED BY <1>1, <1>2, <1>7, <2>1, PacketStep
<1>8. QED
  <2> DEFINE ends == Head(rxq).last \/ fragments[p] = MaxFragments
  <2>1. \/ fragments[p] = 0 /\ Reassembly(p, 0, 0, 1)
        \/ fragments[p] > 0 /\ Reassembly(p, IF ends THEN 0 ELSE held[p] + 1,
                                          IF ends THEN 0 ELSE fragments[p] + 1,
                                          IF ends THEN held[p] + 1 ELSE 0)
        \/ fragments[p] > 0 /\ fragments[p] < MaxFragments /\ Reassembly(p, held[p], fragments[p] + 1, 1)
    BY <1>1 DEF NextFragment, BuffersFreed
  <2>2. ~ ends => fragments[p] < MaxFragments
    BY <1>2, <1>3
  <2>3. QED BY <1>4, <1>5, <1>6, <1>7, <2>1, <2>2
-----------------------------------------------------------------------------
(***************************************************************************)
(* The invariant.                                                          *)
(***************************************************************************)
LEMMA InitEstablishes == Init => IInv
<1> SUFFICES ASSUME Init PROVE IInv
  OBVIOUS
<1>1. Zero \in Counter /\ \A p \in Peer : Zero[p] = 0
  BY DEF Zero, Counter
<1>2. Total(Zero) = 0
  BY <1>1, TotalZero DEF Counter
<1>3. Shape
  <2>1. /\ evq = <<>> /\ evq \in Seq(Event) /\ DOMAIN evq = {}
        /\ rxq = <<>> /\ rxq \in Seq(Packet)
    BY DEF Init
  <2>2. IsInjective(evq)
    BY <2>1 DEF IsInjective
  <2>3. overlap \in 0 .. MaxOverlap + 1 /\ credit \in Nat
    BY Bounds DEF Init
  <2>4. QED BY <1>1, <2>1, <2>2, <2>3 DEF Init, Shape
<1>4. /\ \A x : ~ In(x)
      /\ \A p : ~ Queued(p)
  BY DEF Init, In, Queued
<1>5. Order
  <2>1. /\ up = {} /\ conns = {} /\ rxq = <<>> /\ ~ receiving /\ dropped = Zero
    BY DEF Init
  <2>2. \A p \in Peer : LinkOK(p) /\ QueueOK(p) /\ ~ Present(p)
    BY <1>4, <2>1 DEF LinkOK, QueueOK, Present
  <2>3. Announced
    BY <2>1 DEF Announced
  <2>4. Alone
    BY <1>4, <2>1, <2>2 DEF Alone
  <2>5. QED BY <2>2, <2>3, <2>4 DEF Order
<1>6. Buffers
  <2>1. ASSUME NEW p \in Peer PROVE InQueue(p) = 0
    BY <1>3, InQueueType DEF Init, Queued
  <2>2. QED BY <1>1, <1>2, <2>1, Bounds DEF Init, Buffers, FragmentsOK, BuffersOK, Occupied, Conserved
<1>7. Sent /\ CountIsExplained
  BY <1>2 DEF Init, Sent, CountIsExplained
<1>8. QED BY <1>3, <1>5, <1>6, <1>7 DEF IInv

LEMMA StutterKeeps ==
    ASSUME IInv, UNCHANGED vars
    PROVE  IInv'
<1>1. Shape /\ Order /\ Buffers /\ Sent /\ CountIsExplained
  BY DEF IInv
<1>2. UNCHANGED <<up, credit, unreported, unsent, evq, rxq, receiving, conns, held, fragments, completed, num,
                  timer, resetDue, leftover, dropped, overlap>>
  BY DEF vars, linkVars, queueVars, l2capVars, flowVars
<1>3. SameOrder /\ \A p \in Peer : Queued(p)' => Queued(p)
  BY <1>2, SameEvents, SamePackets DEF SameOrder
<1>4. Order' /\ Buffers'
  BY <1>1, <1>2, <1>3, OrderKept, BuffersKept
<1>5. Shape' /\ Sent' /\ CountIsExplained'
  BY <1>1, <1>2 DEF Shape, IsInjective, Sent, Zero, CountIsExplained
<1>6. QED BY <1>4, <1>5 DEF IInv

LEMMA Preserved == IInv /\ [Next]_vars => IInv'
<1> SUFFICES ASSUME IInv, [Next]_vars PROVE IInv'
  OBVIOUS
<1>1. CASE UNCHANGED vars
  BY <1>1, StutterKeeps
<1>2. ASSUME NEW p \in Peer, LinkStarts(p) \/ LinkEnds(p) PROVE IInv'
  BY <1>2, LinkStartsStep, LinkEndsStep
<1>3. ASSUME NEW pkt \in Packet, Receive(pkt) PROVE IInv'
  BY <1>3, ReceiveStep
<1>4. CASE TimerExpires
  BY <1>4, TimerExpiresStep
<1>5. CASE HostEvent
  BY <1>5, FlowEventStep, DataEventStep, ConnectedStep, DisconnectedStep DEF HostEvent
<1>6. CASE HostLoop
  BY <1>6, QueueEmptyStep, DiscardUnconnectedStep, FirstFragmentStep, NextFragmentStep DEF HostLoop
<1>7. QED BY <1>1, <1>2, <1>3, <1>4, <1>5, <1>6 DEF Next

LEMMA Invariant == Spec => []IInv
BY InitEstablishes, Preserved, PTL DEF Spec

LEMMA TypeBounds == IInv => TypeOK
<1> SUFFICES ASSUME IInv PROVE TypeOK
  OBVIOUS
<1>1. Shape /\ Buffers /\ CountIsExplained
  BY DEF IInv
<1>2. ASSUME NEW p \in Peer
      PROVE  /\ unreported[p] \in 0 .. BufCount /\ held[p] \in 0 .. BufCount
             /\ completed[p] \in 0 .. BufCount /\ dropped[p] \in 0 .. BufCount
             /\ unsent[p] \in 0 .. BufCount
             /\ fragments[p] \in 0 .. MaxFragments
             /\ held[p] <= fragments[p] /\ (fragments[p] > 0 => held[p] > 0)
  BY <1>1, Bounds, LinkBound DEF Shape, Counter, Buffers, FragmentsOK
<1>3. credit \in 0 .. BufCount
  <2>1. Total(unreported) \in Nat
    BY <1>1, Bounds, UnitsFinite DEF Shape, Counter
  <2>2. QED BY <1>1, <2>1, Bounds DEF Shape, Buffers, Conserved
<1>4. leftover \in 0 .. num
  <2>1. Total(completed) \in Nat
    BY <1>1, Bounds, UnitsFinite DEF Shape, Counter
  <2>2. QED BY <1>1, <2>1 DEF Shape, Sent, Zero, CountIsExplained
<1>5. /\ unreported \in [Peer -> 0 .. BufCount] /\ held \in [Peer -> 0 .. BufCount]
      /\ completed \in [Peer -> 0 .. BufCount] /\ dropped \in [Peer -> 0 .. BufCount]
      /\ unsent \in [Peer -> 0 .. BufCount]
      /\ fragments \in [Peer -> 0 .. MaxFragments]
  BY <1>1, <1>2 DEF Shape, Counter
<1>6. QED BY <1>1, <1>2, <1>3, <1>4, <1>5 DEF TypeOK, Shape

\* The flow control of received data: every variable has its type in every
\* reachable state, whatever the pool, the links and the fragments.
THEOREM FlowTypeCorrect == Spec => []TypeOK
BY Invariant, TypeBounds, PTL

\* ble_hs_flow: every buffer that the controller has filled for a link which is up
\* is queued, held by a reassembly, counted, or was dropped or lost in a report that
\* failed, whatever the order of packets, events, reports and timers.
THEOREM CreditsCorrect == Spec => []CreditsAreKept
<1>1. IInv => CreditsAreKept
  <2> SUFFICES ASSUME IInv, NEW p \in Peer, p \in up
               PROVE  /\ unreported[p] = InQueue(p) + held[p] + completed[p] + dropped[p] + unsent[p]
                      /\ unsent[p] > 0 => resetDue \/ overlap > 0
    BY DEF IInv, Shape, CreditsAreKept
  <2>1. unreported[p] = InQueue(p) + held[p] + completed[p] + dropped[p] + unsent[p]
    BY DEF IInv, Buffers, BuffersOK, Occupied
  <2>2. unsent[p] > 0 => resetDue \/ overlap > 0
    BY DEF IInv, Sent, Zero
  <2>3. QED BY <2>1, <2>2
<1>2. QED BY <1>1, Invariant, PTL

\* ble_hs_rx_data, ble_hs_hci_evt_acl_process: as long as no two links are known
\* together, no packet is lost, for want of a buffer or of a connection.
THEOREM NothingDroppedCorrect == Spec => []NothingIsDropped
<1>1. IInv => NothingIsDropped
  BY DEF IInv, Order, Alone, NothingIsDropped
<1>2. QED BY <1>1, Invariant, PTL

\* ble_hs_flow_num_completed_pkts: the counter is what the connections count and
\* what a connection left behind, and it takes that or a second link for the
\* count to outgrow the pool and for the host to reset itself.
THEOREM CountCorrect == Spec => []CountIsExplained
<1>1. IInv => CountIsExplained
  BY DEF IInv
<1>2. QED BY <1>1, Invariant, PTL
-----------------------------------------------------------------------------
(***************************************************************************)
(* The pool of queued writes.                                              *)
(***************************************************************************)
Lists == [Client -> Seq(Entry)]

QShape == /\ pool \in Nat
          /\ queue \in Lists
          /\ left \in [Client -> 0 .. Timeout]
          /\ connected \subseteq Client
          /\ terminating \subseteq connected
          /\ link \subseteq connected
          /\ hsTimer \in 0 .. Timeout \cup {Off}
          /\ host \in {"idle", "timer"}
          /\ DOMAIN accepted = Client

QInv == QShape /\ PoolIsConserved

LEMMA WriteBounds == IsFiniteSet(Client) /\ PoolSize \in Nat /\ Timeout \in Nat /\ Timeout > 0
BY ClientAssumption, NumberAssumption

\* A sorted insertion is an insertion.
LEMMA InsertedFacts ==
    ASSUME NEW q \in Seq(Entry), NEW e \in Entry
    PROVE  Inserted(q, e) \in Seq(Entry) /\ Len(Inserted(q, e)) = Len(q) + 1
<1> DEFINE B == Before(q, e)
           n == Cardinality(B)
<1>1. Len(q) \in Nat /\ DOMAIN q = 1 .. Len(q) /\ 1 \in Int /\ Len(q) \in Int
  OBVIOUS
<1>2. IsFiniteSet(1 .. Len(q)) /\ Cardinality(1 .. Len(q)) = Len(q)
  BY <1>1, FS_Interval
<1>3. B \in SUBSET (1 .. Len(q))
  BY <1>1 DEF Before
<1>4. n \in Nat /\ n <= Len(q)
  <2> HIDE DEF B
  <2>1. QED BY <1>2, <1>3, FS_Subset, FS_CardinalityType
<1> HIDE DEF n
<1>5. Inserted(q, e) = SubSeq(q, 1, n) \o <<e>> \o SubSeq(q, n + 1, Len(q))
  <2>1. (n + 1) - 1 = n
    BY <1>4
  <2>2. QED BY <2>1 DEF Inserted, InsertAt, n
<1>6. SubSeq(q, 1, n) \in Seq(Entry) /\ Len(SubSeq(q, 1, n)) = n
  BY <1>4
<1>7. SubSeq(q, n + 1, Len(q)) \in Seq(Entry) /\ Len(SubSeq(q, n + 1, Len(q))) = Len(q) - n
  BY <1>4
<1>8. <<e>> \in Seq(Entry) /\ Len(<<e>>) = 1
  OBVIOUS
<1> DEFINE front == SubSeq(q, 1, n)
           back == SubSeq(q, n + 1, Len(q))
           one == <<e>>
<1>9. front \o one \in Seq(Entry) /\ Len(front \o one) = n + 1
  <2> HIDE DEF front, one
  <2>1. QED BY <1>4, <1>6, <1>8 DEF front, one
<1> DEFINE start == front \o one
<1>10. start \o back \in Seq(Entry) /\ Len(start \o back) = Len(q) + 1
  <2>1. start \in Seq(Entry) /\ back \in Seq(Entry) /\ Len(start) = n + 1 /\ Len(back) = Len(q) - n
    BY <1>7, <1>9
  <2> HIDE DEF start, back
  <2>2. start \o back \in Seq(Entry) /\ Len(start \o back) = Len(start) + Len(back)
    BY <2>1
  <2>3. QED BY <1>1, <1>4, <2>1, <2>2
<1>11. QED BY <1>5, <1>10

\* The entries in use are counted list by list.
LEMMA InUseReplaced ==
    ASSUME queue \in Lists, queue' \in Lists, NEW c \in Client,
           \A d \in Client : d # c => queue'[d] = queue[d]
    PROVE  /\ InUse \in Nat /\ InUse' \in Nat
           /\ InUse' + Len(queue[c]) = InUse + Len(queue'[c])
<1> DEFINE f == [d \in Client |-> Len(queue[d])]
           g == [d \in Client |-> Len(queue'[d])]
<1>1. f \in [Client -> Nat] /\ g \in [Client -> Nat]
  BY DEF Lists
<1>2. \A d \in Client : d # c => g[d] = f[d]
  OBVIOUS
<1>3. f[c] = Len(queue[c]) /\ g[c] = Len(queue'[c])
  OBVIOUS
<1>4. InUse = Total(f) /\ InUse' = Total(g)
  BY DEF InUse
<1> HIDE DEF f, g
<1>5. Total(g) + f[c] = Total(f) + g[c]
  BY <1>1, <1>2, WriteBounds, TotalReplaced
<1>6. Total(f) \in Nat /\ Total(g) \in Nat
  BY <1>1, WriteBounds, UnitsFinite
<1>7. QED BY <1>3, <1>4, <1>5, <1>6

LEMMA ListBound ==
    ASSUME QInv, NEW c \in Client
    PROVE  /\ InUse \in Nat /\ InUse <= PoolSize /\ pool <= PoolSize
           /\ Len(queue[c]) <= PoolSize
<1> DEFINE f == [d \in Client |-> Len(queue[d])]
<1>1. f \in [Client -> Nat]
  BY DEF QInv, QShape, Lists
<1>2. InUse = Total(f) /\ f[c] = Len(queue[c])
  BY DEF InUse
<1> HIDE DEF f
<1>3. f[c] <= Total(f) /\ Total(f) \in Nat /\ f[c] \in Nat
  BY <1>1, WriteBounds, PartOfTotal, UnitsFinite
<1>4. pool + InUse = PoolSize /\ pool \in Nat /\ PoolSize \in Nat
  BY WriteBounds DEF QInv, QShape, PoolIsConserved
<1>5. QED BY <1>2, <1>3, <1>4

\* A list of a connection is given back as a whole.
LEMMA ClearedFacts ==
    ASSUME QInv, NEW c \in Client, QueueFreed(c)
    PROVE  /\ pool' \in Nat /\ queue' \in Lists /\ left' \in [Client -> 0 .. Timeout]
           /\ DOMAIN accepted' = Client /\ PoolIsConserved'
<1>1. /\ pool' = pool + Len(queue[c])
      /\ queue' = [queue EXCEPT ![c] = <<>>]
      /\ left' = [left EXCEPT ![c] = 0]
      /\ accepted' = [accepted EXCEPT ![c] = EmptyBag]
  BY DEF QueueFreed
<1>2. /\ queue \in Lists /\ left \in [Client -> 0 .. Timeout] /\ pool \in Nat /\ DOMAIN accepted = Client
      /\ Len(queue[c]) \in Nat
  BY DEF QInv, QShape, Lists
<1>3. queue' \in Lists /\ queue'[c] = <<>> /\ \A d \in Client : d # c => queue'[d] = queue[d]
  BY <1>1, <1>2 DEF Lists
<1>4. left' \in [Client -> 0 .. Timeout]
  BY <1>1, <1>2, WriteBounds
<1>5. pool' \in Nat
  BY <1>1, <1>2
<1>6. InUse \in Nat /\ InUse' \in Nat /\ InUse' + Len(queue[c]) = InUse + 0
  BY <1>2, <1>3, InUseReplaced
<1>7. PoolIsConserved'
  <2>1. pool + InUse = PoolSize /\ PoolSize \in Nat
    BY WriteBounds DEF QInv, PoolIsConserved
  <2>2. pool' = pool + Len(queue[c]) /\ pool \in Nat /\ Len(queue[c]) \in Nat
    BY <1>1, <1>2
  <2>3. pool' + InUse' = PoolSize
    BY <1>6, <2>1, <2>2
  <2>4. QED BY <2>3 DEF PoolIsConserved
<1>8. QED BY <1>1, <1>2, <1>3, <1>4, <1>5, <1>7

LEMMA InUseKept ==
    ASSUME UNCHANGED <<pool, queue>>
    PROVE  PoolIsConserved' <=> PoolIsConserved
BY DEF PoolIsConserved, InUse

\* A set of numbers has a least one.
LEMMA LeastNumber ==
    ASSUME NEW S \in SUBSET Nat, S # {}
    PROVE  \E x \in S : \A y \in S : x <= y
<1>1. \E x \in S : \A y \in S : <<y, x>> \notin OpToRel(<, Nat)
  BY NatLessThanWellFounded, WFMin
<1>2. PICK x \in S : \A y \in S : <<y, x>> \notin OpToRel(<, Nat)
  BY <1>1
<1>3. ASSUME NEW y \in S PROVE x <= y
  <2>1. <<y, x>> \in Nat \X Nat /\ <<y, x>> \notin OpToRel(<, Nat)
    BY <1>2
  <2>2. ~ (<<y, x>>[1] < <<y, x>>[2])
    BY <2>1, Zenon DEF OpToRel
  <2>3. QED BY <2>2
<1>4. QED BY <1>3

LEMMA MinFacts ==
    ASSUME NEW n \in Nat, NEW S \in SUBSET (0 .. n), S # {}
    PROVE  Min(S) \in 0 .. n
<1>1. S \in SUBSET Nat
  OBVIOUS
<1>2. PICK x \in S : \A y \in S : x <= y
  BY <1>1, LeastNumber
<1>3. Min(S) \in S
  BY <1>2 DEF Min
<1>4. QED BY <1>3

LEMMA QInit ==
    ASSUME QWInit
    PROVE  QInv
<1> DEFINE f == [c \in Client |-> Len(queue[c])]
<1>1. QShape
  BY WriteBounds DEF QWInit, QShape, Lists
<1>2. f \in [Client -> Nat] /\ \A c \in Client : f[c] = 0
  BY DEF QWInit
<1>3. InUse = Total(f)
  BY DEF InUse
<1> HIDE DEF f
<1>4. InUse = 0
  BY <1>2, <1>3, TotalZero
<1>5. PoolIsConserved
  BY <1>4, WriteBounds DEF QWInit, PoolIsConserved
<1>6. QED BY <1>1, <1>5 DEF QInv

LEMMA PrepareWriteStep ==
    ASSUME QInv, NEW c \in Client, NEW e \in Entry, PrepareWrite(c, e)
    PROVE  QInv'
<1>1. /\ pool > 0 /\ pool' = pool - 1
      /\ queue' = [queue EXCEPT ![c] = Inserted(queue[c], e)]
      /\ left' = [left EXCEPT ![c] = Timeout] /\ hsTimer' = 0
      /\ UNCHANGED <<connected, terminating, link, host>>
      /\ DOMAIN accepted' = DOMAIN accepted
  BY DEF PrepareWrite, TimerAfterPrepare, connVars
<1>2. /\ queue \in Lists /\ left \in [Client -> 0 .. Timeout] /\ pool \in Nat /\ queue[c] \in Seq(Entry)
      /\ Len(queue[c]) \in Nat
  BY DEF QInv, QShape, Lists
<1>3. /\ queue' \in Lists /\ Len(queue'[c]) = Len(queue[c]) + 1
      /\ \A d \in Client : d # c => queue'[d] = queue[d]
  <2>1. PICK q \in Seq(Entry) : q = Inserted(queue[c], e) /\ Len(q) = Len(queue[c]) + 1
    BY <1>2, InsertedFacts
  <2>2. queue' = [queue EXCEPT ![c] = q]
    BY <1>1, <2>1
  <2>3. QED BY <1>2, <2>1, <2>2 DEF Lists
<1>4. InUse \in Nat /\ InUse' \in Nat /\ InUse' + Len(queue[c]) = InUse + Len(queue'[c])
  BY <1>2, <1>3, InUseReplaced
<1>5. PoolIsConserved'
  <2>1. pool + InUse = PoolSize /\ PoolSize \in Nat
    BY WriteBounds DEF QInv, PoolIsConserved
  <2>2. pool' = pool - 1 /\ pool \in Nat /\ Len(queue[c]) \in Nat /\ Len(queue'[c]) = Len(queue[c]) + 1
    BY <1>1, <1>2, <1>3
  <2>3. InUse' = InUse + 1
    BY <1>4, <2>2
  <2>4. pool' + InUse' = PoolSize
    BY <1>4, <2>1, <2>2, <2>3
  <2>5. QED BY <2>4 DEF PoolIsConserved
<1>6. left' \in [Client -> 0 .. Timeout]
  BY <1>1, <1>2, WriteBounds
<1>7. QShape'
  <2>1. pool' \in Nat
    BY <1>1, <1>2
  <2>2. QED BY <1>1, <1>3, <1>6, <2>1, WriteBounds DEF QInv, QShape
<1>8. QED BY <1>5, <1>7 DEF QInv

\* A step that frees the list of one connection.
LEMMA ClearStep ==
    ASSUME QInv, NEW c \in Client, QueueFreed(c), UNCHANGED <<link, hsTimer, host>>,
           connected' \subseteq Client, terminating' \subseteq connected', link \subseteq connected'
    PROVE  QInv'
BY ClearedFacts DEF QInv, QShape

\* A step that touches no list and no entry.
LEMMA OtherStep ==
    ASSUME QInv, UNCHANGED <<pool, queue, accepted>>,
           left' \in [Client -> 0 .. Timeout], connected' \subseteq Client,
           terminating' \subseteq connected', link' \subseteq connected',
           hsTimer' \in 0 .. Timeout \cup {Off}, host' \in {"idle", "timer"}
    PROVE  QInv'
BY InUseKept DEF QInv, QShape

LEMMA ResetStep ==
    ASSUME QInv, Reset
    PROVE  QInv'
<1> DEFINE g == [c \in Client |-> Len(queue'[c])]
           f == [c \in Client |-> Len(queue[c])]
<1>1. /\ pool' = pool + InUse /\ queue' = [c \in Client |-> <<>>] /\ left' = [c \in Client |-> 0]
      /\ DOMAIN accepted' = Client /\ connected' = {} /\ terminating' = {} /\ link' = {}
      /\ hsTimer' = 0 /\ host' = host
  BY DEF Reset
<1>2. g \in [Client -> Nat] /\ (\A c \in Client : g[c] = 0) /\ f \in [Client -> Nat]
  BY <1>1 DEF QInv, QShape, Lists
<1>3. InUse' = Total(g) /\ InUse = Total(f)
  BY DEF InUse
<1> HIDE DEF f, g
<1>4. InUse' = 0 /\ InUse \in Nat
  BY <1>2, <1>3, TotalZero, WriteBounds, UnitsFinite
<1>5. pool' \in Nat /\ pool' + 0 = PoolSize
  BY <1>1, <1>4, WriteBounds DEF QInv, QShape, PoolIsConserved
<1>6. PoolIsConserved'
  BY <1>4, <1>5 DEF PoolIsConserved
<1>7. QShape'
  <2>1. queue' \in Lists /\ left' \in [Client -> 0 .. Timeout]
    BY <1>1, WriteBounds DEF Lists
  <2>2. QED BY <1>1, <1>5, <2>1, WriteBounds DEF QInv, QShape
<1>8. QED BY <1>6, <1>7 DEF QInv

LEMMA QPreserved ==
    ASSUME QInv, [QWNext]_writeVars
    PROVE  QInv'
<1>1. QShape /\ Timeout \in Nat /\ Timeout > 0
  BY WriteBounds DEF QInv
<1>2. CASE UNCHANGED writeVars
  BY <1>1, <1>2, OtherStep DEF QShape, writeVars, connVars
<1>3. ASSUME NEW c \in Client, Connect(c) PROVE QInv'
  BY <1>1, <1>3, OtherStep DEF QShape, Connect
<1>4. ASSUME NEW c \in Client, Request(c) PROVE QInv'
  <2>1. ASSUME NEW e \in Entry, PrepareWrite(c, e) PROVE QInv'
    BY <2>1, PrepareWriteStep
  <2>2. CASE PrepareFails(c)
    <3>1. pool' = pool
      BY <1>1, <2>2 DEF PrepareFails, PoolAfterFailure, QShape
    <3>2. QED BY <1>1, <2>2, <3>1, OtherStep DEF QShape, PrepareFails, connVars
  <2>3. CASE ExecuteWrite(c)
    BY <1>1, <2>3, ClearStep DEF QShape, ExecuteWrite, connVars
  <2>4. CASE ExecuteFails(c)
    BY <1>1, <2>4, OtherStep DEF QShape, ExecuteFails, connVars
  <2>5. CASE CancelWrite(c)
    BY <1>1, <2>5, ClearStep DEF QShape, CancelWrite, connVars
  <2>6. QED BY <1>4, <2>1, <2>2, <2>3, <2>4, <2>5 DEF Request
<1>5. ASSUME NEW c \in Client, LinkLost(c) PROVE QInv'
  BY <1>1, <1>5, OtherStep DEF QShape, LinkLost
<1>6. ASSUME NEW c \in Client, ConnectionBroken(c) PROVE QInv'
  BY <1>1, <1>6, ClearStep DEF QShape, ConnectionBroken, TerminatingWithout
<1>7. ASSUME NEW c \in Client, TerminateExpired(c) PROVE QInv'
  BY <1>1, <1>7, OtherStep DEF QShape, TerminateExpired, Expired, Timed
<1>8. CASE Reset
  BY <1>8, ResetStep
<1>9. CASE Tick
  <2>1. /\ left' = [c \in Client |-> IF left[c] > 0 THEN left[c] - 1 ELSE 0]
        /\ hsTimer # 0 /\ hsTimer' = (IF hsTimer = Off THEN Off ELSE hsTimer - 1)
        /\ UNCHANGED <<pool, queue, connected, terminating, link, host, accepted>>
    BY <1>9 DEF Tick, connVars
  <2>2. left' \in [Client -> 0 .. Timeout]
    BY <1>1, <2>1 DEF QShape
  <2>3. hsTimer' \in 0 .. Timeout \cup {Off}
    BY <1>1, <2>1 DEF QShape
  <2>4. QED BY <1>1, <2>1, <2>2, <2>3, OtherStep DEF QShape
<1>10. CASE TimerExp
  BY <1>1, <1>10, OtherStep DEF QShape, TimerExp, connVars
<1>11. CASE TimerReturns
  <2> DEFINE S == {left[c] : c \in Timed}
  <2>1. /\ host' = "idle" /\ hsTimer' = (IF Timed = {} THEN Off ELSE Min(S))
        /\ UNCHANGED <<pool, queue, left, connected, terminating, link, accepted>>
    BY <1>11 DEF TimerReturns, connVars
  <2>2. S \in SUBSET (0 .. Timeout) /\ (Timed # {} => S # {})
    BY <1>1 DEF QShape, Timed
  <2> HIDE DEF S
  <2>3. Timed # {} => Min(S) \in 0 .. Timeout
    BY <1>1, <2>2, MinFacts
  <2>4. hsTimer' \in 0 .. Timeout \cup {Off}
    BY <2>1, <2>3
  <2>5. QED BY <1>1, <2>1, <2>4, OtherStep DEF QShape
<1>12. QED BY <1>2, <1>3, <1>4, <1>5, <1>6, <1>7, <1>8, <1>9, <1>10, <1>11 DEF QWNext

LEMMA QInvariant == QWSpec => []QInv
<1>1. QWInit => QInv
  BY QInit
<1>2. QInv /\ [QWNext]_writeVars => QInv'
  BY QPreserved
<1>3. QED BY <1>1, <1>2, PTL DEF QWSpec

\* Queued writes of the ATT server: every variable has its type in every reachable
\* state, so that no list of a connection outgrows the pool.
THEOREM WritesTypeCorrect == QWSpec => []QWTypeOK
<1>1. QInv => QWTypeOK
  <2> SUFFICES ASSUME QInv PROVE QWTypeOK
    OBVIOUS
  <2>1. PoolSize \in Nat /\ QShape
    BY WriteBounds DEF QInv
  <2>2. pool \in 0 .. PoolSize
    <3>1. InUse \in Nat
      <4> DEFINE f == [c \in Client |-> Len(queue[c])]
      <4>1. f \in [Client -> Nat]
        BY <2>1 DEF QShape, Lists
      <4>2. InUse = Total(f)
        BY DEF InUse
      <4> HIDE DEF f
      <4>3. QED BY <4>1, <4>2, WriteBounds, UnitsFinite
    <3>2. QED BY <2>1, <3>1 DEF QInv, QShape, PoolIsConserved
  <2>3. ASSUME NEW c \in Client
        PROVE  queue[c] \in UNION {[1 .. n -> Entry] : n \in 0 .. PoolSize}
    <3>1. queue[c] \in Seq(Entry) /\ Len(queue[c]) <= PoolSize
      BY <2>1, ListBound DEF QShape, Lists
    <3>2. Len(queue[c]) \in 0 .. PoolSize /\ queue[c] \in [1 .. Len(queue[c]) -> Entry]
      BY <2>1, <3>1
    <3>3. QED BY <3>2
  <2>4. queue \in [Client -> UNION {[1 .. n -> Entry] : n \in 0 .. PoolSize}]
    BY <2>1, <2>3 DEF QShape, Lists
  <2>5. QED BY <2>1, <2>2, <2>4 DEF QShape, QWTypeOK
<1>2. QED BY <1>1, QInvariant, PTL

\* ble_att_svr_prep_entry_pool: no entry is lost, whatever becomes of the request,
\* the connection or the host.
THEOREM PoolCorrect == QWSpec => []PoolIsConserved
<1>1. QInv => PoolIsConserved
  BY DEF QInv
<1>2. QED BY <1>1, QInvariant, PTL
-----------------------------------------------------------------------------
(***************************************************************************)
(* What an execution writes.  The list of a connection is sorted and holds *)
(* what was accepted (ListsHold); such a list is valid iff its entries     *)
(* cover each place of each attribute once (CoversValid, ValidCovers), and *)
(* then the concatenation of its texts puts every octet where the offset   *)
(* of its entry says (ValueFacts).                                         *)
(***************************************************************************)
LEMMA EntryFacts ==
    ASSUME NEW e \in Entry
    PROVE  /\ e.handle \in Nat /\ e.offset \in Nat /\ e.text \in Seq(Octet)
           /\ Len(e.text) \in Nat \ {0}
           /\ EndOf(e) \in Nat /\ EndOf(e) = e.offset + Len(e.text) /\ e.offset < EndOf(e)
<1>1. e.handle \in Nat /\ e.offset \in Nat /\ e.text \in Seq(Octet) /\ e.text # <<>>
  BY EntryAssumption
<1>2. Len(e.text) \in Nat \ {0}
  BY <1>1
<1>3. QED BY <1>1, <1>2 DEF EndOf

Sorted(q) == \A i, j \in DOMAIN q : i <= j => Precedes(q[i], q[j])

\* The entries of one attribute stand together.
LEMMA Together ==
    ASSUME NEW q \in Seq(Entry), Sorted(q), NEW i \in DOMAIN q, NEW j \in DOMAIN q, NEW k \in DOMAIN q,
           i <= j, j <= k, q[i].handle = q[k].handle
    PROVE  q[j].handle = q[i].handle
<1>1. Precedes(q[i], q[j]) /\ Precedes(q[j], q[k])
  BY DEF Sorted
<1>2. q[i].handle \in Nat /\ q[j].handle \in Nat /\ q[k].handle \in Nat
  BY EntryFacts
<1>3. QED BY <1>1, <1>2 DEF Precedes

\* In a valid list the entries of an attribute do not overlap.
LEMMA NoOverlap ==
    ASSUME NEW q \in Seq(Entry), Sorted(q), Valid(q), NEW i \in DOMAIN q, NEW j \in DOMAIN q,
           i < j, q[i].handle = q[j].handle
    PROVE  EndOf(q[i]) <= q[j].offset
<1> DEFINE Bad == {k \in DOMAIN q : /\ i < k /\ q[k].handle = q[i].handle
                                    /\ ~ (EndOf(q[i]) <= q[k].offset)}
<1>1. SUFFICES ASSUME Bad # {} PROVE FALSE
  OBVIOUS
<1>2. Bad \in SUBSET Nat
  OBVIOUS
<1>3. PICK k \in Bad : \A l \in Bad : k <= l
  BY <1>1, <1>2, LeastNumber
<1>4. /\ k \in DOMAIN q /\ k - 1 \in DOMAIN q /\ i <= k - 1 /\ k - 1 < k
      /\ i \in Nat /\ k \in Nat
  BY <1>3
<1>5. q[k - 1].handle = q[i].handle /\ q[k].handle = q[i].handle
  BY <1>3, <1>4, Together
<1>6. q[k].offset = EndOf(q[k - 1])
  BY <1>4, <1>5 DEF Valid, Follows
<1>7. /\ EndOf(q[i]) \in Nat /\ q[k].offset \in Nat /\ q[k - 1].offset \in Nat
      /\ EndOf(q[k - 1]) \in Nat /\ q[k - 1].offset < EndOf(q[k - 1])
  BY <1>4, EntryFacts
<1>8. ~ (EndOf(q[i]) <= q[k].offset)
  BY <1>3
<1>9. CASE i = k - 1
  BY <1>6, <1>7, <1>8, <1>9
<1>10. CASE i # k - 1
  <2>1. k - 1 \notin Bad
    BY <1>3, <1>4
  <2>2. EndOf(q[i]) <= q[k - 1].offset
    BY <1>4, <1>5, <1>10, <2>1
  <2>3. QED BY <1>6, <1>7, <1>8, <2>2
<1>11. QED BY <1>9, <1>10

\* The bag holds what the list is made of.
Listed(q, a) ==
    /\ q \in Seq(Entry) /\ Sorted(q)
    /\ DOMAIN a = {q[i] : i \in DOMAIN q}
    /\ \A e \in DOMAIN a : /\ a[e] \in Nat \ {0}
                           /\ a[e] = 1 <=> \A i, j \in DOMAIN q : q[i] = e /\ q[j] = e => i = j

LEMMA PieceFacts ==
    ASSUME NEW c, Listed(queue[c], accepted[c]), NEW h
    PROVE  /\ \A e : e \in Pieces(c, h) <=> \E i \in DOMAIN queue[c] : queue[c][i] = e /\ e.handle = h
           /\ Pieces(c, h) \subseteq Entry /\ IsFiniteSet(Pieces(c, h))
<1> DEFINE q == queue[c]
           f == [i \in DOMAIN q |-> q[i]]
<1>1. q \in Seq(Entry) /\ DOMAIN accepted[c] = {q[i] : i \in DOMAIN q}
  BY DEF Listed
<1>2. \A e : e \in Pieces(c, h) <=> \E i \in DOMAIN q : q[i] = e /\ e.handle = h
  BY <1>1 DEF Pieces, BagToSet
<1>3. Pieces(c, h) \subseteq Entry
  BY <1>1, <1>2
<1>4. IsFiniteSet(DOMAIN q)
  <2>1. Len(q) \in Int /\ 1 \in Int /\ DOMAIN q = 1 .. Len(q)
    BY <1>1
  <2>2. QED BY <2>1, FS_Interval
<1>5. IsFiniteSet({q[i] : i \in DOMAIN q})
  <2>1. f \in Surjection(DOMAIN q, {q[i] : i \in DOMAIN q})
    BY DEF Surjection
  <2>2. QED BY <1>4, <2>1, FS_Surjection
<1>6. Pieces(c, h) \subseteq {q[i] : i \in DOMAIN q}
  BY <1>2
<1>7. IsFiniteSet(Pieces(c, h))
  BY <1>5, <1>6, FS_Subset
<1>8. QED BY <1>2, <1>3, <1>7

\* Two entries at the same place are one, if there is just one.
LEMMA OnlyOneAt ==
    ASSUME NEW c, Listed(queue[c], accepted[c]), NEW h, NEW n \in Nat, Covers(c, h, n), NEW k \in 1 .. n,
           NEW i \in DOMAIN queue[c], NEW j \in DOMAIN queue[c],
           queue[c][i].handle = h, queue[c][j].handle = h,
           queue[c][i].offset < k, k <= EndOf(queue[c][i]),
           queue[c][j].offset < k, k <= EndOf(queue[c][j])
    PROVE  i = j
<1> DEFINE S == At(Pieces(c, h), k)
           d == queue[c][i]
           e == queue[c][j]
<1>1. d \in S /\ e \in S /\ d \in Pieces(c, h)
  BY PieceFacts DEF At
<1>2. IsFiniteSet(S)
  <2>1. S \subseteq Pieces(c, h)
    BY DEF At
  <2>2. QED BY <2>1, PieceFacts, FS_Subset
<1>3. Cardinality(S) = 1 /\ accepted[c][d] = 1
  BY <1>1 DEF Covers
<1>4. d = e
  <2> HIDE DEF S, d, e
  <2>1. \E x : S = {x}
    BY <1>2, <1>3, FS_Singleton
  <2>2. QED BY <1>1, <2>1
<1>5. d \in DOMAIN accepted[c]
  BY <1>1 DEF Pieces, BagToSet
<1>6. QED BY <1>3, <1>4, <1>5 DEF Listed

\* A place is covered by some entry.
LEMMA OneAt ==
    ASSUME NEW c, Listed(queue[c], accepted[c]), NEW h, NEW n \in Nat, Covers(c, h, n), NEW k \in 1 .. n
    PROVE  \E i \in DOMAIN queue[c] : /\ queue[c][i].handle = h
                                      /\ queue[c][i].offset < k /\ k <= EndOf(queue[c][i])
<1> DEFINE S == At(Pieces(c, h), k)
<1>1. Cardinality(S) = 1
  BY DEF Covers
<1>2. S # {}
  BY <1>1, FS_EmptySet
<1>3. PICK e \in S : TRUE
  BY <1>2
<1>4. e \in Pieces(c, h) /\ e.offset < k /\ k <= EndOf(e)
  BY <1>3 DEF At
<1>5. QED BY <1>4, PieceFacts

\* What covers every place once is valid.
LEMMA CoversValid ==
    ASSUME NEW c, Listed(queue[c], accepted[c]),
           \A h \in Handles(queue[c]) : \E n \in 1 .. MaxLen : Covers(c, h, n)
    PROVE  Valid(queue[c])
<1> DEFINE q == queue[c]
<1> SUFFICES ASSUME NEW i \in DOMAIN q
             PROVE  Follows(q, i) /\ EndOf(q[i]) <= MaxLen
  BY DEF Valid
<1>1. q \in Seq(Entry) /\ Sorted(q) /\ MaxLen \in Nat
  BY NumberAssumption DEF Listed
<1> DEFINE h == q[i].handle
<1>2. h \in Handles(q)
  BY DEF Handles
<1>3. PICK n \in 1 .. MaxLen : Covers(c, h, n)
  BY <1>2
<1>4. n \in Nat /\ n <= MaxLen
  BY <1>1
<1>5. /\ q[i].handle \in Nat /\ q[i].offset \in Nat /\ EndOf(q[i]) \in Nat
      /\ q[i].offset < EndOf(q[i])
  BY <1>1, EntryFacts
<1>6. EndOf(q[i]) <= n
  <2>1. q[i] \in Pieces(c, h)
    BY PieceFacts
  <2>2. QED BY <1>3, <2>1 DEF Covers
<1>7. EndOf(q[i]) <= MaxLen
  BY <1>1, <1>4, <1>5, <1>6
<1>8. ASSUME NEW j \in DOMAIN q, q[j].handle = h
      PROVE  /\ j <= i => q[j].offset <= q[i].offset
             /\ i <= j => q[i].offset <= q[j].offset
             /\ q[j].offset \in Nat /\ EndOf(q[j]) \in Nat /\ q[j].offset < EndOf(q[j])
  BY <1>1, <1>5, <1>8, EntryFacts DEF Sorted, Precedes
<1>9. i \in Nat /\ \A j \in DOMAIN q : j \in Nat
  BY <1>1
<1>10. CASE i = 1 \/ q[i - 1].handle # h
  <2>1. 1 \in 1 .. n
    BY <1>4, <1>5, <1>6
  <2>2. PICK j \in DOMAIN q : q[j].handle = h /\ q[j].offset < 1 /\ 1 <= EndOf(q[j])
    BY <1>3, <1>4, <2>1, OneAt
  <2>3. i <= j
    <3>1. ASSUME j < i PROVE FALSE
      <4>1. i # 1 /\ i - 1 \in DOMAIN q /\ j <= i - 1 /\ i - 1 <= i
        BY <1>1, <3>1
      <4>2. q[i - 1].handle = h
        BY <1>1, <2>2, <4>1, Together
      <4>3. QED BY <1>10, <4>1, <4>2
    <3>2. QED BY <1>9, <3>1
  <2>4. q[i].offset = 0
    BY <1>5, <1>8, <2>2, <2>3
  <2>5. QED BY <1>7, <1>10, <2>4 DEF Follows
<1>11. CASE i # 1 /\ q[i - 1].handle = h
  <2> DEFINE p == i - 1
  <2>1. p \in DOMAIN q /\ p < i /\ p \in Nat
    BY <1>1, <1>11
  <2>2. /\ q[p].handle = h /\ q[p].offset <= q[i].offset
        /\ q[p].offset \in Nat /\ EndOf(q[p]) \in Nat /\ q[p].offset < EndOf(q[p])
    BY <1>8, <1>9, <1>11, <2>1
  <2>3. EndOf(q[p]) <= q[i].offset
    <3>1. ASSUME q[i].offset < EndOf(q[p]) PROVE FALSE
      <4> DEFINE k == q[i].offset + 1
      <4>1. k \in 1 .. n /\ q[i].offset < k /\ k <= EndOf(q[i]) /\ q[p].offset < k /\ k <= EndOf(q[p])
        BY <1>4, <1>5, <1>6, <2>2, <3>1
      <4>2. i = p
        BY <1>3, <1>4, <2>1, <2>2, <4>1, OnlyOneAt
      <4>3. QED BY <2>1, <4>2
    <3>2. QED BY <1>5, <2>2, <3>1
  <2>4. q[i].offset <= EndOf(q[p])
    <3>1. ASSUME EndOf(q[p]) < q[i].offset PROVE FALSE
      <4> DEFINE k == EndOf(q[p]) + 1
      <4>1. k \in 1 .. n /\ EndOf(q[p]) \in 1 .. n /\ k <= q[i].offset
        BY <1>4, <1>5, <1>6, <2>2, <3>1
      <4>2. PICK j \in DOMAIN q : q[j].handle = h /\ q[j].offset < k /\ k <= EndOf(q[j])
        BY <1>3, <1>4, <4>1, OneAt
      <4>3. j < i
        BY <1>5, <1>8, <1>9, <4>1, <4>2
      <4>4. j < p
        BY <1>9, <2>1, <2>2, <4>2, <4>3
      <4>5. q[j].offset <= q[p].offset
        <5>1. Precedes(q[j], q[p])
          BY <1>1, <2>1, <4>4 DEF Sorted
        <5>2. q[j].handle = q[p].handle /\ q[j].handle \in Nat
          BY <1>5, <2>2, <4>2
        <5>3. QED BY <5>1, <5>2 DEF Precedes
      <4>6. q[j].offset < EndOf(q[p]) /\ EndOf(q[p]) <= EndOf(q[j])
        BY <1>8, <2>2, <4>2, <4>5
      <4>7. j = p
        BY <1>3, <1>4, <2>1, <2>2, <4>1, <4>2, <4>6, OnlyOneAt
      <4>8. QED BY <1>9, <2>1, <4>4, <4>7
    <3>2. QED BY <1>5, <2>2, <3>1
  <2>5. q[i].offset = EndOf(q[p])
    BY <1>5, <2>2, <2>3, <2>4
  <2>6. QED BY <1>7, <1>11, <2>5 DEF Follows
<1>12. QED BY <1>10, <1>11

\* Concatenation comes with the concatenations of all beginnings.
LEMMA FlattenFacts ==
    ASSUME NEW T, NEW s \in Seq(Seq(T)), Len(s) # 0
    PROVE  \E f : /\ f = [i \in 1 .. Len(s) |-> IF i = 1 THEN s[i] ELSE f[i - 1] \o s[i]]
                  /\ FlattenSeq(s) = f[Len(s)]
<1> DEFINE Flat(f, m) == f = [i \in 1 .. m |-> IF i = 1 THEN s[i] ELSE f[i - 1] \o s[i]]
           Missing == {m \in 1 .. Len(s) : ~ \E g : Flat(g, m)}
<1>1. ASSUME Missing # {} PROVE FALSE
  <2>1. PICK m \in Missing : \A l \in Missing : m <= l
    <3> HIDE DEF Flat
    <3>1. Missing \in SUBSET Nat
      OBVIOUS
    <3>2. QED BY <1>1, <3>1, LeastNumber
  <2>2. m \in 1 .. Len(s) /\ ~ \E g : Flat(g, m)
    <3> HIDE DEF Flat
    <3>1. QED OBVIOUS
  <2>3. CASE m = 1
    <3> DEFINE g == [i \in 1 .. 1 |-> s[i]]
               h == [i \in 1 .. 1 |-> IF i = 1 THEN s[i] ELSE g[i - 1] \o s[i]]
    <3>1. \A i \in 1 .. 1 : i = 1
      OBVIOUS
    <3>2. g = h
      BY <3>1
    <3>3. QED BY <2>2, <2>3, <3>2
  <2>4. CASE m # 1
    <3>1. m - 1 \in 1 .. Len(s) /\ m - 1 \notin Missing
      <4> HIDE DEF Flat
      <4>1. m - 1 \in 1 .. Len(s) /\ ~ (m <= m - 1)
        BY <2>2, <2>4
      <4>2. QED BY <2>1, <4>1
    <3>2. PICK g : Flat(g, m - 1)
      <4> HIDE DEF Flat
      <4>1. QED BY <3>1
    <3>3. \A i \in 1 .. (m - 1) : g[i] = IF i = 1 THEN s[i] ELSE g[i - 1] \o s[i]
      BY <3>2
    <3> DEFINE f == [i \in 1 .. m |-> IF i = m THEN g[m - 1] \o s[m] ELSE g[i]]
               h == [i \in 1 .. m |-> IF i = 1 THEN s[i] ELSE f[i - 1] \o s[i]]
    <3>4. ASSUME NEW i \in 1 .. m PROVE f[i] = h[i]
      <4>1. h[i] = IF i = 1 THEN s[i] ELSE f[i - 1] \o s[i]
        OBVIOUS
      <4>2. f[i] = IF i = m THEN g[m - 1] \o s[m] ELSE g[i]
        OBVIOUS
      <4>3. i # 1 => f[i - 1] = g[i - 1]
        BY <2>2
      <4> HIDE DEF f, h
      <4>4. i # m => i \in 1 .. (m - 1)
        BY <2>2
      <4>5. CASE i = m
        BY <2>4, <4>1, <4>2, <4>3, <4>5
      <4>6. CASE i # m
        <5>1. g[i] = IF i = 1 THEN s[i] ELSE g[i - 1] \o s[i]
          BY <3>3, <4>4, <4>6
        <5>2. QED BY <4>1, <4>2, <4>3, <4>6, <5>1
      <4>7. QED BY <4>5, <4>6
    <3>5. f = h
      BY <3>4
    <3>6. QED BY <2>2, <3>5
  <2>5. QED BY <2>3, <2>4
<1>2. Len(s) \in 1 .. Len(s)
  OBVIOUS
<1>3. \E f : Flat(f, Len(s))
  <2> HIDE DEF Flat
  <2>1. QED BY <1>1, <1>2
<1>4. FlattenSeq(s) = (CHOOSE f : Flat(f, Len(s)))[Len(s)]
  BY DEF FlattenSeq
<1> HIDE DEF Flat
<1>5. Flat(CHOOSE f : Flat(f, Len(s)), Len(s))
  BY <1>3
<1>6. QED BY <1>4, <1>5 DEF Flat

LEMMA ConcatFacts ==
    ASSUME NEW T, NEW a \in Seq(T), NEW b \in Seq(T)
    PROVE  /\ a \o b \in Seq(T) /\ Len(a \o b) = Len(a) + Len(b)
           /\ \A k \in 1 .. Len(a) : (a \o b)[k] = a[k]
           /\ \A k \in 1 .. Len(b) : (a \o b)[Len(a) + k] = b[k]
OBVIOUS

\* What is put together for an attribute from the first entries of the list.
PutTogether(q, h, i, v) ==
    /\ v \in Seq(Octet)
    /\ \A j \in 1 .. i : q[j].handle = h =>
         /\ EndOf(q[j]) <= Len(v)
         /\ \A k \in 1 .. Len(q[j].text) : v[q[j].offset + k] = q[j].text[k]
    /\ Len(v) = 0 \/ \E m \in 1 .. i : q[m].handle = h /\ Len(v) = EndOf(q[m])

LEMMA OneEntryMore ==
    ASSUME NEW q \in Seq(Entry), Sorted(q), Valid(q), NEW h, NEW i \in Nat, i + 1 \in DOMAIN q,
           NEW v, PutTogether(q, h, i, v), NEW t, t = IF q[i + 1].handle = h THEN q[i + 1].text ELSE <<>>
    PROVE  PutTogether(q, h, i + 1, v \o t)
<1> DEFINE n == i + 1
           e == q[n]
<1>1. v \in Seq(Octet) /\ Len(v) \in Nat /\ n \in DOMAIN q /\ n \in 1 .. Len(q) /\ Len(q) \in Nat
  BY DEF PutTogether
<1>2. CASE e.handle # h
  <2>1. v \o t = v
    BY <1>1, <1>2
  <2>2. ASSUME NEW j \in 1 .. n, q[j].handle = h PROVE j \in 1 .. i
    BY <1>2, <2>2
  <2>3. 1 .. i \subseteq 1 .. n
    OBVIOUS
  <2>4. QED BY <2>1, <2>2, <2>3 DEF PutTogether
<1>3. CASE e.handle = h
  <2>1. /\ t = e.text /\ e.offset \in Nat /\ t \in Seq(Octet) /\ Len(t) \in Nat \ {0}
        /\ EndOf(e) = e.offset + Len(t) /\ EndOf(e) \in Nat
    BY <1>1, <1>3, EntryFacts
  <2>2. Len(v) = e.offset
    <3>1. CASE n = 1 \/ q[n - 1].handle # h
      <4>1. e.offset = 0
        BY <1>1, <1>3, <3>1 DEF Valid, Follows
      <4>2. ASSUME NEW m \in 1 .. i, q[m].handle = h PROVE FALSE
        <5>1. n - 1 \in DOMAIN q /\ m \in DOMAIN q /\ m <= n - 1 /\ n - 1 <= n /\ n # 1
          BY <1>1
        <5>2. q[n - 1].handle = q[m].handle
          BY <1>1, <1>3, <4>2, <5>1, Together
        <5>3. QED BY <3>1, <4>2, <5>1, <5>2
      <4>3. Len(v) = 0
        BY <4>2 DEF PutTogether
      <4>4. QED BY <4>1, <4>3
    <3>2. CASE n # 1 /\ q[n - 1].handle = h
      <4>1. n - 1 = i /\ i \in 1 .. i /\ i \in DOMAIN q /\ q[i].handle = h
        BY <1>1, <3>2
      <4>2. e.offset = EndOf(q[i])
        BY <1>1, <1>3, <3>2, <4>1 DEF Valid, Follows
      <4>3. EndOf(q[i]) <= Len(v) /\ EndOf(q[i]) \in Nat /\ EndOf(q[i]) > 0
        <5>1. q[i].offset \in Nat /\ q[i].offset < EndOf(q[i]) /\ EndOf(q[i]) \in Nat
          BY <4>1, EntryFacts
        <5>2. QED BY <4>1, <5>1 DEF PutTogether
      <4>4. PICK m \in 1 .. i : q[m].handle = h /\ Len(v) = EndOf(q[m])
        BY <1>1, <4>3 DEF PutTogether
      <4>5. EndOf(q[m]) <= e.offset
        <5>1. m \in DOMAIN q /\ m < n
          BY <1>1
        <5>2. QED BY <1>1, <1>3, <4>4, <5>1, NoOverlap
      <4>6. QED BY <1>1, <2>1, <4>2, <4>3, <4>4, <4>5
    <3>3. QED BY <3>1, <3>2
  <2> DEFINE w == v \o t
  <2>3. /\ w \in Seq(Octet) /\ Len(w) = EndOf(e)
        /\ \A k \in 1 .. Len(v) : w[k] = v[k]
        /\ \A k \in 1 .. Len(t) : w[Len(v) + k] = t[k]
    <3>1. /\ w \in Seq(Octet) /\ Len(w) = Len(v) + Len(t)
          /\ \A k \in 1 .. Len(v) : w[k] = v[k]
          /\ \A k \in 1 .. Len(t) : w[Len(v) + k] = t[k]
      BY <1>1, <2>1, ConcatFacts
    <3> HIDE DEF w
    <3>2. Len(w) = EndOf(e)
      BY <2>1, <2>2, <3>1
    <3>3. QED BY <3>1, <3>2
  <2> HIDE DEF w
  <2>4. ASSUME NEW j \in 1 .. n, q[j].handle = h
        PROVE  /\ EndOf(q[j]) <= Len(w)
               /\ \A k \in 1 .. Len(q[j].text) : w[q[j].offset + k] = q[j].text[k]
    <3>1. CASE j = n
      BY <1>1, <2>1, <2>2, <2>3, <3>1
    <3>2. CASE j # n
      <4>1. j \in 1 .. i /\ q[j] \in Entry
        BY <1>1, <3>2
      <4>2. /\ EndOf(q[j]) <= Len(v)
            /\ \A k \in 1 .. Len(q[j].text) : v[q[j].offset + k] = q[j].text[k]
        BY <2>4, <4>1 DEF PutTogether
      <4>3. q[j].offset \in Nat /\ Len(q[j].text) \in Nat /\ EndOf(q[j]) = q[j].offset + Len(q[j].text)
        BY <4>1, EntryFacts
      <4>4. \A k \in 1 .. Len(q[j].text) : q[j].offset + k \in 1 .. Len(v)
        BY <1>1, <4>2, <4>3
      <4>5. Len(v) <= Len(w)
        BY <1>1, <2>1, <2>2, <2>3
      <4>6. EndOf(q[j]) <= Len(w)
        BY <1>1, <4>2, <4>3, <4>5, <2>3
      <4>7. \A k \in 1 .. Len(q[j].text) : w[q[j].offset + k] = v[q[j].offset + k]
        BY <2>3, <4>4
      <4>8. QED BY <4>2, <4>6, <4>7
    <3>3. QED BY <3>1, <3>2
  <2>5. n \in 1 .. n
    BY <1>1
  <2>6. QED BY <1>3, <2>3, <2>4, <2>5 DEF PutTogether, w
<1>4. QED BY <1>2, <1>3

\* The value of an attribute has the octets of its entries where their offsets say.
LEMMA ValueFacts ==
    ASSUME NEW q \in Seq(Entry), Sorted(q), Valid(q), NEW h
    PROVE  PutTogether(q, h, Len(q), ValueFor(q, h))
<1> DEFINE s == [i \in DOMAIN q |-> IF q[i].handle = h THEN q[i].text ELSE <<>>]
<1>1. Len(q) \in Nat /\ DOMAIN q = 1 .. Len(q)
  OBVIOUS
<1>2. \A i \in 1 .. Len(q) : s[i] \in Seq(Octet)
  BY <1>1, EntryFacts
<1>3. s \in Seq(Seq(Octet)) /\ Len(s) = Len(q)
  BY <1>1, <1>2
<1>4. ValueFor(q, h) = FlattenSeq(s)
  BY DEF ValueFor
<1>5. \A i \in 1 .. Len(q) : s[i] = IF q[i].handle = h THEN q[i].text ELSE <<>>
  BY <1>1
<1>6. PutTogether(q, h, 0, <<>>)
  BY DEF PutTogether
<1> HIDE DEF s
<1>7. CASE Len(q) = 0
  <2>1. FlattenSeq(s) = <<>>
    BY <1>3, <1>7 DEF FlattenSeq
  <2>2. QED BY <1>4, <1>6, <1>7, <2>1
<1>8. CASE Len(q) # 0
  <2>1. PICK f : /\ f = [i \in 1 .. Len(s) |-> IF i = 1 THEN s[i] ELSE f[i - 1] \o s[i]]
                 /\ FlattenSeq(s) = f[Len(s)]
    BY <1>3, <1>8, FlattenFacts
  <2>2. \A i \in 1 .. Len(q) : f[i] = IF i = 1 THEN s[i] ELSE f[i - 1] \o s[i]
    BY <1>3, <2>1
  <2> DEFINE Bad == {i \in 1 .. Len(q) : ~ PutTogether(q, h, i, f[i])}
  <2>3. ASSUME Bad # {} PROVE FALSE
    <3>1. PICK i \in Bad : \A j \in Bad : i <= j
      <4>1. Bad \in SUBSET Nat
        OBVIOUS
      <4>2. QED BY <2>3, <4>1, LeastNumber
    <3>2. i \in 1 .. Len(q) /\ i \in DOMAIN q /\ ~ PutTogether(q, h, i, f[i])
      BY <1>1
    <3> DEFINE p == i - 1
    <3>3. p \in Nat /\ p + 1 = i
      BY <3>2
    <3>4. CASE i = 1
      <4>1. f[1] = s[1] /\ <<>> \o s[1] = s[1]
        BY <1>2, <2>2, <3>2, <3>4
      <4>2. PutTogether(q, h, 0 + 1, <<>> \o s[1])
        <5>1. 0 + 1 \in DOMAIN q /\ s[1] = IF q[0 + 1].handle = h THEN q[0 + 1].text ELSE <<>>
          BY <1>5, <3>2, <3>4
        <5>2. QED BY <1>6, <5>1, OneEntryMore
      <4>3. QED BY <3>2, <3>4, <4>1, <4>2
    <3>5. CASE i # 1
      <4>1. p \in 1 .. Len(q) /\ p \notin Bad
        BY <3>1, <3>2, <3>5
      <4>2. PutTogether(q, h, p, f[p]) /\ f[i] = f[p] \o s[i]
        BY <2>2, <3>2, <3>5, <4>1
      <4>3. PutTogether(q, h, p + 1, f[p] \o s[i])
        <5>1. p + 1 \in DOMAIN q /\ s[i] = IF q[p + 1].handle = h THEN q[p + 1].text ELSE <<>>
          BY <1>5, <3>2, <3>3
        <5> HIDE DEF p
        <5>2. QED BY <3>3, <4>2, <5>1, OneEntryMore
      <4>4. QED BY <3>2, <3>3, <4>2, <4>3
    <3>6. QED BY <3>4, <3>5
  <2>4. Len(q) \in 1 .. Len(q)
    BY <1>1, <1>8
  <2>5. PutTogether(q, h, Len(q), f[Len(q)])
    BY <2>3, <2>4
  <2>6. QED BY <1>3, <1>4, <2>1, <2>5
<1>9. QED BY <1>7, <1>8

\* Every number of a finite set has its place.
LEMMA NthFacts ==
    ASSUME NEW S \in SUBSET Nat, IsFiniteSet(S), NEW h \in S
    PROVE  \E n \in 1 .. Cardinality(S) : Nth(S, n) = h
<1> DEFINE Low(x) == {y \in S : y <= x}
           n == Cardinality(Low(h))
<1>1. ASSUME NEW x \in S
      PROVE  /\ IsFiniteSet(Low(x)) /\ Cardinality(Low(x)) \in Nat
             /\ Cardinality(Low(x)) <= Cardinality(S)
  <2>1. Low(x) \in SUBSET S
    OBVIOUS
  <2> HIDE DEF Low
  <2>2. QED BY <2>1, FS_Subset, FS_CardinalityType
<1>2. ASSUME NEW x \in S, NEW z \in S, x < z PROVE Cardinality(Low(x)) # Cardinality(Low(z))
  <2>0. x \in Nat /\ z \in Nat
    OBVIOUS
  <2>1. Low(x) \in SUBSET Low(z) /\ z \in Low(z) /\ z \notin Low(x)
    <3>1. ASSUME NEW y \in Low(x) PROVE y \in Low(z)
      <4>1. y \in S /\ y \in Nat /\ y <= x
        OBVIOUS
      <4>2. y <= z
        BY <1>2, <2>0, <4>1
      <4>3. QED BY <4>1, <4>2
    <3>2. z \in Low(z)
      BY <2>0
    <3>3. ~ (z <= x)
      BY <1>2, <2>0
    <3>4. z \notin Low(x)
      BY <3>3
    <3>5. QED BY <3>1, <3>2, <3>4
  <2> HIDE DEF Low
  <2>2. Low(x) # Low(z)
    BY <2>1
  <2>3. QED BY <1>1, <2>1, <2>2, FS_Subset
<1>3. n \in Nat /\ n <= Cardinality(S) /\ n # 0 /\ Cardinality(S) \in Nat
  <2>1. h \in Low(h)
    OBVIOUS
  <2> HIDE DEF Low
  <2>2. n # 0
    BY <1>1, <2>1, FS_EmptySet
  <2>3. QED BY <1>1, <2>2, FS_CardinalityType
<1>4. \A x \in S : Cardinality(Low(x)) = n => x = h
  <2> SUFFICES ASSUME NEW x \in S, x # h PROVE Cardinality(Low(x)) # n
    OBVIOUS
  <2>1. x < h \/ h < x
    OBVIOUS
  <2> HIDE DEF Low
  <2>2. QED BY <1>2, <2>1
<1>5. Nth(S, n) = CHOOSE x \in S : Cardinality(Low(x)) = n
  BY DEF Nth
<1> DEFINE Place(x) == Cardinality(Low(x)) = n
<1>6. \A x \in S : Place(x) => x = h
  BY <1>4
<1>7. Place(h)
  OBVIOUS
<1>8. Nth(S, n) = CHOOSE x \in S : Place(x)
  BY <1>5
<1> HIDE DEF Place, n, Low
<1>9. Nth(S, n) = h
  BY <1>6, <1>7, <1>8
<1>10. QED BY <1>3, <1>9

\* What precedes the new entry are the first entries of the list.
LEMMA BeforeFacts ==
    ASSUME NEW q \in Seq(Entry), NEW e
    PROVE  \E n \in 0 .. Len(q) :
             /\ Cardinality(Before(q, e)) = n
             /\ \A j \in 1 .. n : Precedes(q[j], e)
             /\ n # Len(q) => ~ Precedes(q[n + 1], e)
<1> DEFINE B == Before(q, e)
           Missing == {m \in 1 .. (Len(q) + 1) : m \notin B}
<1>1. Len(q) \in Nat /\ DOMAIN q = 1 .. Len(q)
  OBVIOUS
<1>2. B \subseteq 1 .. Len(q) /\ \A i \in B : \A j \in 1 .. i : j \in B /\ Precedes(q[j], e)
  BY <1>1 DEF Before
<1>3. PICK m \in Missing : \A l \in Missing : m <= l
  <2>1. Len(q) + 1 \in Missing
    BY <1>1, <1>2
  <2>2. Missing \in SUBSET Nat
    BY <1>1
  <2>3. QED BY <2>1, <2>2, LeastNumber
<1>4. m \in 1 .. (Len(q) + 1) /\ m \notin B
  OBVIOUS
<1> DEFINE n == m - 1
<1>5. n \in 0 .. Len(q) /\ n \in Nat /\ m = n + 1 /\ n \in Int
  BY <1>1, <1>4
<1>6. ASSUME NEW j \in 1 .. n PROVE j \in B
  <2>1. j \in 1 .. (Len(q) + 1) /\ ~ (m <= j)
    BY <1>1, <1>4, <1>5
  <2>2. QED BY <1>3, <2>1
<1>7. ASSUME NEW j \in B PROVE j \in 1 .. n
  <2>1. j \in 1 .. Len(q) /\ \A k \in 1 .. j : k \in B
    BY <1>2
  <2>2. ~ (m \in 1 .. j)
    BY <1>4, <2>1
  <2>3. QED BY <1>1, <1>4, <1>5, <2>1, <2>2
<1>8. B = 1 .. n
  BY <1>6, <1>7
<1>9. Cardinality(1 .. n) = n
  <2>1. Cardinality(1 .. n) = IF 1 > n THEN 0 ELSE n - 1 + 1
    <3> HIDE DEF n
    <3>1. 1 \in Int
      OBVIOUS
    <3>2. QED BY <1>5, <3>1, FS_Interval
  <2>2. QED BY <1>5, <2>1
<1>10. \A j \in 1 .. n : Precedes(q[j], e)
  <2>1. ASSUME NEW j \in 1 .. n PROVE Precedes(q[j], e)
    <3>1. j \in B /\ j \in 1 .. j
      BY <1>5, <1>6
    <3>2. QED BY <1>2, <3>1
  <2>2. QED BY <2>1
<1>11. ASSUME n # Len(q), Precedes(q[n + 1], e) PROVE FALSE
  <2>1. m \in DOMAIN q
    BY <1>1, <1>5, <1>11
  <2>2. ASSUME NEW j \in 1 .. m PROVE Precedes(q[j], e)
    <3>1. j = m \/ j \in 1 .. n
      BY <1>5
    <3>2. QED BY <1>5, <1>10, <1>11, <3>1
  <2>3. m \in B
    BY <2>1, <2>2 DEF Before
  <2>4. QED BY <1>4, <2>3
<1>12. QED BY <1>5, <1>8, <1>9, <1>10, <1>11

LEMMA PutBetween ==
    ASSUME NEW T, NEW a \in Seq(T), NEW e \in T, NEW b \in Seq(T), NEW r
    PROVE  r = a \o <<e>> \o b =>
             /\ r \in Seq(T) /\ Len(r) = Len(a) + 1 + Len(b)
             /\ \A k \in 1 .. Len(a) : r[k] = a[k]
             /\ r[Len(a) + 1] = e
             /\ \A k \in 1 .. Len(b) : r[Len(a) + 1 + k] = b[k]
<1>0. SUFFICES ASSUME r = a \o <<e>> \o b
      PROVE  /\ r \in Seq(T) /\ Len(r) = Len(a) + 1 + Len(b)
             /\ \A k \in 1 .. Len(a) : r[k] = a[k]
             /\ r[Len(a) + 1] = e
             /\ \A k \in 1 .. Len(b) : r[Len(a) + 1 + k] = b[k]
  OBVIOUS
<1>1. PICK one : one = <<e>>
  OBVIOUS
<1>2. one \in Seq(T) /\ Len(one) = 1 /\ one[1] = e
  BY <1>1
<1>3. PICK s : s = a \o one
  OBVIOUS
<1>4. /\ s \in Seq(T) /\ Len(s) = Len(a) + Len(one)
      /\ \A k \in 1 .. Len(a) : s[k] = a[k]
      /\ \A k \in 1 .. Len(one) : s[Len(a) + k] = one[k]
  <2>1. one \in Seq(T)
    BY <1>2
  <2>2. QED BY <1>3, <2>1
<1>5. r = s \o b
  BY <1>0, <1>1, <1>3
<1>6. /\ r \in Seq(T) /\ Len(r) = Len(s) + Len(b)
      /\ \A k \in 1 .. Len(s) : r[k] = s[k]
      /\ \A k \in 1 .. Len(b) : r[Len(s) + k] = b[k]
  <2>1. s \in Seq(T)
    BY <1>4
  <2>2. QED BY <1>5, <2>1
<1>7. PICK m \in Nat, n \in Nat : Len(a) = m /\ Len(b) = n
  OBVIOUS
<1>8. 1 \in 1 .. Len(one) /\ \A k \in 1 .. (m + 1) : k \in 1 .. Len(s)
  BY <1>2, <1>4, <1>7
<1>9. s[m + 1] = e /\ m + 1 \in 1 .. (m + 1) /\ \A k \in 1 .. m : k \in 1 .. (m + 1)
  BY <1>2, <1>4, <1>7, <1>8
<1>10. Len(s) = m + 1 /\ Len(r) = m + 1 + n /\ r \in Seq(T)
  BY <1>2, <1>4, <1>6, <1>7
<1>11. \A k \in 1 .. (m + 1) : r[k] = s[k]
  BY <1>6, <1>10
<1>12. \A k \in 1 .. m : r[k] = a[k]
  BY <1>4, <1>7, <1>9, <1>11
<1>13. r[m + 1] = e
  BY <1>9, <1>11
<1>14. \A k \in 1 .. n : r[m + 1 + k] = b[k]
  BY <1>6, <1>7, <1>10
<1>15. QED BY <1>7, <1>10, <1>12, <1>13, <1>14

LEMMA SplitFacts ==
    ASSUME NEW T, NEW q \in Seq(T), NEW n \in 0 .. Len(q), NEW a, NEW b,
           a = SubSeq(q, 1, n), b = SubSeq(q, n + 1, Len(q))
    PROVE  /\ a \in Seq(T) /\ Len(a) = n /\ \A k \in 1 .. n : a[k] = q[k]
           /\ b \in Seq(T) /\ Len(b) = Len(q) - n
           /\ \A k \in 1 .. (Len(q) - n) : b[k] = q[n + k]
<1>1. PICK m \in Nat : m = Len(q)
  OBVIOUS
<1>2. n \in Nat /\ n <= m /\ n \in Int /\ m \in Int /\ n + 1 \in Int
  BY <1>1
<1>3. \A k \in 1 .. m : q[k] \in T
  BY <1>1
<1>4. /\ a \in Seq(T) /\ Len(a) = (IF 1 <= n THEN n - 1 + 1 ELSE 0)
      /\ \A k \in 1 .. (n - 1 + 1) : a[k] = q[1 + k - 1]
  <2>1. \A k \in 1 .. n : q[k] \in T
    BY <1>2, <1>3
  <2>2. QED BY <1>2, <2>1, SubSeqProperties
<1>5. /\ b \in Seq(T) /\ Len(b) = (IF n + 1 <= m THEN m - (n + 1) + 1 ELSE 0)
      /\ \A k \in 1 .. (m - (n + 1) + 1) : b[k] = q[(n + 1) + k - 1]
  <2>1. \A k \in (n + 1) .. m : q[k] \in T
    BY <1>2, <1>3
  <2>2. QED BY <1>1, <1>2, <2>1, SubSeqProperties
<1>6. n - 1 + 1 = n /\ m - (n + 1) + 1 = m - n /\ \A k \in Int : 1 + k - 1 = k /\ (n + 1) + k - 1 = n + k
  BY <1>1, <1>2
<1>7. Len(a) = n /\ Len(b) = m - n
  BY <1>1, <1>2, <1>4, <1>5
<1>8. ASSUME NEW k \in 1 .. n PROVE a[k] = q[k]
  <2>1. k \in Int
    OBVIOUS
  <2>2. QED BY <1>4, <1>6, <2>1
<1>9. ASSUME NEW k \in 1 .. (m - n) PROVE b[k] = q[n + k]
  <2>1. k \in Int
    OBVIOUS
  <2>2. QED BY <1>5, <1>6, <2>1
<1>10. QED BY <1>1, <1>4, <1>5, <1>7, <1>8, <1>9

\* The new entry goes after those, and the others move up by one.
Placed(q, e, m, n, r) ==
    /\ m \in Nat /\ m = Len(q) /\ DOMAIN q = 1 .. m
    /\ n \in Nat /\ n <= m
    /\ r \in Seq(Entry) /\ r = Inserted(q, e) /\ DOMAIN r = 1 .. (m + 1) /\ Len(r) = m + 1
    /\ \A j \in 1 .. n : Precedes(q[j], e)
    /\ n # m => ~ Precedes(q[n + 1], e)
    /\ \A k \in 1 .. n : r[k] = q[k]
    /\ r[n + 1] = e
    /\ \A k \in (n + 1) .. m : r[k + 1] = q[k]

LEMMA InsertedPlaces ==
    ASSUME NEW q \in Seq(Entry), NEW e \in Entry
    PROVE  \E m, n, r : Placed(q, e, m, n, r)
<1>1. PICK n \in 0 .. Len(q) :
        /\ Cardinality(Before(q, e)) = n
        /\ \A j \in 1 .. n : Precedes(q[j], e)
        /\ n # Len(q) => ~ Precedes(q[n + 1], e)
  BY BeforeFacts
<1>2. PICK m \in Nat : m = Len(q) /\ DOMAIN q = 1 .. m
  OBVIOUS
<1>3. n \in Nat /\ n <= m /\ (n + 1) - 1 = n
  BY <1>2
<1>4. PICK a, b, r : a = SubSeq(q, 1, n) /\ b = SubSeq(q, n + 1, Len(q)) /\ r = a \o <<e>> \o b
  OBVIOUS
<1>5. r = Inserted(q, e)
  BY <1>1, <1>3, <1>4 DEF Inserted, InsertAt
<1>6. /\ a \in Seq(Entry) /\ Len(a) = n /\ \A k \in 1 .. n : a[k] = q[k]
      /\ b \in Seq(Entry) /\ Len(b) = m - n
      /\ \A k \in 1 .. (m - n) : b[k] = q[n + k]
  <2>1. /\ a \in Seq(Entry) /\ Len(a) = n /\ \A k \in 1 .. n : a[k] = q[k]
        /\ b \in Seq(Entry) /\ Len(b) = Len(q) - n
        /\ \A k \in 1 .. (Len(q) - n) : b[k] = q[n + k]
    BY <1>4, SplitFacts
  <2>2. QED BY <1>2, <2>1
<1>7. /\ r \in Seq(Entry) /\ Len(r) = n + 1 + (m - n)
      /\ \A k \in 1 .. n : r[k] = a[k]
      /\ r[n + 1] = e
      /\ \A k \in 1 .. (m - n) : r[n + 1 + k] = b[k]
  <2>1. a \in Seq(Entry) /\ b \in Seq(Entry) /\ r = a \o <<e>> \o b /\ Len(a) = n /\ Len(b) = m - n
    BY <1>4, <1>6
  <2>2. /\ r \in Seq(Entry) /\ Len(r) = Len(a) + 1 + Len(b)
        /\ \A k \in 1 .. Len(a) : r[k] = a[k]
        /\ r[Len(a) + 1] = e
        /\ \A k \in 1 .. Len(b) : r[Len(a) + 1 + k] = b[k]
    <3>1. a \in Seq(Entry) /\ b \in Seq(Entry) /\ r = a \o <<e>> \o b
      BY <2>1
    <3>2. QED BY <3>1, PutBetween
  <2>3. QED BY <2>1, <2>2
<1>8. Len(r) = m + 1 /\ DOMAIN r = 1 .. (m + 1)
  <2>1. n + 1 + (m - n) = m + 1
    BY <1>3
  <2>2. QED BY <1>7, <2>1
<1>9. ASSUME NEW k \in (n + 1) .. m PROVE r[k + 1] = q[k]
  <2>1. PICK l \in 1 .. (m - n) : n + l = k /\ n + 1 + l = k + 1
    <3>1. k - n \in 1 .. (m - n) /\ n + (k - n) = k /\ n + 1 + (k - n) = k + 1
      BY <1>3
    <3>2. QED BY <3>1
  <2>2. QED BY <1>6, <1>7, <2>1
<1>10. \A k \in 1 .. n : r[k] = q[k]
  BY <1>6, <1>7
<1>11. Placed(q, e, m, n, r)
  BY <1>1, <1>2, <1>3, <1>5, <1>7, <1>8, <1>9, <1>10 DEF Placed
<1>12. QED BY <1>11

LEMMA PrecedesFacts ==
    ASSUME NEW d \in Entry, NEW e \in Entry, NEW f \in Entry
    PROVE  /\ Precedes(e, e)
           /\ ~ Precedes(d, e) => Precedes(e, d)
           /\ Precedes(d, e) /\ Precedes(e, f) => Precedes(d, f)
<1>1. /\ d.handle \in Nat /\ d.offset \in Nat /\ e.handle \in Nat /\ e.offset \in Nat
      /\ f.handle \in Nat /\ f.offset \in Nat
  BY EntryFacts
<1>2. QED BY <1>1 DEF Precedes

\* An insertion keeps the list sorted.
LEMMA InsertedSorted ==
    ASSUME NEW q \in Seq(Entry), Sorted(q), NEW e \in Entry
    PROVE  Sorted(Inserted(q, e))
<1>0. PICK m, n, r : Placed(q, e, m, n, r)
  BY InsertedPlaces
<1>1. /\ m \in Nat /\ n \in Nat /\ r = Inserted(q, e)
      /\ \A j \in 1 .. n : Precedes(q[j], e)
      /\ n # m => ~ Precedes(q[n + 1], e)
      /\ \A k \in 1 .. n : r[k] = q[k]
      /\ r[n + 1] = e
      /\ \A k \in (n + 1) .. m : r[k + 1] = q[k]
  BY <1>0 DEF Placed
<1>2. DOMAIN q = 1 .. m /\ DOMAIN r = 1 .. (m + 1) /\ n <= m /\ m \in Nat /\ n \in Nat
  BY <1>0 DEF Placed
<1>3. ASSUME NEW k \in (n + 1) .. m PROVE Precedes(e, q[k])
  <2>1. n + 1 \in DOMAIN q /\ k \in DOMAIN q /\ n + 1 <= k /\ n # m
    BY <1>2
  <2>2. q[n + 1] \in Entry /\ q[k] \in Entry /\ Precedes(q[n + 1], q[k])
    BY <2>1 DEF Sorted
  <2>3. QED BY <1>1, <2>1, <2>2, PrecedesFacts
<1>4. ASSUME NEW i \in DOMAIN r, NEW j \in DOMAIN r, i <= j PROVE Precedes(r[i], r[j])
  <2>0. i \in 1 .. (m + 1) /\ j \in 1 .. (m + 1)
    BY <1>2, Zenon
  <2>1. i \in Nat /\ j \in Nat /\ i >= 1 /\ j <= m + 1
    BY <1>2, <2>0
  <2>2. CASE i = n + 1
    <3>1. CASE j = n + 1
      BY <1>1, <2>2, <3>1, PrecedesFacts
    <3>2. CASE j # n + 1
      <4> DEFINE k == j - 1
      <4>1. k \in (n + 1) .. m /\ k + 1 = j
        BY <1>2, <1>4, <2>1, <2>2, <3>2
      <4> HIDE DEF k
      <4>2. r[j] = q[k]
        BY <1>1, <4>1
      <4>3. QED BY <1>1, <1>3, <2>2, <4>1, <4>2
    <3>3. QED BY <3>1, <3>2
  <2>3. CASE i <= n
    <3>1. i \in 1 .. n /\ r[i] = q[i] /\ i \in DOMAIN q
      BY <1>1, <1>2, <2>1, <2>3
    <3>2. CASE j <= n
      <4>1. j \in 1 .. n /\ r[j] = q[j] /\ j \in DOMAIN q
        BY <1>1, <1>2, <2>1, <3>2, <1>4
      <4>2. QED BY <1>4, <3>1, <4>1 DEF Sorted
    <3>3. CASE j = n + 1
      BY <1>1, <3>1, <3>3
    <3>4. CASE j > n + 1
      <4> DEFINE k == j - 1
      <4>1. k \in (n + 1) .. m /\ k + 1 = j /\ k \in DOMAIN q /\ i <= k
        BY <1>2, <2>1, <2>3, <3>4
      <4> HIDE DEF k
      <4>2. r[j] = q[k]
        BY <1>1, <4>1
      <4>3. Precedes(q[i], q[k])
        BY <3>1, <4>1 DEF Sorted
      <4>4. QED BY <3>1, <4>2, <4>3
    <3>5. QED BY <1>2, <2>1, <3>2, <3>3, <3>4
  <2>4. CASE i > n + 1
    <3> DEFINE k == j - 1
               l == i - 1
    <3>1. /\ k \in (n + 1) .. m /\ k + 1 = j /\ k \in DOMAIN q
          /\ l \in (n + 1) .. m /\ l + 1 = i /\ l \in DOMAIN q /\ l <= k
      BY <1>2, <1>4, <2>1, <2>4
    <3> HIDE DEF k, l
    <3>2. r[j] = q[k] /\ r[i] = q[l]
      BY <1>1, <3>1
    <3>3. QED BY <3>1, <3>2 DEF Sorted
  <2>5. QED BY <1>2, <2>1, <2>2, <2>3, <2>4
<1>5. QED BY <1>1, <1>4 DEF Sorted

\* A valid list covers the places of each attribute once each.
LEMMA ValidCovers ==
    ASSUME NEW c, Listed(queue[c], accepted[c]), Valid(queue[c]), NEW h \in Handles(queue[c])
    PROVE  /\ ValueFor(queue[c], h) \in Seq(Octet) /\ Len(ValueFor(queue[c], h)) \in 1 .. MaxLen
           /\ WholeText(c, h, ValueFor(queue[c], h))
<1>0. PICK v : v = ValueFor(queue[c], h)
  OBVIOUS
<1> DEFINE q == queue[c]
           n == Len(v)
<1>1. q \in Seq(Entry) /\ Sorted(q) /\ DOMAIN q = 1 .. Len(q) /\ Len(q) \in Nat /\ MaxLen \in Nat
  BY NumberAssumption DEF Listed
<1>2. PutTogether(q, h, Len(q), v)
  BY <1>0, <1>1, ValueFacts
<1>3. v \in Seq(Octet) /\ n \in Nat /\ DOMAIN v = 1 .. n
  BY <1>2 DEF PutTogether
<1>4. ASSUME NEW j \in DOMAIN q, q[j].handle = h
      PROVE  /\ q[j].offset \in Nat /\ EndOf(q[j]) \in Nat /\ q[j].offset < EndOf(q[j])
             /\ Len(q[j].text) \in Nat /\ EndOf(q[j]) = q[j].offset + Len(q[j].text)
             /\ EndOf(q[j]) <= n
             /\ \A k \in 1 .. Len(q[j].text) : v[q[j].offset + k] = q[j].text[k]
  <2>1. q[j] \in Entry /\ j \in 1 .. Len(q)
    BY <1>1
  <2>2. /\ EndOf(q[j]) <= n
        /\ \A k \in 1 .. Len(q[j].text) : v[q[j].offset + k] = q[j].text[k]
    BY <1>2, <1>4, <2>1 DEF PutTogether
  <2>3. QED BY <2>1, <2>2, EntryFacts
<1>5. PICK j \in DOMAIN q : q[j].handle = h
  BY DEF Handles
<1>6. PICK m \in DOMAIN q : q[m].handle = h /\ n = EndOf(q[m])
  <2>1. n # 0
    BY <1>3, <1>4, <1>5
  <2>2. QED BY <1>1, <1>2, <2>1 DEF PutTogether
<1>7. n \in 1 .. MaxLen
  <2>1. EndOf(q[m]) <= MaxLen
    BY DEF Valid
  <2>2. n > 0
    BY <1>3, <1>4, <1>6
  <2>3. QED BY <1>1, <1>3, <1>6, <2>1, <2>2
<1> HIDE DEF n
<1>8. ASSUME NEW i \in DOMAIN q, NEW l \in DOMAIN q, q[i].handle = h, q[l].handle = h, i # l
      PROVE  EndOf(q[i]) <= q[l].offset \/ EndOf(q[l]) <= q[i].offset
  <2>1. i < l \/ l < i
    BY <1>1, <1>8
  <2>2. QED BY <1>1, <1>8, <2>1, NoOverlap
<1>9. ASSUME NEW e \in Pieces(c, h) PROVE accepted[c][e] = 1 /\ EndOf(e) <= n
  <2>1. PICK i \in DOMAIN q : q[i] = e /\ e.handle = h
    BY PieceFacts
  <2>2. ASSUME NEW k \in DOMAIN q, NEW l \in DOMAIN q, q[k] = e, q[l] = e PROVE k = l
    <3>1. ASSUME k # l PROVE FALSE
      <4>1. EndOf(e) <= e.offset
        BY <1>8, <2>1, <2>2, <3>1
      <4>2. e.offset < EndOf(e) /\ e.offset \in Nat /\ EndOf(e) \in Nat
        BY <1>4, <2>1
      <4>3. QED BY <4>1, <4>2
    <3>2. QED BY <3>1
  <2>3. e \in DOMAIN accepted[c]
    BY DEF Pieces, BagToSet
  <2>4. QED BY <1>4, <2>1, <2>2, <2>3 DEF Listed
<1>10. ASSUME NEW k \in 1 .. n
       PROVE  /\ Cardinality(At(Pieces(c, h), k)) = 1
              /\ \E e \in At(Pieces(c, h), k) : v[k] = e.text[k - e.offset]
  <2> DEFINE Reach == {i \in DOMAIN q : q[i].handle = h /\ k <= EndOf(q[i])}
  <2>0. k \in Nat /\ k >= 1 /\ k <= n
    BY <1>7
  <2>1. PICK i \in Reach : \A l \in Reach : i <= l
    <3>1. m \in Reach
      BY <1>6, <2>0
    <3>2. Reach \in SUBSET Nat
      BY <1>1
    <3>3. QED BY <3>1, <3>2, LeastNumber
  <2>2. i \in DOMAIN q /\ q[i].handle = h /\ k <= EndOf(q[i]) /\ i \in 1 .. Len(q)
    BY <1>1
  <2>3. q[i].offset < k
    <3>1. CASE i = 1 \/ q[i - 1].handle # h
      <4>1. q[i].offset = 0
        BY <2>2, <3>1 DEF Valid, Follows
      <4>2. QED BY <2>0, <4>1
    <3>2. CASE i # 1 /\ q[i - 1].handle = h
      <4>1. i - 1 \in DOMAIN q /\ ~ (i <= i - 1)
        BY <1>1, <2>2, <3>2
      <4>2. ~ (k <= EndOf(q[i - 1]))
        BY <2>1, <3>2, <4>1
      <4>3. q[i].offset = EndOf(q[i - 1])
        BY <2>2, <3>2 DEF Valid, Follows
      <4>4. EndOf(q[i - 1]) \in Nat
        BY <1>4, <3>2, <4>1
      <4>5. QED BY <2>0, <4>2, <4>3, <4>4
    <3>3. QED BY <3>1, <3>2
  <2> DEFINE e == q[i]
  <2>4. e \in At(Pieces(c, h), k)
    BY <2>2, <2>3, PieceFacts DEF At
  <2>5. ASSUME NEW d \in At(Pieces(c, h), k) PROVE d = e
    <3>1. d \in Pieces(c, h) /\ d.offset < k /\ k <= EndOf(d)
      BY DEF At
    <3>2. PICK l \in DOMAIN q : q[l] = d /\ d.handle = h
      BY <3>1, PieceFacts
    <3>3. ASSUME l # i PROVE FALSE
      <4>1. EndOf(q[i]) <= q[l].offset \/ EndOf(q[l]) <= q[i].offset
        BY <1>8, <2>2, <3>2, <3>3
      <4>2. q[l].offset < k /\ k <= EndOf(q[l])
        BY <3>1, <3>2
      <4>3. /\ q[i].offset \in Nat /\ EndOf(q[i]) \in Nat
            /\ q[l].offset \in Nat /\ EndOf(q[l]) \in Nat
        BY <1>4, <2>2, <3>2
      <4>4. QED BY <2>0, <2>2, <2>3, <4>1, <4>2, <4>3
    <3>4. QED BY <3>2, <3>3
  <2>6. At(Pieces(c, h), k) = {e}
    BY <2>4, <2>5
  <2>7. Cardinality(At(Pieces(c, h), k)) = 1
    BY <2>6, FS_Singleton
  <2>8. v[k] = e.text[k - e.offset]
    <3> DEFINE r == k - q[i].offset
    <3>1. r \in 1 .. Len(q[i].text) /\ q[i].offset + r = k
      <4>1. PICK o \in Nat, l \in Nat : /\ o = q[i].offset /\ l = Len(q[i].text)
                                        /\ EndOf(q[i]) = o + l
        BY <1>4, <2>2
      <4>2. o < k /\ k <= o + l
        BY <2>2, <2>3, <4>1
      <4>3. k - o \in 1 .. l /\ o + (k - o) = k
        BY <2>0, <4>1, <4>2
      <4>4. QED BY <4>1, <4>3
    <3> HIDE DEF r
    <3>2. v[q[i].offset + r] = q[i].text[r]
      BY <1>4, <2>2, <3>1
    <3>3. QED BY <3>1, <3>2 DEF r
  <2>9. QED BY <2>4, <2>7, <2>8
<1>11. Covers(c, h, n)
  BY <1>9, <1>10 DEF Covers
<1>12. WholeText(c, h, v)
  BY <1>3, <1>7, <1>10, <1>11 DEF n, WholeText
<1>13. Len(v) \in 1 .. MaxLen
  BY <1>7 DEF n
<1>14. QED BY <1>0, <1>3, <1>12, <1>13

\* Where an entry of the list is found in the list with a new one.
Up(n, k) == IF k <= n THEN k ELSE k + 1

LEMMA UpFacts ==
    ASSUME NEW q, NEW e, NEW m, NEW n, NEW r, Placed(q, e, m, n, r)
    PROVE  /\ \A k \in DOMAIN q : Up(n, k) \in DOMAIN r /\ r[Up(n, k)] = q[k] /\ Up(n, k) # n + 1
           /\ \A i \in DOMAIN r : i = n + 1 \/ \E k \in DOMAIN q : Up(n, k) = i
           /\ \A k, l \in DOMAIN q : Up(n, k) = Up(n, l) => k = l
           /\ n + 1 \in DOMAIN r /\ r[n + 1] = e
<1>1. /\ m \in Nat /\ DOMAIN q = 1 .. m /\ n \in Nat /\ n <= m /\ DOMAIN r = 1 .. (m + 1)
      /\ \A k \in 1 .. n : r[k] = q[k]
      /\ r[n + 1] = e
      /\ \A k \in (n + 1) .. m : r[k + 1] = q[k]
  BY DEF Placed
<1>2. ASSUME NEW k \in 1 .. m
      PROVE  Up(n, k) \in 1 .. (m + 1) /\ r[Up(n, k)] = q[k] /\ Up(n, k) # n + 1
  <2>1. CASE k <= n
    <3>1. k \in 1 .. n /\ Up(n, k) = k /\ k \in 1 .. (m + 1) /\ k # n + 1
      BY <1>1, <2>1 DEF Up
    <3>2. QED BY <1>1, <3>1
  <2>2. CASE ~ (k <= n)
    <3>1. k \in (n + 1) .. m /\ Up(n, k) = k + 1 /\ k + 1 \in 1 .. (m + 1) /\ k + 1 # n + 1
      BY <1>1, <2>2 DEF Up
    <3>2. QED BY <1>1, <3>1
  <2>3. QED BY <2>1, <2>2
<1>3. ASSUME NEW i \in 1 .. (m + 1), i # n + 1 PROVE \E k \in 1 .. m : Up(n, k) = i
  <2>1. CASE i <= n
    <3>1. i \in 1 .. m /\ Up(n, i) = i
      BY <1>1, <2>1 DEF Up
    <3>2. QED BY <3>1
  <2>2. CASE ~ (i <= n)
    <3>1. i - 1 \in 1 .. m /\ Up(n, i - 1) = i
      BY <1>1, <1>3, <2>2 DEF Up
    <3>2. QED BY <3>1
  <2>3. QED BY <2>1, <2>2
<1>4. \A k, l \in 1 .. m : Up(n, k) = Up(n, l) => k = l
  BY <1>1 DEF Up
<1>5. n + 1 \in 1 .. (m + 1)
  BY <1>1
<1>6. QED BY <1>1, <1>2, <1>3, <1>4, <1>5

More(a, e) == a (+) SetToBag({e})

LEMMA OneMore ==
    ASSUME NEW a, NEW e
    PROVE  /\ DOMAIN More(a, e) = DOMAIN a \cup {e}
           /\ \A d \in DOMAIN a : a[d] \in Nat =>
                More(a, e)[d] = IF d = e THEN a[d] + 1 ELSE a[d]
           /\ e \notin DOMAIN a => More(a, e)[e] = 1
<1>0. PICK b : b = More(a, e)
  OBVIOUS
<1>1. DOMAIN SetToBag({e}) = {e} /\ SetToBag({e})[e] = 1
  BY DEF SetToBag
<1> DEFINE f(d) == (IF d \in DOMAIN a THEN a[d] ELSE 0)
                     + (IF d \in {e} THEN SetToBag({e})[d] ELSE 0)
<1>2. b = [d \in DOMAIN a \cup {e} |-> f(d)]
  BY <1>0, <1>1 DEF (+), More
<1>3. DOMAIN b = DOMAIN a \cup {e} /\ \A d \in DOMAIN a \cup {e} : b[d] = f(d)
  <2> HIDE DEF f
  <2>1. QED BY <1>2
<1>4. ASSUME NEW d \in DOMAIN a, a[d] \in Nat PROVE b[d] = IF d = e THEN a[d] + 1 ELSE a[d]
  <2>1. b[d] = a[d] + (IF d \in {e} THEN SetToBag({e})[d] ELSE 0)
    BY <1>3
  <2>2. QED BY <1>1, <1>4, <2>1
<1>5. ASSUME e \notin DOMAIN a PROVE b[e] = 1
  <2>1. b[e] = 0 + SetToBag({e})[e]
    BY <1>3, <1>5
  <2>2. QED BY <1>1, <2>1
<1>6. QED BY <1>0, <1>3, <1>4, <1>5

LEMMA InsertedListed ==
    ASSUME NEW q, NEW a, Listed(q, a), NEW e \in Entry
    PROVE  Listed(Inserted(q, e), More(a, e))
<1>0. PICK b : b = More(a, e)
  OBVIOUS
<1>1. q \in Seq(Entry) /\ Sorted(q) /\ DOMAIN a = {q[i] : i \in DOMAIN q}
  BY DEF Listed
<1>2. PICK m, n, r : Placed(q, e, m, n, r)
  BY <1>1, InsertedPlaces
<1>3. r \in Seq(Entry) /\ r = Inserted(q, e) /\ Sorted(r)
  BY <1>1, <1>2, InsertedSorted DEF Placed
<1>4. /\ \A k \in DOMAIN q : Up(n, k) \in DOMAIN r /\ r[Up(n, k)] = q[k] /\ Up(n, k) # n + 1
      /\ \A i \in DOMAIN r : i = n + 1 \/ \E k \in DOMAIN q : Up(n, k) = i
      /\ \A k, l \in DOMAIN q : Up(n, k) = Up(n, l) => k = l
      /\ n + 1 \in DOMAIN r /\ r[n + 1] = e
  BY <1>2, UpFacts
<1>5. \A d \in DOMAIN a : a[d] \in Nat \ {0}
  BY DEF Listed
<1>6. /\ DOMAIN b = DOMAIN a \cup {e}
      /\ \A d \in DOMAIN a : b[d] = IF d = e THEN a[d] + 1 ELSE a[d]
      /\ e \notin DOMAIN a => b[e] = 1
  <2>1. /\ DOMAIN More(a, e) = DOMAIN a \cup {e}
        /\ \A d \in DOMAIN a : a[d] \in Nat =>
             More(a, e)[d] = IF d = e THEN a[d] + 1 ELSE a[d]
        /\ e \notin DOMAIN a => More(a, e)[e] = 1
    BY OneMore, Zenon
  <2>2. QED BY <1>0, <1>5, <2>1
<1>7. DOMAIN b = {r[i] : i \in DOMAIN r}
  <2>1. ASSUME NEW d \in DOMAIN b PROVE \E i \in DOMAIN r : r[i] = d
    BY <1>1, <1>4, <1>6
  <2>2. ASSUME NEW i \in DOMAIN r PROVE r[i] \in DOMAIN b
    BY <1>1, <1>4, <1>6
  <2>3. QED BY <2>1, <2>2
<1>8. ASSUME NEW d \in DOMAIN b
      PROVE  /\ b[d] \in Nat \ {0}
             /\ b[d] = 1 <=> \A i, j \in DOMAIN r : r[i] = d /\ r[j] = d => i = j
  <2>1. CASE d # e
    <3>1. d \in DOMAIN a /\ b[d] = a[d]
      BY <1>6, <2>1
    <3>2. a[d] = 1 <=> \A i, j \in DOMAIN q : q[i] = d /\ q[j] = d => i = j
      BY <3>1 DEF Listed
    <3>3. ASSUME \A i, j \in DOMAIN q : q[i] = d /\ q[j] = d => i = j,
                 NEW i \in DOMAIN r, NEW j \in DOMAIN r, r[i] = d, r[j] = d
          PROVE  i = j
      <4>1. PICK k \in DOMAIN q, l \in DOMAIN q : Up(n, k) = i /\ Up(n, l) = j
        BY <1>4, <2>1, <3>3
      <4>2. q[k] = d /\ q[l] = d
        BY <1>4, <3>3, <4>1
      <4>3. QED BY <3>3, <4>1, <4>2
    <3>4. ASSUME \A i, j \in DOMAIN r : r[i] = d /\ r[j] = d => i = j,
                 NEW k \in DOMAIN q, NEW l \in DOMAIN q, q[k] = d, q[l] = d
          PROVE  k = l
      BY <1>4, <3>4
    <3>5. QED BY <1>5, <3>1, <3>2, <3>3, <3>4
  <2>2. CASE d = e /\ e \notin DOMAIN a
    <3>1. b[d] = 1
      BY <1>6, <2>2
    <3>2. ASSUME NEW i \in DOMAIN r, r[i] = d PROVE i = n + 1
      <4>1. \A k \in DOMAIN q : q[k] # d
        BY <1>1, <2>2
      <4>2. QED BY <1>4, <3>2, <4>1
    <3>3. QED BY <3>1, <3>2
  <2>3. CASE d = e /\ e \in DOMAIN a
    <3>1. b[d] = a[d] + 1 /\ a[d] \in Nat \ {0}
      BY <1>5, <1>6, <2>3
    <3>2. PICK k \in DOMAIN q : q[k] = d
      BY <1>1, <2>3
    <3>3. /\ Up(n, k) \in DOMAIN r /\ n + 1 \in DOMAIN r /\ r[Up(n, k)] = d /\ r[n + 1] = d
          /\ Up(n, k) # n + 1
      BY <1>4, <2>3, <3>2
    <3>4. b[d] \in Nat \ {0} /\ b[d] # 1
      BY <3>1
    <3>5. QED BY <3>3, <3>4
  <2>4. QED BY <2>1, <2>2, <2>3
<1>9. QED BY <1>0, <1>3, <1>7, <1>8 DEF Listed

LEMMA NothingListed == Listed(<<>>, EmptyBag)
<1>1. DOMAIN EmptyBag = {}
  BY DEF EmptyBag, SetToBag
<1>2. <<>> \in Seq(Entry) /\ DOMAIN <<>> = {}
  OBVIOUS
<1>3. QED BY <1>1, <1>2 DEF Listed, Sorted

\* The lists hold what was accepted, in order.
ListsHold == \A c \in Client : Listed(queue[c], accepted[c])

LEMMA ListsStart == QWInit => ListsHold
<1> SUFFICES ASSUME QWInit, NEW c \in Client PROVE Listed(queue[c], accepted[c])
  BY DEF ListsHold
<1>1. queue[c] = <<>> /\ accepted[c] = EmptyBag
  BY DEF QWInit
<1>2. QED BY <1>1, NothingListed

LEMMA PrepareKeepsLists ==
    ASSUME QInv, ListsHold, NEW c \in Client, NEW e \in Entry, PrepareWrite(c, e)
    PROVE  ListsHold'
<1>1. queue \in [Client -> Seq(Entry)] /\ DOMAIN accepted = Client
  BY DEF QInv, QShape, Lists
<1>2. /\ queue' = [queue EXCEPT ![c] = Inserted(queue[c], e)]
      /\ accepted' = [accepted EXCEPT ![c] = More(accepted[c], e)]
  BY DEF PrepareWrite, More
<1>3. \A d \in Client :
        /\ queue'[d] = IF d = c THEN Inserted(queue[c], e) ELSE queue[d]
        /\ accepted'[d] = IF d = c THEN More(accepted[c], e) ELSE accepted[d]
  BY <1>1, <1>2
<1>4. Listed(Inserted(queue[c], e), More(accepted[c], e))
  BY InsertedListed DEF ListsHold
<1>5. ASSUME NEW d \in Client PROVE Listed(queue'[d], accepted'[d])
  <2>1. CASE d = c
    BY <1>3, <1>4, <2>1
  <2>2. CASE d # c
    <3>1. queue'[d] = queue[d] /\ accepted'[d] = accepted[d]
      BY <1>3, <2>2
    <3>2. QED BY <3>1 DEF ListsHold
  <2>3. QED BY <2>1, <2>2
<1>6. QED BY <1>5 DEF ListsHold, Listed, Sorted

LEMMA FreedKeepsLists ==
    ASSUME QInv, ListsHold, NEW c \in Client, QueueFreed(c)
    PROVE  ListsHold'
<1>1. queue \in [Client -> Seq(Entry)] /\ DOMAIN accepted = Client
  BY DEF QInv, QShape, Lists
<1>2. /\ queue' = [queue EXCEPT ![c] = <<>>]
      /\ accepted' = [accepted EXCEPT ![c] = EmptyBag]
  BY DEF QueueFreed
<1>3. \A d \in Client : /\ queue'[d] = IF d = c THEN <<>> ELSE queue[d]
                        /\ accepted'[d] = IF d = c THEN EmptyBag ELSE accepted[d]
  BY <1>1, <1>2
<1>4. ASSUME NEW d \in Client PROVE Listed(queue'[d], accepted'[d])
  <2>1. CASE d = c
    <3>1. queue'[d] = <<>> /\ accepted'[d] = EmptyBag
      BY <1>3, <2>1
    <3>2. QED BY <3>1, NothingListed
  <2>2. CASE d # c
    <3>1. queue'[d] = queue[d] /\ accepted'[d] = accepted[d]
      BY <1>3, <2>2
    <3>2. QED BY <3>1 DEF ListsHold
  <2>3. QED BY <2>1, <2>2
<1>5. QED BY <1>4 DEF ListsHold, Listed, Sorted

LEMMA ResetKeepsLists ==
    ASSUME Reset
    PROVE  ListsHold'
<1>1. ASSUME NEW c \in Client PROVE Listed(queue'[c], accepted'[c])
  <2>1. queue'[c] = <<>> /\ accepted'[c] = EmptyBag
    BY DEF Reset
  <2>2. QED BY <2>1, NothingListed
<1>2. QED BY <1>1 DEF ListsHold, Listed, Sorted

LEMMA ListsKept ==
    ASSUME QInv, ListsHold, [QWNext]_writeVars
    PROVE  ListsHold'
<1>1. ASSUME UNCHANGED <<queue, accepted>> PROVE ListsHold'
  BY <1>1 DEF ListsHold, Listed, Sorted
<1>2. CASE UNCHANGED writeVars
  BY <1>1, <1>2 DEF writeVars
<1>3. ASSUME NEW c \in Client, Connect(c) \/ LinkLost(c) \/ TerminateExpired(c) PROVE ListsHold'
  BY <1>1, <1>3 DEF Connect, LinkLost, TerminateExpired
<1>4. ASSUME NEW c \in Client, Request(c) PROVE ListsHold'
  <2>1. ASSUME NEW e \in Entry, PrepareWrite(c, e) PROVE ListsHold'
    BY <2>1, PrepareKeepsLists
  <2>2. CASE PrepareFails(c) \/ ExecuteFails(c)
    BY <1>1, <2>2 DEF PrepareFails, ExecuteFails
  <2>3. CASE ExecuteWrite(c) \/ CancelWrite(c)
    <3>1. QueueFreed(c)
      BY <2>3 DEF ExecuteWrite, CancelWrite
    <3>2. QED BY <3>1, FreedKeepsLists
  <2>4. QED BY <1>4, <2>1, <2>2, <2>3 DEF Request
<1>5. ASSUME NEW c \in Client, ConnectionBroken(c) PROVE ListsHold'
  <2>1. QueueFreed(c)
    BY <1>5 DEF ConnectionBroken
  <2>2. QED BY <2>1, FreedKeepsLists
<1>6. CASE Tick \/ TimerExp \/ TimerReturns
  BY <1>1, <1>6 DEF Tick, TimerExp, TimerReturns
<1>7. QED BY <1>2, <1>3, <1>4, <1>5, <1>6, ResetKeepsLists DEF QWNext

\* The pieces of an attribute make one text only.
LEMMA OneText ==
    ASSUME NEW c, Listed(queue[c], accepted[c]), NEW h,
           NEW v \in Seq(Octet), WholeText(c, h, v), NEW w \in Seq(Octet), WholeText(c, h, w)
    PROVE  v = w
<1>1. /\ Len(v) \in Nat /\ DOMAIN v = 1 .. Len(v) /\ Covers(c, h, Len(v))
      /\ Len(w) \in Nat /\ DOMAIN w = 1 .. Len(w) /\ Covers(c, h, Len(w))
  BY DEF WholeText
<1>2. ASSUME NEW n \in Nat, Covers(c, h, n), NEW m \in Nat, Covers(c, h, m) PROVE m <= n
  <2>1. SUFFICES ASSUME m # 0 PROVE m <= n
    OBVIOUS
  <2>2. m \in 1 .. m
    BY <2>1
  <2>3. PICK i \in DOMAIN queue[c] : queue[c][i].handle = h /\ m <= EndOf(queue[c][i])
    BY <1>2, <2>2, OneAt
  <2>4. queue[c][i] \in Pieces(c, h) /\ queue[c][i] \in Entry
    BY <2>3, PieceFacts
  <2>5. EndOf(queue[c][i]) <= n /\ EndOf(queue[c][i]) \in Nat
    BY <1>2, <2>4, EntryFacts DEF Covers
  <2>6. QED BY <2>3, <2>5
<1>3. Len(v) = Len(w)
  <2>1. ASSUME NEW n \in Nat, NEW m \in Nat, m <= n, n <= m PROVE m = n
    BY <2>1
  <2>2. Len(w) <= Len(v) /\ Len(v) <= Len(w)
    BY <1>1, <1>2
  <2>3. QED BY <1>1, <2>1, <2>2
<1>4. ASSUME NEW k \in 1 .. Len(v) PROVE v[k] = w[k]
  <2>1. PICK d \in At(Pieces(c, h), k) : v[k] = d.text[k - d.offset]
    BY <1>1 DEF WholeText
  <2>2. PICK e \in At(Pieces(c, h), k) : w[k] = e.text[k - e.offset]
    BY <1>1, <1>3 DEF WholeText
  <2>3. /\ d \in Pieces(c, h) /\ d.offset < k /\ k <= EndOf(d)
        /\ e \in Pieces(c, h) /\ e.offset < k /\ k <= EndOf(e)
    BY DEF At
  <2>4. PICK i \in DOMAIN queue[c] : queue[c][i] = d /\ d.handle = h
    BY <2>3, PieceFacts
  <2>5. PICK j \in DOMAIN queue[c] : queue[c][j] = e /\ e.handle = h
    BY <2>3, PieceFacts
  <2>6. i = j
    BY <1>1, <2>3, <2>4, <2>5, OnlyOneAt
  <2>7. QED BY <2>1, <2>2, <2>4, <2>5, <2>6
<1>5. QED BY <1>1, <1>3, <1>4

\* An execution writes the list as it was accepted, up to what is refused.
LEMMA ExecuteFacts ==
    ASSUME ListsHold, NEW c \in Client, ExecuteWrite(c)
    PROVE  WrittenWhole(c)
<1> DEFINE q == queue[c]
           H == Handles(q)
           whole == \A h \in H : \E n \in 1 .. MaxLen : Covers(c, h, n)
           fits(h) == \E v \in Accepts[h] : WholeText(c, h, v)
           done == {h \in H : \A g \in H : g <= h => fits(g)}
<1>1. Listed(q, accepted[c])
  BY DEF ListsHold
<1>2. {e.handle : e \in BagToSet(accepted[c])} = H
  <2>1. DOMAIN accepted[c] = {q[i] : i \in DOMAIN q}
    BY <1>1 DEF Listed
  <2>2. QED BY <2>1 DEF Handles, BagToSet
<1>3. H \in SUBSET Nat /\ IsFiniteSet(H) /\ \A h \in H : Accepts[h] \subseteq Seq(Octet)
  <2>1. q \in Seq(Entry) /\ DOMAIN q = 1 .. Len(q) /\ Len(q) \in Int /\ 1 \in Int
    BY <1>1 DEF Listed
  <2>2. IsFiniteSet(DOMAIN q)
    BY <2>1, FS_Interval
  <2> DEFINE f == [i \in DOMAIN q |-> q[i].handle]
  <2>3. f \in Surjection(DOMAIN q, H)
    BY DEF Surjection, Handles
  <2>4. IsFiniteSet(H)
    BY <2>2, <2>3, FS_Surjection
  <2>5. H \in SUBSET Nat
    BY <2>1, EntryFacts DEF Handles
  <2>6. H \subseteq {e.handle : e \in Entry}
    BY <2>1 DEF Handles
  <2>7. \A h \in H : Accepts[h] \subseteq Seq(Octet)
    BY <2>6, AcceptsAssumption
  <2>8. QED BY <2>4, <2>5, <2>7
<1>4. executed' = IF Valid(q) THEN [writes |-> Writes(q), error |-> Taken(q) # H]
                              ELSE [writes |-> <<>>, error |-> TRUE]
  BY DEF ExecuteWrite
<1>5. Valid(q) <=> whole
  <2>1. ASSUME whole PROVE Valid(q)
    BY <1>1, <2>1, CoversValid
  <2>2. ASSUME Valid(q), NEW h \in H PROVE \E n \in 1 .. MaxLen : Covers(c, h, n)
    BY <1>1, <2>2, ValidCovers DEF WholeText
  <2>3. QED BY <2>1, <2>2
<1>6. CASE ~ whole
  <2>1. executed' = [writes |-> <<>>, error |-> TRUE]
    BY <1>4, <1>5, <1>6
  <2>2. QED BY <1>2, <1>6, <2>1 DEF WrittenWhole
<1>7. CASE whole
  <2> DEFINE W == Writes(q)
             N == Cardinality(done)
  <2>1. Valid(q) /\ executed'.writes = W /\ (executed'.error <=> Taken(q) # H)
    BY <1>4, <1>5, <1>7
  <2>2. ASSUME NEW h \in H PROVE ValueFor(q, h) \in Accepts[h] <=> fits(h)
    <3>1. ValueFor(q, h) \in Seq(Octet) /\ WholeText(c, h, ValueFor(q, h))
      BY <1>1, <2>1, ValidCovers
    <3>2. ASSUME NEW v \in Accepts[h], WholeText(c, h, v) PROVE v = ValueFor(q, h)
      <4>1. v \in Seq(Octet)
        BY <1>3
      <4>2. QED BY <1>1, <3>1, <3>2, <4>1, OneText
    <3>3. QED BY <3>1, <3>2
  <2>3. Taken(q) = done
    BY <2>2 DEF Taken
  <2>4. done \in SUBSET Nat /\ IsFiniteSet(done) /\ N \in Nat
    <3>1. done \subseteq H
      OBVIOUS
    <3> HIDE DEF done, H
    <3>2. QED BY <1>3, <3>1, FS_Subset, FS_CardinalityType
  <2>5. /\ Len(W) = N /\ DOMAIN W = 1 .. N
        /\ \A n \in 1 .. N : W[n].handle = Nth(done, n) /\ W[n].text = ValueFor(q, Nth(done, n))
    <3>1. W = [n \in 1 .. N |-> [handle |-> Nth(done, n), text |-> ValueFor(q, Nth(done, n))]]
      BY <2>3 DEF Writes
    <3> HIDE DEF W, N, done
    <3>2. QED BY <2>4, <3>1
  <2>6. ASSUME NEW h \in done PROVE \E w \in ToSet(W) : w.handle = h /\ WholeText(c, h, w.text)
    <3>1. h \in H
      OBVIOUS
    <3>2. WholeText(c, h, ValueFor(q, h))
      BY <1>1, <2>1, <3>1, ValidCovers
    <3> HIDE DEF done, W, H
    <3>3. PICK n \in 1 .. N : Nth(done, n) = h
      BY <2>4, NthFacts
    <3>4. W[n] \in ToSet(W)
      BY <2>5 DEF ToSet
    <3>5. W[n].handle = h /\ W[n].text = ValueFor(q, h)
      BY <2>5, <3>3
    <3>6. QED BY <3>2, <3>4, <3>5
  <2> HIDE DEF W
  <2>7. /\ executed'.error <=> done # H
        /\ Len(executed'.writes) = Cardinality(done)
        /\ \A h \in done : \E w \in ToSet(executed'.writes) : w.handle = h /\ WholeText(c, h, w.text)
    <3> HIDE DEF done
    <3>1. executed'.error <=> done # H
      BY <2>1, <2>3
    <3>2. executed'.writes = W
      BY <2>1
    <3>3. Len(W) = Cardinality(done)
      BY <2>5
    <3>4. QED BY <2>6, <3>1, <3>2, <3>3, Zenon
  <2>8. QED BY <1>2, <1>7, <2>7 DEF WrittenWhole
<1>8. QED BY <1>6, <1>7

\* "Contents are valid; perform the writes" (ble_att_svr_prep_write): what an execution
\* writes is what was accepted from this connection, each place once: nothing at all if
\* the pieces of any attribute do not fit together, and otherwise every attribute up to
\* the first that refuses its value, which the answer then tells.
THEOREM WritesCorrect == QWSpec => WritesAreWhole
<1>1. QWInit => ListsHold
  BY ListsStart
<1>2. QInv /\ ListsHold /\ [QWNext]_writeVars => ListsHold'
  BY ListsKept
<1>3. ListsHold /\ [QWNext]_writeVars => [\A c \in Client : ExecuteWrite(c) => WrittenWhole(c)]_writeVars
  BY ExecuteFacts
<1>4. QED BY <1>1, <1>2, <1>3, QInvariant, PTL DEF QWSpec, WritesAreWhole

\* "ble_hs_timer_resched" after a Prepare Write Request, ble_hs_conn_timer after a round:
\* while the host task waits, its timer is running and comes no later than the timeout
\* of any queue that is timed.
TimerInTime == host = "idle" => \A c \in Timed : hsTimer # Off /\ hsTimer <= left[c]

\* The host keeps no entries of connections it does not have.
NothingOfOthers == \A c \in Client \ connected : queue[c] = <<>>

TInv == QInv /\ NothingOfOthers /\ TimerInTime

LEMMA MinLeast ==
    ASSUME NEW n \in Nat, NEW S \in SUBSET (0 .. n), NEW x \in S
    PROVE  Min(S) <= x
<1>1. S \in SUBSET Nat /\ S # {}
  OBVIOUS
<1>2. PICK y \in S : \A z \in S : y <= z
  BY <1>1, LeastNumber
<1>3. \A z \in S : Min(S) <= z
  BY <1>2 DEF Min
<1>4. QED BY <1>3

\* A step that times no queue that was not timed, and leaves the timer and the times of
\* the queues that are timed alone.
LEMMA SameTimes ==
    ASSUME TInv, QInv', NothingOfOthers', UNCHANGED <<hsTimer, host>>,
           \A c \in Timed' : c \in Timed /\ left'[c] = left[c]
    PROVE  TInv'
BY DEF TInv, TimerInTime

LEMMA FreedTimes ==
    ASSUME TInv, QInv', NEW c \in Client, QueueFreed(c), UNCHANGED <<hsTimer, host>>,
           connected' \subseteq connected, connected \ {c} \subseteq connected',
           terminating \ {c} \subseteq terminating'
    PROVE  TInv'
<1>1. queue \in Lists /\ left \in [Client -> 0 .. Timeout] /\ connected \subseteq Client
  BY DEF TInv, QInv, QShape
<1>2. queue' = [queue EXCEPT ![c] = <<>>] /\ left' = [left EXCEPT ![c] = 0]
  BY DEF QueueFreed
<1>3. \A d \in Client : /\ queue'[d] = IF d = c THEN <<>> ELSE queue[d]
                        /\ d # c => left'[d] = left[d]
  BY <1>1, <1>2 DEF Lists
<1>4. NothingOfOthers'
  BY <1>3 DEF TInv, NothingOfOthers
<1>5. \A d \in Timed' : d \in Timed /\ left'[d] = left[d]
  BY <1>1, <1>3 DEF Timed
<1>6. QED BY <1>4, <1>5, SameTimes

LEMMA TimerStep ==
    ASSUME TInv, [QWNext]_writeVars
    PROVE  TInv'
<1>1. QInv' /\ QInv
  BY QPreserved DEF TInv
<1>2. /\ queue \in Lists /\ left \in [Client -> 0 .. Timeout] /\ connected \subseteq Client
      /\ terminating \subseteq connected /\ Timed \subseteq Client
      /\ hsTimer \in Nat \cup {Off} /\ \A c \in Client : left[c] \in Nat
  BY <1>1, WriteBounds DEF QInv, QShape, Timed
<1>3. CASE UNCHANGED writeVars
  BY <1>1, <1>3 DEF TInv, NothingOfOthers, TimerInTime, Timed, writeVars, connVars
<1>4. ASSUME NEW c \in Client, Connect(c) PROVE TInv'
  <2>1. /\ UNCHANGED <<queue, left, terminating, hsTimer, host>> /\ connected' = connected \cup {c}
        /\ c \notin connected
    BY <1>4 DEF Connect
  <2>2. queue[c] = <<>>
    BY <2>1 DEF TInv, NothingOfOthers
  <2>3. NothingOfOthers'
    BY <2>1 DEF TInv, NothingOfOthers
  <2>4. \A d \in Timed' : d \in Timed /\ left'[d] = left[d]
    BY <2>1, <2>2 DEF Timed
  <2>5. QED BY <1>1, <2>1, <2>3, <2>4, SameTimes
<1>5. ASSUME NEW c \in Client, NEW e \in Entry, PrepareWrite(c, e) PROVE TInv'
  <2>1. /\ queue' = [queue EXCEPT ![c] = Inserted(queue[c], e)] /\ c \in connected
        /\ hsTimer' = 0 /\ UNCHANGED <<connected, terminating, host>>
    BY <1>5 DEF PrepareWrite, TimerAfterPrepare, connVars
  <2>2. NothingOfOthers'
    BY <1>2, <2>1 DEF TInv, NothingOfOthers, Lists
  <2>3. \A d \in Client : left'[d] \in Nat
    BY <1>1, WriteBounds DEF QInv, QShape
  <2>4. Timed' \subseteq Client
    BY <1>2, <2>1 DEF Timed
  <2>5. 0 # Off
    BY OffAssumption
  <2>6. TimerInTime'
    BY <2>1, <2>3, <2>4, <2>5 DEF TimerInTime
  <2>7. QED BY <1>1, <2>2, <2>6 DEF TInv
<1>6. ASSUME NEW c \in Client, PrepareFails(c) \/ ExecuteFails(c) PROVE TInv'
  BY <1>1, <1>6 DEF PrepareFails, ExecuteFails, TInv, NothingOfOthers, TimerInTime, Timed, connVars
<1>7. ASSUME NEW c \in Client, ExecuteWrite(c) \/ CancelWrite(c) PROVE TInv'
  <2>1. QueueFreed(c) /\ UNCHANGED <<connected, terminating, hsTimer, host>>
    BY <1>7 DEF ExecuteWrite, CancelWrite, connVars
  <2>2. QED BY <1>1, <2>1, FreedTimes
<1>8. ASSUME NEW c \in Client, LinkLost(c) PROVE TInv'
  BY <1>1, <1>8 DEF LinkLost, TInv, NothingOfOthers, TimerInTime, Timed
<1>9. ASSUME NEW c \in Client, ConnectionBroken(c) PROVE TInv'
  <2>1. /\ QueueFreed(c) /\ UNCHANGED <<hsTimer, host>>
        /\ connected' = connected \ {c} /\ terminating' = terminating \ {c}
    BY <1>9 DEF ConnectionBroken, TerminatingWithout
  <2>2. QED BY <1>1, <2>1, FreedTimes
<1>10. ASSUME NEW c \in Client, TerminateExpired(c) PROVE TInv'
  BY <1>1, <1>10 DEF TerminateExpired, TInv, NothingOfOthers, TimerInTime, Timed
<1>11. CASE Reset
  <2>1. connected' = {} /\ \A c \in Client : queue'[c] = <<>>
    BY <1>11 DEF Reset
  <2>2. QED BY <1>1, <2>1 DEF TInv, NothingOfOthers, TimerInTime, Timed
<1>12. CASE Tick
  <2>1. /\ UNCHANGED <<queue, connected, terminating, host>> /\ hsTimer # 0 /\ host = "idle"
        /\ left' = [c \in Client |-> IF left[c] > 0 THEN left[c] - 1 ELSE 0]
        /\ hsTimer' = IF hsTimer = Off THEN Off ELSE hsTimer - 1
    BY <1>12 DEF Tick, Idle, connVars
  <2>2. NothingOfOthers' /\ Timed' = Timed
    BY <2>1 DEF TInv, NothingOfOthers, Timed
  <2>3. ASSUME NEW c \in Timed PROVE hsTimer' # Off /\ hsTimer' <= left'[c]
    <3>1. hsTimer # Off /\ hsTimer <= left[c] /\ c \in Client
      BY <1>2, <2>1 DEF TInv, TimerInTime
    <3>2. hsTimer \in Nat /\ hsTimer > 0 /\ left[c] \in Nat
      BY <1>2, <2>1, <3>1
    <3>3. hsTimer' = hsTimer - 1 /\ left'[c] = left[c] - 1
      BY <2>1, <3>1, <3>2
    <3>4. hsTimer - 1 # Off
      BY <3>2, OffAssumption
    <3>5. QED BY <3>1, <3>2, <3>3, <3>4
  <2>4. QED BY <1>1, <2>2, <2>3 DEF TInv, TimerInTime
<1>13. CASE TimerExp
  BY <1>1, <1>13 DEF TimerExp, TInv, NothingOfOthers, TimerInTime, connVars
<1>14. CASE TimerReturns
  <2>1. /\ UNCHANGED <<queue, left, connected, terminating>>
        /\ hsTimer' = IF Timed = {} THEN Off ELSE Min({left[c] : c \in Timed})
    BY <1>14 DEF TimerReturns, connVars
  <2>2. NothingOfOthers' /\ Timed' = Timed
    BY <2>1 DEF TInv, NothingOfOthers, Timed
  <2>3. ASSUME NEW c \in Timed PROVE hsTimer' # Off /\ hsTimer' <= left'[c]
    <3> DEFINE S == {left[d] : d \in Timed}
    <3>1. S \in SUBSET (0 .. Timeout) /\ left[c] \in S /\ Timeout \in Nat
      BY <1>2, WriteBounds
    <3>2. hsTimer' = Min(S)
      BY <2>1
    <3> HIDE DEF S
    <3>3. Min(S) \in 0 .. Timeout /\ Min(S) <= left[c]
      BY <3>1, MinFacts, MinLeast
    <3>4. QED BY <2>1, <3>2, <3>3, OffAssumption
  <2>4. QED BY <1>1, <2>2, <2>3 DEF TInv, TimerInTime
<1>15. QED
  BY <1>3, <1>4, <1>5, <1>6, <1>7, <1>8, <1>9, <1>10, <1>11, <1>12, <1>13, <1>14
  DEF QWNext, Request

\* ble_hs_timer_resched, ble_hs_conn_timer: while the host task waits, the timer of a host
\* with a timed queue is running and is not later than that queue's timeout, whatever
\* requests, losses and timer rounds came before. (That the queue then ends is QueuesEnd.)
THEOREM TimerCorrect == QWSpec => []TimerInTime
<1>1. QWInit => TInv
  BY QInit DEF QWInit, TInv, NothingOfOthers, TimerInTime, Timed
<1>2. TInv /\ [QWNext]_writeVars => TInv'
  BY TimerStep
<1>3. TInv => TimerInTime
  BY DEF TInv
<1>4. QED BY <1>1, <1>2, <1>3, PTL DEF QWSpec
=============================================================================

----------------------------- MODULE MeshProofs -----------------------------
(***************************************************************************)
(* Proofs about Mesh, for every network, any number of destinations and    *)
(* datagrams, and any settings whose scores rank shorter routes first.     *)
(*                                                                         *)
(* The idea: while no route is lost, the hop counts a router holds over a  *)
(* link only fall.  So what an announcement or a route says of the next    *)
(* router's distance stays an upper bound, however late it is used, and    *)
(* the distance falls by at least two with every hop a packet makes.       *)
(***************************************************************************)
EXTENDS Mesh, NaturalFacts, FiniteSetTheorems, SequenceTheorems

-----------------------------------------------------------------------------
(* Invariants.                                                             *)

HopCounts == UNION {[D -> 0 .. MaxHop] : D \in SUBSET Destinations}
Announcements == [type : {"ANNOUNCE"}, hops : HopCounts]
Data == [type : {"DATA"}, dest : Destinations, promised : Nat, made : Nat]
Datagrams == Announcements \cup Data
Tables == UNION {[V -> Entries] : V \in SUBSET Nodes}

Types ==
    /\ inbox \in [Endpoints -> Seq(Datagrams)]
    /\ closed \subseteq Endpoints
    /\ reader \in [Endpoints -> {"waiting", "stopped"}]
    /\ routes \in [Nodes -> [Destinations -> Tables]]
    /\ \A n \in Nodes, d \in Destinations : DOMAIN routes[n][d] \subseteq Neighbours(n)
    /\ losses \in 0 .. MaxLosses
    /\ dropped \in BOOLEAN

RouteTables == [Nodes -> [Destinations -> Tables]]

(* In the routes r, router n has one to d of at most h hops.               *)
Within(r, n, d, h) == \E v \in DOMAIN r[n][d] : r[n][d][v].hops <= h

(* As many routers as h hops to d can pass, all nearer to d than h hops:   *)
(* that they are different keeps hop counts within the network's size.     *)
Support(r, d, h, S) ==
    /\ S \subseteq Nodes /\ d \in S
    /\ 2 * Cardinality(S) = h + 2
    /\ \A u \in S \ {d} : Within(r, u, d, h - 1)

(* Router m is nearer to d than h hops, with routers to support it.        *)
Backed(r, m, d, h) == Within(r, m, d, h - 1) /\ \E S \in SUBSET Nodes : Support(r, d, h, S)

(* The entries add_direct_route() and an announcement by d itself make.    *)
FirstHand(entry) ==
    \/ \E t \in Trusts, l \in Latencies :
          entry = [hops |-> 1, trust |-> t * TenTo[MaxHop], latency |-> l]
    \/ \E t \in Trusts : entry = Learned(0, t)

(* The route of n to d over v: v is d, or has a shorter route.             *)
EntryTrue(r, n, d, v) ==
    IF v = d THEN FirstHand(r[n][d][v])
    ELSE \E h \in 2 .. MaxHop :
            /\ \E t \in Trusts : r[n][d][v] = Learned(h, t)
            /\ Backed(r, v, d, h)

(* What an announcement under way from m says of d: m is d, or has such a  *)
(* route.                                                                  *)
HopsTrue(r, m, d, h) == IF m = d THEN h = 0 ELSE h \in 2 .. MaxHop /\ Backed(r, m, d, h)

(* A packet at n can still arrive in the hops it was promised.             *)
OnTime(r, n, m) ==
    IF m.dest = n THEN m.made <= m.promised
    ELSE Within(r, n, m.dest, m.promised - m.made)

DatagramTrue(r, e, m) ==
    /\ m.type = "ANNOUNCE" => \A d \in DOMAIN m.hops : HopsTrue(r, e[2], d, m.hops[d])
    /\ m.type = "DATA" => OnTime(r, e[1], m)

(* No announcement that waits at an endpoint tells of a longer route than  *)
(* the one held over its link ...                                          *)
NoLonger(r, e, m) ==
    m.type = "ANNOUNCE" => \A d \in DOMAIN m.hops :
        e[2] \in DOMAIN r[e[1]][d] => m.hops[d] + 1 <= r[e[1]][d][e[2]].hops

(* ... or than the announcements before it.                                *)
NoRise(m, later) ==
    m.type = "ANNOUNCE" /\ later.type = "ANNOUNCE" =>
        \A d \in DOMAIN m.hops \cap DOMAIN later.hops : later.hops[d] <= m.hops[d]

(* All that holds of an inbox.                                             *)
BoxTrue(r, e, box) ==
    /\ \A i \in DOMAIN box : DatagramTrue(r, e, box[i]) /\ NoLonger(r, e, box[i])
    /\ \A i, j \in DOMAIN box : i < j => NoRise(box[i], box[j])

(* All that holds while no route has been lost.                            *)
Consistent ==
    /\ closed = {} /\ ~dropped
    /\ \A n \in Nodes, d \in Destinations : \A v \in DOMAIN routes[n][d] :
          EntryTrue(routes, n, d, v)
    /\ \A e \in Endpoints : BoxTrue(routes, e, inbox[e])

SteadyInv == Steady => Consistent

-----------------------------------------------------------------------------
(* The powers are positive.                                                *)
LEMMA TenToFacts ==
    /\ TenTo \in [Nat -> Nat \ {0}] /\ TenTo[0] = 1
    /\ \A n \in Nat : TenTo[n + 1] = 10 * TenTo[n]
<1>0. 10 \in Nat \ {0} /\ 1 \in Nat \ {0}
  OBVIOUS
<1>1. PICK h : h = [n \in Nat |-> IF n = 0 THEN 1 ELSE 10 * h[n - 1]]
  BY <1>0, Powers, Zenon
<1>2. TenTo = [n \in Nat |-> IF n = 0 THEN 1 ELSE 10 * TenTo[n - 1]]
  BY <1>1, Zenon DEF TenTo
<1>3. Multiplies(TenTo, 10, 1)
  BY <1>0, <1>2, PowerFacts
<1> QED BY <1>3 DEF Multiplies

LEMMA NineToFacts ==
    /\ NineTo \in [Nat -> Nat \ {0}] /\ NineTo[0] = 1
    /\ \A n \in Nat : NineTo[n + 1] = 9 * NineTo[n]
<1>0. 9 \in Nat \ {0} /\ 1 \in Nat \ {0}
  OBVIOUS
<1>1. PICK h : h = [n \in Nat |-> IF n = 0 THEN 1 ELSE 9 * h[n - 1]]
  BY <1>0, Powers, Zenon
<1>2. NineTo = [n \in Nat |-> IF n = 0 THEN 1 ELSE 9 * NineTo[n - 1]]
  BY <1>1, Zenon DEF NineTo
<1>3. Multiplies(NineTo, 9, 1)
  BY <1>0, <1>2, PowerFacts
<1> QED BY <1>3 DEF Multiplies

-----------------------------------------------------------------------------
(* The operators of the model.                                             *)

LEMMA EndpointFacts ==
    ASSUME NEW e \in Endpoints
    PROVE  /\ e = <<e[1], e[2]>> /\ e[1] \in Nodes /\ e[2] \in Nodes /\ e[1] # e[2]
           /\ Peer(e) = <<e[2], e[1]>> /\ Peer(e) \in Endpoints /\ Peer(Peer(e)) = e
           /\ e[2] \in Neighbours(e[1]) /\ e[1] \in Neighbours(e[2])
<1>1. e = <<e[1], e[2]>> /\ e[1] \in Nodes /\ e[2] \in Nodes /\ e[1] # e[2] /\ {e[1], e[2]} \in Links
  BY DEF Endpoints
<1>2. {e[2], e[1]} \in Links /\ <<e[2], e[1]>> \in Endpoints
  <2>1. {e[2], e[1]} = {e[1], e[2]}
    OBVIOUS
  <2> QED BY <1>1, <2>1 DEF Endpoints
<1> QED BY <1>1, <1>2 DEF Peer, Neighbours

LEMMA NeighbourFacts ==
    ASSUME NEW n \in Nodes, NEW m \in Neighbours(n)
    PROVE  /\ m \in Nodes /\ m # n /\ <<n, m>> \in Endpoints /\ <<m, n>> \in Endpoints
           /\ Peer(<<n, m>>) = <<m, n>> /\ Peer(<<m, n>>) = <<n, m>>
<1>1. <<n, m>> \in Endpoints
  BY DEF Neighbours
<1>2. <<n, m>>[1] = n /\ <<n, m>>[2] = m
  OBVIOUS
<1> QED BY <1>1, <1>2, EndpointFacts DEF Peer

(* An entry made of an announcement has one hop more and no latency.       *)
LEMMA LearnedFacts ==
    ASSUME NEW h \in 0 .. MaxHop, NEW t \in Trusts
    PROVE  /\ Learned(h, t) \in Entries
           /\ Learned(h, t).hops = h + 1 /\ Learned(h, t).latency = 0
           /\ Learned(h, t).trust = Smaller(t, MaxTrust) * (NineTo[h] * TenTo[MaxHop - h])
           /\ Smaller(t, MaxTrust) \in 0 .. 20 /\ NineTo[h] * TenTo[MaxHop - h] \in Nat
<1>1. h \in Nat /\ MaxHop - h \in Nat /\ MaxHop \in Nat
  BY MeshAssumption
<1>2. NineTo[h] \in Nat /\ TenTo[MaxHop - h] \in Nat
  BY <1>1, NineToFacts, TenToFacts
<1>3. NineTo[h] * TenTo[MaxHop - h] \in Nat
  BY <1>2, ProductFacts
<1>4. Smaller(t, MaxTrust) \in 0 .. 20
  BY MeshAssumption DEF Smaller
<1> DEFINE x == NineTo[h] * TenTo[MaxHop - h]
           k == Smaller(t, MaxTrust)
<1>5. Learned(h, t) = [hops |-> h + 1, latency |-> 0, trust |-> k * x]
  BY DEF Learned
<1> HIDE DEF x, k
<1>6. k * x \in Nat
  BY <1>3, <1>4, ProductFacts DEF x, k
<1>7. h + 1 \in 1 .. MaxHop + 1
  BY <1>1
<1>8. Learned(h, t) \in Entries
  BY <1>5, <1>6, <1>7 DEF Entries
<1> QED BY <1>3, <1>4, <1>5, <1>8 DEF x, k

LEMMA DirectFacts ==
    ASSUME NEW t \in Trusts, NEW l \in Latencies
    PROVE  [hops |-> 1, trust |-> t * TenTo[MaxHop], latency |-> l] \in Entries
<1>1. t \in Nat /\ TenTo[MaxHop] \in Nat /\ l \in Nat /\ 1 \in 1 .. MaxHop + 1
  BY MeshAssumption, TenToFacts
<1>2. t * TenTo[MaxHop] \in Nat
  BY <1>1, ProductFacts
<1> QED BY <1>1, <1>2 DEF Entries

LEMMA AddRouteFacts ==
    ASSUME NEW table \in Tables, NEW via \in Nodes, NEW entry \in Entries
    PROVE  LET new == AddRoute(table, via, entry)
           IN  /\ new \in Tables /\ DOMAIN new = DOMAIN table \cup {via}
               /\ new[via] = entry
               /\ \A v \in DOMAIN table : v # via => new[v] = table[v]
<1>1. PICK V \in SUBSET Nodes : table \in [V -> Entries]
  BY DEF Tables
<1>2. AddRoute(table, via, entry) \in [V \cup {via} -> Entries]
  BY <1>1 DEF AddRoute
<1>3. V \cup {via} \in SUBSET Nodes
  OBVIOUS
<1> QED BY <1>1, <1>2, <1>3 DEF Tables, AddRoute

LEMMA TableFacts ==
    ASSUME NEW table \in Tables
    PROVE  /\ DOMAIN table \subseteq Nodes
           /\ \A v \in DOMAIN table : /\ table[v] \in Entries
                                      /\ table[v].hops \in 1 .. MaxHop + 1
                                      /\ table[v].hops \in Nat
                                      /\ table[v].trust \in Nat /\ table[v].latency \in Nat
<1>1. PICK V \in SUBSET Nodes : table \in [V -> Entries]
  BY DEF Tables
<1>2. \A x \in Entries : x.hops \in 1 .. MaxHop + 1 /\ x.hops \in Nat /\ x.trust \in Nat /\ x.latency \in Nat
  BY MeshAssumption DEF Entries
<1> QED BY <1>1, <1>2

(* Sequences at both ends.                                                 *)
LEMMA AppendFacts ==
    ASSUME NEW T, NEW s \in Seq(T), NEW x \in T
    PROVE  /\ Append(s, x) \in Seq(T)
           /\ DOMAIN s = 1 .. Len(s) /\ DOMAIN Append(s, x) = 1 .. Len(s) + 1 /\ Len(s) \in Nat
           /\ \A i \in DOMAIN s : Append(s, x)[i] = s[i]
           /\ Append(s, x)[Len(s) + 1] = x
  OBVIOUS

LEMMA TailFacts ==
    ASSUME NEW T, NEW s \in Seq(T), s # <<>>
    PROVE  /\ Tail(s) \in Seq(T)
           /\ DOMAIN s = 1 .. Len(s) /\ DOMAIN Tail(s) = 1 .. Len(s) - 1 /\ Len(s) \in Nat \ {0}
           /\ \A i \in DOMAIN Tail(s) : Tail(s)[i] = s[i + 1] /\ i + 1 \in DOMAIN s
           /\ Head(s) = s[1] /\ 1 \in DOMAIN s /\ Head(s) \in T
  OBVIOUS

LEMMA EmptyTable == <<>> \in Tables /\ DOMAIN <<>> = {}
<1> DEFINE none == [v \in {} |-> 0]
<1>1. none \in [{} -> Entries] /\ {} \in SUBSET Nodes /\ none = <<>>
  OBVIOUS
<1> QED BY <1>1 DEF Tables

-----------------------------------------------------------------------------
(* Type correctness.                                                       *)

LEMMA InitTypes == Init => Types
<1> SUFFICES ASSUME Init PROVE Types
  OBVIOUS
<1>1. inbox \in [Endpoints -> Seq(Datagrams)]
  BY DEF Init, TransportInit
<1>2. routes \in [Nodes -> [Destinations -> Tables]]
  BY EmptyTable DEF Init
<1>3. \A n \in Nodes, d \in Destinations : DOMAIN routes[n][d] \subseteq Neighbours(n)
  BY EmptyTable DEF Init
<1>4. losses \in 0 .. MaxLosses
  BY MeshAssumption DEF Init
<1>5. closed \subseteq Endpoints /\ reader \in [Endpoints -> {"waiting", "stopped"}]
  BY DEF Init, TransportInit
<1>6. dropped \in BOOLEAN
  BY DEF Init
<1> QED BY <1>1, <1>2, <1>3, <1>4, <1>5, <1>6 DEF Types

LEMMA AdvertisedFacts ==
    ASSUME Types, NEW n \in Nodes, NEW best \in [Reached(n) -> Nodes],
           \A d \in Reached(n) : best[d] \in Best(n, d)
    PROVE  LET hops == Advertised(n, best)
           IN  /\ hops \in HopCounts
               /\ DOMAIN hops = ({n} \cap Destinations) \cup Reached(n)
               /\ \A d \in DOMAIN hops : d = n => hops[d] = 0
               /\ \A d \in DOMAIN hops : d # n =>
                     /\ d \in Reached(n)
                     /\ hops[d] = Smaller(routes[n][d][best[d]].hops + 1, MaxHop)
<1> DEFINE hops == Advertised(n, best)
           D == ({n} \cap Destinations) \cup Reached(n)
<1>1. DOMAIN hops = D /\ hops = [d \in D |-> hops[d]]
  BY DEF Advertised
<1>2. \A d \in D : /\ d = n => hops[d] = 0
                   /\ d # n => /\ d \in Reached(n)
                               /\ hops[d] = Smaller(routes[n][d][best[d]].hops + 1, MaxHop)
  BY DEF Advertised
<1>3. ASSUME NEW d \in D PROVE hops[d] \in 0 .. MaxHop
  <2>1. CASE d = n
    BY <1>2, <2>1, MeshAssumption
  <2>2. CASE d # n
    <3>1. best[d] \in DOMAIN routes[n][d] /\ d \in Destinations
      BY <1>2, <2>2 DEF Best, Reached
    <3>2. routes[n][d] \in Tables
      BY <3>1 DEF Types
    <3>3. routes[n][d][best[d]].hops \in Nat
      BY <3>1, <3>2, TableFacts
    <3> QED BY <1>2, <2>2, <3>3, MeshAssumption DEF Smaller
  <2> QED BY <2>1, <2>2
<1>4. D \in SUBSET Destinations
  BY DEF Reached
<1> HIDE DEF hops, D
<1>5. hops \in HopCounts
  BY <1>1, <1>3, <1>4 DEF HopCounts
<1> QED BY <1>1, <1>2, <1>5 DEF hops, D

(* What the actions that change routes do to them.                         *)
LEMMA DirectEffect ==
    ASSUME Types, NEW e \in Endpoints, NEW t \in Trusts, NEW l \in Latencies,
           AddDirectRoute(e[1], e[2], t, l)
    PROVE  LET n == e[1]  m == e[2]
           IN  /\ m \in Destinations
               /\ routes' \in [Nodes -> [Destinations -> Tables]]
               /\ \A x \in Nodes, d \in Destinations :
                     ~(x = n /\ d = m) => routes'[x][d] = routes[x][d]
               /\ DOMAIN routes'[n][m] = DOMAIN routes[n][m] \cup {m}
               /\ routes'[n][m][m] = [hops |-> 1, trust |-> t * TenTo[MaxHop], latency |-> l]
               /\ \A v \in DOMAIN routes[n][m] : v # m => routes'[n][m][v] = routes[n][m][v]
<1> DEFINE n == e[1]
           m == e[2]
           entry == [hops |-> 1, trust |-> t * TenTo[MaxHop], latency |-> l]
           new == AddRoute(routes[n][m], m, entry)
<1>1. n \in Nodes /\ m \in Nodes /\ m \in Destinations
  BY EndpointFacts DEF AddDirectRoute
<1>2. entry \in Entries
  BY DirectFacts
<1>3. routes \in [Nodes -> [Destinations -> Tables]] /\ routes[n][m] \in Tables
  BY <1>1 DEF Types
<1>4. routes' = [routes EXCEPT ![n][m] = new]
  BY <1>1, <1>3 DEF AddDirectRoute
<1> HIDE DEF entry
<1>5. /\ new \in Tables /\ DOMAIN new = DOMAIN routes[n][m] \cup {m}
      /\ new[m] = entry
      /\ \A v \in DOMAIN routes[n][m] : v # m => new[v] = routes[n][m][v]
  BY <1>1, <1>2, <1>3, AddRouteFacts
<1> HIDE DEF new, n, m
<1>6. routes' \in [Nodes -> [Destinations -> Tables]] /\ routes'[n][m] = new
  BY <1>1, <1>3, <1>4, <1>5
<1>7. \A x \in Nodes, d \in Destinations : ~(x = n /\ d = m) => routes'[x][d] = routes[x][d]
  BY <1>1, <1>3, <1>4
<1> QED BY <1>1, <1>5, <1>6, <1>7 DEF n, m, entry

LEMMA HeardEffect ==
    ASSUME Types, NEW e \in Endpoints, ReceiveAnnounce(e)
    PROVE  LET n == e[1]  m == e[2]  hops == Head(inbox[e]).hops
           IN  \E t \in Trusts :
               /\ hops \in HopCounts
               /\ routes' \in [Nodes -> [Destinations -> Tables]]
               /\ \A x \in Nodes, d \in Destinations :
                     ~(x = n /\ d \in DOMAIN hops \ {n}) => routes'[x][d] = routes[x][d]
               /\ \A d \in DOMAIN hops \ {n} :
                     /\ d \in Destinations /\ hops[d] \in 0 .. MaxHop
                     /\ DOMAIN routes'[n][d] = DOMAIN routes[n][d] \cup {m}
                     /\ routes'[n][d][m] = Learned(hops[d], t)
                     /\ \A v \in DOMAIN routes[n][d] : v # m => routes'[n][d][v] = routes[n][d][v]
<1> DEFINE n == e[1]
           m == e[2]
           hops == Head(inbox[e]).hops
<1>1. n \in Nodes /\ m \in Nodes
  BY EndpointFacts
<1>2. hops \in HopCounts
  <2>1. inbox[e] \in Seq(Datagrams) /\ inbox[e] # <<>> /\ Head(inbox[e]).type = "ANNOUNCE"
    BY DEF ReceiveAnnounce, Get, Types
  <2>2. Head(inbox[e]) \in Datagrams
    BY <2>1, TailFacts
  <2> QED BY <2>1, <2>2 DEF Datagrams, Announcements, Data
<1>3. DOMAIN hops \subseteq Destinations /\ \A d \in DOMAIN hops : hops[d] \in 0 .. MaxHop
  BY <1>2 DEF HopCounts
<1>4. PICK t \in Trusts : ProcessAnnounce(n, m, hops, t)
  BY DEF ReceiveAnnounce
<1> HIDE DEF hops, n, m
<1> DEFINE row == [d \in Destinations |->
                      IF d \in DOMAIN hops \ {n} THEN AddRoute(routes[n][d], m, Learned(hops[d], t))
                      ELSE routes[n][d]]
<1>5. routes \in [Nodes -> [Destinations -> Tables]]
  BY DEF Types
<1>6. routes' = [routes EXCEPT ![n] = row]
  BY <1>1, <1>4, <1>5 DEF ProcessAnnounce
<1>7. ASSUME NEW d \in DOMAIN hops \ {n}
      PROVE  /\ row[d] = AddRoute(routes[n][d], m, Learned(hops[d], t))
             /\ row[d] \in Tables
             /\ DOMAIN row[d] = DOMAIN routes[n][d] \cup {m}
             /\ row[d][m] = Learned(hops[d], t)
             /\ \A v \in DOMAIN routes[n][d] : v # m => row[d][v] = routes[n][d][v]
  <2>1. routes[n][d] \in Tables /\ Learned(hops[d], t) \in Entries
    BY <1>1, <1>3, <1>5, LearnedFacts
  <2>2. row[d] = AddRoute(routes[n][d], m, Learned(hops[d], t))
    BY <1>3
  <2> HIDE DEF row
  <2> DEFINE new == AddRoute(routes[n][d], m, Learned(hops[d], t))
  <2>3. /\ new \in Tables /\ DOMAIN new = DOMAIN routes[n][d] \cup {m}
        /\ new[m] = Learned(hops[d], t)
        /\ \A v \in DOMAIN routes[n][d] : v # m => new[v] = routes[n][d][v]
    BY <1>1, <2>1, AddRouteFacts
  <2> QED BY <2>2, <2>3
<1>8. \A d \in Destinations : d \notin DOMAIN hops \ {n} => row[d] = routes[n][d]
  OBVIOUS
<1>9. row = [d \in Destinations |-> row[d]]
  OBVIOUS
<1> HIDE DEF row
<1>10. row \in [Destinations -> Tables]
  <2>1. \A d \in Destinations : row[d] \in Tables
    BY <1>1, <1>5, <1>7, <1>8
  <2> QED BY <1>9, <2>1
<1>11. /\ routes' \in [Nodes -> [Destinations -> Tables]] /\ routes'[n] = row
       /\ \A x \in Nodes : x # n => routes'[x] = routes[x]
  BY <1>1, <1>5, <1>6, <1>10
<1> QED BY <1>1, <1>2, <1>3, <1>7, <1>8, <1>11 DEF hops, n, m

(* What happens to the inboxes.                                            *)
Boxes == [Endpoints -> Seq(Datagrams)]

LEMMA PutFacts ==
    ASSUME NEW boxes \in Boxes, NEW e \in Endpoints, NEW x \in Datagrams
    PROVE  /\ Put(boxes, e, x) \in Boxes
           /\ Put(boxes, e, x)[Peer(e)] = Append(boxes[Peer(e)], x)
           /\ \A f \in Endpoints : f # Peer(e) => Put(boxes, e, x)[f] = boxes[f]
<1>1. Peer(e) \in Endpoints
  BY EndpointFacts
<1>2. Append(boxes[Peer(e)], x) \in Seq(Datagrams)
  BY <1>1, AppendFacts DEF Boxes
<1> QED BY <1>1, <1>2 DEF Put, Boxes

LEMMA TakeFacts ==
    ASSUME NEW boxes \in Boxes, NEW e \in Endpoints, boxes[e] # <<>>
    PROVE  LET rest == [boxes EXCEPT ![e] = Tail(@)]
           IN  /\ rest \in Boxes /\ rest[e] = Tail(boxes[e]) /\ Head(boxes[e]) \in Datagrams
               /\ \A f \in Endpoints : f # e => rest[f] = boxes[f]
<1>1. Tail(boxes[e]) \in Seq(Datagrams) /\ Head(boxes[e]) \in Datagrams
  BY TailFacts DEF Boxes
<1> QED BY <1>1 DEF Boxes

LEMMA DatagramFacts ==
    ASSUME NEW x \in Datagrams
    PROVE  /\ x.type \in {"ANNOUNCE", "DATA"}
           /\ x.type = "ANNOUNCE" =>
                 /\ x.hops \in HopCounts /\ DOMAIN x.hops \subseteq Destinations
                 /\ \A d \in DOMAIN x.hops : x.hops[d] \in 0 .. MaxHop
           /\ x.type = "DATA" =>
                 /\ x.dest \in Destinations /\ x.promised \in Nat /\ x.made \in Nat
                 /\ \A k \in Nat : /\ [x EXCEPT !.made = k] \in Datagrams
                                   /\ [x EXCEPT !.made = k].type = "DATA"
                                   /\ [x EXCEPT !.made = k].dest = x.dest
                                   /\ [x EXCEPT !.made = k].promised = x.promised
                                   /\ [x EXCEPT !.made = k].made = k
<1>1. CASE x \in Announcements
  <2>1. x.type = "ANNOUNCE" /\ x.hops \in HopCounts
    BY <1>1 DEF Announcements
  <2>2. DOMAIN x.hops \subseteq Destinations /\ \A d \in DOMAIN x.hops : x.hops[d] \in 0 .. MaxHop
    BY <2>1 DEF HopCounts
  <2> QED BY <2>1, <2>2
<1>2. CASE x \in Data
  BY <1>2 DEF Data, Datagrams
<1> QED BY <1>1, <1>2 DEF Datagrams

(* The outcomes of Best.                                                   *)
LEMMA BestFacts ==
    ASSUME Types, NEW n \in Nodes, NEW d \in Destinations, NEW v \in Best(n, d)
    PROVE  /\ v \in DOMAIN routes[n][d] /\ v \in Neighbours(n) /\ v \in Nodes
           /\ routes[n][d][v].hops \in Nat
<1>1. v \in DOMAIN routes[n][d]
  BY DEF Best
<1>2. routes[n][d] \in Tables /\ v \in Neighbours(n)
  BY <1>1 DEF Types
<1> QED BY <1>1, <1>2, TableFacts

(* What an announcement, a packet sent and a packet received do.           *)
LEMMA AnnounceEffect ==
    ASSUME Types, NEW e \in Endpoints, Announce(e[1], e[2])
    PROVE  \E best \in [Reached(e[1]) -> Nodes] :
              LET x == [type |-> "ANNOUNCE", hops |-> Advertised(e[1], best)]
              IN  /\ \A d \in Reached(e[1]) : best[d] \in Best(e[1], d)
                  /\ x \in Datagrams /\ inbox' = Put(inbox, e, x)
                  /\ UNCHANGED <<closed, reader, routes, losses, dropped>>
<1>1. PICK best \in [Reached(e[1]) -> Nodes] :
          /\ \A d \in Reached(e[1]) : best[d] \in Best(e[1], d)
          /\ inbox' = Put(inbox, <<e[1], e[2]>>, [type |-> "ANNOUNCE", hops |-> Advertised(e[1], best)])
  BY DEF Announce
<1>2. e[1] \in Nodes /\ e = <<e[1], e[2]>>
  BY EndpointFacts
<1>3. Advertised(e[1], best) \in HopCounts
  BY <1>1, <1>2, AdvertisedFacts
<1>4. [type |-> "ANNOUNCE", hops |-> Advertised(e[1], best)] \in Datagrams
  BY <1>3 DEF Datagrams, Announcements
<1>5. UNCHANGED <<closed, reader, routes, losses, dropped>>
  BY DEF Announce
<1> QED BY <1>1, <1>2, <1>4, <1>5

LEMMA OriginateEffect ==
    ASSUME Types, NEW n \in Nodes, NEW d \in Destinations, Originate(n, d)
    PROVE  \E v \in Best(n, d) :
              LET x == [type |-> "DATA", dest |-> d, promised |-> routes[n][d][v].hops, made |-> 1]
              IN  /\ n # d /\ x \in Datagrams /\ inbox' = Put(inbox, <<n, v>>, x)
                  /\ UNCHANGED <<closed, reader, routes, losses, dropped>>
<1>1. PICK v \in Best(n, d) :
          inbox' = Put(inbox, <<n, v>>,
                 [type |-> "DATA", dest |-> d, promised |-> routes[n][d][v].hops, made |-> 1])
  BY DEF Originate
<1>2. n # d /\ UNCHANGED <<closed, reader, routes, losses, dropped>>
  BY DEF Originate
<1>3. [type |-> "DATA", dest |-> d, promised |-> routes[n][d][v].hops, made |-> 1] \in Datagrams
  BY BestFacts DEF Datagrams, Data
<1> QED BY <1>1, <1>2, <1>3

LEMMA ReceiveDataEffect ==
    ASSUME Types, NEW e \in Endpoints, ReceiveData(e)
    PROVE  LET n == e[1]  m == Head(inbox[e])  rest == [inbox EXCEPT ![e] = Tail(@)]
           IN  /\ inbox[e] # <<>> /\ m \in Datagrams /\ m.type = "DATA"
               /\ UNCHANGED <<closed, routes, losses>>
               /\ reader' = [reader EXCEPT ![e] = AfterCall(e)]
               /\ \/ m.dest = n /\ inbox' = rest /\ dropped' = dropped
                  \/ m.dest # n /\ CannotForward(n, m.dest) /\ inbox' = rest /\ dropped' = TRUE
                  \/ /\ m.dest # n /\ dropped' = dropped
                     /\ \E v \in Best(n, m.dest) :
                           inbox' = Put(rest, <<n, v>>, [m EXCEPT !.made = Smaller(m.made + 1, m.promised + 1)])
<1> DEFINE n == e[1]
           m == Head(inbox[e])
           rest == [inbox EXCEPT ![e] = Tail(@)]
<1>1. inbox \in Boxes /\ inbox[e] # <<>>
  BY DEF Types, Boxes, ReceiveData, Get
<1>2. m \in Datagrams /\ m.type = "DATA"
  BY <1>1, TakeFacts DEF ReceiveData
<1>3. UNCHANGED <<closed, routes, losses>> /\ reader' = [reader EXCEPT ![e] = AfterCall(e)]
  BY DEF ReceiveData, Get
<1>4. \/ m.dest = n /\ inbox' = rest /\ dropped' = dropped
      \/ m.dest # n /\ CannotForward(n, m.dest) /\ inbox' = rest /\ dropped' = TRUE
      \/ /\ m.dest # n /\ dropped' = dropped
         /\ \E v \in Best(n, m.dest) :
               inbox' = Put(rest, <<n, v>>, [m EXCEPT !.made = Smaller(@ + 1, m.promised + 1)])
  BY DEF ReceiveData
<1>5. [m EXCEPT !.made = Smaller(@ + 1, m.promised + 1)] = [m EXCEPT !.made = Smaller(m.made + 1, m.promised + 1)]
  BY <1>2 DEF Datagrams, Data, Announcements
<1> HIDE DEF rest, m, n
<1> QED BY <1>1, <1>2, <1>3, <1>4, <1>5 DEF rest, m, n

LEMMA NextTypes == ASSUME Types, [Next]_vars PROVE Types'
<1> DEFINE Links0 == \A n \in Nodes, d \in Destinations : DOMAIN routes[n][d] \subseteq Neighbours(n)
<1>0. /\ inbox \in Boxes /\ closed \subseteq Endpoints
      /\ reader \in [Endpoints -> {"waiting", "stopped"}]
      /\ routes \in [Nodes -> [Destinations -> Tables]] /\ Links0
      /\ losses \in 0 .. MaxLosses /\ dropped \in BOOLEAN
      /\ \A e \in Endpoints : AfterCall(e) \in {"waiting", "stopped"}
  BY DEF Types, Boxes, AfterCall
<1>1. ASSUME inbox' \in Boxes, closed' \subseteq Endpoints,
             reader' \in [Endpoints -> {"waiting", "stopped"}],
             UNCHANGED <<routes, losses>>, dropped' \in BOOLEAN
      PROVE  Types'
  BY <1>0, <1>1 DEF Types, Boxes
<1>2. ASSUME routes' \in [Nodes -> [Destinations -> Tables]], Links0',
             losses' \in 0 .. MaxLosses, inbox' \in Boxes, closed' \subseteq Endpoints,
             reader' \in [Endpoints -> {"waiting", "stopped"}], dropped' = dropped
      PROVE  Types'
  BY <1>0, <1>2 DEF Types, Boxes
<1>3. ASSUME NEW e \in Endpoints, RecvTimeout(e), UNCHANGED <<routes, losses, dropped>>
      PROVE  Types'
  BY <1>0, <1>1, <1>3 DEF RecvTimeout
<1>4. ASSUME NEW e \in Endpoints, ReceiveAnnounce(e) PROVE Types'
  <2>1. PICK t \in Trusts :
            /\ routes' \in [Nodes -> [Destinations -> Tables]]
            /\ \A x \in Nodes, d \in Destinations :
                  ~(x = e[1] /\ d \in DOMAIN Head(inbox[e]).hops \ {e[1]}) => routes'[x][d] = routes[x][d]
            /\ \A d \in DOMAIN Head(inbox[e]).hops \ {e[1]} :
                  DOMAIN routes'[e[1]][d] = DOMAIN routes[e[1]][d] \cup {e[2]}
    BY <1>4, HeardEffect
  <2>2. e[2] \in Neighbours(e[1])
    BY EndpointFacts
  <2>3. Links0'
    <3> SUFFICES ASSUME NEW n \in Nodes, NEW d \in Destinations
                 PROVE  DOMAIN routes'[n][d] \subseteq Neighbours(n)
      BY DEF Neighbours
    <3>1. DOMAIN routes[n][d] \subseteq Neighbours(n)
      BY <1>0
    <3>2. CASE n = e[1] /\ d \in DOMAIN Head(inbox[e]).hops \ {e[1]}
      BY <2>1, <2>2, <3>1, <3>2
    <3>3. CASE ~(n = e[1] /\ d \in DOMAIN Head(inbox[e]).hops \ {e[1]})
      BY <2>1, <3>1, <3>3
    <3> QED BY <3>2, <3>3
  <2>4. /\ inbox[e] # <<>> /\ inbox' = [inbox EXCEPT ![e] = Tail(@)]
        /\ closed' = closed /\ reader' = [reader EXCEPT ![e] = AfterCall(e)]
        /\ losses' = losses /\ dropped' = dropped
    BY <1>4 DEF ReceiveAnnounce, Get
  <2>5. inbox' \in Boxes
    BY <1>0, <2>4, TakeFacts
  <2> HIDE DEF Links0
  <2> QED BY <1>0, <1>2, <2>1, <2>3, <2>4, <2>5
<1>5. ASSUME NEW e \in Endpoints, ReceiveData(e) PROVE Types'
  <2> DEFINE n == e[1]
             m == Head(inbox[e])
             rest == [inbox EXCEPT ![e] = Tail(@)]
             k == Smaller(m.made + 1, m.promised + 1)
  <2>1. /\ inbox[e] # <<>> /\ m \in Datagrams /\ m.type = "DATA"
        /\ UNCHANGED <<closed, routes, losses>>
        /\ reader' = [reader EXCEPT ![e] = AfterCall(e)]
        /\ dropped' \in {dropped, TRUE}
        /\ \/ inbox' = rest
           \/ \E v \in Best(n, m.dest) : inbox' = Put(rest, <<n, v>>, [m EXCEPT !.made = k])
    BY <1>5, ReceiveDataEffect
  <2>2. rest \in Boxes
    BY <1>0, <2>1, TakeFacts
  <2>3. n \in Nodes /\ m.dest \in Destinations /\ k \in Nat /\ [m EXCEPT !.made = k] \in Datagrams
    <3>1. m.dest \in Destinations /\ m.made \in Nat /\ m.promised \in Nat
      BY <2>1, DatagramFacts
    <3>2. k \in Nat
      <4> HIDE DEF m
      <4> QED BY <3>1 DEF Smaller
    <3> HIDE DEF k
    <3> QED BY <2>1, <3>1, <3>2, EndpointFacts, DatagramFacts
  <2> HIDE DEF rest, m, k, n
  <2>4. inbox' \in Boxes
    <3>1. ASSUME NEW v \in Best(n, m.dest) PROVE <<n, v>> \in Endpoints
      BY <2>3, BestFacts, NeighbourFacts
    <3> QED BY <2>1, <2>2, <2>3, <3>1, PutFacts
  <2>5. dropped' \in BOOLEAN
    BY <1>0, <2>1
  <2> QED BY <1>0, <1>1, <2>1, <2>4, <2>5
<1>6. ASSUME NEW e \in Endpoints, CloseLink(e) PROVE Types'
  <2>1. /\ closed' \subseteq Endpoints /\ inbox' = inbox /\ routes' = routes /\ dropped' = dropped
        /\ reader' \in [Endpoints -> {"waiting", "stopped"}]
    BY <1>0, <1>6 DEF CloseLink, Close
  <2>2. losses' \in 0 .. MaxLosses
    BY <1>0, <1>6, MeshAssumption DEF CloseLink
  <2>3. Links0'
    BY <1>0, <2>1
  <2> HIDE DEF Links0
  <2> QED BY <1>0, <1>2, <2>1, <2>2, <2>3
<1>7. ASSUME NEW e \in Endpoints, Announce(e[1], e[2]) PROVE Types'
  <2>1. PICK x \in Datagrams : /\ inbox' = Put(inbox, e, x)
                               /\ UNCHANGED <<closed, reader, routes, losses, dropped>>
    BY <1>7, AnnounceEffect
  <2>2. inbox' \in Boxes
    BY <1>0, <2>1, PutFacts
  <2> QED BY <1>0, <1>1, <2>1, <2>2
<1>8. ASSUME NEW e \in Endpoints, NEW t \in Trusts, NEW l \in Latencies,
             AddDirectRoute(e[1], e[2], t, l)
      PROVE  Types'
  <2>1. /\ routes' \in [Nodes -> [Destinations -> Tables]]
        /\ \A x \in Nodes, d \in Destinations :
              ~(x = e[1] /\ d = e[2]) => routes'[x][d] = routes[x][d]
        /\ DOMAIN routes'[e[1]][e[2]] = DOMAIN routes[e[1]][e[2]] \cup {e[2]}
    BY <1>8, DirectEffect
  <2>2. UNCHANGED <<inbox, closed, reader, losses, dropped>>
    BY <1>8 DEF AddDirectRoute, transport
  <2>3. Links0'
    BY <1>0, <2>1, EndpointFacts
  <2> HIDE DEF Links0
  <2> QED BY <1>0, <1>2, <2>1, <2>2, <2>3
<1>9. ASSUME NEW n \in Nodes, NEW d \in Destinations, Originate(n, d) PROVE Types'
  <2>1. PICK v \in Best(n, d), x \in Datagrams :
            /\ inbox' = Put(inbox, <<n, v>>, x)
            /\ UNCHANGED <<closed, reader, routes, losses, dropped>>
    BY <1>9, OriginateEffect
  <2>2. inbox' \in Boxes
    BY <1>0, <2>1, BestFacts, NeighbourFacts, PutFacts
  <2> QED BY <1>0, <1>1, <2>1, <2>2
<1>10. ASSUME NEW n \in Nodes, NEW d \in Destinations, NEW table \in Tables,
              DOMAIN table \subseteq DOMAIN routes[n][d],
              routes' = [routes EXCEPT ![n][d] = table],
              losses < MaxLosses, losses' = losses + 1,
              UNCHANGED <<inbox, closed, reader, dropped>>
       PROVE  Types'
  <2>1. routes' \in [Nodes -> [Destinations -> Tables]]
    BY <1>0, <1>10
  <2>2. Links0'
    <3>1. ASSUME NEW x \in Nodes, NEW f \in Destinations
          PROVE  DOMAIN routes'[x][f] \subseteq DOMAIN routes[x][f]
      BY <1>0, <1>10
    <3> QED BY <1>0, <3>1
  <2>3. losses' \in 0 .. MaxLosses
    BY <1>0, <1>10, MeshAssumption
  <2> HIDE DEF Links0
  <2> QED BY <1>0, <1>2, <1>10, <2>1, <2>2, <2>3
<1>11. ASSUME NEW n \in Nodes, NEW d \in Destinations, Remove(n, d) PROVE Types'
  <2>1. routes' = [routes EXCEPT ![n][d] = <<>>] /\ losses < MaxLosses /\ losses' = losses + 1
        /\ UNCHANGED <<inbox, closed, reader, dropped>>
    BY <1>11 DEF Remove, transport
  <2> QED BY <1>10, <2>1, EmptyTable
<1>12. ASSUME NEW n \in Nodes, NEW d \in Destinations, NEW v \in Nodes, Expire(n, d, v) PROVE Types'
  <2> DEFINE old == routes[n][d]
             new == [w \in DOMAIN old \ {v} |-> old[w]]
  <2>1. routes' = [routes EXCEPT ![n][d] = new] /\ losses < MaxLosses /\ losses' = losses + 1
        /\ UNCHANGED <<inbox, closed, reader, dropped>>
    BY <1>0, <1>12 DEF Expire, transport
  <2>2. new \in Tables /\ DOMAIN new \subseteq DOMAIN old
    <3>0. old \in Tables
      BY <1>0
    <3> HIDE DEF old
    <3>1. PICK V \in SUBSET Nodes : old \in [V -> Entries]
      BY <3>0 DEF Tables
    <3>2. DOMAIN old = V /\ \A w \in V : old[w] \in Entries
      BY <3>1
    <3>3. new \in [V \ {v} -> Entries] /\ DOMAIN new = V \ {v}
      BY <3>2
    <3>4. V \ {v} \in SUBSET Nodes
      OBVIOUS
    <3> HIDE DEF new
    <3> QED BY <3>2, <3>3, <3>4 DEF Tables
  <2> HIDE DEF new
  <2> QED BY <1>10, <2>1, <2>2
<1>13. CASE UNCHANGED vars
  BY <1>0, <1>1, <1>13 DEF vars
<1> HIDE DEF Links0
<1> QED BY <1>3, <1>4, <1>5, <1>6, <1>7, <1>8, <1>9, <1>11, <1>12, <1>13 DEF Next, Read

LEMMA TypesHold == Spec => []Types
  BY InitTypes, NextTypes, PTL DEF Spec

(* Every announcement carries hop counts of two bytes, every route leads   *)
(* over a link of its router with a count one larger, and the counters and *)
(* flags have their ranges.                                                *)
THEOREM MeshTypeCorrect == Spec => []TypeOK
<1>1. Types => TypeOK
  <2> SUFFICES ASSUME Types PROVE TypeOK
    OBVIOUS
  <2>1. ASSUME NEW e \in Endpoints, NEW i \in DOMAIN inbox[e]
        PROVE  \/ inbox[e][i].type = "ANNOUNCE" /\ \A d \in DOMAIN inbox[e][i].hops :
                     inbox[e][i].hops[d] \in 0 .. MaxHop
               \/ inbox[e][i].type = "DATA" /\ inbox[e][i].dest \in Destinations
    <3>1. inbox[e][i] \in Datagrams
      BY DEF Types
    <3> QED BY <3>1, DatagramFacts
  <2>2. ASSUME NEW n \in Nodes, NEW d \in Destinations
        PROVE  /\ DOMAIN routes[n][d] \subseteq Neighbours(n)
               /\ \A v \in DOMAIN routes[n][d] : routes[n][d][v] \in Entries
    <3>1. routes[n][d] \in Tables
      BY DEF Types
    <3> QED BY <3>1, TableFacts DEF Types
  <2> QED BY <2>1, <2>2 DEF Types, TypeOK
<1> QED BY <1>1, TypesHold, PTL

-----------------------------------------------------------------------------
(* Hop counts fall.                                                        *)

Nearer(r, q) ==
    \A n \in Nodes, d \in Destinations : \A v \in DOMAIN r[n][d] :
        v \in DOMAIN q[n][d] /\ q[n][d][v].hops <= r[n][d][v].hops

LEMMA RouteFacts ==
    ASSUME NEW r \in RouteTables, NEW n \in Nodes, NEW d \in Destinations,
           NEW v \in DOMAIN r[n][d]
    PROVE  v \in Nodes /\ r[n][d][v].hops \in Nat /\ r[n][d][v].hops >= 1
                       /\ r[n][d][v].trust \in Nat /\ r[n][d][v].latency \in Nat
<1>1. r[n][d] \in Tables
  BY DEF RouteTables
<1> QED BY <1>1, TableFacts, MeshAssumption

(* What is true of routes stays true when they become shorter.             *)
LEMMA WithinCarries ==
    ASSUME NEW r \in RouteTables, NEW q \in RouteTables, Nearer(r, q),
           NEW n \in Nodes, NEW d \in Destinations, NEW h \in Int, NEW k \in Int, h <= k,
           Within(r, n, d, h)
    PROVE  Within(q, n, d, k)
<1>1. PICK v \in DOMAIN r[n][d] : r[n][d][v].hops <= h
  BY DEF Within
<1>2. v \in DOMAIN q[n][d] /\ q[n][d][v].hops <= r[n][d][v].hops
  BY <1>1 DEF Nearer
<1>3. r[n][d][v].hops \in Nat /\ q[n][d][v].hops \in Nat
  BY <1>1, <1>2, RouteFacts
<1>4. q[n][d][v].hops <= k
  BY <1>1, <1>2, <1>3
<1> QED BY <1>2, <1>4 DEF Within

LEMMA NearerReflexive ==
    ASSUME NEW r \in RouteTables
    PROVE  Nearer(r, r)
  BY RouteFacts DEF Nearer

LEMMA BackedCarries ==
    ASSUME NEW r \in RouteTables, NEW q \in RouteTables, Nearer(r, q),
           NEW m \in Nodes, NEW d \in Destinations, NEW h \in Int, Backed(r, m, d, h)
    PROVE  Backed(q, m, d, h)
<1>1. Within(q, m, d, h - 1)
  BY WithinCarries DEF Backed
<1>2. PICK S \in SUBSET Nodes : Support(r, d, h, S)
  BY DEF Backed
<1>3. Support(q, d, h, S)
  BY <1>2, WithinCarries DEF Support
<1> QED BY <1>1, <1>3 DEF Backed

LEMMA EntryCarries ==
    ASSUME NEW r \in RouteTables, NEW q \in RouteTables, Nearer(r, q),
           NEW n \in Nodes, NEW d \in Destinations, NEW v \in DOMAIN r[n][d],
           EntryTrue(r, n, d, v), q[n][d][v] = r[n][d][v]
    PROVE  EntryTrue(q, n, d, v)
<1>1. v \in Nodes /\ MaxHop \in Nat
  BY RouteFacts, MeshAssumption
<1>2. CASE v = d
  BY <1>2 DEF EntryTrue
<1>3. CASE v # d
  <2>1. PICK h \in 2 .. MaxHop : /\ \E t \in Trusts : r[n][d][v] = Learned(h, t)
                                 /\ Backed(r, v, d, h)
    BY <1>3 DEF EntryTrue
  <2>2. Backed(q, v, d, h)
    BY <1>1, <2>1, BackedCarries
  <2> QED BY <1>3, <2>1, <2>2 DEF EntryTrue
<1> QED BY <1>2, <1>3

LEMMA DatagramCarries ==
    ASSUME NEW r \in RouteTables, NEW q \in RouteTables, Nearer(r, q),
           NEW e \in Endpoints, NEW m \in Datagrams, DatagramTrue(r, e, m)
    PROVE  DatagramTrue(q, e, m)
<1>1. e[1] \in Nodes /\ e[2] \in Nodes /\ MaxHop \in Nat
  BY EndpointFacts, MeshAssumption
<1>2. ASSUME m.type = "ANNOUNCE", NEW d \in DOMAIN m.hops PROVE HopsTrue(q, e[2], d, m.hops[d])
  <2>1. d \in Destinations /\ m.hops[d] \in 0 .. MaxHop
    BY <1>2, DatagramFacts
  <2>2. HopsTrue(r, e[2], d, m.hops[d])
    BY <1>2 DEF DatagramTrue
  <2> QED BY <1>1, <2>1, <2>2, BackedCarries DEF HopsTrue
<1>3. ASSUME m.type = "DATA" PROVE OnTime(q, e[1], m)
  <2>1. m.dest \in Destinations /\ m.promised - m.made \in Int
    BY <1>3, DatagramFacts
  <2>2. OnTime(r, e[1], m)
    BY <1>3 DEF DatagramTrue
  <2> QED BY <1>1, <2>1, <2>2, WithinCarries DEF OnTime
<1> QED BY <1>2, <1>3 DEF DatagramTrue

(* Inboxes.                                                                *)
LEMMA BoxTail ==
    ASSUME NEW r, NEW e, NEW box \in Seq(Datagrams), box # <<>>, BoxTrue(r, e, box)
    PROVE  BoxTrue(r, e, Tail(box))
<1>1. \A i \in DOMAIN Tail(box) : Tail(box)[i] = box[i + 1] /\ i + 1 \in DOMAIN box /\ i \in Int
  BY TailFacts
<1>2. \A i, j \in DOMAIN Tail(box) : i < j => i + 1 < j + 1
  BY <1>1
<1> QED BY <1>1, <1>2 DEF BoxTrue

LEMMA BoxAppend ==
    ASSUME NEW r, NEW e, NEW box \in Seq(Datagrams), NEW m \in Datagrams, BoxTrue(r, e, box),
           DatagramTrue(r, e, m), NoLonger(r, e, m), \A i \in DOMAIN box : NoRise(box[i], m)
    PROVE  BoxTrue(r, e, Append(box, m))
<1> DEFINE new == Append(box, m)
           l == Len(box) + 1
<1>1. /\ l \in Nat /\ new[l] = m
      /\ \A i \in DOMAIN new : i \in Nat /\ (i = l \/ i \in DOMAIN box)
      /\ \A i \in DOMAIN box : new[i] = box[i] /\ i < l
  BY AppendFacts
<1>2. \A i, j \in DOMAIN new : i < j => i \in DOMAIN box
  <2>1. \A i \in DOMAIN new : i <= l
    BY AppendFacts
  <2> HIDE DEF new, l
  <2> QED BY <1>1, <2>1
<1> HIDE DEF new, l
<1>3. \A i \in DOMAIN new : DatagramTrue(r, e, new[i]) /\ NoLonger(r, e, new[i])
  BY <1>1 DEF BoxTrue
<1>4. ASSUME NEW i \in DOMAIN new, NEW j \in DOMAIN new, i < j PROVE NoRise(new[i], new[j])
  BY <1>1, <1>2, <1>4 DEF BoxTrue
<1>5. BoxTrue(r, e, new)
  BY <1>3, <1>4 DEF BoxTrue
<1> QED BY <1>5 DEF new

-----------------------------------------------------------------------------
(* The routes best() picks.                                                *)

(* A route over d itself has one hop, any other at least three.            *)
LEMMA EntryHops ==
    ASSUME NEW r \in RouteTables, NEW n \in Nodes, NEW d \in Destinations,
           NEW v \in DOMAIN r[n][d], EntryTrue(r, n, d, v)
    PROVE  /\ v = d => r[n][d][v].hops = 1
           /\ v # d => \E h \in 2 .. MaxHop :
                          /\ r[n][d][v].hops = h + 1
                          /\ \E t \in Trusts : r[n][d][v] = Learned(h, t)
                          /\ Backed(r, v, d, h)
<1>0. MaxHop \in Nat /\ 0 \in 0 .. MaxHop /\ \A h \in 2 .. MaxHop : h \in 0 .. MaxHop
  BY MeshAssumption
<1>1. CASE v = d
  <2>1. FirstHand(r[n][d][v])
    BY <1>1 DEF EntryTrue
  <2>2. ASSUME NEW t \in Trusts, r[n][d][v] = Learned(0, t) PROVE r[n][d][v].hops = 1
    <3>1. Learned(0, t).hops = 0 + 1
      BY <1>0, LearnedFacts
    <3> QED BY <2>2, <3>1
  <2>3. ASSUME NEW t \in Trusts, NEW l \in Latencies,
               r[n][d][v] = [hops |-> 1, trust |-> t * TenTo[MaxHop], latency |-> l]
        PROVE  r[n][d][v].hops = 1
    BY <2>3
  <2>4. r[n][d][v].hops = 1
    BY <2>1, <2>2, <2>3 DEF FirstHand
  <2> QED BY <1>1, <2>4
<1>2. CASE v # d
  <2>1. PICK h \in 2 .. MaxHop : /\ \E t \in Trusts : r[n][d][v] = Learned(h, t)
                                 /\ Backed(r, v, d, h)
    BY <1>2 DEF EntryTrue
  <2>2. r[n][d][v].hops = h + 1
    BY <1>0, <2>1, LearnedFacts
  <2> QED BY <1>2, <2>1, <2>2
<1> QED BY <1>1, <1>2

LEMMA Ranked ==
    ASSUME ShorterScoresHigher, Types, Consistent,
           NEW n \in Nodes, NEW d \in Destinations,
           NEW v \in DOMAIN routes[n][d], NEW w \in DOMAIN routes[n][d],
           routes[n][d][v].hops < routes[n][d][w].hops
    PROVE  ~AsGood(routes[n][d][w], routes[n][d][v])
<1>1. ASSUME NEW u \in DOMAIN routes[n][d]
      PROVE  routes[n][d][u] \in DirectEntries \cup HeardEntries
  <2>1. EntryTrue(routes, n, d, u)
    BY DEF Consistent
  <2>2. \A h \in {0} \cup 2 .. MaxHop, t \in Trusts : Learned(h, t) \in HeardEntries
    BY DEF HeardEntries
  <2>3. \A t \in Trusts, l \in Latencies :
            [hops |-> 1, trust |-> t * TenTo[MaxHop], latency |-> l] \in DirectEntries
    BY DEF DirectEntries
  <2> QED BY <2>1, <2>2, <2>3, Zenon DEF EntryTrue, FirstHand
<1> QED BY <1>1 DEF ShorterScoresHigher

LEMMA BestShortest ==
    ASSUME ShorterScoresHigher, Types, Consistent,
           NEW n \in Nodes, NEW d \in Destinations,
           NEW v \in Best(n, d), NEW w \in DOMAIN routes[n][d]
    PROVE  routes[n][d][v].hops <= routes[n][d][w].hops
<1>1. v \in DOMAIN routes[n][d] /\ AsGood(routes[n][d][v], routes[n][d][w])
  BY DEF Best
<1>2. routes \in RouteTables
  BY DEF Types, RouteTables
<1>3. routes[n][d][v].hops \in Nat /\ routes[n][d][w].hops \in Nat
  BY <1>1, <1>2, RouteFacts
<1>4. ~(routes[n][d][w].hops < routes[n][d][v].hops)
  BY <1>1, Ranked
<1> QED BY <1>3, <1>4

(* The score of two entries can be compared.                               *)
LEMMA AsGoodFacts ==
    ASSUME NEW a, NEW b, a.hops \in Nat, a.trust \in Nat, a.latency \in Nat,
           b.hops \in Nat, b.trust \in Nat, b.latency \in Nat
    PROVE  /\ ~AsGood(b, a) => AsGood(a, b)
           /\ AsGood(a, a)
           /\ a.hops = b.hops /\ a.latency = b.latency /\ a.trust >= b.trust => AsGood(a, b)
<1> DEFINE la == Larger(a.latency, 1)
           lb == Larger(b.latency, 1)
<1>1. la \in Nat /\ lb \in Nat
  BY DEF Larger
<1>2. /\ AsGood(a, b) <=> a.trust * (b.hops * lb) >= b.trust * (a.hops * la)
      /\ AsGood(b, a) <=> b.trust * (a.hops * la) >= a.trust * (b.hops * lb)
      /\ AsGood(a, a) <=> a.trust * (a.hops * la) >= a.trust * (a.hops * la)
      /\ a.latency = b.latency => la = lb
  BY DEF AsGood
<1> HIDE DEF la, lb
<1>3. a.hops * la \in Nat /\ b.hops * lb \in Nat
  BY <1>1, ProductFacts
<1>4. /\ a.trust * (b.hops * lb) \in Nat /\ b.trust * (a.hops * la) \in Nat
      /\ a.trust * (a.hops * la) \in Nat
  BY <1>3, ProductFacts
<1>5. b.trust <= a.trust => b.trust * (a.hops * la) <= a.trust * (a.hops * la)
  BY <1>3, ProductFacts
<1>6. ~AsGood(b, a) => AsGood(a, b)
  BY <1>2, <1>4
<1>7. AsGood(a, a)
  BY <1>2, <1>4
<1>8. ASSUME a.hops = b.hops, a.latency = b.latency, a.trust >= b.trust PROVE AsGood(a, b)
  <2>1. a.hops * la = b.hops * lb
    BY <1>2, <1>8
  <2>2. b.trust * (a.hops * la) <= a.trust * (b.hops * lb)
    BY <1>5, <1>8, <2>1
  <2> QED BY <1>2, <1>4, <2>2
<1> QED BY <1>6, <1>7, <1>8

(* best() finds a route where there is one.                                *)
LEMMA BestExists ==
    ASSUME ShorterScoresHigher, Types, Consistent,
           NEW n \in Nodes, NEW d \in Destinations, DOMAIN routes[n][d] # {}
    PROVE  Best(n, d) # {}
<1> DEFINE table == routes[n][d]
           V == DOMAIN table
           Counts == {table[v].hops : v \in V}
<1>1. routes \in RouteTables
  BY DEF Types, RouteTables
<1>2. ASSUME NEW v \in V
      PROVE  table[v].hops \in Nat /\ table[v].trust \in Nat /\ table[v].latency \in Nat
  BY <1>1, RouteFacts
<1>3. PICK u \in V : \A v \in V : table[u].hops <= table[v].hops
  <2>1. Counts \subseteq Nat /\ Counts # {}
    BY <1>2
  <2>2. PICK c \in Counts : \A x \in Counts : c <= x
    <3> HIDE DEF Counts
    <3> QED BY <2>1, Least
  <2> QED BY <2>2
<1> DEFINE W == {v \in V : table[v].hops = table[u].hops}
<1>4. ASSUME NEW w \in W, \A v \in W : AsGood(table[w], table[v])
      PROVE  w \in Best(n, d)
  <2>1. ASSUME NEW v \in V PROVE AsGood(table[w], table[v])
    <3>1. CASE v \in W
      BY <1>4, <3>1
    <3>2. CASE v \notin W
      <4>1. table[w].hops < table[v].hops
        BY <1>2, <1>3, <3>2
      <4>2. ~AsGood(table[v], table[w])
        BY <4>1, Ranked
      <4> QED BY <1>2, <4>2, AsGoodFacts
    <3> QED BY <3>1, <3>2
  <2> QED BY <2>1 DEF Best
<1>5. ASSUME NEW v \in V
      PROVE  /\ v = d => table[v].hops = 1
             /\ v # d => \E h \in 2 .. MaxHop :
                            /\ table[v].hops = h + 1
                            /\ \E t \in Trusts : table[v] = Learned(h, t)
  <2>1. EntryTrue(routes, n, d, v)
    BY DEF Consistent
  <2> QED BY <1>1, <2>1, EntryHops
<1> HIDE DEF table
<1>6. CASE u = d
  <2>1. \A v \in W : v = u
    BY <1>5, <1>6
  <2>2. AsGood(table[u], table[u])
    BY <1>2, AsGoodFacts
  <2> QED BY <1>4, <2>1, <2>2
<1>7. CASE u # d
  <2>1. PICK h \in 2 .. MaxHop : table[u].hops = h + 1
    BY <1>5, <1>7
  <2> DEFINE x == NineTo[h] * TenTo[MaxHop - h]
             Scores == {table[v].trust : v \in W}
  <2>2. ASSUME NEW v \in W
        PROVE  table[v].latency = 0 /\ table[v].trust <= 20 * x
    <3>1. v # d
      BY <1>5, <2>1
    <3>2. PICK g \in 2 .. MaxHop, t \in Trusts : table[v].hops = g + 1 /\ table[v] = Learned(g, t)
      BY <1>5, <3>1
    <3>3. g = h /\ h \in 0 .. MaxHop
      BY <2>1, <3>2, MeshAssumption
    <3>4. /\ Learned(h, t).latency = 0
          /\ Learned(h, t).trust = Smaller(t, MaxTrust) * x
          /\ Smaller(t, MaxTrust) \in 0 .. 20 /\ x \in Nat
      BY <3>3, LearnedFacts
    <3> HIDE DEF x
    <3>5. Smaller(t, MaxTrust) * x <= 20 * x
      BY <3>4, ProductFacts
    <3> QED BY <3>2, <3>3, <3>4, <3>5
  <2>3. x \in Nat
    <3>1. h \in Nat /\ MaxHop - h \in Nat
      BY MeshAssumption
    <3>2. NineTo[h] \in Nat /\ TenTo[MaxHop - h] \in Nat
      BY <3>1, NineToFacts, TenToFacts
    <3> QED BY <3>2, ProductFacts
  <2> HIDE DEF x
  <2>4. 20 * x \in Nat
    BY <2>3
  <2>5. Scores \subseteq Nat /\ Scores # {} /\ \A y \in Scores : y <= 20 * x
    BY <1>2, <2>2
  <2>6. PICK c \in Scores : \A y \in Scores : y <= c
    <3> HIDE DEF Scores
    <3> QED BY <2>4, <2>5, Greatest
  <2>7. PICK w \in W : \A v \in W : table[v].trust <= table[w].trust
    BY <2>6
  <2>8. ASSUME NEW v \in W PROVE AsGood(table[w], table[v])
    <3>1. table[w].hops = table[v].hops /\ table[w].latency = table[v].latency
      BY <2>2
    <3> QED BY <1>2, <2>7, <3>1, AsGoodFacts
  <2> QED BY <1>4, <2>8
<1> QED BY <1>6, <1>7

-----------------------------------------------------------------------------
(* Every action, while no route has been lost.                             *)

(* What a router announces of a destination is backed, and fits.           *)
LEMMA AnnouncedBacked ==
    ASSUME ShorterScoresHigher, HopCountFits, Types, Consistent,
           NEW n \in Nodes, NEW d \in Destinations, n # d, NEW v \in Best(n, d)
    PROVE  /\ routes[n][d][v].hops + 1 \in 2 .. MaxHop
           /\ Backed(routes, n, d, routes[n][d][v].hops + 1)
<1> DEFINE b == routes[n][d][v].hops
<1>1. routes \in RouteTables /\ v \in DOMAIN routes[n][d] /\ EntryTrue(routes, n, d, v)
  BY DEF Types, RouteTables, Best, Consistent
<1>2. b \in Nat /\ b >= 1 /\ d \in Nodes /\ MaxHop \in Nat
  BY <1>1, RouteFacts, MeshAssumption
<1>3. Within(routes, n, d, b)
  BY <1>1, <1>2 DEF Within
<1>4. ASSUME NEW h \in Int, h < b PROVE ~Within(routes, n, d, h)
  <2> SUFFICES ASSUME NEW w \in DOMAIN routes[n][d], routes[n][d][w].hops <= h PROVE FALSE
    BY DEF Within
  <2>1. b <= routes[n][d][w].hops /\ routes[n][d][w].hops \in Nat
    BY <1>1, BestShortest, RouteFacts
  <2> HIDE DEF b
  <2> QED BY <1>2, <1>4, <2>1
<1>5. IsFiniteSet(Nodes) /\ 2 * Cardinality(Nodes) <= MaxHop + 2
  BY DEF HopCountFits
<1>6. \E S \in SUBSET Nodes : Support(routes, d, b + 1, S)
  <2>1. CASE v = d
    <3>1. b = 1
      BY <1>1, <2>1, EntryHops
    <3>2. Cardinality({d} \cup {n}) = 2
      <4>1. IsFiniteSet({d}) /\ Cardinality({d}) = 1
        BY FS_Singleton
      <4>2. n \notin {d}
        OBVIOUS
      <4>3. Cardinality({d} \cup {n}) = Cardinality({d}) + 1
        BY <4>1, <4>2, FS_AddElement, Zenon
      <4> QED BY <4>1, <4>3
    <3> DEFINE S == {d} \cup {n}
    <3>3. S \subseteq Nodes /\ d \in S /\ \A u \in S \ {d} : u = n
      BY <1>2
    <3> HIDE DEF S, b
    <3>4. 2 * Cardinality(S) = (b + 1) + 2 /\ (b + 1) - 1 = b
      BY <3>1, <3>2 DEF S
    <3>5. Support(routes, d, b + 1, S)
      BY <1>3, <3>3, <3>4 DEF Support
    <3> QED BY <3>3, <3>5
  <2>2. CASE v # d
    <3>1. PICK h \in 2 .. MaxHop : b = h + 1 /\ Backed(routes, v, d, h)
      BY <1>1, <2>2, EntryHops
    <3> HIDE DEF b
    <3>2. PICK S0 \in SUBSET Nodes : Support(routes, d, h, S0)
      BY <3>1 DEF Backed
    <3>3. h \in Int /\ h - 1 \in Int /\ h - 1 < b /\ h - 1 <= b /\ (b + 1) - 1 = b
      BY <1>2, <3>1
    <3>4. /\ d \in S0 /\ 2 * Cardinality(S0) = h + 2
          /\ \A u \in S0 \ {d} : Within(routes, u, d, h - 1)
      BY <3>2 DEF Support
    <3>5. n \notin S0
      BY <1>4, <3>3, <3>4
    <3> DEFINE S == S0 \cup {n}
    <3>6. IsFiniteSet(S0) /\ Cardinality(S0) \in Nat
      BY <1>5, FS_Subset, FS_CardinalityType
    <3>7. Cardinality(S) = Cardinality(S0) + 1
      BY <3>5, <3>6, FS_AddElement
    <3>8. ASSUME NEW u \in S \ {d} PROVE Within(routes, u, d, b)
      <4>1. CASE u = n
        BY <1>3, <4>1
      <4>2. CASE u # n
        <5>1. u \in Nodes /\ Within(routes, u, d, h - 1)
          BY <3>4, <4>2
        <5> QED BY <1>1, <1>2, <3>3, <5>1, NearerReflexive, WithinCarries
      <4> QED BY <4>1, <4>2
    <3>9. S \subseteq Nodes /\ d \in S
      BY <3>4
    <3> HIDE DEF S
    <3>10. 2 * Cardinality(S) = (b + 1) + 2
      BY <1>2, <3>1, <3>4, <3>6, <3>7
    <3>11. Support(routes, d, b + 1, S)
      BY <3>3, <3>8, <3>9, <3>10 DEF Support
    <3> QED BY <3>9, <3>11
  <2> QED BY <2>1, <2>2
<1> HIDE DEF b
<1>7. b + 1 \in 2 .. MaxHop
  <2>1. PICK S \in SUBSET Nodes : Support(routes, d, b + 1, S)
    BY <1>6
  <2>2. 2 * Cardinality(S) = (b + 1) + 2
    BY <2>1 DEF Support
  <2>3. Cardinality(S) <= Cardinality(Nodes) /\ Cardinality(S) \in Nat /\ Cardinality(Nodes) \in Nat
    BY <1>5, FS_Subset, FS_CardinalityType
  <2> QED BY <1>2, <1>5, <2>2, <2>3
<1>8. (b + 1) - 1 = b
  BY <1>2
<1>9. Backed(routes, n, d, b + 1)
  BY <1>3, <1>6, <1>8 DEF Backed
<1> QED BY <1>7, <1>9 DEF b

(* best() takes a route no longer than any the router holds.               *)
LEMMA BestOfNext ==
    ASSUME ShorterScoresHigher, Types, Consistent,
           NEW n \in Nodes, NEW d \in Destinations, NEW h \in Int, Within(routes, n, d, h),
           NEW v \in Best(n, d)
    PROVE  routes[n][d][v].hops <= h
<1>1. routes \in RouteTables /\ v \in DOMAIN routes[n][d]
  BY DEF Types, RouteTables, Best
<1>2. PICK w \in DOMAIN routes[n][d] : routes[n][d][w].hops <= h
  BY DEF Within
<1>3. routes[n][d][v].hops <= routes[n][d][w].hops
  BY <1>2, BestShortest
<1>4. routes[n][d][v].hops \in Nat /\ routes[n][d][w].hops \in Nat
  BY <1>1, <1>2, RouteFacts
<1> QED BY <1>2, <1>3, <1>4

LEMMA AnnounceSteady ==
    ASSUME ShorterScoresHigher, HopCountFits, Types, Types', Consistent,
           NEW e \in Endpoints, Announce(e[1], e[2])
    PROVE  Consistent'
<1> DEFINE n == e[1]
           m == e[2]
           p == Peer(e)
<1>1. PICK best \in [Reached(n) -> Nodes] :
          LET x == [type |-> "ANNOUNCE", hops |-> Advertised(n, best)]
          IN  /\ \A d \in Reached(n) : best[d] \in Best(n, d)
              /\ x \in Datagrams /\ inbox' = Put(inbox, e, x)
              /\ UNCHANGED <<closed, reader, routes, losses, dropped>>
  BY AnnounceEffect
<1> DEFINE hops == Advertised(n, best)
           x == [type |-> "ANNOUNCE", hops |-> hops]
<1>2. n \in Nodes /\ m \in Nodes /\ p \in Endpoints /\ p[1] = m /\ p[2] = n /\ routes \in RouteTables
  BY EndpointFacts DEF Types, RouteTables
<1>3. /\ \A d \in DOMAIN hops : d \in Destinations
      /\ \A d \in DOMAIN hops : d = n => hops[d] = 0
      /\ \A d \in DOMAIN hops : d # n =>
            /\ d \in Reached(n)
            /\ hops[d] = Smaller(routes[n][d][best[d]].hops + 1, MaxHop)
  <2>1. \A d \in Reached(n) : best[d] \in Best(n, d)
    BY <1>1
  <2>2. /\ DOMAIN hops = ({n} \cap Destinations) \cup Reached(n)
        /\ \A d \in DOMAIN hops : d = n => hops[d] = 0
        /\ \A d \in DOMAIN hops : d # n =>
              /\ d \in Reached(n)
              /\ hops[d] = Smaller(routes[n][d][best[d]].hops + 1, MaxHop)
    BY <1>2, <2>1, AdvertisedFacts
  <2>3. Reached(n) \subseteq Destinations
    BY DEF Reached
  <2> HIDE DEF hops, n
  <2> QED BY <2>2, <2>3
<1>4. x.type = "ANNOUNCE" /\ x.hops = hops
  OBVIOUS
<1> HIDE DEF hops, n, m, p
<1>5. ASSUME NEW d \in DOMAIN hops, d # n
      PROVE  /\ best[d] \in Best(n, d)
             /\ hops[d] = routes[n][d][best[d]].hops + 1
             /\ hops[d] \in 2 .. MaxHop /\ Backed(routes, n, d, hops[d])
             /\ routes[n][d][best[d]].hops \in Nat
  <2>1. best[d] \in Best(n, d) /\ d \in Destinations /\ d \in Reached(n)
    BY <1>1, <1>3, <1>5
  <2>2. /\ routes[n][d][best[d]].hops + 1 \in 2 .. MaxHop
        /\ Backed(routes, n, d, routes[n][d][best[d]].hops + 1)
    BY <1>2, <1>5, <2>1, AnnouncedBacked
  <2>3. routes[n][d][best[d]].hops \in Nat
    BY <1>2, <2>1, BestFacts
  <2>4. hops[d] = routes[n][d][best[d]].hops + 1
    BY <1>3, <1>5, <2>2, <2>3, MeshAssumption DEF Smaller
  <2> QED BY <2>1, <2>2, <2>3, <2>4
<1>6. ASSUME NEW d \in DOMAIN hops PROVE HopsTrue(routes, n, d, hops[d])
  BY <1>3, <1>5 DEF HopsTrue
<1>7. ASSUME NEW d \in DOMAIN hops, d # n, NEW h \in Int, Within(routes, n, d, h - 1)
      PROVE  hops[d] <= h
  <2>1. d \in Destinations /\ h - 1 \in Int
    BY <1>3
  <2>2. routes[n][d][best[d]].hops <= h - 1
    BY <1>2, <1>5, <1>7, <2>1, BestOfNext
  <2> QED BY <1>5, <1>7, <2>2
<1>8. DatagramTrue(routes, p, x)
  BY <1>2, <1>4, <1>6 DEF DatagramTrue
<1>9. NoLonger(routes, p, x)
  <2> SUFFICES ASSUME NEW d \in DOMAIN hops, n \in DOMAIN routes[m][d]
               PROVE  hops[d] + 1 <= routes[m][d][n].hops
    BY <1>2, <1>4 DEF NoLonger
  <2>1. EntryTrue(routes, m, d, n) /\ d \in Destinations
    BY <1>2, <1>3 DEF Consistent
  <2>2. CASE n = d
    <3>1. routes[m][d][n].hops = 1 /\ hops[d] = 0
      BY <1>2, <1>3, <2>1, <2>2, EntryHops
    <3> QED BY <3>1
  <2>3. CASE n # d
    <3>1. PICK h \in 2 .. MaxHop : routes[m][d][n].hops = h + 1 /\ Backed(routes, n, d, h)
      BY <1>2, <2>1, <2>3, EntryHops
    <3>2. h \in Int /\ Within(routes, n, d, h - 1)
      BY <3>1 DEF Backed
    <3>3. hops[d] <= h /\ hops[d] \in Int
      BY <1>5, <1>7, <2>3, <3>2
    <3> QED BY <3>1, <3>3
  <2> QED BY <2>2, <2>3
<1>10. BoxTrue(routes, p, inbox[p]) /\ inbox[p] \in Seq(Datagrams)
  BY <1>2 DEF Consistent, Types
<1>11. ASSUME NEW i \in DOMAIN inbox[p] PROVE NoRise(inbox[p][i], x)
  <2> DEFINE y == inbox[p][i]
  <2> SUFFICES ASSUME y.type = "ANNOUNCE", NEW d \in DOMAIN y.hops \cap DOMAIN hops
               PROVE  hops[d] <= y.hops[d]
    BY <1>4 DEF NoRise
  <2>1. HopsTrue(routes, n, d, y.hops[d])
    BY <1>2, <1>10 DEF BoxTrue, DatagramTrue
  <2>2. CASE d = n
    BY <1>3, <2>1, <2>2 DEF HopsTrue
  <2>3. CASE d # n
    <3>1. y.hops[d] \in 2 .. MaxHop /\ Within(routes, n, d, y.hops[d] - 1)
      BY <2>1, <2>3 DEF HopsTrue, Backed
    <3> QED BY <1>7, <2>3, <3>1
  <2> QED BY <2>2, <2>3
<1>12. x \in Datagrams /\ inbox' = Put(inbox, e, x) /\ inbox \in Boxes
       /\ UNCHANGED <<closed, routes, dropped>>
  BY <1>1 DEF Types, Boxes, hops, n
<1> HIDE DEF x
<1>13. BoxTrue(routes, p, Append(inbox[p], x))
  BY <1>8, <1>9, <1>10, <1>11, <1>12, BoxAppend
<1>14. \A f \in Endpoints : BoxTrue(routes, f, inbox'[f])
  <2>1. \A f \in Endpoints : BoxTrue(routes, f, inbox[f])
    BY DEF Consistent
  <2>2. inbox'[p] = Append(inbox[p], x) /\ \A f \in Endpoints : f # p => inbox'[f] = inbox[f]
    BY <1>12, PutFacts DEF p
  <2> QED BY <1>13, <2>1, <2>2
<1> QED BY <1>12, <1>14 DEF Consistent

(* A packet that takes a best route is on time at the next router.         *)
LEMMA NextOnTime ==
    ASSUME Types, Consistent, NEW n \in Nodes, NEW d \in Destinations, NEW v \in Best(n, d),
           NEW x \in Datagrams, x.type = "DATA", x.dest = d,
           routes[n][d][v].hops <= (x.promised - x.made) + 1
    PROVE  /\ <<n, v>> \in Endpoints /\ Peer(<<n, v>>) = <<v, n>> /\ <<v, n>> \in Endpoints
           /\ DatagramTrue(routes, <<v, n>>, x)
<1>1. /\ routes \in RouteTables /\ v \in DOMAIN routes[n][d] /\ v \in Nodes
      /\ EntryTrue(routes, n, d, v)
  BY BestFacts DEF Types, RouteTables, Consistent
<1>2. <<n, v>> \in Endpoints /\ <<v, n>> \in Endpoints /\ Peer(<<n, v>>) = <<v, n>>
  BY BestFacts, NeighbourFacts
<1>3. x.promised \in Nat /\ x.made \in Nat
  BY DatagramFacts
<1>4. OnTime(routes, v, x)
  <2>1. CASE v = d
    <3>1. routes[n][d][v].hops = 1
      BY <1>1, <2>1, EntryHops
    <3> QED BY <1>3, <2>1, <3>1 DEF OnTime
  <2>2. CASE v # d
    <3>1. PICK h \in 2 .. MaxHop : routes[n][d][v].hops = h + 1 /\ Backed(routes, v, d, h)
      BY <1>1, <2>2, EntryHops
    <3>2. h - 1 \in Int /\ x.promised - x.made \in Int /\ h - 1 <= x.promised - x.made
      BY <1>3, <3>1
    <3>3. Within(routes, v, d, h - 1)
      BY <3>1 DEF Backed
    <3>4. Within(routes, v, d, x.promised - x.made)
      BY <1>1, <3>2, <3>3, NearerReflexive, WithinCarries
    <3> QED BY <2>2, <3>4 DEF OnTime
  <2> QED BY <2>1, <2>2
<1>5. <<v, n>>[1] = v /\ x.type # "ANNOUNCE"
  OBVIOUS
<1> QED BY <1>2, <1>4, <1>5 DEF DatagramTrue

LEMMA BoxAppendData ==
    ASSUME NEW r, NEW e, NEW box \in Seq(Datagrams), NEW m \in Datagrams, m.type = "DATA",
           BoxTrue(r, e, box), DatagramTrue(r, e, m)
    PROVE  BoxTrue(r, e, Append(box, m))
<1>1. NoLonger(r, e, m) /\ \A i \in DOMAIN box : NoRise(box[i], m)
  BY DEF NoLonger, NoRise
<1> QED BY <1>1, BoxAppend

LEMMA OriginateSteady ==
    ASSUME Types, Consistent,
           NEW n \in Nodes, NEW d \in Destinations, Originate(n, d)
    PROVE  Consistent'
<1>1. PICK v \in Best(n, d) :
          LET x == [type |-> "DATA", dest |-> d, promised |-> routes[n][d][v].hops, made |-> 1]
          IN  /\ n # d /\ x \in Datagrams /\ inbox' = Put(inbox, <<n, v>>, x)
              /\ UNCHANGED <<closed, reader, routes, losses, dropped>>
  BY OriginateEffect
<1> DEFINE b == routes[n][d][v].hops
           x == [type |-> "DATA", dest |-> d, promised |-> b, made |-> 1]
           p == <<v, n>>
<1>2. b \in Nat
  BY BestFacts
<1>3. x.type = "DATA" /\ x.dest = d /\ x.promised = b /\ x.made = 1
  OBVIOUS
<1>4. x \in Datagrams /\ inbox' = Put(inbox, <<n, v>>, x) /\ inbox \in Boxes
      /\ UNCHANGED <<closed, routes, dropped>>
  BY <1>1 DEF Types, Boxes
<1> HIDE DEF x
<1>5. b <= (x.promised - x.made) + 1
  BY <1>2, <1>3
<1>6. /\ <<n, v>> \in Endpoints /\ Peer(<<n, v>>) = p /\ p \in Endpoints
      /\ DatagramTrue(routes, p, x)
  BY <1>3, <1>4, <1>5, NextOnTime
<1> HIDE DEF p
<1>7. BoxTrue(routes, p, inbox[p]) /\ inbox[p] \in Seq(Datagrams)
  BY <1>4, <1>6 DEF Consistent, Boxes
<1>8. BoxTrue(routes, p, Append(inbox[p], x))
  BY <1>3, <1>4, <1>6, <1>7, BoxAppendData
<1>9. \A f \in Endpoints : BoxTrue(routes, f, inbox'[f])
  <2>1. \A f \in Endpoints : BoxTrue(routes, f, inbox[f])
    BY DEF Consistent
  <2>2. inbox'[p] = Append(inbox[p], x) /\ \A f \in Endpoints : f # p => inbox'[f] = inbox[f]
    BY <1>4, <1>6, PutFacts
  <2> QED BY <1>8, <2>1, <2>2
<1> QED BY <1>4, <1>9 DEF Consistent

LEMMA ReceiveDataSteady ==
    ASSUME ShorterScoresHigher, Types, Consistent, NEW e \in Endpoints, ReceiveData(e)
    PROVE  Consistent'
<1> DEFINE n == e[1]
           m == Head(inbox[e])
           rest == [inbox EXCEPT ![e] = Tail(@)]
           k == Smaller(m.made + 1, m.promised + 1)
           x == [m EXCEPT !.made = k]
           d == m.dest
<1>1. /\ inbox[e] # <<>> /\ m \in Datagrams /\ m.type = "DATA"
      /\ UNCHANGED <<closed, routes, losses>>
      /\ \/ m.dest = n /\ inbox' = rest /\ dropped' = dropped
         \/ m.dest # n /\ CannotForward(n, m.dest) /\ inbox' = rest /\ dropped' = TRUE
         \/ /\ m.dest # n /\ dropped' = dropped
            /\ \E v \in Best(n, m.dest) : inbox' = Put(rest, <<n, v>>, x)
  BY ReceiveDataEffect
<1>2. n \in Nodes /\ inbox \in Boxes /\ routes \in RouteTables
  BY EndpointFacts DEF Types, Boxes, RouteTables
<1>3. rest \in Boxes /\ rest[e] = Tail(inbox[e]) /\ \A f \in Endpoints : f # e => rest[f] = inbox[f]
  BY <1>1, <1>2, TakeFacts
<1>4. inbox[e] \in Seq(Datagrams) /\ \A f \in Endpoints : BoxTrue(routes, f, inbox[f])
  BY <1>2 DEF Consistent, Boxes
<1>5. OnTime(routes, n, m)
  <2>1. m = inbox[e][1] /\ 1 \in DOMAIN inbox[e]
    BY <1>1, <1>4, TailFacts
  <2> HIDE DEF m
  <2> QED BY <1>1, <1>4, <2>1 DEF BoxTrue, DatagramTrue
<1> HIDE DEF rest
<1>6. \A f \in Endpoints : BoxTrue(routes, f, rest[f])
  <2>1. BoxTrue(routes, e, rest[e])
    BY <1>1, <1>3, <1>4, BoxTail
  <2> QED BY <1>3, <1>4, <2>1
<1>7. d \in Destinations /\ m.promised \in Nat /\ m.made \in Nat
  BY <1>1, DatagramFacts
<1> HIDE DEF m
<1>8. CASE m.dest = n /\ inbox' = rest /\ dropped' = dropped
  BY <1>1, <1>6, <1>8 DEF Consistent
<1>9. ASSUME d # n PROVE Within(routes, n, d, m.promised - m.made)
  BY <1>5, <1>9 DEF OnTime
<1>10. CASE d # n /\ CannotForward(n, d) /\ inbox' = rest /\ dropped' = TRUE
  <2>1. DOMAIN routes[n][d] # {}
    BY <1>9, <1>10 DEF Within
  <2>2. Best(n, d) # {}
    BY <1>2, <1>7, <2>1, BestExists
  <2>3. \A v \in Best(n, d) : CanSend(<<n, v>>)
    BY DEF Consistent, CanSend
  <2> QED BY <1>10, <2>2, <2>3 DEF CannotForward
<1>11. ASSUME d # n, dropped' = dropped, NEW v \in Best(n, d), inbox' = Put(rest, <<n, v>>, x)
       PROVE  Consistent'
  <2> DEFINE p == <<v, n>>
             b == routes[n][d][v].hops
  <2>1. b <= m.promised - m.made
    BY <1>2, <1>7, <1>9, <1>11, BestOfNext
  <2>2. b \in Nat /\ b >= 1
    BY <1>2, <1>7, BestFacts, RouteFacts
  <2> HIDE DEF b
  <2>3. k = m.made + 1 /\ k \in Nat
    BY <1>7, <2>1, <2>2 DEF Smaller
  <2> HIDE DEF k
  <2>4. x \in Datagrams /\ x.type = "DATA" /\ x.dest = d /\ x.promised = m.promised /\ x.made = k
    BY <1>1, <2>3, DatagramFacts
  <2> HIDE DEF x
  <2>5. b <= (x.promised - x.made) + 1
    BY <1>7, <2>1, <2>2, <2>3, <2>4
  <2>6. /\ <<n, v>> \in Endpoints /\ Peer(<<n, v>>) = p /\ p \in Endpoints
        /\ DatagramTrue(routes, p, x)
    BY <1>2, <1>7, <2>4, <2>5, NextOnTime DEF b
  <2> HIDE DEF p
  <2>7. rest[p] \in Seq(Datagrams)
    BY <1>3, <2>6 DEF Boxes
  <2>8. BoxTrue(routes, p, Append(rest[p], x))
    BY <1>6, <2>4, <2>6, <2>7, BoxAppendData
  <2>9. inbox'[p] = Append(rest[p], x) /\ \A f \in Endpoints : f # p => inbox'[f] = rest[f]
    BY <1>3, <1>11, <2>4, <2>6, PutFacts
  <2>10. \A f \in Endpoints : BoxTrue(routes, f, inbox'[f])
    BY <1>6, <2>8, <2>9
  <2> QED BY <1>1, <1>11, <2>10 DEF Consistent
<1> QED BY <1>1, <1>8, <1>10, <1>11

LEMMA DirectSteady ==
    ASSUME Types, Types', Consistent,
           NEW e \in Endpoints, NEW t \in Trusts, NEW l \in Latencies,
           AddDirectRoute(e[1], e[2], t, l)
    PROVE  Consistent'
<1> DEFINE n == e[1]
           m == e[2]
<1>1. /\ m \in Destinations
      /\ \A x \in Nodes, d \in Destinations : ~(x = n /\ d = m) => routes'[x][d] = routes[x][d]
      /\ DOMAIN routes'[n][m] = DOMAIN routes[n][m] \cup {m}
      /\ routes'[n][m][m] = [hops |-> 1, trust |-> t * TenTo[MaxHop], latency |-> l]
      /\ \A v \in DOMAIN routes[n][m] : v # m => routes'[n][m][v] = routes[n][m][v]
  BY DirectEffect
<1>2. e = <<n, m>> /\ n \in Nodes /\ m \in Nodes /\ n # m
  BY EndpointFacts
<1>3. inbox' = inbox /\ closed' = closed /\ dropped' = dropped
  BY DEF AddDirectRoute, transport
<1>4. routes \in RouteTables /\ routes' \in RouteTables /\ inbox \in Boxes
  BY DEF Types, RouteTables, Boxes
<1> HIDE DEF n, m
<1>5. routes'[n][m][m].hops = 1 /\ FirstHand(routes'[n][m][m])
  BY <1>1 DEF FirstHand
<1>6. \A x \in Nodes, d \in Destinations : \A v \in DOMAIN routes[x][d] : EntryTrue(routes, x, d, v)
  BY DEF Consistent
<1>7. ASSUME NEW x \in Nodes, NEW d \in Destinations, NEW v \in DOMAIN routes'[x][d],
             ~(x = n /\ d = m /\ v = m)
      PROVE  v \in DOMAIN routes[x][d] /\ routes'[x][d][v] = routes[x][d][v]
  BY <1>1, <1>7
<1>8. Nearer(routes, routes')
  <2> SUFFICES ASSUME NEW x \in Nodes, NEW d \in Destinations, NEW v \in DOMAIN routes[x][d]
               PROVE  v \in DOMAIN routes'[x][d] /\ routes'[x][d][v].hops <= routes[x][d][v].hops
    BY DEF Nearer
  <2>1. v \in DOMAIN routes'[x][d]
    BY <1>1
  <2>2. CASE x = n /\ d = m /\ v = m
    <3>1. routes[x][d][v].hops = 1
      BY <1>4, <1>6, <2>2, EntryHops
    <3> QED BY <1>5, <2>1, <2>2, <3>1
  <2>3. CASE ~(x = n /\ d = m /\ v = m)
    <3>1. routes'[x][d][v] = routes[x][d][v] /\ routes[x][d][v].hops \in Nat
      BY <1>4, <1>7, <2>1, <2>3, RouteFacts
    <3> QED BY <2>1, <3>1
  <2> QED BY <2>2, <2>3
<1>9. ASSUME NEW x \in Nodes, NEW d \in Destinations, NEW v \in DOMAIN routes'[x][d]
      PROVE  EntryTrue(routes', x, d, v)
  <2>1. CASE x = n /\ d = m /\ v = m
    BY <1>5, <2>1 DEF EntryTrue
  <2>2. CASE ~(x = n /\ d = m /\ v = m)
    BY <1>4, <1>6, <1>7, <1>8, <2>2, EntryCarries
  <2> QED BY <2>1, <2>2
<1>10. ASSUME NEW f \in Endpoints PROVE BoxTrue(routes', f, inbox[f])
  <2>1. BoxTrue(routes, f, inbox[f]) /\ \A i \in DOMAIN inbox[f] : inbox[f][i] \in Datagrams
    BY <1>4 DEF Consistent, Boxes
  <2>2. ASSUME NEW i \in DOMAIN inbox[f] PROVE DatagramTrue(routes', f, inbox[f][i])
    BY <1>4, <1>8, <2>1, DatagramCarries DEF BoxTrue
  <2>3. ASSUME NEW i \in DOMAIN inbox[f] PROVE NoLonger(routes', f, inbox[f][i])
    <3> DEFINE y == inbox[f][i]
    <3> SUFFICES ASSUME y.type = "ANNOUNCE", NEW d \in DOMAIN y.hops, f[2] \in DOMAIN routes'[f[1]][d]
                 PROVE  y.hops[d] + 1 <= routes'[f[1]][d][f[2]].hops
      BY DEF NoLonger
    <3>1. y \in Datagrams /\ DatagramTrue(routes, f, y) /\ NoLonger(routes, f, y)
      BY <2>1 DEF BoxTrue
    <3> HIDE DEF y
    <3>2. d \in Destinations /\ f[1] \in Nodes /\ HopsTrue(routes, f[2], d, y.hops[d])
      BY <3>1, DatagramFacts, EndpointFacts DEF DatagramTrue
    <3>3. CASE f[1] = n /\ d = m /\ f[2] = m
      BY <1>5, <3>2, <3>3 DEF HopsTrue
    <3>4. CASE ~(f[1] = n /\ d = m /\ f[2] = m)
      <4>1. f[2] \in DOMAIN routes[f[1]][d] /\ routes'[f[1]][d][f[2]] = routes[f[1]][d][f[2]]
        BY <1>7, <3>2, <3>4
      <4> QED BY <3>1, <4>1 DEF NoLonger
    <3> QED BY <3>3, <3>4
  <2> QED BY <2>1, <2>2, <2>3 DEF BoxTrue
<1> QED BY <1>3, <1>9, <1>10 DEF Consistent

LEMMA HeardSteady ==
    ASSUME Types, Types', Consistent, NEW e \in Endpoints, ReceiveAnnounce(e)
    PROVE  Consistent'
<1> DEFINE n == e[1]
           m == e[2]
           a == Head(inbox[e])
           hops == Head(inbox[e]).hops
           D == DOMAIN hops \ {n}
<1>1. PICK t \in Trusts :
          /\ hops \in HopCounts
          /\ \A x \in Nodes, d \in Destinations : ~(x = n /\ d \in D) => routes'[x][d] = routes[x][d]
          /\ \A d \in D :
                /\ d \in Destinations /\ hops[d] \in 0 .. MaxHop
                /\ DOMAIN routes'[n][d] = DOMAIN routes[n][d] \cup {m}
                /\ routes'[n][d][m] = Learned(hops[d], t)
                /\ \A v \in DOMAIN routes[n][d] : v # m => routes'[n][d][v] = routes[n][d][v]
  BY HeardEffect
<1>2. e = <<n, m>> /\ n \in Nodes /\ m \in Nodes /\ n # m
  BY EndpointFacts
<1>3. /\ a.type = "ANNOUNCE" /\ inbox[e] # <<>> /\ inbox' = [inbox EXCEPT ![e] = Tail(@)]
      /\ closed' = closed /\ dropped' = dropped
  BY DEF ReceiveAnnounce, Get
<1>4. routes \in RouteTables /\ routes' \in RouteTables /\ inbox \in Boxes
  BY DEF Types, RouteTables, Boxes
<1>5. \A x \in Nodes, d \in Destinations : \A v \in DOMAIN routes[x][d] : EntryTrue(routes, x, d, v)
  BY DEF Consistent
<1>6. inbox[e] \in Seq(Datagrams) /\ \A f \in Endpoints : BoxTrue(routes, f, inbox[f])
  BY <1>4 DEF Consistent, Boxes
<1>7. a = inbox[e][1] /\ 1 \in DOMAIN inbox[e]
  BY <1>3, <1>6, TailFacts
<1>8. a.hops = hops
  OBVIOUS
<1> HIDE DEF a, hops, n, m
<1>9. ASSUME NEW d \in D PROVE HopsTrue(routes, m, d, hops[d])
  BY <1>3, <1>6, <1>7, <1>8 DEF BoxTrue, DatagramTrue, m
<1>10. ASSUME NEW d \in D, m \in DOMAIN routes[n][d] PROVE hops[d] + 1 <= routes[n][d][m].hops
  BY <1>3, <1>6, <1>7, <1>8, <1>10 DEF BoxTrue, NoLonger, m, n
<1>11. ASSUME NEW d \in D PROVE routes'[n][d][m].hops = hops[d] + 1
  BY <1>1, LearnedFacts
<1> HIDE DEF D
<1>12. ASSUME NEW x \in Nodes, NEW d \in Destinations, NEW v \in DOMAIN routes'[x][d],
             ~(x = n /\ d \in D /\ v = m)
      PROVE  v \in DOMAIN routes[x][d] /\ routes'[x][d][v] = routes[x][d][v]
  BY <1>1, <1>12
<1>13. Nearer(routes, routes')
  <2> SUFFICES ASSUME NEW x \in Nodes, NEW d \in Destinations, NEW v \in DOMAIN routes[x][d]
               PROVE  v \in DOMAIN routes'[x][d] /\ routes'[x][d][v].hops <= routes[x][d][v].hops
    BY DEF Nearer
  <2>1. v \in DOMAIN routes'[x][d]
    BY <1>1
  <2>2. CASE x = n /\ d \in D /\ v = m
    BY <1>10, <1>11, <2>1, <2>2
  <2>3. CASE ~(x = n /\ d \in D /\ v = m)
    <3>1. routes'[x][d][v] = routes[x][d][v] /\ routes[x][d][v].hops \in Nat
      BY <1>4, <1>12, <2>1, <2>3, RouteFacts
    <3> QED BY <2>1, <3>1
  <2> QED BY <2>2, <2>3
<1>14. ASSUME NEW x \in Nodes, NEW d \in Destinations, NEW v \in DOMAIN routes'[x][d]
      PROVE  EntryTrue(routes', x, d, v)
  <2>1. CASE x = n /\ d \in D /\ v = m
    <3>1. routes'[n][d][m] = Learned(hops[d], t) /\ HopsTrue(routes, m, d, hops[d])
      BY <1>1, <1>9, <2>1
    <3>2. CASE m = d
      BY <2>1, <3>1, <3>2 DEF HopsTrue, EntryTrue, FirstHand
    <3>3. CASE m # d
      <4>1. hops[d] \in 2 .. MaxHop /\ Backed(routes, m, d, hops[d])
        BY <3>1, <3>3 DEF HopsTrue
      <4>2. Backed(routes', m, d, hops[d])
        BY <1>2, <1>4, <1>13, <4>1, BackedCarries
      <4> QED BY <2>1, <3>1, <3>3, <4>1, <4>2 DEF EntryTrue
    <3> QED BY <3>2, <3>3
  <2>2. CASE ~(x = n /\ d \in D /\ v = m)
    BY <1>4, <1>5, <1>12, <1>13, <2>2, EntryCarries
  <2> QED BY <2>1, <2>2
<1>15. ASSUME NEW f \in Endpoints, NEW box \in Seq(Datagrams), BoxTrue(routes, f, box),
              f = e => \A i \in DOMAIN box : NoRise(a, box[i])
       PROVE  BoxTrue(routes', f, box)
  <2>1. \A i \in DOMAIN box : box[i] \in Datagrams
    OBVIOUS
  <2>2. ASSUME NEW i \in DOMAIN box PROVE DatagramTrue(routes', f, box[i])
    BY <1>4, <1>13, <1>15, <2>1, DatagramCarries DEF BoxTrue
  <2>3. ASSUME NEW i \in DOMAIN box PROVE NoLonger(routes', f, box[i])
    <3> DEFINE y == box[i]
    <3> SUFFICES ASSUME y.type = "ANNOUNCE", NEW d \in DOMAIN y.hops, f[2] \in DOMAIN routes'[f[1]][d]
                 PROVE  y.hops[d] + 1 <= routes'[f[1]][d][f[2]].hops
      BY DEF NoLonger
    <3>2. y \in Datagrams /\ NoLonger(routes, f, y) /\ (f = e => NoRise(a, y))
      BY <1>15, <2>1 DEF BoxTrue
    <3> HIDE DEF y
    <3>3. d \in Destinations /\ f[1] \in Nodes /\ f = <<f[1], f[2]>> /\ y.hops[d] \in 0 .. MaxHop
      BY <3>2, DatagramFacts, EndpointFacts
    <3>4. CASE f[1] = n /\ d \in D /\ f[2] = m
      <4>1. f = e
        BY <1>2, <3>3, <3>4
      <4>2. y.hops[d] <= hops[d]
        BY <1>3, <1>8, <3>2, <3>4, <4>1 DEF NoRise, D
      <4>3. routes'[n][d][m].hops = hops[d] + 1 /\ hops[d] \in 0 .. MaxHop
        BY <1>1, <1>11, <3>4
      <4> QED BY <3>3, <3>4, <4>2, <4>3
    <3>5. CASE ~(f[1] = n /\ d \in D /\ f[2] = m)
      <4>1. f[2] \in DOMAIN routes[f[1]][d] /\ routes'[f[1]][d][f[2]] = routes[f[1]][d][f[2]]
        BY <1>12, <3>3, <3>5
      <4> QED BY <3>2, <4>1 DEF NoLonger
    <3> QED BY <3>4, <3>5
  <2> QED BY <1>15, <2>2, <2>3 DEF BoxTrue
<1>16. ASSUME NEW f \in Endpoints PROVE BoxTrue(routes', f, inbox'[f])
  <2>1. CASE f = e
    <3> DEFINE box == Tail(inbox[e])
    <3>1. box \in Seq(Datagrams) /\ inbox'[f] = box /\ BoxTrue(routes, f, box)
      BY <1>3, <1>4, <1>6, <2>1, TakeFacts, TailFacts, BoxTail
    <3>2. \A i \in DOMAIN box : box[i] = inbox[e][i + 1] /\ i + 1 \in DOMAIN inbox[e] /\ 1 < i + 1
      BY <1>3, <1>6, TailFacts
    <3> HIDE DEF box
    <3>3. \A i \in DOMAIN box : NoRise(a, box[i])
      BY <1>6, <1>7, <3>2 DEF BoxTrue
    <3> QED BY <1>15, <2>1, <3>1, <3>3
  <2>2. CASE f # e
    <3>1. inbox'[f] = inbox[f] /\ inbox[f] \in Seq(Datagrams)
      BY <1>3, <1>4, <2>2 DEF Boxes
    <3> QED BY <1>6, <1>15, <2>2, <3>1
  <2> QED BY <2>1, <2>2
<1> QED BY <1>3, <1>14, <1>16 DEF Consistent

-----------------------------------------------------------------------------
(* The theorems.                                                           *)

LEMMA InitSteady == Init => SteadyInv
<1> SUFFICES ASSUME Init PROVE Consistent
  BY DEF SteadyInv
<1>1. closed = {} /\ ~dropped
  BY DEF Init, TransportInit
<1>2. \A n \in Nodes, d \in Destinations : DOMAIN routes[n][d] = {}
  BY EmptyTable DEF Init
<1>3. \A e \in Endpoints : DOMAIN inbox[e] = {}
  BY EmptyTable DEF Init, TransportInit
<1> QED BY <1>1, <1>2, <1>3 DEF Consistent, BoxTrue

LEMMA NextSteady ==
    ASSUME ShorterScoresHigher, HopCountFits, Types, Types', SteadyInv, [Next]_vars
    PROVE  SteadyInv'
<1> SUFFICES ASSUME losses' = 0 PROVE Consistent'
  BY DEF SteadyInv, Steady
<1>1. ASSUME losses' = losses PROVE Consistent
  BY <1>1 DEF SteadyInv, Steady
<1>2. losses' # losses + 1
  BY DEF Types
<1>3. ASSUME UNCHANGED <<inbox, closed, routes, losses, dropped>> PROVE Consistent'
  BY <1>1, <1>3 DEF Consistent
<1>4. ASSUME NEW e \in Endpoints, RecvTimeout(e), UNCHANGED <<routes, losses, dropped>>
      PROVE  Consistent'
  BY <1>3, <1>4 DEF RecvTimeout
<1>5. ASSUME NEW e \in Endpoints, ReceiveAnnounce(e) PROVE Consistent'
  <2>1. Consistent
    BY <1>1, <1>5 DEF ReceiveAnnounce
  <2> QED BY <1>5, <2>1, HeardSteady
<1>6. ASSUME NEW e \in Endpoints, ReceiveData(e) PROVE Consistent'
  <2>1. Consistent
    BY <1>1, <1>6 DEF ReceiveData
  <2> QED BY <1>6, <2>1, ReceiveDataSteady
<1>7. ASSUME NEW e \in Endpoints, Announce(e[1], e[2]) PROVE Consistent'
  <2>1. Consistent
    BY <1>1, <1>7 DEF Announce
  <2> QED BY <1>7, <2>1, AnnounceSteady
<1>8. ASSUME NEW e \in Endpoints, NEW t \in Trusts, NEW l \in Latencies,
             AddDirectRoute(e[1], e[2], t, l)
      PROVE  Consistent'
  <2>1. Consistent
    BY <1>1, <1>8 DEF AddDirectRoute
  <2> QED BY <1>8, <2>1, DirectSteady
<1>9. ASSUME NEW n \in Nodes, NEW d \in Destinations, Originate(n, d) PROVE Consistent'
  <2>1. Consistent
    BY <1>1, <1>9 DEF Originate
  <2> QED BY <1>9, <2>1, OriginateSteady
<1>10. ASSUME NEW n \in Nodes, NEW d \in Destinations, Remove(n, d) PROVE Consistent'
  BY <1>2, <1>10 DEF Remove
<1>11. ASSUME NEW n \in Nodes, NEW d \in Destinations, NEW v \in Nodes, Expire(n, d, v)
       PROVE  Consistent'
  BY <1>2, <1>11 DEF Expire
<1>12. ASSUME NEW e \in Endpoints, CloseLink(e) PROVE Consistent'
  BY <1>2, <1>12 DEF CloseLink
<1>13. CASE UNCHANGED vars
  BY <1>3, <1>13 DEF vars
<1> QED BY <1>4, <1>5, <1>6, <1>7, <1>8, <1>9, <1>10, <1>11, <1>12, <1>13 DEF Next, Read

LEMMA SteadyInvHolds == ShorterScoresHigher /\ HopCountFits /\ Spec => []SteadyInv
<1>1. ASSUME ShorterScoresHigher, HopCountFits PROVE Spec => []SteadyInv
  <2>1. Types /\ Types' /\ SteadyInv /\ [Next]_vars => SteadyInv'
    BY <1>1, NextSteady
  <2> QED BY <2>1, InitSteady, TypesHold, PTL DEF Spec
<1> QED BY <1>1

(* Whatever announcements are under way: while no route has been lost,     *)
(* no set of routers hands the packets for a destination round.            *)
THEOREM MeshLoopFree == ShorterScoresHigher /\ HopCountFits /\ Spec => []LoopFree
<1>1. ASSUME ShorterScoresHigher, HopCountFits PROVE Types /\ SteadyInv => LoopFree
  <2> SUFFICES ASSUME Types, Consistent, NEW d \in Destinations, NEW S \in SUBSET (Nodes \ {d}),
                      S # {}, \A n \in S : Best(n, d) \cap S # {}
               PROVE  FALSE
    BY DEF SteadyInv, LoopFree
  <2> DEFINE T == {routes[p[1]][d][p[2]].hops :
                       p \in {q \in S \X S : q[2] \in Best(q[1], d)}}
  <2>1. routes \in RouteTables
    BY DEF Types, RouteTables
  <2>2. ASSUME NEW n \in S, NEW v \in S, v \in Best(n, d)
        PROVE  routes[n][d][v].hops \in Nat /\ routes[n][d][v].hops \in T
    <3>1. routes[n][d][v].hops \in Nat
      BY <2>2, BestFacts
    <3>2. <<n, v>> \in {q \in S \X S : q[2] \in Best(q[1], d)} /\ <<n, v>>[1] = n /\ <<n, v>>[2] = v
      BY <2>2
    <3> QED BY <3>1, <3>2
  <2>3. ASSUME NEW b \in T
        PROVE  \E n \in S, v \in S : v \in Best(n, d) /\ b = routes[n][d][v].hops
    OBVIOUS
  <2> HIDE DEF T
  <2>4. T # {} /\ T \subseteq Nat
    <3>1. PICK n \in S : TRUE
      OBVIOUS
    <3>2. PICK v \in S : v \in Best(n, d)
      OBVIOUS
    <3>3. T # {}
      BY <2>2, <3>2
    <3>4. ASSUME NEW b \in T PROVE b \in Nat
      <4>1. PICK x \in S, y \in S : y \in Best(x, d) /\ b = routes[x][d][y].hops
        BY <2>3
      <4> QED BY <2>2, <4>1
    <3> QED BY <3>3, <3>4
  <2>5. PICK b \in T : \A c \in T : b <= c
    BY <2>4, Least
  <2>6. PICK n \in S, v \in S : v \in Best(n, d) /\ b = routes[n][d][v].hops
    BY <2>3
  <2>7. v \in DOMAIN routes[n][d] /\ EntryTrue(routes, n, d, v)
    BY <2>6 DEF Best, Consistent
  <2>8. PICK h \in 2 .. MaxHop : routes[n][d][v].hops = h + 1 /\ Backed(routes, v, d, h)
    BY <2>1, <2>7, EntryHops
  <2>9. PICK w \in S : w \in Best(v, d)
    OBVIOUS
  <2>10. routes[v][d][w].hops <= h - 1
    <3>1. Within(routes, v, d, h - 1) /\ h - 1 \in Int
      BY <2>8 DEF Backed
    <3> QED BY <1>1, <2>9, <3>1, BestOfNext
  <2>11. b <= routes[v][d][w].hops /\ routes[v][d][w].hops \in Nat
    BY <2>2, <2>5, <2>9
  <2> QED BY <2>6, <2>8, <2>10, <2>11
<1>2. ASSUME ShorterScoresHigher, HopCountFits PROVE Spec => []LoopFree
  <2>1. Types /\ SteadyInv => LoopFree
    BY <1>1, <1>2
  <2> QED BY <1>2, <2>1, TypesHold, SteadyInvHolds, PTL
<1> QED BY <1>2

(* No packet makes more hops than the route its sender used showed, though *)
(* every router on the way decides anew.                                   *)
THEOREM MeshWithinHopCount == ShorterScoresHigher /\ HopCountFits /\ Spec => []WithinHopCount
<1>1. Types /\ SteadyInv => WithinHopCount
  <2> SUFFICES ASSUME Types, Consistent, NEW e \in Endpoints, NEW i \in DOMAIN inbox[e],
                      inbox[e][i].type = "DATA"
               PROVE  inbox[e][i].made <= inbox[e][i].promised
    BY DEF SteadyInv, WithinHopCount
  <2> DEFINE m == inbox[e][i]
             n == e[1]
  <2>1. m \in Datagrams /\ routes \in RouteTables /\ n \in Nodes
    BY EndpointFacts DEF Types, RouteTables
  <2>2. OnTime(routes, n, m)
    BY DEF Consistent, BoxTrue, DatagramTrue
  <2> HIDE DEF m, n
  <2>3. m.dest \in Destinations /\ m.promised \in Nat /\ m.made \in Nat
    BY <2>1, DatagramFacts DEF m
  <2>4. ASSUME m.dest # n PROVE m.made <= m.promised
    <3>1. PICK v \in DOMAIN routes[n][m.dest] : routes[n][m.dest][v].hops <= m.promised - m.made
      BY <2>2, <2>4 DEF OnTime, Within
    <3>2. routes[n][m.dest][v].hops \in Nat /\ routes[n][m.dest][v].hops >= 1
      BY <2>1, <2>3, RouteFacts
    <3> QED BY <2>3, <3>1, <3>2
  <2>5. m.made <= m.promised
    BY <2>2, <2>4 DEF OnTime
  <2> QED BY <2>5 DEF m
<1> QED BY <1>1, TypesHold, SteadyInvHolds, PTL

(* No router drops a packet that another has sent it on its way.           *)
THEOREM MeshNothingDropped == ShorterScoresHigher /\ HopCountFits /\ Spec => []NothingDropped
<1>1. SteadyInv => NothingDropped
  BY DEF SteadyInv, Consistent, NothingDropped
<1> QED BY <1>1, SteadyInvHolds, PTL

-----------------------------------------------------------------------------
(* Settings whose scores rank shorter routes first.                        *)

(* The part of a learned trust that its hop count determines.              *)
Decay(h) == NineTo[h] * TenTo[MaxHop - h]

LEMMA DecayFacts ==
    /\ \A h \in 0 .. MaxHop : Decay(h) \in Nat /\ Decay(h) > 0
    /\ \A h \in 0 .. MaxHop - 1 : 10 * Decay(h + 1) = 9 * Decay(h)
    /\ Decay(0) = TenTo[MaxHop]
<1>0. MaxHop \in Nat
  BY MeshAssumption
<1>1. ASSUME NEW h \in 0 .. MaxHop PROVE Decay(h) \in Nat /\ Decay(h) > 0
  <2>1. h \in Nat /\ MaxHop - h \in Nat
    BY <1>0
  <2>2. /\ NineTo[h] \in Nat /\ NineTo[h] > 0
        /\ TenTo[MaxHop - h] \in Nat /\ TenTo[MaxHop - h] > 0
    BY <2>1, NineToFacts, TenToFacts
  <2> QED BY <2>2, ProductFacts DEF Decay
<1>2. ASSUME NEW h \in 0 .. MaxHop - 1 PROVE 10 * Decay(h + 1) = 9 * Decay(h)
  <2> DEFINE x == NineTo[h]
             y == TenTo[MaxHop - (h + 1)]
  <2>1. h \in Nat /\ MaxHop - (h + 1) \in Nat /\ (MaxHop - (h + 1)) + 1 = MaxHop - h
    BY <1>0
  <2>2. NineTo[h + 1] = 9 * x /\ x \in Nat
    BY <2>1, NineToFacts
  <2>3. TenTo[MaxHop - h] = 10 * y /\ y \in Nat
    BY <2>1, TenToFacts
  <2>4. Decay(h + 1) = (9 * x) * y /\ Decay(h) = x * (10 * y)
    BY <2>2, <2>3 DEF Decay
  <2> HIDE DEF x, y
  <2>5. 10 * ((9 * x) * y) = 9 * (x * (10 * y))
    BY <2>2, <2>3
  <2> QED BY <2>4, <2>5
<1>3. Decay(0) = TenTo[MaxHop]
  <2>1. MaxHop - 0 = MaxHop /\ TenTo[MaxHop] \in Nat /\ NineTo[0] = 1
    BY <1>0, TenToFacts, NineToFacts
  <2> QED BY <2>1 DEF Decay
<1> QED BY <1>1, <1>2, <1>3

LEMMA DecayFalls ==
    ASSUME NEW h \in 0 .. MaxHop, NEW k \in 0 .. MaxHop, h < k
    PROVE  10 * Decay(k) <= 9 * Decay(h)
<1> DEFINE S == {j \in Nat : (h + 1) + j <= MaxHop => 10 * Decay((h + 1) + j) <= 9 * Decay(h)}
<1>0. MaxHop \in Nat /\ h \in Nat /\ k \in Nat
  BY MeshAssumption
<1>1. 0 \in S
  <2> SUFFICES ASSUME (h + 1) + 0 <= MaxHop PROVE 10 * Decay((h + 1) + 0) <= 9 * Decay(h)
    OBVIOUS
  <2>1. (h + 1) + 0 = h + 1 /\ h \in 0 .. MaxHop - 1
    BY <1>0
  <2>2. 10 * Decay(h + 1) = 9 * Decay(h) /\ Decay(h) \in Nat
    BY <2>1, DecayFacts
  <2> QED BY <2>1, <2>2
<1>2. ASSUME NEW j \in Nat, j \in S PROVE j + 1 \in S
  <2> DEFINE g == (h + 1) + j
  <2> SUFFICES ASSUME (h + 1) + (j + 1) <= MaxHop
               PROVE  10 * Decay((h + 1) + (j + 1)) <= 9 * Decay(h)
    OBVIOUS
  <2>1. (h + 1) + (j + 1) = g + 1 /\ g \in 0 .. MaxHop - 1 /\ g \in 0 .. MaxHop /\ g + 1 \in 0 .. MaxHop
    BY <1>0
  <2>2. 10 * Decay(g) <= 9 * Decay(h)
    BY <1>2, <2>1
  <2> HIDE DEF g
  <2>3. 10 * Decay(g + 1) = 9 * Decay(g) /\ Decay(g) \in Nat /\ Decay(g + 1) \in Nat /\ Decay(h) \in Nat
    BY <2>1, DecayFacts
  <2> QED BY <2>1, <2>2, <2>3
<1>3. k - (h + 1) \in Nat /\ (h + 1) + (k - (h + 1)) = k /\ k <= MaxHop
  BY <1>0
<1>4. k - (h + 1) \in S
  <2> HIDE DEF S
  <2> QED BY <1>1, <1>2, <1>3, Induction
<1> QED BY <1>3, <1>4

LEMMA Scaled ==
    ASSUME NEW x \in Nat, NEW y \in Nat, NEW s \in Nat, NEW u \in Nat, x > 0,
           10 * y <= 9 * x, 9 * u < 10 * s
    PROVE  u * y < s * x /\ u * y \in Nat /\ s * x \in Nat
<1>1. u * y \in Nat /\ s * x \in Nat /\ u * x \in Nat
  BY ProductFacts
<1>2. (10 * y) * u <= (9 * x) * u
  BY ProductFacts
<1>3. (9 * u) * x < (10 * s) * x
  BY ProductFacts
<1>4. /\ (10 * y) * u = 10 * (u * y) /\ (9 * x) * u = 9 * (u * x)
      /\ (9 * u) * x = 9 * (u * x) /\ (10 * s) * x = 10 * (s * x)
  OBVIOUS
<1> QED BY <1>1, <1>2, <1>3, <1>4

(* Scores rank shorter routes first when the trust scores are alike, so    *)
(* that the theorems above hold of every such mesh.                        *)
THEOREM AlikeRankByHops == TrustsAlike => ShorterScoresHigher
<1> SUFFICES ASSUME TrustsAlike,
                    NEW a \in DirectEntries \cup HeardEntries,
                    NEW b \in DirectEntries \cup HeardEntries, a.hops < b.hops
             PROVE  ~AsGood(b, a)
  BY DEF ShorterScoresHigher
<1>0. MaxHop \in Nat /\ 0 \in 0 .. MaxHop /\ \A h \in 2 .. MaxHop : h \in 0 .. MaxHop
  BY MeshAssumption
<1>1. ASSUME NEW c \in HeardEntries
      PROVE  \E h \in 0 .. MaxHop, t \in Trusts :
                /\ h \in {0} \cup 2 .. MaxHop /\ c.hops = h + 1 /\ c.latency = 0
                /\ c.trust = Smaller(t, MaxTrust) * Decay(h) /\ Smaller(t, MaxTrust) \in Nat
  <2>1. PICK h \in {0} \cup 2 .. MaxHop, t \in Trusts : c = Learned(h, t)
    BY DEF HeardEntries
  <2>2. h \in 0 .. MaxHop
    BY <1>0
  <2> QED BY <2>1, <2>2, LearnedFacts DEF Decay
<1>2. ASSUME NEW c \in DirectEntries
      PROVE  \E t \in Trusts, l \in 0 .. 3 :
                c.hops = 1 /\ c.latency = l /\ c.trust = t * Decay(0)
  <2>1. PICK t \in Trusts, l \in Latencies :
            c = [hops |-> 1, trust |-> t * TenTo[MaxHop], latency |-> l]
    BY DEF DirectEntries
  <2>2. l \in 0 .. 3 /\ Decay(0) = TenTo[MaxHop]
    BY DecayFacts DEF TrustsAlike
  <2> QED BY <2>1, <2>2
<1>3. a.hops \in Nat /\ a.hops >= 1
  BY <1>1, <1>2
<1>4. b \in HeardEntries
  BY <1>2, <1>3
<1>5. PICK k \in 0 .. MaxHop, u \in Trusts :
          /\ k \in {0} \cup 2 .. MaxHop /\ b.hops = k + 1 /\ b.latency = 0
          /\ b.trust = Smaller(u, MaxTrust) * Decay(k) /\ Smaller(u, MaxTrust) \in Nat
  BY <1>1, <1>4
<1>6. k \in 2 .. MaxHop
  BY <1>3, <1>5
<1>7. ASSUME NEW h \in 0 .. MaxHop, h < k, NEW t \in Trusts, NEW s \in Nat,
             Smaller(t, MaxTrust) <= s
      PROVE  b.trust < s * Decay(h) /\ b.trust \in Nat /\ s * Decay(h) \in Nat
  <2>1. 10 * Decay(k) <= 9 * Decay(h)
    BY <1>7, DecayFalls
  <2>2. Decay(h) \in Nat /\ Decay(h) > 0 /\ Decay(k) \in Nat
    BY DecayFacts
  <2>3. Smaller(t, MaxTrust) \in Nat
    BY MeshAssumption DEF Smaller
  <2>4. 9 * Smaller(u, MaxTrust) < 10 * Smaller(t, MaxTrust)
    BY DEF TrustsAlike
  <2>5. 9 * Smaller(u, MaxTrust) < 10 * s
    BY <1>5, <1>7, <2>3, <2>4
  <2> QED BY <1>5, <2>1, <2>2, <2>5, Scaled
<1>8. \E x \in Nat : /\ x <= k + 1 /\ a.hops * Larger(a.latency, 1) = x
                     /\ b.trust < a.trust /\ b.trust \in Nat /\ a.trust \in Nat
  <2>1. CASE a \in HeardEntries
    <3>1. PICK h \in 0 .. MaxHop, t \in Trusts :
              /\ a.hops = h + 1 /\ a.latency = 0
              /\ a.trust = Smaller(t, MaxTrust) * Decay(h) /\ Smaller(t, MaxTrust) \in Nat
      BY <1>1, <2>1
    <3>2. h < k
      BY <1>5, <3>1
    <3>3. b.trust < a.trust /\ b.trust \in Nat /\ a.trust \in Nat
      BY <1>7, <3>1, <3>2
    <3>4. a.hops * Larger(a.latency, 1) = h + 1 /\ h + 1 \in Nat /\ h + 1 <= k + 1
      BY <3>1, <3>2 DEF Larger
    <3> QED BY <3>3, <3>4
  <2>2. CASE a \in DirectEntries
    <3>1. PICK t \in Trusts, l \in 0 .. 3 : a.hops = 1 /\ a.latency = l /\ a.trust = t * Decay(0)
      BY <1>2, <2>2
    <3>2. t \in Nat /\ Smaller(t, MaxTrust) <= t
      BY MeshAssumption DEF Smaller
    <3>3. 0 < k
      BY <1>6
    <3>4. b.trust < a.trust /\ b.trust \in Nat /\ a.trust \in Nat
      BY <1>0, <1>7, <3>1, <3>2, <3>3
    <3>5. Larger(l, 1) \in 1 .. 3
      BY DEF Larger
    <3>6. a.hops * Larger(a.latency, 1) = Larger(l, 1) /\ Larger(l, 1) <= k + 1 /\ Larger(l, 1) \in Nat
      BY <1>6, <3>1, <3>5
    <3> QED BY <3>4, <3>6
  <2> QED BY <2>1, <2>2
<1>9. PICK x \in Nat : /\ x <= k + 1 /\ a.hops * Larger(a.latency, 1) = x
                       /\ b.trust < a.trust /\ b.trust \in Nat /\ a.trust \in Nat
  BY <1>8
<1>10. b.hops * Larger(b.latency, 1) = k + 1 /\ k + 1 \in Nat /\ k + 1 > 0
  BY <1>5 DEF Larger
<1>11. b.trust * x <= b.trust * (k + 1) /\ b.trust * (k + 1) < a.trust * (k + 1)
  <2>1. x * b.trust <= (k + 1) * b.trust
    BY <1>9, <1>10, ProductFacts
  <2>2. x * b.trust = b.trust * x /\ (k + 1) * b.trust = b.trust * (k + 1)
    BY <1>9, <1>10, ProductFacts
  <2>3. b.trust * (k + 1) < a.trust * (k + 1)
    BY <1>9, <1>10, ProductFacts
  <2> QED BY <2>1, <2>2, <2>3
<1>12. b.trust * x \in Nat /\ b.trust * (k + 1) \in Nat /\ a.trust * (k + 1) \in Nat
  BY <1>9, <1>10, ProductFacts
<1>13. ~(b.trust * x >= a.trust * (k + 1))
  BY <1>11, <1>12
<1> QED BY <1>9, <1>10, <1>13 DEF AsGood

=============================================================================

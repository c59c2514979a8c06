-------------------------------- MODULE Mesh --------------------------------
(***************************************************************************)
(* The mesh router of ztlnp/router.py at every node of a network whose     *)
(* links are in-process transports.  Routes are learned from announcements *)
(* and packets forwarded hop by hop along the route each router holds for  *)
(* the best; nobody sees a path as a whole.                                *)
(*                                                                         *)
(* A route is kept by the link it uses: RouteTable.add() replaces the      *)
(* entry with the same transport and address.  Trust is an integer: a      *)
(* score of 1.0 is 20 * 10^MaxHop, so that every decay by 0.9 is exact.  A *)
(* stale entry is one that is gone: best() never returns it, and nothing   *)
(* else in the router looks at it.                                         *)
(***************************************************************************)
EXTENDS Transport, FiniteSets

CONSTANTS Destinations,   \* the destinations looked at: the router keeps its
                          \* routes by destination, and none affects another
          MaxHop,         \* 0xFFFF, the largest hop count of an announcement
          MaxTrust,       \* max_advertised_trust, in twentieths
          Trusts,         \* trust scores the application gives, in twentieths
          Latencies,      \* latencies the application gives, in ms
          MaxInbox,       \* bound on the datagrams in an inbox
          MaxLosses       \* bound on routes lost and transports closed

ASSUME MeshAssumption ==
    /\ Destinations \subseteq Nodes
    /\ MaxHop \in Nat \ {0} /\ MaxTrust \in 0 .. 20
    /\ Trusts \subseteq 0 .. 20 /\ Latencies \subseteq Nat
    /\ MaxInbox \in Nat /\ MaxLosses \in Nat

VARIABLES routes,         \* _routes: by node, destination and link
          losses,         \* routes lost and transports closed so far
          dropped         \* history: a forward() of a packet has raised

vars == <<inbox, closed, reader, routes, losses, dropped>>

(* The powers of ten and of nine.                                          *)
TenTo[n \in Nat] == IF n = 0 THEN 1 ELSE 10 * TenTo[n - 1]
NineTo[n \in Nat] == IF n = 0 THEN 1 ELSE 9 * NineTo[n - 1]

Larger(m, n) == IF m > n THEN m ELSE n
Smaller(m, n) == IF m < n THEN m ELSE n

Neighbours(n) == {m \in Nodes : <<n, m>> \in Endpoints}

-----------------------------------------------------------------------------
(* RouteEntry and RouteTable.                                              *)

(* Slip: the score leaves the hop count out.                               *)
AsGoodNoHops(a, b) == a.trust * Larger(b.latency, 1) >= b.trust * Larger(a.latency, 1)

(* a.score >= b.score.                                                     *)
AsGood(a, b) ==
    a.trust * (b.hops * Larger(b.latency, 1)) >= b.trust * (a.hops * Larger(a.latency, 1))

(* Slip: min for max.                                                      *)
BestLowest(n, d) ==
    LET table == routes[n][d]
    IN  {v \in DOMAIN table : \A w \in DOMAIN table : AsGood(table[w], table[v])}

(* The links of the routes best() may return; among equals the code takes  *)
(* the oldest.                                                             *)
Best(n, d) ==
    LET table == routes[n][d]
    IN  {v \in DOMAIN table : \A w \in DOMAIN table : AsGood(table[v], table[w])}

(* add(): in place of the route over the same link, or at the end.         *)
AddRoute(table, via, entry) ==
    [v \in DOMAIN table \cup {via} |-> IF v = via THEN entry ELSE table[v]]

-----------------------------------------------------------------------------
(* Router.                                                                 *)

(* add_direct_route() for the other end of a link.                         *)
AddDirectRoute(n, m, trust, latency) ==
    /\ m \in Destinations
    /\ routes' = [routes EXCEPT ![n][m] = AddRoute(@, m,
           [hops |-> 1, trust |-> trust * TenTo[MaxHop], latency |-> latency])]
    /\ UNCHANGED <<transport, losses, dropped>>

(* Slip: the hop count not cut to the two bytes it has.                    *)
AdvertisedUncut(n, best) ==
    [d \in ({n} \cap Destinations) \cup DOMAIN best |->
        IF d = n THEN 0 ELSE routes[n][d][best[d]].hops + 1]

(* Slip: the other ends of the links are announced, routed or not.         *)
AdvertisedLinks(n, best) ==
    [d \in ({n} \cup Neighbours(n)) \cap Destinations |-> IF d = n THEN 0 ELSE 2]

(* build_announce_payload(): this node at 0 hops, and every destination    *)
(* that has a route at one hop more than the best.                         *)
Advertised(n, best) ==
    [d \in ({n} \cap Destinations) \cup DOMAIN best |->
        IF d = n THEN 0 ELSE Smaller(routes[n][d][best[d]].hops + 1, MaxHop)]

Reached(n) == {d \in Destinations : DOMAIN routes[n][d] # {}}

(* The announcement is sent to a neighbour it can tell something.          *)
Announce(n, m) ==
    /\ CanSend(<<n, m>>) /\ Len(inbox[<<m, n>>]) < MaxInbox
    /\ \E best \in [Reached(n) -> Nodes] :
          LET hops == Advertised(n, best) IN
          /\ \A d \in Reached(n) : best[d] \in Best(n, d)
          /\ DOMAIN hops \ {m} # {}
          /\ inbox' = Put(inbox, <<n, m>>, [type |-> "ANNOUNCE", hops |-> hops])
    /\ UNCHANGED <<closed, reader, routes, losses, dropped>>

(* Slip: hop_count left at its default.                                    *)
LearnedDefault(hops, trust) ==
    [hops |-> 1, latency |-> 0,
     trust |-> Smaller(trust, MaxTrust) * (NineTo[hops] * TenTo[MaxHop - hops])]

(* The entry process_announce_payload() makes of an advertised hop count.  *)
Learned(hops, trust) ==
    [hops |-> hops + 1, latency |-> 0,
     trust |-> Smaller(trust, MaxTrust) * (NineTo[hops] * TenTo[MaxHop - hops])]

(* process_announce_payload(): no route to this node itself.               *)
ProcessAnnounce(n, m, hops, trust) ==
    routes' = [routes EXCEPT ![n] = [d \in Destinations |->
        IF d \in DOMAIN hops \ {n} THEN AddRoute(@[d], m, Learned(hops[d], trust)) ELSE @[d]]]

(* forward() raises TransportClosed or RoutingError: the packet is lost.   *)
CannotForward(n, d) ==
    Best(n, d) = {} \/ \E v \in Best(n, d) : ~CanSend(<<n, v>>)

(* A node gives forward() a packet of its own.  The packet carries, for    *)
(* the properties, the hop count its sender saw and the hops it made.      *)
Originate(n, d) ==
    /\ \A e \in Endpoints : \A i \in DOMAIN inbox[e] : inbox[e][i].type # "DATA"
    /\ n # d
    /\ \E v \in Best(n, d) :
          /\ CanSend(<<n, v>>) /\ Len(inbox[<<v, n>>]) < MaxInbox
          /\ inbox' = Put(inbox, <<n, v>>,
                 [type |-> "DATA", dest |-> d, promised |-> routes[n][d][v].hops, made |-> 1])
    /\ UNCHANGED <<closed, reader, routes, losses, dropped>>

(* The thread of an endpoint gets an announcement.                         *)
ReceiveAnnounce(e) ==
    /\ Get(e)
    /\ Head(inbox[e]).type = "ANNOUNCE"
    /\ \E trust \in Trusts : ProcessAnnounce(e[1], e[2], Head(inbox[e]).hops, trust)
    /\ inbox' = [inbox EXCEPT ![e] = Tail(@)]
    /\ UNCHANGED <<losses, dropped>>

(* It gets a packet: its own, or one it forwards.                          *)
ReceiveData(e) ==
    LET n == e[1]
        m == Head(inbox[e])
        rest == [inbox EXCEPT ![e] = Tail(@)]
    IN  /\ Get(e)
        /\ m.type = "DATA"
        /\ \/ /\ m.dest = n
              /\ inbox' = rest
              /\ UNCHANGED dropped
           \/ /\ m.dest # n
              /\ CannotForward(n, m.dest)
              /\ inbox' = rest
              /\ dropped' = TRUE
           \/ /\ m.dest # n
              /\ \E v \in Best(n, m.dest) :
                    /\ CanSend(<<n, v>>)
                    /\ inbox' = Put(rest, <<n, v>>,
                           [m EXCEPT !.made = Smaller(@ + 1, m.promised + 1)])
              /\ UNCHANGED dropped
        /\ UNCHANGED <<routes, losses>>

-----------------------------------------------------------------------------
(* What makes a mesh change.                                               *)

(* Time passes last_seen + stale_after of an entry.                        *)
Expire(n, d, v) ==
    /\ v \in DOMAIN routes[n][d]
    /\ routes' = [routes EXCEPT ![n][d] = [w \in DOMAIN @ \ {v} |-> @[w]]]
    /\ losses < MaxLosses /\ losses' = losses + 1
    /\ UNCHANGED <<transport, dropped>>

(* remove().                                                               *)
Remove(n, d) ==
    /\ DOMAIN routes[n][d] # {}
    /\ routes' = [routes EXCEPT ![n][d] = <<>>]
    /\ losses < MaxLosses /\ losses' = losses + 1
    /\ UNCHANGED <<transport, dropped>>

CloseLink(e) ==
    /\ Close(e)
    /\ losses < MaxLosses /\ losses' = losses + 1
    /\ UNCHANGED <<routes, dropped>>

-----------------------------------------------------------------------------
Init ==
    /\ TransportInit
    /\ routes = [n \in Nodes |-> [d \in Destinations |-> <<>>]]
    /\ losses = 0
    /\ dropped = FALSE

(* One step of the thread that reads an endpoint.                          *)
Read(e) ==
    \/ RecvTimeout(e) /\ UNCHANGED <<routes, losses, dropped>>
    \/ ReceiveAnnounce(e) \/ ReceiveData(e)

Next ==
    \/ \E e \in Endpoints :
          \/ Read(e) \/ CloseLink(e) \/ Announce(e[1], e[2])
          \/ \E trust \in Trusts, latency \in Latencies :
                AddDirectRoute(e[1], e[2], trust, latency)
    \/ \E n \in Nodes, d \in Destinations :
          Originate(n, d) \/ Remove(n, d) \/ \E v \in Nodes : Expire(n, d, v)

Spec == Init /\ [][Next]_vars

(* The threads that read run; nobody has to announce or to register.       *)
FairSpec == Spec /\ \A e \in Endpoints : WF_vars(Read(e))

-----------------------------------------------------------------------------
Entries == [hops : 1 .. MaxHop + 1, trust : Nat, latency : Nat]

TypeOK ==
    /\ \A e \in Endpoints : \A i \in DOMAIN inbox[e] :
          \/ inbox[e][i].type = "ANNOUNCE" /\ \A d \in DOMAIN inbox[e][i].hops :
                inbox[e][i].hops[d] \in 0 .. MaxHop
          \/ inbox[e][i].type = "DATA" /\ inbox[e][i].dest \in Destinations
    /\ closed \subseteq Endpoints
    /\ reader \in [Endpoints -> {"waiting", "stopped"}]
    /\ \A n \in Nodes, d \in Destinations :
                           /\ DOMAIN routes[n][d] \subseteq Neighbours(n)
                           /\ \A v \in DOMAIN routes[n][d] : routes[n][d][v] \in Entries
    /\ losses \in 0 .. MaxLosses
    /\ dropped \in BOOLEAN

(* What the theorems suppose of the settings.  The entries best() compares *)
(* are registered routes and routes learned from announcements of 0 or at  *)
(* least 2 hops; the scores rank any shorter one above any longer one.     *)
DirectEntries ==
    {[hops |-> 1, trust |-> t * TenTo[MaxHop], latency |-> l] : t \in Trusts, l \in Latencies}

HeardEntries == {Learned(h, t) : h \in {0} \cup 2 .. MaxHop, t \in Trusts}

ShorterScoresHigher ==
    \A a, b \in DirectEntries \cup HeardEntries : a.hops < b.hops => ~AsGood(b, a)

(* So they do when the trust scores, as far as announcements may use them, *)
(* are less than a tenth apart, and no registered latency exceeds 3 ms.    *)
TrustsAlike ==
    /\ \A t, u \in Trusts : 9 * Smaller(u, MaxTrust) < 10 * Smaller(t, MaxTrust)
    /\ Latencies \subseteq 0 .. 3

(* A hop count along any path without repetition fits into two bytes: an   *)
(* announcement adds two per link.                                         *)
HopCountFits == IsFiniteSet(Nodes) /\ 2 * Cardinality(Nodes) <= MaxHop + 2

(* Nothing has expired, been removed or been closed so far.                *)
Steady == losses = 0

(* Forwarding is free of loops as long as no route was lost: no set of     *)
(* routers hands the packets for a destination round among its members.    *)
LoopFree ==
    Steady => \A d \in Destinations : \A S \in SUBSET (Nodes \ {d}) :
        S # {} => \E n \in S : Best(n, d) \cap S = {}

(* A packet arrives within the hop count its sender's route showed.        *)
WithinHopCount ==
    Steady => \A e \in Endpoints : \A i \in DOMAIN inbox[e] :
        LET m == inbox[e][i] IN m.type = "DATA" => m.made <= m.promised

(* A router that others use as next hop has a route itself.                *)
NothingDropped == Steady => ~dropped

(* A packet handed to forward() reaches its destination, however late the  *)
(* announcements that change the routes under way arrive.                  *)
PacketsArrive ==
    LET InTransit == \E e \in Endpoints : \E i \in DOMAIN inbox[e] : inbox[e][i].type = "DATA"
    IN  (Steady /\ InTransit) ~> (Steady => ~InTransit)
=============================================================================

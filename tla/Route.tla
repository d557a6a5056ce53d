------------------------------- MODULE Route --------------------------------
(***************************************************************************)
(* --lower-level auto: from the kernel's routing table and ARP table to    *)
(* the interface, the next hop and its hardware address (network.cpp).     *)
(*                                                                         *)
(* Addresses are 0 to last_address.  A mask is given by the number of      *)
(* addresses it leaves free, a member of Blocks; a route is                *)
(*   [dest, size (of its mask), via, if]                                   *)
(* where via is the gateway, or direct if the flag RTF_GATEWAY is not set. *)
(***************************************************************************)
EXTENDS Integers, Sequences, FiniteSets

CONSTANTS last_address, \* 2^32 - 1 in the code
          Blocks,       \* the powers of two from 1 to 2^32 in the code
          loopback,     \* 127.0.0.1
          max_hops,     \* 1000 in the code
          NoArp         \* interfaces with IFF_NOARP

Address == 0 .. last_address
direct == -1
fail == [dest |-> -1, if |-> "none", hw |-> "none"]
zero_hw == "00:00:00:00:00:00"

\* ip & mask, as a number
Net(ip, size) == ip \div size

Matches(routes, ip, size) ==
    {j \in DOMAIN routes : routes[j].size = size /\ Net(routes[j].dest, size) = Net(ip, size)}

\* Mutant: the shortest prefix wins.
find_route_entry_Shortest(routes, ip) ==
    LET Hit == {size \in Blocks : Matches(routes, ip, size) # {}}
    IN  IF Hit = {} THEN {} ELSE Matches(routes, ip, CHOOSE s \in Hit : \A g \in Hit : g <= s)

\* The masks are tried from the longest to none; the first with a match ends
\* the search.
find_route_entry(routes, ip) ==
    LET Hit == {size \in Blocks : Matches(routes, ip, size) # {}}
    IN  IF Hit = {} THEN {} ELSE Matches(routes, ip, CHOOSE s \in Hit : \A g \in Hit : s <= g)

\* What is found from every address: the gateway, if there is one, is looked
\* up in turn with the lookups that are left; <<>> stands for -1.
lookup(routes, left) ==
    [x \in Address |->
        LET res == find_route_entry(routes, x)
            r   == routes[CHOOSE j \in res : TRUE]
        IN  IF Cardinality(res) # 1 THEN << >>
            ELSE IF r.via = direct THEN <<x, r.if>>
            ELSE left[r.via]]

search(routes) ==
    LET found[n \in 0 .. max_hops] ==
            IF n = 0 THEN [x \in Address |-> << >>] ELSE lookup(routes, found[n - 1])
    IN  found

find_direct_dest(routes, ip) == search(routes)[max_hops][ip]

\* The address of the only entry for this address and interface.
find_arp(arps, ip, if_name) ==
    LET found == {i \in DOMAIN arps : arps[i].if = if_name /\ arps[i].ip = ip}
    IN  IF Cardinality(found) = 1 THEN arps[CHOOSE i \in found : TRUE].hw ELSE "none"

find_lower_level_info(routes, arps, ip) ==
    LET d == find_direct_dest(routes, ip)
    IN  IF ip = loopback THEN [dest |-> ip, if |-> "lo", hw |-> zero_hw]
        ELSE IF d = << >> THEN fail
        ELSE IF d[2] \in NoArp THEN [dest |-> d[1], if |-> d[2], hw |-> zero_hw]
        ELSE IF find_arp(arps, d[1], d[2]) = "none" THEN fail
        ELSE [dest |-> d[1], if |-> d[2], hw |-> find_arp(arps, d[1], d[2])]

-----------------------------------------------------------------------------
(* What a routing table means: r is the route for ip if it covers ip and   *)
(* every other route that does is less specific.                           *)

Covers(r, ip) == ip - r.dest \in 0 .. r.size - 1

Best(routes, ip, j) ==
    /\ Covers(routes[j], ip)
    /\ \A k \in DOMAIN routes \ {j} : Covers(routes[k], ip) => routes[k].size > routes[j].size

\* The pairs of a destination and the gateway that is asked to forward.
Forward(routes) ==
    {p \in Address \X Address :
        \E j \in DOMAIN routes : Best(routes, p[1], j) /\ routes[j].via = p[2]}

\* The addresses on the way from ip: the least set closed under Forward.
OnTheWay(routes, ip) ==
    LET pairs == Forward(routes)
        Closed == {S \in SUBSET Address : ip \in S /\ \A p \in pairs : p[1] \in S => p[2] \in S}
    IN  {x \in Address : \A S \in Closed : x \in S}

Attached(routes, ip, if_name) ==
    \E j \in DOMAIN routes : Best(routes, ip, j) /\ routes[j].via = direct /\ routes[j].if = if_name

Interfaces(routes) == {routes[j].if : j \in DOMAIN routes}

\* Packets for ip are sent to a neighbour if and only if the chain of gateways
\* from ip ends at an attached address whose hardware address is known without
\* doubt, and then to that one: longest prefix first, at every gateway; no
\* route, two equally good ones or gateways that form a circle are errors.
NextHop(routes, arps, ip) ==
    LET got   == find_lower_level_info(routes, arps, ip)
        Ends  == {e \in OnTheWay(routes, ip) \X Interfaces(routes) : Attached(routes, e[1], e[2])}
        Known(e) == {i \in DOMAIN arps : arps[i].ip = e[1] /\ arps[i].if = e[2]}
    IN  ip # loopback =>
          IF got = fail
          THEN \A e \in Ends : e[2] \notin NoArp /\ Cardinality(Known(e)) # 1
          ELSE LET e == <<got.dest, got.if>>
               IN  /\ e \in Ends
                   /\ e[2] \notin NoArp => {arps[i].hw : i \in Known(e)} = {got.hw}
=============================================================================

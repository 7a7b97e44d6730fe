--------------------------- MODULE TransitCharge ---------------------------
(***************************************************************************)
(* To which prefix and neighbor a forwarded segment is charged.  The       *)
(* kernel routes it; transit_egress looks its destination up in            *)
(* dst_to_nexthop and counts it under (next hop, subnet); the transit      *)
(* override joins that key to a RIB prefix (PrefixForSubnet) and to a BGP  *)
(* next hop (LoopbackForGateway).  dst_to_nexthop, the RIB and the         *)
(* underlay the daemon works with are as old as its last refresh.          *)
(*                                                                         *)
(* An address is a number of Width bits, a CIDR is [net, len], and         *)
(* SubnetLen stands for the 24 bits of a key's subnet, so that the last    *)
(* Width - SubnetLen bits stand for the last byte.  A gateway is the first *)
(* hop of the underlay towards a loopback; a loopback is the next hop of   *)
(* one neighbor.                                                           *)
(***************************************************************************)
EXTENDS Integers, FiniteSets

CONSTANTS
    Width, SubnetLen,
    Size,            \* prefix length -> number of addresses under a prefix of it
    Prefixes,        \* CIDRs BGP may have a route for
    Scope,           \* scope.prefixes
    Loopbacks,
    Announced,       \* prefix -> the loopbacks it may have a path over
    Underlays,       \* what OSPF may compute: loopback -> set of gateways
    None

ASSUME SizeAssumption ==
    /\ Width \in Nat /\ SubnetLen \in 0 .. Width
    /\ Size \in [0 .. Width -> Nat \ {0}]
    /\ Size[Width] = 1
    /\ \A len \in 0 .. Width : \A longer \in len .. Width : Size[len] % Size[longer] = 0

Addresses == 0 .. Size[0] - 1
CIDRs == {p \in [net : Addresses, len : 0 .. Width] : p.net % Size[p.len] = 0}
NoUnderlay == [l \in Loopbacks |-> {}]
Gateways == UNION {u[l] : u \in Underlays, l \in Loopbacks}

ASSUME ChargeAssumption ==
    /\ Prefixes \subseteq CIDRs /\ Scope \subseteq CIDRs
    /\ IsFiniteSet(Loopbacks)
    /\ Announced \in [Prefixes -> SUBSET Loopbacks]
    /\ Underlays \subseteq [Loopbacks -> SUBSET Gateways]
    /\ None \notin Loopbacks \cup Gateways \cup CIDRs

VARIABLES
    best,             \* FRR: prefix -> the loopback of its best path, None without one
    underlay,         \* OSPF's routes
    mask,             \* subnet_mask_map, as a prefix length: SubnetLen, or 0 if it was not set
    dstToNexthop,     \* the trie: CIDR -> gateway
    cachedRIB,        \* the prefixes of the last RIB that could be fetched
    cachedUnderlay,   \* the last underlay that could be, NoUnderlay before
    populating,       \* in-scope prefixes the refresh has not resolved yet
    \* history
    fresh,            \* nothing changed or failed since the refresh began
    calm              \* nothing changes or fails from here on

routing == <<best, underlay>>
caches == <<cachedRIB, cachedUnderlay>>
vars == <<routing, mask, dstToNexthop, caches, populating, fresh, calm>>

Masked(a, len) == a - (a % Size[len])
Contains(p, a) == Masked(a, p.len) = p.net

(* The longest of the CIDRs that contains a, None if there is none.        *)
Longest(cidrs, a) ==
    LET hits == {p \in cidrs : Contains(p, a)}
    IN  IF hits = {} THEN None ELSE CHOOSE p \in hits : \A q \in hits : q.len <= p.len

----------------------------------------------------------------------------
(* FRR and the kernel.                                                     *)
Routed == {p \in Prefixes : best[p] # None}

(* The loopback a packet to a is sent towards; over which of its gateways  *)
(* is a matter of ECMP.                                                    *)
RouteOf(a) == Longest(Routed, a)
SentTowards(a) == best[RouteOf(a)]

(* ResolveNexthop: the gateway "ip route get" names.                       *)
Resolves(a, gw) == RouteOf(a) # None /\ gw \in underlay[SentTowards(a)]

----------------------------------------------------------------------------
(* InScope looks at the network address alone.                             *)
InScope(rib) ==
    IF Scope = {} THEN rib ELSE {p \in rib : \E s \in Scope : Contains(s, p.net)}

(* The network address plus one, in the last byte.                         *)
Representative(p) ==
    Masked(p.net, SubnetLen) + ((p.net + 1) % Size[SubnetLen])

(* The entry UpdateDstToNexthop writes for p: the trie compares len bits.  *)
EntryOf(p) == [net |-> Masked(Representative(p), p.len), len |-> p.len]

(* transit_egress.                                                         *)
Entries == DOMAIN dstToNexthop
KeyOf(a) ==
    IF Longest(Entries, a) = None THEN None
    ELSE [nextHop |-> dstToNexthop[Longest(Entries, a)], subnet |-> Masked(a, mask)]

(* PrefixForSubnet.                                                        *)
PrefixForSubnet(subnet) == Longest(InScope(cachedRIB), subnet)

(* LoopbackForGateway: none, the only one, or an error.                    *)
LoopbacksVia(gw) == {l \in Loopbacks : gw \in cachedUnderlay[l]}

(* Mutation: among several loopbacks any one will do.                      *)
ChargedToAny(key) ==
    IF key = None \/ PrefixForSubnet(key.subnet) = None \/ LoopbacksVia(key.nextHop) = {}
    THEN None
    ELSE [prefix |-> PrefixForSubnet(key.subnet), loopback |-> CHOOSE l \in LoopbacksVia(key.nextHop) : TRUE]

(* What the override does with the evidence of a key: the prefix and the   *)
(* loopback it is charged to, None when it is skipped.  Without a loopback *)
(* the gateway itself is compared with the next hops, and matches none.    *)
ChargedTo(key) ==
    IF key = None \/ PrefixForSubnet(key.subnet) = None \/ Cardinality(LoopbacksVia(key.nextHop)) # 1
    THEN None
    ELSE [prefix |-> PrefixForSubnet(key.subnet), loopback |-> CHOOSE l \in LoopbacksVia(key.nextHop) : TRUE]

----------------------------------------------------------------------------
Init ==
    /\ best \in {b \in [Prefixes -> Loopbacks \cup {None}] : \A p \in Prefixes : b[p] \in Announced[p] \cup {None}}
    /\ underlay \in Underlays
    /\ mask \in {SubnetLen, 0}
    /\ dstToNexthop = << >>
    /\ cachedRIB = {}
    /\ cachedUnderlay = NoUnderlay
    /\ populating = {}
    /\ fresh = FALSE /\ calm = FALSE

(* BGP selects another path for p, or loses the last one.                  *)
RouteChanges(p, l) ==
    /\ ~ calm
    /\ best' = [best EXCEPT ![p] = l]
    /\ best' # best
    /\ fresh' = FALSE
    /\ UNCHANGED <<underlay, mask, dstToNexthop, caches, populating, calm>>

UnderlayChanges(u) ==
    /\ ~ calm
    /\ u # underlay
    /\ underlay' = u
    /\ fresh' = FALSE
    /\ UNCHANGED <<best, mask, dstToNexthop, caches, populating, calm>>

(* Mutation: the trie is populated once.                                   *)
RefreshOnce(gotRIB, gotTopo) ==
    /\ populating = {}
    /\ calm => gotRIB /\ gotTopo
    /\ cachedRIB' = IF gotRIB THEN Routed ELSE cachedRIB
    /\ cachedUnderlay' = IF gotTopo THEN underlay ELSE cachedUnderlay
    /\ populating' = IF Entries = {} THEN InScope(cachedRIB') ELSE {}
    /\ fresh' = (gotRIB /\ gotTopo)
    /\ UNCHANGED <<routing, mask, dstToNexthop, calm>>

(* The refresh: each of the two fetches keeps the stale cache if it fails. *)
Refresh(gotRIB, gotTopo) ==
    /\ populating = {}
    /\ calm => gotRIB /\ gotTopo
    /\ cachedRIB' = IF gotRIB THEN Routed ELSE cachedRIB
    /\ cachedUnderlay' = IF gotTopo THEN underlay ELSE cachedUnderlay
    /\ populating' = InScope(cachedRIB')
    /\ fresh' = (gotRIB /\ gotTopo)
    /\ UNCHANGED <<routing, mask, dstToNexthop, calm>>

(* populateDstToNexthopFromRIB, for one prefix.                            *)
Populate(p, gw) ==
    /\ p \in populating
    /\ Resolves(Representative(p), gw)
    /\ dstToNexthop' = [e \in Entries \cup {EntryOf(p)} |->
                           IF e = EntryOf(p) THEN gw ELSE dstToNexthop[e]]
    /\ populating' = populating \ {p}
    /\ UNCHANGED <<routing, mask, caches, fresh, calm>>

(* There is no route, or the command or the update of the map fails.       *)
PopulateFails(p) ==
    /\ p \in populating
    /\ ~ calm \/ \A gw \in Gateways : ~ Resolves(Representative(p), gw)
    /\ populating' = populating \ {p}
    /\ fresh' = FALSE
    /\ UNCHANGED <<routing, mask, dstToNexthop, caches, calm>>

Settle ==
    /\ ~ calm
    /\ calm' = TRUE
    /\ UNCHANGED <<routing, mask, dstToNexthop, caches, populating, fresh>>

DaemonStep ==
    \/ \E gotRIB, gotTopo \in BOOLEAN : Refresh(gotRIB, gotTopo)
    \/ \E p \in Prefixes : (\E gw \in Gateways : Populate(p, gw)) \/ PopulateFails(p)

Next ==
    \/ DaemonStep
    \/ \E p \in Prefixes : \E l \in Announced[p] \cup {None} : RouteChanges(p, l)
    \/ \E u \in Underlays : UnderlayChanges(u)
    \/ Settle

Spec == Init /\ [][Next]_vars
FairSpec == Spec /\ WF_vars(DaemonStep)
----------------------------------------------------------------------------
(* Addresses whose route is in scope and has a next hop.                   *)
Measured == {a \in Addresses : RouteOf(a) # None /\ RouteOf(a) \in InScope(Routed)
                               /\ underlay[SentTowards(a)] # {}}

(* The code attributes an address a to the wrong route, or may, if its     *)
(* subnet holds a prefix longer than a subnet, which the join takes for    *)
(* all of it, ...                                                          *)
Split(a) == \E p \in Routed :
    p.len > SubnetLen /\ Masked(p.net, SubnetLen) = Masked(a, SubnetLen)

(* ... if the representative of its route r has a route of its own, ...    *)
Shadowed(r) == RouteOf(Representative(r)) # r

(* ... or if a longer entry was left by a prefix that was withdrawn, or by *)
(* a representative that lies outside of its prefix, ...                   *)
Haunted(a, r) == \E e \in Entries : e.len > r.len /\ Contains(e, a)

(* ... or if the mask was not set, and a prefix in scope takes the subnet  *)
(* 0, under which every segment is then counted.                           *)
Unmasked == mask = 0 /\ \E p \in InScope(Routed) : Contains(p, 0)

(* Two loopbacks share a first hop: the evidence is dropped.               *)
Ambiguous(l) == \E m \in Loopbacks \ {l} : underlay[l] \cap underlay[m] # {}

AsRouted(a, r) ==
    \/ ChargedTo(KeyOf(a)) = [prefix |-> r, loopback |-> best[r]]
    \/ Split(a) \/ Shadowed(r) \/ Haunted(a, r) \/ Unmasked

(* Once a refresh that nothing disturbed is through, a segment is charged  *)
(* to the very prefix the kernel routes it by and to the neighbor it is    *)
(* sent to, or to nobody; but for the four cases above.                    *)
ChargedAsRouted ==
    fresh /\ populating = {} =>
        \A a \in Measured : ChargedTo(KeyOf(a)) = None \/ AsRouted(a, RouteOf(a))

(* The evidence of a prefix is not lost for good: whatever fetches and     *)
(* resolutions failed and routes changed before, when that ends every      *)
(* address is charged right from some refresh on, if the mask of the       *)
(* subnets was set and no first hop is shared.                             *)
ChargedAtLast ==
    calm /\ mask = SubnetLen ~>
        [](calm => \A a \in Measured : Ambiguous(SentTowards(a)) \/ AsRouted(a, RouteOf(a)))
=============================================================================

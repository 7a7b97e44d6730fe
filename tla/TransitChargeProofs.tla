------------------------ MODULE TransitChargeProofs ------------------------
(***************************************************************************)
(* Segments are charged to the route that carries them, for every width of *)
(* an address, table of prefixes, scope and underlay: the invariant of an  *)
(* undisturbed refresh, and the proof.                                     *)
(***************************************************************************)
EXTENDS TransitCharge, TLAPS, FiniteSetTheorems, WellFoundedInduction

RoutingTypeOK ==
    /\ best \in [Prefixes -> Loopbacks \cup {None}]
    /\ underlay \in Underlays
    /\ mask \in {SubnetLen, 0}

DaemonTypeOK ==
    /\ Entries \subseteq CIDRs
    /\ dstToNexthop \in [Entries -> Gateways]
    /\ cachedRIB \subseteq Prefixes
    /\ cachedUnderlay \in Underlays \cup {NoUnderlay}
    /\ populating \subseteq cachedRIB

TypeOK == RoutingTypeOK /\ DaemonTypeOK /\ fresh \in BOOLEAN /\ calm \in BOOLEAN

(* The entry of p holds a gateway of the representative of a prefix in     *)
(* scope with that entry: p itself, or one that came after it.             *)
Resolved(p) ==
    /\ EntryOf(p) \in Entries
    /\ \E q \in InScope(Routed) :
          EntryOf(q) = EntryOf(p) /\ Resolves(Representative(q), dstToNexthop[EntryOf(p)])

(* While nothing disturbs a refresh, the caches are what FRR has, and what *)
(* it is through with is resolved by the routes of now.                    *)
FreshInv ==
    fresh =>
        /\ cachedRIB = Routed
        /\ cachedUnderlay = underlay
        /\ populating \subseteq InScope(Routed)
        /\ \A p \in InScope(Routed) \ populating : Resolved(p)

IInv == TypeOK /\ FreshInv

----------------------------------------------------------------------------
(* Arithmetic of masks.                                                    *)

(* A number is its whole blocks and a rest that is smaller than one.       *)
LEMMA Blocks ==
    ASSUME NEW a \in Nat, NEW s \in Nat \ {0}
    PROVE  /\ a \div s \in Nat
           /\ a = s * (a \div s) + (a % s)
           /\ a % s \in 0 .. s - 1
BY SMT

(* Rounding down yields the one multiple of s in the block a lies in.      *)
LEMMA RoundedIs ==
    ASSUME NEW a \in Nat, NEW s \in Nat \ {0}, NEW q \in Nat,
           s * q <= a, a < s * q + s
    PROVE  a - (a % s) = s * q
<1>. DEFINE d == a \div s
            m == a % s
<1>1. d \in Nat /\ a = s * d + m /\ m \in 0 .. s - 1
  BY Blocks
<1>. HIDE DEF d, m
<1>2. ~ q < d
  <2>. SUFFICES ASSUME q + 1 <= d PROVE FALSE
    BY <1>1
  <2>1. s * (q + 1) <= s * d
    BY <1>1, SMT
  <2>. QED  BY <2>1, <1>1, SMT
<1>3. ~ d < q
  <2>. SUFFICES ASSUME d + 1 <= q PROVE FALSE
    BY <1>1
  <2>1. s * (d + 1) <= s * q
    BY <1>1, SMT
  <2>. QED  BY <2>1, <1>1, SMT
<1>4. d = q
  BY <1>1, <1>2, <1>3
<1>5. a - m = s * q
  BY <1>1, <1>4, SMT
<1>. QED  BY <1>5 DEF m

(* Rounding to small blocks and then to blocks made of them is rounding to *)
(* the large ones at once.                                                 *)
LEMMA RoundedTwice ==
    ASSUME NEW a \in Nat, NEW small \in Nat \ {0}, NEW large \in Nat \ {0},
           large % small = 0
    PROVE  (a - (a % small)) - ((a - (a % small)) % large) = a - (a % large)
<1>. DEFINE k == large \div small
            q == a \div small
            t == a \div large
            m == a - (a % small)
<1>1. k \in Nat /\ large = small * k
  BY Blocks, SMT
<1>2. q \in Nat /\ m = small * q /\ m \in Nat /\ m <= a /\ a < small * q + small
  BY Blocks, SMT
<1>3. t \in Nat /\ a - (a % large) = large * t /\ large * t <= a /\ a < large * t + large
  BY Blocks, SMT
<1>. HIDE DEF k, q, t, m
<1>4. k * t <= q
  <2>1. k * t \in Nat
    BY <1>1, <1>3, SMT
  <2>2. small * (k * t) = large * t
    BY <1>1, <1>3, SMT
  <2>. DEFINE x == k * t
  <2>. HIDE DEF x
  <2>3. x \in Nat /\ small * x <= a
    BY <2>1, <2>2, <1>3 DEF x
  <2>4. ~ q + 1 <= x
    <3>. SUFFICES ASSUME q + 1 <= x PROVE FALSE
      OBVIOUS
    <3>1. small * (q + 1) <= small * x
      BY <1>2, <2>3, SMT
    <3>. QED  BY <3>1, <2>3, <1>2, SMT
  <2>5. x <= q
    BY <2>3, <2>4, <1>2
  <2>. QED  BY <2>5 DEF x
<1>5. large * t <= m
  <2>1. small * (k * t) <= small * q
    BY <1>1, <1>2, <1>3, <1>4, SMT
  <2>2. small * (k * t) = large * t
    BY <1>1, <1>3, SMT
  <2>. QED  BY <2>1, <2>2, <1>2
<1>6. m < large * t + large
  <2>1. large * t \in Nat
    BY <1>3, SMT
  <2>. QED  BY <2>1, <1>2, <1>3
<1>7. m - (m % large) = large * t
  BY <1>2, <1>3, <1>5, <1>6, RoundedIs
<1>. QED  BY <1>7, <1>3 DEF m

----------------------------------------------------------------------------
(* Addresses and CIDRs.                                                    *)

LEMMA SizeIs ==
    ASSUME NEW len \in 0 .. Width
    PROVE  Size[len] \in Nat \ {0} /\ Size[0] \in Nat \ {0}
BY SizeAssumption

(* The longer of two masks is lost under the shorter one.                  *)
LEMMA MaskedTwice ==
    ASSUME NEW a \in Addresses, NEW len \in 0 .. Width, NEW longer \in len .. Width
    PROVE  Masked(Masked(a, longer), len) = Masked(a, len)
<1>. DEFINE small == Size[longer]
            large == Size[len]
<1>1. a \in Nat /\ small \in Nat \ {0} /\ large \in Nat \ {0} /\ large % small = 0
  BY SizeAssumption DEF Addresses
<1>. HIDE DEF small, large
<1>2. (a - (a % small)) - ((a - (a % small)) % large) = a - (a % large)
  BY <1>1, RoundedTwice
<1>. QED  BY <1>2 DEF Masked, small, large

(* A mask of any length yields an address that it does not change.         *)
LEMMA MaskedIsAddress ==
    ASSUME NEW a \in Addresses, NEW len \in 0 .. Width
    PROVE  /\ Masked(a, len) \in Addresses
           /\ Masked(a, len) % Size[len] = 0
           /\ Masked(a, len) <= a
           /\ a < Masked(a, len) + Size[len]
<1>. DEFINE s == Size[len]
            m == a - (a % s)
<1>1. a \in Nat /\ s \in Nat \ {0} /\ a < Size[0] /\ Size[0] \in Nat
  BY SizeIs, SMT DEF Addresses
<1>. HIDE DEF s
<1>2. m \in Nat /\ m <= a /\ a < m + s
  <2>. DEFINE d == a \div s
              rest == a % s
  <2>1. d \in Nat /\ a = s * d + rest /\ rest \in 0 .. s - 1
    BY <1>1, Blocks
  <2>. HIDE DEF d, rest
  <2>2. s * d \in Nat
    BY <1>1, <2>1, SMT
  <2>3. a - rest \in Nat /\ a - rest <= a /\ a < (a - rest) + s
    BY <1>1, <2>1, <2>2
  <2>. QED  BY <2>3 DEF rest
<1>3. m - (m % s) = m
  <2>1. s % s = 0
    BY <1>1, SMT
  <2>. QED  BY <2>1, <1>1, RoundedTwice
<1>4. m % s \in 0 .. s - 1
  BY <1>1, <1>2, Blocks
<1>5. m % s = 0
  <2>. DEFINE rest == m % s
  <2>1. rest \in Nat /\ m - rest = m
    BY <1>1, <1>3, <1>4
  <2>. HIDE DEF rest, m
  <2>2. rest = 0
    BY <2>1, <1>2
  <2>. QED  BY <2>2 DEF rest
<1>6. m \in 0 .. Size[0] - 1
  BY <1>1, <1>2
<1>. QED  BY <1>2, <1>5, <1>6 DEF Masked, Addresses, m, s

(* The mask of no length yields the address 0.                             *)
LEMMA Unset == ASSUME NEW a \in Addresses PROVE Masked(a, 0) = 0
<1>1. a \in Nat /\ Size[0] \in Nat \ {0} /\ a < Size[0] /\ Width \in Nat
  BY SizeAssumption, SMT DEF Addresses
<1>2. a - (a % Size[0]) = Size[0] * 0
  BY <1>1, RoundedIs, SMT
<1>. QED  BY <1>1, <1>2 DEF Masked

(* A CIDR is the one of its length that contains any of its addresses.     *)
LEMMA CIDRIs ==
    ASSUME NEW p \in CIDRs
    PROVE  /\ p = [net |-> p.net, len |-> p.len]
           /\ p.net \in Addresses /\ p.len \in 0 .. Width
           /\ Contains(p, p.net)
<1>1. p = [net |-> p.net, len |-> p.len] /\ p.net \in Addresses /\ p.len \in 0 .. Width /\ p.net % Size[p.len] = 0
  BY DEF CIDRs
<1>2. p.net - 0 = p.net
  BY <1>1 DEF Addresses
<1>. QED  BY <1>1, <1>2 DEF Contains, Masked

LEMMA OneOfALength ==
    ASSUME NEW p \in CIDRs, NEW q \in CIDRs, NEW a \in Addresses,
           Contains(p, a), Contains(q, a), p.len = q.len
    PROVE  p = q
<1>1. p.net = q.net
  BY DEF Contains
<1>. QED  BY <1>1, CIDRIs

(* The representative of a prefix lies in the subnet of its network        *)
(* address, ...                                                            *)
LEMMA RepresentativeIs ==
    ASSUME NEW p \in CIDRs
    PROVE  /\ Representative(p) \in Addresses
           /\ Masked(Representative(p), SubnetLen) = Masked(p.net, SubnetLen)
<1>. DEFINE n == p.net
            s == Size[SubnetLen]
            all == Size[0]
            q == n \div s
            k == all \div s
            rest == (n + 1) % s
            rep == Masked(n, SubnetLen) + rest
<1>1. n \in Nat /\ s \in Nat \ {0} /\ all \in Nat \ {0} /\ all % s = 0 /\ n < all
  BY CIDRIs, SizeAssumption, SMT DEF Addresses
<1>. HIDE DEF n, s, all
<1>2. q \in Nat /\ n - (n % s) = s * q /\ s * q <= n
  BY <1>1, Blocks, SMT
<1>3. k \in Nat /\ all = s * k
  BY <1>1, Blocks, SMT
<1>4. rest \in 0 .. s - 1
  <2>1. n + 1 \in Nat
    BY <1>1
  <2>. QED  BY <2>1, <1>1, Blocks
<1>5. rep = s * q + rest
  BY <1>2 DEF Masked, s
<1>. HIDE DEF q, k, rest, rep
<1>6. s * q + s <= all
  <2>1. q + 1 <= k
    <3>. SUFFICES ASSUME k <= q PROVE FALSE
      BY <1>2, <1>3
    <3>1. s * k <= s * q
      BY <1>1, <1>2, <1>3, SMT
    <3>. QED  BY <3>1, <1>1, <1>2, <1>3
  <2>2. s * (q + 1) <= s * k
    BY <2>1, <1>1, <1>2, <1>3, SMT
  <2>. QED  BY <2>2, <1>1, <1>2, <1>3, SMT
<1>7. s * q \in Nat
  BY <1>1, <1>2, SMT
<1>8. rep \in Nat /\ s * q <= rep /\ rep < s * q + s /\ rep < all
  BY <1>1, <1>4, <1>5, <1>6, <1>7
<1>9. rep - (rep % s) = s * q
  BY <1>1, <1>2, <1>8, RoundedIs
<1>10. Representative(p) = rep
  BY DEF Representative, rep, rest, n, s
<1>11. rep \in 0 .. all - 1
  BY <1>1, <1>8
<1>. QED  BY <1>2, <1>9, <1>10, <1>11 DEF Masked, Addresses, s, all, n

(* ... so that a prefix of a subnet or more is its own entry.              *)
LEMMA EntryIs ==
    ASSUME NEW p \in CIDRs
    PROVE  /\ EntryOf(p) \in CIDRs
           /\ EntryOf(p).len = p.len
           /\ p.len <= SubnetLen => EntryOf(p) = p
<1>. DEFINE rep == Representative(p)
<1>1. rep \in Addresses /\ Masked(rep, SubnetLen) = Masked(p.net, SubnetLen)
  BY RepresentativeIs
<1>2. p.len \in 0 .. Width /\ p.net \in Addresses /\ SubnetLen \in 0 .. Width /\ Width \in Nat
  BY CIDRIs, SizeAssumption
<1>. HIDE DEF rep
<1>3. Masked(rep, p.len) \in Addresses /\ Masked(rep, p.len) % Size[p.len] = 0
  BY <1>1, <1>2, MaskedIsAddress
<1>4. EntryOf(p) = [net |-> Masked(rep, p.len), len |-> p.len]
  BY DEF EntryOf, rep
<1>5. EntryOf(p) \in CIDRs /\ EntryOf(p).len = p.len
  BY <1>2, <1>3, <1>4 DEF CIDRs
<1>6. ASSUME p.len <= SubnetLen PROVE EntryOf(p) = p
  <2>1. SubnetLen \in p.len .. Width
    BY <1>2, <1>6
  <2>2. Masked(rep, p.len) = Masked(Masked(p.net, SubnetLen), p.len)
    BY <1>1, <1>2, <2>1, MaskedTwice
  <2>3. Masked(Masked(p.net, SubnetLen), p.len) = Masked(p.net, p.len)
    BY <1>2, <2>1, MaskedTwice
  <2>4. Masked(rep, p.len) = p.net
    BY <2>2, <2>3, CIDRIs DEF Contains
  <2>. QED  BY <2>4, <1>4, CIDRIs
<1>. QED  BY <1>5, <1>6

(* What the longest match is, if there is one.                             *)
LEMMA LeastExists ==
    ASSUME NEW S \in SUBSET Nat, S # {}
    PROVE  \E x \in S : \A y \in S : x <= y
<1>1. PICK x \in S : \A y \in S : ~ (<<y, x>> \in OpToRel(<, Nat))
  BY NatLessThanWellFounded, WFMin
<1>2. \A y \in S : ~ (y < x)
  BY <1>1 DEF OpToRel
<1>3. QED
  BY <1>2

LEMMA LongestIs ==
    ASSUME NEW cidrs, cidrs \subseteq CIDRs, NEW a
    PROVE  \/ Longest(cidrs, a) = None /\ \A p \in cidrs : ~ Contains(p, a)
           \/ /\ Longest(cidrs, a) \in cidrs
              /\ Contains(Longest(cidrs, a), a)
              /\ \A q \in cidrs : Contains(q, a) => q.len <= Longest(cidrs, a).len
<1>. DEFINE hits == {p \in cidrs : Contains(p, a)}
            spare(p) == Width - p.len
            spares == {spare(p) : p \in hits}
<1>1. CASE hits = {}
  BY <1>1 DEF Longest
<1>2. CASE hits # {}
  <2>1. \A p \in hits : p.len \in 0 .. Width /\ spare(p) \in Nat
    BY CIDRIs, SizeAssumption
  <2>2. spares \subseteq Nat /\ spares # {}
    BY <1>2, <2>1
  <2>3. PICK n \in spares : \A m \in spares : n <= m
    BY <2>2, LeastExists
  <2>4. PICK p \in hits : spare(p) = n
    OBVIOUS
  <2>5. ASSUME NEW q \in hits PROVE q.len <= p.len
    <3>1. spare(p) <= spare(q)
      BY <2>3, <2>4
    <3>2. p.len \in Nat /\ q.len \in Nat /\ Width \in Nat
      BY <2>1, SizeAssumption
    <3>. QED  BY <3>1, <3>2
  <2>6. Longest(cidrs, a) = CHOOSE l \in hits : \A q \in hits : q.len <= l.len
    BY <1>2 DEF Longest
  <2>. QED  BY <2>5, <2>6
<1>. QED  BY <1>1, <1>2
----------------------------------------------------------------------------
(* An undisturbed refresh charges as the kernel routes.                    *)

LEMMA RoutedAreCIDRs ==
    ASSUME TypeOK
    PROVE  /\ Routed \subseteq CIDRs /\ InScope(Routed) \subseteq Routed
           /\ \A p \in Routed : best[p] \in Loopbacks
BY ChargeAssumption DEF TypeOK, RoutingTypeOK, Routed, InScope

(* The route of an address whose subnet is not split is no longer than a   *)
(* subnet, ...                                                             *)
LEMMA RouteIsShort ==
    ASSUME NEW a \in Addresses, NEW r \in Routed \cap CIDRs, Contains(r, a), ~ Split(a)
    PROVE  r.len <= SubnetLen
<1>1. r.len \in 0 .. Width /\ SubnetLen \in 0 .. Width
  BY CIDRIs, SizeAssumption
<1>2. SUFFICES ASSUME r.len > SubnetLen PROVE FALSE
  BY <1>1
<1>3. r.len \in SubnetLen .. Width
  BY <1>1, <1>2
<1>4. Masked(r.net, SubnetLen) = Masked(a, SubnetLen)
  BY <1>1, <1>3, MaskedTwice DEF Contains
<1>. QED  BY <1>2, <1>4 DEF Split

(* ... and is what PrefixForSubnet finds for the subnet of that address.   *)
LEMMA SubnetsRoute ==
    ASSUME TypeOK, NEW a \in Addresses, ~ Split(a),
           NEW r \in InScope(Routed), RouteOf(a) = r
    PROVE  Longest(InScope(Routed), Masked(a, SubnetLen)) = r
<1>. DEFINE subnet == Masked(a, SubnetLen)
            found == Longest(InScope(Routed), subnet)
<1>1. InScope(Routed) \subseteq CIDRs /\ InScope(Routed) \subseteq Routed /\ Routed \subseteq CIDRs
  BY RoutedAreCIDRs
<1>2. r # None
  BY <1>1, ChargeAssumption
<1>3. Contains(r, a) /\ \A q \in Routed : Contains(q, a) => q.len <= r.len
  BY <1>1, <1>2, LongestIs DEF RouteOf
<1>4. SubnetLen \in 0 .. Width /\ Width \in Nat /\ \A q \in CIDRs : q.len \in 0 .. Width /\ q.net \in Addresses
  BY CIDRIs, SizeAssumption
<1>5. subnet \in Addresses
  BY <1>4, MaskedIsAddress
<1>. HIDE DEF subnet
<1>6. ASSUME NEW q \in CIDRs, q.len <= SubnetLen
      PROVE  Contains(q, subnet) <=> Contains(q, a)
  <2>1. SubnetLen \in q.len .. Width /\ q.len \in 0 .. Width
    BY <1>4, <1>6
  <2>2. Masked(subnet, q.len) = Masked(a, q.len)
    BY <2>1, MaskedTwice DEF subnet
  <2>. QED  BY <2>2 DEF Contains
<1>7. ASSUME NEW q \in Routed, Contains(q, subnet)
      PROVE  q.len <= SubnetLen
  <2>1. SUFFICES ASSUME q.len > SubnetLen PROVE FALSE
    BY <1>1, <1>4
  <2>2. q.len \in SubnetLen .. Width /\ SubnetLen \in SubnetLen .. Width
    BY <1>1, <1>4, <2>1
  <2>3. Masked(q.net, SubnetLen) = Masked(subnet, SubnetLen)
    BY <1>4, <1>5, <1>7, <2>2, MaskedTwice DEF Contains
  <2>4. Masked(subnet, SubnetLen) = Masked(a, SubnetLen)
    BY <1>4, <2>2, MaskedTwice DEF subnet
  <2>. QED  BY <2>1, <2>3, <2>4 DEF Split
<1>8. Contains(r, subnet)
  <2>1. r.len <= SubnetLen
    BY <1>1, <1>3, RouteIsShort
  <2>. QED  BY <1>1, <1>3, <1>6, <2>1
<1>9. \A q \in InScope(Routed) : Contains(q, subnet) => q.len <= r.len
  BY <1>1, <1>3, <1>6, <1>7
<1>10. found \in InScope(Routed) /\ Contains(found, subnet) /\ r.len <= found.len
  BY <1>1, <1>8, LongestIs
<1>. HIDE DEF found
<1>11. found.len = r.len
  BY <1>1, <1>4, <1>9, <1>10
<1>12. found = r
  BY <1>1, <1>5, <1>8, <1>10, <1>11, OneOfALength
<1>. QED  BY <1>12 DEF found, subnet

(* The entry of that route is what transit_egress finds, and holds one of  *)
(* the gateways the route has.                                             *)
LEMMA EntryOfRoute ==
    ASSUME IInv, fresh, populating = {},
           NEW a \in Addresses, NEW r \in InScope(Routed), RouteOf(a) = r,
           ~ Split(a), ~ Shadowed(r), ~ Haunted(a, r)
    PROVE  Longest(Entries, a) = r /\ dstToNexthop[r] \in underlay[best[r]]
<1>1. InScope(Routed) \subseteq CIDRs /\ InScope(Routed) \subseteq Routed /\ Routed \subseteq CIDRs
  BY RoutedAreCIDRs DEF IInv
<1>2. r \in CIDRs /\ r # None
  BY <1>1, ChargeAssumption
<1>3. Contains(r, a)
  BY <1>1, <1>2, LongestIs DEF RouteOf
<1>4. r.len <= SubnetLen
  BY <1>1, <1>3, RouteIsShort
<1>5. EntryOf(r) = r
  BY <1>2, <1>4, EntryIs
<1>6. PICK q \in InScope(Routed) : EntryOf(q) = r /\ Resolves(Representative(q), dstToNexthop[r])
  BY <1>5 DEF IInv, FreshInv, Resolved
<1>7. r \in Entries
  BY <1>5 DEF IInv, FreshInv, Resolved
<1>8. q = r
  <2>1. q \in CIDRs /\ q.len = r.len
    BY <1>1, <1>6, EntryIs
  <2>. QED  BY <1>4, <1>6, <2>1, EntryIs
<1>9. dstToNexthop[r] \in underlay[best[r]]
  BY <1>6, <1>8 DEF Resolves, Shadowed, SentTowards
<1>. DEFINE found == Longest(Entries, a)
<1>10. Entries \subseteq CIDRs
  BY DEF IInv, TypeOK, DaemonTypeOK
<1>11. found \in Entries /\ Contains(found, a) /\ r.len <= found.len
  BY <1>3, <1>7, <1>10, LongestIs
<1>12. ~ (found.len > r.len)
  BY <1>11 DEF Haunted
<1>. HIDE DEF found
<1>13. found.len \in Nat /\ r.len \in Nat
  BY <1>2, <1>10, <1>11, CIDRIs
<1>14. found.len = r.len
  BY <1>11, <1>12, <1>13
<1>15. found = r
  BY <1>2, <1>3, <1>10, <1>11, <1>14, OneOfALength
<1>. QED  BY <1>9, <1>15 DEF found

(* The only loopback behind a gateway is any loopback behind it.           *)
LEMMA TheLoopback ==
    ASSUME NEW gw, NEW l \in LoopbacksVia(gw), Cardinality(LoopbacksVia(gw)) = 1
    PROVE  (CHOOSE k \in LoopbacksVia(gw) : TRUE) = l
<1>1. IsFiniteSet(LoopbacksVia(gw))
  BY ChargeAssumption, FS_Subset DEF LoopbacksVia
<1>2. PICK k : LoopbacksVia(gw) = {k}
  BY <1>1, FS_Singleton
<1>. QED  BY <1>2

(* The invariant says enough.                                              *)
LEMMA FreshIsRight == IInv => ChargedAsRouted
<1>. SUFFICES ASSUME IInv, fresh, populating = {}, NEW a \in Measured,
                     ChargedTo(KeyOf(a)) # None,
                     ~ Split(a), ~ Shadowed(RouteOf(a)), ~ Haunted(a, RouteOf(a)), ~ Unmasked
              PROVE  ChargedTo(KeyOf(a)) = [prefix |-> RouteOf(a), loopback |-> best[RouteOf(a)]]
  BY DEF ChargedAsRouted, AsRouted
<1>. DEFINE r == RouteOf(a)
            gw == dstToNexthop[r]
<1>1. a \in Addresses /\ r \in InScope(Routed)
  BY DEF Measured
<1>2. InScope(Routed) \subseteq CIDRs /\ InScope(Routed) \subseteq Routed /\ \A p \in Routed : best[p] \in Loopbacks
  BY RoutedAreCIDRs DEF IInv
<1>3. r \in CIDRs /\ r # None
  BY <1>1, <1>2, ChargeAssumption
<1>4. Longest(Entries, a) = r /\ gw \in underlay[best[r]]
  BY <1>1, EntryOfRoute
<1>. HIDE DEF r
<1>5. KeyOf(a) = [nextHop |-> gw, subnet |-> Masked(a, mask)]
  BY <1>3, <1>4 DEF KeyOf
<1>. HIDE DEF gw
<1>6. KeyOf(a).nextHop = gw /\ KeyOf(a).subnet = Masked(a, mask)
  BY <1>5
<1>7. PrefixForSubnet(KeyOf(a).subnet) # None /\ Cardinality(LoopbacksVia(gw)) = 1
  BY <1>6 DEF ChargedTo
<1>8. PrefixForSubnet(KeyOf(a).subnet) = Longest(InScope(Routed), Masked(a, mask))
  BY <1>6 DEF PrefixForSubnet, IInv, FreshInv
<1>9. mask = SubnetLen
  <2>1. SUFFICES ASSUME mask = 0 PROVE FALSE
    BY DEF IInv, TypeOK, RoutingTypeOK
  <2>2. Masked(a, mask) = 0
    BY <1>1, <2>1, Unset
  <2>3. Longest(InScope(Routed), 0) # None
    BY <1>7, <1>8, <2>2
  <2>4. \E p \in InScope(Routed) : Contains(p, 0)
    BY <1>2, <2>3, LongestIs
  <2>. QED  BY <2>1, <2>4 DEF Unmasked
<1>10. PrefixForSubnet(KeyOf(a).subnet) = r
  <2>1. Longest(InScope(Routed), Masked(a, SubnetLen)) = r
    BY <1>1, SubnetsRoute DEF r, IInv
  <2>. QED  BY <1>8, <1>9, <2>1
<1>11. best[r] \in LoopbacksVia(gw)
  BY <1>1, <1>2, <1>4 DEF LoopbacksVia, IInv, FreshInv
<1>12. (CHOOSE l \in LoopbacksVia(gw) : TRUE) = best[r]
  BY <1>7, <1>11, TheLoopback
<1>. QED  BY <1>6, <1>7, <1>10, <1>12 DEF ChargedTo, r

----------------------------------------------------------------------------
(* The invariant is inductive.                                             *)

LEMMA InitIInv == Init => IInv
<1>. SUFFICES ASSUME Init PROVE IInv
  OBVIOUS
<1>1. RoutingTypeOK
  BY ChargeAssumption DEF Init, RoutingTypeOK
<1>2. Entries = {}
  BY DEF Init, Entries
<1>3. DaemonTypeOK
  BY <1>2 DEF Init, DaemonTypeOK
<1>. QED  BY <1>1, <1>3 DEF IInv, TypeOK, FreshInv, Init

(* Routes that do not change resolve as before.                            *)
LEMMA SameRoutes ==
    ASSUME UNCHANGED routing
    PROVE  /\ Routed' = Routed /\ InScope(Routed)' = InScope(Routed)
           /\ \A a, gw : Resolves(a, gw)' = Resolves(a, gw)
<1>1. Routed' = Routed
  BY DEF routing, Routed
<1>2. InScope(Routed)' = InScope(Routed)
  BY <1>1 DEF InScope
<1>3. \A a : RouteOf(a)' = RouteOf(a)
  BY <1>1 DEF RouteOf, Longest
<1>. QED  BY <1>1, <1>2, <1>3 DEF Resolves, SentTowards, routing

(* What is resolved stays so as long as the trie and the routes do.        *)
LEMMA SameTrie ==
    ASSUME UNCHANGED <<routing, dstToNexthop>>
    PROVE  Entries' = Entries /\ \A p : Resolved(p)' = Resolved(p)
<1>1. Entries' = Entries
  BY DEF Entries
<1>. QED  BY <1>1, SameRoutes DEF Resolved

LEMMA RouteStep ==
    ASSUME IInv, NEW p \in Prefixes, NEW l \in Announced[p] \cup {None}, RouteChanges(p, l)
    PROVE  IInv'
<1>1. l \in Loopbacks \cup {None}
  BY ChargeAssumption
<1>2. RoutingTypeOK'
  BY <1>1 DEF IInv, TypeOK, RoutingTypeOK, RouteChanges
<1>3. DaemonTypeOK' /\ fresh' = FALSE /\ calm' \in BOOLEAN
  BY DEF IInv, TypeOK, DaemonTypeOK, RouteChanges, caches, Entries
<1>. QED  BY <1>2, <1>3 DEF IInv, TypeOK, FreshInv

LEMMA UnderlayStep ==
    ASSUME IInv, NEW u \in Underlays, UnderlayChanges(u)
    PROVE  IInv'
<1>1. RoutingTypeOK' /\ DaemonTypeOK' /\ fresh' = FALSE /\ calm' \in BOOLEAN
  BY DEF IInv, TypeOK, RoutingTypeOK, DaemonTypeOK, UnderlayChanges, caches, Entries
<1>. QED  BY <1>1 DEF IInv, TypeOK, FreshInv

LEMMA RefreshStep ==
    ASSUME IInv, NEW gotRIB \in BOOLEAN, NEW gotTopo \in BOOLEAN, Refresh(gotRIB, gotTopo)
    PROVE  IInv'
<1>1. RoutingTypeOK' /\ UNCHANGED <<routing, dstToNexthop>>
  BY DEF IInv, TypeOK, RoutingTypeOK, Refresh, routing
<1>2. cachedRIB' \subseteq Prefixes /\ InScope(cachedRIB') \subseteq cachedRIB'
  BY DEF IInv, TypeOK, DaemonTypeOK, Refresh, Routed, InScope
<1>3. DaemonTypeOK'
  BY <1>2, SMT DEF IInv, TypeOK, RoutingTypeOK, DaemonTypeOK, Refresh, Entries
<1>4. ASSUME fresh' PROVE cachedRIB' = Routed' /\ cachedUnderlay' = underlay' /\ populating' = InScope(Routed)'
  <2>1. gotRIB /\ gotTopo
    BY <1>4 DEF Refresh
  <2>2. cachedRIB' = Routed /\ cachedUnderlay' = underlay /\ populating' = InScope(cachedRIB')
    BY <2>1 DEF Refresh
  <2>. QED  BY <1>1, <2>2, SameRoutes DEF routing
<1>5. fresh' \in BOOLEAN /\ calm' \in BOOLEAN
  BY DEF IInv, TypeOK, Refresh
<1>. QED  BY <1>1, <1>3, <1>4, <1>5 DEF IInv, TypeOK, FreshInv

LEMMA PopulateStep ==
    ASSUME IInv, NEW p \in Prefixes, NEW gw \in Gateways, Populate(p, gw)
    PROVE  IInv'
<1>. DEFINE e == EntryOf(p)
<1>1. RoutingTypeOK' /\ UNCHANGED routing /\ UNCHANGED caches /\ UNCHANGED fresh /\ UNCHANGED calm
  BY DEF IInv, TypeOK, RoutingTypeOK, Populate, routing, caches
<1>2. e \in CIDRs
  BY EntryIs, ChargeAssumption
<1>3. dstToNexthop' = [f \in Entries \cup {e} |-> IF f = e THEN gw ELSE dstToNexthop[f]]
  BY DEF Populate
<1>4. Entries' = Entries \cup {e}
  BY <1>3 DEF Entries
<1>5. dstToNexthop'[e] = gw /\ \A f \in Entries \ {e} : dstToNexthop'[f] = dstToNexthop[f]
  BY <1>3
<1>6. DaemonTypeOK'
  <2>1. dstToNexthop' \in [Entries' -> Gateways]
    BY <1>3, <1>4 DEF IInv, TypeOK, DaemonTypeOK
  <2>. QED  BY <1>1, <1>2, <1>4, <2>1 DEF IInv, TypeOK, DaemonTypeOK, Populate, caches
<1>7. ASSUME fresh PROVE FreshInv'
  <2>1. p \in InScope(Routed) /\ populating' = populating \ {p}
    BY <1>7 DEF IInv, FreshInv, Populate
  <2>2. Resolves(Representative(p), gw)
    BY DEF Populate
  <2>3. ASSUME NEW q \in InScope(Routed) \ populating' PROVE Resolved(q)'
    <3>1. CASE EntryOf(q) = e
      <4>1. EntryOf(q) \in Entries' /\ Resolves(Representative(p), dstToNexthop'[EntryOf(q)])
        BY <3>1, <1>4, <1>5, <2>2
      <4>. QED  BY <3>1, <4>1, <2>1, <1>1, SameRoutes DEF Resolved
    <3>2. CASE EntryOf(q) # e
      <4>1. Resolved(q)
        BY <1>7, <2>1, <2>3, <3>2 DEF IInv, FreshInv
      <4>2. EntryOf(q) \in Entries' /\ dstToNexthop'[EntryOf(q)] = dstToNexthop[EntryOf(q)]
        BY <3>2, <4>1, <1>4, <1>5 DEF Resolved
      <4>. QED  BY <4>1, <4>2, <1>1, SameRoutes DEF Resolved
    <3>. QED  BY <3>1, <3>2
  <2>. QED  BY <1>1, <1>7, <2>1, <2>3, SameRoutes DEF IInv, FreshInv, routing, caches
<1>. QED  BY <1>1, <1>6, <1>7 DEF IInv, TypeOK, FreshInv

LEMMA PopulateFailsStep ==
    ASSUME IInv, NEW p \in Prefixes, PopulateFails(p)
    PROVE  IInv'
<1>1. RoutingTypeOK' /\ DaemonTypeOK' /\ fresh' = FALSE /\ calm' \in BOOLEAN
  BY DEF IInv, TypeOK, RoutingTypeOK, DaemonTypeOK, PopulateFails, routing, caches, Entries
<1>. QED  BY <1>1 DEF IInv, TypeOK, FreshInv

LEMMA IdleStep ==
    ASSUME IInv, Settle \/ UNCHANGED vars
    PROVE  IInv'
<1>1. UNCHANGED <<routing, dstToNexthop, caches, mask, populating, fresh>> /\ calm' \in BOOLEAN
  BY DEF IInv, TypeOK, Settle, vars
<1>2. UNCHANGED <<best, underlay, cachedRIB, cachedUnderlay>>
  BY <1>1 DEF routing, caches
<1>3. TypeOK'
  BY <1>1, <1>2 DEF IInv, TypeOK, RoutingTypeOK, DaemonTypeOK, Entries
<1>4. FreshInv'
  BY <1>1, <1>2, SameRoutes, SameTrie DEF IInv, FreshInv
<1>. QED  BY <1>3, <1>4 DEF IInv

LEMMA NextIInv == IInv /\ [Next]_vars => IInv'
<1>. SUFFICES ASSUME IInv, [Next]_vars PROVE IInv'
  OBVIOUS
<1>1. CASE \E gotRIB, gotTopo \in BOOLEAN : Refresh(gotRIB, gotTopo)
  BY <1>1, RefreshStep
<1>2. CASE \E p \in Prefixes : \E gw \in Gateways : Populate(p, gw)
  BY <1>2, PopulateStep
<1>3. CASE \E p \in Prefixes : PopulateFails(p)
  BY <1>3, PopulateFailsStep
<1>4. CASE \E p \in Prefixes : \E l \in Announced[p] \cup {None} : RouteChanges(p, l)
  BY <1>4, RouteStep
<1>5. CASE \E u \in Underlays : UnderlayChanges(u)
  BY <1>5, UnderlayStep
<1>6. CASE Settle \/ UNCHANGED vars
  BY <1>6, IdleStep
<1>. QED  BY <1>1, <1>2, <1>3, <1>4, <1>5, <1>6 DEF Next, DaemonStep

(* The types, and a refresh that nothing disturbed: in it the caches are   *)
(* FRR's routes and OSPF's underlay of now, and every prefix in scope that *)
(* populateDstToNexthopFromRIB is through with has its entry, resolved by  *)
(* them.                                                                   *)
THEOREM RefreshSafe == Spec => []IInv
<1>1. Init => IInv
  BY InitIInv
<1>2. IInv /\ [Next]_vars => IInv'
  BY NextIInv
<1>. QED  BY <1>1, <1>2, PTL DEF Spec

(* PrefixForSubnet and LoopbackForGateway charge a segment to the prefix   *)
(* the kernel routes it by and the neighbor it is sent to, or to nobody,   *)
(* once such a refresh is through.                                         *)
THEOREM ChargeSafe == Spec => []ChargedAsRouted
<1>1. IInv => ChargedAsRouted
  BY FreshIsRight
<1>. QED  BY <1>1, RefreshSafe, PTL
=============================================================================

--------------------------- MODULE MCTransitCharge ---------------------------
(* Addresses of four bits, subnets of four addresses.  In the scope 8..15: *)
(* a prefix of two subnets, half of the second of them, and the host that  *)
(* is the representative of the first.  The two loopbacks have first hops  *)
(* of their own, or share one.                                             *)
EXTENDS TransitCharge, TLC

SizeOf == [len \in 0 .. 4 |-> 2 ^ (4 - len)]

Cidr(n, l) == [net |-> n, len |-> l]

PrefixSet == {Cidr(8, 1), Cidr(14, 3), Cidr(9, 4)}
ScopeSet == {Cidr(8, 1)}
LoopbackSet == {"l1", "l2"}
AnnouncedSet == (Cidr(8, 1) :> LoopbackSet) @@ (Cidr(14, 3) :> {"l2"}) @@ (Cidr(9, 4) :> {"l2"})
UnderlaySet == { "l1" :> {"g1"} @@ "l2" :> {"g2"}, "l1" :> {"g1"} @@ "l2" :> {"g1", "g2"} }
=============================================================================

---------------------------- MODULE LoaderProofs ----------------------------
(***************************************************************************)
(* What internal/loader guarantees on any number of interfaces, whatever   *)
(* other tools, restarts and recreated interfaces do in between.           *)
(***************************************************************************)
EXTENDS Loader, TLAPS, WellFoundedInduction, FiniteSetTheorems

(* A set of natural numbers has a least element.                           *)
LEMMA LeastExists ==
    ASSUME NEW S \in SUBSET Nat, S # {}
    PROVE  \E x \in S : \A y \in S : x <= y
<1>1. PICK x \in S : \A y \in S : ~ (<<y, x>> \in OpToRel(<, Nat))
  BY NatLessThanWellFounded, WFMin
<1>2. \A y \in S : ~ (y < x)
  BY <1>1 DEF OpToRel
<1>3. QED
  BY <1>2

(* A set without two different elements.                                   *)
LEMMA AtMostOne ==
    ASSUME NEW S, \A x, y \in S : x = y
    PROVE  Cardinality(S) <= 1
<1>1. CASE S = {}
  BY <1>1, FS_EmptySet
<1>2. CASE S # {}
  <2>1. PICK x \in S : TRUE
    BY <1>2
  <2>2. S = {x}
    BY <2>1
  <2>3. QED
    BY <2>2, FS_Singleton
<1>3. QED
  BY <1>1, <1>2

(* The handle that is chosen is free.                                      *)
LEMMA HandleIsFree ==
    ASSUME NEW i, FreeHandles(i) # {}
    PROVE  nextFilterHandle(i) \in Handles
<1> DEFINE S == FreeHandles(i)
<1>1. S \in SUBSET Handles /\ S \in SUBSET Nat
  BY HandleAssumption DEF FreeHandles, Handles
<1> HIDE DEF S
<1>2. \E x \in S : \A y \in S : x <= y
  BY <1>1, LeastExists DEF S
<1>3. Min(S) \in S
  BY <1>2 DEF Min
<1>4. QED
  BY <1>1, <1>3 DEF nextFilterHandle, S

----------------------------------------------------------------------------
(* The inductive invariant.  What is attached is attached to an interface  *)
(* there is; between the look for a filter and the attach nobody else adds *)
(* one of ours, and the records of the interface are gone.                 *)
Attached ==
    /\ \A f \in filters : Exists(f.iface)
    /\ \A i \in Ifaces : xdp[i] # "none" => Exists(i)

Single ==
    /\ \A f, g \in filters : f.iface = g.iface /\ Ours(f) /\ Ours(g) => f = g
    /\ adding # NotAdding => \A f \in filters : f.iface = adding.iface => ~ Ours(f)

Link(f) == [iface |-> f.iface, idx |-> index[f.iface], handle |-> f.handle]

Recorded ==
    /\ \A f \in filters : f.prog = "mine" => Link(f) \in tcLinks
    /\ \A l, m \in tcLinks : l.iface = m.iface => l = m
    /\ adding # NotAdding => \A l \in tcLinks : l.iface # adding.iface

RecordedXDP ==
    /\ \A i \in Ifaces : xdp[i] = "mine" => [iface |-> i, idx |-> index[i]] \in xdpLinks
    /\ \A l, m \in xdpLinks : l.iface = m.iface => l = m

Added == adding # NotAdding => adding.iface \in Ifaces

LoaderInv == TypeOK /\ Added /\ Attached /\ Single /\ Recorded /\ RecordedXDP

(* Steps that only move the daemon from call to call.                      *)
LEMMA RefreshSteps ==
    ASSUME LoaderInv, UNCHANGED <<kernelVars, tcVars, xdpVars>>,
           pc' \in {"boot", "startup", "idle", "detach", "xdp", "tc"},
           underlay' \subseteq Ifaces, todo' \subseteq Ifaces,
           adding' \in {adding, NotAdding},
           cleaned' \in BOOLEAN, calm' \in BOOLEAN
    PROVE  LoaderInv'
<1> USE DEF kernelVars, tcVars, xdpVars
<1>1. TypeOK'
  <2>1. NotAdding \in [iface : Ifaces \cup {NoIface}, idx : Indexes \cup {Gone}]
    BY DEF NotAdding
  <2>2. QED
    BY <2>1 DEF LoaderInv, TypeOK
<1>2. Added' /\ Attached'
  BY DEF LoaderInv, Added, Attached, Exists
<1>3. Single' /\ Recorded' /\ RecordedXDP'
  BY DEF LoaderInv, Single, Recorded, RecordedXDP, Link, Ours
<1>4. QED
  BY <1>1, <1>2, <1>3 DEF LoaderInv

(* Before the first refresh there are no records and no programs of this   *)
(* process.                                                                *)
LEMMA InitInvariant == Init => LoaderInv
<1> SUFFICES ASSUME Init
             PROVE  LoaderInv
  OBVIOUS
<1>1. 1 \in Indexes /\ 1 \in Handles
  BY HandleAssumption DEF Indexes, Handles
<1>2. TypeOK
  <2>1. index \in [Ifaces -> Indexes \cup {Gone}] /\ lastIndex = index
    BY <1>1 DEF Init
  <2>2. filters \subseteq Filter
    BY <1>1 DEF Init, Filter
  <2>3. adding \in [iface : Ifaces \cup {NoIface}, idx : Indexes \cup {Gone}]
    BY DEF Init, NotAdding
  <2>4. xdpKnown \in [Ifaces -> [idx : Indexes \cup {Gone}, ours : BOOLEAN]]
    BY DEF Init, Unknown
  <2>5. QED
    BY <2>1, <2>2, <2>3, <2>4 DEF Init, TypeOK
<1>3. Added /\ Attached
  BY DEF Init, Added, Attached
<1>4. Single
  <2>1. \A f, g \in filters : f.iface = g.iface => f = g
    BY DEF Init
  <2>2. QED
    BY <2>1 DEF Init, Single
<1>5. Recorded /\ RecordedXDP
  BY DEF Init, Recorded, RecordedXDP
<1>6. QED
  BY <1>2, <1>3, <1>4, <1>5 DEF LoaderInv

----------------------------------------------------------------------------
(* The loader's steps.                                                     *)

(* Filters are removed, none is added or changed.                          *)
LEMMA FiltersRemoved ==
    ASSUME LoaderInv, filters' \subseteq filters,
           UNCHANGED <<index, lastIndex, xdp, underlay, adding, cleaned, tcVars, xdpVars, calm>>,
           pc' = pc, todo' \subseteq todo
    PROVE  LoaderInv'
<1> USE DEF tcVars, xdpVars
<1>1. TypeOK' /\ Added'
  BY DEF LoaderInv, TypeOK, Added
<1>2. Attached'
  BY DEF LoaderInv, Attached, Exists
<1>3. Single' /\ Recorded' /\ RecordedXDP'
  BY DEF LoaderInv, Single, Recorded, RecordedXDP, Link, Ours
<1>4. QED
  BY <1>1, <1>2, <1>3 DEF LoaderInv

(* DetachStaleTC takes filters away and leaves the records alone.          *)
LEMMA DetachInvariant ==
    ASSUME LoaderInv, NEW i \in Ifaces, DetachStaleTC(i)
    PROVE  LoaderInv'
  BY FiltersRemoved DEF DetachStaleTC

(* AttachXDP leaves one record of the interface, the one of its program.   *)
LEMMA AttachXDPInvariant ==
    ASSUME LoaderInv, NEW i \in Ifaces, AttachXDP(i)
    PROVE  LoaderInv'
<1> USE DEF tcVars
<1> DEFINE link == [iface |-> i, idx |-> index[i]]
<1>1. /\ UNCHANGED <<index, lastIndex, filters, pc, underlay, adding, cleaned, tcVars, calm>>
      /\ todo' \subseteq todo
      /\ Exists(i)
      /\ xdp' = [xdp EXCEPT ![i] = "mine"]
      /\ xdpLinks' = {l \in xdpLinks : l.iface # i} \cup {link}
      /\ xdpKnown' = [xdpKnown EXCEPT ![i] = [idx |-> index[i], ours |-> TRUE]]
  BY DEF AttachXDP, VisitXDP
<1>2. index[i] \in Indexes
  BY <1>1 DEF LoaderInv, TypeOK, Exists
<1>3. TypeOK' /\ Added'
  BY <1>1, <1>2 DEF LoaderInv, TypeOK, Added
<1>4. Attached'
  BY <1>1 DEF LoaderInv, TypeOK, Attached, Exists
<1>5. Single' /\ Recorded'
  BY <1>1 DEF LoaderInv, Single, Recorded, Link, Ours
<1>6. RecordedXDP'
  <2>1. \A j \in Ifaces : xdp'[j] = "mine" => [iface |-> j, idx |-> index'[j]] \in xdpLinks'
    BY <1>1 DEF LoaderInv, TypeOK, RecordedXDP
  <2>2. \A l, m \in xdpLinks' : l.iface = m.iface => l = m
    BY <1>1 DEF LoaderInv, RecordedXDP
  <2>3. QED
    BY <2>1, <2>2 DEF RecordedXDP
<1>7. QED
  BY <1>3, <1>4, <1>5, <1>6 DEF LoaderInv

(* Neither a look at a busy interface nor a failure attaches anything.     *)
LEMMA XDPOthersInvariant ==
    ASSUME LoaderInv, NEW i \in Ifaces, XDPBusy(i) \/ XDPSkips(i)
    PROVE  LoaderInv'
<1> USE DEF tcVars, xdpVars
<1>1. /\ UNCHANGED <<index, lastIndex, filters, xdp, pc, underlay, adding, cleaned, tcVars,
                     xdpLinks, calm>>
      /\ todo' \subseteq todo
  BY DEF XDPBusy, XDPSkips, VisitXDP
<1>2. xdpKnown' \in [Ifaces -> [idx : Indexes \cup {Gone}, ours : BOOLEAN]]
  <2> DEFINE other == [xdpKnown EXCEPT ![i] = [idx |-> index[i], ours |-> FALSE]]
  <2>1. xdpKnown' \in {xdpKnown, other}
    BY DEF XDPBusy, XDPSkips
  <2>2. xdpKnown \in [Ifaces -> [idx : Indexes \cup {Gone}, ours : BOOLEAN]]
    BY DEF LoaderInv, TypeOK
  <2>3. [idx |-> index[i], ours |-> FALSE] \in [idx : Indexes \cup {Gone}, ours : BOOLEAN]
    BY DEF LoaderInv, TypeOK
  <2>4. other \in [Ifaces -> [idx : Indexes \cup {Gone}, ours : BOOLEAN]]
    BY <2>2, <2>3
  <2>5. QED
    BY <2>1, <2>2, <2>4
<1>3. TypeOK' /\ Added'
  BY <1>1, <1>2 DEF LoaderInv, TypeOK, Added
<1>4. Attached'
  BY <1>1 DEF LoaderInv, Attached, Exists
<1>5. Single' /\ Recorded' /\ RecordedXDP'
  BY <1>1 DEF LoaderInv, Single, Recorded, RecordedXDP, Link, Ours
<1>6. QED
  BY <1>3, <1>4, <1>5 DEF LoaderInv

(* An interface with a filter under our name is only remembered.           *)
LEMMA FindTCInvariant ==
    ASSUME LoaderInv, NEW i \in Ifaces, FindTC(i)
    PROVE  LoaderInv'
<1> USE DEF kernelVars, xdpVars
<1>1. /\ UNCHANGED <<kernelVars, pc, underlay, adding, cleaned, tcLinks, xdpVars, calm>>
      /\ todo' \subseteq todo
      /\ tcKnown' = [tcKnown EXCEPT ![i] = index[i]]
  BY DEF FindTC
<1>2. TypeOK' /\ Added'
  <2>1. tcKnown' \in [Ifaces -> Indexes \cup {Gone}]
    BY <1>1 DEF LoaderInv, TypeOK
  <2>2. QED
    BY <1>1, <2>1 DEF LoaderInv, TypeOK, Added
<1>3. Attached'
  BY <1>1 DEF LoaderInv, Attached, Exists
<1>4. Single' /\ Recorded' /\ RecordedXDP'
  BY <1>1 DEF LoaderInv, Single, Recorded, RecordedXDP, Link, Ours
<1>5. QED
  BY <1>2, <1>3, <1>4 DEF LoaderInv

(* No filter of ours was found, so none of this process is on the          *)
(* interface: the records that go stand for none that runs.                *)
LEMMA MissTCInvariant ==
    ASSUME LoaderInv, NEW i \in Ifaces, MissTC(i)
    PROVE  LoaderInv'
<1> USE DEF xdpVars
<1>1. /\ UNCHANGED <<index, lastIndex, xdp, pc, underlay, todo, cleaned, tcKnown, xdpVars, calm>>
      /\ Exists(i) /\ \A f \in filters : f.iface = i => ~ Ours(f)
      /\ adding' = [iface |-> i, idx |-> index[i]]
      /\ tcLinks' = {l \in tcLinks : l.iface # i}
      /\ filters' \subseteq filters
  BY DEF MissTC, Present, On, Dropped
<1>2. index[i] \in Indexes
  BY <1>1 DEF LoaderInv, TypeOK, Exists
<1>3. TypeOK' /\ Added'
  BY <1>1, <1>2 DEF LoaderInv, TypeOK, Added
<1>4. Attached'
  BY <1>1 DEF LoaderInv, Attached, Exists
<1>5. Single'
  BY <1>1 DEF LoaderInv, Single, Ours
<1>6. Recorded'
  <2>1. ASSUME NEW f \in filters', f.prog = "mine"
        PROVE  Link(f)' \in tcLinks'
    <3>1. f \in filters /\ f.iface # i
      BY <1>1, <2>1 DEF Ours
    <3>2. Link(f)' = Link(f) /\ Link(f) \in tcLinks /\ Link(f).iface = f.iface
      BY <1>1, <2>1, <3>1 DEF LoaderInv, Recorded, Link
    <3>3. QED
      BY <1>1, <3>1, <3>2
  <2>2. \A l, m \in tcLinks' : l.iface = m.iface => l = m
    BY <1>1 DEF LoaderInv, Recorded
  <2>3. \A l \in tcLinks' : l.iface # adding'.iface
    BY <1>1
  <2>4. QED
    BY <2>1, <2>2, <2>3 DEF Recorded
<1>7. RecordedXDP'
  BY <1>1 DEF LoaderInv, RecordedXDP
<1>8. QED
  BY <1>3, <1>4, <1>5, <1>6, <1>7 DEF LoaderInv

(* The filter added is the only one of ours, and the only one recorded.    *)
LEMMA AddTCInvariant ==
    ASSUME LoaderInv, AddTC
    PROVE  LoaderInv'
<1> USE DEF xdpVars
<1> DEFINE i == adding.iface
           h == nextFilterHandle(i)
           new == [iface |-> i, handle |-> h, prog |-> "mine"]
           link == [iface |-> i, idx |-> index[i], handle |-> h]
<1>1. /\ UNCHANGED <<index, lastIndex, xdp, pc, underlay, cleaned, xdpVars, calm>>
      /\ adding # NotAdding /\ adding' = NotAdding
      /\ Exists(i) /\ FreeHandles(i) # {}
      /\ filters' = filters \cup {new}
      /\ tcLinks' = tcLinks \cup {link}
      /\ tcKnown' = [tcKnown EXCEPT ![i] = adding.idx]
      /\ todo' \subseteq todo
  BY DEF AddTC
<1>2. i \in Ifaces /\ h \in Handles /\ index[i] \in Indexes /\ adding.idx \in Indexes \cup {Gone}
  <2>1. i \in Ifaces
    BY <1>1 DEF LoaderInv, Added
  <2>2. h \in Handles
    BY <1>1, HandleIsFree
  <2>3. adding.idx \in Indexes \cup {Gone}
    BY DEF LoaderInv, TypeOK
  <2>4. index[i] \in Indexes
    BY <1>1, <2>1 DEF LoaderInv, TypeOK, Exists
  <2>5. QED
    BY <2>1, <2>2, <2>3, <2>4
<1> HIDE DEF h
<1>3. TypeOK' /\ Added'
  <2>1. new \in Filter /\ link \in [iface : Ifaces, idx : Indexes, handle : Handles]
    BY <1>2 DEF Filter
  <2>2. NotAdding \in [iface : Ifaces \cup {NoIface}, idx : Indexes \cup {Gone}]
    BY DEF NotAdding
  <2>3. tcKnown' \in [Ifaces -> Indexes \cup {Gone}]
    BY <1>1, <1>2 DEF LoaderInv, TypeOK
  <2>4. filters' \subseteq Filter /\ tcLinks' \subseteq [iface : Ifaces, idx : Indexes, handle : Handles]
    BY <1>1, <2>1 DEF LoaderInv, TypeOK
  <2> HIDE DEF i, new, link
  <2>5. Added'
    BY <1>1 DEF Added
  <2>6. QED
    BY <1>1, <2>2, <2>3, <2>4, <2>5 DEF LoaderInv, TypeOK
<1>4. Attached'
  BY <1>1 DEF LoaderInv, Attached, Exists
<1>5. Single'
  <2>1. \A f \in filters : f.iface = i => ~ Ours(f)
    BY <1>1 DEF LoaderInv, Single
  <2>2. \A f, g \in filters' : f.iface = g.iface /\ Ours(f) /\ Ours(g) => f = g
    BY <1>1, <2>1 DEF LoaderInv, Single
  <2>3. QED
    BY <1>1, <2>2 DEF Single, Ours
<1>6. Recorded'
  <2>1. ASSUME NEW f \in filters', f.prog = "mine"
        PROVE  Link(f)' \in tcLinks'
    <3>1. CASE f \in filters
      BY <1>1, <2>1, <3>1 DEF LoaderInv, Recorded, Link
    <3>2. CASE f = new
      BY <1>1, <3>2 DEF Link
    <3>3. QED
      BY <1>1, <3>1, <3>2
  <2>2. \A l \in tcLinks : l.iface # i
    BY <1>1 DEF LoaderInv, Recorded
  <2>3. \A l, m \in tcLinks' : l.iface = m.iface => l = m
    BY <1>1, <2>2 DEF LoaderInv, Recorded
  <2>4. QED
    BY <1>1, <2>1, <2>3 DEF Recorded
<1>7. RecordedXDP'
  BY <1>1 DEF LoaderInv, RecordedXDP
<1>8. QED
  BY <1>3, <1>4, <1>5, <1>6, <1>7 DEF LoaderInv

(* Steps between calls and at the end of one.                              *)
LEMMA CallsInvariant ==
    ASSUME LoaderInv,
           \/ \E found \in SUBSET Ifaces : Start(found)
           \/ \E u \in SUBSET Ifaces : Refresh(u)
           \/ NextCall \/ AttachTCFails \/ Settle
    PROVE  LoaderInv'
<1> USE DEF kernelVars, tcVars, xdpVars, refreshVars
<1>1. TypeOK
  BY DEF LoaderInv
<1>2. UNCHANGED <<kernelVars, tcVars, xdpVars>>
  BY DEF Start, Refresh, NextCall, AttachTCFails, Settle
<1>3. /\ pc' \in {"boot", "startup", "idle", "detach", "xdp", "tc"}
      /\ cleaned' \in BOOLEAN /\ calm' \in BOOLEAN
  BY <1>1 DEF TypeOK, Start, Refresh, NextCall, AttachTCFails, Settle
<1>4. underlay' \subseteq Ifaces /\ todo' \subseteq Ifaces /\ adding' \in {adding, NotAdding}
  BY <1>1 DEF TypeOK, Start, Refresh, NextCall, AttachTCFails, Settle
<1>5. QED
  BY <1>2, <1>3, <1>4, RefreshSteps

----------------------------------------------------------------------------
(* The steps around the loader.                                            *)

(* A vanished interface takes its filters with it; a new incarnation has   *)
(* none that the records of the old one could be taken for.                *)
LEMMA InterfaceInvariant ==
    ASSUME LoaderInv, NEW i \in Ifaces, Vanish(i) \/ Appear(i)
    PROVE  LoaderInv'
<1> USE DEF tcVars, xdpVars, refreshVars
<1>1. UNCHANGED <<refreshVars, tcVars, xdpVars, calm>>
  BY DEF Vanish, Appear, KernelMoves
<1>2. TypeOK /\ Attached
  BY DEF LoaderInv
<1>3. CASE Vanish(i)
  <2>1. /\ Exists(i)
        /\ index' = [index EXCEPT ![i] = Gone] /\ lastIndex' = lastIndex
        /\ filters' = {f \in filters : f.iface # i}
        /\ xdp' = [xdp EXCEPT ![i] = "none"]
    BY <1>3 DEF Vanish, On
  <2>2. TypeOK' /\ Added'
    BY <1>1, <1>2, <2>1 DEF LoaderInv, TypeOK, Added
  <2>3. \A f \in filters' : f.iface \in Ifaces /\ index'[f.iface] = index[f.iface]
    BY <1>2, <2>1 DEF TypeOK, Filter
  <2>4. Attached'
    BY <1>2, <2>1, <2>3 DEF TypeOK, Attached, Exists
  <2>5. Single' /\ Recorded'
    BY <1>1, <2>1, <2>3 DEF LoaderInv, Single, Recorded, Link, Ours
  <2>6. RecordedXDP'
    BY <1>1, <1>2, <2>1 DEF LoaderInv, TypeOK, RecordedXDP
  <2>7. QED
    BY <2>2, <2>4, <2>5, <2>6 DEF LoaderInv
<1>4. CASE Appear(i)
  <2>1. /\ ~ Exists(i)
        /\ index' = [index EXCEPT ![i] = lastIndex[i] + 1]
        /\ lastIndex' = [lastIndex EXCEPT ![i] = @ + 1]
        /\ lastIndex[i] < MaxIndex
        /\ filters' = filters /\ xdp' = xdp
    BY <1>4 DEF Appear
  <2>2. lastIndex[i] + 1 \in Indexes /\ lastIndex[i] + 1 # Gone
    BY <1>2, <2>1, HandleAssumption DEF TypeOK, Indexes, Gone
  <2>3. TypeOK' /\ Added'
    BY <1>1, <1>2, <2>1, <2>2 DEF LoaderInv, TypeOK, Added
  <2>4. \A f \in filters : f.iface \in Ifaces /\ index'[f.iface] = index[f.iface]
    BY <1>2, <2>1 DEF TypeOK, Filter, Attached
  <2>5. xdp[i] = "none"
    BY <1>2, <2>1 DEF Attached
  <2>6. Attached'
    BY <1>2, <2>1, <2>2, <2>4 DEF TypeOK, Attached, Exists
  <2>7. Single' /\ Recorded'
    BY <1>1, <2>1, <2>4 DEF LoaderInv, Single, Recorded, Link, Ours
  <2>8. RecordedXDP'
    BY <1>1, <1>2, <2>1, <2>5 DEF LoaderInv, TypeOK, RecordedXDP
  <2>9. QED
    BY <2>3, <2>6, <2>7, <2>8 DEF LoaderInv
<1>5. QED
  BY <1>3, <1>4

(* Other tools add filters of their own, and remove any.                   *)
LEMMA OtherToolInvariant ==
    ASSUME LoaderInv,
           \/ \E i \in Ifaces, h \in OtherHandles : OtherFilter(i, h)
           \/ \E f \in filters : FilterRemoved(f)
           \/ \E i \in Ifaces : OtherXDP(i)
    PROVE  LoaderInv'
<1> USE DEF tcVars, xdpVars, refreshVars
<1>1. UNCHANGED <<refreshVars, tcVars, xdpVars, calm, index, lastIndex>>
  BY DEF OtherFilter, FilterRemoved, OtherXDP, KernelMoves
<1>2. TypeOK /\ Attached
  BY DEF LoaderInv
<1>3. ASSUME NEW i \in Ifaces, NEW h \in OtherHandles, OtherFilter(i, h)
      PROVE  LoaderInv'
  <2> DEFINE new == [iface |-> i, handle |-> h, prog |-> "other"]
  <2>1. Exists(i) /\ filters' = filters \cup {new} /\ xdp' = xdp
    BY <1>3 DEF OtherFilter
  <2>2. new \in Filter /\ ~ Ours(new)
    BY DEF Filter, Ours
  <2>3. TypeOK' /\ Added'
    BY <1>1, <1>2, <2>1, <2>2 DEF LoaderInv, TypeOK, Added
  <2>4. Attached'
    BY <1>1, <1>2, <2>1 DEF Attached, Exists
  <2>5. Single'
    BY <1>1, <2>1, <2>2 DEF LoaderInv, Single, Ours
  <2>6. Recorded' /\ RecordedXDP'
    BY <1>1, <2>1 DEF LoaderInv, Recorded, RecordedXDP, Link
  <2>7. QED
    BY <2>3, <2>4, <2>5, <2>6 DEF LoaderInv
<1>4. ASSUME NEW f \in filters, FilterRemoved(f)
      PROVE  LoaderInv'
  BY <1>1, <1>4, FiltersRemoved DEF FilterRemoved
<1>5. ASSUME NEW i \in Ifaces, OtherXDP(i)
      PROVE  LoaderInv'
  <2>1. /\ Exists(i) /\ xdp[i] # "mine" /\ filters' = filters
        /\ xdp' = [xdp EXCEPT ![i] = IF @ = "none" THEN "other" ELSE "none"]
    BY <1>5 DEF OtherXDP
  <2>2. TypeOK' /\ Added'
    BY <1>1, <1>2, <2>1 DEF LoaderInv, TypeOK, Added
  <2>3. Attached'
    BY <1>1, <1>2, <2>1 DEF TypeOK, Attached, Exists
  <2>4. Single' /\ Recorded'
    BY <1>1, <2>1 DEF LoaderInv, Single, Recorded, Link, Ours
  <2>5. RecordedXDP'
    BY <1>1, <1>2, <2>1 DEF LoaderInv, TypeOK, RecordedXDP
  <2>6. QED
    BY <2>2, <2>3, <2>4, <2>5 DEF LoaderInv
<1>6. QED
  BY <1>3, <1>4, <1>5

(* The filters of a dead daemon stay, one on each interface at most.       *)
LEMMA RestartInvariant ==
    ASSUME LoaderInv, DaemonRestart
    PROVE  LoaderInv'
<1>1. /\ filters' = {[f EXCEPT !.prog = IF @ = "mine" THEN "stale" ELSE @] : f \in filters}
      /\ xdp' = [i \in Ifaces |-> IF xdp[i] = "mine" THEN "none" ELSE xdp[i]]
      /\ pc' = "boot" /\ underlay' = {} /\ todo' = {} /\ adding' = NotAdding
      /\ cleaned' = FALSE
      /\ tcLinks' = {} /\ tcKnown' = [i \in Ifaces |-> Gone]
      /\ xdpLinks' = {} /\ xdpKnown' = [i \in Ifaces |-> Unknown]
      /\ UNCHANGED <<index, lastIndex, calm>>
  BY DEF DaemonRestart
<1>2. TypeOK /\ Attached
  BY DEF LoaderInv
<1>3. \A g \in filters' : \E f \in filters :
        /\ g.iface = f.iface /\ g.handle = f.handle /\ g \in Filter
        /\ g.prog = IF f.prog = "mine" THEN "stale" ELSE f.prog
        /\ g = [f EXCEPT !.prog = IF @ = "mine" THEN "stale" ELSE @]
  BY <1>1, <1>2 DEF TypeOK, Filter
<1>4. TypeOK' /\ Added'
  <2>1. NotAdding \in [iface : Ifaces \cup {NoIface}, idx : Indexes \cup {Gone}]
    BY DEF NotAdding
  <2>2. xdpKnown' \in [Ifaces -> [idx : Indexes \cup {Gone}, ours : BOOLEAN]]
    BY <1>1 DEF Unknown
  <2>3. filters' \subseteq Filter
    BY <1>3
  <2>4. QED
    BY <1>1, <1>2, <2>1, <2>2, <2>3 DEF TypeOK, Added
<1>5. Attached'
  BY <1>1, <1>2, <1>3 DEF TypeOK, Attached, Exists
<1>6. Single'
  BY <1>1, <1>3 DEF LoaderInv, Single, Ours
<1>7. Recorded' /\ RecordedXDP'
  BY <1>1, <1>3 DEF LoaderInv, TypeOK, Recorded, RecordedXDP
<1>8. QED
  BY <1>4, <1>5, <1>6, <1>7 DEF LoaderInv

(* Every step keeps the invariant.                                         *)
LEMMA StepInvariant == LoaderInv /\ [Next]_vars => LoaderInv'
<1> SUFFICES ASSUME LoaderInv, [Next]_vars
             PROVE  LoaderInv'
  OBVIOUS
<1>1. CASE UNCHANGED vars
  BY <1>1, RefreshSteps DEF LoaderInv, TypeOK, vars, refreshVars
<1>2. CASE LoaderStep
  BY <1>2, CallsInvariant, DetachInvariant, AttachXDPInvariant, XDPOthersInvariant,
     FindTCInvariant, MissTCInvariant, AddTCInvariant DEF LoaderStep
<1>3. CASE Environment
  BY <1>3, InterfaceInvariant, OtherToolInvariant, RestartInvariant, CallsInvariant
     DEF Environment
<1>4. QED
  BY <1>1, <1>2, <1>3 DEF Next

----------------------------------------------------------------------------
(* The inductive invariant holds in every reachable state.                 *)
THEOREM LoaderInvariant == Spec => []LoaderInv
<1>1. Init => LoaderInv
  BY InitInvariant
<1>2. LoaderInv /\ [Next]_vars => LoaderInv'
  BY StepInvariant
<1>3. QED
  BY <1>1, <1>2, PTL DEF Spec

(* Every variable of the loader keeps its type; the handle of a filter is  *)
(* one of those nextFilterHandle searches.                                 *)
THEOREM LoaderTypes == Spec => []TypeOK
<1>1. LoaderInv => TypeOK
  BY DEF LoaderInv
<1>2. QED
  BY <1>1, LoaderInvariant, PTL

(* No interface ever runs two transit_egress programs (AttachTC,           *)
(* clsActHasOurs), however restarts, removals and new incarnations fall    *)
(* between its calls.                                                      *)
THEOREM OneProgramOnEach == Spec => []OneProgramEach
<1>1. LoaderInv => OneProgramEach
  <2> SUFFICES ASSUME LoaderInv, NEW i \in Ifaces
               PROVE  Cardinality({f \in On(i) : f.prog # "other"}) <= 1
    BY DEF OneProgramEach
  <2> DEFINE S == {f \in On(i) : f.prog # "other"}
  <2>1. \A f, g \in S : f = g
    BY DEF LoaderInv, TypeOK, Single, On, Ours, Filter
  <2> HIDE DEF S
  <2>2. Cardinality(S) <= 1
    BY <2>1, AtMostOne
  <2>3. QED
    BY <2>2 DEF S
<1>2. QED
  BY <1>1, LoaderInvariant, PTL

(* What this process runs it can close, and it holds one handle for an     *)
(* interface (links, tcLinks).                                             *)
THEOREM HandlesAlwaysMatch == Spec => []HandlesMatchKernel
<1>1. LoaderInv => HandlesMatchKernel
  <2> SUFFICES ASSUME LoaderInv
               PROVE  HandlesMatchKernel
    OBVIOUS
  <2>1. ASSUME NEW i \in Ifaces
        PROVE  Cardinality({l \in tcLinks : l.iface = i}) <= 1
    <3> DEFINE S == {l \in tcLinks : l.iface = i}
    <3>1. \A l, m \in S : l = m
      BY DEF LoaderInv, Recorded
    <3> HIDE DEF S
    <3>2. Cardinality(S) <= 1
      BY <3>1, AtMostOne
    <3>3. QED
      BY <3>2 DEF S
  <2>2. ASSUME NEW i \in Ifaces
        PROVE  Cardinality({l \in xdpLinks : l.iface = i}) <= 1
    <3> DEFINE S == {l \in xdpLinks : l.iface = i}
    <3>1. \A l, m \in S : l = m
      BY DEF LoaderInv, RecordedXDP
    <3> HIDE DEF S
    <3>2. Cardinality(S) <= 1
      BY <3>1, AtMostOne
    <3>3. QED
      BY <3>2 DEF S
  <2>3. QED
    BY <2>1, <2>2 DEF LoaderInv, Recorded, RecordedXDP, Link, HandlesMatchKernel
<1>2. QED
  BY <1>1, LoaderInvariant, PTL

(* After the first refresh no step of the loader removes the filter of an  *)
(* earlier process: dropStaleTC only gets to an interface without one.     *)
THEOREM AdoptedForever == Spec => AdoptedForGood
<1> DEFINE Step == <<pc, todo, adding>>' # <<pc, todo, adding>> /\ pc # "detach" /\ pc' # "boot" =>
                     {f \in filters : f.prog = "stale"} \subseteq filters'
<1>1. [Next]_vars => [Step]_vars
  <2> SUFFICES ASSUME Next, <<pc, todo, adding>>' # <<pc, todo, adding>>, pc # "detach",
                      pc' # "boot", NEW f \in filters, f.prog = "stale"
               PROVE  f \in filters'
    OBVIOUS
  <2>1. ~ Environment
    BY DEF Environment, Vanish, Appear, OtherXDP, OtherFilter, FilterRemoved, KernelMoves,
           DaemonRestart, Settle, refreshVars
  <2>2. CASE \E i \in Ifaces : MissTC(i)
    <3>1. PICK i \in Ifaces : MissTC(i)
      BY <2>2
    <3>2. f \notin On(i)
      BY <3>1 DEF MissTC, Present, Ours
    <3>3. \A l \in Dropped(i) : l.iface # f.iface
      BY <3>2 DEF Dropped, On
    <3>4. QED
      BY <3>1, <3>3 DEF MissTC
  <2>3. CASE ~ \E i \in Ifaces : MissTC(i)
    BY <2>1, <2>3 DEF Next, LoaderStep, Start, Refresh, DetachStaleTC, AttachXDP, XDPBusy,
       XDPSkips, VisitXDP, FindTC, AddTC, AttachTCFails, NextCall, kernelVars
  <2>4. QED
    BY <2>2, <2>3
<1>2. QED
  BY <1>1, PTL DEF Spec, AdoptedForGood

(* The filters of other tools are told apart by their handles.             *)
OtherHandled == \A f \in filters : f.prog = "other" => f.handle \in OtherHandles

(* The loader adds filters of its own only, and a restart keeps the others. *)
LEMMA OtherHandledNext == OtherHandled /\ [Next]_vars => OtherHandled'
<1>. SUFFICES ASSUME OtherHandled, [Next]_vars
              PROVE  OtherHandled'
  OBVIOUS
<1>1. CASE filters' \subseteq filters
  BY <1>1 DEF OtherHandled
<1>2. CASE AddTC
  BY <1>2 DEF AddTC, OtherHandled
<1>3. CASE \E i \in Ifaces, h \in OtherHandles : OtherFilter(i, h)
  BY <1>3 DEF OtherFilter, OtherHandled
<1>4. CASE DaemonRestart
  <2>1. filters' = {[f EXCEPT !.prog = IF @ = "mine" THEN "stale" ELSE @] : f \in filters}
    BY <1>4 DEF DaemonRestart
  <2>2. ASSUME NEW g \in filters', g.prog = "other"
        PROVE  g.handle \in OtherHandles
    <3>1. PICK f \in filters : g = [f EXCEPT !.prog = IF @ = "mine" THEN "stale" ELSE @]
      BY <2>1
    <3>2. f.prog = "other" /\ g.handle = f.handle
      BY <2>2, <3>1
    <3>. QED  BY <3>2 DEF OtherHandled
  <2>. QED  BY <2>2 DEF OtherHandled
<1>. QED
  BY <1>1, <1>2, <1>3, <1>4
     DEF Next, LoaderStep, Environment, Start, Refresh, DetachStaleTC, AttachXDP, XDPBusy, XDPSkips,
         VisitXDP, FindTC, MissTC, AttachTCFails, NextCall, Vanish, Appear, OtherXDP, FilterRemoved,
         KernelMoves, Settle, kernelVars, vars

(* No step of the loader removes a filter of another tool (DetachStaleTC   *)
(* goes by the name of the program, dropStaleTC by the handle it recorded),*)
(* as long as other tools take no handle that nextFilterHandle searches.   *)
THEOREM OthersStay ==
    ASSUME OtherHandles \cap Handles = {}
    PROVE  Spec => OthersUntouched
<1>. DEFINE Step == <<pc, todo, adding>>' # <<pc, todo, adding>> /\ pc' # "boot" =>
                        {f \in filters : f.prog = "other"} \subseteq filters'
<1>1. Init => OtherHandled
  BY DEF Init, OtherHandled
<1>2. TypeOK /\ OtherHandled /\ [Next]_vars => [Step]_vars
  <2>. SUFFICES ASSUME TypeOK, OtherHandled, Next, <<pc, todo, adding>>' # <<pc, todo, adding>>,
                       pc' # "boot", NEW f \in filters, f.prog = "other"
                PROVE  f \in filters'
    OBVIOUS
  <2>1. ~ Environment
    BY DEF Environment, Vanish, Appear, OtherXDP, OtherFilter, FilterRemoved, KernelMoves,
           DaemonRestart, Settle, refreshVars
  <2>2. CASE \E i \in Ifaces : MissTC(i)
    <3>1. PICK i \in Ifaces : MissTC(i)
      BY <2>2
    <3>2. \A l \in Dropped(i) : l.handle # f.handle
      BY DEF Dropped, TypeOK, OtherHandled
    <3>. QED  BY <3>1, <3>2 DEF MissTC
  <2>3. CASE ~ \E i \in Ifaces : MissTC(i)
    BY <2>1, <2>3 DEF Next, LoaderStep, Start, Refresh, DetachStaleTC, AttachXDP, XDPBusy, Ours,
       XDPSkips, VisitXDP, FindTC, AddTC, AttachTCFails, NextCall, kernelVars
  <2>. QED  BY <2>2, <2>3
<1>. QED  BY <1>1, <1>2, OtherHandledNext, LoaderTypes, PTL DEF Spec, OthersUntouched
=============================================================================

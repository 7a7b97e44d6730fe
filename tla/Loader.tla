------------------------------- MODULE Loader -------------------------------
(***************************************************************************)
(* Package internal/loader as the daemon drives it: on every topology      *)
(* refresh, DetachStaleTC (once per process), AttachXDP and AttachTC visit *)
(* the interfaces of the underlay.                                         *)
(*                                                                         *)
(* Around the loader interfaces vanish and are recreated under a new       *)
(* ifindex (the kernel drops their programs), other tools add and remove   *)
(* programs of their own, somebody may remove ours, and the daemon dies    *)
(* without calling Close.  TC filters outlive the process, XDP links do    *)
(* not.                                                                    *)
(*                                                                         *)
(* An ifindex is the number of the incarnation of its interface.  Handle h *)
(* stands for filterHandleBase + h - 1.  A filter is "mine" if      *)
(* this process loaded it, "stale" if an earlier one did: it still runs,   *)
(* on maps nobody reads any more.                                          *)
(***************************************************************************)
EXTENDS Naturals, FiniteSets, FiniteSetsExt

CONSTANTS
    Ifaces,
    Unstable,       \* bound: those recreated, or used by other tools as well
    MaxHandle,      \* handles nextFilterHandle searches
    OtherHandles,   \* handles other tools take on the clsact qdisc
    MaxIndex,       \* bound: incarnations of an interface
    MayFail,        \* whether kernel calls may fail
    NoIface

ASSUME HandleAssumption ==
    /\ Unstable \subseteq Ifaces
    /\ MaxHandle \in Nat /\ MaxHandle > 1
    /\ OtherHandles \subseteq Nat
    /\ MaxIndex \in Nat \ {0}
    /\ MayFail \in BOOLEAN
    /\ NoIface \notin Ifaces

Handles == 1 .. MaxHandle
Indexes == 1 .. MaxIndex
Gone == 0

Filter == [iface : Ifaces, handle : Handles \cup OtherHandles, prog : {"mine", "stale", "other"}]

VARIABLES
    \* the kernel
    index,       \* interface -> ifindex, Gone when there is no such interface
    lastIndex,   \* interface -> the last ifindex it had
    filters,     \* the clsact egress filters of the interfaces there are
    xdp,         \* interface -> whose XDP program runs on it
    \* the daemon
    pc,          \* what the refresh is doing
    underlay,    \* interfaces of cachedUnderlay
    todo,        \* those the current call has not visited yet
    adding,      \* the interface attachClsActEgress was called for
    cleaned,     \* tcDoneStaleCleanup
    tcLinks, tcKnown,      \* tcLinks, tcAttachedIfaces
    xdpLinks, xdpKnown,    \* links, attachedIfaces
    \* history
    calm         \* the interfaces are stable and calls succeed from here on

kernelVars == <<index, lastIndex, filters, xdp>>
tcVars == <<tcLinks, tcKnown>>
xdpVars == <<xdpLinks, xdpKnown>>
refreshVars == <<pc, underlay, todo, adding, cleaned>>
vars == <<kernelVars, refreshVars, tcVars, xdpVars, calm>>

NotAdding == [iface |-> NoIface, idx |-> Gone]
Unknown == [idx |-> Gone, ours |-> FALSE]

TypeOK ==
    /\ index \in [Ifaces -> Indexes \cup {Gone}]
    /\ lastIndex \in [Ifaces -> Indexes \cup {Gone}]
    /\ filters \subseteq Filter
    /\ xdp \in [Ifaces -> {"none", "mine", "other"}]
    /\ pc \in {"boot", "startup", "idle", "detach", "xdp", "tc"}
    /\ underlay \subseteq Ifaces /\ todo \subseteq Ifaces
    /\ adding \in [iface : Ifaces \cup {NoIface}, idx : Indexes \cup {Gone}]
    /\ cleaned \in BOOLEAN /\ calm \in BOOLEAN
    /\ tcLinks \subseteq [iface : Ifaces, idx : Indexes, handle : Handles]
    /\ tcKnown \in [Ifaces -> Indexes \cup {Gone}]
    /\ xdpLinks \subseteq [iface : Ifaces, idx : Indexes]
    /\ xdpKnown \in [Ifaces -> [idx : Indexes \cup {Gone}, ours : BOOLEAN]]

Exists(i) == index[i] # Gone
On(i) == {f \in filters : f.iface = i}
Fails == MayFail /\ ~ calm

(* Mutation: every filter on the qdisc is taken for one of ours.           *)
OursAll(f) == TRUE

(* isOurs, which goes by the program name.                                 *)
Ours(f) == f.prog \in {"mine", "stale"}

(* Mutation: a record for this ifindex is believed without a look.         *)
PresentByRecord(i) == tcKnown[i] = index[i] \/ \E f \in On(i) : Ours(f)

(* Mutation: a filter counts only if it runs the program just loaded.      *)
PresentById(i) == \E f \in On(i) : f.prog = "mine"

(* clsActHasOurs                                                           *)
Present(i) == \E f \in On(i) : Ours(f)

(* Mutation: the kernel is left to choose the handle.                      *)
nextFilterHandleZero(i) == 0

FreeHandles(i) == Handles \ {f.handle : f \in On(i)}

nextFilterHandle(i) == Min(FreeHandles(i))

----------------------------------------------------------------------------
(* Interfaces may carry the filter of an earlier process.                  *)
Init ==
    /\ index \in [Ifaces -> {Gone, 1}]
    /\ \A i \in Ifaces \ Unstable : Exists(i)
    /\ lastIndex = index
    /\ filters \in SUBSET [iface : {i \in Ifaces : Exists(i)}, handle : {1}, prog : {"stale"}]
    /\ xdp = [i \in Ifaces |-> "none"]
    /\ pc = "boot"
    /\ underlay = {} /\ todo = {} /\ adding = NotAdding
    /\ cleaned = FALSE
    /\ tcLinks = {} /\ tcKnown = [i \in Ifaces |-> Gone]
    /\ xdpLinks = {} /\ xdpKnown = [i \in Ifaces |-> Unknown]
    /\ calm = FALSE

----------------------------------------------------------------------------
(* The daemon starts; discoverGatewayIfaces may find interfaces for XDP.   *)
Start(found) ==
    /\ pc = "boot"
    /\ todo' = found
    /\ pc' = "startup"
    /\ UNCHANGED <<kernelVars, underlay, adding, cleaned, tcVars, xdpVars, calm>>

(* A topology refresh with a non-empty underlay.                           *)
Refresh(u) ==
    /\ pc = "idle"
    /\ u # {}
    /\ calm => u = underlay
    /\ underlay' = u /\ todo' = u
    /\ pc' = IF cleaned THEN "xdp" ELSE "detach"
    /\ cleaned' = TRUE
    /\ UNCHANGED <<kernelVars, adding, tcVars, xdpVars, calm>>

(* DetachStaleTC, for one interface.  Failures are logged.                 *)
DetachStaleTC(i) ==
    /\ pc = "detach"
    /\ i \in todo
    /\ todo' = todo \ {i}
    /\ \E kept \in SUBSET {f \in On(i) : Ours(f)} :
         /\ kept # {} => Fails
         /\ filters' = filters \ {f \in On(i) \ kept : Ours(f)}
    /\ UNCHANGED <<index, lastIndex, xdp, pc, underlay, adding, cleaned, tcVars, xdpVars, calm>>

(* One call is through with its interfaces, the next one begins.           *)
NextCall ==
    /\ todo = {} /\ pc \in {"startup", "detach", "xdp", "tc"}
    /\ adding = NotAdding
    /\ pc' = CASE pc = "detach" -> "xdp" [] pc = "xdp" -> "tc" [] OTHER -> "idle"
    /\ todo' = IF pc \in {"detach", "xdp"} THEN underlay ELSE {}
    /\ UNCHANGED <<kernelVars, underlay, adding, cleaned, tcVars, xdpVars, calm>>

----------------------------------------------------------------------------
(* AttachXDP, for one interface.                                           *)
VisitXDP(i) ==
    /\ pc \in {"startup", "xdp"}
    /\ i \in todo
    /\ todo' = todo \ {i}
    /\ UNCHANGED <<index, lastIndex, filters, pc, underlay, adding, cleaned, tcVars, calm>>

AttachXDP(i) ==
    /\ VisitXDP(i)
    /\ Exists(i) /\ xdp[i] = "none"
    /\ xdp' = [xdp EXCEPT ![i] = "mine"]
    /\ xdpLinks' = {l \in xdpLinks : l.iface # i} \cup {[iface |-> i, idx |-> index[i]]}
    /\ xdpKnown' = [xdpKnown EXCEPT ![i] = [idx |-> index[i], ours |-> TRUE]]

(* EBUSY: ours if it was attached under this ifindex, and otherwise        *)
(* recorded as somebody else's.                                            *)
XDPBusy(i) ==
    /\ VisitXDP(i)
    /\ Exists(i) /\ xdp[i] # "none"
    /\ xdpKnown' = IF xdpKnown[i].idx = index[i] THEN xdpKnown
                   ELSE [xdpKnown EXCEPT ![i] = [idx |-> index[i], ours |-> FALSE]]
    /\ UNCHANGED <<xdp, xdpLinks>>

XDPSkips(i) ==
    /\ VisitXDP(i)
    /\ Fails \/ ~ Exists(i)
    /\ UNCHANGED <<xdp, xdpVars>>

----------------------------------------------------------------------------
(* AttachTC, for one interface.                                            *)

(* The filter is there, of this process or adopted from an earlier one.    *)
FindTC(i) ==
    /\ pc = "tc" /\ adding = NotAdding
    /\ i \in todo
    /\ Exists(i) /\ Present(i)
    /\ todo' = todo \ {i}
    /\ tcKnown' = [tcKnown EXCEPT ![i] = index[i]]
    /\ UNCHANGED <<kernelVars, pc, underlay, adding, cleaned, tcLinks, xdpVars, calm>>

(* Mutation: dropStaleTC keeps the records it should drop.                 *)
DroppedOthers(i) == {l \in tcLinks : l.iface # i}

Dropped(i) == {l \in tcLinks : l.iface = i}

(* Mutation: what an earlier process left is replaced.                     *)
MissTCOrStale(i) ==
    /\ pc = "tc" /\ adding = NotAdding
    /\ i \in todo
    /\ Exists(i) /\ ~ PresentById(i)
    /\ adding' = [iface |-> i, idx |-> index[i]]
    /\ tcLinks' = tcLinks \ Dropped(i)
    /\ filters' = filters \ {f \in On(i) : Ours(f)}
    /\ UNCHANGED <<index, lastIndex, xdp, pc, underlay, todo, cleaned, tcKnown, xdpVars, calm>>

(* It is not: dropStaleTC closes the records of the interface, which goes  *)
(* by ifindex and handle, and attachClsActEgress is called.                *)
MissTC(i) ==
    /\ pc = "tc" /\ adding = NotAdding
    /\ i \in todo
    /\ Exists(i) /\ ~ Present(i)
    /\ adding' = [iface |-> i, idx |-> index[i]]
    /\ tcLinks' = tcLinks \ Dropped(i)
    /\ filters' = {f \in filters :
         ~ \E l \in Dropped(i) : l.iface = f.iface /\ l.idx = index[i] /\ l.handle = f.handle}
    /\ UNCHANGED <<index, lastIndex, xdp, pc, underlay, todo, cleaned, tcKnown, xdpVars, calm>>

(* The interface is looked up again; the record keeps the first ifindex.   *)
AddTC ==
    /\ adding # NotAdding
    /\ LET i == adding.iface
           h == nextFilterHandle(i)
       IN  /\ Exists(i) /\ FreeHandles(i) # {}
           /\ filters' = filters \cup {[iface |-> i, handle |-> h, prog |-> "mine"]}
           /\ tcLinks' = tcLinks \cup {[iface |-> i, idx |-> index[i], handle |-> h]}
           /\ tcKnown' = [tcKnown EXCEPT ![i] = adding.idx]
           /\ todo' = todo \ {i}
    /\ adding' = NotAdding
    /\ UNCHANGED <<index, lastIndex, xdp, pc, underlay, cleaned, xdpVars, calm>>

(* AttachTC gives up at the first interface that fails: the others wait    *)
(* for the next refresh.                                                   *)
AttachTCFails ==
    /\ pc = "tc"
    /\ IF adding = NotAdding
       THEN \E i \in todo : Fails \/ ~ Exists(i)
       ELSE Fails \/ ~ Exists(adding.iface) \/ FreeHandles(adding.iface) = {}
    /\ todo' = {} /\ adding' = NotAdding
    /\ pc' = "idle"
    /\ UNCHANGED <<kernelVars, underlay, cleaned, tcVars, xdpVars, calm>>

----------------------------------------------------------------------------
(* Around the loader.                                                      *)
KernelMoves ==
    /\ ~ calm
    /\ UNCHANGED <<refreshVars, tcVars, xdpVars, calm>>

(* An interface goes, with all that was attached to it...                  *)
Vanish(i) ==
    /\ KernelMoves
    /\ i \in Unstable /\ Exists(i)
    /\ index' = [index EXCEPT ![i] = Gone]
    /\ filters' = filters \ On(i)
    /\ xdp' = [xdp EXCEPT ![i] = "none"]
    /\ UNCHANGED lastIndex

(* ... and comes back under a new ifindex.                                 *)
Appear(i) ==
    /\ KernelMoves
    /\ ~ Exists(i) /\ lastIndex[i] < MaxIndex
    /\ index' = [index EXCEPT ![i] = lastIndex[i] + 1]
    /\ lastIndex' = [lastIndex EXCEPT ![i] = @ + 1]
    /\ UNCHANGED <<filters, xdp>>

(* Another tool adds a filter to the qdisc, or somebody removes one.       *)
OtherFilter(i, h) ==
    /\ KernelMoves
    /\ i \in Unstable /\ Exists(i)
    /\ \A f \in On(i) : f.handle # h
    /\ filters' = filters \cup {[iface |-> i, handle |-> h, prog |-> "other"]}
    /\ UNCHANGED <<index, lastIndex, xdp>>

FilterRemoved(f) ==
    /\ KernelMoves
    /\ filters' = filters \ {f}
    /\ UNCHANGED <<index, lastIndex, xdp>>

(* Another tool attaches its XDP program, or detaches it.                  *)
OtherXDP(i) ==
    /\ KernelMoves
    /\ i \in Unstable /\ Exists(i) /\ xdp[i] # "mine"
    /\ xdp' = [xdp EXCEPT ![i] = IF @ = "none" THEN "other" ELSE "none"]
    /\ UNCHANGED <<index, lastIndex, filters>>

(* The daemon dies without calling Close: the kernel closes its XDP links, *)
(* its TC filters stay.                                                    *)
DaemonRestart ==
    /\ ~ calm
    /\ filters' = {[f EXCEPT !.prog = IF @ = "mine" THEN "stale" ELSE @] : f \in filters}
    /\ xdp' = [i \in Ifaces |-> IF xdp[i] = "mine" THEN "none" ELSE xdp[i]]
    /\ pc' = "boot"
    /\ underlay' = {} /\ todo' = {} /\ adding' = NotAdding
    /\ cleaned' = FALSE
    /\ tcLinks' = {} /\ tcKnown' = [i \in Ifaces |-> Gone]
    /\ xdpLinks' = {} /\ xdpKnown' = [i \in Ifaces |-> Unknown]
    /\ UNCHANGED <<index, lastIndex, calm>>

(* From here on the interfaces of the underlay stay and calls succeed.     *)
Settle ==
    /\ pc = "idle" /\ underlay # {}
    /\ \A i \in underlay : Exists(i)
    /\ calm' = TRUE
    /\ UNCHANGED <<kernelVars, refreshVars, tcVars, xdpVars>>

LoaderStep ==
    \/ \E found \in SUBSET Ifaces : Start(found)
    \/ \E u \in SUBSET Ifaces : Refresh(u)
    \/ \E i \in Ifaces :
         \/ DetachStaleTC(i)
         \/ AttachXDP(i) \/ XDPBusy(i) \/ XDPSkips(i)
         \/ FindTC(i) \/ MissTC(i)
    \/ AddTC \/ AttachTCFails
    \/ NextCall

Environment ==
    \/ \E i \in Ifaces : Vanish(i) \/ Appear(i) \/ OtherXDP(i)
    \/ \E i \in Ifaces, h \in OtherHandles : OtherFilter(i, h)
    \/ \E f \in filters : FilterRemoved(f)
    \/ DaemonRestart
    \/ Settle

Next == LoaderStep \/ Environment

Spec == Init /\ [][Next]_vars

(* The loop refreshes for ever and every call returns.                     *)
FairSpec == Spec /\ WF_vars(LoaderStep)
----------------------------------------------------------------------------
(* What the loader promises.                                               *)

(* At most one transit_egress runs on an interface, however the refreshes  *)
(* interleave with restarts, interfaces that are recreated and filters     *)
(* that are removed.  A second one of the same process would count every   *)
(* segment the first one counted as its retransmission.                    *)
OneProgramEach == \A i \in Ifaces : Cardinality({f \in On(i) : f.prog # "other"}) <= 1

(* Each program of this process that runs has a handle by which it can be  *)
(* closed, and no interface has more than one: the handles of recreated    *)
(* interfaces do not pile up.                                              *)
HandlesMatchKernel ==
    /\ \A f \in filters : f.prog = "mine" =>
         [iface |-> f.iface, idx |-> index[f.iface], handle |-> f.handle] \in tcLinks
    /\ \A i \in Ifaces : xdp[i] = "mine" => [iface |-> i, idx |-> index[i]] \in xdpLinks
    /\ \A i \in Ifaces : Cardinality({l \in tcLinks : l.iface = i}) <= 1
    /\ \A i \in Ifaces : Cardinality({l \in xdpLinks : l.iface = i}) <= 1

(* The loader never removes the filter of another tool from the qdisc it   *)
(* shares with it.                                                         *)
OthersUntouched ==
    [][<<pc, todo, adding>>' # <<pc, todo, adding>> /\ pc' # "boot" =>
          {f \in filters : f.prog = "other"} \subseteq filters']_vars

(* Once interfaces are stable and calls succeed, every interface of the    *)
(* underlay ends up with a transit_egress and keeps it, although it was    *)
(* recreated, or its filter removed, after it had been attached.           *)
Attaches == calm ~> [](\A i \in underlay : \E f \in On(i) : f.prog # "other")

(* Of the programs of an earlier process only the first refresh rids an    *)
(* interface: one that is found later is taken for ours, and no refresh    *)
(* replaces it although nobody reads its maps.                             *)
AdoptedForGood ==
    [][<<pc, todo, adding>>' # <<pc, todo, adding>> /\ pc # "detach" /\ pc' # "boot" =>
          {f \in filters : f.prog = "stale"} \subseteq filters']_vars
=============================================================================

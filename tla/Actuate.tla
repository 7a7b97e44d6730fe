------------------------------ MODULE Actuate ------------------------------
(***************************************************************************)
(* Package internal/actuate: the vtysh scripts of SetNeighborTiers,        *)
(* RemoveNeighborTiers and NormalizeApplied, run line by line against the  *)
(* running-config of FRR.                                                  *)
(*                                                                         *)
(* vtysh stops at the first command that fails, so any prefix of a script  *)
(* may be what FRR is left with; the daemon may die at any line; FRR may   *)
(* restart (nothing is written to memory) and a binding may be lost.  One  *)
(* action is one line that changes the running-config.                     *)
(*                                                                         *)
(* Abstractions.  Slot k stands for sequence (k+1)*slotStep; LastSlot is   *)
(* the last one below catchAllSeq (6553 in the code), and CatchAll stands  *)
(* for catchAllSeq.  The route-map PATHPROFILER-<slug of n> is identified  *)
(* with n, PATHPROFILER-SCOPE-<slug of p> with p.  LegacyMaps are maps of  *)
(* an older daemon under other names.  Any command may be refused; that a  *)
(* sequence above 65535 is, is the guard of DeclareSlot.                   *)
(***************************************************************************)
EXTENDS Integers, Sequences

CONSTANTS
    Neighbors, Prefixes, Tiers,
    LegacyMaps,     \* route-maps bound by an older daemon
    MinSlots,       \* minSlots
    LastSlot,       \* last slot whose sequence is below catchAllSeq
    MaxPrefs,       \* bound: prefixes in one update
    Never,          \* the prefix-list PATHPROFILER-NEVER
    NoMatch,        \* a sequence without a match clause
    NoSet,          \* a sequence without a set clause
    Absent,         \* a sequence that is not defined
    NoOne,          \* no call in progress
    Pass, Unbound, Idle, Boot     \* outcomes and calls of TierStore

ASSUME SlotAssumption ==
    /\ MinSlots \in Nat \ {0}
    /\ LastSlot \in Nat
    /\ MaxPrefs \in Nat

ASSUME NameAssumption ==
    /\ Never \notin Prefixes
    /\ NoMatch \notin Prefixes \cup {Never}
    /\ NoSet \notin Tiers
    /\ Pass \notin Tiers
    /\ NoOne \notin Neighbors
    /\ Neighbors \cap LegacyMaps = {}
    /\ Unbound \notin Neighbors \cup LegacyMaps
    /\ \A f \in [Prefixes -> Tiers \cup {Pass}] : f # Unbound

Maps == Neighbors \cup LegacyMaps
Lists == Prefixes \cup {Never}
Slots == 1 .. LastSlot
CatchAll == LastSlot + 1
Seqs == 1 .. CatchAll

Clause == [match : Lists \cup {NoMatch}, pref : Tiers \cup {NoSet}]
Bare == [match |-> NoMatch, pref |-> NoSet]
NoEntries == [s \in Seqs |-> Absent]

ASSUME AbsentAssumption == Absent \notin Clause

PrefixPref == [prefix : Prefixes, pref : Tiers]

(* The updates RankByTier and GroupByNeighbor can produce: one PrefixPref  *)
(* per prefix, in any order (the prefixes come from a map).                *)
NeighborTierUpdate ==
    { u \in UNION { [1 .. len -> PrefixPref] : len \in 1 .. MaxPrefs } :
        \A i, j \in DOMAIN u : u[i].prefix = u[j].prefix => i = j }

----------------------------------------------------------------------------
VARIABLES
    \* FRR's running-config, which survives the daemon
    binding,      \* neighbor -> the inbound route-map it is bound to
    entry,        \* route-map -> sequence -> its clause
    lists,        \* the prefix-lists defined
    \* the daemon
    slotCount,    \* slotCounts: grow-only slot count, 0 when not in the map
    line,         \* the next script line, "idle" between two calls
    nb, prefs, k, \* the update the script was written from, and its loop index
    todo,         \* what NormalizeApplied read: bindings, maps and lists left
    \* history
    clean,        \* NormalizeApplied of this process returned nil
    applied       \* what the last call for a neighbor, if it returned nil, set

frrVars == <<binding, entry, lists>>
callVars == <<line, nb, prefs, k>>
historyVars == <<clean, applied>>
vars == <<frrVars, slotCount, callVars, todo, historyVars>>

NothingToDo == [bind |-> {}, maps |-> {}, lists |-> {}]

SetLines == {"scope", "never", "declare", "match", "set", "catchall", "bind"}
RemoveLines == {"unbind", "delete"}

TypeOK ==
    /\ binding \in [Neighbors -> Maps \cup {Unbound}]
    /\ entry \in [Maps -> [Seqs -> Clause \cup {Absent}]]
    /\ lists \subseteq Lists
    /\ slotCount \in [Neighbors -> Nat]
    /\ line \in SetLines \cup RemoveLines \cup {"idle", "boot", "normalize"}
    /\ nb \in Neighbors \cup {NoOne}
    /\ prefs \in NeighborTierUpdate \cup {<<>>}
    /\ k \in Nat
    /\ todo \in [bind : SUBSET Neighbors, maps : SUBSET Maps, lists : SUBSET Lists]
    /\ clean \in BOOLEAN
    /\ applied \in [Neighbors -> [Prefixes -> Tiers \cup {Pass}] \cup {NoOne}]

----------------------------------------------------------------------------
(* How FRR evaluates a route-map: the first sequence that matches decides. *)
(* A prefix-list that is not defined matches nothing.                      *)
Matches(c, p) == c # Absent /\ (c.match = NoMatch \/ (c.match = p /\ p \in lists))

Decides(m, p, s) ==
    /\ Matches(entry[m][s], p)
    /\ \A e \in Seqs : Matches(entry[m][e], p) => s <= e

Outcome(c) == IF c.pref = NoSet THEN Pass ELSE c.pref

Yields(m, p, o) == \E s \in Seqs : Decides(m, p, s) /\ Outcome(entry[m][s]) = o

(* What the update asks for: unnamed prefixes fall through to catchAllSeq. *)
Wanted(u) ==
    [p \in Prefixes |->
        IF \E i \in DOMAIN u : u[i].prefix = p
        THEN u[CHOOSE i \in DOMAIN u : u[i].prefix = p].pref
        ELSE Pass]

----------------------------------------------------------------------------
(* Initially FRR is empty, or an older daemon left a map of its own layout *)
(* bound to some neighbors; the process has just started.                  *)
LegacyEntries(p, t) ==
    [s \in Seqs |-> IF s = CatchAll THEN Bare
                    ELSE IF s = 1 THEN [match |-> p, pref |-> t] ELSE Absent]

Init ==
    /\ binding \in [Neighbors -> LegacyMaps \cup {Unbound}]
    /\ \E p \in Prefixes, t \in Tiers :
         /\ entry = [m \in Maps |-> IF m \in LegacyMaps THEN LegacyEntries(p, t) ELSE NoEntries]
         /\ lists = IF LegacyMaps = {} THEN {} ELSE {p}
    /\ slotCount = [n \in Neighbors |-> 0]
    /\ line = "boot" /\ nb = NoOne /\ prefs = <<>> /\ k = 0
    /\ todo = NothingToDo
    /\ clean = FALSE
    /\ applied = [n \in Neighbors |-> NoOne]

(* The call returns; with an error if the script did not reach its end.    *)
Return ==
    /\ line' = "idle" /\ nb' = NoOne /\ prefs' = <<>> /\ k' = 0
    /\ todo' = NothingToDo

----------------------------------------------------------------------------
(* SetNeighborTiers(u)                                                     *)

Larger(a, b) == IF a >= b THEN a ELSE b

(* Mutation: the slot count follows the update instead of only growing.    *)
SlotsForUpdate(n, needed) == Larger(needed, MinSlots)

(* slotsFor: at least minSlots, at least needed, never less than before.   *)
SlotsFor(n, needed) == Larger(slotCount[n], Larger(needed, MinSlots))

SetNeighborTiers(n, u) ==
    /\ line = "idle"
    /\ slotCount' = [slotCount EXCEPT ![n] = SlotsFor(n, Len(u))]
    /\ line' = "scope" /\ nb' = n /\ prefs' = u /\ k' = 1
    /\ applied' = [applied EXCEPT ![n] = NoOne]
    /\ UNCHANGED <<frrVars, todo, clean>>

(* ip prefix-list PATHPROFILER-SCOPE-<prefix> seq 5 permit <prefix>        *)
DeclareScope ==
    /\ line = "scope"
    /\ lists' = lists \cup {prefs[k].prefix}
    /\ IF k = Len(prefs) THEN line' = "never" /\ k' = 1
                         ELSE line' = line /\ k' = k + 1
    /\ UNCHANGED <<binding, entry, slotCount, nb, prefs, todo, historyVars>>

(* ip prefix-list PATHPROFILER-NEVER seq 5 permit 192.0.2.1/32             *)
DeclareNever ==
    /\ line = "never"
    /\ lists' = lists \cup {Never}
    /\ line' = "declare"
    /\ UNCHANGED <<binding, entry, slotCount, nb, prefs, k, todo, historyVars>>

Declare(s) ==
    entry' = [entry EXCEPT ![nb][s] = IF @ = Absent THEN Bare ELSE @]

(* route-map <name> permit (k+1)*slotStep: FRR refuses a sequence above    *)
(* 65535, and enters one that exists without changing its clauses.         *)
DeclareSlot ==
    /\ line = "declare"
    /\ k <= LastSlot
    /\ Declare(k)
    /\ line' = "match"
    /\ UNCHANGED <<binding, lists, slotCount, nb, prefs, k, todo, historyVars>>

(* Mutation: no catch-all sequence after the last slot.                    *)
SlotDoneNoCatchAll ==
    IF k = slotCount[nb] THEN line' = "bind" /\ k' = 0
                         ELSE line' = "declare" /\ k' = k + 1

SlotDone ==
    IF k = slotCount[nb] THEN line' = "catchall" /\ k' = 0
                         ELSE line' = "declare" /\ k' = k + 1

(* match ip address prefix-list ..., of the prefix assigned to the slot or *)
(* of the never-matching list.                                             *)
MatchSlot ==
    /\ line = "match"
    /\ entry' = [entry EXCEPT ![nb][k].match = IF k <= Len(prefs) THEN prefs[k].prefix ELSE Never]
    /\ IF k <= Len(prefs) THEN line' = "set" /\ k' = k ELSE SlotDone
    /\ UNCHANGED <<binding, lists, slotCount, nb, prefs, todo, historyVars>>

(* Mutation: the arguments of set local-preference swapped.                *)
SetSlotPrefix ==
    /\ line = "set"
    /\ entry' = [entry EXCEPT ![nb][k].pref = prefs[k].prefix]
    /\ SlotDone
    /\ UNCHANGED <<binding, lists, slotCount, nb, prefs, todo, historyVars>>

(* set local-preference <pref>                                             *)
SetSlot ==
    /\ line = "set"
    /\ entry' = [entry EXCEPT ![nb][k].pref = prefs[k].pref]
    /\ SlotDone
    /\ UNCHANGED <<binding, lists, slotCount, nb, prefs, todo, historyVars>>

DeclareCatchAll ==
    /\ line = "catchall"
    /\ Declare(CatchAll)
    /\ line' = "bind"
    /\ UNCHANGED <<binding, lists, slotCount, nb, prefs, k, todo, historyVars>>

(* neighbor <ip> route-map <name> in; the script ends and nil is returned. *)
Bind ==
    /\ line = "bind"
    /\ binding' = [binding EXCEPT ![nb] = nb]
    /\ applied' = [applied EXCEPT ![nb] = Wanted(prefs)]
    /\ Return
    /\ UNCHANGED <<entry, lists, slotCount, clean>>

----------------------------------------------------------------------------
(* RemoveNeighborTiers(n): the binding goes before the map.                *)

RemoveNeighborTiers(n) ==
    /\ line = "idle"
    /\ line' = "unbind" /\ nb' = n
    /\ applied' = [applied EXCEPT ![n] = NoOne]
    /\ UNCHANGED <<frrVars, slotCount, prefs, k, todo, clean>>

(* Mutation: the no-neighbor line is issued outside router bgp, where it   *)
(* has no effect.                                                          *)
UnbindTopLevel ==
    /\ line = "unbind"
    /\ line' = "delete"
    /\ UNCHANGED <<frrVars, slotCount, nb, prefs, k, todo, historyVars>>

(* no neighbor <ip> route-map <name> in                                    *)
Unbind ==
    /\ line = "unbind"
    /\ binding' = [binding EXCEPT ![nb] = Unbound]
    /\ line' = "delete"
    /\ UNCHANGED <<entry, lists, slotCount, nb, prefs, k, todo, historyVars>>

(* Mutation: the prefix-lists, shared by the neighbors, go with the map.   *)
DeleteMapAndLists ==
    /\ line = "delete"
    /\ entry' = [entry EXCEPT ![nb] = NoEntries]
    /\ lists' = {}
    /\ Return
    /\ UNCHANGED <<binding, slotCount, historyVars>>

(* no route-map <name>, the last line.                                     *)
DeleteMap ==
    /\ line = "delete"
    /\ entry' = [entry EXCEPT ![nb] = NoEntries]
    /\ Return
    /\ UNCHANGED <<binding, lists, slotCount, historyVars>>

----------------------------------------------------------------------------
(* NormalizeApplied(), once per process, before the control loop.          *)

ReadRunningConfig ==
    /\ line = "boot"
    /\ todo' = [bind  |-> {n \in Neighbors : binding[n] # Unbound},
                maps  |-> {m \in Maps : entry[m] # NoEntries} \cup
                          {binding[n] : n \in {x \in Neighbors : binding[x] # Unbound}},
                lists |-> lists]
    /\ line' = "normalize"
    /\ UNCHANGED <<frrVars, slotCount, nb, prefs, k, historyVars>>

NormalizeUnbind(n) ==
    /\ line = "normalize"
    /\ n \in todo.bind
    /\ binding' = [binding EXCEPT ![n] = Unbound]
    /\ todo' = [todo EXCEPT !.bind = @ \ {n}]
    /\ UNCHANGED <<entry, lists, slotCount, callVars, historyVars>>

NormalizeDeleteMap(m) ==
    /\ line = "normalize"
    /\ todo.bind = {}
    /\ m \in todo.maps
    /\ entry' = [entry EXCEPT ![m] = NoEntries]
    /\ todo' = [todo EXCEPT !.maps = @ \ {m}]
    /\ UNCHANGED <<binding, lists, slotCount, callVars, historyVars>>

(* Mutation: the prefix-lists are deleted before the maps.                 *)
NormalizeDeleteListFirst(l) ==
    /\ line = "normalize"
    /\ l \in todo.lists
    /\ lists' = lists \ {l}
    /\ todo' = [todo EXCEPT !.lists = @ \ {l}]
    /\ UNCHANGED <<binding, entry, slotCount, callVars, historyVars>>

NormalizeDeleteList(l) ==
    /\ line = "normalize"
    /\ todo.bind = {} /\ todo.maps = {}
    /\ l \in todo.lists
    /\ lists' = lists \ {l}
    /\ todo' = [todo EXCEPT !.lists = @ \ {l}]
    /\ UNCHANGED <<binding, entry, slotCount, callVars, historyVars>>

NormalizeDone ==
    /\ line = "normalize"
    /\ todo = NothingToDo
    /\ slotCount' = [n \in Neighbors |-> 0]
    /\ clean' = TRUE
    /\ Return
    /\ UNCHANGED <<frrVars, applied>>

(* show running-config or a line of the script fails: logged, non-fatal.   *)
NormalizeFails ==
    /\ line \in {"boot", "normalize"}
    /\ Return
    /\ UNCHANGED <<frrVars, slotCount, historyVars>>

----------------------------------------------------------------------------
(* A command fails: vtysh runs none of those after it, the call returns an *)
(* error.                                                                  *)
CommandFails ==
    /\ line \in SetLines \cup RemoveLines
    /\ Return
    /\ UNCHANGED <<frrVars, slotCount, historyVars>>

(* The daemon dies, with its vtysh, and is started again.                  *)
DaemonRestart ==
    /\ line # "boot"
    /\ line' = "boot" /\ nb' = NoOne /\ prefs' = <<>> /\ k' = 0
    /\ todo' = NothingToDo
    /\ slotCount' = [n \in Neighbors |-> 0]
    /\ clean' = FALSE
    /\ applied' = [n \in Neighbors |-> NoOne]
    /\ UNCHANGED frrVars

(* FRR restarts without the maps: they are never written to memory.        *)
FrrRestart ==
    /\ binding' = [n \in Neighbors |-> Unbound]
    /\ entry' = [m \in Maps |-> NoEntries]
    /\ lists' = {}
    /\ applied' = [n \in Neighbors |-> NoOne]
    /\ IF line \in {"boot", "idle"} THEN UNCHANGED <<callVars, todo>> ELSE Return
    /\ UNCHANGED <<slotCount, clean>>

(* Somebody else unbinds the route-map of n.                               *)
BindingLost(n) ==
    /\ binding[n] # Unbound
    /\ binding' = [binding EXCEPT ![n] = Unbound]
    /\ applied' = [applied EXCEPT ![n] = NoOne]
    /\ UNCHANGED <<entry, lists, slotCount, callVars, todo, clean>>

SetStep ==
    \/ DeclareScope \/ DeclareNever
    \/ DeclareSlot \/ MatchSlot \/ SetSlot
    \/ DeclareCatchAll \/ Bind

RemoveStep == Unbind \/ DeleteMap

NormalizeStep ==
    \/ ReadRunningConfig
    \/ \E n \in Neighbors : NormalizeUnbind(n)
    \/ \E m \in Maps : NormalizeDeleteMap(m)
    \/ \E l \in Lists : NormalizeDeleteList(l)
    \/ NormalizeDone
    \/ NormalizeFails

Next ==
    \/ \E n \in Neighbors, u \in NeighborTierUpdate : SetNeighborTiers(n, u)
    \/ SetStep
    \/ \E n \in Neighbors : RemoveNeighborTiers(n)
    \/ RemoveStep
    \/ NormalizeStep
    \/ CommandFails
    \/ DaemonRestart
    \/ FrrRestart
    \/ \E n \in Neighbors : BindingLost(n)

Spec == Init /\ [][Next]_vars
----------------------------------------------------------------------------
(* What the package promises.                                              *)

(* A neighbor bound to a route-map never has a route rejected by it: some  *)
(* sequence decides for every prefix, at every line of every script, after *)
(* any failure and across restarts (catchAllSeq is declared before the     *)
(* first binding, and deleted only with the whole map).                    *)
NeverDenies ==
    \A n \in Neighbors : binding[n] # Unbound =>
        \A p \in Prefixes : \E o \in Tiers \cup {Pass} : Yields(binding[n], p, o)

(* Nothing is deleted while something references it, first half: a         *)
(* sequence disappears from a map only when no session is bound to the map *)
(* (deleting it under a live session is a use-after-free in FRR).          *)
Vanishes(m) == \E s \in Seqs : entry[m][s] # Absent /\ entry'[m][s] = Absent

NoDeletionWhileBound ==
    [][\A n \in Neighbors :
          binding[n] # Unbound /\ binding'[n] = binding[n] => ~ Vanishes(binding[n])]_vars

(* Second half: every clause matches a prefix-list that exists.  The lists *)
(* are shared by the maps of all the neighbors.                            *)
NoDanglingList ==
    \A m \in Maps, s \in Seqs :
        entry[m][s] # Absent => entry[m][s].match \in lists \cup {NoMatch}

(* When SetNeighborTiers returned nil in a process that started clean, and *)
(* FRR was not touched from outside since, each prefix gets exactly the    *)
(* local-pref of the update, and every other prefix passes unmodified: no  *)
(* slot of an earlier, longer or failed update shows through.              *)
AppliedExactly ==
    \A n \in Neighbors : clean /\ applied[n] # NoOne =>
        binding[n] = n /\ \A p \in Prefixes : Yields(n, p, applied[n][p])

(* The local-pref every prefix gets from a map that never denies.          *)
View ==
    [m \in Maps |-> [p \in Prefixes |-> CHOOSE o \in Tiers \cup {Pass} : Yields(m, p, o)]]

StoreTiers ==
    [n \in Neighbors |-> IF binding[n] = Unbound THEN Unbound ELSE View[binding[n]]]

StoreCall ==
    IF line \in {"boot", "normalize"} THEN Boot
    ELSE IF line = "idle" THEN Idle
    ELSE [nb |-> nb, want |-> IF line \in RemoveLines THEN Unbound ELSE Wanted(prefs)]

Store == INSTANCE TierStore WITH tiers <- StoreTiers, call <- StoreCall, trusted <- clean

(* The scripts implement the abstract store: one neighbor's script never   *)
(* changes what another neighbor gets, a nil return means the request was  *)
(* fulfilled, and NormalizeApplied returns nil only on a clean slate.      *)
ImplementsTierStore == Store!StoreSpec

(* What README.md says of the rewrite: a step of a script that changes     *)
(* what a bound neighbor gets changes it to the whole of the update.       *)
RewrittenAtomically ==
    [][\A n \in Neighbors : line \in SetLines /\ nb = n /\ binding[n] = n /\ binding'[n] = n =>
          \A p \in Prefixes : View'[n][p] # View[n][p] => View'[n] = Wanted(prefs)]_vars
============================================================================

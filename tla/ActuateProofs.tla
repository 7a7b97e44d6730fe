--------------------------- MODULE ActuateProofs ---------------------------
(***************************************************************************)
(* What the scripts of internal/actuate guarantee for every number of      *)
(* neighbors, prefixes, tiers and slots, whichever line they stop at.      *)
(***************************************************************************)
EXTENDS Actuate, TLAPS, WellFoundedInduction

(* A set of natural numbers has a least element.                           *)
LEMMA LeastExists ==
    ASSUME NEW S \in SUBSET Nat, S # {}
    PROVE  \E x \in S : \A y \in S : x <= y
<1>1. PICK x \in S : \A y \in S : ~ (<<y, x>> \in OpToRel(<, Nat))
  BY NatLessThanWellFounded, WFMin
<1>2. \A y \in S : ~ (y < x)
  BY <1>1 DEF OpToRel
<1>3. QED
  BY <1>2

----------------------------------------------------------------------------
(* Where a script is.                                                      *)

CallInv ==
    /\ line \in SetLines \cup RemoveLines => nb \in Neighbors /\ applied[nb] = NoOne
    /\ line \in SetLines => prefs \in NeighborTierUpdate /\ Len(prefs) <= slotCount[nb]
    /\ line = "scope" => k \in 1 .. Len(prefs)
    /\ line = "never" => k = 1
    /\ line \in {"declare", "match", "set"} => k \in 1 .. slotCount[nb]
    /\ line \in {"match", "set"} => k <= LastSlot /\ entry[nb][k] # Absent
    /\ line = "set" => k <= Len(prefs)
    /\ line \in {"catchall", "bind"} => slotCount[nb] <= LastSlot
    /\ line \in {"boot", "normalize"} => ~ clean

Control == TypeOK /\ CallInv

(* What an update is made of.                                              *)
LEMMA UpdateFacts ==
    ASSUME NEW u \in NeighborTierUpdate
    PROVE  /\ Len(u) \in Nat /\ Len(u) >= 1 /\ DOMAIN u = 1 .. Len(u)
           /\ \A i \in 1 .. Len(u) : u[i].prefix \in Prefixes /\ u[i].pref \in Tiers
           /\ \A i, j \in 1 .. Len(u) : u[i].prefix = u[j].prefix => i = j
<1>1. PICK len \in 1 .. MaxPrefs : u \in [1 .. len -> PrefixPref]
  BY DEF NeighborTierUpdate
<1>2. len \in Nat /\ len >= 1
  BY <1>1, SlotAssumption
<1>3. Len(u) = len /\ DOMAIN u = 1 .. len
  BY <1>1, <1>2
<1>4. \A i \in 1 .. len : u[i].prefix \in Prefixes /\ u[i].pref \in Tiers
  BY <1>1 DEF PrefixPref
<1>5. \A i, j \in DOMAIN u : u[i].prefix = u[j].prefix => i = j
  BY DEF NeighborTierUpdate
<1>6. QED
  BY <1>2, <1>3, <1>4, <1>5

(* The slots and the catch-all are sequences.                              *)
LEMMA SlotsAreSeqs ==
    /\ LastSlot \in Nat /\ CatchAll \in Seqs /\ CatchAll \notin Slots
    /\ \A s \in Slots : s \in Seqs /\ s \in Nat
    /\ \A s \in Seqs : s \in Nat /\ (s \in Slots \/ s = CatchAll)
  BY SlotAssumption DEF Slots, CatchAll, Seqs

Table == [Maps -> [Seqs -> Clause \cup {Absent}]]

(* The clauses the scripts write are clauses.                              *)
LEMMA ClausesAreClauses ==
    /\ Bare \in Clause /\ Bare # Absent
    /\ \A l \in Lists, c \in Clause : [match |-> l, pref |-> c.pref] \in Clause
    /\ \A t \in Tiers, c \in Clause : [match |-> c.match, pref |-> t] \in Clause
    /\ NoEntries \in [Seqs -> Clause \cup {Absent}]
  BY AbsentAssumption DEF Bare, Clause, NoEntries

(* What the lines that change a map do to it.                              *)
LEMMA DeclareEffect ==
    ASSUME entry \in Table, nb \in Neighbors, NEW s \in Seqs, Declare(s)
    PROVE  /\ entry' \in Table
           /\ \A m \in Maps, t \in Seqs : m # nb \/ t # s => entry'[m][t] = entry[m][t]
           /\ entry'[nb][s] = IF entry[nb][s] = Absent THEN Bare ELSE entry[nb][s]
<1> DEFINE row == [entry[nb] EXCEPT ![s] = IF entry[nb][s] = Absent THEN Bare ELSE entry[nb][s]]
<1>1. nb \in Maps /\ entry[nb] \in [Seqs -> Clause \cup {Absent}]
  BY DEF Table, Maps
<1>2. row \in [Seqs -> Clause \cup {Absent}]
  BY <1>1, ClausesAreClauses
<1>3. entry' = [entry EXCEPT ![nb] = row]
  BY DEF Declare
<1>4. /\ \A t \in Seqs : t # s => row[t] = entry[nb][t]
      /\ row[s] = IF entry[nb][s] = Absent THEN Bare ELSE entry[nb][s]
  BY <1>1
<1> HIDE DEF row
<1>5. QED
  BY <1>1, <1>2, <1>3, <1>4 DEF Table

(* What a match line changes.                                              *)
LEMMA MatchEffect ==
    ASSUME entry \in Table, nb \in Neighbors, NEW s \in Seqs, entry[nb][s] # Absent, NEW l \in Lists,
           entry' = [entry EXCEPT ![nb][s].match = l]
    PROVE  /\ entry' \in Table
           /\ \A m \in Maps, t \in Seqs : m # nb \/ t # s => entry'[m][t] = entry[m][t]
           /\ entry'[nb][s] = [match |-> l, pref |-> entry[nb][s].pref]
           /\ entry'[nb][s] \in Clause
<1> DEFINE row == [entry[nb] EXCEPT ![s] = [match |-> l, pref |-> entry[nb][s].pref]]
<1>1. nb \in Maps /\ entry[nb] \in [Seqs -> Clause \cup {Absent}] /\ entry[nb][s] \in Clause
  BY DEF Table, Maps
<1>2. [entry[nb][s] EXCEPT !.match = l] = [match |-> l, pref |-> entry[nb][s].pref]
  BY <1>1 DEF Clause
<1>3. [match |-> l, pref |-> entry[nb][s].pref] \in Clause
  BY <1>1, ClausesAreClauses
<1>4. row \in [Seqs -> Clause \cup {Absent}]
  BY <1>1, <1>3
<1>5. entry' = [entry EXCEPT ![nb] = row]
  BY <1>2
<1>6. /\ \A t \in Seqs : t # s => row[t] = entry[nb][t]
      /\ row[s] = [match |-> l, pref |-> entry[nb][s].pref]
  BY <1>1
<1> HIDE DEF row
<1>7. QED
  BY <1>1, <1>3, <1>4, <1>5, <1>6 DEF Table

(* What a set line changes.                                                *)
LEMMA PrefEffect ==
    ASSUME entry \in Table, nb \in Neighbors, NEW s \in Seqs, entry[nb][s] # Absent, NEW t \in Tiers,
           entry' = [entry EXCEPT ![nb][s].pref = t]
    PROVE  /\ entry' \in Table
           /\ \A m \in Maps, r \in Seqs : m # nb \/ r # s => entry'[m][r] = entry[m][r]
           /\ entry'[nb][s] = [match |-> entry[nb][s].match, pref |-> t]
           /\ entry'[nb][s] \in Clause
<1> DEFINE row == [entry[nb] EXCEPT ![s] = [match |-> entry[nb][s].match, pref |-> t]]
<1>1. nb \in Maps /\ entry[nb] \in [Seqs -> Clause \cup {Absent}] /\ entry[nb][s] \in Clause
  BY DEF Table, Maps
<1>2. [entry[nb][s] EXCEPT !.pref = t] = [match |-> entry[nb][s].match, pref |-> t]
  BY <1>1 DEF Clause
<1>3. [match |-> entry[nb][s].match, pref |-> t] \in Clause
  BY <1>1, ClausesAreClauses
<1>4. row \in [Seqs -> Clause \cup {Absent}]
  BY <1>1, <1>3
<1>5. entry' = [entry EXCEPT ![nb] = row]
  BY <1>2
<1>6. /\ \A r \in Seqs : r # s => row[r] = entry[nb][r]
      /\ row[s] = [match |-> entry[nb][s].match, pref |-> t]
  BY <1>1
<1> HIDE DEF row
<1>7. QED
  BY <1>1, <1>3, <1>4, <1>5, <1>6 DEF Table

(* A map is deleted.                                                       *)
LEMMA DeleteEffect ==
    ASSUME entry \in Table, NEW m \in Maps, entry' = [entry EXCEPT ![m] = NoEntries]
    PROVE  /\ entry' \in Table
           /\ \A o \in Maps : o # m => entry'[o] = entry[o]
           /\ entry'[m] = NoEntries /\ \A s \in Seqs : entry'[m][s] = Absent
  BY ClausesAreClauses DEF Table, NoEntries

(* What an update asks for: a tier for each prefix it names, once each.    *)
LEMMA WantedFacts ==
    ASSUME NEW u \in NeighborTierUpdate
    PROVE  /\ Wanted(u) \in [Prefixes -> Tiers \cup {Pass}]
           /\ \A i \in 1 .. Len(u) : Wanted(u)[u[i].prefix] = u[i].pref
           /\ \A p \in Prefixes :
                (\A i \in 1 .. Len(u) : u[i].prefix # p) => Wanted(u)[p] = Pass
<1>1. /\ DOMAIN u = 1 .. Len(u)
      /\ \A i \in 1 .. Len(u) : u[i].prefix \in Prefixes /\ u[i].pref \in Tiers
      /\ \A i, j \in 1 .. Len(u) : u[i].prefix = u[j].prefix => i = j
  BY UpdateFacts
<1>2. ASSUME NEW i \in 1 .. Len(u)
      PROVE  Wanted(u)[u[i].prefix] = u[i].pref
  <2> DEFINE p == u[i].prefix
             j == CHOOSE x \in DOMAIN u : u[x].prefix = p
  <2>1. p \in Prefixes /\ i \in DOMAIN u
    BY <1>1
  <2>2. j \in DOMAIN u /\ u[j].prefix = p
    BY <2>1
  <2>3. Wanted(u)[p] = u[j].pref
    BY <2>1 DEF Wanted
  <2>4. j = i
    BY <1>1, <2>2
  <2>5. QED
    BY <2>3, <2>4
<1>3. ASSUME NEW p \in Prefixes, \A i \in 1 .. Len(u) : u[i].prefix # p
      PROVE  Wanted(u)[p] = Pass
  BY <1>1, <1>3 DEF Wanted
<1>4. ASSUME NEW p \in Prefixes
      PROVE  Wanted(u)[p] \in Tiers \cup {Pass}
  BY <1>1, <1>2, <1>3
<1>5. Wanted(u) = [p \in Prefixes |-> Wanted(u)[p]]
  BY DEF Wanted
<1>6. QED
  BY <1>2, <1>3, <1>4, <1>5

(* Nothing runs when the first process starts.                             *)
LEMMA ControlInit == Init => Control
<1> SUFFICES ASSUME Init
             PROVE  Control
  OBVIOUS
<1>1. entry \in Table
  <2>1. PICK p \in Prefixes, t \in Tiers :
          entry = [m \in Maps |-> IF m \in LegacyMaps THEN LegacyEntries(p, t) ELSE NoEntries]
    BY DEF Init
  <2>2. [match |-> p, pref |-> t] \in Clause
    BY DEF Clause, Lists
  <2>3. LegacyEntries(p, t) \in [Seqs -> Clause \cup {Absent}]
    BY <2>2, ClausesAreClauses DEF LegacyEntries
  <2>4. QED
    BY <2>1, <2>3, ClausesAreClauses DEF Table
<1>2. binding \in [Neighbors -> Maps \cup {Unbound}] /\ lists \subseteq Lists
  BY DEF Init, Maps, Lists
<1>3. TypeOK
  BY <1>1, <1>2 DEF Init, TypeOK, Table, NothingToDo
<1>4. CallInv
  BY DEF Init, CallInv, SetLines, RemoveLines
<1>5. QED
  BY <1>3, <1>4 DEF Control

(* A call that returns, with whatever FRR is left with.                    *)
LEMMA ReturnControl ==
    ASSUME Control, Return, entry' \in Table,
           binding' \in [Neighbors -> Maps \cup {Unbound}], lists' \subseteq Lists,
           slotCount' \in [Neighbors -> Nat], clean' \in BOOLEAN,
           applied' \in [Neighbors -> [Prefixes -> Tiers \cup {Pass}] \cup {NoOne}]
    PROVE  Control'
<1>1. TypeOK'
  BY DEF TypeOK, Return, NothingToDo, Table
<1>2. CallInv'
  BY DEF CallInv, Return, SetLines, RemoveLines
<1>3. QED
  BY <1>1, <1>2 DEF Control

(* A line of SetNeighborTiers that is not its last.                        *)
LEMMA SetLineControl ==
    ASSUME Control, line \in SetLines,
           UNCHANGED <<binding, slotCount, nb, prefs, todo, historyVars>>,
           line' \in SetLines, k' \in Nat, entry' \in Table, lists' \subseteq Lists,
           line' = "scope" => k' \in 1 .. Len(prefs),
           line' = "never" => k' = 1,
           line' \in {"declare", "match", "set"} => k' \in 1 .. slotCount[nb],
           line' \in {"match", "set"} => k' <= LastSlot /\ entry'[nb][k'] # Absent,
           line' = "set" => k' <= Len(prefs),
           line' \in {"catchall", "bind"} => slotCount[nb] <= LastSlot
    PROVE  Control'
<1>1. /\ line' \notin {"boot", "normalize"}
      /\ line' \in SetLines \cup RemoveLines \cup {"idle", "boot", "normalize"}
      /\ nb' = nb /\ prefs' = prefs /\ slotCount' = slotCount /\ applied' = applied
      /\ binding' = binding /\ todo' = todo /\ clean' = clean
  BY DEF SetLines, historyVars
<1>2. TypeOK'
  BY <1>1 DEF Control, TypeOK, Table
<1>3. CallInv'
  BY <1>1 DEF Control, CallInv
<1>4. QED
  BY <1>2, <1>3 DEF Control

(* What the invariant says while the lines of SetNeighborTiers run.        *)
LEMMA ControlFacts ==
    ASSUME Control, line \in SetLines
    PROVE  /\ entry \in Table /\ nb \in Neighbors /\ applied[nb] = NoOne
           /\ prefs \in NeighborTierUpdate
           /\ Len(prefs) \in Nat /\ slotCount[nb] \in Nat
           /\ 1 <= Len(prefs) /\ Len(prefs) <= slotCount[nb]
           /\ k \in Nat /\ lists \subseteq Lists
<1>1. nb \in Neighbors /\ prefs \in NeighborTierUpdate /\ applied[nb] = NoOne
      /\ Len(prefs) <= slotCount[nb]
  BY DEF Control, CallInv
<1>2. Len(prefs) \in Nat /\ 1 <= Len(prefs)
  BY <1>1, UpdateFacts
<1>3. entry \in Table /\ slotCount[nb] \in Nat /\ k \in Nat /\ lists \subseteq Lists
  BY <1>1 DEF Control, TypeOK, Table
<1>4. QED
  BY <1>1, <1>2, <1>3

(* After a slot the script goes on to the next one, or to its end.         *)
LEMMA SlotDoneFacts ==
    ASSUME Control, line \in {"match", "set"}, SlotDone
    PROVE  /\ line' \in {"declare", "catchall"} /\ k' \in Nat
           /\ line' = "declare" => k' = k + 1 /\ k' \in 1 .. slotCount[nb]
           /\ line' = "catchall" => k = slotCount[nb] /\ slotCount[nb] <= LastSlot
<1>1. k \in 1 .. slotCount[nb] /\ k <= LastSlot
  BY DEF Control, CallInv
<1>2. slotCount[nb] \in Nat
  BY ControlFacts DEF SetLines
<1>3. QED
  BY <1>1, <1>2 DEF SlotDone

(* The lines of SetNeighborTiers keep it.                                  *)
LEMMA SetLinesControl ==
    ASSUME Control,
           DeclareScope \/ DeclareNever \/ DeclareSlot \/ MatchSlot \/ SetSlot \/ DeclareCatchAll
    PROVE  Control'
<1>0. line \in SetLines
  BY DEF SetLines, DeclareScope, DeclareNever, DeclareSlot, MatchSlot, SetSlot, DeclareCatchAll
<1>1. /\ entry \in Table /\ nb \in Neighbors /\ prefs \in NeighborTierUpdate
      /\ Len(prefs) \in Nat /\ slotCount[nb] \in Nat
      /\ 1 <= Len(prefs) /\ Len(prefs) <= slotCount[nb]
      /\ k \in Nat /\ lists \subseteq Lists
  BY <1>0, ControlFacts
<1>2. CASE DeclareScope
  <2>1. k \in 1 .. Len(prefs)
    BY <1>2 DEF DeclareScope, Control, CallInv
  <2>2. prefs[k].prefix \in Lists
    BY <1>1, <2>1, UpdateFacts DEF Lists
  <2>3. /\ UNCHANGED <<binding, entry, slotCount, nb, prefs, todo, historyVars>>
        /\ lists' \subseteq Lists
        /\ \/ line' = "never" /\ k' = 1
           \/ line' = "scope" /\ k' = k + 1 /\ k # Len(prefs)
    BY <1>1, <1>2, <2>2 DEF DeclareScope
  <2>4. QED
    BY <1>0, <1>1, <2>1, <2>3, SetLineControl DEF SetLines
<1>3. CASE DeclareNever
  <2>1. /\ UNCHANGED <<binding, entry, slotCount, nb, prefs, k, todo, historyVars>>
        /\ lists' \subseteq Lists /\ line' = "declare" /\ k = 1
    BY <1>1, <1>3 DEF DeclareNever, Lists, Control, CallInv
  <2>2. QED
    BY <1>0, <1>1, <2>1, SetLineControl DEF SetLines
<1>4. CASE DeclareSlot
  <2>1. /\ k \in 1 .. slotCount[nb] /\ k <= LastSlot /\ Declare(k)
        /\ UNCHANGED <<binding, lists, slotCount, nb, prefs, k, todo, historyVars>>
        /\ line' = "match"
    BY <1>4 DEF DeclareSlot, Control, CallInv
  <2>2. k \in Seqs
    BY <1>1, <2>1, SlotsAreSeqs DEF Slots
  <2>3. entry' \in Table /\ entry'[nb][k] # Absent
    BY <1>1, <2>1, <2>2, DeclareEffect, ClausesAreClauses
  <2>4. QED
    BY <1>0, <1>1, <2>1, <2>3, SetLineControl DEF SetLines
<1>5. CASE MatchSlot
  <2> DEFINE l == IF k <= Len(prefs) THEN prefs[k].prefix ELSE Never
  <2>1. /\ k \in 1 .. slotCount[nb] /\ k <= LastSlot /\ entry[nb][k] # Absent
        /\ UNCHANGED <<binding, lists, slotCount, nb, prefs, todo, historyVars>>
        /\ line = "match"
        /\ entry' = [entry EXCEPT ![nb][k].match = l]
    BY <1>5 DEF MatchSlot, Control, CallInv
  <2>2. k \in Seqs
    BY <1>1, <2>1, SlotsAreSeqs DEF Slots
  <2>3. l \in Lists
    BY <1>1, <2>1, UpdateFacts DEF Lists
  <2> HIDE DEF l
  <2>4. /\ entry' \in Table
        /\ entry'[nb][k] = [match |-> l, pref |-> entry[nb][k].pref] /\ entry'[nb][k] \in Clause
    BY <1>1, <2>1, <2>2, <2>3, MatchEffect
  <2>5. entry'[nb][k] # Absent
    BY <2>4, AbsentAssumption
  <2>6. CASE k <= Len(prefs)
    <3>1. line' = "set" /\ k' = k
      BY <1>5, <2>6 DEF MatchSlot
    <3>2. QED
      BY <1>0, <1>1, <2>1, <2>4, <2>5, <2>6, <3>1, SetLineControl DEF SetLines
  <2>7. CASE ~ (k <= Len(prefs))
    <3>1. SlotDone
      BY <1>5, <2>7 DEF MatchSlot
    <3>2. /\ line' \in {"declare", "catchall"} /\ k' \in Nat
          /\ line' = "declare" => k' \in 1 .. slotCount[nb]
          /\ line' = "catchall" => slotCount[nb] <= LastSlot
      BY <2>1, <3>1, SlotDoneFacts
    <3>3. QED
      BY <1>0, <1>1, <2>1, <2>4, <3>2, SetLineControl DEF SetLines
  <2>8. QED
    BY <2>6, <2>7
<1>6. CASE SetSlot
  <2>1. /\ k \in 1 .. slotCount[nb] /\ k <= LastSlot /\ entry[nb][k] # Absent
        /\ k \in 1 .. Len(prefs)
        /\ UNCHANGED <<binding, lists, slotCount, nb, prefs, todo, historyVars>>
        /\ line = "set" /\ SlotDone
        /\ entry' = [entry EXCEPT ![nb][k].pref = prefs[k].pref]
    BY <1>1, <1>6 DEF SetSlot, Control, CallInv
  <2>2. k \in Seqs
    BY <1>1, <2>1, SlotsAreSeqs DEF Slots
  <2>3. prefs[k].pref \in Tiers
    BY <1>1, <2>1, UpdateFacts
  <2>4. entry' \in Table
    BY <1>1, <2>1, <2>2, <2>3, PrefEffect
  <2>5. /\ line' \in {"declare", "catchall"} /\ k' \in Nat
        /\ line' = "declare" => k' \in 1 .. slotCount[nb]
        /\ line' = "catchall" => slotCount[nb] <= LastSlot
    BY <2>1, SlotDoneFacts
  <2>6. QED
    BY <1>0, <1>1, <2>1, <2>4, <2>5, SetLineControl DEF SetLines
<1>7. CASE DeclareCatchAll
  <2>1. /\ line = "catchall" /\ Declare(CatchAll)
        /\ UNCHANGED <<binding, lists, slotCount, nb, prefs, k, todo, historyVars>>
        /\ line' = "bind" /\ slotCount[nb] <= LastSlot
    BY <1>7 DEF DeclareCatchAll, Control, CallInv
  <2>2. entry' \in Table
    BY <1>1, <2>1, SlotsAreSeqs, DeclareEffect
  <2>3. QED
    BY <1>0, <1>1, <2>1, <2>2, SetLineControl DEF SetLines
<1>8. QED
  BY <1>2, <1>3, <1>4, <1>5, <1>6, <1>7

(* Calls, their returns and the lines of RemoveNeighborTiers keep it.      *)
LEMMA CallsControl ==
    ASSUME Control,
           \/ \E n \in Neighbors, u \in NeighborTierUpdate : SetNeighborTiers(n, u)
           \/ Bind
           \/ \E n \in Neighbors : RemoveNeighborTiers(n)
           \/ Unbind \/ DeleteMap \/ CommandFails
    PROVE  Control'
<1>1. /\ TypeOK /\ entry \in Table /\ binding \in [Neighbors -> Maps \cup {Unbound}]
      /\ slotCount \in [Neighbors -> Nat] /\ clean \in BOOLEAN /\ lists \subseteq Lists
      /\ applied \in [Neighbors -> [Prefixes -> Tiers \cup {Pass}] \cup {NoOne}]
  BY DEF Control, TypeOK, Table
<1>2. ASSUME NEW n \in Neighbors, NEW u \in NeighborTierUpdate, SetNeighborTiers(n, u)
      PROVE  Control'
  <2>1. Len(u) \in Nat /\ 1 <= Len(u)
    BY UpdateFacts
  <2>2. SlotsFor(n, Len(u)) \in Nat /\ Len(u) <= SlotsFor(n, Len(u))
    BY <1>1, <2>1, SlotAssumption DEF SlotsFor, Larger
  <2>3. /\ slotCount' = [slotCount EXCEPT ![n] = SlotsFor(n, Len(u))]
        /\ line' = "scope" /\ nb' = n /\ prefs' = u /\ k' = 1
        /\ applied' = [applied EXCEPT ![n] = NoOne]
        /\ UNCHANGED <<frrVars, todo, clean>>
    BY <1>2 DEF SetNeighborTiers
  <2>4. slotCount' \in [Neighbors -> Nat] /\ slotCount'[n] = SlotsFor(n, Len(u))
    BY <1>1, <2>2, <2>3
  <2>5. applied' \in [Neighbors -> [Prefixes -> Tiers \cup {Pass}] \cup {NoOne}] /\ applied'[n] = NoOne
    BY <1>1, <2>3
  <2>6. TypeOK'
    BY <1>1, <2>3, <2>4, <2>5 DEF TypeOK, SetLines, frrVars
  <2>7. CallInv'
    BY <2>1, <2>2, <2>3, <2>4, <2>5 DEF CallInv, SetLines
  <2>8. QED
    BY <2>6, <2>7 DEF Control
<1>3. CASE Bind
  <2>1. line \in SetLines
    BY <1>3 DEF Bind, SetLines
  <2>2. nb \in Neighbors /\ nb \in Maps /\ prefs \in NeighborTierUpdate
    BY <2>1, ControlFacts DEF Maps
  <2>3. Wanted(prefs) \in [Prefixes -> Tiers \cup {Pass}]
    BY <2>2, WantedFacts
  <2>4. /\ binding' \in [Neighbors -> Maps \cup {Unbound}]
        /\ applied' \in [Neighbors -> [Prefixes -> Tiers \cup {Pass}] \cup {NoOne}]
    BY <1>1, <1>3, <2>2, <2>3 DEF Bind
  <2>5. Return /\ UNCHANGED <<entry, lists, slotCount, clean>>
    BY <1>3 DEF Bind
  <2>6. QED
    BY <1>1, <2>4, <2>5, ReturnControl
<1>4. ASSUME NEW n \in Neighbors, RemoveNeighborTiers(n)
      PROVE  Control'
  <2>1. /\ line' = "unbind" /\ nb' = n /\ applied' = [applied EXCEPT ![n] = NoOne]
        /\ UNCHANGED <<frrVars, slotCount, prefs, k, todo, clean>>
    BY <1>4 DEF RemoveNeighborTiers
  <2>2. applied' \in [Neighbors -> [Prefixes -> Tiers \cup {Pass}] \cup {NoOne}] /\ applied'[n] = NoOne
    BY <1>1, <2>1
  <2>3. TypeOK'
    BY <1>1, <2>1, <2>2 DEF TypeOK, RemoveLines, frrVars
  <2>4. CallInv'
    BY <2>1, <2>2 DEF CallInv, SetLines
  <2>5. QED
    BY <2>3, <2>4 DEF Control
<1>5. CASE Unbind
  <2>1. /\ line = "unbind" /\ line' = "delete" /\ nb \in Neighbors /\ applied[nb] = NoOne
        /\ binding' = [binding EXCEPT ![nb] = Unbound]
        /\ UNCHANGED <<entry, lists, slotCount, nb, prefs, k, todo, historyVars>>
    BY <1>5 DEF Unbind, Control, CallInv, RemoveLines
  <2>2. TypeOK'
    BY <1>1, <2>1 DEF TypeOK, RemoveLines, historyVars
  <2>3. CallInv'
    BY <2>1 DEF CallInv, SetLines, historyVars
  <2>4. QED
    BY <2>2, <2>3 DEF Control
<1>6. CASE DeleteMap
  <2>1. nb \in Maps
    BY <1>6 DEF DeleteMap, Control, CallInv, RemoveLines, Maps
  <2>2. entry' \in Table
    BY <1>1, <1>6, <2>1, DeleteEffect DEF DeleteMap
  <2>3. Return /\ UNCHANGED <<binding, lists, slotCount, historyVars>>
    BY <1>6 DEF DeleteMap
  <2>4. QED
    BY <1>1, <2>2, <2>3, ReturnControl DEF historyVars
<1>7. CASE CommandFails
  <2>1. Return /\ UNCHANGED <<frrVars, slotCount, historyVars>>
    BY <1>7 DEF CommandFails
  <2>2. QED
    BY <1>1, <2>1, ReturnControl DEF frrVars, historyVars
<1>8. QED
  BY <1>2, <1>3, <1>4, <1>5, <1>6, <1>7

(* The lines of NormalizeApplied keep it.                                  *)
LEMMA NormalizeControl ==
    ASSUME Control, NormalizeStep
    PROVE  Control'
<1>1. /\ TypeOK /\ entry \in Table /\ binding \in [Neighbors -> Maps \cup {Unbound}]
      /\ slotCount \in [Neighbors -> Nat] /\ clean \in BOOLEAN /\ lists \subseteq Lists
      /\ applied \in [Neighbors -> [Prefixes -> Tiers \cup {Pass}] \cup {NoOne}]
      /\ todo \in [bind : SUBSET Neighbors, maps : SUBSET Maps, lists : SUBSET Lists]
  BY DEF Control, TypeOK, Table
<1>2. ASSUME line \in {"boot", "normalize"}, line' = "normalize",
             binding' \in [Neighbors -> Maps \cup {Unbound}], entry' \in Table, lists' \subseteq Lists,
             todo' \in [bind : SUBSET Neighbors, maps : SUBSET Maps, lists : SUBSET Lists],
             UNCHANGED <<slotCount, nb, prefs, k, historyVars>>
      PROVE  Control'
  <2>1. TypeOK'
    BY <1>1, <1>2 DEF TypeOK, Table, historyVars
  <2>2. CallInv'
    BY <1>2 DEF Control, CallInv, SetLines, RemoveLines, historyVars
  <2>3. QED
    BY <2>1, <2>2 DEF Control
<1>3. CASE ReadRunningConfig
  <2>1. {m \in Maps : entry[m] # NoEntries} \cup
        {binding[n] : n \in {x \in Neighbors : binding[x] # Unbound}} \in SUBSET Maps
    BY <1>1
  <2>2. todo' \in [bind : SUBSET Neighbors, maps : SUBSET Maps, lists : SUBSET Lists]
    BY <1>1, <1>3, <2>1 DEF ReadRunningConfig
  <2>3. line = "boot" /\ line' = "normalize" /\ UNCHANGED <<frrVars, slotCount, nb, prefs, k, historyVars>>
    BY <1>3 DEF ReadRunningConfig
  <2>4. QED
    BY <1>1, <1>2, <2>2, <2>3 DEF frrVars
<1>4. ASSUME NEW n \in Neighbors, NormalizeUnbind(n)
      PROVE  Control'
  <2>1. /\ line = "normalize" /\ binding' = [binding EXCEPT ![n] = Unbound]
        /\ todo' = [todo EXCEPT !.bind = @ \ {n}]
        /\ UNCHANGED <<entry, lists, slotCount, callVars, historyVars>>
    BY <1>4 DEF NormalizeUnbind
  <2>2. /\ binding' \in [Neighbors -> Maps \cup {Unbound}]
        /\ todo' \in [bind : SUBSET Neighbors, maps : SUBSET Maps, lists : SUBSET Lists]
    BY <1>1, <2>1
  <2>3. QED
    BY <1>1, <1>2, <2>1, <2>2 DEF callVars
<1>5. ASSUME NEW m \in Maps, NormalizeDeleteMap(m)
      PROVE  Control'
  <2>1. /\ line = "normalize" /\ entry' = [entry EXCEPT ![m] = NoEntries]
        /\ todo' = [todo EXCEPT !.maps = @ \ {m}]
        /\ UNCHANGED <<binding, lists, slotCount, callVars, historyVars>>
    BY <1>5 DEF NormalizeDeleteMap
  <2>2. entry' \in Table
    BY <1>1, <2>1, DeleteEffect
  <2>3. todo' \in [bind : SUBSET Neighbors, maps : SUBSET Maps, lists : SUBSET Lists]
    BY <1>1, <2>1
  <2>4. QED
    BY <1>1, <1>2, <2>1, <2>2, <2>3 DEF callVars
<1>6. ASSUME NEW l \in Lists, NormalizeDeleteList(l)
      PROVE  Control'
  <2>1. /\ line = "normalize" /\ lists' = lists \ {l}
        /\ todo' = [todo EXCEPT !.lists = @ \ {l}]
        /\ UNCHANGED <<binding, entry, slotCount, callVars, historyVars>>
    BY <1>6 DEF NormalizeDeleteList
  <2>2. todo' \in [bind : SUBSET Neighbors, maps : SUBSET Maps, lists : SUBSET Lists]
    BY <1>1, <2>1
  <2>3. QED
    BY <1>1, <1>2, <2>1, <2>2 DEF callVars
<1>7. CASE NormalizeDone
  <2>1. /\ slotCount' = [n \in Neighbors |-> 0] /\ clean' = TRUE /\ Return
        /\ UNCHANGED <<frrVars, applied>>
    BY <1>7 DEF NormalizeDone
  <2>2. QED
    BY <1>1, <2>1, ReturnControl DEF frrVars
<1>8. CASE NormalizeFails
  <2>1. Return /\ UNCHANGED <<frrVars, slotCount, historyVars>>
    BY <1>8 DEF NormalizeFails
  <2>2. QED
    BY <1>1, <2>1, ReturnControl DEF frrVars, historyVars
<1>9. QED
  BY <1>3, <1>4, <1>5, <1>6, <1>7, <1>8 DEF NormalizeStep

(* Failed lines, restarts and lost bindings keep it.                       *)
LEMMA FaultsControl ==
    ASSUME Control, DaemonRestart \/ FrrRestart \/ \E n \in Neighbors : BindingLost(n)
    PROVE  Control'
<1>1. /\ TypeOK /\ entry \in Table /\ binding \in [Neighbors -> Maps \cup {Unbound}]
      /\ slotCount \in [Neighbors -> Nat] /\ clean \in BOOLEAN /\ lists \subseteq Lists
      /\ applied \in [Neighbors -> [Prefixes -> Tiers \cup {Pass}] \cup {NoOne}]
  BY DEF Control, TypeOK, Table
<1>2. CASE DaemonRestart
  <2>1. /\ line' = "boot" /\ nb' = NoOne /\ prefs' = <<>> /\ k' = 0 /\ todo' = NothingToDo
        /\ slotCount' = [n \in Neighbors |-> 0] /\ clean' = FALSE
        /\ applied' = [n \in Neighbors |-> NoOne]
        /\ UNCHANGED frrVars
    BY <1>2 DEF DaemonRestart
  <2>2. TypeOK'
    BY <1>1, <2>1 DEF TypeOK, NothingToDo, frrVars
  <2>3. CallInv'
    BY <2>1 DEF CallInv, SetLines, RemoveLines
  <2>4. QED
    BY <2>2, <2>3 DEF Control
<1>3. CASE FrrRestart
  <2>1. /\ binding' = [n \in Neighbors |-> Unbound] /\ entry' = [m \in Maps |-> NoEntries]
        /\ lists' = {} /\ applied' = [n \in Neighbors |-> NoOne]
        /\ UNCHANGED <<slotCount, clean>>
    BY <1>3 DEF FrrRestart
  <2>2. entry' \in Table /\ binding' \in [Neighbors -> Maps \cup {Unbound}] /\ lists' \subseteq Lists
    BY <2>1, ClausesAreClauses DEF Table
  <2>3. CASE line \in {"boot", "idle"}
    <3>1. UNCHANGED <<line, nb, prefs, k, todo>>
      BY <1>3, <2>3 DEF FrrRestart, callVars
    <3>2. TypeOK'
      BY <1>1, <2>1, <2>2, <3>1 DEF TypeOK, Table
    <3>3. CallInv'
      BY <2>1, <2>3, <3>1 DEF Control, CallInv, SetLines, RemoveLines
    <3>4. QED
      BY <3>2, <3>3 DEF Control
  <2>4. CASE line \notin {"boot", "idle"}
    <3>1. Return
      BY <1>3, <2>4 DEF FrrRestart
    <3>2. QED
      BY <1>1, <2>1, <2>2, <3>1, ReturnControl
  <2>5. QED
    BY <2>3, <2>4
<1>4. ASSUME NEW n \in Neighbors, BindingLost(n)
      PROVE  Control'
  <2>1. /\ binding' = [binding EXCEPT ![n] = Unbound] /\ applied' = [applied EXCEPT ![n] = NoOne]
        /\ UNCHANGED <<entry, lists, slotCount, line, nb, prefs, k, todo, clean>>
    BY <1>4 DEF BindingLost, callVars
  <2>2. TypeOK'
    BY <1>1, <2>1 DEF TypeOK
  <2>3. nb \in Neighbors /\ applied[nb] = NoOne => applied'[nb] = NoOne
    BY <1>1, <2>1
  <2>4. CallInv'
    BY <2>1, <2>3 DEF Control, CallInv
  <2>5. QED
    BY <2>2, <2>4 DEF Control
<1>5. QED
  BY <1>2, <1>3, <1>4

(* Every step keeps the invariant of control.                              *)
LEMMA ControlNext == Control /\ [Next]_vars => Control'
<1> SUFFICES ASSUME Control, [Next]_vars
             PROVE  Control'
  OBVIOUS
<1>1. CASE UNCHANGED vars
  BY <1>1 DEF Control, TypeOK, CallInv, vars, frrVars, callVars, historyVars
<1>2. CASE Next
  BY <1>2, SetLinesControl, CallsControl, NormalizeControl, FaultsControl
     DEF Next, SetStep, RemoveStep
<1>3. QED
  BY <1>1, <1>2

(* The three lines that rewrite a slot: they change this slot of this map, *)
(* and nothing else of FRR.                                                *)
LEMMA DeclareSlotFacts ==
    ASSUME Control, DeclareSlot
    PROVE  /\ nb \in Neighbors /\ nb \in Maps /\ k \in Slots /\ k \in Seqs /\ k <= slotCount[nb]
           /\ UNCHANGED <<binding, lists, slotCount, nb, prefs, k, todo, clean, applied>>
           /\ line = "declare" /\ line' = "match"
           /\ \A m \in Maps, t \in Seqs : m # nb \/ t # k => entry'[m][t] = entry[m][t]
           /\ entry'[nb][k] = IF entry[nb][k] = Absent THEN Bare ELSE entry[nb][k]
           /\ entry'[nb][k] # Absent
<1>1. line = "declare" /\ line \in SetLines
  BY DEF DeclareSlot, SetLines
<1>2. nb \in Neighbors /\ slotCount[nb] \in Nat /\ entry \in Table
  BY <1>1, ControlFacts
<1>3. k \in 1 .. slotCount[nb] /\ k <= LastSlot /\ Declare(k)
  BY <1>1 DEF DeclareSlot, Control, CallInv
<1>4. k \in Slots /\ k \in Seqs
  BY <1>2, <1>3, SlotsAreSeqs DEF Slots
<1>5. /\ \A m \in Maps, t \in Seqs : m # nb \/ t # k => entry'[m][t] = entry[m][t]
      /\ entry'[nb][k] = IF entry[nb][k] = Absent THEN Bare ELSE entry[nb][k]
  BY <1>2, <1>3, <1>4, DeclareEffect
<1>6. entry'[nb][k] # Absent
  BY <1>5, ClausesAreClauses
<1>7. k <= slotCount[nb]
  BY <1>2, <1>3
<1>8. QED
  BY <1>1, <1>2, <1>4, <1>5, <1>6, <1>7 DEF DeclareSlot, historyVars, Maps

(* A match line touches one slot of the neighbor's own map.                *)
LEMMA MatchSlotFacts ==
    ASSUME Control, MatchSlot
    PROVE  /\ nb \in Neighbors /\ nb \in Maps /\ k \in Slots /\ k \in Seqs /\ k <= slotCount[nb]
           /\ UNCHANGED <<binding, lists, slotCount, nb, prefs, todo, clean, applied>>
           /\ line = "match" /\ prefs \in NeighborTierUpdate
           /\ IF k <= Len(prefs) THEN line' = "set" /\ k' = k ELSE SlotDone
           /\ \A m \in Maps, t \in Seqs : m # nb \/ t # k => entry'[m][t] = entry[m][t]
           /\ entry'[nb][k] # Absent
           /\ entry'[nb][k].match = IF k <= Len(prefs) THEN prefs[k].prefix ELSE Never
<1> DEFINE l == IF k <= Len(prefs) THEN prefs[k].prefix ELSE Never
<1>1. line = "match" /\ line \in SetLines
  BY DEF MatchSlot, SetLines
<1>2. /\ nb \in Neighbors /\ slotCount[nb] \in Nat /\ entry \in Table
      /\ prefs \in NeighborTierUpdate /\ Len(prefs) \in Nat /\ 1 <= Len(prefs)
  BY <1>1, ControlFacts
<1>3. /\ k \in 1 .. slotCount[nb] /\ k <= LastSlot /\ entry[nb][k] # Absent
      /\ entry' = [entry EXCEPT ![nb][k].match = l]
  BY <1>1 DEF MatchSlot, Control, CallInv
<1>4. k \in Slots /\ k \in Seqs
  BY <1>2, <1>3, SlotsAreSeqs DEF Slots
<1>5. l \in Lists
  BY <1>2, <1>3, UpdateFacts DEF Lists
<1> HIDE DEF l
<1>6. /\ \A m \in Maps, t \in Seqs : m # nb \/ t # k => entry'[m][t] = entry[m][t]
      /\ entry'[nb][k] = [match |-> l, pref |-> entry[nb][k].pref]
      /\ entry'[nb][k] \in Clause
  BY <1>2, <1>3, <1>4, <1>5, MatchEffect
<1>7. entry'[nb][k] # Absent /\ entry'[nb][k].match = l
  BY <1>6, AbsentAssumption
<1>8. k <= slotCount[nb]
  BY <1>2, <1>3
<1>9. QED
  BY <1>1, <1>2, <1>4, <1>6, <1>7, <1>8 DEF MatchSlot, historyVars, Maps, l

(* A set line touches one slot of the neighbor's own map.                  *)
LEMMA SetSlotFacts ==
    ASSUME Control, SetSlot
    PROVE  /\ nb \in Neighbors /\ nb \in Maps /\ k \in Slots /\ k \in Seqs /\ k <= slotCount[nb]
           /\ UNCHANGED <<binding, lists, slotCount, nb, prefs, todo, clean, applied>>
           /\ line = "set" /\ prefs \in NeighborTierUpdate
           /\ k \in 1 .. Len(prefs) /\ SlotDone
           /\ \A m \in Maps, t \in Seqs : m # nb \/ t # k => entry'[m][t] = entry[m][t]
           /\ entry[nb][k] # Absent /\ entry'[nb][k] # Absent
           /\ entry'[nb][k] = [match |-> entry[nb][k].match, pref |-> prefs[k].pref]
<1>1. line = "set" /\ line \in SetLines
  BY DEF SetSlot, SetLines
<1>2. /\ nb \in Neighbors /\ slotCount[nb] \in Nat /\ entry \in Table
      /\ prefs \in NeighborTierUpdate /\ Len(prefs) \in Nat /\ 1 <= Len(prefs)
  BY <1>1, ControlFacts
<1>3. /\ k \in 1 .. slotCount[nb] /\ k <= LastSlot /\ k <= Len(prefs) /\ entry[nb][k] # Absent
      /\ entry' = [entry EXCEPT ![nb][k].pref = prefs[k].pref]
  BY <1>1 DEF SetSlot, Control, CallInv
<1>4. k \in Slots /\ k \in Seqs /\ k \in 1 .. Len(prefs)
  BY <1>2, <1>3, SlotsAreSeqs DEF Slots
<1>5. prefs[k].pref \in Tiers
  BY <1>2, <1>4, UpdateFacts
<1>6. /\ \A m \in Maps, t \in Seqs : m # nb \/ t # k => entry'[m][t] = entry[m][t]
      /\ entry'[nb][k] = [match |-> entry[nb][k].match, pref |-> prefs[k].pref]
      /\ entry'[nb][k] \in Clause
  BY <1>2, <1>3, <1>4, <1>5, PrefEffect
<1>7. entry'[nb][k] # Absent
  BY <1>6, AbsentAssumption
<1>8. k <= slotCount[nb]
  BY <1>2, <1>3
<1>9. QED
  BY <1>1, <1>2, <1>3, <1>4, <1>6, <1>7, <1>8 DEF SetSlot, historyVars, Maps

(* Declaring the catch-all touches nothing but the catch-all.              *)
LEMMA CatchAllFacts ==
    ASSUME Control, DeclareCatchAll
    PROVE  /\ nb \in Neighbors /\ nb \in Maps /\ CatchAll \in Seqs
           /\ UNCHANGED <<binding, lists, slotCount, nb, prefs, k, todo, clean, applied>>
           /\ line = "catchall" /\ line' = "bind"
           /\ \A m \in Maps, t \in Seqs : m # nb \/ t # CatchAll => entry'[m][t] = entry[m][t]
           /\ entry'[nb][CatchAll] = IF entry[nb][CatchAll] = Absent THEN Bare ELSE entry[nb][CatchAll]
<1>1. line = "catchall" /\ line \in SetLines
  BY DEF DeclareCatchAll, SetLines
<1>2. nb \in Neighbors /\ entry \in Table /\ CatchAll \in Seqs
  BY <1>1, ControlFacts, SlotsAreSeqs
<1>3. /\ \A m \in Maps, t \in Seqs : m # nb \/ t # CatchAll => entry'[m][t] = entry[m][t]
      /\ entry'[nb][CatchAll] = IF entry[nb][CatchAll] = Absent THEN Bare ELSE entry[nb][CatchAll]
  BY <1>2, DeclareEffect DEF DeclareCatchAll
<1>4. QED
  BY <1>1, <1>2, <1>3 DEF DeclareCatchAll, historyVars, Maps

(* After a slot comes the next one, or the catch-all.                      *)
LEMMA SlotDoneLine ==
    ASSUME Control, line \in {"match", "set"}, SlotDone
    PROVE  line' \in {"declare", "catchall"}
  BY SlotDoneFacts

----------------------------------------------------------------------------
(* No route is denied and nothing is deleted under a live session.         *)

(* A session is bound to the neighbor's own map or to an older daemon's,   *)
(* and a map ends in its catch-all before any session is bound to it; at a *)
(* deletion, none is.                                                      *)
BindInv ==
    /\ \A n \in Neighbors : binding[n] \in {n, Unbound} \cup LegacyMaps
    /\ \A m \in Maps : entry[m][CatchAll] \in {Absent, Bare}
    /\ \A n \in Neighbors : binding[n] # Unbound => entry[binding[n]][CatchAll] = Bare
    /\ line = "bind" => entry[nb][CatchAll] = Bare
    /\ line = "delete" => binding[nb] = Unbound
    /\ line = "normalize" => \A n \in Neighbors : binding[n] # Unbound => n \in todo.bind

(* Whatever an older daemon left, its maps end in a catch-all.             *)
LEMMA BindInvInit == Init => BindInv
<1> SUFFICES ASSUME Init
             PROVE  BindInv
  OBVIOUS
<1>1. PICK p \in Prefixes, t \in Tiers :
        entry = [m \in Maps |-> IF m \in LegacyMaps THEN LegacyEntries(p, t) ELSE NoEntries]
  BY DEF Init
<1>2. \A m \in Maps : entry[m][CatchAll] = IF m \in LegacyMaps THEN Bare ELSE Absent
  BY <1>1, SlotsAreSeqs DEF LegacyEntries, NoEntries
<1>3. binding \in [Neighbors -> LegacyMaps \cup {Unbound}] /\ line = "boot"
  BY DEF Init
<1>4. \A n \in Neighbors : binding[n] # Unbound => binding[n] \in LegacyMaps /\ binding[n] \in Maps
  BY <1>3 DEF Maps
<1>5. QED
  BY <1>2, <1>3, <1>4 DEF BindInv

(* What a step may do to FRR without a hazard.                             *)
LEMMA BindInvKept ==
    ASSUME Control, BindInv, binding' = binding,
           \A m \in Maps : entry'[m][CatchAll] = entry[m][CatchAll],
           line' \notin {"bind", "normalize"},
           line' = "delete" => binding[nb] = Unbound /\ nb' = nb
    PROVE  BindInv'
<1>1. \A n \in Neighbors : binding[n] # Unbound => binding[n] \in Maps
  BY DEF BindInv, Maps
<1>2. QED
  BY <1>1 DEF BindInv

(* Every step keeps a catch-all in each map a session is bound to.         *)
LEMMA BindInvNext == Control /\ BindInv /\ [Next]_vars => BindInv'
<1> SUFFICES ASSUME Control, BindInv, [Next]_vars
             PROVE  BindInv'
  OBVIOUS
<1>1. /\ binding \in [Neighbors -> Maps \cup {Unbound}] /\ entry \in Table
      /\ CatchAll \in Seqs
      /\ \A n \in Neighbors : n \in Maps
      /\ \A n \in Neighbors : binding[n] # Unbound => binding[n] \in Maps
  BY SlotsAreSeqs DEF Control, TypeOK, Table, Maps
<1>2. ASSUME NEW n \in Neighbors, NEW u \in NeighborTierUpdate, SetNeighborTiers(n, u)
      PROVE  BindInv'
  BY <1>2, BindInvKept DEF SetNeighborTiers, frrVars
<1>3. CASE DeclareScope \/ DeclareNever
  <2>1. UNCHANGED <<binding, entry, nb>> /\ line' \in {"scope", "never", "declare"}
    BY <1>3 DEF DeclareScope, DeclareNever
  <2>2. QED
    BY <2>1, BindInvKept
<1>4. CASE DeclareSlot \/ MatchSlot \/ SetSlot
  <2>1. /\ UNCHANGED binding /\ line' \in {"match", "set", "declare", "catchall"}
        /\ \A m \in Maps, t \in Seqs : m # nb \/ t # k => entry'[m][t] = entry[m][t]
        /\ k \in Slots
    BY <1>4, DeclareSlotFacts, MatchSlotFacts, SetSlotFacts, SlotDoneLine
  <2>2. \A m \in Maps : entry'[m][CatchAll] = entry[m][CatchAll]
    BY <1>1, <2>1, SlotsAreSeqs
  <2>3. QED
    BY <2>1, <2>2, BindInvKept
<1>5. CASE DeclareCatchAll
  <2>1. entry'[nb][CatchAll] = Bare /\ nb \in Maps
    BY <1>5, CatchAllFacts DEF BindInv
  <2>2. /\ UNCHANGED <<binding, nb>> /\ line' = "bind"
        /\ \A m \in Maps : m # nb => entry'[m][CatchAll] = entry[m][CatchAll]
    BY <1>1, <1>5, CatchAllFacts
  <2>3. QED
    BY <1>1, <2>1, <2>2 DEF BindInv
<1>6. CASE Bind
  <2>1. /\ binding' = [binding EXCEPT ![nb] = nb] /\ entry' = entry /\ line' = "idle"
        /\ entry[nb][CatchAll] = Bare
    BY <1>6 DEF Bind, Return, BindInv
  <2>2. \A n \in Neighbors : binding'[n] = IF n = nb THEN nb ELSE binding[n]
    BY <1>1, <2>1
  <2>3. QED
    BY <2>1, <2>2 DEF BindInv
<1>7. ASSUME NEW n \in Neighbors, RemoveNeighborTiers(n)
      PROVE  BindInv'
  BY <1>7, BindInvKept DEF RemoveNeighborTiers, frrVars
<1>8. CASE Unbind
  <2>1. nb \in Neighbors
    BY <1>8 DEF Unbind, Control, CallInv, RemoveLines
  <2>2. /\ binding' = [binding EXCEPT ![nb] = Unbound] /\ entry' = entry /\ nb' = nb
        /\ line' = "delete"
    BY <1>8 DEF Unbind
  <2>3. \A n \in Neighbors : binding'[n] = IF n = nb THEN Unbound ELSE binding[n]
    BY <1>1, <2>2
  <2>4. QED
    BY <2>1, <2>2, <2>3 DEF BindInv
<1>9. CASE DeleteMap
  <2>1. nb \in Neighbors /\ binding[nb] = Unbound
    BY <1>9 DEF DeleteMap, Control, CallInv, RemoveLines, BindInv
  <2>2. entry' = [entry EXCEPT ![nb] = NoEntries] /\ binding' = binding /\ line' = "idle"
    BY <1>9 DEF DeleteMap, Return
  <2>3. \A m \in Maps : entry'[m] = IF m = nb THEN NoEntries ELSE entry[m]
    BY <1>1, <2>2 DEF Table
  <2>4. \A n \in Neighbors : binding[n] # nb
    <3>1. nb \notin LegacyMaps /\ nb # Unbound
      BY <2>1, NameAssumption
    <3>2. QED
      BY <2>1, <3>1 DEF BindInv
  <2>5. NoEntries[CatchAll] = Absent
    BY <1>1 DEF NoEntries
  <2>6. \A m \in Maps : entry'[m][CatchAll] \in {Absent, Bare}
    BY <2>3, <2>5 DEF BindInv
  <2>7. \A n \in Neighbors : binding[n] # Unbound => entry'[binding[n]] = entry[binding[n]]
    BY <1>1, <2>3, <2>4
  <2>8. QED
    BY <2>2, <2>6, <2>7 DEF BindInv
<1>10. CASE ReadRunningConfig
  <2>1. /\ UNCHANGED <<binding, entry>> /\ line' = "normalize"
        /\ todo'.bind = {n \in Neighbors : binding[n] # Unbound}
    BY <1>10 DEF ReadRunningConfig, frrVars
  <2>2. QED
    BY <2>1 DEF BindInv
<1>11. ASSUME NEW n \in Neighbors, NormalizeUnbind(n)
       PROVE  BindInv'
  <2>1. /\ binding' = [binding EXCEPT ![n] = Unbound] /\ entry' = entry
        /\ line = "normalize" /\ line' = line
        /\ todo' = [todo EXCEPT !.bind = @ \ {n}]
    BY <1>11 DEF NormalizeUnbind, callVars
  <2>2. todo'.bind = todo.bind \ {n}
    BY <2>1 DEF Control, TypeOK
  <2>3. \A m \in Neighbors : binding'[m] = IF m = n THEN Unbound ELSE binding[m]
    BY <1>1, <2>1
  <2>4. QED
    BY <2>1, <2>2, <2>3 DEF BindInv
<1>12. ASSUME NEW m \in Maps, NormalizeDeleteMap(m)
       PROVE  BindInv'
  <2>1. /\ binding' = binding /\ entry' = [entry EXCEPT ![m] = NoEntries]
        /\ line = "normalize" /\ line' = line /\ todo.bind = {}
    BY <1>12 DEF NormalizeDeleteMap, callVars
  <2>2. \A n \in Neighbors : binding[n] = Unbound
    BY <2>1 DEF BindInv
  <2>3. \A o \in Maps : entry'[o] = IF o = m THEN NoEntries ELSE entry[o]
    BY <1>1, <2>1 DEF Table
  <2>4. NoEntries[CatchAll] = Absent
    BY <1>1 DEF NoEntries
  <2>5. \A o \in Maps : entry'[o][CatchAll] \in {Absent, Bare}
    BY <2>3, <2>4 DEF BindInv
  <2>6. QED
    BY <2>1, <2>2, <2>5 DEF BindInv
<1>13. ASSUME NEW l \in Lists, NormalizeDeleteList(l)
       PROVE  BindInv'
  <2>1. /\ UNCHANGED <<binding, entry>> /\ line' = line /\ line = "normalize"
        /\ todo' = [todo EXCEPT !.lists = @ \ {l}]
    BY <1>13 DEF NormalizeDeleteList, callVars
  <2>2. todo'.bind = todo.bind
    BY <2>1 DEF Control, TypeOK
  <2>3. QED
    BY <2>1, <2>2 DEF BindInv
<1>14. CASE NormalizeDone \/ NormalizeFails \/ CommandFails \/ DaemonRestart
  <2>1. UNCHANGED <<binding, entry>> /\ line' \in {"idle", "boot"}
    BY <1>14 DEF NormalizeDone, NormalizeFails, CommandFails, DaemonRestart, Return, frrVars
  <2>2. QED
    BY <2>1, BindInvKept
<1>15. CASE FrrRestart
  <2>1. /\ binding' = [n \in Neighbors |-> Unbound] /\ entry' = [m \in Maps |-> NoEntries]
        /\ line' \in {"boot", "idle"}
    BY <1>15 DEF FrrRestart, Return, callVars
  <2>2. \A m \in Maps : entry'[m][CatchAll] = Absent
    BY <1>1, <2>1 DEF NoEntries
  <2>3. QED
    BY <2>1, <2>2 DEF BindInv
<1>16. ASSUME NEW n \in Neighbors, BindingLost(n)
       PROVE  BindInv'
  <2>1. /\ binding' = [binding EXCEPT ![n] = Unbound]
        /\ UNCHANGED <<entry, line, nb, todo>>
    BY <1>16 DEF BindingLost, callVars
  <2>2. \A m \in Neighbors : binding'[m] = IF m = n THEN Unbound ELSE binding[m]
    BY <1>1, <2>1
  <2>3. line = "delete" => nb \in Neighbors
    BY DEF Control, CallInv, RemoveLines
  <2>4. QED
    BY <2>1, <2>2, <2>3 DEF BindInv
<1>17. CASE UNCHANGED vars
  BY <1>17 DEF BindInv, vars, frrVars, callVars
<1>18. QED
  BY <1>2, <1>3, <1>4, <1>5, <1>6, <1>7, <1>8, <1>9, <1>10, <1>11, <1>12, <1>13, <1>14,
     <1>15, <1>16, <1>17
     DEF Next, SetStep, RemoveStep, NormalizeStep

(* Every variable keeps its type: the script lines index only sequences    *)
(* FRR accepts, whatever the length of the update.                         *)
THEOREM ActuateTypes == Spec => []TypeOK
<1>1. Control => TypeOK
  BY DEF Control
<1>2. QED
  BY <1>1, ControlInit, ControlNext, PTL DEF Spec

(* The sequence that decides is the least of those that match.             *)
LEMMA SomeSequenceDecides ==
    ASSUME Control, NEW m \in Maps, NEW p \in Prefixes, entry[m][CatchAll] = Bare
    PROVE  \E o \in Tiers \cup {Pass} : Yields(m, p, o)
<1> DEFINE S == {s \in Seqs : Matches(entry[m][s], p)}
<1>1. entry \in Table /\ CatchAll \in Seqs /\ \A s \in Seqs : s \in Nat
  BY SlotsAreSeqs DEF Control, TypeOK, Table
<1>2. CatchAll \in S
  BY <1>1, ClausesAreClauses DEF Matches, Bare
<1>3. S \in SUBSET Nat /\ S # {}
  BY <1>1, <1>2
<1>4. PICK s \in S : \A e \in S : s <= e
  BY <1>3, LeastExists
<1>5. Decides(m, p, s) /\ s \in Seqs
  BY <1>4 DEF Decides
<1>6. entry[m][s] \in Clause
  BY <1>1, <1>5 DEF Table, Decides, Matches
<1>7. Outcome(entry[m][s]) \in Tiers \cup {Pass}
  BY <1>6 DEF Outcome, Clause
<1>8. QED
  BY <1>5, <1>7 DEF Yields

(* A neighbor bound to a route-map never has a route rejected by it,       *)
(* wherever a script stopped and whoever restarted.                        *)
THEOREM NeverDeniesAlways == Spec => []NeverDenies
<1>1. Control /\ BindInv => NeverDenies
  <2> SUFFICES ASSUME Control, BindInv, NEW n \in Neighbors, binding[n] # Unbound,
                      NEW p \in Prefixes
               PROVE  \E o \in Tiers \cup {Pass} : Yields(binding[n], p, o)
    BY DEF NeverDenies
  <2>1. binding[n] \in Maps /\ entry[binding[n]][CatchAll] = Bare
    BY DEF BindInv, Maps
  <2>2. QED
    BY <2>1, SomeSequenceDecides
<1>2. Init => Control /\ BindInv
  BY ControlInit, BindInvInit
<1>3. (Control /\ BindInv) /\ [Next]_vars => (Control /\ BindInv)'
  BY ControlNext, BindInvNext
<1>4. QED
  BY <1>1, <1>2, <1>3, PTL DEF Spec

(* A sequence that vanishes belongs to a map no session stays bound to.    *)
LEMMA DeletionStep ==
    ASSUME Control, BindInv, [Next]_vars, NEW n \in Neighbors,
           binding[n] # Unbound, binding'[n] = binding[n]
    PROVE  ~ Vanishes(binding[n])
<1> DEFINE m == binding[n]
<1>1. m \in Maps /\ entry \in Table /\ CatchAll \in Seqs /\ \A x \in Neighbors : x \in Maps
  BY SlotsAreSeqs DEF Control, TypeOK, BindInv, Table, Maps
<1>2. m # Unbound /\ binding'[n] = m /\ m \in {n} \cup LegacyMaps
  BY DEF BindInv
<1> SUFFICES \A s \in Seqs : entry[m][s] # Absent => entry'[m][s] # Absent
  BY DEF Vanishes
<1> HIDE DEF m
<1>3. CASE UNCHANGED entry
  BY <1>3
<1>4. CASE DeclareSlot \/ MatchSlot \/ SetSlot
  <2>1. /\ \A o \in Maps, t \in Seqs : o # nb \/ t # k => entry'[o][t] = entry[o][t]
        /\ entry'[nb][k] # Absent
    BY <1>4, DeclareSlotFacts, MatchSlotFacts, SetSlotFacts
  <2>2. QED
    BY <1>1, <2>1
<1>5. CASE DeclareCatchAll
  <2>1. /\ \A o \in Maps, t \in Seqs : o # nb \/ t # CatchAll => entry'[o][t] = entry[o][t]
        /\ entry'[nb][CatchAll] = IF entry[nb][CatchAll] = Absent THEN Bare ELSE entry[nb][CatchAll]
    BY <1>5, CatchAllFacts
  <2>2. entry'[nb][CatchAll] # Absent
    BY <2>1, ClausesAreClauses
  <2>3. QED
    BY <1>1, <2>1, <2>2
<1>6. CASE DeleteMap
  <2>1. nb \in Neighbors /\ binding[nb] = Unbound /\ entry' = [entry EXCEPT ![nb] = NoEntries]
    BY <1>6 DEF DeleteMap, Control, CallInv, RemoveLines, BindInv
  <2>2. m # nb
    BY <1>2, <2>1, NameAssumption DEF m
  <2>3. entry'[m] = entry[m]
    BY <1>1, <2>1, <2>2 DEF Table
  <2>4. QED
    BY <2>3
<1>7. ASSUME NEW d \in Maps, NormalizeDeleteMap(d)
      PROVE  FALSE
  <2>1. line = "normalize" /\ todo.bind = {}
    BY <1>7 DEF NormalizeDeleteMap
  <2>2. QED
    BY <2>1 DEF BindInv
<1>8. CASE FrrRestart
  <2>1. binding'[n] = Unbound
    BY <1>8 DEF FrrRestart
  <2>2. QED
    BY <1>2, <2>1
<1>9. QED
  BY <1>3, <1>4, <1>5, <1>6, <1>7, <1>8
     DEF Next, SetStep, RemoveStep, NormalizeStep, vars, frrVars,
         SetNeighborTiers, DeclareScope, DeclareNever, Bind, RemoveNeighborTiers, Unbind,
         ReadRunningConfig, NormalizeUnbind, NormalizeDeleteList, NormalizeDone, NormalizeFails,
         CommandFails, DaemonRestart, BindingLost

(* No sequence of a route-map is deleted while a session stays bound to    *)
(* the map.                                                                *)
THEOREM NoDeletionUnderSession == Spec => NoDeletionWhileBound
<1>1. Control /\ BindInv /\ [Next]_vars =>
        [\A n \in Neighbors :
           binding[n] # Unbound /\ binding'[n] = binding[n] => ~ Vanishes(binding[n])]_vars
  BY DeletionStep
<1>2. Init => Control /\ BindInv
  BY ControlInit, BindInvInit
<1>3. (Control /\ BindInv) /\ [Next]_vars => (Control /\ BindInv)'
  BY ControlNext, BindInvNext
<1>4. QED
  BY <1>1, <1>2, <1>3, PTL DEF Spec, NoDeletionWhileBound

----------------------------------------------------------------------------
(* No clause matches a prefix-list that does not exist.                    *)

(* The lists of an update exist before its clauses do, and                 *)
(* NormalizeApplied has read every map that has clauses before it deletes  *)
(* a list.                                                                 *)
ListInv ==
    /\ NoDanglingList
    /\ line = "scope" => \A i \in 1 .. (k - 1) : prefs[i].prefix \in lists
    /\ line \in SetLines \ {"scope"} => \A i \in 1 .. Len(prefs) : prefs[i].prefix \in lists
    /\ line \in SetLines \ {"scope", "never"} => Never \in lists
    /\ line = "normalize" => \A m \in Maps : entry[m] # NoEntries => m \in todo.maps

(* Whatever an older daemon left, its clauses match lists that exist.      *)
LEMMA ListInvInit == Init => ListInv
<1> SUFFICES ASSUME Init
             PROVE  ListInv
  OBVIOUS
<1>1. PICK p \in Prefixes, t \in Tiers :
        /\ entry = [m \in Maps |-> IF m \in LegacyMaps THEN LegacyEntries(p, t) ELSE NoEntries]
        /\ lists = IF LegacyMaps = {} THEN {} ELSE {p}
  BY DEF Init
<1>2. ASSUME NEW m \in Maps, NEW s \in Seqs, entry[m][s] # Absent
      PROVE  entry[m][s].match \in lists \cup {NoMatch}
  <2>1. m \in LegacyMaps
    BY <1>1, <1>2 DEF NoEntries
  <2>2. entry[m][s] \in {Bare, [match |-> p, pref |-> t]}
    BY <1>1, <1>2, <2>1 DEF LegacyEntries
  <2>3. QED
    BY <1>1, <2>1, <2>2 DEF Bare
<1>3. QED
  BY <1>2 DEF ListInv, NoDanglingList, Init, SetLines

(* A step that leaves FRR's clauses and lists alone and ends the script.   *)
LEMMA ListInvKept ==
    ASSUME ListInv, UNCHANGED <<entry, lists>>, line' \notin SetLines \cup {"normalize"}
    PROVE  ListInv'
  BY DEF ListInv, NoDanglingList, SetLines

(* A line of a slot: every clause it leaves in the map matches one of the  *)
(* lists declared before.                                                  *)
LEMMA SlotLineList ==
    ASSUME ListInv, NEW s \in Seqs,
           line \in SetLines \ {"scope", "never"}, line' \in SetLines \ {"scope", "never"},
           UNCHANGED <<lists, prefs>>,
           \A m \in Maps, t \in Seqs : m # nb \/ t # s => entry'[m][t] = entry[m][t],
           entry'[nb][s] # Absent => entry'[nb][s].match \in lists \cup {NoMatch}
    PROVE  ListInv'
<1>1. NoDanglingList'
  BY DEF ListInv, NoDanglingList
<1>2. QED
  BY <1>1 DEF ListInv, SetLines

(* Every step keeps the lists that a clause matches.                       *)
LEMMA ListInvNext == Control /\ ListInv /\ [Next]_vars => ListInv'
<1> SUFFICES ASSUME Control, ListInv, [Next]_vars
             PROVE  ListInv'
  OBVIOUS
<1>1. /\ entry \in Table
      /\ \A m \in Maps, s \in Seqs : entry[m][s] # Absent => entry[m][s].match \in lists \cup {NoMatch}
      /\ \A s \in Seqs : NoEntries[s] = Absent
  BY DEF Control, TypeOK, Table, ListInv, NoDanglingList, NoEntries
<1>2. ASSUME NEW n \in Neighbors, NEW u \in NeighborTierUpdate, SetNeighborTiers(n, u)
      PROVE  ListInv'
  BY <1>2 DEF SetNeighborTiers, frrVars, ListInv, NoDanglingList, SetLines
<1>3. CASE DeclareScope
  <2>1. /\ line = "scope" /\ k \in 1 .. Len(prefs) /\ Len(prefs) \in Nat
        /\ lists' = lists \cup {prefs[k].prefix} /\ UNCHANGED <<entry, prefs>>
        /\ \/ k = Len(prefs) /\ line' = "never"
           \/ line' = "scope" /\ k' = k + 1
    BY <1>3, ControlFacts DEF DeclareScope, Control, CallInv, SetLines
  <2>2. \A i \in 1 .. k : prefs[i].prefix \in lists'
    BY <2>1 DEF ListInv
  <2>3. NoDanglingList'
    BY <1>1, <2>1 DEF NoDanglingList
  <2>4. QED
    BY <2>1, <2>2, <2>3 DEF ListInv, SetLines
<1>4. CASE DeclareNever
  <2>1. /\ line = "never" /\ line' = "declare" /\ lists' = lists \cup {Never}
        /\ UNCHANGED <<entry, prefs>>
    BY <1>4 DEF DeclareNever
  <2>2. NoDanglingList'
    BY <1>1, <2>1 DEF NoDanglingList
  <2>3. QED
    BY <2>1, <2>2 DEF ListInv, SetLines
<1>5. CASE DeclareSlot
  <2>1. entry'[nb][k] # Absent => entry'[nb][k].match \in lists \cup {NoMatch}
    BY <1>1, <1>5, DeclareSlotFacts DEF Bare
  <2>2. QED
    BY <1>5, <2>1, DeclareSlotFacts, SlotLineList DEF SetLines
<1>6. CASE MatchSlot
  <2>1. line \in {"match", "set"} /\ line \in SetLines \ {"scope", "never"}
    BY <1>6, MatchSlotFacts DEF SetLines
  <2>2. k \in 1 .. slotCount[nb] /\ slotCount[nb] \in Nat /\ Len(prefs) \in Nat
    BY <1>6, <2>1, ControlFacts, MatchSlotFacts DEF Control, CallInv
  <2>3. entry'[nb][k].match \in lists \cup {NoMatch}
    BY <1>6, <2>1, <2>2, MatchSlotFacts DEF ListInv
  <2>4. line' \in {"set", "declare", "catchall"}
    BY <1>6, <2>1, MatchSlotFacts, SlotDoneLine
  <2>5. QED
    BY <1>6, <2>1, <2>3, <2>4, MatchSlotFacts, SlotLineList DEF SetLines
<1>7. CASE SetSlot
  <2>1. line \in {"match", "set"} /\ line' \in {"declare", "catchall"}
    BY <1>7, SetSlotFacts, SlotDoneLine
  <2>2. entry'[nb][k].match \in lists \cup {NoMatch}
    BY <1>1, <1>7, SetSlotFacts
  <2>3. QED
    BY <1>7, <2>1, <2>2, SetSlotFacts, SlotLineList DEF SetLines
<1>8. CASE DeclareCatchAll
  <2>1. entry'[nb][CatchAll] # Absent => entry'[nb][CatchAll].match \in lists \cup {NoMatch}
    BY <1>1, <1>8, CatchAllFacts DEF Bare
  <2>2. QED
    BY <1>8, <2>1, CatchAllFacts, SlotLineList DEF SetLines
<1>9. CASE Bind \/ Unbind \/ NormalizeDone \/ NormalizeFails \/ CommandFails \/ DaemonRestart
  <2>1. UNCHANGED <<entry, lists>> /\ line' \in {"idle", "delete", "boot"}
    BY <1>9 DEF Bind, Unbind, NormalizeDone, NormalizeFails, CommandFails, DaemonRestart, Return,
                frrVars
  <2>2. QED
    BY <2>1, ListInvKept DEF SetLines
<1>10. ASSUME NEW n \in Neighbors, RemoveNeighborTiers(n)
       PROVE  ListInv'
  BY <1>10, ListInvKept DEF RemoveNeighborTiers, frrVars, SetLines
<1>11. CASE DeleteMap
  <2>1. nb \in Maps /\ entry' = [entry EXCEPT ![nb] = NoEntries] /\ lists' = lists /\ line' = "idle"
    BY <1>11 DEF DeleteMap, Return, Control, CallInv, RemoveLines, Maps
  <2>2. \A m \in Maps : entry'[m] \in {entry[m], NoEntries}
    BY <1>1, <2>1 DEF Table
  <2>3. NoDanglingList'
    BY <1>1, <2>1, <2>2 DEF NoDanglingList
  <2>4. QED
    BY <2>1, <2>3 DEF ListInv, SetLines
<1>12. CASE ReadRunningConfig
  <2>1. /\ UNCHANGED <<entry, lists>> /\ line' = "normalize"
        /\ \A m \in Maps : entry[m] # NoEntries => m \in todo'.maps
    BY <1>12 DEF ReadRunningConfig, frrVars
  <2>2. QED
    BY <2>1 DEF ListInv, NoDanglingList, SetLines
<1>13. ASSUME NEW n \in Neighbors, NormalizeUnbind(n)
       PROVE  ListInv'
  <2>1. /\ UNCHANGED <<entry, lists>> /\ line = "normalize" /\ line' = line
        /\ todo' = [todo EXCEPT !.bind = @ \ {n}]
    BY <1>13 DEF NormalizeUnbind, callVars
  <2>2. todo'.maps = todo.maps
    BY <2>1 DEF Control, TypeOK
  <2>3. QED
    BY <2>1, <2>2 DEF ListInv, NoDanglingList, SetLines
<1>14. ASSUME NEW d \in Maps, NormalizeDeleteMap(d)
       PROVE  ListInv'
  <2>1. /\ entry' = [entry EXCEPT ![d] = NoEntries] /\ lists' = lists
        /\ line = "normalize" /\ line' = line
        /\ todo' = [todo EXCEPT !.maps = @ \ {d}]
    BY <1>14 DEF NormalizeDeleteMap, callVars
  <2>2. todo'.maps = todo.maps \ {d}
    BY <2>1 DEF Control, TypeOK
  <2>3. \A m \in Maps : entry'[m] = IF m = d THEN NoEntries ELSE entry[m]
    BY <1>1, <2>1 DEF Table
  <2>4. NoDanglingList'
    BY <1>1, <2>1, <2>3 DEF NoDanglingList
  <2>5. QED
    BY <2>1, <2>2, <2>3, <2>4 DEF ListInv, SetLines
<1>15. ASSUME NEW l \in Lists, NormalizeDeleteList(l)
       PROVE  ListInv'
  <2>1. /\ entry' = entry /\ line = "normalize" /\ line' = line /\ todo.maps = {}
        /\ todo' = [todo EXCEPT !.lists = @ \ {l}]
    BY <1>15 DEF NormalizeDeleteList, callVars
  <2>2. \A m \in Maps : entry[m] = NoEntries
    BY <2>1 DEF ListInv
  <2>3. NoDanglingList'
    BY <1>1, <2>1, <2>2 DEF NoDanglingList
  <2>4. QED
    BY <2>1, <2>2, <2>3 DEF ListInv, SetLines
<1>16. CASE FrrRestart
  <2>1. entry' = [m \in Maps |-> NoEntries] /\ line' \in {"boot", "idle"}
    BY <1>16 DEF FrrRestart, Return, callVars
  <2>2. NoDanglingList'
    BY <1>1, <2>1 DEF NoDanglingList
  <2>3. QED
    BY <2>1, <2>2 DEF ListInv, SetLines
<1>17. ASSUME NEW n \in Neighbors, BindingLost(n)
       PROVE  ListInv'
  BY <1>17 DEF BindingLost, callVars, ListInv, NoDanglingList
<1>18. CASE UNCHANGED vars
  BY <1>18 DEF vars, frrVars, callVars, ListInv, NoDanglingList
<1>19. QED
  BY <1>2, <1>3, <1>4, <1>5, <1>6, <1>7, <1>8, <1>9, <1>10, <1>11, <1>12, <1>13, <1>14,
     <1>15, <1>16, <1>17, <1>18
     DEF Next, SetStep, RemoveStep, NormalizeStep

(* Every clause of every map matches a prefix-list that is defined, also   *)
(* while a script or NormalizeApplied is half way.                         *)
THEOREM NeverDanglingList == Spec => []NoDanglingList
<1>1. ListInv => NoDanglingList
  BY DEF ListInv
<1>2. Init => Control /\ ListInv
  BY ControlInit, ListInvInit
<1>3. (Control /\ ListInv) /\ [Next]_vars => (Control /\ ListInv)'
  BY ControlNext, ListInvNext
<1>4. QED
  BY <1>1, <1>2, <1>3, PTL DEF Spec

----------------------------------------------------------------------------
(* What a script that reached its end leaves in the map.                   *)

(* Slot i is as the update wants it.                                       *)
Rewritten(i) ==
    /\ entry[nb][i] # Absent
    /\ i <= Len(prefs) => entry[nb][i] = [match |-> prefs[i].prefix, pref |-> prefs[i].pref]
    /\ i > Len(prefs) => entry[nb][i].match = Never

(* What the lines so far have achieved: the slots below k hold the update  *)
(* or match nothing, and in a clean process no map has slots beyond its    *)
(* slotCount.                                                              *)
ScriptInv ==
    /\ line \in {"boot", "normalize"} => \A n \in Neighbors : applied[n] = NoOne
    /\ clean => \A n \in Neighbors, s \in Slots : s > slotCount[n] => entry[n][s] = Absent
    /\ line \in {"declare", "match", "set"} => \A i \in 1 .. (k - 1) : Rewritten(i)
    /\ line = "set" => entry[nb][k].match = prefs[k].prefix
    /\ line \in {"catchall", "bind"} => \A i \in 1 .. slotCount[nb] : Rewritten(i)

(* No script has written anything yet.                                     *)
LEMMA ScriptInvInit == Init => ScriptInv
  BY DEF Init, ScriptInv

(* Outside the lines of a slot there is only the cleanness to keep.        *)
LEMMA ScriptInvKept ==
    ASSUME ScriptInv,
           line' \notin {"declare", "match", "set", "catchall", "bind"},
           line' \in {"boot", "normalize"} => \A n \in Neighbors : applied'[n] = NoOne,
           clean' => \A n \in Neighbors, s \in Slots : s > slotCount'[n] => entry'[n][s] = Absent
    PROVE  ScriptInv'
  BY DEF ScriptInv

(* A line of a slot leaves the slots before it as they are.                *)
LEMMA SlotLineKeeps ==
    ASSUME Control, ScriptInv, NEW s \in Seqs, nb \in Neighbors,
           UNCHANGED <<slotCount, nb, prefs, clean, applied>>,
           line' \notin {"boot", "normalize"},
           s \in Slots => s <= slotCount[nb],
           \A m \in Maps, t \in Seqs : m # nb \/ t # s => entry'[m][t] = entry[m][t]
    PROVE  /\ clean' => \A n \in Neighbors, t \in Slots : t > slotCount'[n] => entry'[n][t] = Absent
           /\ \A i \in Seqs : i # s /\ Rewritten(i) => Rewritten(i)'
<1>1. /\ nb \in Maps /\ \A n \in Neighbors : n \in Maps
      /\ \A t \in Slots : t \in Seqs /\ t \in Nat
      /\ slotCount[nb] \in Nat
  BY SlotsAreSeqs DEF Maps, Control, TypeOK
<1>2. ASSUME clean, NEW n \in Neighbors, NEW t \in Slots, t > slotCount[n]
      PROVE  entry'[n][t] = Absent
  <2>1. n # nb \/ t # s
    BY <1>1, <1>2
  <2>2. entry'[n][t] = entry[n][t]
    BY <1>1, <2>1
  <2>3. QED
    BY <1>2, <2>2 DEF ScriptInv
<1>3. \A i \in Seqs : i # s => entry'[nb][i] = entry[nb][i]
  BY <1>1
<1>4. QED
  BY <1>2, <1>3 DEF Rewritten

(* The lines of a slot extend what the script has written by that slot.    *)
LEMMA SlotLinesScript ==
    ASSUME Control, ScriptInv, DeclareSlot \/ MatchSlot \/ SetSlot \/ DeclareCatchAll
    PROVE  ScriptInv'
<1>0. line \in SetLines
  BY DEF SetLines, DeclareSlot, MatchSlot, SetSlot, DeclareCatchAll
<1>1. /\ Len(prefs) \in Nat /\ slotCount[nb] \in Nat /\ Len(prefs) <= slotCount[nb]
      /\ k \in Nat /\ LastSlot \in Nat /\ nb \in Neighbors
  BY <1>0, ControlFacts, SlotsAreSeqs
<1>2. CASE DeclareSlot
  <2>1. /\ k \in 1 .. slotCount[nb] /\ line' = "match" /\ k' = k /\ k \in Seqs /\ k \in Slots
        /\ k <= LastSlot
    BY <1>2, DeclareSlotFacts DEF DeclareSlot, Control, CallInv
  <2>2. /\ clean' => \A n \in Neighbors, t \in Slots : t > slotCount'[n] => entry'[n][t] = Absent
        /\ \A i \in Seqs : i # k /\ Rewritten(i) => Rewritten(i)'
    BY <1>1, <1>2, <2>1, DeclareSlotFacts, SlotLineKeeps
  <2>3. \A i \in 1 .. (k - 1) : Rewritten(i) /\ i \in Seqs /\ i # k
    BY <1>1, <1>2, <2>1, DeclareSlotFacts DEF ScriptInv, Seqs, CatchAll
  <2>4. QED
    BY <2>1, <2>2, <2>3 DEF ScriptInv
<1>3. CASE MatchSlot
  <2>1. /\ k \in 1 .. slotCount[nb] /\ k \in Seqs /\ k \in Slots /\ k <= LastSlot
        /\ line = "match" /\ UNCHANGED <<slotCount, nb, prefs>>
    BY <1>1, <1>3, MatchSlotFacts DEF MatchSlot, Control, CallInv
  <2>2. /\ line' \in {"set", "declare", "catchall"}
        /\ line' = "set" => k' = k /\ k <= Len(prefs)
        /\ line' # "set" => SlotDone /\ k > Len(prefs)
    BY <1>1, <1>3, <2>1, MatchSlotFacts, SlotDoneLine DEF SlotDone
  <2>3. /\ clean' => \A n \in Neighbors, t \in Slots : t > slotCount'[n] => entry'[n][t] = Absent
        /\ \A i \in Seqs : i # k /\ Rewritten(i) => Rewritten(i)'
    BY <1>1, <1>3, <2>1, <2>2, MatchSlotFacts, SlotLineKeeps
  <2>4. \A i \in 1 .. (k - 1) : Rewritten(i) /\ i \in Seqs /\ i # k
    BY <1>1, <2>1 DEF ScriptInv, Seqs, CatchAll
  <2>5. CASE line' = "set"
    BY <1>3, <2>1, <2>2, <2>3, <2>4, <2>5, MatchSlotFacts DEF ScriptInv
  <2>6. CASE line' # "set"
    <3>1. \A i \in Seqs : i = k => Rewritten(i)'
      BY <1>1, <1>3, <2>1, <2>2, <2>6, MatchSlotFacts DEF Rewritten
    <3>2. \A i \in 1 .. k : Rewritten(i)'
      BY <1>1, <2>1, <2>3, <2>4, <3>1
    <3>3. /\ line' = "declare" => k' = k + 1
          /\ line' = "catchall" => k = slotCount[nb]
      BY <2>1, <2>2, <2>6, SlotDoneFacts
    <3>4. QED
      BY <1>1, <2>1, <2>2, <2>3, <2>6, <3>2, <3>3 DEF ScriptInv
  <2>7. QED
    BY <2>5, <2>6
<1>4. CASE SetSlot
  <2>1. /\ k \in 1 .. slotCount[nb] /\ k \in Seqs /\ k \in Slots /\ k <= LastSlot
        /\ k <= Len(prefs)
        /\ line = "set" /\ UNCHANGED <<slotCount, nb, prefs>> /\ SlotDone
        /\ line' \in {"declare", "catchall"}
    BY <1>1, <1>4, SetSlotFacts, SlotDoneLine DEF SetSlot, Control, CallInv
  <2>2. /\ clean' => \A n \in Neighbors, t \in Slots : t > slotCount'[n] => entry'[n][t] = Absent
        /\ \A i \in Seqs : i # k /\ Rewritten(i) => Rewritten(i)'
    BY <1>1, <1>4, <2>1, SetSlotFacts, SlotLineKeeps
  <2>3. \A i \in 1 .. (k - 1) : Rewritten(i) /\ i \in Seqs /\ i # k
    BY <1>1, <2>1 DEF ScriptInv, Seqs, CatchAll
  <2>4. \A i \in Seqs : i = k => Rewritten(i)'
    BY <1>1, <1>4, <2>1, SetSlotFacts DEF Rewritten, ScriptInv
  <2>5. \A i \in 1 .. k : Rewritten(i)'
    BY <1>1, <2>1, <2>2, <2>3, <2>4
  <2>6. /\ line' = "declare" => k' = k + 1
        /\ line' = "catchall" => k = slotCount[nb]
    BY <2>1, SlotDoneFacts
  <2>7. QED
    BY <1>1, <2>1, <2>2, <2>5, <2>6 DEF ScriptInv
<1>5. CASE DeclareCatchAll
  <2>1. /\ slotCount[nb] <= LastSlot /\ CatchAll \in Seqs /\ CatchAll \notin Slots
        /\ line = "catchall" /\ line' = "bind" /\ UNCHANGED <<slotCount, nb, prefs>>
    BY <1>5, CatchAllFacts, SlotsAreSeqs DEF Control, CallInv
  <2>2. /\ clean' => \A n \in Neighbors, t \in Slots : t > slotCount'[n] => entry'[n][t] = Absent
        /\ \A i \in Seqs : i # CatchAll /\ Rewritten(i) => Rewritten(i)'
    BY <1>1, <1>5, <2>1, CatchAllFacts, SlotLineKeeps
  <2>3. \A i \in 1 .. slotCount[nb] : Rewritten(i) /\ i \in Seqs /\ i # CatchAll
    BY <1>1, <2>1 DEF ScriptInv, Seqs, CatchAll
  <2>4. QED
    BY <2>1, <2>2, <2>3 DEF ScriptInv
<1>6. QED
  BY <1>2, <1>3, <1>4, <1>5

(* Every step keeps the map in step with the script.                       *)
LEMMA ScriptInvNext == Control /\ ListInv /\ ScriptInv /\ [Next]_vars => ScriptInv'
<1> SUFFICES ASSUME Control, ListInv, ScriptInv, [Next]_vars
             PROVE  ScriptInv'
  OBVIOUS
<1>1. /\ slotCount \in [Neighbors -> Nat] /\ entry \in Table
      /\ \A s \in Slots : s \in Seqs /\ s \in Nat
      /\ \A s \in Seqs : NoEntries[s] = Absent
      /\ \A n \in Neighbors : n \in Maps
      /\ clean => \A n \in Neighbors, s \in Slots : s > slotCount[n] => entry[n][s] = Absent
      /\ line \in {"boot", "normalize"} => ~ clean
      /\ line \in {"boot", "normalize"} => \A n \in Neighbors : applied[n] = NoOne
      /\ applied \in [Neighbors -> [Prefixes -> Tiers \cup {Pass}] \cup {NoOne}]
  BY SlotsAreSeqs DEF Control, TypeOK, CallInv, Table, Maps, NoEntries, ScriptInv
<1>2. ASSUME NEW n \in Neighbors, NEW u \in NeighborTierUpdate, SetNeighborTiers(n, u)
      PROVE  ScriptInv'
  <2>1. Len(u) \in Nat
    BY UpdateFacts
  <2>2. SlotsFor(n, Len(u)) \in Nat /\ slotCount[n] <= SlotsFor(n, Len(u))
    BY <1>1, <2>1, SlotAssumption DEF SlotsFor, Larger
  <2>3. /\ slotCount' = [slotCount EXCEPT ![n] = SlotsFor(n, Len(u))]
        /\ UNCHANGED <<entry, clean>> /\ line' = "scope"
    BY <1>2 DEF SetNeighborTiers, frrVars
  <2>4. \A m \in Neighbors : slotCount'[m] \in Nat /\ slotCount[m] \in Nat /\ slotCount[m] <= slotCount'[m]
    BY <1>1, <2>2, <2>3
  <2>5. \A m \in Neighbors, s \in Slots : s > slotCount'[m] => s > slotCount[m]
    BY <1>1, <2>4
  <2>6. QED
    BY <1>1, <2>3, <2>5, ScriptInvKept
<1>3. CASE DeclareScope
  BY <1>1, <1>3, ScriptInvKept DEF DeclareScope, historyVars
<1>4. CASE DeclareNever
  <2>1. /\ line' = "declare" /\ k' = k /\ k = 1
        /\ UNCHANGED <<entry, slotCount, clean, applied>>
    BY <1>4 DEF DeclareNever, historyVars, Control, CallInv
  <2>2. QED
    BY <1>1, <2>1 DEF ScriptInv
<1>5. CASE DeclareSlot \/ MatchSlot \/ SetSlot \/ DeclareCatchAll
  BY <1>5, SlotLinesScript
<1>6. CASE Bind \/ Unbind \/ CommandFails \/ NormalizeFails
  <2>1. /\ UNCHANGED <<entry, slotCount, clean>> /\ line' \in {"idle", "delete"}
    BY <1>6 DEF Bind, Unbind, CommandFails, NormalizeFails, Return, frrVars, historyVars
  <2>2. QED
    BY <1>1, <2>1, ScriptInvKept
<1>7. ASSUME NEW n \in Neighbors, RemoveNeighborTiers(n)
      PROVE  ScriptInv'
  BY <1>1, <1>7, ScriptInvKept DEF RemoveNeighborTiers, frrVars
<1>8. CASE DeleteMap
  <2>1. /\ nb \in Maps /\ entry' = [entry EXCEPT ![nb] = NoEntries] /\ line' = "idle"
        /\ UNCHANGED <<slotCount, clean, applied>>
    BY <1>8 DEF DeleteMap, Return, Control, CallInv, RemoveLines, Maps, historyVars
  <2>2. \A m \in Maps : entry'[m] \in {entry[m], NoEntries}
    BY <1>1, <2>1 DEF Table
  <2>3. QED
    BY <1>1, <2>1, <2>2, ScriptInvKept
<1>9. CASE ReadRunningConfig
  BY <1>1, <1>9, ScriptInvKept DEF ReadRunningConfig, historyVars, frrVars
<1>10. ASSUME NEW n \in Neighbors, NormalizeUnbind(n)
       PROVE  ScriptInv'
  BY <1>1, <1>10, ScriptInvKept DEF NormalizeUnbind, historyVars, callVars
<1>11. ASSUME NEW m \in Maps, NormalizeDeleteMap(m)
       PROVE  ScriptInv'
  BY <1>1, <1>11, ScriptInvKept DEF NormalizeDeleteMap, historyVars, callVars
<1>12. ASSUME NEW l \in Lists, NormalizeDeleteList(l)
       PROVE  ScriptInv'
  BY <1>1, <1>12, ScriptInvKept DEF NormalizeDeleteList, historyVars, callVars
<1>13. CASE NormalizeDone
  <2>1. /\ line = "normalize" /\ todo.maps = {} /\ entry' = entry /\ line' = "idle"
    BY <1>13 DEF NormalizeDone, NothingToDo, Return, frrVars
  <2>2. \A m \in Maps : entry[m] = NoEntries
    BY <2>1 DEF ListInv
  <2>3. \A n \in Neighbors, s \in Slots : entry'[n][s] = Absent
    BY <1>1, <2>1, <2>2
  <2>4. QED
    BY <2>1, <2>3, ScriptInvKept
<1>14. CASE DaemonRestart
  <2>1. line' = "boot" /\ ~ clean' /\ applied' = [n \in Neighbors |-> NoOne]
    BY <1>14 DEF DaemonRestart
  <2>2. QED
    BY <2>1, ScriptInvKept
<1>15. CASE FrrRestart
  <2>1. /\ entry' = [m \in Maps |-> NoEntries] /\ line' \in {"boot", "idle"}
        /\ applied' = [n \in Neighbors |-> NoOne]
    BY <1>15 DEF FrrRestart, Return, callVars
  <2>2. \A n \in Neighbors, s \in Slots : entry'[n][s] = Absent
    BY <1>1, <2>1
  <2>3. QED
    BY <2>1, <2>2, ScriptInvKept
<1>16. ASSUME NEW n \in Neighbors, BindingLost(n)
       PROVE  ScriptInv'
  <2>1. /\ applied' = [applied EXCEPT ![n] = NoOne]
        /\ UNCHANGED <<entry, slotCount, line, nb, prefs, k, clean>>
    BY <1>16 DEF BindingLost, callVars
  <2>2. \A m \in Neighbors : applied'[m] \in {applied[m], NoOne}
    BY <1>1, <2>1
  <2>3. QED
    BY <1>1, <2>1, <2>2 DEF ScriptInv, Rewritten
<1>17. CASE UNCHANGED vars
  BY <1>17 DEF vars, frrVars, callVars, historyVars, ScriptInv, Rewritten
<1>18. QED
  BY <1>2, <1>3, <1>4, <1>5, <1>6, <1>7, <1>8, <1>9, <1>10, <1>11, <1>12, <1>13, <1>14,
     <1>15, <1>16, <1>17
     DEF Next, SetStep, RemoveStep, NormalizeStep

(* At its last line a script has written what the update asks for, and all *)
(* of it if the process started clean.                                     *)
LEMMA ScriptWroteUpdate ==
    ASSUME Control, BindInv, ListInv, ScriptInv, line = "bind", NEW p \in Prefixes,
           clean \/ Wanted(prefs)[p] # Pass
    PROVE  Yields(nb, p, Wanted(prefs)[p])
<1>0. line \in SetLines \ {"scope", "never"}
  BY DEF SetLines
<1>1. /\ prefs \in NeighborTierUpdate /\ nb \in Neighbors
      /\ Len(prefs) \in Nat /\ slotCount[nb] \in Nat /\ Len(prefs) <= slotCount[nb]
      /\ slotCount[nb] <= LastSlot /\ LastSlot \in Nat
      /\ entry[nb][CatchAll] = Bare /\ CatchAll \in Seqs
      /\ \A s \in Seqs : s \in Nat /\ (s \in Slots \/ s = CatchAll)
  BY <1>0, ControlFacts, SlotsAreSeqs DEF Control, CallInv, BindInv
<1>2. /\ \A i \in 1 .. Len(prefs) : prefs[i].prefix \in Prefixes /\ prefs[i].pref \in Tiers
      /\ \A i \in 1 .. Len(prefs) : prefs[i].prefix \in lists
      /\ \A i, j \in 1 .. Len(prefs) : prefs[i].prefix = prefs[j].prefix => i = j
  BY <1>0, <1>1, UpdateFacts DEF ListInv
<1>3. \A i \in 1 .. slotCount[nb] : Rewritten(i)
  BY DEF ScriptInv
<1>4. ASSUME NEW s \in Slots, s <= Len(prefs)
      PROVE  Matches(entry[nb][s], p) <=> prefs[s].prefix = p
  <2>1. s \in Nat /\ s >= 1
    BY <1>1 DEF Slots
  <2>2. entry[nb][s] = [match |-> prefs[s].prefix, pref |-> prefs[s].pref] /\ entry[nb][s] # Absent
    BY <1>1, <1>3, <1>4, <2>1 DEF Rewritten
  <2>3. entry[nb][s].match = prefs[s].prefix
    BY <2>2
  <2>4. prefs[s].prefix \in lists /\ prefs[s].prefix # NoMatch
    BY <1>1, <1>2, <1>4, <2>1, NameAssumption
  <2>5. QED
    BY <2>2, <2>3, <2>4 DEF Matches
<1>5. ASSUME clean, NEW s \in Slots, s > Len(prefs)
      PROVE  ~ Matches(entry[nb][s], p)
  <2>1. CASE s <= slotCount[nb]
    <3>1. s \in 1 .. slotCount[nb]
      BY <1>1, <2>1 DEF Slots
    <3>2. Rewritten(s)
      BY <1>3, <3>1
    <3>3. entry[nb][s].match = Never
      BY <1>5, <3>2 DEF Rewritten
    <3>4. Never # p /\ Never # NoMatch
      BY NameAssumption
    <3>5. QED
      BY <3>3, <3>4 DEF Matches
  <2>2. CASE s > slotCount[nb]
    BY <1>1, <1>5, <2>2 DEF ScriptInv, Matches
  <2>3. QED
    BY <1>1, <2>1, <2>2 DEF Slots
<1>6. Matches(entry[nb][CatchAll], p)
  BY <1>1, ClausesAreClauses DEF Matches, Bare
<1>7. ASSUME NEW i \in 1 .. Len(prefs), prefs[i].prefix = p
      PROVE  Yields(nb, p, Wanted(prefs)[p])
  <2>1. i \in Slots /\ i \in Seqs /\ i <= CatchAll
    BY <1>1 DEF Slots, Seqs, CatchAll
  <2>2. ASSUME NEW e \in Slots, e < i
        PROVE  ~ Matches(entry[nb][e], p)
    <3>1. e <= Len(prefs) /\ e \in 1 .. Len(prefs)
      BY <1>1, <2>2 DEF Slots
    <3>2. prefs[e].prefix # p
      BY <1>1, <1>2, <1>7, <2>2, <3>1
    <3>3. QED
      BY <1>4, <3>1, <3>2
  <2>3. ASSUME NEW e \in Seqs, Matches(entry[nb][e], p)
        PROVE  i <= e
    <3>1. i \in Nat /\ e \in Nat
      BY <1>1, <2>1
    <3>2. CASE e \in Slots
      BY <2>2, <2>3, <3>1, <3>2
    <3>3. CASE e = CatchAll
      BY <2>1, <3>3
    <3>4. QED
      BY <1>1, <3>2, <3>3
  <2>4. Decides(nb, p, i)
    BY <1>1, <1>4, <1>7, <2>1, <2>3 DEF Decides
  <2>5. entry[nb][i] = [match |-> prefs[i].prefix, pref |-> prefs[i].pref]
    BY <1>1, <1>3 DEF Rewritten
  <2>6. prefs[i].pref # NoSet /\ Wanted(prefs)[p] = prefs[i].pref
    BY <1>1, <1>2, <1>7, WantedFacts, NameAssumption
  <2>7. Outcome(entry[nb][i]) = Wanted(prefs)[p]
    BY <2>5, <2>6 DEF Outcome
  <2>8. QED
    BY <2>1, <2>4, <2>7 DEF Yields
<1>8. ASSUME \A i \in 1 .. Len(prefs) : prefs[i].prefix # p
      PROVE  Yields(nb, p, Wanted(prefs)[p])
  <2>1. Wanted(prefs)[p] = Pass /\ clean
    BY <1>1, <1>8, WantedFacts
  <2>2. \A e \in Slots : ~ Matches(entry[nb][e], p)
    BY <1>1, <1>4, <1>5, <1>8, <2>1 DEF Slots
  <2>3. Decides(nb, p, CatchAll)
    BY <1>1, <1>6, <2>2 DEF Decides
  <2>4. Outcome(entry[nb][CatchAll]) = Pass
    BY <1>1 DEF Outcome, Bare
  <2>5. QED
    BY <1>1, <2>1, <2>3, <2>4 DEF Yields
<1>9. QED
  BY <1>7, <1>8

(* What a map yields changes neither with the other maps nor with lists    *)
(* declared for them: its own clauses name lists that exist already.       *)
LEMMA YieldsKept ==
    ASSUME NoDanglingList, NEW m \in Maps, NEW p \in Prefixes, NEW o,
           entry'[m] = entry[m], lists \subseteq lists', Yields(m, p, o)
    PROVE  Yields(m, p, o)'
<1>1. \A e \in Seqs : Matches(entry[m][e], p)' <=> Matches(entry[m][e], p)
  BY DEF Matches, NoDanglingList
<1>2. PICK s \in Seqs : Decides(m, p, s) /\ Outcome(entry[m][s]) = o
  BY DEF Yields
<1>3. Decides(m, p, s)' /\ Outcome(entry[m][s])' = o
  BY <1>1, <1>2 DEF Decides, Outcome
<1>4. QED
  BY <1>3 DEF Yields

(* Any other step that leaves a request standing for n leaves what n gets. *)
LEMMA StandingRequest ==
    ASSUME Control, BindInv, ScriptInv, [Next]_vars, NEW n \in Neighbors,
           clean', applied'[n] # NoOne, ~ (Bind /\ n = nb)
    PROVE  /\ clean /\ applied[n] # NoOne /\ applied'[n] = applied[n]
           /\ binding'[n] = binding[n] /\ entry'[n] = entry[n] /\ lists \subseteq lists'
<1>1. /\ n \in Maps /\ n # Unbound /\ entry \in Table /\ entry[n] \in [Seqs -> Clause \cup {Absent}]
      /\ binding \in [Neighbors -> Maps \cup {Unbound}]
      /\ applied \in [Neighbors -> [Prefixes -> Tiers \cup {Pass}] \cup {NoOne}]
      /\ line \in SetLines \cup RemoveLines => nb \in Neighbors /\ nb \in Maps /\ applied[nb] = NoOne
      /\ line \in {"boot", "normalize"} => ~ clean /\ applied[n] = NoOne
  BY NameAssumption DEF Control, TypeOK, CallInv, Table, Maps, ScriptInv
<1>2. ASSUME NEW x \in Neighbors, NEW u \in NeighborTierUpdate, SetNeighborTiers(x, u)
      PROVE  clean /\ applied'[n] = applied[n] /\ UNCHANGED <<binding, entry, lists>>
  BY <1>1, <1>2 DEF SetNeighborTiers, frrVars
<1>3. CASE DeclareScope \/ DeclareNever
  BY <1>3 DEF DeclareScope, DeclareNever, historyVars
<1>4. CASE DeclareSlot \/ MatchSlot \/ SetSlot \/ DeclareCatchAll
  <2>1. line \in SetLines
    BY <1>4 DEF DeclareSlot, MatchSlot, SetSlot, DeclareCatchAll, SetLines
  <2>2. UNCHANGED <<binding, lists, clean, applied>>
    BY <1>4, DeclareSlotFacts, MatchSlotFacts, SetSlotFacts, CatchAllFacts
  <2>3. \A m \in Maps, t \in Seqs : m # nb => entry'[m][t] = entry[m][t]
    BY <1>4, DeclareSlotFacts, MatchSlotFacts, SetSlotFacts, CatchAllFacts
  <2>4. n # nb
    BY <1>1, <2>1, <2>2
  <2>5. entry' \in Table
    BY ControlNext DEF Control, TypeOK, Table
  <2>6. entry'[n] \in [Seqs -> Clause \cup {Absent}] /\ \A t \in Seqs : entry'[n][t] = entry[n][t]
    BY <1>1, <2>3, <2>4, <2>5 DEF Table
  <2>7. entry'[n] = entry[n]
    BY <1>1, <2>6
  <2>8. QED
    BY <2>2, <2>7
<1>5. CASE Bind
  <2>1. /\ binding' = [binding EXCEPT ![nb] = nb] /\ UNCHANGED <<entry, lists, clean>>
        /\ applied' = [applied EXCEPT ![nb] = Wanted(prefs)]
        /\ n # nb
    BY <1>5 DEF Bind
  <2>2. QED
    BY <1>1, <2>1
<1>6. ASSUME NEW x \in Neighbors, RemoveNeighborTiers(x)
      PROVE  clean /\ applied'[n] = applied[n] /\ UNCHANGED <<binding, entry, lists>>
  BY <1>1, <1>6 DEF RemoveNeighborTiers, frrVars
<1>7. CASE Unbind \/ DeleteMap
  <2>1. /\ line \in RemoveLines /\ UNCHANGED <<lists, clean, applied>>
        /\ binding' \in {binding, [binding EXCEPT ![nb] = Unbound]}
        /\ entry' \in {entry, [entry EXCEPT ![nb] = NoEntries]}
    BY <1>7 DEF Unbind, DeleteMap, RemoveLines, historyVars
  <2>2. n # nb
    BY <1>1, <2>1
  <2>3. binding'[n] = binding[n] /\ entry'[n] = entry[n]
    BY <1>1, <2>1, <2>2 DEF Table
  <2>4. QED
    BY <2>1, <2>3
<1>8. CASE NormalizeStep
  <2>1. applied' = applied /\ line \in {"boot", "normalize"}
    BY <1>8 DEF NormalizeStep, ReadRunningConfig, NormalizeUnbind, NormalizeDeleteMap,
                NormalizeDeleteList, NormalizeDone, NormalizeFails, historyVars
  <2>2. QED
    BY <1>1, <2>1
<1>9. CASE CommandFails
  BY <1>9 DEF CommandFails, frrVars, historyVars
<1>10. CASE DaemonRestart \/ FrrRestart
  BY <1>10 DEF DaemonRestart, FrrRestart
<1>11. ASSUME NEW x \in Neighbors, BindingLost(x)
       PROVE  /\ clean /\ applied'[n] = applied[n] /\ binding'[n] = binding[n]
              /\ UNCHANGED <<entry, lists>>
  BY <1>1, <1>11 DEF BindingLost
<1>12. CASE UNCHANGED vars
  BY <1>12 DEF vars, frrVars, historyVars
<1>13. QED
  BY <1>2, <1>3, <1>4, <1>5, <1>6, <1>7, <1>8, <1>9, <1>10, <1>11, <1>12
     DEF Next, SetStep, RemoveStep

(* Every step keeps the property; a return of SetNeighborTiers establishes *)
(* it.                                                                     *)
LEMMA AppliedExactlyNext ==
    ASSUME Control, BindInv, ListInv, ScriptInv, AppliedExactly, [Next]_vars
    PROVE  AppliedExactly'
<1> SUFFICES ASSUME NEW n \in Neighbors, clean', applied'[n] # NoOne
             PROVE  binding'[n] = n /\ \A p \in Prefixes : Yields(n, p, applied[n][p])'
  BY DEF AppliedExactly
<1>1. n \in Maps /\ NoDanglingList
  BY DEF Maps, ListInv
<1>2. CASE Bind /\ n = nb
  <2>1. /\ line = "bind" /\ clean /\ UNCHANGED <<entry, lists>>
        /\ binding' = [binding EXCEPT ![n] = n] /\ applied' = [applied EXCEPT ![n] = Wanted(prefs)]
    BY <1>2 DEF Bind
  <2>2. binding'[n] = n /\ applied'[n] = Wanted(prefs)
    BY <2>1 DEF Control, TypeOK
  <2>3. ASSUME NEW p \in Prefixes
        PROVE  Yields(n, p, applied[n][p])'
    <3> DEFINE o == Wanted(prefs)[p]
    <3>1. Yields(n, p, o)
      BY <1>2, <2>1, ScriptWroteUpdate
    <3>2. applied'[n][p] = o
      BY <2>2
    <3> HIDE DEF o
    <3>3. Yields(n, p, applied'[n][p])
      BY <3>1, <3>2
    <3>4. QED
      BY <2>1, <3>3 DEF Yields, Decides, Matches, Outcome
  <2>4. QED
    BY <2>2, <2>3
<1>3. CASE ~ (Bind /\ n = nb)
  <2>1. /\ clean /\ applied[n] # NoOne /\ applied'[n] = applied[n]
        /\ binding'[n] = binding[n] /\ entry'[n] = entry[n] /\ lists \subseteq lists'
    BY <1>3, StandingRequest
  <2>2. binding[n] = n /\ \A p \in Prefixes : Yields(n, p, applied[n][p])
    BY <2>1 DEF AppliedExactly
  <2>3. ASSUME NEW p \in Prefixes
        PROVE  Yields(n, p, applied[n][p])'
    <3>1. \A o : Yields(n, p, o) => Yields(n, p, o)'
      BY <1>1, <2>1, YieldsKept
    <3>2. Yields(n, p, applied'[n][p])
      BY <2>1, <2>2
    <3>3. QED
      BY <3>1, <3>2 DEF Yields, Decides, Matches, Outcome
  <2>4. QED
    BY <2>1, <2>2, <2>3
<1>4. QED
  BY <1>2, <1>3

(* After a SetNeighborTiers that returned nil each prefix of the neighbor  *)
(* gets exactly the local-pref of the update, until the next call for it   *)
(* or until somebody touches FRR.                                          *)
THEOREM AppliedExactlyAlways == Spec => []AppliedExactly
<1> DEFINE I == Control /\ BindInv /\ ListInv /\ ScriptInv /\ AppliedExactly
<1>1. Init => I
  <2>1. Init => AppliedExactly
    BY DEF Init, AppliedExactly
  <2>2. QED
    BY <2>1, ControlInit, BindInvInit, ListInvInit, ScriptInvInit
<1>2. I /\ [Next]_vars => I'
  BY ControlNext, BindInvNext, ListInvNext, ScriptInvNext, AppliedExactlyNext
<1>3. I => AppliedExactly
  OBVIOUS
<1> HIDE DEF I
<1>4. QED
  BY <1>1, <1>2, <1>3, PTL DEF Spec

----------------------------------------------------------------------------
(* The scripts implement TierStore.                                        *)

(* The view of a map that never denies is what it yields, and all of it.   *)
ViewsAreYields ==
    \A m \in Maps : entry[m][CatchAll] = Bare =>
        /\ View[m] \in Store!Views
        /\ \A p \in Prefixes, o \in Tiers \cup {Pass} : Yields(m, p, o) <=> View[m][p] = o

(* Only one outcome is yielded: the least matching sequence is one.        *)
LEMMA ViewFacts == Control => ViewsAreYields
<1> SUFFICES ASSUME Control, NEW m \in Maps, entry[m][CatchAll] = Bare
             PROVE  /\ View[m] \in Store!Views
                    /\ \A p \in Prefixes, o \in Tiers \cup {Pass} :
                          Yields(m, p, o) <=> View[m][p] = o
  BY DEF ViewsAreYields
<1>1. View[m] = [p \in Prefixes |-> CHOOSE o \in Tiers \cup {Pass} : Yields(m, p, o)]
  BY DEF View
<1>2. ASSUME NEW p \in Prefixes
      PROVE  View[m][p] \in Tiers \cup {Pass} /\ Yields(m, p, View[m][p])
  BY <1>1, SomeSequenceDecides
<1>3. ASSUME NEW p \in Prefixes, NEW o, NEW r, Yields(m, p, o), Yields(m, p, r)
      PROVE  o = r
  <2>1. PICK s \in Seqs : Decides(m, p, s) /\ Outcome(entry[m][s]) = o
    BY <1>3 DEF Yields
  <2>2. PICK t \in Seqs : Decides(m, p, t) /\ Outcome(entry[m][t]) = r
    BY <1>3 DEF Yields
  <2>3. s <= t /\ t <= s
    BY <2>1, <2>2 DEF Decides
  <2>4. s = t
    BY <2>3, SlotsAreSeqs
  <2>5. QED
    BY <2>1, <2>2, <2>4
<1>4. \A p \in Prefixes, o \in Tiers \cup {Pass} : Yields(m, p, o) <=> View[m][p] = o
  BY <1>2, <1>3
<1>5. View[m] \in Store!Views
  BY <1>1, <1>2 DEF Store!Views
<1>6. QED
  BY <1>4, <1>5

(* A map that is not rewritten keeps its view.                             *)
LEMMA ViewKept ==
    ASSUME Control, Control', NoDanglingList, NEW m \in Maps, entry[m][CatchAll] = Bare,
           entry'[m] = entry[m], lists \subseteq lists'
    PROVE  View'[m] = View[m]
<1>1. /\ View[m] \in Store!Views
      /\ \A p \in Prefixes, o \in Tiers \cup {Pass} : Yields(m, p, o) <=> View[m][p] = o
  BY ViewFacts DEF ViewsAreYields
<1>2. ViewsAreYields'
  BY ViewFacts, PTL
<1>3. /\ View'[m] \in Store!Views
      /\ \A p \in Prefixes, o \in Tiers \cup {Pass} : Yields(m, p, o)' <=> View'[m][p] = o
  BY <1>2 DEF ViewsAreYields
<1>4. \A p \in Prefixes, o \in Tiers \cup {Pass} : Yields(m, p, o) => Yields(m, p, o)'
  BY YieldsKept
<1>5. \A p \in Prefixes : View'[m][p] = View[m][p]
  BY <1>1, <1>3, <1>4 DEF Store!Views
<1>6. QED
  BY <1>1, <1>3, <1>5 DEF Store!Views

(* What the neighbors get, and the call in progress, in every state.       *)
TiersAreViews ==
    /\ StoreTiers \in [Neighbors -> Store!Views \cup {Unbound}]
    /\ \A n \in Neighbors : StoreTiers[n] = IF binding[n] = Unbound THEN Unbound
                                            ELSE View[binding[n]]

(* Under the invariants every bound neighbor has a view.                   *)
LEMMA StoreFacts == Control /\ BindInv => TiersAreViews
<1> SUFFICES ASSUME Control, BindInv
             PROVE  TiersAreViews
  OBVIOUS
<1>1. ASSUME NEW n \in Neighbors, binding[n] # Unbound
      PROVE  View[binding[n]] \in Store!Views
  <2>1. binding[n] \in Maps /\ entry[binding[n]][CatchAll] = Bare
    BY <1>1 DEF BindInv, Maps
  <2>2. QED
    BY <2>1, ViewFacts DEF ViewsAreYields
<1>2. QED
  BY <1>1 DEF StoreTiers, TiersAreViews

(* A neighbor whose binding and map a step leaves alone gets what it got.  *)
LEMMA NeighborKept ==
    ASSUME Control, Control', BindInv, BindInv', NoDanglingList, NEW n \in Neighbors,
           binding'[n] = binding[n],
           binding[n] # Unbound => entry'[binding[n]] = entry[binding[n]],
           lists \subseteq lists'
    PROVE  StoreTiers'[n] = StoreTiers[n]
<1>1. TiersAreViews /\ TiersAreViews'
  BY StoreFacts, PTL
<1>2. StoreTiers'[n] = IF binding'[n] = Unbound THEN Unbound ELSE View'[binding'[n]]
  BY <1>1 DEF TiersAreViews
<1>3. StoreTiers[n] = IF binding[n] = Unbound THEN Unbound ELSE View[binding[n]]
  BY <1>1 DEF TiersAreViews
<1>4. ASSUME binding[n] # Unbound
      PROVE  View'[binding[n]] = View[binding[n]]
  <2>1. \A m \in Maps : entry[m][CatchAll] = Bare /\ entry'[m] = entry[m] => View'[m] = View[m]
    BY ViewKept
  <2>2. binding[n] \in Maps /\ entry[binding[n]][CatchAll] = Bare
    BY <1>4 DEF BindInv, Maps
  <2>3. QED
    BY <1>4, <2>1, <2>2
<1>5. QED
  BY <1>2, <1>3, <1>4

Implementation == Control /\ BindInv /\ ListInv /\ ScriptInv

(* The invariants hold together in every reachable state.                  *)
LEMMA ImplementationInvariant ==
    /\ Init => Implementation
    /\ Implementation /\ [Next]_vars => Implementation'
<1>1. Init => Implementation
  BY ControlInit, BindInvInit, ListInvInit, ScriptInvInit DEF Implementation
<1>2. Implementation /\ [Next]_vars => Implementation'
  BY ControlNext, BindInvNext, ListInvNext, ScriptInvNext DEF Implementation
<1>3. QED
  BY <1>1, <1>2

(* The call the store sees is the script that runs.                        *)
LEMMA CallFacts ==
    Control =>
      /\ line \in {"boot", "normalize"} => StoreCall = Boot
      /\ line = "idle" => StoreCall = Idle
      /\ line \in SetLines => /\ StoreCall = [nb |-> nb, want |-> Wanted(prefs)]
                              /\ StoreCall \in Store!Calls /\ StoreCall.nb = nb
                              /\ StoreCall.want = Wanted(prefs) /\ Wanted(prefs) # Unbound
      /\ line \in RemoveLines => /\ StoreCall = [nb |-> nb, want |-> Unbound]
                                 /\ StoreCall \in Store!Calls /\ StoreCall.nb = nb
                                 /\ StoreCall.want = Unbound
<1> SUFFICES ASSUME Control
             PROVE  /\ line \in SetLines =>
                         /\ StoreCall = [nb |-> nb, want |-> Wanted(prefs)]
                         /\ StoreCall \in Store!Calls /\ StoreCall.nb = nb
                         /\ StoreCall.want = Wanted(prefs) /\ Wanted(prefs) # Unbound
                    /\ line \in RemoveLines =>
                         /\ StoreCall = [nb |-> nb, want |-> Unbound]
                         /\ StoreCall \in Store!Calls /\ StoreCall.nb = nb
                         /\ StoreCall.want = Unbound
  BY DEF StoreCall
<1>1. line \in SetLines \cup RemoveLines => nb \in Neighbors
  BY DEF Control, CallInv
<1>2. ASSUME line \in SetLines
      PROVE  /\ Wanted(prefs) \in Store!Views /\ Wanted(prefs) # Unbound
             /\ StoreCall = [nb |-> nb, want |-> Wanted(prefs)]
  <2>1. Wanted(prefs) \in [Prefixes -> Tiers \cup {Pass}]
    BY <1>2, ControlFacts, WantedFacts
  <2>2. QED
    BY <1>2, <2>1, NameAssumption DEF StoreCall, SetLines, RemoveLines, Store!Views
<1>3. line \in RemoveLines => StoreCall = [nb |-> nb, want |-> Unbound]
  BY DEF StoreCall, RemoveLines
<1>4. QED
  BY <1>1, <1>2, <1>3 DEF Store!Calls

(* A step that leaves FRR's bindings and clauses alone changes no tier.    *)
LEMMA TiersKept ==
    ASSUME Implementation, Implementation', UNCHANGED <<binding, entry>>,
           lists \subseteq lists' \/ \A n \in Neighbors : binding[n] = Unbound
    PROVE  StoreTiers' = StoreTiers
<1>1. TiersAreViews /\ TiersAreViews'
  BY StoreFacts, PTL DEF Implementation
<1>2. ASSUME NEW n \in Neighbors
      PROVE  StoreTiers'[n] = StoreTiers[n]
  <2>1. CASE lists \subseteq lists'
    BY <2>1, NeighborKept DEF Implementation, ListInv
  <2>2. CASE binding[n] = Unbound
    BY <1>1, <2>2 DEF TiersAreViews
  <2>3. QED
    BY <2>1, <2>2
<1>3. QED
  BY <1>1, <1>2 DEF TiersAreViews

(* A step that rewrites the map or the binding of n changes only its tiers.*)
LEMMA OneRewritten ==
    ASSUME Implementation, Implementation', NEW n \in Neighbors, lists' = lists,
           \A x \in Neighbors : x # n => binding'[x] = binding[x],
           \A m \in Maps : m # n => entry'[m] = entry[m]
    PROVE  /\ StoreTiers' = [StoreTiers EXCEPT ![n] = StoreTiers'[n]]
           /\ StoreTiers'[n] \in Store!Views \cup {Unbound}
<1>1. TiersAreViews /\ TiersAreViews'
  BY StoreFacts, PTL DEF Implementation
<1>2. ASSUME NEW x \in Neighbors, x # n
      PROVE  StoreTiers'[x] = StoreTiers[x]
  <2>1. binding'[x] = binding[x]
    BY <1>2
  <2>2. binding[x] # Unbound => binding[x] \in Maps /\ binding[x] # n
    BY <1>2, NameAssumption DEF Implementation, BindInv, Maps
  <2>3. QED
    BY <2>1, <2>2, NeighborKept DEF Implementation, ListInv
<1>3. QED
  BY <1>1, <1>2 DEF TiersAreViews

(* SetNeighborTiers, line by line: each slot line may disturb the tiers of *)
(* its neighbor, the last one fulfils the request.                         *)
LEMMA SetImplements ==
    ASSUME Implementation, Implementation', SetStep
    PROVE  [Store!StoreNext]_(Store!storeVars)
<1>0. line \in SetLines
  BY DEF SetStep, SetLines, DeclareScope, DeclareNever, DeclareSlot, MatchSlot, SetSlot,
         DeclareCatchAll, Bind
<1>1. /\ nb \in Neighbors /\ nb \in Maps
      /\ StoreCall = [nb |-> nb, want |-> Wanted(prefs)] /\ StoreCall \in Store!Calls
      /\ StoreCall.nb = nb /\ StoreCall.want = Wanted(prefs) /\ Wanted(prefs) # Unbound
      /\ entry \in Table /\ binding \in [Neighbors -> Maps \cup {Unbound}]
  BY <1>0, CallFacts, ControlFacts DEF Implementation, Control, TypeOK, Maps, Table
<1>2. ASSUME line' \in SetLines, nb' = nb, prefs' = prefs
      PROVE  StoreCall' = StoreCall
  <2>1. /\ line \notin {"boot", "normalize", "idle"} \cup RemoveLines
        /\ line' \notin {"boot", "normalize", "idle"} \cup RemoveLines
    BY <1>0, <1>2 DEF SetLines, RemoveLines
  <2>2. Wanted(prefs)' = Wanted(prefs)
    BY <1>2 DEF Wanted
  <2>3. QED
    BY <1>2, <2>1, <2>2 DEF StoreCall
<1>3. CASE DeclareScope \/ DeclareNever
  <2>1. /\ UNCHANGED <<binding, entry, nb, prefs, clean>> /\ line' \in SetLines
        /\ lists \subseteq lists'
    BY <1>3 DEF DeclareScope, DeclareNever, SetLines, historyVars
  <2>2. StoreTiers' = StoreTiers /\ StoreCall' = StoreCall
    BY <1>2, <2>1, TiersKept
  <2>3. QED
    BY <2>1, <2>2 DEF Store!storeVars
<1>4. CASE DeclareSlot \/ MatchSlot \/ SetSlot \/ DeclareCatchAll
  <2>1. /\ UNCHANGED <<binding, lists, nb, prefs, clean>>
        /\ line' \in {"match", "set", "declare", "catchall", "bind"}
        /\ \A m \in Maps, t \in Seqs : m # nb => entry'[m][t] = entry[m][t]
    BY <1>4, DeclareSlotFacts, MatchSlotFacts, SetSlotFacts, CatchAllFacts, SlotDoneLine
       DEF Implementation
  <2>2. entry' \in Table
    BY DEF Implementation, Control, TypeOK, Table
  <2>3. ASSUME NEW m \in Maps, m # nb
        PROVE  entry'[m] = entry[m]
    <3>1. /\ entry[m] \in [Seqs -> Clause \cup {Absent}]
          /\ entry'[m] \in [Seqs -> Clause \cup {Absent}]
      BY <1>1, <2>2 DEF Table
    <3>2. \A t \in Seqs : entry'[m][t] = entry[m][t]
      BY <2>1, <2>3
    <3>3. QED
      BY <3>1, <3>2
  <2>4. StoreCall' = StoreCall
    BY <1>2, <2>1 DEF SetLines
  <2>5. \A n \in Neighbors : n = nb =>
          /\ StoreTiers' = [StoreTiers EXCEPT ![n] = StoreTiers'[n]]
          /\ StoreTiers'[n] \in Store!Views \cup {Unbound}
    BY <2>1, <2>3, OneRewritten
  <2>6. \A n \in Neighbors : n = nb => Store!Disturb(n, StoreTiers'[n])
    BY <1>1, <2>1, <2>4, <2>5 DEF Store!Disturb
  <2>7. QED
    BY <1>1, <2>5, <2>6 DEF Store!StoreNext
<1>5. CASE Bind
  <2>1. /\ line = "bind" /\ binding' = [binding EXCEPT ![nb] = nb]
        /\ UNCHANGED <<entry, lists, clean>> /\ line' = "idle"
    BY <1>5 DEF Bind, Return
  <2>2. StoreCall' = Idle
    BY <2>1 DEF StoreCall
  <2>3. binding'[nb] = nb /\ nb # Unbound /\ entry[nb][CatchAll] = Bare
    BY <1>1, <2>1, NameAssumption DEF Implementation, BindInv
  <2>4. \A n \in Neighbors : n = nb =>
          /\ StoreTiers' = [StoreTiers EXCEPT ![n] = StoreTiers'[n]]
          /\ StoreTiers'[n] \in Store!Views \cup {Unbound}
    BY <1>1, <2>1, OneRewritten
  <2>5. \A n \in Neighbors : n = nb => StoreTiers'[n] = View[n]
    <3>1. TiersAreViews'
      BY StoreFacts, PTL DEF Implementation
    <3>2. \A m \in Maps : entry[m][CatchAll] = Bare => View'[m] = View[m]
      BY <2>1, ViewKept DEF Implementation, ListInv
    <3>3. QED
      BY <1>1, <2>3, <3>1, <3>2 DEF TiersAreViews
  <2>6. /\ View[nb] \in Store!Views
        /\ \A p \in Prefixes, o \in Tiers \cup {Pass} : Yields(nb, p, o) <=> View[nb][p] = o
    BY <1>1, <2>3, ViewFacts DEF ViewsAreYields, Implementation
  <2>7. Wanted(prefs) \in [Prefixes -> Tiers \cup {Pass}]
    BY <1>0, ControlFacts, WantedFacts DEF Implementation
  <2>8. \A p \in Prefixes : clean \/ Wanted(prefs)[p] # Pass => View[nb][p] = Wanted(prefs)[p]
    BY <2>1, <2>6, <2>7, ScriptWroteUpdate DEF Implementation
  <2>9. Store!Fulfils(View[nb], Wanted(prefs), clean)
    <3>1. View[nb] # Unbound
      BY <2>6, NameAssumption DEF Store!Views
    <3>2. clean => View[nb] = Wanted(prefs)
      BY <2>6, <2>7, <2>8 DEF Store!Views
    <3>3. QED
      BY <1>1, <2>8, <3>1, <3>2 DEF Store!Fulfils
  <2>10. \A n \in Neighbors : n = nb => Store!ReturnNil(n, StoreTiers'[n])
    BY <1>1, <2>1, <2>2, <2>4, <2>5, <2>9 DEF Store!ReturnNil
  <2>11. QED
    BY <1>1, <2>4, <2>10 DEF Store!StoreNext
<1>6. QED
  BY <1>3, <1>4, <1>5 DEF SetStep

(* RemoveNeighborTiers: unbinding disturbs, deleting the map returns nil.  *)
LEMMA RemoveImplements ==
    ASSUME Implementation, Implementation', RemoveStep
    PROVE  [Store!StoreNext]_(Store!storeVars)
<1>0. line \in RemoveLines /\ nb \in Neighbors /\ nb \in Maps
  BY DEF RemoveStep, RemoveLines, Unbind, DeleteMap, Implementation, Control, CallInv, Maps
<1>1. /\ StoreCall = [nb |-> nb, want |-> Unbound] /\ StoreCall \in Store!Calls
      /\ StoreCall.nb = nb /\ StoreCall.want = Unbound
      /\ entry \in Table /\ binding \in [Neighbors -> Maps \cup {Unbound}]
  BY <1>0, CallFacts DEF Implementation, Control, TypeOK, Table
<1>9. TiersAreViews'
  BY StoreFacts, PTL DEF Implementation
<1>2. CASE Unbind
  <2>1. /\ binding' = [binding EXCEPT ![nb] = Unbound]
        /\ UNCHANGED <<entry, lists, clean, nb>> /\ line' = "delete"
    BY <1>2 DEF Unbind, historyVars
  <2>2. StoreCall' = StoreCall
    BY <1>0, <1>1, <2>1 DEF StoreCall, RemoveLines
  <2>3. \A n \in Neighbors : n = nb =>
          /\ StoreTiers' = [StoreTiers EXCEPT ![n] = StoreTiers'[n]]
          /\ StoreTiers'[n] \in Store!Views \cup {Unbound}
    BY <1>1, <2>1, OneRewritten
  <2>4. \A n \in Neighbors : n = nb => Store!Disturb(n, StoreTiers'[n])
    BY <1>1, <2>1, <2>2, <2>3 DEF Store!Disturb
  <2>5. QED
    BY <1>0, <2>3, <2>4 DEF Store!StoreNext
<1>3. CASE DeleteMap
  <2>1. /\ line = "delete" /\ entry' = [entry EXCEPT ![nb] = NoEntries]
        /\ UNCHANGED <<binding, lists, clean>> /\ line' = "idle"
    BY <1>3 DEF DeleteMap, Return, historyVars
  <2>2. StoreCall' = Idle /\ binding'[nb] = Unbound
    BY <2>1 DEF StoreCall, Implementation, BindInv
  <2>3. \A m \in Maps : m # nb => entry'[m] = entry[m]
    BY <1>1, <2>1 DEF Table
  <2>4. \A n \in Neighbors : n = nb =>
          /\ StoreTiers' = [StoreTiers EXCEPT ![n] = StoreTiers'[n]]
          /\ StoreTiers'[n] = Unbound
    BY <1>1, <1>9, <2>1, <2>2, <2>3, OneRewritten DEF TiersAreViews
  <2>5. \A n \in Neighbors : n = nb => Store!ReturnNil(n, Unbound)
    BY <1>1, <2>1, <2>2, <2>4 DEF Store!ReturnNil, Store!Fulfils
  <2>6. QED
    BY <1>0, <2>5 DEF Store!StoreNext
<1>4. QED
  BY <1>2, <1>3 DEF RemoveStep

(* NormalizeApplied: only detaching a neighbor shows, and the return.      *)
LEMMA NormalizeImplements ==
    ASSUME Implementation, Implementation', NormalizeStep
    PROVE  [Store!StoreNext]_(Store!storeVars)
<1>0. line \in {"boot", "normalize"} /\ StoreCall = Boot
  BY CallFacts DEF Implementation, NormalizeStep, ReadRunningConfig, NormalizeUnbind,
     NormalizeDeleteMap, NormalizeDeleteList, NormalizeDone, NormalizeFails
<1>1. /\ clean = FALSE /\ entry \in Table /\ binding \in [Neighbors -> Maps \cup {Unbound}]
      /\ line = "normalize" /\ todo.bind = {} => \A n \in Neighbors : binding[n] = Unbound
  BY <1>0 DEF Implementation, Control, CallInv, TypeOK, Table, BindInv
<1>9. TiersAreViews /\ TiersAreViews'
  BY StoreFacts, PTL DEF Implementation
<1>2. CASE ReadRunningConfig
  <2>1. UNCHANGED <<binding, entry, lists, clean>> /\ line' = "normalize"
    BY <1>2 DEF ReadRunningConfig, frrVars, historyVars
  <2>2. StoreTiers' = StoreTiers /\ StoreCall' = StoreCall
    BY <1>0, <2>1, TiersKept DEF StoreCall
  <2>3. QED
    BY <2>1, <2>2 DEF Store!storeVars
<1>3. ASSUME NEW n \in Neighbors, NormalizeUnbind(n)
      PROVE  [Store!StoreNext]_(Store!storeVars)
  <2>1. /\ binding' = [binding EXCEPT ![n] = Unbound] /\ UNCHANGED <<entry, lists, clean>>
        /\ line' = line
    BY <1>3 DEF NormalizeUnbind, callVars, historyVars
  <2>2. StoreCall' = StoreCall
    BY <1>0, <2>1 DEF StoreCall
  <2>3. StoreTiers' = [StoreTiers EXCEPT ![n] = StoreTiers'[n]] /\ StoreTiers'[n] = Unbound
    BY <1>1, <1>9, <2>1, OneRewritten DEF TiersAreViews
  <2>4. Store!Detach(n)
    BY <1>0, <2>1, <2>2, <2>3 DEF Store!Detach
  <2>5. QED
    BY <2>4 DEF Store!StoreNext
<1>4. ASSUME NEW m \in Maps, NormalizeDeleteMap(m)
      PROVE  [Store!StoreNext]_(Store!storeVars)
  <2>1. /\ UNCHANGED <<binding, clean, line>> /\ line = "normalize" /\ todo.bind = {}
    BY <1>4 DEF NormalizeDeleteMap, callVars, historyVars
  <2>2. StoreCall' = StoreCall
    BY <1>0, <2>1 DEF StoreCall
  <2>3. StoreTiers' = StoreTiers
    BY <1>1, <1>9, <2>1 DEF TiersAreViews
  <2>4. QED
    BY <2>1, <2>2, <2>3 DEF Store!storeVars
<1>5. ASSUME NEW l \in Lists, NormalizeDeleteList(l)
      PROVE  [Store!StoreNext]_(Store!storeVars)
  <2>1. /\ UNCHANGED <<binding, clean, line>> /\ line = "normalize" /\ todo.bind = {}
    BY <1>5 DEF NormalizeDeleteList, callVars, historyVars
  <2>2. StoreCall' = StoreCall
    BY <1>0, <2>1 DEF StoreCall
  <2>3. StoreTiers' = StoreTiers
    BY <1>1, <1>9, <2>1 DEF TiersAreViews
  <2>4. QED
    BY <2>1, <2>2, <2>3 DEF Store!storeVars
<1>6. CASE NormalizeDone
  <2>1. /\ UNCHANGED <<binding, entry, lists>> /\ line = "normalize" /\ todo.bind = {}
        /\ line' = "idle" /\ clean' = TRUE
    BY <1>6 DEF NormalizeDone, NothingToDo, Return, frrVars
  <2>2. StoreCall' = Idle /\ StoreTiers' = StoreTiers
    BY <2>1, TiersKept DEF StoreCall
  <2>3. \A n \in Neighbors : StoreTiers[n] = Unbound
    BY <1>1, <1>9, <2>1 DEF TiersAreViews
  <2>4. Store!NormalizeReturns(TRUE)
    BY <1>0, <2>1, <2>2, <2>3 DEF Store!NormalizeReturns
  <2>5. QED
    BY <2>4 DEF Store!StoreNext
<1>7. CASE NormalizeFails
  <2>1. UNCHANGED <<binding, entry, lists, clean>> /\ line' = "idle"
    BY <1>7 DEF NormalizeFails, Return, frrVars, historyVars
  <2>2. StoreCall' = Idle /\ StoreTiers' = StoreTiers
    BY <2>1, TiersKept DEF StoreCall
  <2>3. Store!NormalizeReturns(FALSE)
    BY <1>0, <1>1, <2>1, <2>2 DEF Store!NormalizeReturns
  <2>4. QED
    BY <2>3 DEF Store!StoreNext
<1>8. QED
  BY <1>2, <1>3, <1>4, <1>5, <1>6, <1>7 DEF NormalizeStep

(* Entering a call, and what goes wrong around it.                         *)
LEMMA CallsImplement ==
    ASSUME Implementation, Implementation',
           \/ \E n \in Neighbors, u \in NeighborTierUpdate : SetNeighborTiers(n, u)
           \/ \E n \in Neighbors : RemoveNeighborTiers(n)
           \/ CommandFails \/ DaemonRestart \/ FrrRestart
           \/ \E n \in Neighbors : BindingLost(n)
    PROVE  [Store!StoreNext]_(Store!storeVars)
<1>1. /\ binding \in [Neighbors -> Maps \cup {Unbound}]
      /\ line = "idle" => StoreCall = Idle
      /\ line \in SetLines \cup RemoveLines => StoreCall \in Store!Calls
  BY CallFacts DEF Implementation, Control, TypeOK
<1>9. TiersAreViews /\ TiersAreViews'
  BY StoreFacts, PTL DEF Implementation
<1>2. ASSUME NEW n \in Neighbors, NEW u \in NeighborTierUpdate, SetNeighborTiers(n, u)
      PROVE  [Store!StoreNext]_(Store!storeVars)
  <2>1. /\ line = "idle" /\ line' = "scope" /\ nb' = n /\ prefs' = u
        /\ UNCHANGED <<binding, entry, lists, clean>>
    BY <1>2 DEF SetNeighborTiers, frrVars
  <2>2. Wanted(u) \in Store!Views
    BY WantedFacts DEF Store!Views
  <2>3. StoreCall' = [nb |-> n, want |-> Wanted(u)]
    BY <2>1 DEF StoreCall, RemoveLines, Wanted
  <2>4. Store!Begin(n, Wanted(u))
    BY <1>1, <2>1, <2>3, TiersKept DEF Store!Begin
  <2>5. QED
    BY <2>2, <2>4 DEF Store!StoreNext
<1>3. ASSUME NEW n \in Neighbors, RemoveNeighborTiers(n)
      PROVE  [Store!StoreNext]_(Store!storeVars)
  <2>1. /\ line = "idle" /\ line' = "unbind" /\ nb' = n /\ UNCHANGED <<binding, entry, lists, clean>>
    BY <1>3 DEF RemoveNeighborTiers, frrVars
  <2>2. StoreCall' = [nb |-> n, want |-> Unbound]
    BY <2>1 DEF StoreCall, RemoveLines
  <2>3. Store!Begin(n, Unbound)
    BY <1>1, <2>1, <2>2, TiersKept DEF Store!Begin
  <2>4. QED
    BY <2>3 DEF Store!StoreNext
<1>4. CASE CommandFails
  <2>1. /\ line \in SetLines \cup RemoveLines /\ line' = "idle"
        /\ UNCHANGED <<binding, entry, lists, clean>>
    BY <1>4 DEF CommandFails, Return, frrVars, historyVars
  <2>2. StoreCall' = Idle
    BY <2>1 DEF StoreCall
  <2>3. Store!ReturnError
    BY <1>1, <2>1, <2>2, TiersKept DEF Store!ReturnError
  <2>4. QED
    BY <2>3 DEF Store!StoreNext
<1>5. CASE DaemonRestart
  <2>1. line' = "boot" /\ UNCHANGED <<binding, entry, lists>> /\ clean' = FALSE
    BY <1>5 DEF DaemonRestart, frrVars
  <2>2. StoreCall' = Boot
    BY <2>1 DEF StoreCall
  <2>3. Store!Die
    BY <2>1, <2>2, TiersKept DEF Store!Die
  <2>4. QED
    BY <2>3 DEF Store!StoreNext
<1>6. CASE FrrRestart
  <2>1. /\ binding' = [n \in Neighbors |-> Unbound] /\ clean' = clean
        /\ IF line \in {"boot", "idle"} THEN UNCHANGED <<line, nb, prefs>> ELSE line' = "idle"
    BY <1>6 DEF FrrRestart, Return, callVars
  <2>2. StoreTiers' = [n \in Neighbors |-> Unbound]
    BY <1>1, <1>9, <2>1 DEF TiersAreViews
  <2>3. StoreCall' \in {Idle, StoreCall}
    BY <2>1 DEF StoreCall
  <2>4. Store!LoseAll
    BY <2>1, <2>2, <2>3 DEF Store!LoseAll
  <2>5. QED
    BY <2>4 DEF Store!StoreNext
<1>7. ASSUME NEW n \in Neighbors, BindingLost(n)
      PROVE  [Store!StoreNext]_(Store!storeVars)
  <2>1. /\ binding' = [binding EXCEPT ![n] = Unbound]
        /\ UNCHANGED <<entry, lists, clean, line, nb, prefs>>
    BY <1>7 DEF BindingLost, callVars
  <2>2. StoreCall' = StoreCall
    BY <2>1 DEF StoreCall, Wanted
  <2>3. StoreTiers' = [StoreTiers EXCEPT ![n] = StoreTiers'[n]] /\ StoreTiers'[n] = Unbound
    BY <1>1, <1>9, <2>1, OneRewritten DEF TiersAreViews
  <2>4. Store!LoseBinding(n)
    BY <2>1, <2>2, <2>3 DEF Store!LoseBinding
  <2>5. QED
    BY <2>4 DEF Store!StoreNext
<1>8. QED
  BY <1>2, <1>3, <1>4, <1>5, <1>6, <1>7

(* The scripts of SetNeighborTiers, RemoveNeighborTiers and                *)
(* NormalizeApplied implement the abstract store the control loop relies   *)
(* on, for every number of neighbors, prefixes and slots.                  *)
THEOREM StoreImplemented == Spec => ImplementsTierStore
<1>1. Init => Store!StoreInit
  <2> SUFFICES ASSUME Init
               PROVE  Store!StoreInit
    OBVIOUS
  <2>1. TiersAreViews /\ StoreCall = Boot
    BY ImplementationInvariant, StoreFacts, CallFacts DEF Implementation, Init
  <2>2. clean = FALSE
    BY DEF Init
  <2>3. QED
    BY <2>1, <2>2 DEF TiersAreViews, Store!StoreInit
<1>2. Implementation /\ Implementation' /\ [Next]_vars => [Store!StoreNext]_(Store!storeVars)
  <2> SUFFICES ASSUME Implementation, Implementation', [Next]_vars
               PROVE  [Store!StoreNext]_(Store!storeVars)
    OBVIOUS
  <2>1. CASE UNCHANGED vars
    <3>1. UNCHANGED <<binding, entry, lists, line, nb, prefs, clean>>
      BY <2>1 DEF vars, frrVars, callVars, historyVars
    <3>2. StoreTiers' = StoreTiers /\ StoreCall' = StoreCall
      BY <3>1, TiersKept DEF StoreCall, Wanted
    <3>3. QED
      BY <3>1, <3>2 DEF Store!storeVars
  <2>2. CASE Next
    BY <2>2, SetImplements, RemoveImplements, NormalizeImplements, CallsImplement DEF Next
  <2>3. QED
    BY <2>1, <2>2
<1>3. QED
  BY <1>1, <1>2, ImplementationInvariant, PTL DEF Spec, ImplementsTierStore, Store!StoreSpec
=============================================================================

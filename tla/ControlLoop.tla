---------------------------- MODULE ControlLoop ----------------------------
(***************************************************************************)
(* cmd/daemon/main.go: the control loop, from this tick's candidates to    *)
(* FRR.  Per tick it ranks, visits each neighbor that has an update        *)
(* (dampener, SetNeighborTiers, mirror), then tears down the neighbors it  *)
(* tracked that have no update any more.                                   *)
(*                                                                         *)
(* FRR is the abstract TierStore that Actuate implements: a call changes   *)
(* one neighbor, exactly when it returns nil, anyhow when it fails.        *)
(* Measurement is abstracted to its result: for every prefix, the          *)
(* neighbors with an answered probe leg, and one of the tier assignments   *)
(* RankByTier can give them.                                               *)
(*                                                                         *)
(* Time is counted in ticks: hold[n] is what is left of minDwell since     *)
(* Record(n), so Allow(n) is hold[n] = 0.                                  *)
(***************************************************************************)
EXTENDS TierContract

CONSTANTS
    Neighbors, Prefixes,
    MinDwell,              \* --min-dwell, in ticks
    Faults,                \* the failures this instance allows
    Pass, Unbound, Idle, Boot, None

AllFaults == {"set", "remove", "normalize", "daemon", "frr"}

ASSUME NameAssumption ==
    /\ Pass \notin Tiers
    /\ \A f \in [Prefixes -> Tiers \cup {Pass}] : f # Unbound
    /\ None \notin Neighbors

ASSUME DwellAssumption == MinDwell \in Nat

ASSUME FaultAssumption == Faults \subseteq AllFaults

VARIABLES
    tiers,               \* FRR: per neighbor Unbound, or what each prefix gets
    trusted,             \* NormalizeApplied of this process returned nil
    step,                \* where the loop is
    candidates,          \* per prefix, the neighbors measured this tick
    updates,             \* per neighbor, the tier each prefix is given (Pass: not named)
    pending,             \* neighbors of updates not visited yet
    thisTickNeighbors,   \* neighbors visited this tick
    appliedNeighbors,    \* neighbors visited last tick
    removing,            \* neighbors the cleanup has not visited yet
    hold,                \* ticks of minDwell left
    active,              \* appliedActiveNeighbor
    calm                 \* history: inputs are stable and commands succeed from here on

frrVars == <<tiers, trusted>>
tickVars == <<candidates, updates>>
setVars == <<pending, thisTickNeighbors, appliedNeighbors, removing>>
vars == <<frrVars, step, tickVars, setVars, hold, active, calm>>

Store == INSTANCE TierStore WITH call <- Idle

Views == [Prefixes -> Tiers \cup {Pass}]
NoUpdate == [p \in Prefixes |-> Pass]
NoUpdates == [n \in Neighbors |-> NoUpdate]
NoCandidates == [p \in Prefixes |-> {}]
NoHold == [n \in Neighbors |-> 0]
NoBaseline == [p \in Prefixes |-> None]
Named(u) == {n \in Neighbors : u[n] # NoUpdate}

TypeOK ==
    /\ tiers \in [Neighbors -> Views \cup {Unbound}]
    /\ trusted \in BOOLEAN
    /\ step \in {"boot", "idle", "actuate", "cleanup"}
    /\ candidates \in [Prefixes -> SUBSET Neighbors]
    /\ updates \in [Neighbors -> Views]
    /\ pending \subseteq Neighbors /\ thisTickNeighbors \subseteq Neighbors
    /\ appliedNeighbors \subseteq Neighbors /\ removing \subseteq Neighbors
    /\ hold \in [Neighbors -> 0 .. MinDwell]
    /\ active \in [Prefixes -> Neighbors \cup {None}]
    /\ calm \in BOOLEAN

May(fault) == fault \in Faults /\ ~ calm

----------------------------------------------------------------------------
(* RankByTier per prefix, then GroupByNeighbor: one update per neighbor,   *)
(* across the prefixes.                                                    *)
Rankings(c) ==
    { u \in [Neighbors -> Views] :
        \A p \in Prefixes :
            /\ [n \in c[p] |-> u[n][p]] \in TierAssignments(c[p])
            /\ \A n \in Neighbors \ c[p] : u[n][p] = Pass }

(* Mutation: the dwell keeps counting below zero.                          *)
ElapseUnfloored(h) == [n \in Neighbors |-> h[n] - 1]

(* One tick of time passes.                                                *)
Elapse(h) == [n \in Neighbors |-> IF h[n] = 0 THEN 0 ELSE h[n] - 1]

----------------------------------------------------------------------------
(* An earlier process may have left any neighbor bound.                    *)
Init ==
    /\ tiers \in [Neighbors -> {Unbound, [p \in Prefixes |-> Top]}]
    /\ trusted = FALSE
    /\ step = "boot"
    /\ candidates = NoCandidates
    /\ updates = NoUpdates
    /\ pending = {} /\ thisTickNeighbors = {} /\ appliedNeighbors = {} /\ removing = {}
    /\ hold = NoHold
    /\ active = NoBaseline
    /\ calm = FALSE

(* NormalizeApplied returns nil ...                                        *)
StartClean ==
    /\ step = "boot"
    /\ tiers' = [n \in Neighbors |-> Unbound]
    /\ trusted' = TRUE
    /\ step' = "idle"
    /\ UNCHANGED <<tickVars, setVars, hold, active, calm>>

(* ... or fails, which is logged: the loop starts with appliedNeighbors    *)
(* empty although some neighbors may still be bound.                       *)
StartAnyway ==
    /\ step = "boot"
    /\ May("normalize")
    /\ \E gone \in SUBSET Neighbors :
         tiers' = [n \in Neighbors |-> IF n \in gone THEN Unbound ELSE tiers[n]]
    /\ trusted' = FALSE
    /\ step' = "idle"
    /\ UNCHANGED <<tickVars, setVars, hold, active, calm>>

----------------------------------------------------------------------------
(* Mutation: a skipped tick already resets the tracked neighbors.          *)
SkipTickForgets ==
    /\ step = "idle"
    /\ ~ calm
    /\ hold' = Elapse(hold)
    /\ appliedNeighbors' = {}
    /\ UNCHANGED <<frrVars, step, tickVars, pending, thisTickNeighbors, removing, active, calm>>

(* A tick that ends early: no RIB data, or the transit map cannot be read. *)
SkipTick ==
    /\ step = "idle"
    /\ ~ calm
    /\ hold' = Elapse(hold)
    /\ UNCHANGED <<frrVars, step, tickVars, setVars, active, calm>>

(* A tick that measures and ranks.                                         *)
RankTick(c, u) ==
    /\ step = "idle"
    /\ calm => c = candidates /\ u = updates
    /\ candidates' = c
    /\ updates' = u
    /\ hold' = Elapse(hold)
    /\ pending' = Named(u)
    /\ thisTickNeighbors' = {}
    /\ step' = "actuate"
    /\ UNCHANGED <<frrVars, appliedNeighbors, removing, active, calm>>

(* Every neighbor with an update counts as present this tick, before the   *)
(* dampener and FRR have their say.                                        *)
Visit(n) ==
    /\ step = "actuate"
    /\ n \in pending
    /\ pending' = pending \ {n}
    /\ thisTickNeighbors' = thisTickNeighbors \cup {n}
    /\ UNCHANGED <<step, tickVars, appliedNeighbors, removing, trusted, calm>>

(* Mutation: a suppressed neighbor is not counted as present.              *)
SuppressUnmarked(n) ==
    /\ step = "actuate"
    /\ n \in pending
    /\ hold[n] > 0
    /\ pending' = pending \ {n}
    /\ UNCHANGED <<frrVars, step, tickVars, thisTickNeighbors, appliedNeighbors, removing, hold, active, calm>>

(* Mutation: a suppressed update starts the dwell again.                   *)
SuppressRestarts(n) ==
    /\ Visit(n)
    /\ hold[n] > 0
    /\ hold' = [hold EXCEPT ![n] = MinDwell]
    /\ UNCHANGED <<tiers, active>>

(* The dampener holds the neighbor back: nothing is sent to FRR.           *)
Suppress(n) ==
    /\ Visit(n)
    /\ hold[n] > 0
    /\ UNCHANGED <<tiers, hold, active>>

(* Mutation: a demotion leaves the mirror alone.                           *)
SyncedGainsOnly(n, u) ==
    [p \in Prefixes |->
        IF u[p] # Pass /\ (u[p] = Top \/ candidates[p] = {n}) THEN n ELSE active[p]]

(* syncAppliedActiveMirror, for the update u that was just applied to n.   *)
Synced(n, u) ==
    [p \in Prefixes |->
        IF u[p] # Pass /\ (u[p] = Top \/ candidates[p] = {n}) THEN n
        ELSE IF u[p] # Pass /\ active[p] = n THEN None
        ELSE active[p]]

(* SetNeighborTiers returns nil: Record, then the mirror.                  *)
Apply(n) ==
    /\ Visit(n)
    /\ hold[n] = 0
    /\ \E view \in Views :
         /\ Store!Fulfils(view, updates[n], trusted)
         /\ tiers' = [tiers EXCEPT ![n] = view]
    /\ hold' = [hold EXCEPT ![n] = MinDwell]
    /\ active' = Synced(n, updates[n])

(* Mutation: Record is called before the error is looked at.               *)
ApplyFailsRecorded(n) ==
    /\ May("set")
    /\ Visit(n)
    /\ hold[n] = 0
    /\ \E view \in Views \cup {Unbound} :
         /\ view = Unbound <=> tiers[n] = Unbound
         /\ tiers' = [tiers EXCEPT ![n] = view]
    /\ hold' = [hold EXCEPT ![n] = MinDwell]
    /\ UNCHANGED active

(* SetNeighborTiers fails: the binding is its last line, so a neighbor     *)
(* that was not bound is not, and one that was may get anything.           *)
ApplyFails(n) ==
    /\ May("set")
    /\ Visit(n)
    /\ hold[n] = 0
    /\ \E view \in Views \cup {Unbound} :
         /\ view = Unbound <=> tiers[n] = Unbound
         /\ tiers' = [tiers EXCEPT ![n] = view]
    /\ UNCHANGED <<hold, active>>

(* Mutation: the cleanup goes by what FRR has bound.                       *)
StartCleanupBound ==
    /\ step = "actuate"
    /\ pending = {}
    /\ removing' = {n \in Neighbors : tiers[n] # Unbound} \ thisTickNeighbors
    /\ step' = "cleanup"
    /\ UNCHANGED <<frrVars, tickVars, pending, thisTickNeighbors, appliedNeighbors, hold, active, calm>>

StartCleanup ==
    /\ step = "actuate"
    /\ pending = {}
    /\ removing' = appliedNeighbors \ thisTickNeighbors
    /\ step' = "cleanup"
    /\ UNCHANGED <<frrVars, tickVars, pending, thisTickNeighbors, appliedNeighbors, hold, active, calm>>

Remove(n) ==
    /\ step = "cleanup"
    /\ n \in removing
    /\ removing' = removing \ {n}
    /\ tiers' = [tiers EXCEPT ![n] = Unbound]
    /\ UNCHANGED <<trusted, step, tickVars, pending, thisTickNeighbors, appliedNeighbors, hold, active, calm>>

(* RemoveNeighborTiers fails: its first effective line detaches.  Logged.  *)
RemoveFails(n) ==
    /\ May("remove")
    /\ step = "cleanup"
    /\ n \in removing
    /\ removing' = removing \ {n}
    /\ UNCHANGED <<frrVars, step, tickVars, pending, thisTickNeighbors, appliedNeighbors, hold, active, calm>>

EndTick ==
    /\ step = "cleanup"
    /\ removing = {}
    /\ appliedNeighbors' = thisTickNeighbors
    /\ step' = "idle"
    /\ UNCHANGED <<frrVars, tickVars, pending, thisTickNeighbors, removing, hold, active, calm>>

----------------------------------------------------------------------------
(* The daemon dies at any point; its memory is lost, FRR's is not.         *)
DaemonRestart ==
    /\ May("daemon")
    /\ step # "boot"
    /\ step' = "boot"
    /\ trusted' = FALSE
    /\ candidates' = NoCandidates
    /\ updates' = NoUpdates
    /\ pending' = {} /\ thisTickNeighbors' = {} /\ appliedNeighbors' = {} /\ removing' = {}
    /\ hold' = NoHold
    /\ active' = NoBaseline
    /\ UNCHANGED <<tiers, calm>>

(* FRR restarts, or somebody unbinds a route-map.                          *)
BindingsLost(lost) ==
    /\ May("frr")
    /\ tiers' = [n \in Neighbors |-> IF n \in lost THEN Unbound ELSE tiers[n]]
    /\ UNCHANGED <<trusted, step, tickVars, setVars, hold, active, calm>>

(* From here on the measurements do not change and nothing fails.          *)
Settle ==
    /\ step = "idle"
    /\ calm' = TRUE
    /\ UNCHANGED <<frrVars, step, tickVars, setVars, hold, active>>

LoopStep ==
    \/ StartClean
    \/ \E c \in [Prefixes -> SUBSET Neighbors] : \E u \in Rankings(c) : RankTick(c, u)
    \/ \E n \in Neighbors : Suppress(n) \/ Apply(n)
    \/ StartCleanup
    \/ \E n \in Neighbors : Remove(n)
    \/ EndTick

Environment ==
    \/ StartAnyway
    \/ SkipTick
    \/ \E n \in Neighbors : ApplyFails(n) \/ RemoveFails(n)
    \/ DaemonRestart
    \/ \E lost \in SUBSET Neighbors : BindingsLost(lost)
    \/ Settle

Next == LoopStep \/ Environment

Spec == Init /\ [][Next]_vars

(* The ticker fires for ever and every call returns.                       *)
Fairness == WF_vars(LoopStep)

FairSpec == Spec /\ Fairness
----------------------------------------------------------------------------
(* What must hold of the loop, whatever the interleaving with failures.    *)

(* Every neighbor FRR has bound is one the loop will look at again: it is  *)
(* tracked from the last tick or counted in this one.  A neighbor outside  *)
(* both sets keeps its route-map until the daemon is restarted.  A failed  *)
(* set, a suppressed update, a skipped tick and a crash must not lose one. *)
TrackedBindings ==
    step # "boot" => \A n \in Neighbors :
        tiers[n] # Unbound => n \in appliedNeighbors \cup thisTickNeighbors

(* Two neighbors applied in the same tick come from the same ranking: as   *)
(* long as their dwell runs they cannot both hold the top tier for one     *)
(* prefix, whatever failed, was drained or was lost in between.            *)
NoTwoTopsFromOneTick ==
    trusted => \A n, m \in Neighbors :
        n # m /\ hold[n] = hold[m] /\ hold[n] > 0 /\ tiers[n] # Unbound /\ tiers[m] # Unbound =>
            \A p \in Prefixes : ~ (tiers[n][p] = Top /\ tiers[m][p] = Top)

(* The baseline a cold probe is compared with is never a neighbor that FRR *)
(* was last told to keep at the mid tier: a demotion clears the mirror.    *)
BaselineNotDemoted ==
    \A p \in Prefixes, n \in Neighbors :
        trusted /\ active[p] = n /\ hold[n] > 0 /\ tiers[n] # Unbound => tiers[n][p] # Mid

(* The cleanup tears down only neighbors without an update: one that is    *)
(* merely suppressed, or whose set failed, keeps its route-map.            *)
HeldStaysBound ==
    [][\A n \in removing \ removing' : step' # "boot" => n \notin Named(updates)]_vars

(* A binding whose removal failed, or that startup left behind, is never   *)
(* tried again: once no set of the loop has the neighbor and its routes    *)
(* stay away, it keeps its local-prefs for as long as the daemon runs, in  *)
(* however many ticks without a failure.                                   *)
Abandoned(n) ==
    /\ calm /\ step # "boot"
    /\ tiers[n] # Unbound
    /\ n \notin Named(updates) \cup appliedNeighbors \cup thisTickNeighbors \cup removing

AbandonedForGood == [][\A n \in Neighbors : Abandoned(n) => Abandoned(n)']_vars

(* Once the measurements are stable and commands succeed, FRR ends up, and *)
(* stays, exactly at the ranking for every neighbor that has an update,    *)
(* and no neighbor without one is tracked: dwell delays but never starves. *)
Settled ==
    \A n \in Neighbors :
        IF n \in Named(updates)
        THEN tiers[n] # Unbound /\ Store!Fulfils(tiers[n], updates[n], trusted)
        ELSE n \notin appliedNeighbors

Converges == calm ~> [](step # "boot" /\ Settled)
============================================================================

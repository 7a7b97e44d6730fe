----------------------------- MODULE TierStore -----------------------------
(***************************************************************************)
(* What package internal/actuate promises the control loop about FRR, with *)
(* the vtysh scripts abstracted away: per BGP neighbor, the local-pref     *)
(* each destination prefix would get from an inbound UPDATE, and at most   *)
(* one call in progress.                                                   *)
(*                                                                         *)
(* A call rewrites one neighbor and never touches another; a call that     *)
(* returns nil leaves exactly what it was asked for; one that returns an   *)
(* error, or that dies with the daemon, may leave that one neighbor in any *)
(* state.  A neighbor that has a route-map never rejects a route.          *)
(* Actuate.tla implements this specification.                              *)
(***************************************************************************)
EXTENDS Naturals

CONSTANTS
    Neighbors,   \* BGP peers
    Prefixes,    \* in-scope destination prefixes
    Tiers,       \* local-pref values (cfg.Tiers)
    Pass,        \* the outcome "permitted, local-pref unmodified"
    Unbound,     \* a neighbor without an inbound route-map of this daemon
    Idle,        \* no call in progress
    Boot         \* the process has not run NormalizeApplied yet

VARIABLES
    tiers,       \* per neighbor: Unbound, or what each prefix gets
    call,        \* Idle, Boot or the call in progress
    trusted      \* this process started from a clean slate

storeVars == <<tiers, call, trusted>>

Views == [Prefixes -> Tiers \cup {Pass}]

Calls == [nb : Neighbors, want : Views \cup {Unbound}]

StoreTypeOK ==
    /\ tiers \in [Neighbors -> Views \cup {Unbound}]
    /\ call \in Calls \cup {Idle, Boot}
    /\ trusted \in BOOLEAN

StoreInit ==
    /\ tiers \in [Neighbors -> Views \cup {Unbound}]
    /\ call = Boot
    /\ trusted = FALSE

----------------------------------------------------------------------------
(* What a call that returned nil leaves.  Removing is always exact.  A set *)
(* is exact on the prefixes it names; the others pass through if the       *)
(* process started from a clean slate, and otherwise may still meet a      *)
(* clause of a previous process.                                           *)
Fulfils(view, want, clean) ==
    IF want = Unbound \/ clean
    THEN view = want
    ELSE view # Unbound /\ \A p \in Prefixes : want[p] # Pass => view[p] = want[p]

(* SetNeighborTiers or RemoveNeighborTiers is entered. *)
Begin(n, want) ==
    /\ call = Idle
    /\ call' = [nb |-> n, want |-> want]
    /\ UNCHANGED <<tiers, trusted>>

(* A line of the script in progress takes effect. *)
Disturb(n, view) ==
    /\ call \in Calls
    /\ call.nb = n
    /\ tiers' = [tiers EXCEPT ![n] = view]
    /\ UNCHANGED <<call, trusted>>

ReturnNil(n, view) ==
    /\ call \in Calls
    /\ call.nb = n
    /\ Fulfils(view, call.want, trusted)
    /\ tiers' = [tiers EXCEPT ![n] = view]
    /\ call' = Idle
    /\ UNCHANGED trusted

ReturnError ==
    /\ call \in Calls
    /\ call' = Idle
    /\ UNCHANGED <<tiers, trusted>>

(* NormalizeApplied detaches one neighbor after the other... *)
Detach(n) ==
    /\ call = Boot
    /\ tiers' = [tiers EXCEPT ![n] = Unbound]
    /\ UNCHANGED <<call, trusted>>

(* ... and returns nil only when nothing is attached, or fails anywhere. *)
NormalizeReturns(ok) ==
    /\ call = Boot
    /\ ok => \A n \in Neighbors : tiers[n] = Unbound
    /\ call' = Idle
    /\ trusted' = ok
    /\ UNCHANGED tiers

(* The daemon dies; FRR keeps what it has. *)
Die ==
    /\ call' = Boot
    /\ trusted' = FALSE
    /\ UNCHANGED tiers

(* Somebody else removes the binding of n. *)
LoseBinding(n) ==
    /\ tiers' = [tiers EXCEPT ![n] = Unbound]
    /\ UNCHANGED <<call, trusted>>

(* FRR restarts: nothing was written to memory, and a script that was      *)
(* running fails.                                                          *)
LoseAll ==
    /\ tiers' = [n \in Neighbors |-> Unbound]
    /\ call' \in {Idle, call}
    /\ UNCHANGED trusted

StoreNext ==
    \/ \E n \in Neighbors, want \in Views \cup {Unbound} : Begin(n, want)
    \/ \E n \in Neighbors, view \in Views \cup {Unbound} : Disturb(n, view) \/ ReturnNil(n, view)
    \/ ReturnError
    \/ \E n \in Neighbors : Detach(n) \/ LoseBinding(n)
    \/ \E ok \in BOOLEAN : NormalizeReturns(ok)
    \/ Die
    \/ LoseAll

StoreSpec == StoreInit /\ [][StoreNext]_storeVars
============================================================================

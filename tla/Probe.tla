------------------------------- MODULE Probe -------------------------------
(***************************************************************************)
(* internal/actuate/prober.go and probe_accumulator.go: one cold-probe     *)
(* leg, burst after burst.  ProbeLegBurst sends probes one at a time on a  *)
(* connected socket; the evidence and the RTT baseline are folded into the *)
(* leg's ProbeAccumulator, from which the next burst's timeout is derived. *)
(*                                                                         *)
(* All probes carry the same payload, so a reply that comes after its      *)
(* probe timed out is taken for the answer to the probe waited for then.   *)
(*                                                                         *)
(* Time is an integer.  The pseudo-counts and the baseline are in 1/Unit,  *)
(* the decay exp(-dt/halfLife) of the gap between two bursts is d/Den for  *)
(* some d of Decays.  A burst that fails before its first probe changes    *)
(* nothing.  The SPRT outcome, which only the log sees, is left out.       *)
(***************************************************************************)
EXTENDS Integers, Sequences, FiniteSets, SequencesExt

CONSTANTS
    Rtts,          \* how long the peer takes to answer
    NoAnswer,
    Configured,    \* probe timeout_seconds
    Floor,         \* probe min_timeout_ms
    Multiplier,    \* probe timeout_rtt_multiplier
    BurstN, MaxN,  \* probe min_count, max_count
    Decays, Den,   \* d/Den, d \in Decays: what the gap to the last burst leaves
    Unit,
    Slack          \* bound: how much longer than asked a wait may take

ASSUME ProbeAssumption ==
    /\ Rtts \subseteq Nat \ {0} /\ NoAnswer \notin Rtts
    /\ {Configured, Floor, Multiplier, BurstN, MaxN, Den, Unit} \subseteq Nat \ {0}
    /\ BurstN <= MaxN
    /\ Decays \subseteq 1 .. Den - 1
    /\ Slack \in Nat

VARIABLES
    \* ProbeAccumulator; fresh is LastUpdate.IsZero()
    effectiveK, effectiveN, rttBaseline, fresh,
    \* ProbeLegBurst
    bursting,     \* a burst is in progress
    timeout,      \* its per-probe timeout
    sent,         \* probes it attempted
    now,          \* time since it began
    inFlight,     \* replies on their way or in the socket buffer
    rtts,         \* RTTs of the replies received
    \* history
    answered,     \* probes of the burst the peer answered
    lastReplied,  \* replies counted in the last burst
    steady        \* the peer's RTT from here on, NoAnswer until the path settles

accVars == <<effectiveK, effectiveN, rttBaseline, fresh>>
burstVars == <<timeout, sent, now, inFlight, rtts, answered>>
vars == <<accVars, bursting, burstVars, lastReplied, steady>>

Larger(a, b) == IF a > b THEN a ELSE b
Smaller(a, b) == IF a < b THEN a ELSE b

TypeOK ==
    /\ effectiveK \in Nat /\ effectiveN \in Nat /\ rttBaseline \in Nat /\ fresh \in BOOLEAN
    /\ bursting \in BOOLEAN
    /\ timeout \in 1 .. Configured
    /\ sent \in 0 .. BurstN /\ now \in Nat
    /\ inFlight \subseteq [probe : 1 .. BurstN, at : Nat]
    /\ rtts \in Seq(Nat \ {0}) /\ Len(rtts) <= sent
    /\ answered \in 0 .. BurstN /\ lastReplied \in 0 .. BurstN
    /\ steady \in Rtts \cup {NoAnswer}

Calm == steady # NoAnswer

----------------------------------------------------------------------------
(* Mutation: the multiplier is forgotten.                                  *)
AdaptiveTimeoutBare ==
    IF rttBaseline = 0 THEN Configured
    ELSE Smaller(Larger(rttBaseline \div Unit, Floor), Configured)

AdaptiveTimeout ==
    IF rttBaseline = 0 THEN Configured
    ELSE Smaller(Larger((rttBaseline * Multiplier) \div Unit, Floor), Configured)

Init ==
    /\ effectiveK = 0 /\ effectiveN = 0 /\ rttBaseline = 0 /\ fresh = TRUE
    /\ bursting = FALSE
    /\ timeout = Configured /\ sent = 0 /\ now = 0
    /\ inFlight = {} /\ rtts = <<>> /\ answered = 0
    /\ lastReplied = 0
    /\ steady = NoAnswer

StartBurst ==
    /\ ~ bursting
    /\ bursting' = TRUE
    /\ timeout' = AdaptiveTimeout
    /\ UNCHANGED <<accVars, sent, now, inFlight, rtts, answered, lastReplied, steady>>

(* Mutation: a burst has no deadline.                                      *)
MoreNoDeadline == bursting /\ sent < BurstN

(* The loop of ProbeLegBurst goes on while its deadline has not passed.    *)
More == bursting /\ sent < BurstN /\ now < timeout * BurstN

Replies(r) ==
    IF r = NoAnswer THEN inFlight ELSE inFlight \cup {[probe |-> sent + 1, at |-> now + r]}

Attempt(r) ==
    /\ More
    /\ Calm => r = steady
    /\ sent' = sent + 1
    /\ answered' = IF r = NoAnswer THEN answered ELSE answered + 1
    /\ UNCHANGED <<accVars, bursting, timeout, lastReplied, steady>>

(* When SO_RCVTIMEO may wake the socket up, if nothing arrives.            *)
WakeUps == {now + timeout + over : over \in IF Calm THEN {0} ELSE {0, Slack}}

(* A probe is sent and Recvfrom returns the first reply there is, when it  *)
(* arrives or, if that is just after the timeout, at the late wake-up.     *)
(* One that was waiting in the buffer is read at once, in time 1.          *)
Answered(r) ==
    /\ Attempt(r)
    /\ \E reply \in Replies(r), wake \in WakeUps :
         LET read == IF reply.at <= now + timeout THEN Larger(reply.at, now) ELSE wake
         IN  /\ reply.at <= wake
             /\ \A other \in Replies(r) : reply.at <= other.at
             /\ rtts' = Append(rtts, Larger(read - now, 1))
             /\ now' = read
             /\ inFlight' = Replies(r) \ {reply}

(* Nothing arrives in time: a lost probe.                                  *)
TimedOut(r) ==
    /\ Attempt(r)
    /\ \E wake \in WakeUps :
         /\ \A reply \in Replies(r) : reply.at > wake
         /\ now' = wake
    /\ inFlight' = Replies(r)
    /\ UNCHANGED rtts

(* The write fails: a lost probe, without a wait.                          *)
SendFails ==
    /\ ~ Calm
    /\ Attempt(NoAnswer)
    /\ UNCHANGED <<now, inFlight, rtts>>

(* Mutation: effectiveN is clamped alone.                                  *)
ClampedNOnly(k, n) == [k |-> k, n |-> Smaller(n, MaxN * Unit)]

(* The clamp of effectiveN to maxN, which keeps the loss rate.             *)
Clamped(k, n) ==
    IF n > MaxN * Unit THEN [k |-> (k * MaxN * Unit) \div n, n |-> MaxN * Unit]
                       ELSE [k |-> k, n |-> n]

(* The average of the new RTT and the old baseline, rounded to the new one. *)
Blend(new, old, d) ==
    ((Den - d) * new + d * old + (IF new > old THEN Den - 1 ELSE 0)) \div Den

(* ProbeAccumulator.Ingest                                                 *)
Ingest(lost, median, d) ==
    /\ LET k == IF fresh THEN lost * Unit ELSE (effectiveK * d) \div Den + lost * Unit
           n == IF fresh THEN BurstN * Unit ELSE (effectiveN * d) \div Den + BurstN * Unit
       IN  /\ effectiveK' = Clamped(k, n).k
           /\ effectiveN' = Clamped(k, n).n
    /\ rttBaseline' = IF fresh THEN median * Unit
                      ELSE IF median > 0 THEN Blend(median * Unit, rttBaseline, d)
                      ELSE rttBaseline
    /\ fresh' = FALSE

(* sorted[len/2], or 0 when there is nothing to sort: the least RTT that   *)
(* more than half of the RTTs do not exceed.                               *)
UpTo(rtt) == {i \in DOMAIN rtts : rtts[i] <= rtt}
Median ==
    IF rtts = <<>> THEN 0
    ELSE Min({rtt \in Range(rtts) : Cardinality(UpTo(rtt)) > Len(rtts) \div 2})

(* Mutation: the socket is kept from burst to burst.                       *)
EndBurstSameSocket(d) ==
    /\ bursting /\ ~ More
    /\ Ingest(BurstN - Len(rtts), Median, d)
    /\ bursting' = FALSE
    /\ lastReplied' = Len(rtts)
    /\ inFlight' = {[probe |-> a.probe, at |-> 0] : a \in inFlight}
    /\ sent' = 0 /\ now' = 0 /\ rtts' = <<>> /\ answered' = 0
    /\ UNCHANGED <<timeout, steady>>

(* The burst ends; probes that were not attempted count as lost.  Its      *)
(* socket is closed, and the replies still to come with it.                *)
EndBurst(d) ==
    /\ bursting /\ ~ More
    /\ Ingest(BurstN - Len(rtts), Median, d)
    /\ bursting' = FALSE
    /\ lastReplied' = Len(rtts)
    /\ inFlight' = {} /\ sent' = 0 /\ now' = 0 /\ rtts' = <<>> /\ answered' = 0
    /\ UNCHANGED <<timeout, steady>>

(* From here on the peer answers every probe, in the same time.            *)
Settle(r) ==
    /\ ~ Calm
    /\ steady' = r
    /\ UNCHANGED <<accVars, bursting, burstVars, lastReplied>>

ProbeStep ==
    \/ StartBurst
    \/ \E r \in Rtts \cup {NoAnswer} : Answered(r) \/ TimedOut(r)
    \/ SendFails
    \/ \E d \in Decays : EndBurst(d)

Next == ProbeStep \/ \E r \in Rtts : Settle(r)

Spec == Init /\ [][Next]_vars

(* The control loop probes the leg on every tick, and a burst is bounded.  *)
FairSpec == Spec /\ WF_vars(ProbeStep)
----------------------------------------------------------------------------
(* What the prober promises the ranking.                                   *)

(* The decayed evidence is a loss rate, over at most maxN probes, whatever *)
(* the gaps between the bursts: no clamp or decay moves one count without  *)
(* the other.                                                              *)
EvidenceIsARate == effectiveK <= effectiveN /\ effectiveN <= MaxN * Unit

(* A burst never counts more replies than the peer gave to its own probes: *)
(* a late reply is taken for another probe's, but is counted once, and     *)
(* never in a later burst.                                                 *)
RepliesAreThisBursts == bursting => Len(rtts) <= answered

(* A burst holds the control loop up for one wait more than n timeouts at  *)
(* most, however late the timer fires, and a timeout is never longer than  *)
(* configured.                                                             *)
BurstIsBounded ==
    timeout <= Configured /\ now < timeout * BurstN + timeout + Slack

(* The timeout feeds on the RTTs measured under it.  It recovers, although *)
(* the baseline was learned on a faster path, was never learned or was     *)
(* averaged with the zero of a lost first burst: when the path settles     *)
(* every probe ends up answered in time, burst after burst, and the        *)
(* baseline ends up at the RTT of the path.  That is so as long as a burst *)
(* at the floor is long enough for one reply to be seen; beyond, the leg   *)
(* reads as lost for ever.                                                 *)
Learnable == steady <= Configured /\ steady < BurstN * Floor

Relearns ==
    Calm /\ Learnable ~> [](Calm => lastReplied = BurstN /\ rttBaseline = steady * Unit)
=============================================================================

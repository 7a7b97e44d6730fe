---------------------------- MODULE ProbeProofs ----------------------------
(***************************************************************************)
(* What the cold-path prober guarantees for all bursts, gaps, path times   *)
(* and parameters: the decayed evidence stays a rate, a burst is bounded   *)
(* and counts the replies to its own probes only.                          *)
(***************************************************************************)
EXTENDS Probe, TLAPS, WellFoundedInduction, FiniteSetTheorems

(* A set of natural numbers has a least element.                           *)
LEMMA LeastExists ==
    ASSUME NEW S \in SUBSET Nat, S # {}
    PROVE  \E x \in S : \A y \in S : x <= y
<1>1. PICK x \in S : \A y \in S : ~ (<<y, x>> \in OpToRel(<, Nat))
  BY NatLessThanWellFounded, WFMin
<1>2. \A y \in S : ~ (y < x)
  BY <1>1 DEF OpToRel
<1>3. QED
  BY <1>2

(* The numbers in a sequence have an upper bound.                          *)
LEMMA UpperBoundExists ==
    ASSUME NEW s \in Seq(Nat)
    PROVE  \E b \in Nat : \A i \in 1 .. Len(s) : s[i] <= b
<1> DEFINE Bounded(n) == \E b \in Nat : \A i \in 1 .. n : s[i] <= b
           Unbounded == {n \in Nat : n <= Len(s) /\ ~ Bounded(n)}
<1>1. Len(s) \in Nat /\ \A i \in 1 .. Len(s) : s[i] \in Nat
  OBVIOUS
<1>2. SUFFICES Unbounded = {}
  <2>1. Len(s) \notin Unbounded => Bounded(Len(s))
    BY <1>1
  <2>2. QED
    BY <2>1
<1>3. SUFFICES ASSUME Unbounded # {}
               PROVE  FALSE
  OBVIOUS
<1>4. PICK n \in Unbounded : \A m \in Unbounded : n <= m
  <2>1. Unbounded \in SUBSET Nat
    OBVIOUS
  <2> HIDE DEF Unbounded
  <2>2. QED
    BY <1>3, <2>1, LeastExists
<1>5. n \in Nat /\ n <= Len(s) /\ ~ Bounded(n)
  OBVIOUS
<1>6. n # 0
  <2>1. 0 \in Nat /\ \A i \in 1 .. 0 : s[i] <= 0
    OBVIOUS
  <2>2. Bounded(0)
    BY <2>1
  <2>3. QED
    BY <1>5, <2>2
<1>7. PICK b \in Nat : \A i \in 1 .. (n - 1) : s[i] <= b
  <2>1. n - 1 \in Nat /\ n - 1 <= Len(s) /\ ~ (n <= n - 1)
    BY <1>1, <1>5, <1>6
  <2>2. n - 1 \notin Unbounded
    <3> HIDE DEF Unbounded
    <3>1. QED
      BY <1>4, <2>1
  <2>3. Bounded(n - 1)
    BY <2>1, <2>2
  <2>4. QED
    BY <2>3
<1>8. n \in 1 .. Len(s) /\ s[n] \in Nat
  BY <1>1, <1>5, <1>6
<1> HIDE DEF Unbounded
<1>9. PICK c \in Nat : b <= c /\ s[n] <= c
  <2>1. b <= s[n] \/ s[n] <= b
    BY <1>8
  <2>2. QED
    BY <1>8, <2>1
<1>10. \A i \in 1 .. n : s[i] <= c
  <2> SUFFICES ASSUME NEW i \in 1 .. n
               PROVE  s[i] <= c
    OBVIOUS
  <2>1. CASE i = n
    BY <1>9, <2>1
  <2>2. CASE i # n
    <3>1. i \in 1 .. (n - 1) /\ s[i] \in Nat
      BY <1>1, <1>8, <2>2
    <3>2. QED
      BY <1>7, <1>9, <3>1
  <2>3. QED
    BY <2>1, <2>2
<1>11. QED
  BY <1>5, <1>10

(* A sequence of numbers has a greatest one.                               *)
LEMMA GreatestExists ==
    ASSUME NEW s \in Seq(Nat), s # <<>>
    PROVE  \E m \in 1 .. Len(s) : \A i \in 1 .. Len(s) : s[i] <= s[m]
<1> DEFINE Bounds == {b \in Nat : \A i \in 1 .. Len(s) : s[i] <= b}
<1>1. /\ Len(s) \in Nat \ {0}
      /\ \A i \in 1 .. Len(s) : s[i] \in Nat
  OBVIOUS
<1>2. PICK b \in Bounds : \A c \in Bounds : b <= c
  <2>1. Bounds \in SUBSET Nat /\ Bounds # {}
    BY UpperBoundExists
  <2> HIDE DEF Bounds
  <2>2. QED
    BY <2>1, LeastExists
<1>3. PICK m \in 1 .. Len(s) : s[m] >= b
  <2>1. CASE b = 0
    <3>1. 1 \in 1 .. Len(s) /\ s[1] \in Nat
      BY <1>1
    <3>2. QED
      BY <2>1, <3>1
  <2>2. CASE b # 0
    <3>1. b - 1 \in Nat /\ b - 1 \notin Bounds
      BY <1>2, <2>2
    <3>2. PICK m \in 1 .. Len(s) : ~ (s[m] <= b - 1)
      BY <3>1
    <3>3. QED
      BY <1>1, <3>2
  <2>3. QED
    BY <2>1, <2>2
<1>4. ASSUME NEW i \in 1 .. Len(s)
      PROVE  s[i] <= s[m]
  <2>1. s[i] \in Nat /\ s[m] \in Nat /\ b \in Nat /\ s[i] <= b
    BY <1>1
  <2>2. QED
    BY <1>3, <2>1
<1>5. QED
  BY <1>4

(* Integer division: its type, and how it keeps an order.                  *)
LEMMA DivNat ==
    ASSUME NEW a \in Nat, NEW b \in Nat \ {0}
    PROVE  a \div b \in Nat
  OBVIOUS

(* Who is at most b times c is, divided by b, at most c.                   *)
LEMMA DivAtMost ==
    ASSUME NEW a \in Nat, NEW b \in Nat \ {0}, NEW c \in Nat, a <= b * c
    PROVE  a \div b <= c
  OBVIOUS

(* Division keeps the order.                                               *)
LEMMA DivMonotone ==
    ASSUME NEW a \in Nat, NEW b \in Nat \ {0}, NEW c \in Nat, a <= c
    PROVE  a \div b <= c \div b
<1>1. a < b * (c \div b) + b /\ c \div b \in Nat
  OBVIOUS
<1>2. QED
  BY <1>1

(* Multiplication keeps the order.                                         *)
LEMMA TimesMonotone ==
    ASSUME NEW a \in Nat, NEW b \in Nat, NEW c \in Nat, a <= b
    PROVE  a * c <= b * c /\ a * c \in Nat /\ b * c \in Nat
  OBVIOUS

(* The parameters, one by one.                                             *)
LEMMA Parameters ==
    /\ Rtts \subseteq Nat \ {0} /\ NoAnswer \notin Rtts
    /\ Configured \in Nat \ {0} /\ Floor \in Nat \ {0} /\ Multiplier \in Nat \ {0}
    /\ BurstN \in Nat \ {0} /\ MaxN \in Nat \ {0}
    /\ Den \in Nat \ {0} /\ Unit \in Nat \ {0}
    /\ \A d \in Decays : d \in Nat /\ Den - d \in Nat
    /\ Slack \in Nat
<1>1. \A d \in Decays : d \in 1 .. Den - 1
  BY ProbeAssumption
<1>2. Den \in Nat \ {0}
  BY ProbeAssumption
<1>3. \A d \in Decays : d \in Nat /\ Den - d \in Nat
  BY <1>1, <1>2
<1>4. QED
  BY ProbeAssumption, <1>3

----------------------------------------------------------------------------
(* The data of a burst.                                                    *)

(* However low or high the baseline, the timeout is positive and at most   *)
(* the configured one.                                                     *)
LEMMA TimeoutRange ==
    ASSUME rttBaseline \in Nat
    PROVE  AdaptiveTimeout \in 1 .. Configured
<1> DEFINE scaled == (rttBaseline * Multiplier) \div Unit
<1>1. rttBaseline * Multiplier \in Nat
  BY Parameters, TimesMonotone
<1>2. scaled \in Nat
  BY <1>1, Parameters, DivNat
<1> HIDE DEF scaled
<1>3. Smaller(Larger(scaled, Floor), Configured) \in 1 .. Configured
  BY <1>2, Parameters DEF Smaller, Larger
<1>4. Configured \in 1 .. Configured
  BY Parameters
<1>5. QED
  BY <1>3, <1>4 DEF AdaptiveTimeout, scaled

(* The median is one of the RTTs, if there is any: more than half of them  *)
(* do not exceed the greatest.                                             *)
LEMMA MedianType ==
    ASSUME rtts \in Seq(Nat \ {0})
    PROVE  Median \in Nat
<1> DEFINE Candidates == {rtt \in Range(rtts) : Cardinality(UpTo(rtt)) > Len(rtts) \div 2}
<1>1. SUFFICES ASSUME rtts # <<>>
               PROVE  Min(Candidates) \in Nat
  BY DEF Median
<1>2. rtts \in Seq(Nat) /\ Len(rtts) \in Nat \ {0} /\ DOMAIN rtts = 1 .. Len(rtts)
  BY <1>1
<1>3. PICK m \in 1 .. Len(rtts) : \A i \in 1 .. Len(rtts) : rtts[i] <= rtts[m]
  BY <1>1, <1>2, GreatestExists
<1>4. UpTo(rtts[m]) = 1 .. Len(rtts)
  BY <1>2, <1>3 DEF UpTo
<1>5. Cardinality(1 .. Len(rtts)) = Len(rtts)
  <2>1. Cardinality(1 .. Len(rtts)) = IF 1 > Len(rtts) THEN 0 ELSE Len(rtts) - 1 + 1
    BY <1>2, FS_Interval
  <2>2. QED
    BY <1>2, <2>1
<1>6. Len(rtts) > Len(rtts) \div 2
  BY <1>2
<1>7. rtts[m] \in Candidates
  BY <1>2, <1>3, <1>4, <1>5, <1>6 DEF Range
<1>8. Candidates \in SUBSET Nat
  BY <1>2 DEF Range
<1> HIDE DEF Candidates
<1>9. \E x \in Candidates : \A y \in Candidates : x <= y
  BY <1>7, <1>8, LeastExists
<1>10. Min(Candidates) \in Candidates
  BY <1>9 DEF Min
<1>11. QED
  BY <1>8, <1>10

(* The clamp keeps the types and the rate.                                 *)
LEMMA ClampedRate ==
    ASSUME NEW k \in Nat, NEW n \in Nat, k <= n
    PROVE  /\ Clamped(k, n).k \in Nat /\ Clamped(k, n).n \in Nat
           /\ Clamped(k, n).k <= Clamped(k, n).n
           /\ Clamped(k, n).n <= MaxN * Unit
<1> DEFINE most == MaxN * Unit
<1>1. most \in Nat
  BY Parameters, TimesMonotone
<1>2. CASE n > most
  <2>1. k * most <= n * most /\ k * most \in Nat
    BY <1>1, TimesMonotone
  <2>2. k * MaxN * Unit = k * most
    BY Parameters
  <2> HIDE DEF most
  <2>3. n \in Nat \ {0}
    BY <1>1, <1>2
  <2>4. (k * most) \div n \in Nat /\ (k * most) \div n <= most
    BY <1>1, <2>1, <2>3, DivNat, DivAtMost
  <2>5. Clamped(k, n) = [k |-> (k * most) \div n, n |-> most]
    BY <1>2, <2>2 DEF Clamped, most
  <2>6. QED
    BY <1>1, <2>4, <2>5 DEF most
<1>3. CASE ~ (n > most)
  <2>1. Clamped(k, n) = [k |-> k, n |-> n]
    BY <1>3 DEF Clamped
  <2> HIDE DEF most
  <2>2. n <= most
    BY <1>1, <1>3
  <2>3. QED
    BY <2>1, <2>2 DEF most
<1>4. QED
  BY <1>2, <1>3

(* A blend of two baselines is a baseline.                                 *)
LEMMA BlendType ==
    ASSUME NEW new \in Nat, NEW old \in Nat, NEW d \in Decays
    PROVE  Blend(new, old, d) \in Nat
<1>1. (Den - d) * new \in Nat /\ d * old \in Nat
  BY Parameters, TimesMonotone
<1>2. (IF new > old THEN Den - 1 ELSE 0) \in Nat
  BY Parameters
<1> DEFINE top == (Den - d) * new + d * old + (IF new > old THEN Den - 1 ELSE 0)
<1>3. top \in Nat
  BY <1>1, <1>2
<1> HIDE DEF top
<1>4. top \div Den \in Nat
  BY <1>3, Parameters, DivNat
<1>5. QED
  BY <1>4 DEF Blend, top

(* Folding a burst in keeps the counts a rate, whatever the gap.           *)
LEMMA IngestRate ==
    ASSUME effectiveK \in Nat, effectiveN \in Nat, rttBaseline \in Nat,
           effectiveK <= effectiveN,
           NEW lost \in 0 .. BurstN, NEW median \in Nat, NEW d \in Decays,
           Ingest(lost, median, d)
    PROVE  /\ effectiveK' \in Nat /\ effectiveN' \in Nat /\ rttBaseline' \in Nat
           /\ EvidenceIsARate'
<1> DEFINE new == lost * Unit
           probes == BurstN * Unit
           oldK == (effectiveK * d) \div Den
           oldN == (effectiveN * d) \div Den
           k == IF fresh THEN new ELSE oldK + new
           n == IF fresh THEN probes ELSE oldN + probes
<1>1. d \in Nat /\ lost \in Nat /\ lost <= BurstN
  BY Parameters
<1>2. new \in Nat /\ probes \in Nat /\ new <= probes
  BY <1>1, Parameters, TimesMonotone
<1>3. /\ effectiveK * d \in Nat /\ effectiveN * d \in Nat
      /\ effectiveK * d <= effectiveN * d
  BY <1>1, TimesMonotone
<1>4. oldK \in Nat /\ oldN \in Nat /\ oldK <= oldN
  BY <1>3, Parameters, DivNat, DivMonotone
<1>5. effectiveK' = Clamped(k, n).k /\ effectiveN' = Clamped(k, n).n
  BY DEF Ingest
<1>6. rttBaseline' \in Nat
  <2>1. median * Unit \in Nat
    BY Parameters, TimesMonotone
  <2>2. Blend(median * Unit, rttBaseline, d) \in Nat
    BY <2>1, BlendType
  <2>3. QED
    BY <2>1, <2>2 DEF Ingest
<1> HIDE DEF new, probes, oldK, oldN
<1>7. k \in Nat /\ n \in Nat /\ k <= n
  BY <1>2, <1>4
<1> HIDE DEF k, n
<1>8. /\ Clamped(k, n).k \in Nat /\ Clamped(k, n).n \in Nat
      /\ Clamped(k, n).k <= Clamped(k, n).n
      /\ Clamped(k, n).n <= MaxN * Unit
  BY <1>7, ClampedRate
<1>9. EvidenceIsARate'
  BY <1>5, <1>8 DEF EvidenceIsARate
<1>10. QED
  BY <1>5, <1>6, <1>8, <1>9

----------------------------------------------------------------------------
(* The inductive invariant: every reply that was received or may still be  *)
(* is one answer of the peer in this burst, and between two bursts nothing *)
(* is left of the last one.                                                *)
Conserved ==
    /\ IsFiniteSet(inFlight)
    /\ answered <= sent
    /\ Len(rtts) + Cardinality(inFlight) <= answered

AtRest == ~ bursting => now = 0 /\ sent = 0 /\ answered = 0 /\ inFlight = {} /\ rtts = <<>>

ProbeInv == TypeOK /\ EvidenceIsARate /\ Conserved /\ AtRest /\ BurstIsBounded

(* A leg that was never probed has no evidence, and no burst.              *)
LEMMA InitInvariant == Init => ProbeInv
<1> SUFFICES ASSUME Init
             PROVE  ProbeInv
  OBVIOUS
<1>1. TypeOK
  <2>1. Configured \in 1 .. Configured /\ 0 \in 0 .. BurstN
    BY Parameters
  <2>2. rtts \in Seq(Nat \ {0}) /\ Len(rtts) = 0
    BY DEF Init
  <2>3. inFlight \subseteq [probe : 1 .. BurstN, at : Nat]
    BY DEF Init
  <2>4. fresh \in BOOLEAN /\ bursting \in BOOLEAN /\ steady \in Rtts \cup {NoAnswer}
    BY DEF Init
  <2>5. effectiveK = 0 /\ effectiveN = 0 /\ rttBaseline = 0 /\ timeout = Configured
        /\ sent = 0 /\ now = 0 /\ answered = 0 /\ lastReplied = 0
    BY DEF Init
  <2>6. QED
    BY <2>1, <2>2, <2>3, <2>4, <2>5 DEF TypeOK
<1>2. EvidenceIsARate
  <2>1. MaxN * Unit \in Nat
    BY Parameters, TimesMonotone
  <2>2. QED
    BY <2>1 DEF Init, EvidenceIsARate
<1>3. Conserved
  BY FS_EmptySet DEF Init, Conserved
<1>4. AtRest
  BY DEF Init, AtRest
<1>5. BurstIsBounded
  <2>1. Configured * BurstN \in Nat
    BY Parameters, TimesMonotone
  <2>2. QED
    BY <2>1, Parameters DEF Init, BurstIsBounded
<1>6. QED
  BY <1>1, <1>2, <1>3, <1>4, <1>5 DEF ProbeInv

(* A burst starts with a timeout in range and nothing counted.             *)
LEMMA StartBurstInvariant == ProbeInv /\ StartBurst => ProbeInv'
<1> SUFFICES ASSUME ProbeInv, StartBurst
             PROVE  ProbeInv'
  OBVIOUS
<1>1. timeout' \in 1 .. Configured
  BY TimeoutRange DEF ProbeInv, TypeOK, StartBurst
<1>2. TypeOK'
  BY <1>1 DEF ProbeInv, TypeOK, StartBurst, accVars
<1>3. EvidenceIsARate'
  BY DEF ProbeInv, EvidenceIsARate, StartBurst, accVars
<1>4. Conserved'
  BY DEF ProbeInv, Conserved, StartBurst
<1>5. AtRest'
  BY DEF AtRest, StartBurst
<1>6. BurstIsBounded'
  <2>1. timeout' \in Nat \ {0} /\ timeout' <= Configured
    BY <1>1, Parameters
  <2>2. PICK whole \in Nat : whole = timeout' * BurstN
    BY <2>1, Parameters, TimesMonotone
  <2>3. now' = 0
    BY DEF ProbeInv, AtRest, StartBurst
  <2>4. Slack \in Nat
    BY Parameters
  <2>5. now' < whole + timeout' + Slack
    BY <2>1, <2>2, <2>3, <2>4
  <2>6. QED
    BY <2>1, <2>2, <2>5 DEF BurstIsBounded
<1>7. QED
  BY <1>2, <1>3, <1>4, <1>5, <1>6 DEF ProbeInv

(* What every probe of a burst leaves as it is: the evidence, the types    *)
(* that no probe touches, and a burst in progress.                         *)
LEMMA AttemptFacts ==
    ASSUME ProbeInv, NEW r \in Rtts \cup {NoAnswer}, Attempt(r)
    PROVE  /\ TypeOK
           /\ UNCHANGED <<accVars, timeout, lastReplied, steady>>
           /\ bursting /\ bursting' = TRUE
           /\ EvidenceIsARate' /\ AtRest'
           /\ now \in Nat /\ timeout \in Nat \ {0} /\ timeout <= Configured
           /\ sent \in Nat /\ sent' = sent + 1 /\ sent + 1 \in 1 .. BurstN
           /\ answered \in Nat /\ answered' = IF r = NoAnswer THEN answered ELSE answered + 1
           /\ answered' <= sent' /\ answered' \in 0 .. BurstN
           /\ timeout * BurstN \in Nat /\ now < timeout * BurstN
<1>1. TypeOK
  BY DEF ProbeInv
<1>2. /\ bursting /\ bursting' = TRUE
      /\ UNCHANGED <<accVars, timeout, lastReplied, steady>>
      /\ sent < BurstN /\ now < timeout * BurstN
      /\ sent' = sent + 1
      /\ answered' = IF r = NoAnswer THEN answered ELSE answered + 1
  BY <1>1 DEF Attempt, More, TypeOK
<1>3. /\ now \in Nat /\ timeout \in Nat \ {0} /\ timeout <= Configured
      /\ sent \in Nat /\ sent + 1 \in 1 .. BurstN /\ answered \in Nat
  BY <1>1, <1>2, Parameters DEF TypeOK
<1>4. timeout * BurstN \in Nat
  BY <1>3, Parameters, TimesMonotone
<1>5. answered' <= sent' /\ answered' \in 0 .. BurstN
  BY <1>2, <1>3, Parameters DEF ProbeInv, Conserved
<1>6. EvidenceIsARate' /\ AtRest'
  BY <1>2 DEF ProbeInv, EvidenceIsARate, AtRest, accVars
<1>7. QED
  BY <1>1, <1>2, <1>3, <1>4, <1>5, <1>6

(* The replies to be read: those of the burst so far and the new one.      *)
LEMMA RepliesFacts ==
    ASSUME ProbeInv, NEW r \in Rtts \cup {NoAnswer}, Attempt(r)
    PROVE  /\ Replies(r) \subseteq [probe : 1 .. BurstN, at : Nat]
           /\ IsFiniteSet(Replies(r))
           /\ Cardinality(Replies(r)) \in Nat
           /\ Len(rtts) + Cardinality(Replies(r)) <= answered'
<1>1. /\ sent + 1 \in 1 .. BurstN /\ now \in Nat /\ answered \in Nat
      /\ answered' = IF r = NoAnswer THEN answered ELSE answered + 1
  BY AttemptFacts
<1>2. inFlight \subseteq [probe : 1 .. BurstN, at : Nat] /\ Len(rtts) \in Nat
  BY DEF ProbeInv, TypeOK
<1>3. IsFiniteSet(inFlight) /\ Len(rtts) + Cardinality(inFlight) <= answered
  BY DEF ProbeInv, Conserved
<1>4. Cardinality(inFlight) \in Nat
  BY <1>3, FS_CardinalityType
<1>5. CASE r = NoAnswer
  BY <1>1, <1>2, <1>3, <1>4, <1>5 DEF Replies
<1>6. CASE r # NoAnswer
  <2> DEFINE reply == [probe |-> sent + 1, at |-> now + r]
  <2>1. r \in Nat
    BY <1>6, Parameters
  <2>2. reply \in [probe : 1 .. BurstN, at : Nat]
    BY <1>1, <2>1
  <2> HIDE DEF reply
  <2>3. Replies(r) = inFlight \cup {reply}
    BY <1>6 DEF Replies, reply
  <2>4. IsFiniteSet(inFlight \cup {reply})
        /\ Cardinality(inFlight \cup {reply}) =
             IF reply \in inFlight THEN Cardinality(inFlight) ELSE Cardinality(inFlight) + 1
    BY <1>3, FS_AddElement
  <2>5. /\ Cardinality(inFlight \cup {reply}) \in Nat
        /\ Cardinality(inFlight \cup {reply}) <= Cardinality(inFlight) + 1
    BY <1>4, <2>4
  <2>6. Len(rtts) + Cardinality(inFlight \cup {reply}) <= answered'
    BY <1>1, <1>2, <1>3, <1>4, <1>6, <2>5
  <2>7. QED
    BY <1>2, <2>2, <2>3, <2>4, <2>5, <2>6
<1>7. QED
  BY <1>5, <1>6

(* A wait that began before the burst's deadline ends soon after it.       *)
LEMMA WaitIsBounded ==
    ASSUME ProbeInv, NEW r \in Rtts \cup {NoAnswer}, Attempt(r),
           now' \in Nat, now' <= now + timeout + Slack
    PROVE  BurstIsBounded'
<1> DEFINE whole == timeout * BurstN
<1>1. /\ now \in Nat /\ timeout \in Nat /\ timeout' = timeout /\ timeout <= Configured
      /\ whole \in Nat /\ now < whole
  BY AttemptFacts
<1>2. timeout' * BurstN = whole
  BY <1>1
<1> HIDE DEF whole
<1>3. now' < whole + timeout' + Slack
  BY <1>1, Parameters
<1>4. QED
  BY <1>1, <1>2, <1>3 DEF BurstIsBounded

(* When the socket wakes up, time has passed, but no more than the timeout *)
(* and the slack.                                                          *)
LEMMA WakeUpFacts ==
    ASSUME ProbeInv, NEW r \in Rtts \cup {NoAnswer}, Attempt(r), NEW wake \in WakeUps
    PROVE  wake \in Nat /\ now <= wake /\ wake <= now + timeout + Slack
<1>1. PICK over \in {0, Slack} : wake = now + timeout + over
  BY DEF WakeUps
<1>2. now \in Nat /\ timeout \in Nat
  BY AttemptFacts
<1>3. QED
  BY <1>1, <1>2, Parameters

(* A reply that is read was sent in this burst, and is read once.          *)
LEMMA AnsweredInvariant ==
    ASSUME ProbeInv, NEW r \in Rtts \cup {NoAnswer}, Answered(r)
    PROVE  ProbeInv'
<1>1. Attempt(r)
  BY DEF Answered
<1>2. PICK reply \in Replies(r), wake \in WakeUps :
        LET read == IF reply.at <= now + timeout THEN Larger(reply.at, now) ELSE wake
        IN  /\ rtts' = Append(rtts, Larger(read - now, 1))
            /\ now' = read
            /\ inFlight' = Replies(r) \ {reply}
  BY DEF Answered
<1> DEFINE read == IF reply.at <= now + timeout THEN Larger(reply.at, now) ELSE wake
           rtt == Larger(read - now, 1)
<1>3. rtts' = Append(rtts, rtt) /\ now' = read /\ inFlight' = Replies(r) \ {reply}
  BY <1>2
<1>4. /\ now \in Nat /\ timeout \in Nat /\ sent \in Nat /\ sent' = sent + 1
      /\ sent + 1 \in 1 .. BurstN
      /\ wake \in Nat /\ now <= wake /\ wake <= now + timeout + Slack
      /\ reply.at \in Nat
  <2>1. reply \in [probe : 1 .. BurstN, at : Nat]
    BY <1>1, <1>2, RepliesFacts
  <2>2. wake \in WakeUps
    BY <1>2
  <2>3. wake \in Nat /\ now <= wake /\ wake <= now + timeout + Slack
    BY <1>1, <2>2, WakeUpFacts
  <2>4. QED
    BY <1>1, <2>1, <2>3, AttemptFacts
<1>5. read \in Nat /\ now <= read /\ read <= now + timeout + Slack
  BY <1>4, Parameters DEF Larger
<1> HIDE DEF read
<1>6. rtt \in Nat \ {0}
  BY <1>4, <1>5 DEF Larger
<1> HIDE DEF rtt
<1>7. /\ rtts \in Seq(Nat \ {0}) /\ Len(rtts) \in Nat /\ Len(rtts) <= sent
  BY DEF ProbeInv, TypeOK
<1>8. /\ rtts' \in Seq(Nat \ {0}) /\ Len(rtts') = Len(rtts) + 1
  BY <1>3, <1>6, <1>7
<1>9. TypeOK'
  <2>1. inFlight' \subseteq [probe : 1 .. BurstN, at : Nat]
    BY <1>1, <1>3, RepliesFacts
  <2>2. now' \in Nat /\ sent' \in 0 .. BurstN /\ Len(rtts') <= sent'
    BY <1>3, <1>4, <1>5, <1>7, <1>8
  <2>3. QED
    BY <1>1, <1>8, <2>1, <2>2, AttemptFacts DEF TypeOK, accVars
<1>10. Conserved'
  <2>1. /\ IsFiniteSet(Replies(r)) /\ Cardinality(Replies(r)) \in Nat
        /\ Len(rtts) + Cardinality(Replies(r)) <= answered'
    BY <1>1, RepliesFacts
  <2>2. /\ IsFiniteSet(Replies(r) \ {reply})
        /\ Cardinality(Replies(r) \ {reply}) = Cardinality(Replies(r)) - 1
    BY <1>2, <2>1, FS_RemoveElement
  <2>3. answered' <= sent' /\ answered' \in 0 .. BurstN
    BY <1>1, AttemptFacts
  <2>4. answered' \in Nat
    BY <2>3, Parameters
  <2>5. Len(rtts') + Cardinality(inFlight') <= answered'
    BY <1>3, <1>7, <1>8, <2>1, <2>2, <2>4
  <2>6. QED
    BY <1>3, <2>2, <2>3, <2>5 DEF Conserved
<1>11. BurstIsBounded'
  BY <1>1, <1>3, <1>5, WaitIsBounded
<1>12. QED
  BY <1>1, <1>9, <1>10, <1>11, AttemptFacts DEF ProbeInv

(* A probe without an answer costs a timeout and counts nothing.           *)
LEMMA TimedOutInvariant ==
    ASSUME ProbeInv, NEW r \in Rtts \cup {NoAnswer}, TimedOut(r)
    PROVE  ProbeInv'
<1>1. Attempt(r) /\ inFlight' = Replies(r) /\ rtts' = rtts
  BY DEF TimedOut
<1>2. PICK wake \in WakeUps : now' = wake
  BY DEF TimedOut
<1>3. now' \in Nat /\ now' <= now + timeout + Slack
  BY <1>1, <1>2, WakeUpFacts
<1>4. /\ rtts \in Seq(Nat \ {0}) /\ Len(rtts) \in Nat /\ Len(rtts) <= sent
  BY DEF ProbeInv, TypeOK
<1>5. TypeOK'
  <2>0. sent \in Nat /\ sent' = sent + 1 /\ sent + 1 \in 1 .. BurstN
    BY <1>1, AttemptFacts
  <2>1. sent' \in 0 .. BurstN /\ Len(rtts') <= sent'
    BY <1>1, <1>4, <2>0, Parameters
  <2>2. QED
    BY <1>1, <1>3, <1>4, <2>1, AttemptFacts, RepliesFacts DEF TypeOK, accVars
<1>6. Conserved'
  BY <1>1, AttemptFacts, RepliesFacts DEF Conserved
<1>7. BurstIsBounded'
  BY <1>1, <1>3, WaitIsBounded
<1>8. QED
  BY <1>1, <1>5, <1>6, <1>7, AttemptFacts DEF ProbeInv

(* A probe that was not sent costs no time.                                *)
LEMMA SendFailsInvariant ==
    ASSUME ProbeInv, SendFails
    PROVE  ProbeInv'
<1> DEFINE r == NoAnswer
<1>1. /\ r \in Rtts \cup {NoAnswer} /\ Attempt(r)
      /\ now' = now /\ inFlight' = Replies(r) /\ rtts' = rtts
  BY DEF SendFails, Replies
<1> HIDE DEF r
<1>2. now' \in Nat /\ now' <= now + timeout + Slack
  <2>1. now \in Nat /\ timeout \in Nat
    BY <1>1, AttemptFacts
  <2>2. Slack \in Nat
    BY Parameters
  <2>3. QED
    BY <1>1, <2>1, <2>2
<1>3. /\ rtts \in Seq(Nat \ {0}) /\ Len(rtts) \in Nat /\ Len(rtts) <= sent
  BY DEF ProbeInv, TypeOK
<1>4. TypeOK'
  <2>0. sent \in Nat /\ sent' = sent + 1 /\ sent + 1 \in 1 .. BurstN
    BY <1>1, AttemptFacts
  <2>1. sent' \in 0 .. BurstN /\ Len(rtts') <= sent'
    BY <1>1, <1>3, <2>0, Parameters
  <2>2. QED
    BY <1>1, <1>2, <1>3, <2>1, AttemptFacts, RepliesFacts DEF TypeOK, accVars
<1>5. Conserved'
  BY <1>1, AttemptFacts, RepliesFacts DEF Conserved
<1>6. BurstIsBounded'
  BY <1>1, <1>2, WaitIsBounded
<1>7. QED
  BY <1>1, <1>4, <1>5, <1>6, AttemptFacts DEF ProbeInv

(* Ingest decays, adds and clamps both counts together, and keeps the      *)
(* baseline an RTT.                                                        *)
LEMMA EndBurstInvariant ==
    ASSUME ProbeInv, NEW d \in Decays, EndBurst(d)
    PROVE  ProbeInv'
<1>1. TypeOK
  BY DEF ProbeInv
<1> DEFINE lost == BurstN - Len(rtts)
<1>2. Len(rtts) \in 0 .. BurstN /\ lost \in 0 .. BurstN
  BY <1>1, Parameters DEF TypeOK
<1>3. Median \in Nat
  BY <1>1, MedianType DEF TypeOK
<1>4. Ingest(lost, Median, d)
  BY DEF EndBurst
<1> HIDE DEF lost
<1>5. /\ effectiveK' \in Nat /\ effectiveN' \in Nat /\ rttBaseline' \in Nat
      /\ EvidenceIsARate'
  <2>1. /\ effectiveK \in Nat /\ effectiveN \in Nat /\ rttBaseline \in Nat
        /\ effectiveK <= effectiveN
    BY DEF ProbeInv, TypeOK, EvidenceIsARate
  <2>2. QED
    BY <1>2, <1>3, <1>4, <2>1, IngestRate
<1>6. /\ bursting' = FALSE /\ lastReplied' \in 0 .. BurstN /\ fresh' = FALSE
      /\ inFlight' = {} /\ sent' = 0 /\ now' = 0 /\ rtts' = <<>> /\ answered' = 0
      /\ timeout' = timeout /\ steady' = steady
  BY <1>2 DEF EndBurst, Ingest
<1>7. TypeOK'
  <2>1. rtts' \in Seq(Nat \ {0}) /\ Len(rtts') = 0
    BY <1>6
  <2>2. fresh' \in BOOLEAN /\ bursting' \in BOOLEAN /\ steady' \in Rtts \cup {NoAnswer}
    BY <1>1, <1>6 DEF TypeOK
  <2>3. timeout' \in 1 .. Configured /\ 0 \in 0 .. BurstN
    BY <1>1, <1>6, Parameters DEF TypeOK
  <2>4. inFlight' \subseteq [probe : 1 .. BurstN, at : Nat]
    BY <1>6
  <2>5. QED
    BY <1>5, <1>6, <2>1, <2>2, <2>3, <2>4 DEF TypeOK
<1>8. Conserved'
  BY <1>6, FS_EmptySet DEF Conserved
<1>9. AtRest'
  BY <1>6 DEF AtRest
<1>10. BurstIsBounded'
  <2> DEFINE whole == timeout * BurstN
  <2>1. timeout \in Nat \ {0} /\ timeout <= Configured
    BY <1>1, Parameters DEF TypeOK
  <2>2. whole \in Nat /\ timeout' * BurstN = whole
    BY <1>6, <2>1, Parameters, TimesMonotone
  <2> HIDE DEF whole
  <2>3. now' < whole + timeout' + Slack
    BY <1>6, <2>1, <2>2, Parameters
  <2>4. QED
    BY <1>6, <2>1, <2>2, <2>3 DEF BurstIsBounded
<1>11. QED
  BY <1>5, <1>7, <1>8, <1>9, <1>10 DEF ProbeInv

(* That the path settles changes nothing the invariant speaks of.          *)
LEMMA SettleInvariant ==
    ASSUME ProbeInv, NEW r \in Rtts, Settle(r)
    PROVE  ProbeInv'
<1>1. UNCHANGED <<effectiveK, effectiveN, rttBaseline, fresh, bursting, timeout, sent, now,
                  inFlight, rtts, answered, lastReplied>> /\ steady' = r
  BY DEF Settle, accVars, burstVars
<1>2. TypeOK'
  BY <1>1 DEF ProbeInv, TypeOK
<1>3. EvidenceIsARate' /\ Conserved' /\ AtRest' /\ BurstIsBounded'
  BY <1>1 DEF ProbeInv, EvidenceIsARate, Conserved, AtRest, BurstIsBounded
<1>4. QED
  BY <1>2, <1>3 DEF ProbeInv

(* Every step keeps the invariant.                                         *)
LEMMA StepInvariant == ProbeInv /\ [Next]_vars => ProbeInv'
<1> SUFFICES ASSUME ProbeInv, [Next]_vars
             PROVE  ProbeInv'
  OBVIOUS
<1>1. CASE StartBurst
  BY <1>1, StartBurstInvariant
<1>2. ASSUME NEW r \in Rtts \cup {NoAnswer}, Answered(r) \/ TimedOut(r)
      PROVE  ProbeInv'
  BY <1>2, AnsweredInvariant, TimedOutInvariant
<1>3. CASE SendFails
  BY <1>3, SendFailsInvariant
<1>4. ASSUME NEW d \in Decays, EndBurst(d)
      PROVE  ProbeInv'
  BY <1>4, EndBurstInvariant
<1>5. ASSUME NEW r \in Rtts, Settle(r)
      PROVE  ProbeInv'
  BY <1>5, SettleInvariant
<1>6. CASE UNCHANGED vars
  <2>1. TypeOK'
    BY <1>6 DEF ProbeInv, TypeOK, vars, accVars, burstVars
  <2>2. EvidenceIsARate' /\ Conserved' /\ AtRest' /\ BurstIsBounded'
    BY <1>6 DEF ProbeInv, EvidenceIsARate, Conserved, AtRest, BurstIsBounded,
                vars, accVars, burstVars
  <2>3. QED
    BY <2>1, <2>2 DEF ProbeInv
<1>7. QED
  BY <1>1, <1>2, <1>3, <1>4, <1>5, <1>6 DEF Next, ProbeStep

----------------------------------------------------------------------------
(* The inductive invariant holds in every reachable state.                 *)
THEOREM ProbeInvariant == Spec => []ProbeInv
<1>1. Init => ProbeInv
  BY InitInvariant
<1>2. ProbeInv /\ [Next]_vars => ProbeInv'
  BY StepInvariant
<1>3. QED
  BY <1>1, <1>2, PTL DEF Spec

(* Every variable of the prober keeps its type; in particular the timeout  *)
(* is never zero, which the socket would take for "wait for ever".         *)
THEOREM ProbeTypes == Spec => []TypeOK
<1>1. ProbeInv => TypeOK
  BY DEF ProbeInv
<1>2. QED
  BY <1>1, ProbeInvariant, PTL

(* No decay and no clamp makes the evidence of ProbeAccumulator anything   *)
(* but a loss rate over at most maxN probes.                               *)
THEOREM EvidenceStaysARate == Spec => []EvidenceIsARate
<1>1. ProbeInv => EvidenceIsARate
  BY DEF ProbeInv
<1>2. QED
  BY <1>1, ProbeInvariant, PTL

(* However replies and timeouts interleave, ProbeLegBurst counts no reply  *)
(* twice and none of an earlier burst.                                     *)
THEOREM RepliesBelong == Spec => []RepliesAreThisBursts
<1>1. ProbeInv => RepliesAreThisBursts
  <2> SUFFICES ASSUME ProbeInv
               PROVE  Len(rtts) <= answered
    BY DEF RepliesAreThisBursts
  <2>1. IsFiniteSet(inFlight) /\ Len(rtts) + Cardinality(inFlight) <= answered
    BY DEF ProbeInv, Conserved
  <2>2. Len(rtts) \in Nat /\ answered \in Nat
    BY DEF ProbeInv, TypeOK
  <2>3. Cardinality(inFlight) \in Nat
    BY <2>1, FS_CardinalityType
  <2>4. QED
    BY <2>1, <2>2, <2>3
<1>2. QED
  BY <1>1, ProbeInvariant, PTL

(* A burst holds the control loop up for a bounded time, whatever the path *)
(* does and however late the socket wakes up.                              *)
THEOREM BurstsAreBounded == Spec => []BurstIsBounded
<1>1. ProbeInv => BurstIsBounded
  BY DEF ProbeInv
<1>2. QED
  BY <1>1, ProbeInvariant, PTL
=============================================================================

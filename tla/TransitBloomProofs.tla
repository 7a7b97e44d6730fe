------------------------- MODULE TransitBloomProofs -------------------------
(***************************************************************************)
(* What the filter of retransmits is worth, for any number of CPUs,        *)
(* packets, keys, hashes and words: the invariants and the proofs.         *)
(***************************************************************************)
EXTENDS TransitBloom, TLAPS, FiniteSetTheorems

(* The step of the packet a CPU is at work on.                             *)
StepOf(c) ==
    \/ \E k \in Keys \cup {NoKey}, p \in Paths : Arrive(c, k, p)
    \/ Create(c) \/ MapFull(c)
    \/ Roll(c) \/ RollWins(c) \/ RollLoses(c) \/ Bump(c)
    \/ LoadGen(c)
    \/ Test(c) \/ Set(c)
    \/ Claim(c) \/ ClaimLost(c) \/ Clear(c) \/ Or(c)
    \/ Verdict(c)

Halves == 0 .. 1

Packet == [key : Keys \cup {NoKey}, path : Paths \cup {Never}, at : Nat, saw : Nat,
           gen : Nat, i : Nat, seen : BOOLEAN, alone : BOOLEAN]

Filtering == {"load", "test", "set", "claim", "clear", "or"}
Hashing == {"test", "set", "claim", "clear", "or"}

MapTypes ==
    /\ entries \in SUBSET Paths /\ IsFiniteSet(entries) /\ Cardinality(entries) <= MapSize
    /\ stats \in [Paths -> [segments : Nat, retransmits : Nat]]

BloomTypes ==
    /\ now \in 0 .. MaxTime
    /\ epoch \in [gen : Nat, start_ns : 0 .. MaxTime] /\ epoch.start_ns <= now
    /\ words \in [Words -> [Halves -> [gen : Nat, bits : SUBSET Bits]]]

CpuTypes ==
    /\ pc \in [Cpus -> Steps]
    /\ packet \in [Cpus -> Packet]
    /\ \A c \in Cpus :
         /\ pc[c] = "idle" => packet[c] = NoPacket
         /\ pc[c] # "idle" => packet[c].path \in Paths
         /\ packet[c].at <= now
         /\ pc[c] \in Filtering => packet[c].key \in Keys
         /\ pc[c] \in Hashing => packet[c].i \in 1 .. Len(Hash[packet[c].key])

HistoryTypes ==
    /\ arrived \in 0 .. MaxPackets
    /\ recorded \in [Keys -> {Never} \cup 0 .. MaxTime]
    /\ born \in [Bits -> {Never} \cup Nat]

Types == MapTypes /\ BloomTypes /\ CpuTypes /\ HistoryTypes
-----------------------------------------------------------------------------
(* The types.                                                              *)

LEMMA NextIsStep == Next <=> Elapse \/ \E c \in Cpus : StepOf(c)
  BY DEF Next, StepOf

LEMMA NoPacketType == NoPacket \in Packet
  BY DEF NoPacket, Packet

LEMMA InitTypes == Init => Types
<1>. SUFFICES ASSUME Init PROVE Types
  OBVIOUS
<1>1. MapTypes
  BY FS_EmptySet, SizeAssumption DEF Init, MapTypes
<1>2. BloomTypes
  BY SizeAssumption DEF Init, BloomTypes, Halves
<1>3. CpuTypes
  BY NoPacketType, <1>2 DEF Init, CpuTypes, Steps, NoPacket, BloomTypes, Filtering, Hashing
<1>4. HistoryTypes
  BY SizeAssumption DEF Init, HistoryTypes, Never
<1>. QED  BY <1>1, <1>2, <1>3, <1>4 DEF Types

(* A hash of a packet at work, and the half of its word.                   *)
LEMMA BitType ==
    ASSUME Types, NEW c \in Cpus, pc[c] \in Hashing
    PROVE  /\ packet[c].key \in Keys /\ Hash[packet[c].key] \in Seq(Bits) \ {<<>>}
           /\ packet[c].i \in 1 .. Len(Hash[packet[c].key])
           /\ Len(Hash[packet[c].key]) \in Nat \ {0}
           /\ Bit(c) \in Bits /\ WordOf[Bit(c)] \in Words /\ packet[c].gen \in Nat
           /\ packet[c].gen % 2 \in Halves
           /\ Word(c) \in [gen : Nat, bits : SUBSET Bits]
<1>1. pc[c] \in Filtering
  BY DEF Filtering, Hashing
<1>2. packet[c] \in Packet /\ packet[c].key \in Keys /\ packet[c].i \in 1 .. Len(Hash[packet[c].key])
  BY <1>1 DEF Types, CpuTypes
<1>3. Hash[packet[c].key] \in Seq(Bits) \ {<<>>}
  BY <1>2, HashAssumption
<1>4. Len(Hash[packet[c].key]) \in Nat \ {0}
  BY <1>3
<1>5. Bit(c) \in Bits
  BY <1>2, <1>3 DEF Bit
<1>6. WordOf[Bit(c)] \in Words
  BY <1>5, HashAssumption
<1>7. packet[c].gen \in Nat /\ packet[c].gen % 2 \in Halves
  BY <1>2 DEF Packet, Halves
<1>8. Word(c) \in [gen : Nat, bits : SUBSET Bits]
  BY <1>6, <1>7 DEF Types, BloomTypes, Word
<1>. QED  BY <1>2, <1>3, <1>4, <1>5, <1>6, <1>7, <1>8

(* One half of one word changes.                                           *)
LEMMA OneWord ==
    ASSUME words \in [Words -> [Halves -> [gen : Nat, bits : SUBSET Bits]]],
           NEW w \in Words, NEW h \in Halves, NEW word \in [gen : Nat, bits : SUBSET Bits],
           words' = [words EXCEPT ![w][h] = word]
    PROVE  /\ words' \in [Words -> [Halves -> [gen : Nat, bits : SUBSET Bits]]]
           /\ words'[w][h] = word
           /\ \A v \in Words, g \in Halves : v # w \/ g # h => words'[v][g] = words[v][g]
<1>. DEFINE pair == [words[w] EXCEPT ![h] = word]
<1>1. words[w] \in [Halves -> [gen : Nat, bits : SUBSET Bits]]
  OBVIOUS
<1>2. pair \in [Halves -> [gen : Nat, bits : SUBSET Bits]] /\ pair[h] = word
      /\ \A g \in Halves \ {h} : pair[g] = words[w][g]
  BY <1>1
<1>3. words' = [words EXCEPT ![w] = pair]
  OBVIOUS
<1>. HIDE DEF pair
<1>4. words'[w] = pair /\ \A v \in Words \ {w} : words'[v] = words[v]
  BY <1>3
<1>. QED  BY <1>2, <1>3, <1>4

(* What Claim, Clear and Or do to a word.                                  *)
LEMMA ClaimedWord ==
    ASSUME Types, NEW c \in Cpus, Claim(c), NEW w, NEW h,
           w = WordOf[Bit(c)], h = packet[c].gen % 2
    PROVE  /\ words' \in [Words -> [Halves -> [gen : Nat, bits : SUBSET Bits]]]
           /\ w \in Words /\ h \in Halves
           /\ words'[w][h].gen = packet[c].gen
           /\ words'[w][h].bits = words[w][h].bits
           /\ \A v \in Words, g \in Halves : v # w \/ g # h => words'[v][g] = words[v][g]
<1>1. pc[c] \in Hashing
  BY DEF Claim, Hashing
<1>2. /\ words \in [Words -> [Halves -> [gen : Nat, bits : SUBSET Bits]]]
      /\ w \in Words /\ h \in Halves /\ packet[c].gen \in Nat /\ Bit(c) \in Bits
  BY <1>1, BitType DEF Types, BloomTypes
<1>. DEFINE old == words[w][h]
            new == [old EXCEPT !.gen = packet[c].gen]
<1>3. old \in [gen : Nat, bits : SUBSET Bits]
  BY <1>2
<1>4. new \in [gen : Nat, bits : SUBSET Bits] /\ new.gen = packet[c].gen /\ new.bits = old.bits
  BY <1>2, <1>3
<1>5. words' = [words EXCEPT ![w][h] = new]
  BY DEF Claim
<1>. HIDE DEF new
<1>. QED  BY <1>2, <1>4, <1>5, OneWord

LEMMA ClearedWord ==
    ASSUME Types, NEW c \in Cpus, Clear(c), NEW w, NEW h,
           w = WordOf[Bit(c)], h = packet[c].gen % 2
    PROVE  /\ words' \in [Words -> [Halves -> [gen : Nat, bits : SUBSET Bits]]]
           /\ w \in Words /\ h \in Halves
           /\ words'[w][h].gen = words[w][h].gen
           /\ \A b : b \notin words'[w][h].bits
           /\ \A v \in Words, g \in Halves : v # w \/ g # h => words'[v][g] = words[v][g]
<1>1. pc[c] \in Hashing
  BY DEF Clear, Hashing
<1>2. /\ words \in [Words -> [Halves -> [gen : Nat, bits : SUBSET Bits]]]
      /\ w \in Words /\ h \in Halves /\ packet[c].gen \in Nat /\ Bit(c) \in Bits
  BY <1>1, BitType DEF Types, BloomTypes
<1>. DEFINE old == words[w][h]
            new == [old EXCEPT !.bits = {}]
<1>3. old \in [gen : Nat, bits : SUBSET Bits]
  BY <1>2
<1>4. new \in [gen : Nat, bits : SUBSET Bits] /\ new.gen = old.gen /\ new.bits = {}
  BY <1>2, <1>3
<1>5. words' = [words EXCEPT ![w][h] = new]
  BY DEF Clear
<1>. HIDE DEF new
<1>. QED  BY <1>2, <1>4, <1>5, OneWord

LEMMA OredWord ==
    ASSUME Types, NEW c \in Cpus, Or(c), NEW w, NEW h,
           w = WordOf[Bit(c)], h = packet[c].gen % 2
    PROVE  /\ words' \in [Words -> [Halves -> [gen : Nat, bits : SUBSET Bits]]]
           /\ w \in Words /\ h \in Halves
           /\ words'[w][h].gen = words[w][h].gen
           /\ \A b : b \in words'[w][h].bits <=> b \in words[w][h].bits \/ b = Bit(c)
           /\ \A v \in Words, g \in Halves : v # w \/ g # h => words'[v][g] = words[v][g]
<1>1. pc[c] \in Hashing
  BY DEF Or, Hashing
<1>2. /\ words \in [Words -> [Halves -> [gen : Nat, bits : SUBSET Bits]]]
      /\ w \in Words /\ h \in Halves /\ packet[c].gen \in Nat /\ Bit(c) \in Bits
  BY <1>1, BitType DEF Types, BloomTypes
<1>. DEFINE old == words[w][h]
            new == [old EXCEPT !.bits = @ \cup {Bit(c)}]
<1>3. old \in [gen : Nat, bits : SUBSET Bits]
  BY <1>2
<1>4. new \in [gen : Nat, bits : SUBSET Bits] /\ new.gen = old.gen /\ new.bits = old.bits \cup {Bit(c)}
  BY <1>2, <1>3
<1>5. words' = [words EXCEPT ![w][h] = new]
  BY DEF Or
<1>. HIDE DEF new
<1>6. words' \in [Words -> [Halves -> [gen : Nat, bits : SUBSET Bits]]] /\ words'[w][h] = new
      /\ \A v \in Words, g \in Halves : v # w \/ g # h => words'[v][g] = words[v][g]
  BY <1>2, <1>4, <1>5, OneWord
<1>7. words'[w][h].bits = old.bits \cup {Bit(c)}
  BY <1>4, <1>6, Zenon
<1>. QED  BY <1>2, <1>4, <1>6, <1>7

LEMMA ElapseTypes == Types /\ Elapse => Types'
<1>. SUFFICES ASSUME Types, Elapse PROVE Types'
  OBVIOUS
<1>1. now' \in 0 .. MaxTime /\ now <= now'
  BY SizeAssumption DEF Types, BloomTypes, Elapse
<1>2. BloomTypes'
  BY <1>1, SizeAssumption DEF Types, BloomTypes, Elapse, bloomVars
<1>3. \A c \in Cpus : packet[c].at \in Nat
  BY DEF Types, CpuTypes, Packet
<1>4. now \in Nat /\ now' \in Nat
  BY <1>1, SizeAssumption DEF Types, BloomTypes
<1>5. \A c \in Cpus : packet[c].at <= now'
  BY <1>1, <1>3, <1>4 DEF Types, CpuTypes
<1>6. CpuTypes'
  BY <1>5 DEF Types, CpuTypes, Elapse, cpuVars
<1>. QED  BY <1>2, <1>6 DEF Types, MapTypes, HistoryTypes, Elapse, mapVars, historyVars

(* A step of one CPU keeps the types of all if it keeps those of its own   *)
(* packet.                                                                 *)
LEMMA OwnTypes ==
    ASSUME Types, NEW c \in Cpus, NEW me \in Packet, NEW label \in Steps,
           packet' = [packet EXCEPT ![c] = me], pc' = [pc EXCEPT ![c] = label],
           now' = now,
           label = "idle" => me = NoPacket,
           label # "idle" => me.path \in Paths,
           me.at <= now,
           label \in Filtering => me.key \in Keys,
           label \in Hashing => me.i \in 1 .. Len(Hash[me.key])
    PROVE  CpuTypes'
<1>1. packet' \in [Cpus -> Packet] /\ pc' \in [Cpus -> Steps]
  BY DEF Types, CpuTypes
<1>2. packet'[c] = me /\ pc'[c] = label
  BY DEF Types, CpuTypes
<1>3. \A d \in Cpus \ {c} : packet'[d] = packet[d] /\ pc'[d] = pc[d]
  BY DEF Types, CpuTypes
<1>. QED  BY <1>1, <1>2, <1>3 DEF Types, CpuTypes

LEMMA ArriveTypes ==
    ASSUME Types, NEW c \in Cpus, NEW k \in Keys \cup {NoKey}, NEW p \in Paths, Arrive(c, k, p)
    PROVE  Types'
<1>. DEFINE me == [NoPacket EXCEPT !.key = k, !.path = p, !.alone = Quiet]
<1>1. me \in Packet /\ me.path \in Paths /\ me.at = 0
  BY DEF Packet, NoPacket, Quiet
<1>2. \A d \in Cpus : packet'[d] = IF d = c THEN me
                                   ELSE IF pc[d] = "idle" THEN packet[d] ELSE [packet[d] EXCEPT !.alone = FALSE]
  BY DEF Arrive
<1>3. pc'[c] \in {"roll", "create"} /\ pc' \in [Cpus -> Steps] /\ \A d \in Cpus \ {c} : pc'[d] = pc[d]
  BY DEF Arrive, Goto, Types, CpuTypes, Steps
<1>. HIDE DEF me
<1>4. ASSUME NEW d \in Cpus \ {c}
      PROVE  /\ packet'[d] \in Packet /\ packet'[d].path = packet[d].path
             /\ packet'[d].at = packet[d].at /\ packet'[d].key = packet[d].key
             /\ packet'[d].i = packet[d].i
             /\ pc[d] = "idle" => packet'[d] = packet[d]
  <2>1. packet[d] \in Packet
    BY DEF Types, CpuTypes
  <2>2. packet'[d] = IF pc[d] = "idle" THEN packet[d] ELSE [packet[d] EXCEPT !.alone = FALSE]
    BY <1>2
  <2>. QED  BY <2>1, <2>2 DEF Packet
<1>5. packet' = [d \in Cpus |-> packet'[d]]
  BY DEF Arrive
<1>6. packet' \in [Cpus -> Packet]
  BY <1>1, <1>2, <1>4, <1>5
<1>7. now' = now /\ 0 <= now
  BY SizeAssumption DEF Arrive, Types, BloomTypes
<1>8. packet'[c] = me /\ pc'[c] \notin Filtering /\ pc'[c] \notin Hashing /\ pc'[c] # "idle"
  BY <1>2, <1>3 DEF Filtering, Hashing
<1>9. CpuTypes'
  <2>1. ASSUME NEW d \in Cpus \ {c}
        PROVE  /\ pc'[d] = "idle" => packet'[d] = NoPacket
               /\ pc'[d] # "idle" => packet'[d].path \in Paths
               /\ packet'[d].at <= now'
               /\ pc'[d] \in Filtering => packet'[d].key \in Keys
               /\ pc'[d] \in Hashing => packet'[d].i \in 1 .. Len(Hash[packet'[d].key])
    BY <1>3, <1>4, <1>7 DEF Types, CpuTypes
  <2>. QED  BY <1>1, <1>3, <1>6, <1>7, <1>8, <2>1 DEF CpuTypes
<1>10. recorded' \in [Keys -> {Never} \cup 0 .. MaxTime] /\ arrived' \in 0 .. MaxPackets
  BY SizeAssumption DEF Arrive, Types, HistoryTypes
<1>. QED  BY <1>9, <1>10 DEF Types, MapTypes, BloomTypes, HistoryTypes, Arrive, bloomVars, mapVars

(* The entry of a path, and a full map.                                    *)
LEMMA CreateTypes ==
    ASSUME Types, NEW c \in Cpus, Create(c) \/ MapFull(c)
    PROVE  Types'
<1>1. packet[c] \in Packet /\ packet[c].at <= now /\ (pc[c] = "create" => packet[c].path \in Paths)
  BY DEF Types, CpuTypes
<1>2. now' = now /\ 0 <= now
  BY SizeAssumption DEF Create, MapFull, Types, BloomTypes
<1>3. CASE Create(c)
  <2>1. packet' = [packet EXCEPT ![c] = packet[c]] /\ pc' = [pc EXCEPT ![c] = "roll"]
    BY <1>3 DEF Create, Goto, Types, CpuTypes
  <2>2. CpuTypes'
    BY <1>1, <1>2, <1>3, <2>1, OwnTypes DEF Create, Steps, Filtering, Hashing
  <2>3. MapTypes'
    <3>1. entries' \in SUBSET Paths
      BY <1>1, <1>3 DEF Create, Types, MapTypes
    <3>2. CASE packet[c].path \in entries
      BY <1>3, <3>1, <3>2 DEF Create, Types, MapTypes
    <3>3. CASE packet[c].path \notin entries
      <4>1. Cardinality(entries') = Cardinality(entries) + 1 /\ IsFiniteSet(entries')
        BY <1>3, <3>3, FS_AddElement DEF Create, Types, MapTypes
      <4>2. Cardinality(entries) < MapSize /\ Cardinality(entries) \in Nat
        BY <1>3, <3>3, FS_CardinalityType DEF Create, Types, MapTypes
      <4>3. Cardinality(entries') <= MapSize
        BY <4>1, <4>2, SizeAssumption
      <4>. QED  BY <3>1, <4>1, <4>3, <1>3 DEF Create, Types, MapTypes
    <3>. QED  BY <3>2, <3>3
  <2>. QED  BY <1>3, <2>2, <2>3 DEF Types, BloomTypes, HistoryTypes, Create, bloomVars, historyVars
<1>4. CASE MapFull(c)
  <2>1. NoPacket \in Packet /\ NoPacket.at = 0
    BY NoPacketType DEF NoPacket
  <2>2. CpuTypes'
    BY <1>2, <1>4, <2>1, OwnTypes DEF MapFull, Goto, Steps, Filtering, Hashing
  <2>. QED  BY <1>4, <2>2 DEF Types, MapTypes, BloomTypes, HistoryTypes, MapFull, bloomVars, mapVars, historyVars
<1>. QED  BY <1>3, <1>4

(* The steps of bloom_maybe_roll_epoch.                                    *)
LEMMA RollTypes ==
    ASSUME Types, NEW c \in Cpus, Roll(c) \/ RollWins(c) \/ RollLoses(c) \/ Bump(c)
    PROVE  Types'
<1>1. /\ packet[c] \in Packet /\ packet[c].path \in Paths
      /\ packet[c].key \in Keys \cup {NoKey} /\ packet[c].at <= now
      /\ packet[c].at \in Nat /\ now \in Nat /\ epoch.start_ns \in Nat
      /\ now' = now
  BY SizeAssumption DEF Types, CpuTypes, BloomTypes, Packet, Roll, RollWins, RollLoses, Bump
<1>2. /\ Rolled(c) \in {"load", "verdict"}
      /\ Rolled(c) \in Filtering => packet[c].key \in Keys
  BY <1>1 DEF Rolled, Tested, Filtering
<1>3. Rolled(c) \in Steps /\ Rolled(c) # "idle" /\ Rolled(c) \notin Hashing
  BY <1>2 DEF Steps, Hashing
<1>4. CASE Roll(c)
  <2>. DEFINE me == [packet[c] EXCEPT !.at = now, !.saw = epoch.start_ns]
              label == IF now - epoch.start_ns > Epoch THEN "swap" ELSE Rolled(c)
  <2>1. packet' = [packet EXCEPT ![c] = me] /\ pc' = [pc EXCEPT ![c] = label]
    BY <1>4 DEF Roll, Goto, Types, CpuTypes
  <2>2. me \in Packet /\ me.path = packet[c].path /\ me.key = packet[c].key /\ me.at = now
    BY <1>1 DEF Packet
  <2>3. /\ label \in Steps /\ label # "idle" /\ label \notin Hashing
        /\ label \in Filtering => packet[c].key \in Keys
    BY <1>2, <1>3 DEF Steps, Filtering, Hashing
  <2>. HIDE DEF me, label
  <2>3a. /\ me.path \in Paths /\ me.at <= now
         /\ label \in Filtering => me.key \in Keys
    BY <1>1, <2>2, <2>3
  <2>3b. me \in Packet /\ label \in Steps /\ label # "idle" /\ label \notin Hashing /\ now' = now
    BY <1>1, <2>2, <2>3
  <2>4. CpuTypes'
    BY <2>1, <2>3a, <2>3b, OwnTypes
  <2>5. stats' \in [Paths -> [segments : Nat, retransmits : Nat]]
    BY <1>1, <1>4 DEF Roll, Types, MapTypes
  <2>. QED  BY <1>4, <2>4, <2>5 DEF Types, MapTypes, BloomTypes, HistoryTypes, Roll, bloomVars, historyVars
<1>5. ASSUME NEW label \in Steps, label # "idle", label \notin Hashing,
             label \in Filtering => packet[c].key \in Keys,
             packet' = packet, pc' = [pc EXCEPT ![c] = label]
      PROVE  CpuTypes'
  <2>1. packet' = [packet EXCEPT ![c] = packet[c]]
    BY <1>5 DEF Types, CpuTypes
  <2>. QED  BY <1>1, <1>5, <2>1, OwnTypes
<1>6. CASE RollWins(c)
  <2>1. epoch' \in [gen : Nat, start_ns : 0 .. MaxTime] /\ epoch'.start_ns <= now'
    <3>1. packet[c].at \in 0 .. MaxTime
      BY <1>1, SizeAssumption DEF Types, BloomTypes
    <3>. QED  BY <1>1, <1>6, <3>1 DEF RollWins, Types, BloomTypes
  <2>2. CpuTypes'
    BY <1>5, <1>6 DEF RollWins, Goto, Steps, Filtering, Hashing
  <2>. QED  BY <1>6, <2>1, <2>2 DEF Types, MapTypes, BloomTypes, HistoryTypes, RollWins, mapVars, historyVars
<1>7. CASE RollLoses(c)
  <2>1. CpuTypes'
    BY <1>2, <1>3, <1>5, <1>7 DEF RollLoses, Goto
  <2>. QED  BY <1>7, <2>1 DEF Types, MapTypes, BloomTypes, HistoryTypes, RollLoses, mapVars, historyVars, bloomVars
<1>8. CASE Bump(c)
  <2>1. epoch' \in [gen : Nat, start_ns : 0 .. MaxTime] /\ epoch'.start_ns <= now'
    BY <1>1, <1>8 DEF Bump, Types, BloomTypes
  <2>2. CpuTypes'
    BY <1>2, <1>3, <1>5, <1>8 DEF Bump, Goto
  <2>. QED  BY <1>8, <2>1, <2>2 DEF Types, MapTypes, BloomTypes, HistoryTypes, Bump, mapVars, historyVars
<1>. QED  BY <1>4, <1>6, <1>7, <1>8

(* The steps of bloom_test_and_set, and the verdict.                       *)
LEMMA FilterTypes ==
    ASSUME Types, NEW c \in Cpus,
           LoadGen(c) \/ Test(c) \/ Set(c) \/ Claim(c) \/ ClaimLost(c) \/ Clear(c) \/ Or(c)
    PROVE  Types'
<1>1. pc[c] \in Filtering /\ pc[c] # "idle" /\ now' = now
  BY DEF LoadGen, Test, Set, Claim, ClaimLost, Clear, Or, Filtering
<1>2. /\ packet[c] \in Packet /\ packet[c].path \in Paths
      /\ packet[c].key \in Keys /\ packet[c].at <= now
  BY <1>1 DEF Types, CpuTypes
<1>3. Hash[packet[c].key] \in Seq(Bits) \ {<<>>} /\ Len(Hash[packet[c].key]) \in Nat \ {0}
  BY <1>2, HashAssumption
<1>4. ASSUME NEW me \in Packet, NEW label \in Filtering \cup {"verdict"},
             me.path = packet[c].path, me.key = packet[c].key, me.at = packet[c].at,
             label \in Hashing => me.i \in 1 .. Len(Hash[packet[c].key]),
             packet' = [packet EXCEPT ![c] = me], pc' = [pc EXCEPT ![c] = label]
      PROVE  CpuTypes'
  <2>1. label \in Steps /\ label # "idle"
    BY DEF Filtering, Steps
  <2>. QED  BY <1>1, <1>2, <1>4, <2>1, OwnTypes
<1>5. CASE LoadGen(c)
  <2>. DEFINE me == [packet[c] EXCEPT !.gen = epoch.gen, !.seen = TRUE, !.i = 1, !.saw = 0]
  <2>1. packet' = [packet EXCEPT ![c] = me] /\ pc' = [pc EXCEPT ![c] = "test"]
    BY <1>5 DEF LoadGen, Goto, Types, CpuTypes
  <2>2. /\ me \in Packet /\ me.path = packet[c].path /\ me.key = packet[c].key
        /\ me.at = packet[c].at /\ me.i = 1
    <3>1. epoch.gen \in Nat
      BY DEF Types, BloomTypes
    <3>. QED  BY <1>2, <3>1 DEF Packet
  <2>. HIDE DEF me
  <2>2b. me.i \in 1 .. Len(Hash[packet[c].key])
    BY <1>3, <2>2
  <2>2a. "test" \in Filtering \cup {"verdict"}
    BY DEF Filtering
  <2>3. CpuTypes'
    BY <1>4, <2>1, <2>2, <2>2a, <2>2b
  <2>. QED  BY <1>5, <2>3 DEF Types, MapTypes, BloomTypes, HistoryTypes, LoadGen, bloomVars, mapVars, historyVars
<1>6. CASE Test(c)
  <2>. DEFINE seen == packet[c].seen /\ (Holds(Bit(c), packet[c].gen) \/ Holds(Bit(c), packet[c].gen - 1))
              i == IF Last(c) THEN 1 ELSE packet[c].i + 1
              me == [packet[c] EXCEPT !.seen = seen, !.i = i]
  <2>0. packet[c].i \in 1 .. Len(Hash[packet[c].key])
    BY <1>6, BitType DEF Test, Hashing
  <2>1. packet' = [packet EXCEPT ![c] = me] /\ pc' = [pc EXCEPT ![c] = IF Last(c) THEN "set" ELSE "test"]
    BY <1>6 DEF Test, Goto, Types, CpuTypes
  <2>2. seen \in BOOLEAN
    BY Zenon
  <2>3. i \in 1 .. Len(Hash[packet[c].key])
    BY <1>3, <2>0 DEF Last
  <2>. HIDE DEF seen, i
  <2>4. /\ me \in Packet /\ me.path = packet[c].path /\ me.key = packet[c].key
        /\ me.at = packet[c].at /\ me.i = i
    <3>1. i \in Nat
      BY <1>3, <2>3
    <3>. QED  BY <1>2, <2>2, <3>1 DEF Packet
  <2>. HIDE DEF me
  <2>5. CpuTypes'
    BY <1>3, <1>4, <2>1, <2>3, <2>4 DEF Filtering
  <2>. QED  BY <1>6, <2>5 DEF Types, MapTypes, BloomTypes, HistoryTypes, Test, bloomVars, mapVars, historyVars
<1>7. CASE Set(c)
  <2>. DEFINE me == [packet[c] EXCEPT !.saw = Word(c).gen]
  <2>0. packet[c].i \in 1 .. Len(Hash[packet[c].key]) /\ Word(c).gen \in Nat
    BY <1>7, BitType DEF Set, Hashing
  <2>1. packet' = [packet EXCEPT ![c] = me]
        /\ pc' = [pc EXCEPT ![c] = IF Word(c).gen = packet[c].gen THEN "or" ELSE "claim"]
    BY <1>7 DEF Set, Goto, Types, CpuTypes
  <2>2. /\ me \in Packet /\ me.path = packet[c].path /\ me.key = packet[c].key
        /\ me.at = packet[c].at /\ me.i = packet[c].i
    BY <1>2, <2>0 DEF Packet
  <2>. HIDE DEF me
  <2>3. CpuTypes'
    BY <1>3, <1>4, <2>0, <2>1, <2>2 DEF Filtering
  <2>. QED  BY <1>7, <2>3 DEF Types, MapTypes, BloomTypes, HistoryTypes, Set, bloomVars, mapVars, historyVars
<1>8. ASSUME NEW label \in {"or", "clear"}, pc[c] \in Hashing, packet' = packet, pc' = [pc EXCEPT ![c] = label]
      PROVE  CpuTypes'
  <2>1. packet' = [packet EXCEPT ![c] = packet[c]] /\ packet[c].i \in 1 .. Len(Hash[packet[c].key])
    BY <1>8, BitType DEF Types, CpuTypes
  <2>. QED  BY <1>2, <1>4, <1>8, <2>1 DEF Filtering
<1>9. CASE Claim(c)
  <2>2. words' \in [Words -> [Halves -> [gen : Nat, bits : SUBSET Bits]]]
    BY <1>9, ClaimedWord
  <2>3. CpuTypes'
    BY <1>8, <1>9 DEF Claim, Goto, Hashing
  <2>. QED  BY <1>9, <2>2, <2>3 DEF Types, MapTypes, BloomTypes, HistoryTypes, Claim, mapVars, historyVars
<1>10. CASE ClaimLost(c)
  <2>1. CpuTypes'
    BY <1>8, <1>10 DEF ClaimLost, Goto, Hashing
  <2>. QED  BY <1>10, <2>1 DEF Types, MapTypes, BloomTypes, HistoryTypes, ClaimLost, bloomVars, mapVars, historyVars
<1>11. CASE Clear(c)
  <2>2. words' \in [Words -> [Halves -> [gen : Nat, bits : SUBSET Bits]]]
    BY <1>11, ClearedWord
  <2>3. CpuTypes'
    BY <1>8, <1>11 DEF Clear, Goto, Hashing
  <2>. QED  BY <1>11, <2>2, <2>3 DEF Types, MapTypes, BloomTypes, HistoryTypes, Clear, mapVars, historyVars
<1>12. CASE Or(c)
  <2>. DEFINE i == IF Last(c) THEN packet[c].i ELSE packet[c].i + 1
              me == [packet[c] EXCEPT !.i = i, !.saw = 0]
  <2>0. /\ packet[c].i \in 1 .. Len(Hash[packet[c].key]) /\ Bit(c) \in Bits
    BY <1>12, BitType DEF Or, Hashing
  <2>1. packet' = [packet EXCEPT ![c] = me] /\ pc' = [pc EXCEPT ![c] = IF Last(c) THEN "verdict" ELSE "set"]
    BY <1>12 DEF Or, Goto, Types, CpuTypes
  <2>2a. i \in 1 .. Len(Hash[packet[c].key])
    BY <1>3, <2>0 DEF Last
  <2>. HIDE DEF i
  <2>2. /\ me \in Packet /\ me.path = packet[c].path /\ me.key = packet[c].key
        /\ me.at = packet[c].at /\ me.i = i
    <3>1. i \in Nat
      BY <1>3, <2>2a
    <3>. QED  BY <1>2, <3>1 DEF Packet
  <2>. HIDE DEF me
  <2>3. CpuTypes'
    BY <1>3, <1>4, <2>1, <2>2, <2>2a DEF Filtering
  <2>4. words' \in [Words -> [Halves -> [gen : Nat, bits : SUBSET Bits]]]
    BY <1>12, OredWord
  <2>5. born' \in [Bits -> {Never} \cup Nat]
    BY <1>12, <2>0 DEF Or, Types, BloomTypes, HistoryTypes
  <2>. QED  BY <1>12, <2>3, <2>4, <2>5 DEF Types, MapTypes, BloomTypes, HistoryTypes, Or, mapVars
<1>. QED  BY <1>5, <1>6, <1>7, <1>9, <1>10, <1>11, <1>12

LEMMA VerdictTypes ==
    ASSUME Types, NEW c \in Cpus, Verdict(c)
    PROVE  Types'
<1>1. /\ packet[c] \in Packet /\ packet[c].path \in Paths
      /\ packet[c].key \in Keys \cup {NoKey} /\ packet[c].at <= now /\ packet[c].at \in Nat
      /\ now' = now /\ now \in 0 .. MaxTime
  BY DEF Types, CpuTypes, BloomTypes, Packet, Verdict
<1>2. CpuTypes'
  <2>1. NoPacket \in Packet /\ NoPacket.at = 0 /\ 0 <= now
    BY <1>1, NoPacketType, SizeAssumption DEF NoPacket
  <2>. QED  BY <1>1, <2>1, OwnTypes DEF Verdict, Goto, Steps, Filtering, Hashing
<1>3. stats' \in [Paths -> [segments : Nat, retransmits : Nat]]
  BY <1>1 DEF Verdict, Types, MapTypes
<1>4. recorded' \in [Keys -> {Never} \cup 0 .. MaxTime]
  <2>1. packet[c].at \in 0 .. MaxTime
    BY <1>1, SizeAssumption
  <2>. QED  BY <2>1 DEF Verdict, Types, HistoryTypes
<1>. QED  BY <1>2, <1>3, <1>4 DEF Types, MapTypes, BloomTypes, HistoryTypes, Verdict, bloomVars

LEMMA NextTypes == Types /\ [Next]_vars => Types'
<1>. SUFFICES ASSUME Types, [Next]_vars PROVE Types'
  OBVIOUS
<1>1. CASE UNCHANGED vars
  BY <1>1 DEF Types, MapTypes, BloomTypes, CpuTypes, HistoryTypes, vars, bloomVars, mapVars, cpuVars, historyVars
<1>2. CASE Elapse
  BY <1>2, ElapseTypes
<1>3. ASSUME NEW c \in Cpus, StepOf(c) PROVE Types'
  BY <1>3, ArriveTypes, CreateTypes, RollTypes, FilterTypes, VerdictTypes DEF StepOf
<1>. QED  BY <1>1, <1>2, <1>3, NextIsStep

LEMMA TypesAlways == Spec => []Types
<1>1. Types /\ [Next]_vars => Types'
  BY NextTypes
<1>. QED  BY <1>1, InitTypes, PTL DEF Spec

-----------------------------------------------------------------------------
(* Who is alone.                                                           *)

AloneInv == \A c, d \in Cpus : packet[c].alone /\ d # c => pc[d] = "idle"

(* A step of another CPU takes nothing from a packet but that it is alone. *)
LEMMA OthersWait ==
    ASSUME Types, NEW c \in Cpus, StepOf(c), NEW d \in Cpus \ {c}
    PROVE  /\ pc'[d] = pc[d]
           /\ packet'[d].key = packet[d].key /\ packet'[d].i = packet[d].i
           /\ packet'[d].gen = packet[d].gen /\ packet'[d].seen = packet[d].seen
           /\ packet'[d].alone => packet[d].alone /\ ~ \E k, p : Arrive(c, k, p)
<1>1. packet[d] \in Packet /\ packet \in [Cpus -> Packet] /\ pc \in [Cpus -> Steps]
  BY DEF Types, CpuTypes
<1>2. CASE \E k \in Keys \cup {NoKey}, p \in Paths : Arrive(c, k, p)
  <2>1. PICK k \in Keys \cup {NoKey}, p \in Paths : Arrive(c, k, p)
    BY <1>2
  <2>2. packet'[d] = IF pc[d] = "idle" THEN packet[d] ELSE [packet[d] EXCEPT !.alone = FALSE]
    BY <2>1 DEF Arrive
  <2>3. pc'[d] = pc[d]
    BY <1>1, <2>1 DEF Arrive, Goto
  <2>4. ~ packet'[d].alone
    BY <1>1, <2>2 DEF Types, CpuTypes, NoPacket, Packet
  <2>. QED  BY <1>1, <2>2, <2>3, <2>4 DEF Packet
<1>3. CASE ~ \E k \in Keys \cup {NoKey}, p \in Paths : Arrive(c, k, p)
  <2>1. packet'[d] = packet[d] /\ pc'[d] = pc[d]
    BY <1>1, <1>3 DEF StepOf, Create, MapFull, Roll, RollWins, RollLoses, Bump, LoadGen, Test, Set,
       Claim, ClaimLost, Clear, Or, Verdict, Goto
  <2>2. pc[c] # "idle"
    BY <1>3 DEF StepOf, Create, MapFull, Roll, RollWins, RollLoses, Bump, LoadGen, Test, Set,
       Claim, ClaimLost, Clear, Or, Verdict
  <2>3. ~ \E k, p : Arrive(c, k, p)
    BY <2>2 DEF Arrive
  <2>. QED  BY <2>1, <2>3
<1>. QED  BY <1>2, <1>3

(* A packet is alone from its arrival on, or never.                        *)
LEMMA StaysAlone ==
    ASSUME Types, NEW c \in Cpus, StepOf(c), packet'[c].alone
    PROVE  packet[c].alone \/ Quiet
<1>1. packet[c] \in Packet /\ packet \in [Cpus -> Packet]
  BY DEF Types, CpuTypes
<1>2. CASE \E k \in Keys \cup {NoKey}, p \in Paths : Arrive(c, k, p)
  <2>1. packet'[c].alone = Quiet
    BY <1>2 DEF Arrive, NoPacket
  <2>. QED  BY <2>1
<1>3. CASE MapFull(c) \/ Verdict(c)
  BY <1>1, <1>3 DEF MapFull, Verdict, NoPacket
<1>4. CASE Create(c) \/ RollWins(c) \/ RollLoses(c) \/ Bump(c) \/ Claim(c) \/ ClaimLost(c) \/ Clear(c)
  BY <1>4 DEF Create, RollWins, RollLoses, Bump, Claim, ClaimLost, Clear
<1>5. CASE Roll(c) \/ LoadGen(c) \/ Test(c) \/ Set(c) \/ Or(c)
  BY <1>1, <1>5 DEF Roll, LoadGen, Test, Set, Or, Packet
<1>. QED  BY <1>2, <1>3, <1>4, <1>5 DEF StepOf

LEMMA InitAlone == Init => AloneInv
  BY DEF Init, AloneInv

LEMMA NextAlone ==
    ASSUME Types, AloneInv, [Next]_vars
    PROVE  AloneInv'
<1>1. CASE UNCHANGED vars \/ Elapse
  BY <1>1 DEF AloneInv, vars, cpuVars, Elapse
<1>2. ASSUME NEW c \in Cpus, StepOf(c) PROVE AloneInv'
  <2>. SUFFICES ASSUME NEW a \in Cpus, NEW d \in Cpus, packet'[a].alone, d # a
                PROVE  pc'[d] = "idle"
    BY DEF AloneInv
  <2>1. CASE a = c
    BY <1>2, <2>1, StaysAlone, OthersWait DEF AloneInv, Quiet
  <2>2. CASE a # c
    <3>1. packet[a].alone /\ ~ \E k, p : Arrive(c, k, p)
      BY <1>2, <2>2, OthersWait
    <3>2. pc[c] = "idle"
      BY <2>2, <3>1 DEF AloneInv
    <3>. QED  BY <1>2, <3>1, <3>2 DEF StepOf, Create, MapFull, Roll, RollWins, RollLoses, Bump, LoadGen,
              Test, Set, Claim, ClaimLost, Clear, Or, Verdict
  <2>. QED  BY <2>1, <2>2
<1>. QED  BY <1>1, <1>2, NextIsStep

-----------------------------------------------------------------------------
(* Old bits.                                                               *)

(* No packet, word or bit is ahead of the epoch.                           *)
GenInv ==
    /\ \A c \in Cpus : packet[c].gen <= epoch.gen
    /\ \A w \in Words, h \in Halves : words[w][h].gen <= epoch.gen
    /\ \A b \in Bits : born[b] <= epoch.gen

(* The CPU is about to clear half h of word w.                             *)
Clearing(c, w, h) == pc[c] = "clear" /\ WordOf[Bit(c)] = w /\ packet[c].gen % 2 = h

(* A bit is as young as its word, unless that is yet to be cleared by one  *)
(* who claimed it.                                                         *)
BornInv == \A w \in Words, h \in Halves :
    \/ \E c \in Cpus : Clearing(c, w, h)
    \/ \A b \in words[w][h].bits : words[w][h].gen <= born[b]

(* The hashes a packet that is alone has found so far.                     *)
FoundInv == \A c \in Cpus :
    pc[c] = "test" /\ packet[c].alone /\ packet[c].seen =>
        \A j \in 1 .. packet[c].i - 1 : packet[c].gen - 1 <= born[Hash[packet[c].key][j]]

OldInv == Types /\ AloneInv /\ GenInv /\ BornInv /\ FoundInv

LEMMA InitOld == Init => OldInv
<1>. SUFFICES ASSUME Init PROVE OldInv
  OBVIOUS
<1>1. Types /\ AloneInv
  BY InitTypes, InitAlone
<1>2. GenInv
  BY DEF Init, GenInv, NoPacket, Never, Halves
<1>3. BornInv
  BY DEF Init, BornInv, Halves
<1>4. FoundInv
  BY DEF Init, FoundInv
<1>. QED  BY <1>1, <1>2, <1>3, <1>4 DEF OldInv

(* The generation of a packet is the epoch's when it was loaded.           *)
LEMMA OwnGen ==
    ASSUME Types, NEW c \in Cpus, StepOf(c)
    PROVE  /\ packet'[c].gen = packet[c].gen \/ packet'[c].gen = 0 \/ packet'[c].gen = epoch.gen
           /\ epoch' \in [gen : Nat, start_ns : 0 .. MaxTime]
           /\ epoch'.gen \in {epoch.gen, epoch.gen + 1} /\ epoch.gen \in Nat
           /\ Or(c) => epoch' = epoch
<1>1. packet[c] \in Packet /\ packet \in [Cpus -> Packet] /\ epoch \in [gen : Nat, start_ns : 0 .. MaxTime]
  BY DEF Types, CpuTypes, BloomTypes
<1>2. packet'[c].gen = packet[c].gen \/ packet'[c].gen = 0 \/ packet'[c].gen = epoch.gen
  <2>1. CASE \E k \in Keys \cup {NoKey}, p \in Paths : Arrive(c, k, p)
    BY <2>1 DEF Arrive, NoPacket
  <2>2. CASE MapFull(c) \/ Verdict(c)
    BY <1>1, <2>2 DEF MapFull, Verdict, NoPacket
  <2>3. CASE Create(c) \/ RollWins(c) \/ RollLoses(c) \/ Bump(c) \/ Claim(c) \/ ClaimLost(c) \/ Clear(c)
    BY <2>3 DEF Create, RollWins, RollLoses, Bump, Claim, ClaimLost, Clear
  <2>4. CASE Roll(c) \/ LoadGen(c) \/ Test(c) \/ Set(c) \/ Or(c)
    BY <1>1, <2>4 DEF Roll, LoadGen, Test, Set, Or, Packet
  <2>. QED  BY <2>1, <2>2, <2>3, <2>4 DEF StepOf
<1>3. epoch'.gen \in {epoch.gen, epoch.gen + 1}
  <2>1. CASE RollWins(c) \/ Bump(c)
    BY <1>1, <2>1 DEF RollWins, Bump
  <2>2. CASE ~ (RollWins(c) \/ Bump(c))
    BY <2>2 DEF StepOf, Arrive, Create, MapFull, Roll, RollLoses, LoadGen, Test, Set,
       Claim, ClaimLost, Clear, Or, Verdict, bloomVars
  <2>. QED  BY <2>1, <2>2
<1>4. Types'
  BY NextTypes, NextIsStep
<1>. QED  BY <1>1, <1>2, <1>3, <1>4 DEF Types, BloomTypes, Or

(* Only Claim, Clear and Or change a word, and only Or a bit's birth.      *)
LEMMA SameWords ==
    ASSUME NEW c \in Cpus, StepOf(c), ~ Claim(c), ~ Clear(c), ~ Or(c)
    PROVE  words' = words /\ born' = born
BY DEF StepOf, Arrive, Create, MapFull, Roll, RollWins, RollLoses, Bump, LoadGen, Test, Set, ClaimLost,
   Verdict, bloomVars, historyVars

LEMMA NextGen ==
    ASSUME Types, GenInv, NEW c \in Cpus, StepOf(c)
    PROVE  GenInv'
<1>1. /\ \A w \in Words, h \in Halves : words[w][h].gen \in Nat
      /\ \A b \in Bits : born[b] \in Int
      /\ \A d \in Cpus : packet[d].gen \in Nat
      /\ epoch.gen \in Nat
  BY DEF Types, BloomTypes, HistoryTypes, CpuTypes, Packet, Never
<1>2. epoch'.gen \in Nat /\ epoch.gen <= epoch'.gen
  BY <1>1, OwnGen
<1>3. \A d \in Cpus : packet'[d].gen <= epoch'.gen
  BY <1>1, <1>2, OwnGen, OthersWait DEF GenInv
<1>4. CASE Claim(c)
  <2>. DEFINE w == WordOf[Bit(c)]
              h == packet[c].gen % 2
  <2>1. words'[w][h].gen = packet[c].gen
        /\ \A v \in Words, g \in Halves : v # w \/ g # h => words'[v][g] = words[v][g]
    BY <1>4, ClaimedWord
  <2>. HIDE DEF w, h
  <2>2. \A v \in Words, g \in Halves : words'[v][g].gen <= epoch'.gen
    BY <1>1, <1>2, <2>1 DEF GenInv
  <2>. QED  BY <1>1, <1>2, <1>3, <1>4, <2>2 DEF GenInv, Claim, historyVars
<1>5. CASE Clear(c)
  <2>. DEFINE w == WordOf[Bit(c)]
              h == packet[c].gen % 2
  <2>1. words'[w][h].gen = words[w][h].gen /\ w \in Words /\ h \in Halves
        /\ \A v \in Words, g \in Halves : v # w \/ g # h => words'[v][g] = words[v][g]
    BY <1>5, ClearedWord
  <2>. HIDE DEF w, h
  <2>2. \A v \in Words, g \in Halves : words'[v][g].gen <= epoch'.gen
    BY <1>1, <1>2, <2>1 DEF GenInv
  <2>. QED  BY <1>1, <1>2, <1>3, <1>5, <2>2 DEF GenInv, Clear, historyVars
<1>6. CASE Or(c)
  <2>. DEFINE w == WordOf[Bit(c)]
              h == packet[c].gen % 2
  <2>1. words'[w][h].gen = words[w][h].gen /\ w \in Words /\ h \in Halves
        /\ \A v \in Words, g \in Halves : v # w \/ g # h => words'[v][g] = words[v][g]
    BY <1>6, OredWord
  <2>. HIDE DEF w, h
  <2>2. \A v \in Words, g \in Halves : words'[v][g].gen <= epoch'.gen
    BY <1>1, <1>2, <2>1 DEF GenInv
  <2>3. \A b \in Bits : born'[b] = born[b] \/ born'[b] = epoch.gen
    BY <1>6 DEF Or, Types, HistoryTypes
  <2>4. \A b \in Bits : born'[b] <= epoch'.gen
    BY <1>1, <1>2, <2>3 DEF GenInv
  <2>. QED  BY <1>3, <2>2, <2>4 DEF GenInv
<1>7. CASE ~ Claim(c) /\ ~ Clear(c) /\ ~ Or(c)
  <2>1. words' = words /\ born' = born
    BY <1>7, SameWords
  <2>. QED  BY <1>1, <1>2, <1>3, <2>1 DEF GenInv
<1>. QED  BY <1>4, <1>5, <1>6, <1>7

(* A CPU that is to clear a word stays so, but for its own step.           *)
LEMMA StaysClearing ==
    ASSUME Types, NEW c \in Cpus, StepOf(c), NEW d \in Cpus, NEW w, NEW h, Clearing(d, w, h), d # c \/ ~ Clear(c)
    PROVE  Clearing(d, w, h)'
<1>1. CASE d # c
  BY <1>1, OthersWait DEF Clearing, Bit
<1>2. CASE d = c
  BY <1>2 DEF Clearing, StepOf, Arrive, Create, MapFull, Roll, RollWins, RollLoses, Bump, LoadGen, Test, Set,
     Claim, ClaimLost, Or, Verdict
<1>. QED  BY <1>1, <1>2

LEMMA NextBorn ==
    ASSUME Types, GenInv, BornInv, NEW c \in Cpus, StepOf(c)
    PROVE  BornInv'
<1>1. /\ \A w \in Words, h \in Halves : words[w][h].gen \in Nat /\ words[w][h].bits \subseteq Bits
      /\ \A b \in Bits : born[b] \in Int
      /\ epoch.gen \in Nat
  BY DEF Types, BloomTypes, HistoryTypes, Never
<1>0. PICK w, h : w = WordOf[Bit(c)] /\ h = packet[c].gen % 2
  OBVIOUS
<1>. DEFINE Aged(v, g) == \A b \in words[v][g].bits : words[v][g].gen <= born[b]
<1>2. ASSUME NEW v \in Words, NEW g \in Halves, words'[v][g] = words[v][g], born' = born,
             ~ Clear(c) \/ v # w \/ g # h
      PROVE  (\E d \in Cpus : Clearing(d, v, g)') \/ Aged(v, g)'
  <2>1. CASE \E d \in Cpus : Clearing(d, v, g)
    <3>1. PICK d \in Cpus : Clearing(d, v, g)
      BY <2>1
    <3>2. d # c \/ ~ Clear(c)
      BY <1>0, <1>2, <3>1 DEF Clearing
    <3>. QED  BY <3>1, <3>2, StaysClearing
  <2>2. CASE Aged(v, g)
    BY <1>2, <2>2
  <2>. QED  BY <2>1, <2>2 DEF BornInv
<1>3. CASE Claim(c)
  <2>1. \A v \in Words, g \in Halves : v # w \/ g # h => words'[v][g] = words[v][g]
    BY <1>0, <1>3, ClaimedWord
  <2>2. Clearing(c, w, h)'
    BY <1>0, <1>3 DEF Claim, Clearing, Bit, Goto, Types, CpuTypes
  <2>3. born' = born /\ ~ Clear(c)
    BY <1>3 DEF Claim, Clear, historyVars
  <2>4. ASSUME NEW v \in Words, NEW g \in Halves
        PROVE  (\E d \in Cpus : Clearing(d, v, g)') \/ Aged(v, g)'
    BY <1>2, <2>1, <2>2, <2>3
  <2>. QED  BY <2>4 DEF BornInv
<1>4. CASE Clear(c)
  <2>0. \A b : b \notin words'[w][h].bits
    BY <1>0, <1>4, ClearedWord
  <2>1. /\ \A v \in Words, g \in Halves : v # w \/ g # h => words'[v][g] = words[v][g]
    BY <1>0, <1>4, ClearedWord
  <2>2. born' = born
    BY <1>4 DEF Clear, historyVars
  <2>3. Aged(w, h)'
    BY <2>0
  <2>4. ASSUME NEW v \in Words, NEW g \in Halves
        PROVE  (\E d \in Cpus : Clearing(d, v, g)') \/ Aged(v, g)'
    BY <1>2, <2>1, <2>2, <2>3
  <2>. QED  BY <2>4 DEF BornInv
<1>5. CASE Or(c)
  <2>0. \A b : b \in words'[w][h].bits <=> b \in words[w][h].bits \/ b = Bit(c)
    BY <1>0, <1>5, OredWord
  <2>1. /\ words'[w][h].gen = words[w][h].gen /\ w \in Words /\ h \in Halves
        /\ \A v \in Words, g \in Halves : v # w \/ g # h => words'[v][g] = words[v][g]
    BY <1>0, <1>5, OredWord
  <2>2. Bit(c) \in Bits /\ born' = [born EXCEPT ![Bit(c)] = epoch.gen] /\ ~ Clear(c)
    BY <1>5, BitType DEF Or, Clear, Hashing
  <2>3. born'[Bit(c)] = epoch.gen /\ \A b \in Bits : born[b] <= born'[b] /\ born'[b] \in Int
    BY <1>1, <2>2 DEF Types, HistoryTypes, GenInv
  <2>4. ASSUME NEW v \in Words, NEW g \in Halves
        PROVE  (\E d \in Cpus : Clearing(d, v, g)') \/ Aged(v, g)'
    <3>1. words'[v][g].gen = words[v][g].gen /\ words'[v][g].bits \subseteq words[v][g].bits \cup {Bit(c)}
      BY <2>0, <2>1
    <3>2. CASE \E d \in Cpus : Clearing(d, v, g)
      BY <2>2, <3>2, StaysClearing
    <3>3. CASE Aged(v, g)
      <4>1. ASSUME NEW b \in words'[v][g].bits
            PROVE  words'[v][g].gen <= born'[b]
        <5>1. CASE b = Bit(c)
          BY <1>1, <2>3, <3>1, <5>1 DEF GenInv
        <5>2. CASE b # Bit(c)
          <6>1. b \in words[v][g].bits /\ b \in Bits
            BY <1>1, <3>1, <4>1, <5>2
          <6>2. words[v][g].gen <= born[b] /\ born[b] <= born'[b]
            BY <2>3, <3>3, <6>1
          <6>3. words[v][g].gen \in Nat /\ born[b] \in Int /\ born'[b] \in Int
            BY <1>1, <2>3, <6>1
          <6>. QED  BY <3>1, <6>2, <6>3
        <5>. QED  BY <5>1, <5>2
      <4>. QED  BY <4>1
    <3>. QED  BY <3>2, <3>3 DEF BornInv
  <2>. QED  BY <2>4 DEF BornInv
<1>6. CASE ~ Claim(c) /\ ~ Clear(c) /\ ~ Or(c)
  <2>1. words' = words /\ born' = born
    BY <1>6, SameWords
  <2>2. ASSUME NEW v \in Words, NEW g \in Halves
        PROVE  (\E d \in Cpus : Clearing(d, v, g)') \/ Aged(v, g)'
    BY <1>2, <1>6, <2>1
  <2>. QED  BY <2>2 DEF BornInv
<1>. QED  BY <1>3, <1>4, <1>5, <1>6


(* While a packet is alone nothing is to be cleared but by itself, so what *)
(* it finds in a word is as young as the word.                             *)
LEMMA FoundIsYoung ==
    ASSUME OldInv, NEW c \in Cpus, pc[c] = "test", packet[c].alone,
           NEW b \in Bits, NEW gen \in Int, Holds(b, gen)
    PROVE  gen <= born[b]
<1>1. WordOf[b] \in Words /\ gen % 2 \in Halves
  BY HashAssumption DEF Halves
<1>2. ~ \E d \in Cpus : Clearing(d, WordOf[b], gen % 2)
  BY DEF OldInv, AloneInv, Clearing
<1>3. \A x \in words[WordOf[b]][gen % 2].bits : words[WordOf[b]][gen % 2].gen <= born[x]
  BY <1>1, <1>2 DEF OldInv, BornInv
<1>. QED  BY <1>3 DEF Holds

(* A test that finds the bit of one more hash.                             *)
LEMMA TestFinds ==
    ASSUME OldInv, NEW c \in Cpus, Test(c), packet[c].alone, packet'[c].seen
    PROVE  \A j \in 1 .. packet[c].i : packet[c].gen - 1 <= born[Hash[packet[c].key][j]]
<1>1. /\ packet \in [Cpus -> Packet] /\ packet[c] \in Packet /\ pc[c] = "test" /\ Types
  BY DEF Test, OldInv, Types, CpuTypes
<1>2. /\ Bit(c) \in Bits /\ packet[c].gen \in Nat /\ packet[c].i \in Nat
      /\ born[Bit(c)] \in Int
  BY <1>1, BitType DEF Hashing, Packet, Types, HistoryTypes, Never
<1>3. packet[c].seen /\ (Holds(Bit(c), packet[c].gen) \/ Holds(Bit(c), packet[c].gen - 1))
  BY <1>1 DEF Test, Packet
<1>4. packet[c].gen - 1 <= born[Bit(c)]
  BY <1>1, <1>2, <1>3, FoundIsYoung
<1>5. \A j \in 1 .. packet[c].i - 1 : packet[c].gen - 1 <= born[Hash[packet[c].key][j]]
  BY <1>1, <1>3 DEF OldInv, FoundInv
<1>. QED  BY <1>2, <1>4, <1>5 DEF Bit

LEMMA NextFound ==
    ASSUME OldInv, NEW c \in Cpus, StepOf(c)
    PROVE  FoundInv'
<1>1. Types /\ AloneInv
  BY DEF OldInv
<1>. SUFFICES ASSUME NEW a \in Cpus, pc'[a] = "test", packet'[a].alone, packet'[a].seen,
                     NEW j \in 1 .. packet'[a].i - 1
              PROVE  packet'[a].gen - 1 <= born'[Hash[packet'[a].key][j]]
  BY DEF FoundInv
<1>2. CASE a # c
  <2>1. packet[a].alone /\ ~ \E k, p : Arrive(c, k, p)
    BY <1>1, <1>2, OthersWait
  <2>2. pc[c] = "idle"
    BY <1>1, <1>2, <2>1 DEF AloneInv
  <2>. QED  BY <2>1, <2>2 DEF StepOf, Create, MapFull, Roll, RollWins, RollLoses, Bump, LoadGen, Test,
            Set, Claim, ClaimLost, Clear, Or, Verdict
<1>3. CASE a = c
  <2>1. packet \in [Cpus -> Packet] /\ packet[c] \in Packet /\ pc \in [Cpus -> Steps]
    BY <1>1 DEF Types, CpuTypes
  <2>2. LoadGen(c) \/ Test(c)
    BY <1>3, <2>1 DEF StepOf, Arrive, Create, MapFull, Roll, RollWins, RollLoses, Bump, Set, Rolled,
       Claim, ClaimLost, Clear, Or, Verdict, Goto
  <2>3. CASE LoadGen(c)
    <3>1. packet'[c].i = 1
      BY <2>1, <2>3 DEF LoadGen, Packet
    <3>. QED  BY <1>3, <3>1
  <2>4. CASE Test(c)
    <3>1. /\ packet[c].alone /\ packet'[c].gen = packet[c].gen /\ packet'[c].key = packet[c].key
          /\ born' = born /\ packet[c].i \in Nat
      BY <1>3, <2>1, <2>4 DEF Test, Packet, historyVars
    <3>2. packet'[c].i = packet[c].i + 1
      <4>1. ~ Last(c)
        BY <1>3, <2>1, <2>4 DEF Test, Goto
      <4>. QED  BY <2>1, <2>4, <4>1 DEF Test, Packet
    <3>3. \A i \in 1 .. packet[c].i : packet[c].gen - 1 <= born[Hash[packet[c].key][i]]
      BY <1>3, <2>4, <3>1, TestFinds
    <3>4. j \in 1 .. packet[c].i
      BY <1>3, <3>1, <3>2
    <3>. QED  BY <1>3, <3>1, <3>3, <3>4
  <2>. QED  BY <2>2, <2>3, <2>4
<1>. QED  BY <1>2, <1>3

LEMMA NextOld == OldInv /\ [Next]_vars => OldInv'
<1>. SUFFICES ASSUME OldInv, [Next]_vars PROVE OldInv'
  OBVIOUS
<1>1. Types' /\ AloneInv'
  BY NextTypes, NextAlone DEF OldInv
<1>2. CASE UNCHANGED vars \/ Elapse
  <2>1. UNCHANGED <<epoch, words, pc, packet, born>>
    BY <1>2 DEF vars, bloomVars, cpuVars, historyVars, Elapse
  <2>. QED  BY <1>1, <2>1 DEF OldInv, GenInv, BornInv, FoundInv, Clearing, Bit
<1>3. ASSUME NEW c \in Cpus, StepOf(c) PROVE OldInv'
  BY <1>1, <1>3, NextGen, NextBorn, NextFound DEF OldInv
<1>. QED  BY <1>2, <1>3, NextIsStep

(* No bit is older than its word, for any number of CPUs and packets at    *)
(* once: every claim of a word is followed by a clear of the same packet   *)
(* (bloom_set_bit_gen).                                                    *)
THEOREM BitsAreYoung == Spec => []OldInv
<1>. QED  BY InitOld, NextOld, PTL DEF Spec

(* A packet that is alone is not taken for a retransmit by bits of a       *)
(* generation before the last (bloom_test_bit_gen, bloom_set_bit_gen),     *)
(* whatever packets overlapped before.                                     *)
THEOREM OldBitsForgotten == Spec => OldBitsAreForgotten
<1>. DEFINE Step == \A c \in Cpus : pc[c] = "test" /\ pc'[c] = "set" /\ packet'[c].seen /\ packet[c].alone =>
                      \A i \in 1 .. Len(Hash[packet[c].key]) :
                          born[Hash[packet[c].key][i]] >= packet[c].gen - 1
<1>1. OldInv /\ [Next]_vars => [Step]_vars
  <2>. SUFFICES ASSUME OldInv, Next, NEW c \in Cpus, pc[c] = "test", pc'[c] = "set", packet'[c].seen,
                       packet[c].alone, NEW i \in 1 .. Len(Hash[packet[c].key])
                PROVE  born[Hash[packet[c].key][i]] >= packet[c].gen - 1
    OBVIOUS
  <2>1. Types /\ pc \in [Cpus -> Steps] /\ packet \in [Cpus -> Packet]
    BY DEF OldInv, Types, CpuTypes
  <2>2. PICK d \in Cpus : StepOf(d)
    BY NextIsStep DEF Elapse, cpuVars
  <2>3. d = c
    BY <2>1, <2>2, OthersWait
  <2>4. Test(c)
    BY <2>2, <2>3 DEF StepOf, Arrive, Create, MapFull, Roll, RollWins, RollLoses, Bump, LoadGen, Set,
       Claim, ClaimLost, Clear, Or, Verdict
  <2>5. Last(c)
    BY <2>1, <2>4 DEF Test, Goto
  <2>6. i \in 1 .. packet[c].i
    BY <2>5 DEF Last
  <2>7. /\ packet[c].gen \in Nat /\ Hash[packet[c].key][i] \in Bits
    <3>1. packet[c].key \in Keys /\ packet[c] \in Packet
      BY <2>1, BitType DEF Hashing
    <3>2. Hash[packet[c].key] \in Seq(Bits)
      BY <3>1, HashAssumption
    <3>. QED  BY <3>1, <3>2 DEF Packet
  <2>8. born[Hash[packet[c].key][i]] \in Int
    BY <2>1, <2>7 DEF Types, HistoryTypes, Never
  <2>9. packet[c].gen - 1 <= born[Hash[packet[c].key][i]]
    BY <2>4, <2>6, TestFinds
  <2>. QED  BY <2>7, <2>8, <2>9
<1>. QED  BY <1>1, BitsAreYoung, PTL DEF Spec, OldBitsAreForgotten

-----------------------------------------------------------------------------
(* Retransmits.                                                            *)

(* A bit is held for a generation and nobody is to clear its word.         *)
Safe(b, gen) ==
    /\ Holds(b, gen)
    /\ ~ \E c \in Cpus : Clearing(c, WordOf[b], gen % 2)

Stored(k, gen) == \A j \in 1 .. Len(Hash[k]) : Safe(Hash[k][j], gen)

(* The generation of the epoch that started at start_ns.                   *)
Current == IF \E c \in Cpus : pc[c] = "bump" THEN epoch.gen + 1 ELSE epoch.gen

(* What is recorded was recorded with nobody else at work.                 *)
SoloInv ==
    (\E k \in Keys : recorded[k] # Never) =>
        \A c \in Cpus : pc[c] = "idle" \/ packet[c].alone

(* Where a packet that is alone is: it rolls an epoch that is too old, and *)
(* what it has set of its key is held for the current generation.          *)
AloneAt(c) ==
    /\ pc[c] = "swap" => /\ packet[c].saw = epoch.start_ns
                         /\ packet[c].at - epoch.start_ns > Epoch
    /\ pc[c] = "bump" => epoch.start_ns = packet[c].at
    /\ pc[c] \in Filtering \cup {"verdict"} =>
           /\ epoch.start_ns <= packet[c].at
           /\ packet[c].at - epoch.start_ns <= Epoch
    /\ pc[c] \in Hashing \/ (pc[c] = "verdict" /\ Tested(c)) => packet[c].gen = epoch.gen
    /\ pc[c] = "claim" => packet[c].saw = Word(c).gen /\ Word(c).gen # packet[c].gen
    /\ pc[c] \in {"clear", "or"} => Word(c).gen = packet[c].gen
    /\ pc[c] \in {"set", "claim", "clear", "or"} =>
           \A j \in 1 .. packet[c].i - 1 : Safe(Hash[packet[c].key][j], packet[c].gen)
    /\ pc[c] = "verdict" /\ Tested(c) => Stored(packet[c].key, packet[c].gen)
    /\ pc[c] \notin {"idle", "create", "roll"} => \A k \in Keys : recorded[k] <= packet[c].at

PlaceInv == \A c \in Cpus : packet[c].alone => AloneAt(c)

(* A key that was recorded is held for the current generation, or for the  *)
(* one before, whose end was then after the record; or two epochs ended    *)
(* since, the last of which began more than an Epoch after the record.     *)
HeldInv == \A k \in Keys : recorded[k] # Never =>
    /\ recorded[k] <= now
    /\ \/ Stored(k, Current)
       \/ Stored(k, Current - 1) /\ recorded[k] <= epoch.start_ns
       \/ recorded[k] + Epoch < epoch.start_ns

(* A packet that is alone misses no hash of a key that was recorded in its *)
(* last Epoch.                                                             *)
Due(c) ==
    /\ pc[c] \in Hashing \/ (pc[c] = "verdict" /\ Tested(c))
    /\ recorded[packet[c].key] # Never
    /\ packet[c].at - recorded[packet[c].key] <= Epoch

SeenInv == \A c \in Cpus : packet[c].alone /\ Due(c) => packet[c].seen

SeenAll == Types /\ AloneInv /\ SoloInv /\ PlaceInv /\ HeldInv /\ SeenInv

LEMMA InitSeen == Init => SeenAll
<1>. SUFFICES ASSUME Init PROVE SeenAll
  OBVIOUS
<1>1. Types /\ AloneInv
  BY InitTypes, InitAlone
<1>2. \A c \in Cpus : pc[c] = "idle" /\ ~ packet[c].alone
  BY DEF Init, NoPacket
<1>3. \A k \in Keys : recorded[k] = Never
  BY DEF Init
<1>. QED  BY <1>1, <1>2, <1>3 DEF SeenAll, SoloInv, PlaceInv, HeldInv, SeenInv

(* Nobody else is at work.                                                 *)
Sole(c) == \A d \in Cpus \ {c} : pc[d] = "idle"

Busy(c) == pc[c] # "idle"

LEMMA SoleStays ==
    ASSUME Types, NEW c \in Cpus, StepOf(c), Sole(c)
    PROVE  Sole(c)'
  BY OthersWait DEF Sole

(* All steps but the first are of a packet at work.                        *)
LEMMA StepIsBusy ==
    ASSUME NEW c \in Cpus, StepOf(c)
    PROVE  (\E k \in Keys \cup {NoKey}, p \in Paths : Arrive(c, k, p)) \/ Busy(c)
  BY DEF StepOf, Busy, Create, MapFull, Roll, RollWins, RollLoses, Bump, LoadGen, Test, Set,
     Claim, ClaimLost, Clear, Or, Verdict

(* What is recorded after a step was recorded with nobody else at work.    *)
LEMMA SoloStep ==
    ASSUME SeenAll, NEW c \in Cpus, StepOf(c), NEW k \in Keys, recorded'[k] # Never
    PROVE  /\ Sole(c)
           /\ Busy(c) => packet[c].alone
           /\ recorded' = recorded \/ Verdict(c)
<1>1. Types /\ AloneInv /\ SoloInv
  BY DEF SeenAll
<1>2. CASE \E x \in Keys \cup {NoKey}, p \in Paths : Arrive(c, x, p)
  <2>1. pc[c] = "idle" /\ recorded' = IF Quiet THEN recorded ELSE [x \in Keys |-> Never]
    BY <1>2 DEF Arrive
  <2>2. Quiet
    BY <2>1
  <2>. QED  BY <2>1, <2>2 DEF Quiet, Sole, Busy
<1>3. CASE Verdict(c)
  <2>1. pc[c] = "verdict"
    BY <1>3 DEF Verdict
  <2>2. packet[c].alone
    <3>1. CASE recorded' = recorded
      BY <1>1, <2>1, <3>1 DEF SoloInv
    <3>2. CASE recorded' # recorded
      BY <1>3, <3>2 DEF Verdict
    <3>. QED  BY <3>1, <3>2
  <2>. QED  BY <1>1, <1>3, <2>2 DEF AloneInv, Sole
<1>4. CASE Busy(c) /\ ~ Verdict(c)
  <2>1. recorded' = recorded
    BY <1>4 DEF Busy, StepOf, Arrive, Create, MapFull, Roll, RollWins, RollLoses, Bump, LoadGen, Test, Set,
       Claim, ClaimLost, Clear, Or, historyVars
  <2>2. packet[c].alone
    BY <1>1, <1>4, <2>1 DEF SoloInv, Busy
  <2>. QED  BY <1>1, <2>1, <2>2 DEF AloneInv, Sole
<1>. QED  BY <1>2, <1>3, <1>4, StepIsBusy

(* A packet that is alone after a step is the one that took it.            *)
LEMMA AloneStep ==
    ASSUME SeenAll, NEW c \in Cpus, StepOf(c), NEW a \in Cpus, packet'[a].alone
    PROVE  a = c /\ Sole(c) /\ (Busy(c) => packet[c].alone)
<1>1. Types /\ AloneInv
  BY DEF SeenAll
<1>2. a = c
  <2>. SUFFICES ASSUME a # c PROVE FALSE
    OBVIOUS
  <2>1. packet[a].alone /\ ~ \E k, p : Arrive(c, k, p)
    BY <1>1, OthersWait
  <2>2. pc[c] = "idle"
    BY <1>1, <2>1 DEF AloneInv
  <2>. QED  BY <2>1, <2>2, StepIsBusy DEF Busy
<1>3. packet[c].alone \/ Quiet
  BY <1>1, <1>2, StaysAlone
<1>. QED  BY <1>1, <1>2, <1>3 DEF AloneInv, Quiet, Sole, Busy

(* The fields of a packet that has not gone, and may be counted upon.      *)
LEMMA OwnFields ==
    ASSUME Types, NEW c \in Cpus, StepOf(c), Busy(c), pc'[c] # "idle"
    PROVE  /\ packet'[c].key = packet[c].key
           /\ packet'[c].alone = packet[c].alone
           /\ ~ Roll(c) => packet'[c].at = packet[c].at
           /\ ~ LoadGen(c) => packet'[c].gen = packet[c].gen
           /\ ~ Test(c) /\ ~ LoadGen(c) => packet'[c].seen = packet[c].seen
           /\ ~ Test(c) /\ ~ LoadGen(c) /\ ~ Or(c) => packet'[c].i = packet[c].i
<1>1. packet[c] \in Packet /\ packet \in [Cpus -> Packet] /\ pc \in [Cpus -> Steps]
  BY DEF Types, CpuTypes
<1>2. ~ MapFull(c) /\ ~ Verdict(c) /\ ~ \E k \in Keys \cup {NoKey}, p \in Paths : Arrive(c, k, p)
  BY <1>1 DEF MapFull, Verdict, Goto, Arrive, Busy
<1>3. CASE Create(c) \/ RollWins(c) \/ RollLoses(c) \/ Bump(c) \/ Claim(c) \/ ClaimLost(c) \/ Clear(c)
  BY <1>3 DEF Create, RollWins, RollLoses, Bump, Claim, ClaimLost, Clear
<1>4. CASE Roll(c)
  BY <1>1, <1>4 DEF Roll, Packet
<1>5. CASE LoadGen(c)
  BY <1>1, <1>5 DEF LoadGen, Packet
<1>6. CASE Test(c)
  BY <1>1, <1>6 DEF Test, Packet
<1>7. CASE Set(c)
  BY <1>1, <1>7 DEF Set, Packet
<1>8. CASE Or(c)
  BY <1>1, <1>8 DEF Or, Packet
<1>. QED  BY <1>2, <1>3, <1>4, <1>5, <1>6, <1>7, <1>8 DEF StepOf

LEMMA NextSolo ==
    ASSUME SeenAll, NEW c \in Cpus, StepOf(c)
    PROVE  SoloInv'
<1>. SUFFICES ASSUME NEW k \in Keys, recorded'[k] # Never, NEW d \in Cpus, pc'[d] # "idle"
              PROVE  packet'[d].alone
  BY DEF SoloInv
<1>1. Types
  BY DEF SeenAll
<1>2. Sole(c) /\ (Busy(c) => packet[c].alone)
  BY SoloStep
<1>3. d = c
  BY <1>1, <1>2, SoleStays DEF Sole
<1>4. CASE Busy(c)
  BY <1>1, <1>2, <1>3, <1>4, OwnFields
<1>5. CASE ~ Busy(c)
  <2>1. PICK x \in Keys \cup {NoKey}, p \in Paths : Arrive(c, x, p)
    BY <1>5, StepIsBusy
  <2>2. Quiet
    BY <1>2, <1>5 DEF Sole, Busy, Quiet
  <2>. QED  BY <1>3, <2>1, <2>2 DEF Arrive, NoPacket
<1>. QED  BY <1>4, <1>5

(* The current generation is that of the epoch, but between the swap and   *)
(* the increment of the packet that is at work.                            *)
LEMMA SoleCurrent ==
    ASSUME Types, NEW c \in Cpus, Sole(c)
    PROVE  /\ Current = IF pc[c] = "bump" THEN epoch.gen + 1 ELSE epoch.gen
           /\ Current \in Nat /\ epoch.gen \in Nat
           /\ \A w, h : (\E d \in Cpus : Clearing(d, w, h)) <=> Clearing(c, w, h)
<1>1. epoch.gen \in Nat
  BY DEF Types, BloomTypes
<1>2. (\E d \in Cpus : pc[d] = "bump") <=> pc[c] = "bump"
  BY DEF Sole
<1>3. Current = IF pc[c] = "bump" THEN epoch.gen + 1 ELSE epoch.gen
  BY <1>2 DEF Current
<1>4. \A w, h : (\E d \in Cpus : Clearing(d, w, h)) <=> Clearing(c, w, h)
  BY DEF Sole, Clearing
<1>. QED  BY <1>1, <1>3, <1>4

(* A packet that is alone loses no bit of its generation or the one        *)
(* before: it claims and clears words of its half that are older.          *)
LEMMA KeepsSafe ==
    ASSUME Types, NEW c \in Cpus, StepOf(c), Sole(c), Busy(c) => AloneAt(c),
           NEW b \in Bits, NEW g \in {Current, Current - 1}, Safe(b, g)
    PROVE  Safe(b, g)'
<1>1. Types' /\ Sole(c)'
  BY SoleStays, NextTypes, NextIsStep
<1>2. g \in Int /\ WordOf[b] \in Words /\ g % 2 \in Halves
  BY SoleCurrent, HashAssumption DEF Halves
<1>3. /\ words[WordOf[b]][g % 2].gen = g /\ b \in words[WordOf[b]][g % 2].bits
      /\ ~ Clearing(c, WordOf[b], g % 2)
  BY SoleCurrent DEF Safe, Holds
<1>. SUFFICES /\ words'[WordOf[b]][g % 2].gen = g /\ b \in words'[WordOf[b]][g % 2].bits
              /\ ~ Clearing(c, WordOf[b], g % 2)'
  <2>1. ~ \E d \in Cpus : Clearing(d, WordOf[b], g % 2)'
    BY <1>1 DEF Sole, Clearing
  <2>. QED  BY <2>1 DEF Safe, Holds
<1>4. PICK w, h : w = WordOf[Bit(c)] /\ h = packet[c].gen % 2
  OBVIOUS
<1>5. CASE Claim(c)
  <2>1. pc[c] = "claim" /\ packet[c].gen = epoch.gen /\ words[w][h].gen # packet[c].gen
    BY <1>4, <1>5 DEF Claim, Busy, AloneAt, Hashing, Word
  <2>2. g = epoch.gen \/ g = epoch.gen - 1
    BY <2>1, SoleCurrent
  <2>3. WordOf[b] # w \/ g % 2 # h
    <3>1. CASE g = epoch.gen
      BY <1>3, <1>4, <2>1, <3>1
    <3>2. CASE g = epoch.gen - 1
      <4>1. epoch.gen \in Nat
        BY SoleCurrent
      <4>2. g % 2 # epoch.gen % 2
        BY <3>2, <4>1
      <4>. QED  BY <1>4, <2>1, <4>2
    <3>. QED  BY <2>2, <3>1, <3>2
  <2>4. words'[WordOf[b]][g % 2] = words[WordOf[b]][g % 2]
    BY <1>2, <1>4, <1>5, <2>3, ClaimedWord
  <2>5. ~ Clearing(c, WordOf[b], g % 2)'
    <3>1. packet' = packet
      BY <1>5 DEF Claim
    <3>. QED  BY <1>4, <2>3, <3>1 DEF Clearing, Bit
  <2>. QED  BY <1>3, <2>4, <2>5
<1>6. CASE Clear(c)
  <2>1. WordOf[b] # w \/ g % 2 # h
    BY <1>3, <1>4, <1>6 DEF Clear, Clearing
  <2>2. words'[WordOf[b]][g % 2] = words[WordOf[b]][g % 2]
    BY <1>2, <1>4, <1>6, <2>1, ClearedWord
  <2>3. ~ Clearing(c, WordOf[b], g % 2)'
    BY <1>6 DEF Clear, Goto, Clearing, Types, CpuTypes
  <2>. QED  BY <1>3, <2>2, <2>3
<1>7. CASE Or(c)
  <2>0. \A x : x \in words'[w][h].bits <=> x \in words[w][h].bits \/ x = Bit(c)
    BY <1>4, <1>7, OredWord
  <2>1. /\ words'[w][h].gen = words[w][h].gen
        /\ \A v \in Words, f \in Halves : v # w \/ f # h => words'[v][f] = words[v][f]
    BY <1>4, <1>7, OredWord
  <2>2. words'[WordOf[b]][g % 2].gen = g /\ b \in words'[WordOf[b]][g % 2].bits
    <3>1. CASE WordOf[b] = w /\ g % 2 = h
      BY <1>3, <2>0, <2>1, <3>1
    <3>2. CASE WordOf[b] # w \/ g % 2 # h
      BY <1>2, <1>3, <2>1, <3>2
    <3>. QED  BY <3>1, <3>2
  <2>3. ~ Clearing(c, WordOf[b], g % 2)'
    BY <1>7 DEF Or, Goto, Clearing, Types, CpuTypes
  <2>. QED  BY <2>2, <2>3
<1>8. CASE ~ Claim(c) /\ ~ Clear(c) /\ ~ Or(c)
  <2>1. words' = words
    BY <1>8, SameWords
  <2>2. ~ ClaimLost(c)
    BY DEF ClaimLost, AloneAt, Busy
  <2>3. pc'[c] # "clear"
    BY <1>8, <2>2 DEF StepOf, Arrive, Create, MapFull, Roll, RollWins, RollLoses, Bump, LoadGen, Test, Set,
       Verdict, Goto, Rolled, Types, CpuTypes
  <2>. QED  BY <1>3, <2>1, <2>3 DEF Clearing
<1>. QED  BY <1>5, <1>6, <1>7, <1>8

(* The step of a packet that is alone takes it to the next place.          *)
LEMMA NextPlace ==
    ASSUME SeenAll, NEW c \in Cpus, StepOf(c)
    PROVE  PlaceInv'
<1>. SUFFICES ASSUME NEW a \in Cpus, packet'[a].alone PROVE AloneAt(a)'
  BY DEF PlaceInv
<1>1. a = c /\ Sole(c) /\ (Busy(c) => packet[c].alone)
  BY AloneStep
<1>2. Types /\ Types' /\ (Busy(c) => AloneAt(c)) /\ HeldInv
  BY <1>1, NextTypes, NextIsStep DEF SeenAll, PlaceInv
<1>3. /\ pc \in [Cpus -> Steps] /\ packet \in [Cpus -> Packet] /\ packet[c] \in Packet
      /\ packet[c].at \in Nat /\ packet[c].gen \in Nat /\ packet[c].i \in Nat
      /\ now \in Nat /\ epoch.start_ns \in Nat /\ epoch.gen \in Nat /\ epoch.start_ns <= now
  <2>1. pc \in [Cpus -> Steps] /\ packet \in [Cpus -> Packet] /\ packet[c] \in Packet
    BY <1>2 DEF Types, CpuTypes
  <2>2. packet[c].at \in Nat /\ packet[c].gen \in Nat /\ packet[c].i \in Nat
    BY <2>1 DEF Packet
  <2>3. now \in Nat /\ epoch.start_ns \in Nat /\ epoch.gen \in Nat /\ epoch.start_ns <= now
    BY <1>2, SizeAssumption DEF Types, BloomTypes
  <2>. QED  BY <2>1, <2>2, <2>3
<1>4. pc'[c] # "idle"
  BY <1>1, <1>2 DEF Types, CpuTypes, NoPacket
<1>5. ~ MapFull(c) /\ ~ Verdict(c)
  BY <1>3, <1>4 DEF MapFull, Verdict, Goto
<1>6. CASE (\E k \in Keys \cup {NoKey}, p \in Paths : Arrive(c, k, p)) \/ Create(c)
  <2>1. pc'[c] \in {"create", "roll"}
    BY <1>3, <1>6 DEF Arrive, Create, Goto
  <2>. QED  BY <1>1, <2>1 DEF AloneAt, Filtering, Hashing
<1>7. CASE Busy(c) /\ ~ Create(c)
  <2>1. recorded' = recorded
    BY <1>5, <1>7 DEF Busy, StepOf, Arrive, Roll, RollWins, RollLoses, Bump, LoadGen, Test, Set,
       Claim, ClaimLost, Clear, Or, historyVars
  <2>2. /\ packet'[c].key = packet[c].key
        /\ ~ Roll(c) => packet'[c].at = packet[c].at
        /\ ~ LoadGen(c) => packet'[c].gen = packet[c].gen
        /\ ~ Test(c) /\ ~ LoadGen(c) /\ ~ Or(c) => packet'[c].i = packet[c].i
    BY <1>2, <1>4, <1>7, OwnFields
  <2>3. Tested(c)' = Tested(c)
    BY <2>2 DEF Tested
  <2>4. CASE Roll(c)
    <3>1. packet'[c].at = now /\ packet'[c].saw = epoch.start_ns /\ epoch' = epoch
      BY <1>3, <2>4 DEF Roll, Packet, bloomVars
    <3>2. pc'[c] = IF now - epoch.start_ns > Epoch THEN "swap"
                   ELSE IF Tested(c) THEN "load" ELSE "verdict"
      BY <1>3, <2>4 DEF Roll, Goto, Rolled
    <3>3. \A k \in Keys : recorded[k] <= now
      BY <1>2, <1>3 DEF HeldInv, Never
    <3>. QED  BY <1>1, <1>3, <2>1, <2>3, <3>1, <3>2, <3>3, SizeAssumption DEF AloneAt, Filtering, Hashing
  <2>5. CASE RollWins(c)
    <3>1. pc[c] = "swap" /\ pc'[c] = "bump" /\ epoch'.start_ns = packet[c].at
      BY <1>2, <1>3, <2>5 DEF RollWins, Goto, Types, BloomTypes
    <3>2. packet'[c].at = packet[c].at
      BY <2>5 DEF RollWins
    <3>. QED  BY <1>1, <1>2, <1>7, <2>1, <3>1, <3>2 DEF AloneAt, Filtering, Hashing
  <2>6. CASE RollLoses(c)
    BY <1>2, <1>7, <2>6 DEF RollLoses, AloneAt
  <2>7. CASE Bump(c)
    <3>1. /\ pc[c] = "bump" /\ pc'[c] = (IF Tested(c) THEN "load" ELSE "verdict")
          /\ epoch'.start_ns = epoch.start_ns
      BY <1>2, <1>3, <2>7 DEF Bump, Goto, Rolled, Types, BloomTypes
    <3>2. packet'[c].at = packet[c].at
      BY <2>7 DEF Bump
    <3>3. epoch.start_ns = packet[c].at /\ \A k \in Keys : recorded[k] <= packet[c].at
      BY <1>2, <1>7, <3>1 DEF AloneAt
    <3>. QED  BY <1>1, <1>3, <2>1, <2>3, <3>1, <3>2, <3>3, SizeAssumption DEF AloneAt, Filtering, Hashing
  <2>8. CASE LoadGen(c)
    <3>1. pc[c] = "load" /\ pc'[c] = "test" /\ packet'[c].gen = epoch.gen /\ epoch' = epoch
      BY <1>3, <2>8 DEF LoadGen, Goto, bloomVars, Packet
    <3>2. packet'[c].at = packet[c].at
      BY <2>2, <2>8 DEF LoadGen, Roll
    <3>. QED  BY <1>1, <1>2, <1>7, <2>1, <3>1, <3>2 DEF AloneAt, Filtering, Hashing
  <2>9. CASE Test(c) \/ Set(c) \/ Claim(c) \/ ClaimLost(c) \/ Clear(c) \/ Or(c)
    <3>1. /\ pc[c] \in Hashing /\ epoch' = epoch /\ packet'[c].at = packet[c].at
          /\ packet'[c].gen = packet[c].gen
      BY <2>2, <2>9 DEF Test, Set, Claim, ClaimLost, Clear, Or, Hashing, bloomVars, Roll, LoadGen
    <3>2. /\ packet[c].gen = epoch.gen /\ Current = epoch.gen
          /\ epoch.start_ns <= packet[c].at /\ packet[c].at - epoch.start_ns <= Epoch
          /\ \A k \in Keys : recorded[k] <= packet[c].at
      BY <1>1, <1>2, <1>7, <3>1, SoleCurrent DEF AloneAt, Hashing, Filtering
    <3>3. PICK key, gen, bit, w, h : /\ key = packet[c].key /\ gen = packet[c].gen /\ bit = Bit(c)
                                     /\ w = WordOf[bit] /\ h = gen % 2
      OBVIOUS
    <3>4. /\ key \in Keys /\ Hash[key] \in Seq(Bits) /\ packet[c].i \in 1 .. Len(Hash[key])
          /\ bit \in Bits /\ w \in Words /\ h \in Halves /\ gen \in Nat /\ Len(Hash[key]) \in Nat
          /\ bit = Hash[key][packet[c].i]
      BY <1>2, <3>1, <3>3, BitType DEF Bit
    <3>5. packet'[c].key = key /\ packet'[c].gen = gen /\ epoch'.gen = gen
      BY <2>2, <3>1, <3>2, <3>3
    <3>6. ASSUME NEW j \in 1 .. Len(Hash[key]), Safe(Hash[key][j], gen)
          PROVE  Safe(Hash[key][j], gen)'
      <4>1. Hash[key][j] \in Bits
        BY <3>4
      <4>. QED  BY <1>1, <1>2, <3>2, <3>3, <3>6, <4>1, KeepsSafe
    <3>7. \A j \in 1 .. packet[c].i - 1 : pc[c] # "test" => Safe(Hash[key][j], gen)'
      <4>1. pc[c] # "test" => pc[c] \in {"set", "claim", "clear", "or"}
        BY <3>1 DEF Hashing
      <4>2. \A j \in 1 .. packet[c].i - 1 : pc[c] # "test" => Safe(Hash[key][j], gen)
        BY <1>1, <1>2, <1>7, <3>3, <4>1 DEF AloneAt
      <4>3. \A j \in 1 .. packet[c].i - 1 : j \in 1 .. Len(Hash[key])
        BY <3>4
      <4>. QED  BY <3>6, <4>2, <4>3
    <3>8. SUFFICES
            /\ pc'[c] \in {"test", "set", "claim", "clear", "or", "verdict"}
            /\ pc'[c] = "claim" => packet'[c].saw = Word(c)'.gen /\ Word(c)'.gen # gen
            /\ pc'[c] \in {"clear", "or"} => Word(c)'.gen = gen
            /\ pc'[c] \in {"set", "claim", "clear", "or"} =>
                   \A j \in 1 .. packet'[c].i - 1 : Safe(Hash[key][j], gen)'
            /\ pc'[c] = "verdict" => \A j \in 1 .. Len(Hash[key]) : Safe(Hash[key][j], gen)'
      <4>1. /\ epoch'.start_ns <= packet'[c].at /\ packet'[c].at - epoch'.start_ns <= Epoch
            /\ \A k \in Keys : recorded'[k] <= packet'[c].at
        BY <2>1, <3>1, <3>2
      <4>. QED  BY <1>1, <3>5, <4>1 DEF AloneAt, Stored
    <3>9. CASE Test(c)
      <4>1. pc'[c] = (IF Last(c) THEN "set" ELSE "test") /\ (Last(c) => packet'[c].i = 1)
        BY <1>3, <3>9 DEF Test, Goto, Packet
      <4>. QED  BY <4>1
    <3>10. CASE Set(c)
      <4>1. /\ pc[c] = "set" /\ pc'[c] = (IF Word(c).gen = gen THEN "or" ELSE "claim")
            /\ packet'[c].saw = Word(c).gen /\ packet'[c].i = packet[c].i /\ words' = words
        BY <1>3, <3>3, <3>10 DEF Set, Goto, Packet, bloomVars
      <4>2. Word(c)' = Word(c)
        BY <2>2, <3>1, <4>1 DEF Word, Bit
      <4>. QED  BY <3>7, <4>1, <4>2
    <3>11. CASE Claim(c)
      <4>1. pc[c] = "claim" /\ pc'[c] = "clear" /\ packet' = packet
        BY <1>3, <3>11 DEF Claim, Goto
      <4>2. words'[w][h].gen = gen
        BY <1>2, <3>3, <3>11, ClaimedWord
      <4>3. Word(c)'.gen = gen
        BY <3>3, <4>1, <4>2 DEF Word, Bit
      <4>. QED  BY <3>7, <4>1, <4>3
    <3>12. CASE ClaimLost(c)
      BY <1>1, <1>2, <1>7, <3>12 DEF ClaimLost, AloneAt
    <3>13. CASE Clear(c)
      <4>1. pc[c] = "clear" /\ pc'[c] = "or" /\ packet' = packet
        BY <1>3, <3>13 DEF Clear, Goto
      <4>2. words'[w][h].gen = words[w][h].gen
        BY <1>2, <3>3, <3>13, ClearedWord
      <4>3. Word(c).gen = gen
        BY <1>1, <1>2, <1>7, <3>3, <4>1 DEF AloneAt
      <4>4. Word(c)'.gen = gen
        BY <3>3, <4>1, <4>2, <4>3 DEF Word, Bit
      <4>. QED  BY <3>7, <4>1, <4>4
    <3>14. CASE Or(c)
      <4>1. /\ pc[c] = "or" /\ pc'[c] = (IF Last(c) THEN "verdict" ELSE "set")
            /\ packet'[c].i = IF Last(c) THEN packet[c].i ELSE packet[c].i + 1
        BY <1>3, <3>14 DEF Or, Goto, Packet
      <4>2. words'[w][h].gen = gen
        <5>1. words'[w][h].gen = words[w][h].gen
          BY <1>2, <3>3, <3>14, OredWord
        <5>2. Word(c).gen = gen
          BY <1>1, <1>2, <1>7, <3>3, <4>1 DEF AloneAt
        <5>. QED  BY <3>3, <5>1, <5>2 DEF Word
      <4>3. \A x : x \in words'[w][h].bits <=> x \in words[w][h].bits \/ x = bit
        BY <1>2, <3>3, <3>14, OredWord
      <4>4. ~ \E d \in Cpus : Clearing(d, w, h)'
        <5>1. Sole(c)' /\ pc'[c] # "clear"
          BY <1>1, <1>2, <4>1, SoleStays
        <5>. QED  BY <5>1 DEF Sole, Clearing
      <4>5. Safe(bit, gen)'
        BY <3>3, <4>2, <4>3, <4>4 DEF Safe, Holds
      <4>6. \A j \in 1 .. packet[c].i : Safe(Hash[key][j], gen)'
        BY <3>4, <3>7, <4>1, <4>5
      <4>7. Last(c) => packet[c].i = Len(Hash[key])
        BY <3>3 DEF Last
      <4>. QED  BY <1>3, <4>1, <4>6, <4>7
    <3>. QED  BY <2>9, <3>9, <3>10, <3>11, <3>12, <3>13, <3>14
  <2>. QED  BY <1>5, <1>7, <2>4, <2>5, <2>6, <2>7, <2>8, <2>9 DEF StepOf, Arrive, Busy
<1>. QED  BY <1>6, <1>7, StepIsBusy

(* A step leaves what is recorded where it is held, or moves it on by one  *)
(* generation.                                                             *)
LEMMA NextHeld ==
    ASSUME SeenAll, NEW c \in Cpus, StepOf(c)
    PROVE  HeldInv'
<1>. DEFINE Held(k) == /\ recorded[k] <= now
                       /\ \/ Stored(k, Current)
                          \/ Stored(k, Current - 1) /\ recorded[k] <= epoch.start_ns
                          \/ recorded[k] + Epoch < epoch.start_ns
<1>. SUFFICES ASSUME NEW k \in Keys, recorded'[k] # Never PROVE Held(k)'
  BY DEF HeldInv
<1>1. Sole(c) /\ (Busy(c) => packet[c].alone) /\ (recorded' = recorded \/ Verdict(c))
  BY SoloStep
<1>2. Types /\ Types' /\ Sole(c)' /\ (Busy(c) => AloneAt(c))
  BY <1>1, SoleStays, NextTypes, NextIsStep DEF SeenAll, PlaceInv
<1>3. /\ pc \in [Cpus -> Steps] /\ recorded \in [Keys -> {Never} \cup 0 .. MaxTime]
      /\ now' = now /\ now \in Nat /\ epoch.start_ns \in Nat /\ packet[c].at \in Nat
      /\ recorded[k] \in Int /\ packet[c].at <= now
  <2>1. packet[c] \in Packet /\ packet[c].at <= now
    BY <1>2 DEF Types, CpuTypes
  <2>2. now' = now
    BY DEF StepOf, Arrive, Create, MapFull, Roll, RollWins, RollLoses, Bump, LoadGen, Test, Set,
       Claim, ClaimLost, Clear, Or, Verdict
  <2>3. pc \in [Cpus -> Steps] /\ recorded \in [Keys -> {Never} \cup 0 .. MaxTime]
    BY <1>2 DEF Types, CpuTypes, HistoryTypes
  <2>4. now \in Nat /\ epoch.start_ns \in Nat
    BY <1>2, SizeAssumption DEF Types, BloomTypes
  <2>5. recorded[k] \in Int
    BY <2>3, SizeAssumption DEF Never
  <2>. QED  BY <2>1, <2>2, <2>3, <2>4, <2>5 DEF Packet
<1>4. /\ Current = IF pc[c] = "bump" THEN epoch.gen + 1 ELSE epoch.gen
      /\ Current' = IF pc'[c] = "bump" THEN epoch'.gen + 1 ELSE epoch'.gen
      /\ Current \in Nat /\ epoch.gen \in Nat
  <2>1. (\E d \in Cpus : pc[d] = "bump") <=> pc[c] = "bump"
    BY <1>1 DEF Sole
  <2>2. (\E d \in Cpus : pc'[d] = "bump") <=> pc'[c] = "bump"
    BY <1>2 DEF Sole
  <2>3. epoch.gen \in Nat
    BY <1>2 DEF Types, BloomTypes
  <2>. QED  BY <2>1, <2>2, <2>3 DEF Current
<1>5. PICK cur : cur = Current
  OBVIOUS
<1>6. ASSUME NEW g \in {cur, cur - 1}, Stored(k, g)
      PROVE  Stored(k, g)'
  <2>. SUFFICES ASSUME NEW j \in 1 .. Len(Hash[k]), Safe(Hash[k][j], g) PROVE Safe(Hash[k][j], g)'
    BY <1>6 DEF Stored
  <2>1. Hash[k][j] \in Bits
    BY HashAssumption
  <2>. QED  BY <1>1, <1>2, <1>5, <2>1, KeepsSafe
<1>7. CASE Verdict(c) /\ recorded'[k] # recorded[k]
  <2>1. /\ pc[c] = "verdict" /\ Tested(c) /\ k = packet[c].key /\ recorded'[k] = packet[c].at
        /\ pc'[c] = "idle" /\ epoch' = epoch
    BY <1>3, <1>7 DEF Verdict, Goto, bloomVars
  <2>2. Stored(k, packet[c].gen) /\ packet[c].gen = epoch.gen
    BY <1>2, <2>1 DEF AloneAt, Busy
  <2>3. Current' = cur /\ cur = epoch.gen
    BY <1>4, <1>5, <2>1
  <2>4. Stored(k, cur)'
    BY <1>6, <2>2, <2>3
  <2>. QED  BY <1>3, <2>1, <2>3, <2>4
<1>8. CASE recorded'[k] = recorded[k]
  <2>1. Held(k)
    BY <1>8 DEF SeenAll, HeldInv
  <2>2. CASE RollWins(c)
    <3>1. /\ pc[c] = "swap" /\ pc'[c] = "bump" /\ epoch'.start_ns = packet[c].at /\ epoch'.gen = epoch.gen
      BY <1>2, <1>3, <2>2 DEF RollWins, Goto, Types, BloomTypes
    <3>2. /\ packet[c].at - epoch.start_ns > Epoch /\ recorded[k] <= packet[c].at
      BY <1>2, <3>1 DEF AloneAt, Busy
    <3>3. Current' = cur + 1 /\ cur \in Nat
      BY <1>4, <1>5, <3>1
    <3>4. Stored(k, cur)' => Stored(k, Current - 1)'
      BY <3>3
    <3>5. CASE Stored(k, Current)
      BY <1>3, <1>5, <1>6, <1>8, <2>1, <3>1, <3>2, <3>4, <3>5
    <3>6. CASE recorded[k] <= epoch.start_ns
      BY <1>3, <1>8, <2>1, <3>1, <3>2, <3>6, SizeAssumption
    <3>7. CASE recorded[k] + Epoch < epoch.start_ns
      BY <1>3, <1>8, <2>1, <3>1, <3>2, <3>7, SizeAssumption
    <3>. QED  BY <2>1, <3>5, <3>6, <3>7
  <2>3. CASE ~ RollWins(c)
    <3>1. epoch'.start_ns = epoch.start_ns
      BY <1>2, <2>3 DEF StepOf, Arrive, Create, MapFull, Roll, RollLoses, Bump, LoadGen, Test, Set,
         Claim, ClaimLost, Clear, Or, Verdict, bloomVars, Types, BloomTypes
    <3>2. Current' = cur
      <4>1. CASE Bump(c)
        <5>1. pc[c] = "bump" /\ pc'[c] # "bump" /\ epoch'.gen = epoch.gen + 1
          BY <1>2, <1>3, <4>1 DEF Bump, Goto, Rolled, Types, BloomTypes
        <5>. QED  BY <1>4, <1>5, <5>1
      <4>2. CASE ~ Bump(c)
        <5>1. epoch' = epoch
          BY <2>3, <4>2 DEF StepOf, Arrive, Create, MapFull, Roll, RollLoses, LoadGen, Test, Set,
             Claim, ClaimLost, Clear, Or, Verdict, bloomVars
        <5>2. pc[c] # "bump" /\ pc'[c] # "bump"
          BY <1>3, <2>3, <4>2 DEF StepOf, Arrive, Create, MapFull, Roll, RollLoses, LoadGen, Test, Set,
             Claim, ClaimLost, Clear, Or, Verdict, Goto, Rolled
        <5>. QED  BY <1>4, <1>5, <5>1, <5>2
      <4>. QED  BY <4>1, <4>2
    <3>3. /\ Stored(k, Current) => Stored(k, Current)'
          /\ Stored(k, Current - 1) => Stored(k, Current - 1)'
      <4>1. Stored(k, cur) => Stored(k, cur)'
        BY <1>6
      <4>2. Stored(k, cur - 1) => Stored(k, cur - 1)'
        BY <1>6
      <4>. QED  BY <1>5, <3>2, <4>1, <4>2
    <3>. QED  BY <1>3, <1>8, <2>1, <3>1, <3>3
  <2>. QED  BY <2>2, <2>3
<1>. QED  BY <1>1, <1>7, <1>8

LEMMA NextSeen ==
    ASSUME SeenAll, NEW c \in Cpus, StepOf(c)
    PROVE  SeenInv'
<1>. SUFFICES ASSUME NEW a \in Cpus, packet'[a].alone, Due(a)' PROVE packet'[a].seen
  BY DEF SeenInv
<1>1. a = c /\ Sole(c) /\ (Busy(c) => packet[c].alone)
  BY AloneStep
<1>2. Types /\ (Busy(c) => AloneAt(c)) /\ HeldInv
  BY <1>1 DEF SeenAll, PlaceInv
<1>3. /\ pc \in [Cpus -> Steps] /\ packet \in [Cpus -> Packet] /\ packet[c] \in Packet
  BY <1>2 DEF Types, CpuTypes
<1>4. pc'[c] \in Hashing \/ (pc'[c] = "verdict" /\ Tested(c)')
  BY <1>1 DEF Due
<1>5. pc'[c] # "idle"
  BY <1>4 DEF Hashing
<1>6. Busy(c) /\ ~ Create(c) /\ ~ Verdict(c)
  <2>1. ~ \E k \in Keys \cup {NoKey}, p \in Paths : Arrive(c, k, p)
    BY <1>3, <1>4 DEF Arrive, Goto, Hashing
  <2>. QED  BY <1>3, <1>4, <2>1, StepIsBusy DEF Create, Verdict, Goto, Hashing
<1>7. /\ packet'[c].key = packet[c].key
      /\ ~ Roll(c) => packet'[c].at = packet[c].at
      /\ ~ Test(c) /\ ~ LoadGen(c) => packet'[c].seen = packet[c].seen
  BY <1>2, <1>5, <1>6, OwnFields
<1>8. Tested(c)' = Tested(c)
  BY <1>7 DEF Tested
<1>9. LoadGen(c) \/ Test(c) \/ Set(c) \/ Claim(c) \/ ClaimLost(c) \/ Clear(c) \/ Or(c)
  BY <1>3, <1>4, <1>6, <1>8 DEF StepOf, Busy, Arrive, MapFull, Roll, RollWins, RollLoses, Bump, Verdict,
     Goto, Rolled, Hashing
<1>10. CASE LoadGen(c)
  BY <1>1, <1>3, <1>10 DEF LoadGen, Packet
<1>11. CASE ~ LoadGen(c)
  <2>1. pc[c] \in Hashing /\ recorded' = recorded /\ ~ Roll(c)
    BY <1>9, <1>11 DEF Test, Set, Claim, ClaimLost, Clear, Or, Hashing, historyVars, Roll
  <2>2. Due(c)
    BY <1>1, <1>7, <2>1 DEF Due
  <2>3. packet[c].seen
    BY <1>1, <1>6, <2>2 DEF SeenAll, SeenInv
  <2>4. CASE ~ Test(c)
    BY <1>1, <1>7, <1>11, <2>3, <2>4
  <2>5. CASE Test(c)
    <3>1. pc[c] = "test"
      BY <2>5 DEF Test
    <3>2. /\ packet[c].key \in Keys /\ packet[c].i \in 1 .. Len(Hash[packet[c].key])
          /\ Bit(c) = Hash[packet[c].key][packet[c].i]
      BY <1>2, <2>1, BitType DEF Bit
    <3>3. Current = packet[c].gen
      BY <1>1, <1>2, <1>6, <2>1, <3>1, SoleCurrent DEF AloneAt
    <3>4. ~ (recorded[packet[c].key] + Epoch < epoch.start_ns)
      <4>1. epoch.start_ns <= packet[c].at
        BY <1>2, <1>6, <3>1 DEF AloneAt, Filtering
      <4>2. packet[c].at - recorded[packet[c].key] <= Epoch
        BY <2>2 DEF Due
      <4>3. epoch.start_ns \in Int /\ packet[c].at \in Int /\ recorded[packet[c].key] \in Int
        <5>1. recorded[packet[c].key] \in Int
          BY <1>2, <3>2, SizeAssumption DEF Types, HistoryTypes, Never
        <5>2. epoch.start_ns \in Int
          BY <1>2, SizeAssumption DEF Types, BloomTypes
        <5>. QED  BY <1>3, <5>1, <5>2 DEF Packet
      <4>. QED  BY <4>1, <4>2, <4>3, SizeAssumption
    <3>5. Stored(packet[c].key, packet[c].gen) \/ Stored(packet[c].key, packet[c].gen - 1)
      BY <1>2, <2>2, <3>2, <3>3, <3>4 DEF HeldInv, Due
    <3>6. Holds(Bit(c), packet[c].gen) \/ Holds(Bit(c), packet[c].gen - 1)
      BY <3>2, <3>5 DEF Stored, Safe
    <3>. QED  BY <1>1, <1>3, <2>3, <2>5, <3>6 DEF Test, Packet
  <2>. QED  BY <2>4, <2>5
<1>. QED  BY <1>10, <1>11

LEMMA NextSeenAll == SeenAll /\ [Next]_vars => SeenAll'
<1>. SUFFICES ASSUME SeenAll, [Next]_vars PROVE SeenAll'
  OBVIOUS
<1>1. Types' /\ AloneInv'
  BY NextTypes, NextAlone DEF SeenAll
<1>2. CASE UNCHANGED vars \/ Elapse
  <2>1. UNCHANGED <<epoch, words, pc, packet, recorded>>
    BY <1>2 DEF vars, bloomVars, cpuVars, historyVars, Elapse
  <2>2. now <= now' /\ now \in Nat /\ now' \in Nat
    BY <1>2, SizeAssumption DEF SeenAll, Types, BloomTypes, vars, Elapse
  <2>3. /\ Current' = Current
        /\ \A c \in Cpus : AloneAt(c) => AloneAt(c)'
        /\ \A c \in Cpus : Due(c)' => Due(c)
        /\ \A k \in Keys, g \in Int : Stored(k, g)' = Stored(k, g)
    <3>1. Current' = Current
      BY <2>1 DEF Current
    <3>2. \A k \in Keys, g \in Int : Stored(k, g)' = Stored(k, g)
      BY <2>1 DEF Stored, Safe, Holds, Clearing, Bit
    <3>3. \A c \in Cpus : AloneAt(c) => AloneAt(c)'
      <4>1. \A b, g : Safe(b, g)' <=> Safe(b, g)
        BY <2>1 DEF Safe, Holds, Clearing, Bit
      <4>2. \A k, g : Stored(k, g)' <=> Stored(k, g)
        BY <4>1 DEF Stored
      <4>3. \A c \in Cpus : Word(c)' = Word(c) /\ (Tested(c)' <=> Tested(c))
        BY <2>1 DEF Word, Bit, Tested
      <4>. QED  BY <2>1, <4>1, <4>2, <4>3 DEF AloneAt
    <3>4. \A c \in Cpus : Due(c)' => Due(c)
      BY <2>1 DEF Due, Tested
    <3>. QED  BY <3>1, <3>2, <3>3, <3>4
  <2>4. SoloInv' /\ PlaceInv' /\ SeenInv'
    BY <2>1, <2>3 DEF SeenAll, SoloInv, PlaceInv, SeenInv
  <2>5. HeldInv'
    <3>1. \A k \in Keys : recorded[k] \in Int
      BY SizeAssumption DEF SeenAll, Types, HistoryTypes, Never
    <3>2. Current \in Int
      BY DEF Current, SeenAll, Types, BloomTypes
    <3>. QED  BY <2>1, <2>2, <2>3, <3>1, <3>2 DEF SeenAll, HeldInv
  <2>. QED  BY <1>1, <2>4, <2>5 DEF SeenAll
<1>3. ASSUME NEW c \in Cpus, StepOf(c) PROVE SeenAll'
  BY <1>1, <1>3, NextSolo, NextPlace, NextHeld, NextSeen DEF SeenAll
<1>. QED  BY <1>2, <1>3, NextIsStep

(* A key that was recorded with nobody else at work is held for as long as *)
(* one Epoch (bloom_maybe_roll_epoch, bloom_set_bit_gen), and a packet     *)
(* that is alone misses none of its bits.                                  *)
THEOREM RecordsAreHeld == Spec => []SeenAll
<1>. QED  BY InitSeen, NextSeenAll, PTL DEF Spec

(* The detector misses no retransmit within an Epoch of the segment, if no *)
(* packets overlapped since: neither the roll of an epoch nor a recycled   *)
(* word forgets it that early (bloom_test_and_set).                        *)
THEOREM RetransmitsSeen == Spec => []RetransmitsAreSeen
<1>1. SeenAll => RetransmitsAreSeen
  BY DEF SeenAll, SeenInv, Due, RetransmitsAreSeen
<1>. QED  BY <1>1, RecordsAreHeld, PTL

(* Types, and no more entries of transit_loss_map than it has room for.    *)
THEOREM BloomTypesHold == Spec => []TypeOK
<1>1. Types => TypeOK
  <2>. SUFFICES ASSUME Types PROVE TypeOK
    OBVIOUS
  <2>1. \A c \in Cpus : packet[c].key \in Keys \cup {NoKey}
    BY DEF Types, CpuTypes, Packet
  <2>2. epoch \in [gen : Nat, start_ns : 0 .. MaxTime] /\ now \in 0 .. MaxTime
    BY DEF Types, BloomTypes
  <2>3. words \in [Words -> [0 .. 1 -> [gen : Nat, bits : SUBSET Bits]]]
    BY DEF Types, BloomTypes, Halves
  <2>4. entries \in SUBSET Paths /\ Cardinality(entries) <= MapSize
        /\ stats \in [Paths -> [segments : Nat, retransmits : Nat]]
    BY DEF Types, MapTypes
  <2>5. arrived \in 0 .. MaxPackets /\ recorded \in [Keys -> {Never} \cup 0 .. MaxTime]
        /\ born \in [Bits -> {Never} \cup Nat]
    BY DEF Types, HistoryTypes
  <2>6. /\ pc \in [Cpus -> Steps]
        /\ \A c \in Cpus :
             /\ pc[c] = "idle" => packet[c] = NoPacket
             /\ pc[c] # "idle" => packet[c].path \in Paths
             /\ pc[c] \in {"test", "set", "claim", "clear", "or"} =>
                    packet[c].i \in 1 .. Len(Hash[packet[c].key])
    BY DEF Types, CpuTypes, Hashing
  <2>. QED  BY <2>1, <2>2, <2>3, <2>4, <2>5, <2>6 DEF TypeOK
<1>. QED  BY <1>1, TypesAlways, PTL

=============================================================================

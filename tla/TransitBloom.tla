----------------------------- MODULE TransitBloom -----------------------------
(***************************************************************************)
(* bpf/transit_loss.bpf.c: the TC egress program that counts forwarded TCP *)
(* segments and retransmits per path, run by several CPUs at once.         *)
(*                                                                         *)
(* A segment is a retransmit if a double-buffered Bloom filter has seen    *)
(* its key in this generation or the one before.  A generation lasts at    *)
(* least Epoch and ends when a packet finds it too old; the words of the   *)
(* generation before the last are recycled one by one, by the first packet *)
(* that sets a bit in them.                                                *)
(*                                                                         *)
(* One action is one access to shared memory; the four loads of a test of  *)
(* one hash are taken as one, and so are the counting of the segment, which *)
(* nobody else writes, and the look at the epoch that follows it.  The     *)
(* source names the expected value of a compare-and-swap by a second load; *)
(* a build may reuse the first, and both are allowed: a swap succeeds      *)
(* against the value that was checked, or against a newer one.             *)
(*                                                                         *)
(* Abstractions.  Packets that are not counted (no TCP, no flags and no    *)
(* payload, a destination that dst_to_nexthop does not resolve) change     *)
(* nothing but a debug counter, and are left out.  A key is the flow with  *)
(* seq >> 4, or with seq for a SYN; Hash gives the bits it is hashed to.   *)
(***************************************************************************)
EXTENDS Integers, FiniteSets, Sequences

CONSTANTS
    Cpus,
    Keys,          \* the values bloom_test_and_set is called with
    Bits, Words,   \* of one half of transit_bloom_bits
    Hash,          \* bloom_bit_index under each of the seeds
    WordOf,        \* bit >> 6
    NoKey,         \* a segment that is not tested: a FIN, a RST or a SYN-ACK
    Paths,         \* struct path_key
    MapSize,       \* max_entries of transit_loss_map
    Epoch,         \* BLOOM_EPOCH_NS
    MaxTime, MaxPackets

ASSUME HashAssumption ==
    /\ Hash \in [Keys -> Seq(Bits) \ {<<>>}]
    /\ WordOf \in [Bits -> Words]

ASSUME SizeAssumption == MapSize \in Nat \ {0} /\ Epoch \in Nat /\ MaxTime \in Nat /\ MaxPackets \in Nat

VARIABLES
    now,          \* bpf_ktime_get_ns
    epoch,        \* transit_bloom_epoch
    words,        \* transit_bloom_bits: per word, its two halves
    entries,      \* the keys of transit_loss_map
    stats,        \* its values, summed over the CPUs as userspace sums them
    pc, packet,   \* per CPU, the packet the program is at work on
    arrived,      \* bound: packets so far
    recorded,     \* history: when a key was last recorded, if no packets overlapped since
    born          \* history: the generation in which a bit was last set

bloomVars == <<epoch, words>>
mapVars == <<entries, stats>>
cpuVars == <<pc, packet>>
historyVars == <<recorded, born>>
vars == <<now, bloomVars, mapVars, cpuVars, arrived, historyVars>>

Never == -2

NoPacket == [key |-> NoKey, path |-> Never, at |-> 0, saw |-> 0, gen |-> 0,
             i |-> 0, seen |-> FALSE, alone |-> FALSE]

Tested(c) == packet[c].key # NoKey

Steps == {"idle", "create", "roll", "swap", "bump", "load", "test",
          "set", "claim", "clear", "or", "verdict"}

TypeOK ==
    /\ now \in 0 .. MaxTime
    /\ epoch \in [gen : Nat, start_ns : 0 .. MaxTime]
    /\ words \in [Words -> [0 .. 1 -> [gen : Nat, bits : SUBSET Bits]]]
    /\ entries \in SUBSET Paths /\ Cardinality(entries) <= MapSize
    /\ stats \in [Paths -> [segments : Nat, retransmits : Nat]]
    /\ pc \in [Cpus -> Steps]
    /\ \A c \in Cpus :
         /\ pc[c] = "idle" => packet[c] = NoPacket
         /\ pc[c] # "idle" => packet[c].key \in Keys \cup {NoKey} /\ packet[c].path \in Paths
         /\ pc[c] \in {"test", "set", "claim", "clear", "or"} =>
                packet[c].i \in 1 .. Len(Hash[packet[c].key])
    /\ arrived \in 0 .. MaxPackets
    /\ recorded \in [Keys -> {Never} \cup 0 .. MaxTime]
    /\ born \in [Bits -> {Never} \cup Nat]

Quiet == \A c \in Cpus : pc[c] = "idle"

Goto(c, label) == pc' = [pc EXCEPT ![c] = label]

(* The hash the packet is at, and the word it falls in.                    *)
Bit(c) == Hash[packet[c].key][packet[c].i]

Last(c) == packet[c].i = Len(Hash[packet[c].key])

Word(c) == words[WordOf[Bit(c)]][packet[c].gen % 2]

----------------------------------------------------------------------------
(* The maps are zero when the collection is loaded.                        *)
Init ==
    /\ now = 0
    /\ epoch = [gen |-> 0, start_ns |-> 0]
    /\ words = [w \in Words |-> [half \in 0 .. 1 |-> [gen |-> 0, bits |-> {}]]]
    /\ entries = {}
    /\ stats = [p \in Paths |-> [segments |-> 0, retransmits |-> 0]]
    /\ pc = [c \in Cpus |-> "idle"]
    /\ packet = [c \in Cpus |-> NoPacket]
    /\ arrived = 0
    /\ recorded = [k \in Keys |-> Never]
    /\ born = [b \in Bits |-> Never]

(* The clock stands still at MaxTime.                                      *)
Elapse ==
    /\ now' = IF now < MaxTime THEN now + 1 ELSE now
    /\ UNCHANGED <<bloomVars, mapVars, cpuVars, arrived, historyVars>>

(* A segment enters the program and its path is looked up.  It is tested   *)
(* if it has a payload, or is a SYN without ACK.                           *)
Arrive(c, k, p) ==
    /\ pc[c] = "idle"
    /\ arrived < MaxPackets
    /\ arrived' = arrived + 1
    /\ Goto(c, IF p \in entries THEN "roll" ELSE "create")
    /\ packet' = [d \in Cpus |->
          IF d = c
          THEN [NoPacket EXCEPT !.key = k, !.path = p, !.alone = Quiet]
          ELSE IF pc[d] = "idle" THEN packet[d] ELSE [packet[d] EXCEPT !.alone = FALSE]]
    /\ recorded' = IF Quiet THEN recorded ELSE [x \in Keys |-> Never]
    /\ UNCHANGED <<now, bloomVars, mapVars, born>>

(* Mutation: the size of the map is not respected.                         *)
CreateUnbounded(c) ==
    /\ pc[c] = "create"
    /\ entries' = entries \cup {packet[c].path}
    /\ Goto(c, "roll")
    /\ UNCHANGED <<now, bloomVars, stats, packet, arrived, historyVars>>

(* BPF_NOEXIST creates the entry, or another CPU was faster.               *)
Create(c) ==
    /\ pc[c] = "create"
    /\ packet[c].path \in entries \/ Cardinality(entries) < MapSize
    /\ entries' = entries \cup {packet[c].path}
    /\ Goto(c, "roll")
    /\ UNCHANGED <<now, bloomVars, stats, packet, arrived, historyVars>>

(* The map is full: the packet passes uncounted.                           *)
MapFull(c) ==
    /\ pc[c] = "create"
    /\ packet[c].path \notin entries /\ Cardinality(entries) = MapSize
    /\ Goto(c, "idle")
    /\ packet' = [packet EXCEPT ![c] = NoPacket]
    /\ UNCHANGED <<now, bloomVars, mapVars, arrived, historyVars>>

----------------------------------------------------------------------------
(* bloom_maybe_roll_epoch                                                  *)

(* A segment that is not tested leaves after the roll.                     *)
Rolled(c) == IF Tested(c) THEN "load" ELSE "verdict"

(* The segment is counted, and the epoch looked at.                        *)
Roll(c) ==
    /\ pc[c] = "roll"
    /\ stats' = [stats EXCEPT ![packet[c].path].segments = @ + 1]
    /\ packet' = [packet EXCEPT ![c].at = now, ![c].saw = epoch.start_ns]
    /\ Goto(c, IF now - epoch.start_ns > Epoch THEN "swap" ELSE Rolled(c))
    /\ UNCHANGED <<now, bloomVars, entries, arrived, historyVars>>

(* The swap succeeds, against the start that was checked or a newer one.   *)
RollWins(c) ==
    /\ pc[c] = "swap"
    /\ epoch' = [epoch EXCEPT !.start_ns = packet[c].at]
    /\ Goto(c, "bump")
    /\ UNCHANGED <<now, words, mapVars, packet, arrived, historyVars>>

RollLoses(c) ==
    /\ pc[c] = "swap"
    /\ epoch.start_ns # packet[c].saw
    /\ Goto(c, Rolled(c))
    /\ UNCHANGED <<now, bloomVars, mapVars, packet, arrived, historyVars>>

Bump(c) ==
    /\ pc[c] = "bump"
    /\ epoch' = [epoch EXCEPT !.gen = @ + 1]
    /\ Goto(c, Rolled(c))
    /\ UNCHANGED <<now, words, mapVars, packet, arrived, historyVars>>

----------------------------------------------------------------------------
(* bloom_test_and_set                                                      *)

LoadGen(c) ==
    /\ pc[c] = "load"
    /\ packet' = [packet EXCEPT ![c].gen = epoch.gen, ![c].seen = TRUE, ![c].i = 1, ![c].saw = 0]
    /\ Goto(c, "test")
    /\ UNCHANGED <<now, bloomVars, mapVars, arrived, historyVars>>

(* bloom_test_bit_gen                                                      *)
Holds(b, gen) ==
    LET word == words[WordOf[b]][gen % 2]
    IN  word.gen = gen /\ b \in word.bits

(* Mutation: only the current half is looked at.                           *)
TestCurrent(c) ==
    /\ pc[c] = "test"
    /\ packet' = [packet EXCEPT
          ![c].seen = @ /\ Holds(Bit(c), packet[c].gen),
          ![c].i = IF Last(c) THEN 1 ELSE @ + 1]
    /\ Goto(c, IF Last(c) THEN "set" ELSE "test")
    /\ UNCHANGED <<now, bloomVars, mapVars, arrived, historyVars>>

(* Both halves are looked at.                                              *)
Test(c) ==
    /\ pc[c] = "test"
    /\ packet' = [packet EXCEPT
          ![c].seen = @ /\ (Holds(Bit(c), packet[c].gen) \/ Holds(Bit(c), packet[c].gen - 1)),
          ![c].i = IF Last(c) THEN 1 ELSE @ + 1]
    /\ Goto(c, IF Last(c) THEN "set" ELSE "test")
    /\ UNCHANGED <<now, bloomVars, mapVars, arrived, historyVars>>

(* bloom_set_bit_gen: a word of an older generation is claimed ...         *)
Set(c) ==
    /\ pc[c] = "set"
    /\ packet' = [packet EXCEPT ![c].saw = Word(c).gen]
    /\ Goto(c, IF Word(c).gen = packet[c].gen THEN "or" ELSE "claim")
    /\ UNCHANGED <<now, bloomVars, mapVars, arrived, historyVars>>

(* Mutation: the bits of the old generation are kept.                      *)
ClaimUncleared(c) ==
    /\ pc[c] = "claim"
    /\ Word(c).gen # packet[c].gen
    /\ words' = [words EXCEPT ![WordOf[Bit(c)]][packet[c].gen % 2].gen = packet[c].gen]
    /\ Goto(c, "or")
    /\ UNCHANGED <<now, epoch, mapVars, packet, arrived, historyVars>>

Claim(c) ==
    /\ pc[c] = "claim"
    /\ Word(c).gen # packet[c].gen
    /\ words' = [words EXCEPT ![WordOf[Bit(c)]][packet[c].gen % 2].gen = packet[c].gen]
    /\ Goto(c, "clear")
    /\ UNCHANGED <<now, epoch, mapVars, packet, arrived, historyVars>>

(* ... unless another CPU claimed it in the meantime; it is cleared all    *)
(* the same if it was claimed for another generation ...                   *)
ClaimLost(c) ==
    /\ pc[c] = "claim"
    /\ Word(c).gen # packet[c].saw
    /\ Goto(c, IF Word(c).gen = packet[c].gen THEN "or" ELSE "clear")
    /\ UNCHANGED <<now, bloomVars, mapVars, packet, arrived, historyVars>>

(* ... then cleared, by a plain store ...                                  *)
Clear(c) ==
    /\ pc[c] = "clear"
    /\ words' = [words EXCEPT ![WordOf[Bit(c)]][packet[c].gen % 2].bits = {}]
    /\ Goto(c, "or")
    /\ UNCHANGED <<now, epoch, mapVars, packet, arrived, historyVars>>

(* ... and the bit set, whatever became of the word.                       *)
Or(c) ==
    /\ pc[c] = "or"
    /\ words' = [words EXCEPT ![WordOf[Bit(c)]][packet[c].gen % 2].bits = @ \cup {Bit(c)}]
    /\ born' = [born EXCEPT ![Bit(c)] = epoch.gen]
    /\ packet' = [packet EXCEPT ![c].i = IF Last(c) THEN @ ELSE @ + 1, ![c].saw = 0]
    /\ Goto(c, IF Last(c) THEN "verdict" ELSE "set")
    /\ UNCHANGED <<now, epoch, mapVars, arrived, recorded>>

(* The retransmit is counted, long after its segment was.                  *)
Verdict(c) ==
    /\ pc[c] = "verdict"
    /\ LET me == packet[c]
       IN  /\ stats' = IF me.seen
                       THEN [stats EXCEPT ![me.path].retransmits = @ + 1]
                       ELSE stats
           /\ recorded' = IF Tested(c) /\ me.alone
                          THEN [recorded EXCEPT ![me.key] = me.at]
                          ELSE recorded
    /\ Goto(c, "idle")
    /\ packet' = [packet EXCEPT ![c] = NoPacket]
    /\ UNCHANGED <<now, bloomVars, entries, arrived, born>>

Next ==
    \/ Elapse
    \/ \E c \in Cpus :
         \/ \E k \in Keys \cup {NoKey}, p \in Paths : Arrive(c, k, p)
         \/ Create(c) \/ MapFull(c)
         \/ Roll(c) \/ RollWins(c) \/ RollLoses(c) \/ Bump(c)
         \/ LoadGen(c)
         \/ Test(c) \/ Set(c)
         \/ Claim(c) \/ ClaimLost(c) \/ Clear(c) \/ Or(c)
         \/ Verdict(c)

Spec == Init /\ [][Next]_vars
----------------------------------------------------------------------------
(* What the filter is worth.  Two packets in the program at once can wipe  *)
(* a bit, roll twice, or read a word between its claim and its clearing;   *)
(* the first property says that nothing else loses a retransmit, and that  *)
(* the filter is whole again as soon as they have left.                    *)

(* A segment that comes again within one Epoch of a packet that recorded   *)
(* it is counted as a retransmit, if no packets overlapped since: the      *)
(* generations and the recycling of words never forget it that early.      *)
RetransmitsAreSeen ==
    \A c \in Cpus :
        LET me == packet[c]
        IN  pc[c] = "verdict" /\ Tested(c) /\ me.alone /\ recorded[me.key] # Never
            /\ me.at - recorded[me.key] <= Epoch => me.seen

(* A segment is counted as a retransmit only if each of its bits was set   *)
(* in this generation or the one before: no bit of an older generation     *)
(* shows through a recycled word, whatever packets overlapped before.      *)
OldBitsAreForgotten ==
    [][\A c \in Cpus : pc[c] = "test" /\ pc'[c] = "set" /\ packet'[c].seen /\ packet[c].alone =>
          \A i \in 1 .. Len(Hash[packet[c].key]) :
              born[Hash[packet[c].key][i]] >= packet[c].gen - 1]_vars
============================================================================

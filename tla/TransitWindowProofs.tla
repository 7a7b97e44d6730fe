------------------------ MODULE TransitWindowProofs ------------------------
(***************************************************************************)
(* The window is a difference of two copies, and a loss rate is a rate,    *)
(* for every number of CPUs, window and EMA: the invariants of the copies  *)
(* and of the ring that carry the proof, and the proof.                    *)
(***************************************************************************)
EXTENDS TransitWindow, TLAPS

Sums == [0 .. NumCpus -> Nat]
Copy == [seg : Sums, ret : Sums, torn : BOOLEAN]
Sample == [seg : Nat, ret : Nat]
Path == [window : [Slots -> Sample], pos : Slots, len : 0 .. Cap,
         sumSeg : Nat, sumRet : Nat, ema : Nat, known : BOOLEAN]

MapTypeOK ==
    /\ entries \subseteq Keys
    /\ segments \in [Keys -> [Cpus -> Nat]]
    /\ retransmits \in [Keys -> [Cpus -> Nat]]
    /\ verdict \in [Cpus -> Keys \cup {None}]

ReadTypeOK ==
    /\ reading \in BOOLEAN /\ due \subseteq Keys /\ returned \subseteq Keys
    /\ transitNow \in [Keys -> Copy]
    /\ at \in Keys \cup {None} /\ cpu \in Cpus /\ half \in BOOLEAN
    /\ aggSeg \in Sums /\ aggRet \in Sums /\ torn \in BOOLEAN

(* Every key has at least the copy that reads as zero, and one more for    *)
(* every sample in its window.                                             *)
DaemonTypeOK ==
    /\ prevTransit \in [Keys -> Copy]
    /\ paths \in [Keys -> Path]
    /\ copies \in [Keys -> Seq(Copy)]
    /\ \A k \in Keys : Len(copies[k]) = paths[k].len + 1
    /\ sound \in [Keys -> BOOLEAN]

TypeOK == MapTypeOK /\ ReadTypeOK /\ DaemonTypeOK /\ quiet \in BOOLEAN

(* What an iteration has still to do: a key that was fed to the window is  *)
(* never missing from a complete iteration.                                *)
Fed(k) == Len(copies[k]) > 1

ReadInv ==
    /\ at # None => reading /\ at \in entries \ returned
    /\ half => at # None
    /\ returned \subseteq entries
    /\ \A k \in Keys : Fed(k) => k \in entries
    /\ \A k \in Keys : Fed(k) /\ reading => k \in due \cup returned
    /\ \A k \in Keys \ returned : transitNow[k] = Zero
    /\ \A k \in Keys : prevTransit[k] = copies[k][Len(copies[k])]
    /\ \A k \in Keys : ~ Fed(k) => prevTransit[k] = Zero

(* The counters of a key, and its segments that have got a verdict and     *)
(* were no retransmits.                                                    *)
Passed(k, c) == segments[k][c] - retransmits[k][c] - (IF verdict[c] = k THEN 1 ELSE 0)

Counts(k) == [seg |-> segments[k], ret |-> retransmits[k], passed |-> [c \in Cpus |-> Passed(k, c)]]

Counters == [seg : [Cpus -> Nat], ret : [Cpus -> Nat], passed : [Cpus -> Nat]]

Grown(old, new) == \A c \in Cpus :
    old.seg[c] <= new.seg[c] /\ old.ret[c] <= new.ret[c] /\ old.passed[c] <= new.passed[c]

(* The share of CPU c in running sums: no CPU has given more than its      *)
(* counters hold, of segments, of retransmits and of those that passed.    *)
Share(sums, c) == sums[c + 1] - sums[c]

ShareOK(counts, seg, ret, broken, c) ==
    /\ Share(seg, c) \in 0 .. counts.seg[c]
    /\ Share(ret, c) \in 0 .. counts.ret[c]
    /\ broken \/ Share(seg, c) - Share(ret, c) <= counts.passed[c]

CopyOK(counts, copy) ==
    /\ copy.seg[0] = 0 /\ copy.ret[0] = 0
    /\ \A c \in Cpus : ShareOK(counts, copy.seg, copy.ret, copy.torn, c)

(* The sums seg and ret over n CPUs are not behind those of an older copy. *)
NotBehind(copy, seg, ret, broken, n) ==
    /\ copy.seg[n] <= seg[n]
    /\ copy.ret[n] <= ret[n]
    /\ broken \/ copy.torn \/ copy.seg[n] - copy.ret[n] <= seg[n] - ret[n]

Later(old, new) == NotBehind(old, new.seg, new.ret, new.torn, NumCpus)

Ordered(cs) == \A i \in 1 .. Len(cs) : \A j \in i .. Len(cs) : Later(cs[i], cs[j])

CountersInv == \A k \in Keys : Counts(k) \in Counters

CopiesInv ==
    \A k \in Keys :
        /\ \A i \in 1 .. Len(copies[k]) : CopyOK(Counts(k), copies[k][i])
        /\ Ordered(copies[k])

ReturnedInv ==
    \A k \in returned :
        /\ CopyOK(Counts(k), transitNow[k])
        /\ \A i \in 1 .. Len(copies[k]) : Later(copies[k][i], transitNow[k])

(* The copy that is being made: the CPUs copied, and the one half copied.  *)
CopyingInv ==
    /\ aggSeg[0] = 0 /\ aggRet[0] = 0
    /\ at = None => cpu = 0
    /\ at # None =>
         /\ \A c \in 0 .. cpu - 1 : ShareOK(Counts(at), aggSeg, aggRet, torn, c)
         /\ \A i \in 1 .. Len(copies[at]) : NotBehind(copies[at][i], aggSeg, aggRet, torn, cpu)

HalfInv ==
    half => /\ Share(aggSeg, cpu) \in 0 .. segments[at][cpu]
            /\ \A i \in 1 .. Len(copies[at]) : copies[at][i].seg[cpu + 1] <= aggSeg[cpu + 1]
            /\ torn \/ TornBySegment \/ verdict[cpu] # at

(* The i-th newest slot of a ring whose next slot is pos, and what it      *)
(* holds: the difference of two neighboring copies.                        *)
Newest(pos, i) == IF i <= pos THEN pos - i ELSE pos + Cap - i

Step(cs, i) == [seg |-> Segs(cs[i + 1]) - Segs(cs[i]), ret |-> Rets(cs[i + 1]) - Rets(cs[i])]

RingOK(p, cs) == \A i \in 1 .. p.len : p.window[Newest(p.pos, i)] = Step(cs, p.len + 1 - i)

RingInv == \A k \in Keys : RingOK(paths[k], copies[k])

RateInv == \A k \in Keys : sound[k] => paths[k].ema <= Unit

IInv ==
    /\ TypeOK /\ ReadInv
    /\ CountersInv /\ CopiesInv /\ ReturnedInv /\ HalfInv /\ CopyingInv
    /\ RingInv /\ WindowIsADifference /\ RateInv
----------------------------------------------------------------------------
(* Integer division: its type, and how it keeps an order.                  *)
LEMMA DivNat ==
    ASSUME NEW a \in Nat, NEW b \in Nat \ {0}
    PROVE  a \div b \in Nat
  OBVIOUS

(* Who is at most b times c is, divided by b, at most c.                   *)
LEMMA DivAtMost ==
    ASSUME NEW a \in Nat, NEW b \in Nat \ {0}, NEW c \in Nat, a <= b * c
    PROVE  a \div b <= c
  OBVIOUS

(* Multiplication keeps the order.                                         *)
LEMMA TimesMonotone ==
    ASSUME NEW a \in Nat, NEW b \in Nat, NEW c \in Nat, a <= b
    PROVE  a * c <= b * c /\ a * c \in Nat /\ b * c \in Nat
  OBVIOUS

(* The parameters, as the provers need them.                               *)
LEMMA Parameters ==
    /\ NumCpus \in Nat \ {0} /\ Cap \in Nat \ {0} /\ Den \in Nat \ {0} /\ Unit \in Nat \ {0}
    /\ Alpha \in Nat \ {0} /\ Alpha < Den
    /\ None \notin Keys
  BY WindowAssumption

(* The boundaries between the CPUs in running sums.                        *)
LEMMA CpuIndex ==
    ASSUME NEW c \in Cpus
    PROVE  c \in 0 .. NumCpus /\ c + 1 \in 0 .. NumCpus /\ c \in Nat
  BY Parameters DEF Cpus

(* A copy that reads as zero is a copy, whatever the counters hold.        *)
LEMMA ZeroCopy ==
    /\ NoSums \in Sums /\ Zero \in Copy
    /\ \A i \in 0 .. NumCpus : NoSums[i] = 0
    /\ \A counts \in Counters : CopyOK(counts, Zero)
<1>1. NoSums \in Sums /\ Zero \in Copy /\ \A i \in 0 .. NumCpus : NoSums[i] = 0
  BY DEF NoSums, Zero, Sums, Copy
<1>2. ASSUME NEW counts \in Counters
      PROVE  CopyOK(counts, Zero)
  <2>1. 0 \in 0 .. NumCpus
    BY Parameters
  <2>2. ASSUME NEW c \in Cpus
        PROVE  ShareOK(counts, NoSums, NoSums, FALSE, c)
    <3>1. NoSums[c] = 0 /\ NoSums[c + 1] = 0
      BY <1>1, CpuIndex
    <3>2. counts.seg[c] \in Nat /\ counts.ret[c] \in Nat /\ counts.passed[c] \in Nat
      BY DEF Counters
    <3>3. QED
      BY <3>1, <3>2 DEF ShareOK, Share
  <2>3. QED
    BY <1>1, <2>1, <2>2 DEF CopyOK, Zero
<1>3. QED
  BY <1>1, <1>2

(* A copy stays within counters that only grow.                            *)
LEMMA ShareKept ==
    ASSUME NEW old \in Counters, NEW new \in Counters, Grown(old, new),
           NEW seg \in Sums, NEW ret \in Sums, NEW broken \in BOOLEAN, NEW c \in Cpus,
           ShareOK(old, seg, ret, broken, c)
    PROVE  ShareOK(new, seg, ret, broken, c)
<1>1. /\ seg[c] \in Nat /\ seg[c + 1] \in Nat /\ ret[c] \in Nat /\ ret[c + 1] \in Nat
  BY CpuIndex DEF Sums
<1>2. /\ old.seg[c] \in Nat /\ old.ret[c] \in Nat /\ old.passed[c] \in Nat
      /\ new.seg[c] \in Nat /\ new.ret[c] \in Nat /\ new.passed[c] \in Nat
  BY DEF Counters
<1>3. old.seg[c] <= new.seg[c] /\ old.ret[c] <= new.ret[c] /\ old.passed[c] <= new.passed[c]
  BY DEF Grown
<1>4. QED
  BY <1>1, <1>2, <1>3 DEF ShareOK, Share

LEMMA CopyKept ==
    ASSUME NEW old \in Counters, NEW new \in Counters, Grown(old, new),
           NEW copy \in Copy, CopyOK(old, copy)
    PROVE  CopyOK(new, copy)
<1>1. copy.seg \in Sums /\ copy.ret \in Sums /\ copy.torn \in BOOLEAN
  BY DEF Copy
<1>2. QED
  BY <1>1, ShareKept DEF CopyOK

(* Counters that do not change have grown.                                 *)
LEMMA GrownReflexive ==
    ASSUME NEW counts \in Counters
    PROVE  Grown(counts, counts)
  BY DEF Grown, Counters

(* A step that leaves the maps and the verdicts alone.                     *)
LEMMA CountersIdle ==
    ASSUME TypeOK, CountersInv, UNCHANGED <<mapVars, verdict>>
    PROVE  /\ MapTypeOK' /\ CountersInv'
           /\ \A k \in Keys : Counts(k)' = Counts(k) /\ Grown(Counts(k), Counts(k)')
<1>1. MapTypeOK'
  BY DEF TypeOK, MapTypeOK, mapVars
<1>2. \A k \in Keys : Counts(k)' = Counts(k)
  BY DEF Counts, Passed, mapVars
<1>3. QED
  BY <1>1, <1>2, GrownReflexive DEF CountersInv

(* Segment and Verdict: the counters of every key and CPU grow, and so do  *)
(* the segments that passed.                                               *)
LEMMA CountersStep ==
    ASSUME TypeOK, CountersInv,
           \/ \E c \in Cpus, k \in Keys : Segment(c, k)
           \/ \E c \in Cpus, again \in BOOLEAN : Verdict(c, again)
    PROVE  /\ MapTypeOK' /\ CountersInv' /\ entries \subseteq entries'
           /\ \A k \in Keys : Grown(Counts(k), Counts(k)')
<1>1. SUFFICES ASSUME NEW k \in Keys, NEW c \in Cpus
               PROVE  /\ MapTypeOK' /\ entries \subseteq entries'
                      /\ segments[k][c] <= segments'[k][c]
                      /\ retransmits[k][c] <= retransmits'[k][c]
                      /\ Passed(k, c) <= Passed(k, c)' /\ Passed(k, c)' \in Nat
  <2>1. MapTypeOK' /\ entries \subseteq entries'
    <3>1. CASE Keys = {}
      <4>1. \A c \in Cpus, again \in BOOLEAN : ~ Verdict(c, again)
        BY <3>1, Parameters DEF Verdict, TypeOK, MapTypeOK
      <4>2. QED
        BY <3>1, <4>1
    <3>2. CASE Keys # {}
      <4>1. Cpus # {}
        BY Parameters DEF Cpus
      <4>2. QED
        BY <1>1, <3>2, <4>1
    <3>3. QED
      BY <3>1, <3>2
  <2>2. ASSUME NEW k \in Keys
        PROVE  Counts(k)' \in Counters /\ Grown(Counts(k), Counts(k)')
    BY <1>1, <2>1 DEF Counts, Counters, Grown, MapTypeOK
  <2>3. QED
    BY <2>1, <2>2 DEF CountersInv
<1>2. /\ segments[k][c] \in Nat /\ retransmits[k][c] \in Nat /\ Passed(k, c) \in Nat
      /\ \A q \in Keys : segments[q] \in [Cpus -> Nat] /\ retransmits[q] \in [Cpus -> Nat]
  BY DEF TypeOK, MapTypeOK, CountersInv, Counts, Counters
<1>3. ASSUME NEW d \in Cpus, NEW q \in Keys, Segment(d, q)
      PROVE  /\ MapTypeOK' /\ entries \subseteq entries'
             /\ segments[k][c] <= segments'[k][c]
             /\ retransmits[k][c] <= retransmits'[k][c]
             /\ Passed(k, c) <= Passed(k, c)' /\ Passed(k, c)' \in Nat
  <2> USE DEF TypeOK, MapTypeOK
  <2>1. /\ verdict[d] = None /\ retransmits' = retransmits
        /\ segments' = [segments EXCEPT ![q][d] = @ + 1]
        /\ verdict' = [verdict EXCEPT ![d] = q]
        /\ entries' = entries \cup {q}
    BY <1>3 DEF Segment
  <2>2. MapTypeOK' /\ entries \subseteq entries'
    BY <1>2, <2>1
  <2>3. CASE k = q /\ c = d
    <3>1. segments'[k][c] = segments[k][c] + 1 /\ verdict'[c] = k /\ verdict[c] # k
      BY <2>1, <2>3, <1>2, Parameters
    <3>2. QED
      BY <1>2, <2>1, <2>2, <3>1 DEF Passed
  <2>4. CASE ~ (k = q /\ c = d)
    <3>1. segments'[k][c] = segments[k][c]
      BY <2>1, <2>4, <1>2
    <3>2. verdict'[c] = k => verdict[c] = k
      BY <2>1, <2>4
    <3>3. verdict[c] = k => verdict'[c] = k
      BY <2>1, <2>4, Parameters
    <3>4. QED
      BY <1>2, <2>1, <2>2, <3>1, <3>2, <3>3 DEF Passed
  <2>5. QED
    BY <2>3, <2>4
<1>4. ASSUME NEW d \in Cpus, NEW again \in BOOLEAN, Verdict(d, again)
      PROVE  /\ MapTypeOK' /\ entries \subseteq entries'
             /\ segments[k][c] <= segments'[k][c]
             /\ retransmits[k][c] <= retransmits'[k][c]
             /\ Passed(k, c) <= Passed(k, c)' /\ Passed(k, c)' \in Nat
  <2> USE DEF TypeOK, MapTypeOK
  <2>1. /\ verdict[d] # None /\ segments' = segments /\ entries' = entries
        /\ retransmits' = [retransmits EXCEPT ![verdict[d]][d] = IF again THEN @ + 1 ELSE @]
        /\ verdict' = [verdict EXCEPT ![d] = None]
        /\ verdict[d] \in Keys
    BY <1>4 DEF Verdict
  <2>2. MapTypeOK' /\ entries \subseteq entries'
    BY <1>2, <2>1
  <2>3. CASE k = verdict[d] /\ c = d
    <3>1. /\ retransmits'[k][c] \in {retransmits[k][c], retransmits[k][c] + 1}
          /\ verdict'[c] # k /\ verdict[c] = k
      BY <2>1, <2>3, <1>2, Parameters
    <3>2. QED
      BY <1>2, <2>1, <2>2, <3>1 DEF Passed
  <2>4. CASE ~ (k = verdict[d] /\ c = d)
    <3>1. retransmits'[k][c] = retransmits[k][c]
      BY <2>1, <2>4, <1>2
    <3>2. verdict'[c] = k <=> verdict[c] = k
      BY <2>1, <2>4, Parameters
    <3>3. QED
      BY <1>2, <2>1, <2>2, <3>1, <3>2 DEF Passed
  <2>5. QED
    BY <2>3, <2>4
<1>5. QED
  BY <1>3, <1>4
----------------------------------------------------------------------------
(* The slot before the next one, and the one that the i-th newest becomes. *)
LEMMA NextSlot ==
    ASSUME NEW pos \in Slots
    PROVE  /\ (pos + 1) % Cap = IF pos + 1 = Cap THEN 0 ELSE pos + 1
           /\ (pos + 1) % Cap \in Slots
<1>1. pos \in Nat /\ pos < Cap /\ Cap \in Nat \ {0}
  BY Parameters DEF Slots
<1>2. CASE pos + 1 = Cap
  <2>1. (pos + 1) % Cap = 0
    BY <1>1, <1>2
  <2>2. QED
    BY <1>1, <1>2, <2>1 DEF Slots
<1>3. CASE pos + 1 < Cap
  <2>1. (pos + 1) % Cap = pos + 1
    BY <1>1, <1>3
  <2>2. QED
    BY <1>1, <1>3, <2>1 DEF Slots
<1>4. QED
  BY <1>1, <1>2, <1>3

LEMMA SlotShifts ==
    ASSUME NEW pos \in Slots, NEW i \in 1 .. Cap
    PROVE  /\ Newest(pos, i) \in Slots
           /\ i < Cap => Newest(pos, i) # pos /\ Newest((pos + 1) % Cap, i + 1) = Newest(pos, i)
           /\ Newest((pos + 1) % Cap, 1) = pos
           /\ Newest(pos, Cap) = pos
<1>1. pos \in Nat /\ pos < Cap /\ Cap \in Nat \ {0} /\ i \in Nat \ {0} /\ i <= Cap
  BY Parameters DEF Slots
<1>2. (pos + 1) % Cap = IF pos + 1 = Cap THEN 0 ELSE pos + 1
  BY NextSlot
<1>3. Newest(pos, i) \in Slots
  BY <1>1 DEF Newest, Slots
<1>4. i < Cap => Newest(pos, i) # pos /\ Newest((pos + 1) % Cap, i + 1) = Newest(pos, i)
  BY <1>1, <1>2 DEF Newest
<1>5. Newest((pos + 1) % Cap, 1) = pos
  BY <1>1, <1>2 DEF Newest
<1>6. QED
  BY <1>1, <1>3, <1>4, <1>5 DEF Newest

(* The copies after an update: one more, or the oldest is gone.            *)
LEMMA RecentCopies ==
    ASSUME NEW cs \in Seq(Copy), NEW new \in Copy, Len(cs) \in 1 .. Cap + 1
    PROVE  LET ds == Recent(Append(cs, new))
           IN  /\ ds \in Seq(Copy)
               /\ ds[Len(ds)] = new
               /\ Len(cs) <= Cap => /\ Len(ds) = Len(cs) + 1
                                    /\ \A i \in 1 .. Len(cs) : ds[i] = cs[i]
               /\ Len(cs) = Cap + 1 => /\ Len(ds) = Len(cs)
                                       /\ \A i \in 1 .. Len(cs) - 1 : ds[i] = cs[i + 1]
<1> DEFINE es == Append(cs, new)
<1>1. /\ es \in Seq(Copy) /\ Len(es) = Len(cs) + 1 /\ es[Len(es)] = new
      /\ \A i \in 1 .. Len(cs) : es[i] = cs[i]
      /\ Len(cs) \in Nat /\ Cap \in Nat
  BY Parameters
<1> HIDE DEF es
<1>2. CASE Len(cs) <= Cap
  <2>1. Recent(es) = es
    BY <1>1, <1>2 DEF Recent
  <2>2. QED
    BY <1>1, <1>2, <2>1 DEF es
<1>3. CASE Len(cs) = Cap + 1
  <2>1. Recent(es) = Tail(es)
    BY <1>1, <1>3 DEF Recent
  <2>2. Len(es) # 0
    BY <1>1, <1>3
  <2>3. /\ Tail(es) \in Seq(Copy) /\ Len(Tail(es)) = Len(cs)
        /\ \A i \in 1 .. Len(cs) : Tail(es)[i] = es[i + 1]
    BY <1>1, <2>2
  <2>4. /\ Tail(es)[Len(cs)] = new
        /\ \A i \in 1 .. Len(cs) - 1 : Tail(es)[i] = cs[i + 1]
    BY <1>1, <1>3, <2>3
  <2>5. QED
    BY <1>1, <1>3, <2>1, <2>3, <2>4 DEF es
<1>4. QED
  BY <1>1, <1>2, <1>3

(* What a sum of a copy is.                                                *)
LEMMA CopySums ==
    ASSUME NEW copy \in Copy
    PROVE  /\ Segs(copy) \in Nat /\ Rets(copy) \in Nat
           /\ copy.seg \in Sums /\ copy.ret \in Sums /\ copy.torn \in BOOLEAN
           /\ Segs(copy) = copy.seg[NumCpus] /\ Rets(copy) = copy.ret[NumCpus]
<1>1. NumCpus \in 0 .. NumCpus
  BY Parameters
<1>2. QED
  BY <1>1 DEF Copy, Sums, Segs, Rets

LEMMA LaterSums ==
    ASSUME NEW old \in Copy, NEW new \in Copy
    PROVE  Later(old, new) <=>
             /\ Segs(old) <= Segs(new) /\ Rets(old) <= Rets(new)
             /\ new.torn \/ old.torn \/ Segs(old) - Rets(old) <= Segs(new) - Rets(new)
  BY CopySums DEF Later, NotBehind

(* A copy that is later than all of them joins the ordered copies.         *)
LEMMA OrderedRecent ==
    ASSUME NEW cs \in Seq(Copy), NEW new \in Copy, Len(cs) \in 1 .. Cap + 1,
           Ordered(cs), \A i \in 1 .. Len(cs) : Later(cs[i], new)
    PROVE  Ordered(Recent(Append(cs, new)))
<1> DEFINE ds == Recent(Append(cs, new))
<1>1. /\ ds \in Seq(Copy) /\ ds[Len(ds)] = new
      /\ Len(cs) <= Cap => Len(ds) = Len(cs) + 1 /\ \A i \in 1 .. Len(cs) : ds[i] = cs[i]
      /\ Len(cs) = Cap + 1 => Len(ds) = Len(cs) /\ \A i \in 1 .. Len(cs) - 1 : ds[i] = cs[i + 1]
  BY RecentCopies
<1>2. Later(new, new)
  BY CopySums, LaterSums
<1>3. Cap \in Nat
  BY Parameters
<1> HIDE DEF ds
<1>4. ASSUME NEW i \in 1 .. Len(ds), NEW j \in i .. Len(ds)
      PROVE  Later(ds[i], ds[j])
  <2>1. CASE j = Len(ds)
    <3>1. CASE i = Len(ds)
      BY <1>1, <1>2, <2>1, <3>1
    <3>2. CASE i < Len(ds)
      <4>1. \E m \in 1 .. Len(cs) : ds[i] = cs[m]
        BY <1>1, <1>3, <3>2
      <4>2. QED
        BY <1>1, <2>1, <4>1
    <3>3. QED
      BY <1>1, <3>1, <3>2
  <2>2. CASE j < Len(ds)
    <3>1. CASE Len(cs) <= Cap
      <4>1. i \in 1 .. Len(cs) /\ j \in i .. Len(cs)
        BY <1>1, <2>2, <3>1
      <4>2. QED
        BY <1>1, <3>1, <4>1 DEF Ordered
    <3>2. CASE Len(cs) = Cap + 1
      <4>1. /\ i \in 1 .. Len(cs) - 1 /\ j \in 1 .. Len(cs) - 1
            /\ i + 1 \in 1 .. Len(cs) /\ j + 1 \in i + 1 .. Len(cs)
        BY <1>1, <2>2, <3>2
      <4>2. ds[i] = cs[i + 1] /\ ds[j] = cs[j + 1]
        BY <1>1, <3>2, <4>1
      <4>3. QED
        BY <4>1, <4>2 DEF Ordered
    <3>3. QED
      BY <1>3, <3>1, <3>2
  <2>3. QED
    BY <1>1, <2>1, <2>2
<1>5. QED
  BY <1>4 DEF Ordered, ds
(* The ring and the running sums, after an update of one path with the     *)
(* difference between a new copy and the last one.                         *)
LEMMA UpdatedPath ==
    ASSUME NEW p \in Path, NEW cs \in Seq(Copy), NEW new \in Copy,
           Len(cs) = p.len + 1, Ordered(cs), RingOK(p, cs),
           \A i \in 1 .. Len(cs) : Later(cs[i], new),
           p.sumSeg = Segs(cs[Len(cs)]) - Segs(cs[1]),
           p.sumRet = Rets(cs[Len(cs)]) - Rets(cs[1]),
           NEW q, NEW ds,
           q = Updated(p, diff(Segs(new), Segs(cs[Len(cs)])), diff(Rets(new), Rets(cs[Len(cs)]))),
           ds = Recent(Append(cs, new))
    PROVE  /\ Len(ds) = q.len + 1
           /\ RingOK(q, ds)
           /\ q.sumSeg = Segs(ds[Len(ds)]) - Segs(ds[1])
           /\ q.sumRet = Rets(ds[Len(ds)]) - Rets(ds[1])
           /\ q \in Path
           /\ Whole(ds) /\ p.ema <= Unit => q.ema <= Unit
<1> DEFINE n == p.len
           last == cs[Len(cs)]
           sample == [seg |-> Segs(new) - Segs(last), ret |-> Rets(new) - Rets(last)]
           old == IF n = Cap THEN p.window[p.pos] ELSE NoSample
           segs == p.sumSeg - old.seg + sample.seg
           rets == p.sumRet - old.ret + sample.ret
           smoothed == Smoothed(p, segs, rets)
<1>1. /\ n \in Nat /\ n <= Cap /\ Cap \in Nat \ {0} /\ p.pos \in Slots
      /\ p.window \in [Slots -> Sample] /\ p.sumSeg \in Nat /\ p.sumRet \in Nat
      /\ p.ema \in Nat /\ p.known \in BOOLEAN
  BY Parameters DEF Path
<1>2. /\ Len(cs) = n + 1 /\ \A i \in 1 .. n + 1 : cs[i] \in Copy /\ Later(cs[i], new)
      /\ last \in Copy /\ cs[1] \in Copy
  BY <1>1
<1>3. /\ \A i \in 1 .. n + 1 : Segs(cs[i]) \in Nat /\ Rets(cs[i]) \in Nat
      /\ \A i \in 1 .. n + 1 : Segs(cs[i]) <= Segs(new) /\ Rets(cs[i]) <= Rets(new)
      /\ Segs(new) \in Nat /\ Rets(new) \in Nat
  BY <1>2, CopySums, LaterSums
<1>4. /\ diff(Segs(new), Segs(last)) = sample.seg /\ sample.seg \in Nat
      /\ diff(Rets(new), Rets(last)) = sample.ret /\ sample.ret \in Nat
  BY <1>1, <1>2, <1>3 DEF diff
<1>5. /\ ds \in Seq(Copy) /\ ds[Len(ds)] = new
      /\ n < Cap => Len(ds) = n + 2 /\ \A i \in 1 .. n + 1 : ds[i] = cs[i]
      /\ n = Cap => Len(ds) = n + 1 /\ \A i \in 1 .. n : ds[i] = cs[i + 1]
  <2>1. Len(cs) \in 1 .. Cap + 1
    BY <1>1, <1>2
  <2>2. /\ ds \in Seq(Copy) /\ ds[Len(ds)] = new
        /\ Len(cs) <= Cap => Len(ds) = Len(cs) + 1 /\ \A i \in 1 .. Len(cs) : ds[i] = cs[i]
        /\ Len(cs) = Cap + 1 => Len(ds) = Len(cs) /\ \A i \in 1 .. Len(cs) - 1 : ds[i] = cs[i + 1]
    BY <2>1, RecentCopies
  <2>3. /\ n < Cap => Len(cs) <= Cap
        /\ n = Cap => Len(cs) = Cap + 1
        /\ Len(cs) = n + 1 /\ Len(cs) + 1 = n + 2 /\ Len(cs) - 1 = n
    BY <1>1, <1>2
  <2> HIDE DEF n
  <2>4. n < Cap => Len(ds) = n + 2 /\ \A i \in 1 .. n + 1 : ds[i] = cs[i]
    BY <2>2, <2>3
  <2>5. n = Cap => Len(ds) = n + 1 /\ \A i \in 1 .. n : ds[i] = cs[i + 1]
    BY <2>2, <2>3
  <2>6. QED
    BY <2>2, <2>4, <2>5
<1>6. /\ q.window = [p.window EXCEPT ![p.pos] = sample]
      /\ q.pos = (p.pos + 1) % Cap
      /\ q.len = IF n = Cap THEN Cap ELSE n + 1
      /\ q.sumSeg = segs /\ q.sumRet = rets
      /\ q.ema = smoothed.ema /\ q.known = smoothed.known
      /\ q = [window |-> q.window, pos |-> q.pos, len |-> q.len, sumSeg |-> q.sumSeg,
              sumRet |-> q.sumRet, ema |-> q.ema, known |-> q.known]
  <2>1. q = [window |-> [p.window EXCEPT ![p.pos] = sample], pos |-> (p.pos + 1) % Cap,
             len |-> IF n = Cap THEN Cap ELSE n + 1,
             sumSeg |-> segs, sumRet |-> rets, ema |-> smoothed.ema, known |-> smoothed.known]
    BY <1>4 DEF Updated
  <2>2. QED
    BY <2>1
<1>7. sample \in Sample
  BY <1>4 DEF Sample
<1>8. n = Cap => p.window[p.pos] = Step(cs, 1)
  <2>1. ASSUME n = Cap
        PROVE  p.window[Newest(p.pos, n)] = Step(cs, 1)
    <3>1. n \in 1 .. n /\ n + 1 - n = 1
      BY <1>1, <2>1
    <3>2. p.window[Newest(p.pos, n)] = Step(cs, p.len + 1 - n)
      BY <3>1 DEF RingOK
    <3>3. QED
      BY <3>1, <3>2
  <2>2. 1 \in 1 .. Cap
    BY <1>1
  <2>3. Newest(p.pos, Cap) = p.pos
    BY <1>1, <2>2, SlotShifts
  <2>4. QED
    BY <2>1, <2>3
<1> HIDE DEF n
<1>9. /\ Len(ds) = q.len + 1
      /\ q.sumSeg = Segs(new) - Segs(ds[1]) /\ q.sumRet = Rets(new) - Rets(ds[1])
      /\ ds[1] \in Copy /\ \E i \in 1 .. n + 1 : ds[1] = cs[i]
  <2>1. CASE n < Cap
    <3>1. ds[1] = cs[1] /\ old = NoSample
      BY <1>1, <1>5, <2>1
    <3>2. segs = p.sumSeg + sample.seg /\ rets = p.sumRet + sample.ret
      BY <1>1, <1>4, <3>1 DEF NoSample
    <3>3. 1 \in 1 .. n + 1 /\ n + 1 \in 1 .. n + 1
      BY <1>1
    <3>4. segs = Segs(new) - Segs(cs[1]) /\ rets = Rets(new) - Rets(cs[1])
      BY <1>2, <1>3, <3>2, <3>3
    <3>5. q.len = n + 1
      BY <1>1, <1>6, <2>1
    <3> HIDE DEF segs, rets
    <3>6. QED
      BY <1>1, <1>2, <1>5, <1>6, <2>1, <3>1, <3>4, <3>5
  <2>2. CASE n = Cap
    <3>1. ds[1] = cs[2] /\ old = Step(cs, 1) /\ 2 \in 1 .. n + 1 /\ 1 \in 1 .. n + 1
      BY <1>1, <1>5, <1>8, <2>2
    <3>2. old.seg = Segs(cs[2]) - Segs(cs[1]) /\ old.ret = Rets(cs[2]) - Rets(cs[1])
      BY <3>1 DEF Step
    <3>3. n + 1 \in 1 .. n + 1
      BY <1>1
    <3>4. segs = Segs(new) - Segs(cs[2]) /\ rets = Rets(new) - Rets(cs[2])
      BY <1>2, <1>3, <3>1, <3>2, <3>3
    <3>5. q.len = n
      BY <1>1, <1>6, <2>2
    <3> HIDE DEF segs, rets
    <3>6. QED
      BY <1>1, <1>2, <1>5, <1>6, <2>2, <3>1, <3>4, <3>5
  <2>3. QED
    BY <1>1, <2>1, <2>2
<1>10. q.sumSeg \in Nat /\ q.sumRet \in Nat
  <2>1. \E i \in 1 .. n + 1 : ds[1] = cs[i] \/ ds[1] = new
    BY <1>9
  <2>2. Segs(ds[1]) \in Nat /\ Segs(ds[1]) <= Segs(new) /\ Rets(ds[1]) \in Nat /\ Rets(ds[1]) <= Rets(new)
    BY <1>3, <2>1
  <2>3. QED
    BY <1>3, <1>9, <2>2
<1> HIDE DEF segs, rets, smoothed, old
<1>11. /\ q.ema \in Nat /\ q.known \in BOOLEAN
       /\ q.sumRet <= q.sumSeg /\ p.ema <= Unit => q.ema <= Unit
  <2>1. CASE segs = 0
    BY <1>1, <1>6, <2>1 DEF Smoothed, smoothed
  <2>2. CASE segs # 0
    <3> DEFINE instant == (rets * Unit) \div segs
               blend == Alpha * instant + (Den - Alpha) * p.ema
    <3>1. /\ segs \in Nat \ {0} /\ rets \in Nat /\ Unit \in Nat \ {0} /\ Den \in Nat \ {0}
          /\ Alpha \in Nat /\ Den - Alpha \in Nat
      BY <1>6, <1>10, <2>2, Parameters
    <3>2. rets * Unit \in Nat
      BY <3>1, TimesMonotone
    <3>3. instant \in Nat
      BY <3>1, <3>2, DivNat
    <3>4. rets <= segs => instant <= Unit
      <4>1. rets <= segs => rets * Unit <= segs * Unit
        BY <3>1, TimesMonotone
      <4>2. QED
        BY <3>1, <3>2, <4>1, DivAtMost
    <3> HIDE DEF instant
    <3>5. Alpha * instant \in Nat /\ (Den - Alpha) * p.ema \in Nat /\ blend \in Nat
      <4>1. Alpha * instant \in Nat
        BY <3>1, <3>3, TimesMonotone
      <4>2. (Den - Alpha) * p.ema \in Nat
        BY <1>1, <3>1, TimesMonotone
      <4>3. QED
        BY <4>1, <4>2
    <3>6. instant <= Unit /\ p.ema <= Unit => blend <= Den * Unit
      <4>1. instant <= Unit => Alpha * instant <= Alpha * Unit /\ Alpha * Unit \in Nat
        <5>1. instant <= Unit => instant * Alpha <= Unit * Alpha /\ Unit * Alpha \in Nat
          BY <3>1, <3>3, TimesMonotone
        <5>2. instant * Alpha = Alpha * instant /\ Unit * Alpha = Alpha * Unit
          BY <3>1, <3>3
        <5>3. QED
          BY <5>1, <5>2
      <4>2. p.ema <= Unit => /\ (Den - Alpha) * p.ema <= (Den - Alpha) * Unit
                             /\ (Den - Alpha) * Unit \in Nat
        <5>1. p.ema <= Unit => /\ p.ema * (Den - Alpha) <= Unit * (Den - Alpha)
                               /\ Unit * (Den - Alpha) \in Nat
          BY <1>1, <3>1, TimesMonotone
        <5>2. /\ p.ema * (Den - Alpha) = (Den - Alpha) * p.ema
              /\ Unit * (Den - Alpha) = (Den - Alpha) * Unit
          BY <1>1, <3>1
        <5>3. QED
          BY <5>1, <5>2
      <4>3. Alpha * Unit + (Den - Alpha) * Unit = Den * Unit
        BY <3>1
      <4>4. Den * Unit \in Nat
        BY <3>1, TimesMonotone
      <4> HIDE DEF blend
      <4>5. QED
        BY <3>5, <4>1, <4>2, <4>3, <4>4 DEF blend
    <3>7. /\ blend \div Den \in Nat
          /\ blend <= Den * Unit => blend \div Den <= Unit
      BY <3>1, <3>5, DivNat, DivAtMost
    <3>8. /\ smoothed.known = TRUE
          /\ smoothed.ema = IF p.known THEN blend \div Den ELSE instant
      BY <2>2 DEF Smoothed, smoothed, instant
    <3> HIDE DEF blend
    <3>9. QED
      BY <1>6, <3>3, <3>4, <3>6, <3>7, <3>8
  <2>3. QED
    BY <2>1, <2>2
<1>12. q.pos \in Slots /\ q.len \in 0 .. Cap
  BY <1>1, <1>6, NextSlot
<1>13. q.window \in [Slots -> Sample] /\ q \in Path
  <2>1. q.window \in [Slots -> Sample]
    BY <1>1, <1>6, <1>7
  <2>2. QED
    BY <1>6, <1>10, <1>11, <1>12, <2>1 DEF Path
<1>14. Whole(ds) => q.sumRet <= q.sumSeg
  <2>1. ASSUME Whole(ds)
        PROVE  q.sumRet <= q.sumSeg
    <3>1. Later(ds[1], new)
      <4>1. Later(new, new)
        BY CopySums, LaterSums
      <4>2. \E i \in 1 .. n + 1 : ds[1] = cs[i] \/ ds[1] = new
        BY <1>9
      <4>3. QED
        BY <1>2, <4>1, <4>2
    <3>2. ~ ds[1].torn /\ ~ new.torn
      BY <1>5, <2>1 DEF Whole
    <3>3. Segs(ds[1]) - Rets(ds[1]) <= Segs(new) - Rets(new)
      BY <1>9, <3>1, <3>2, LaterSums
    <3>4. QED
      BY <1>3, <1>9, <3>3, CopySums
  <2>2. QED
    BY <2>1
<1>15. ASSUME NEW i \in 1 .. q.len
       PROVE  q.window[Newest(q.pos, i)] = Step(ds, q.len + 1 - i)
  <2>1. i \in Nat \ {0} /\ i <= q.len /\ q.len <= Cap
    BY <1>12
  <2>2. CASE i = 1
    <3>1. Newest(q.pos, i) = p.pos
      BY <1>1, <1>6, <2>1, <2>2, SlotShifts
    <3>2. q.window[p.pos] = sample
      BY <1>1, <1>6
    <3>3. ds[q.len + 1] = new /\ ds[q.len] = last
      <4>1. ds[q.len + 1] = new
        BY <1>5, <1>9
      <4>2. CASE n < Cap
        <5>1. q.len = n + 1 /\ n + 1 \in 1 .. n + 1
          BY <1>1, <1>6, <4>2
        <5>2. QED
          BY <1>2, <1>5, <4>1, <4>2, <5>1
      <4>3. CASE n = Cap
        <5>1. q.len = n /\ n \in 1 .. n
          BY <1>1, <1>6, <4>3
        <5>2. QED
          BY <1>2, <1>5, <4>1, <4>3, <5>1
      <4>4. QED
        BY <1>1, <4>2, <4>3
    <3>4. Step(ds, q.len) = sample
      BY <3>3 DEF Step
    <3>5. q.len + 1 - i = q.len
      BY <1>12, <2>2
    <3>6. QED
      BY <3>1, <3>2, <3>4, <3>5
  <2>3. CASE i # 1
    <3> DEFINE j == i - 1
    <3>1. j \in 1 .. Cap /\ j < Cap /\ j \in 1 .. n /\ j + 1 = i
      <4>1. q.len <= n + 1 /\ (n = Cap => q.len = n)
        BY <1>1, <1>6
      <4>2. QED
        BY <1>1, <1>12, <2>1, <2>3, <4>1
    <3>2. Newest(q.pos, i) = Newest(p.pos, j) /\ Newest(p.pos, j) # p.pos /\ Newest(p.pos, j) \in Slots
      <4>1. /\ Newest(p.pos, j) \in Slots /\ Newest(p.pos, j) # p.pos
            /\ Newest((p.pos + 1) % Cap, j + 1) = Newest(p.pos, j)
        BY <1>1, <3>1, SlotShifts
      <4> HIDE DEF j
      <4>2. QED
        BY <1>6, <3>1, <4>1
    <3>3. q.window[Newest(q.pos, i)] = p.window[Newest(p.pos, j)]
      BY <1>1, <1>6, <3>2
    <3>4. p.window[Newest(p.pos, j)] = Step(cs, n + 1 - j)
      BY <3>1 DEF RingOK, n
    <3>5. CASE n < Cap
      <4>1. /\ q.len + 1 - i = n + 1 - j
            /\ n + 1 - j \in 1 .. n + 1 /\ n + 1 - j + 1 \in 1 .. n + 1
        <5>1. q.len = n + 1
          BY <1>1, <1>6, <3>5
        <5>2. QED
          BY <1>1, <3>1, <3>5, <5>1
      <4>2. /\ ds[n + 1 - j] = cs[n + 1 - j]
            /\ ds[n + 1 - j + 1] = cs[n + 1 - j + 1]
        BY <1>5, <3>5, <4>1
      <4>3. QED
        BY <3>3, <3>4, <4>1, <4>2 DEF Step
    <3>6. CASE n = Cap
      <4> DEFINE m == q.len + 1 - i
      <4>1. /\ m \in 1 .. n /\ m + 1 \in 1 .. n /\ m + 1 = n + 1 - j
        BY <1>1, <1>6, <2>1, <3>1, <3>6
      <4>2. /\ ds[m] = cs[m + 1]
            /\ ds[m + 1] = cs[(m + 1) + 1]
        BY <1>5, <3>6, <4>1
      <4> HIDE DEF m
      <4>3. Step(ds, m) = Step(cs, m + 1)
        BY <4>2 DEF Step
      <4>4. QED
        BY <3>3, <3>4, <4>1, <4>3 DEF m
    <3>7. QED
      BY <1>1, <3>5, <3>6
  <2>4. QED
    BY <2>2, <2>3
<1>16. QED
  BY <1>5, <1>9, <1>11, <1>13, <1>14, <1>15 DEF RingOK
----------------------------------------------------------------------------
(* What the steps that leave a part of the state alone keep of it.         *)
LEMMA CopiesKept ==
    ASSUME TypeOK, CountersInv, CopiesInv, CountersInv', UNCHANGED copies,
           \A k \in Keys : Grown(Counts(k), Counts(k)')
    PROVE  CopiesInv'
<1>1. ASSUME NEW k \in Keys, NEW i \in 1 .. Len(copies[k])
      PROVE  CopyOK(Counts(k)', copies[k][i])
  <2>1. copies[k][i] \in Copy
    BY DEF TypeOK, DaemonTypeOK
  <2>2. CopyOK(Counts(k), copies[k][i])
    BY DEF CopiesInv
  <2>3. Counts(k) \in Counters /\ Counts(k)' \in Counters
    BY DEF CountersInv
  <2>4. QED
    BY <2>1, <2>2, <2>3, CopyKept
<1>2. QED
  BY <1>1 DEF CopiesInv

LEMMA ReturnedKept ==
    ASSUME TypeOK, CountersInv, ReturnedInv, CountersInv', UNCHANGED <<copies, returned, transitNow>>,
           \A k \in Keys : Grown(Counts(k), Counts(k)')
    PROVE  ReturnedInv'
<1>1. ASSUME NEW k \in returned
      PROVE  CopyOK(Counts(k)', transitNow[k])
  <2>1. k \in Keys /\ transitNow[k] \in Copy
    BY DEF TypeOK, ReadTypeOK
  <2>2. CopyOK(Counts(k), transitNow[k])
    BY DEF ReturnedInv
  <2>3. Counts(k) \in Counters /\ Counts(k)' \in Counters
    BY <2>1 DEF CountersInv
  <2>4. QED
    BY <2>1, <2>2, <2>3, CopyKept
<1>2. QED
  BY <1>1 DEF ReturnedInv

LEMMA CopyingKept ==
    ASSUME TypeOK, CountersInv, CopyingInv, CountersInv', UNCHANGED <<copies, copyVars>>,
           \A k \in Keys : Grown(Counts(k), Counts(k)')
    PROVE  CopyingInv'
<1>1. ASSUME NEW k \in Keys, k = at, NEW c \in 0 .. cpu - 1
      PROVE  ShareOK(Counts(k)', aggSeg, aggRet, torn, c)
  <2>1. cpu \in Cpus /\ aggSeg \in Sums /\ aggRet \in Sums /\ torn \in BOOLEAN
    BY DEF TypeOK, ReadTypeOK
  <2>2. c \in Cpus
    BY <2>1, Parameters DEF Cpus
  <2>3. ShareOK(Counts(k), aggSeg, aggRet, torn, c)
    BY <1>1, Parameters DEF CopyingInv
  <2>4. Counts(k) \in Counters /\ Grown(Counts(k), Counts(k)') /\ Counts(k)' \in Counters
    BY DEF CountersInv
  <2>5. QED
    BY <2>1, <2>2, <2>3, <2>4, ShareKept
<1>2. UNCHANGED <<at, cpu, half, aggSeg, aggRet, torn>> /\ at \in Keys \cup {None}
  BY DEF copyVars, TypeOK, ReadTypeOK
<1>3. ASSUME at' # None, NEW c \in 0 .. cpu' - 1
      PROVE  ShareOK(Counts(at), aggSeg, aggRet, torn, c)'
  <2>1. PICK k \in Keys : k = at
    BY <1>2, <1>3
  <2>2. ShareOK(Counts(k)', aggSeg, aggRet, torn, c)
    BY <1>1, <1>2, <1>3, <2>1
  <2>3. (Counts(at) = Counts(k))'
    BY <1>2, <2>1
  <2>4. QED
    BY <1>2, <2>2, <2>3
<1>4. QED
  BY <1>2, <1>3 DEF CopyingInv

LEMMA DaemonKept ==
    ASSUME DaemonTypeOK, RingInv, WindowIsADifference, RateInv, UNCHANGED daemonVars
    PROVE  DaemonTypeOK' /\ RingInv' /\ WindowIsADifference' /\ RateInv'
  BY DEF DaemonTypeOK, RingInv, WindowIsADifference, RateInv, daemonVars
----------------------------------------------------------------------------
(* A CPU counts, or asks the filter.  Only the copy that is half made can  *)
(* tell: it is torn by a segment of the CPU and key it is at, and a        *)
(* verdict that is still to come has been seen.                            *)
LEMMA MapStepPreserves ==
    ASSUME IInv,
           \/ \E c \in Cpus, k \in Keys : Segment(c, k)
           \/ \E c \in Cpus, again \in BOOLEAN : Verdict(c, again)
    PROVE  IInv'
<1> USE DEF IInv
<1>1. UNCHANGED <<readVars, daemonVars, quiet>>
  BY DEF Segment, Verdict
<1>2. UNCHANGED <<reading, due, returned, transitNow, copyVars, prevTransit, paths, copies, sound, quiet>>
  BY <1>1 DEF readVars, daemonVars
<1>3. /\ MapTypeOK' /\ CountersInv' /\ entries \subseteq entries'
      /\ \A k \in Keys : Grown(Counts(k), Counts(k)')
  BY CountersStep
<1>4. DaemonTypeOK' /\ RingInv' /\ WindowIsADifference' /\ RateInv'
  BY <1>1, DaemonKept DEF TypeOK
<1>5. TypeOK'
  BY <1>2, <1>3, <1>4 DEF TypeOK, ReadTypeOK, copyVars
<1>6. ReadInv'
  BY <1>2, <1>3 DEF ReadInv, Fed, copyVars
<1>7. CopiesInv' /\ ReturnedInv' /\ CopyingInv'
  BY <1>2, <1>3, CopiesKept, ReturnedKept, CopyingKept
<1>8. HalfInv'
  <2> SUFFICES ASSUME half
               PROVE  HalfInv'
    BY <1>2 DEF HalfInv, copyVars
  <2>1. at \in Keys /\ cpu \in Cpus /\ aggSeg \in Sums
    BY DEF ReadInv, TypeOK, ReadTypeOK
  <2>2. /\ Share(aggSeg, cpu) \in 0 .. segments[at][cpu]
        /\ \A i \in 1 .. Len(copies[at]) : copies[at][i].seg[cpu + 1] <= aggSeg[cpu + 1]
        /\ torn \/ TornBySegment \/ verdict[cpu] # at
    BY DEF HalfInv
  <2>3. \A k \in Keys, c \in Cpus : /\ segments[k][c] \in Nat /\ segments'[k][c] \in Nat
                                    /\ segments[k][c] <= segments'[k][c]
    BY <1>3 DEF Grown, Counts, TypeOK, MapTypeOK
  <2>4. aggSeg[cpu] \in Nat /\ aggSeg[cpu + 1] \in Nat
    BY <2>1, CpuIndex DEF Sums
  <2>5. UNCHANGED <<at, cpu, half, aggSeg, torn, copies>>
    BY <1>2 DEF copyVars
  <2>6. Share(aggSeg, cpu) \in 0 .. segments'[at][cpu]
    BY <2>1, <2>2, <2>3, <2>4 DEF Share
  <2>7. TornBySegment => TornBySegment'
    BY <2>1, <2>2, <2>3, <2>4, <2>5 DEF Share, TornBySegment
  <2>8. verdict[cpu] # at => TornBySegment' \/ verdict'[cpu] # at
    <3>1. ASSUME NEW c \in Cpus, NEW k \in Keys, Segment(c, k), verdict'[cpu] = at, verdict[cpu] # at
          PROVE  segments'[at][cpu] = segments[at][cpu] + 1
      <4>1. c = cpu /\ k = at
        BY <2>1, <3>1 DEF Segment, TypeOK, MapTypeOK
      <4>2. segments' = [segments EXCEPT ![k][c] = @ + 1]
        BY <3>1 DEF Segment
      <4>3. QED
        BY <2>1, <4>1, <4>2 DEF TypeOK, MapTypeOK
    <3>2. ASSUME NEW c \in Cpus, NEW again \in BOOLEAN, Verdict(c, again), verdict[cpu] # at
          PROVE  verdict'[cpu] # at
      BY <2>1, <3>2, Parameters DEF Verdict, TypeOK, MapTypeOK
    <3>3. CASE \E c \in Cpus, k \in Keys : Segment(c, k)
      <4>1. verdict[cpu] # at /\ verdict'[cpu] = at => segments'[at][cpu] = segments[at][cpu] + 1
        BY <3>1, <3>3
      <4>2. segments'[at][cpu] = segments[at][cpu] + 1 => TornBySegment'
        BY <2>1, <2>2, <2>3, <2>4, <2>5 DEF Share, TornBySegment
      <4>3. QED
        BY <4>1, <4>2
    <3>4. CASE \E c \in Cpus, again \in BOOLEAN : Verdict(c, again)
      BY <3>2, <3>4
    <3>5. QED
      BY <3>3, <3>4
  <2>9. QED
    BY <2>2, <2>5, <2>6, <2>7, <2>8 DEF HalfInv
<1>9. QED
  BY <1>3, <1>4, <1>5, <1>6, <1>7, <1>8
----------------------------------------------------------------------------
(* The steps of an iteration.                                              *)
LEMMA StartReadPreserves ==
    ASSUME IInv, StartRead
    PROVE  IInv'
<1> USE DEF IInv
<1>1. /\ ~ reading /\ reading' = TRUE /\ due' = entries /\ returned' = {}
      /\ transitNow' = [k \in Keys |-> Zero]
      /\ UNCHANGED <<mapVars, verdict, copyVars, daemonVars, quiet>>
  BY DEF StartRead
<1>2. UNCHANGED <<entries, at, cpu, half, aggSeg, aggRet, torn, prevTransit, paths, copies, sound, quiet, segments, verdict>>
  BY <1>1 DEF copyVars, daemonVars, mapVars
<1>3. MapTypeOK' /\ CountersInv' /\ \A k \in Keys : Grown(Counts(k), Counts(k)')
  BY <1>1, CountersIdle
<1>4. DaemonTypeOK' /\ RingInv' /\ WindowIsADifference' /\ RateInv'
  BY <1>1, DaemonKept DEF TypeOK
<1>5. TypeOK'
  BY <1>1, <1>2, <1>3, <1>4, ZeroCopy DEF TypeOK, ReadTypeOK, MapTypeOK
<1>6. ReadInv'
  BY <1>1, <1>2 DEF ReadInv, Fed
<1>7. CopiesInv' /\ CopyingInv'
  BY <1>1, <1>2, <1>3, CopiesKept, CopyingKept
<1>8. ReturnedInv'
  BY <1>1 DEF ReturnedInv
<1>9. HalfInv'
  BY <1>1, <1>2 DEF HalfInv, ReadInv
<1>10. QED
  BY <1>3, <1>4, <1>5, <1>6, <1>7, <1>8, <1>9

LEMMA NextKeyPreserves ==
    ASSUME IInv, NEW k \in Keys, NextKey(k)
    PROVE  IInv'
<1> USE DEF IInv
<1>1. /\ reading /\ at = None /\ k \in entries \ returned /\ at' = k
      /\ UNCHANGED <<mapVars, verdict, reading, due, returned, transitNow,
                     cpu, half, aggSeg, aggRet, torn, daemonVars, quiet>>
  BY DEF NextKey
<1>2. UNCHANGED <<entries, prevTransit, paths, copies, sound>>
  BY <1>1 DEF daemonVars, mapVars
<1>3. MapTypeOK' /\ CountersInv' /\ \A q \in Keys : Grown(Counts(q), Counts(q)')
  BY <1>1, CountersIdle
<1>4. DaemonTypeOK' /\ RingInv' /\ WindowIsADifference' /\ RateInv'
  BY <1>1, DaemonKept DEF TypeOK
<1>5. TypeOK'
  BY <1>1, <1>2, <1>3, <1>4 DEF TypeOK, ReadTypeOK
<1>6. ReadInv'
  BY <1>1, <1>2 DEF ReadInv, Fed
<1>7. CopiesInv' /\ ReturnedInv'
  BY <1>1, <1>2, <1>3, CopiesKept, ReturnedKept
<1>8. ~ half /\ cpu = 0
  BY <1>1 DEF ReadInv, CopyingInv, TypeOK, ReadTypeOK
<1>9. CopyingInv'
  <2>1. ASSUME NEW i \in 1 .. Len(copies[k])
        PROVE  NotBehind(copies[k][i], aggSeg, aggRet, torn, 0)
    <3>1. copies[k][i].seg[0] = 0 /\ copies[k][i].ret[0] = 0 /\ aggSeg[0] = 0 /\ aggRet[0] = 0
      BY DEF CopiesInv, CopyOK, CopyingInv
    <3>2. QED
      BY <3>1 DEF NotBehind
  <2>2. 0 .. cpu - 1 = {}
    BY <1>8
  <2>3. k # None
    BY Parameters
  <2>4. QED
    BY <1>1, <1>2, <1>8, <2>1, <2>2, <2>3 DEF CopyingInv
<1>10. HalfInv'
  BY <1>1, <1>8 DEF HalfInv
<1>11. QED
  BY <1>3, <1>4, <1>5, <1>6, <1>7, <1>9, <1>10

(* Sums that are not behind stay so when the CPU now gives at least what   *)
(* it gave then.                                                           *)
LEMMA StillNotBehind ==
    ASSUME NEW a \in Nat, NEW b \in Nat, NEW a1 \in Nat, NEW e \in Nat,
           a <= b, a1 - a \in 0 .. e
    PROVE  a1 <= b + e
  OBVIOUS

(* The first half of a CPU.                                                *)
LEMMA CopySegmentsPreserves ==
    ASSUME IInv, CopySegments
    PROVE  IInv'
<1> USE DEF IInv
<1>1. /\ at # None /\ ~ half /\ half' = TRUE
      /\ aggSeg' = [aggSeg EXCEPT ![cpu + 1] = aggSeg[cpu] + segments[at][cpu]]
      /\ torn' = (torn \/ verdict[cpu] = at)
      /\ UNCHANGED <<mapVars, verdict, reading, due, returned, transitNow,
                     at, cpu, aggRet, daemonVars, quiet>>
  BY DEF CopySegments
<1>2. UNCHANGED <<entries, segments, retransmits, prevTransit, paths, copies, sound>>
  BY <1>1 DEF daemonVars, mapVars
<1>3. /\ MapTypeOK' /\ CountersInv'
      /\ \A k \in Keys : Grown(Counts(k), Counts(k)') /\ Counts(k)' = Counts(k)
  BY <1>1, CountersIdle
<1>4. DaemonTypeOK' /\ RingInv' /\ WindowIsADifference' /\ RateInv'
  BY <1>1, DaemonKept DEF TypeOK
<1>5. /\ at \in Keys /\ cpu \in Cpus /\ cpu \in 0 .. NumCpus /\ cpu + 1 \in 0 .. NumCpus /\ cpu \in Nat
      /\ aggSeg \in Sums /\ aggRet \in Sums /\ torn \in BOOLEAN
      /\ segments[at][cpu] \in Nat /\ aggSeg[cpu] \in Nat
  BY <1>1, CpuIndex DEF TypeOK, ReadTypeOK, MapTypeOK, Sums
<1>6. /\ aggSeg' \in Sums /\ aggSeg'[cpu + 1] = aggSeg[cpu] + segments[at][cpu]
      /\ \A n \in 0 .. cpu : aggSeg'[n] = aggSeg[n]
  BY <1>1, <1>5 DEF Sums
<1>7. TypeOK'
  BY <1>1, <1>2, <1>3, <1>4, <1>6 DEF TypeOK, ReadTypeOK
<1>8. ReadInv'
  BY <1>1, <1>2 DEF ReadInv, Fed
<1>9. CopiesInv' /\ ReturnedInv'
  BY <1>1, <1>2, <1>3, CopiesKept, ReturnedKept
<1>10. CopyingInv'
  <2>1. ASSUME NEW c \in 0 .. cpu - 1
        PROVE  ShareOK(Counts(at), aggSeg', aggRet, torn', c)
    <3>1. c \in 0 .. cpu /\ c + 1 \in 0 .. cpu
      BY <1>5
    <3>2. aggSeg'[c] = aggSeg[c] /\ aggSeg'[c + 1] = aggSeg[c + 1]
      BY <1>6, <3>1
    <3>3. ShareOK(Counts(at), aggSeg, aggRet, torn, c)
      BY <1>1 DEF CopyingInv
    <3>4. QED
      BY <1>1, <3>2, <3>3 DEF ShareOK, Share
  <2>2. ASSUME NEW i \in 1 .. Len(copies[at])
        PROVE  NotBehind(copies[at][i], aggSeg', aggRet, torn', cpu)
    <3>1. NotBehind(copies[at][i], aggSeg, aggRet, torn, cpu)
      BY <1>1 DEF CopyingInv
    <3>2. aggSeg'[cpu] = aggSeg[cpu]
      BY <1>5, <1>6
    <3>3. QED
      BY <1>1, <3>1, <3>2 DEF NotBehind
  <2>3. aggSeg'[0] = 0
    BY <1>5, <1>6 DEF CopyingInv
  <2>4. Counts(at)' = Counts(at)
    BY <1>1, <1>2 DEF Counts, Passed
  <2>5. QED
    BY <1>1, <1>2, <2>1, <2>2, <2>3, <2>4 DEF CopyingInv
<1>11. HalfInv'
  <2>1. Share(aggSeg', cpu) = segments[at][cpu]
    BY <1>5, <1>6 DEF Share
  <2>2. ASSUME NEW i \in 1 .. Len(copies[at])
        PROVE  copies[at][i].seg[cpu + 1] <= aggSeg'[cpu + 1]
    <3>1. copies[at][i].seg[cpu] <= aggSeg[cpu]
      BY <1>1 DEF CopyingInv, NotBehind
    <3>2. Share(copies[at][i].seg, cpu) \in 0 .. segments[at][cpu]
      BY <1>5 DEF CopiesInv, CopyOK, ShareOK, Counts
    <3>3. copies[at][i].seg[cpu] \in Nat /\ copies[at][i].seg[cpu + 1] \in Nat
      <4>1. copies[at][i] \in Copy
        BY <1>5 DEF TypeOK, DaemonTypeOK
      <4>2. QED
        BY <1>5, <4>1 DEF Copy, Sums
    <3>4. copies[at][i].seg[cpu + 1] <= aggSeg[cpu] + segments[at][cpu]
      BY <1>5, <3>1, <3>2, <3>3, StillNotBehind DEF Share
    <3>5. QED
      BY <1>6, <3>4
  <2>3. torn' \/ verdict'[cpu] # at
    BY <1>1
  <2>4. Share(aggSeg', cpu) \in 0 .. segments[at][cpu]
    BY <1>5, <2>1
  <2>5. UNCHANGED <<at, cpu, copies, segments>>
    BY <1>1, <1>2
  <2>6. QED
    BY <2>2, <2>3, <2>4, <2>5 DEF HalfInv
<1>12. QED
  BY <1>3, <1>4, <1>7, <1>8, <1>9, <1>10, <1>11

(* The second half: the CPU has given no more than its counters hold, and  *)
(* if nothing fell into the copy just what had passed at this moment, which *)
(* is at least what had passed when it was copied before.                  *)
LEMMA WithRetransmitsOK ==
    ASSUME IInv, half
    PROVE  LET broken == torn \/ TornBySegment
           IN  /\ at \in Keys /\ WithRetransmits \in Sums /\ WithRetransmits[0] = 0
               /\ \A c \in 0 .. cpu : ShareOK(Counts(at), aggSeg, WithRetransmits, broken, c)
               /\ \A i \in 1 .. Len(copies[at]) :
                    NotBehind(copies[at][i], aggSeg, WithRetransmits, broken, cpu + 1)
<1> USE DEF IInv
<1> DEFINE broken == torn \/ TornBySegment
           rets == WithRetransmits
<1>1. /\ at # None /\ at \in Keys /\ cpu \in Cpus /\ cpu \in Nat
      /\ cpu \in 0 .. NumCpus /\ cpu + 1 \in 0 .. NumCpus
      /\ aggSeg \in Sums /\ aggRet \in Sums /\ torn \in BOOLEAN
      /\ segments[at][cpu] \in Nat /\ retransmits[at][cpu] \in Nat
      /\ aggSeg[cpu] \in Nat /\ aggSeg[cpu + 1] \in Nat /\ aggRet[cpu] \in Nat
  BY CpuIndex DEF ReadInv, TypeOK, ReadTypeOK, MapTypeOK, Sums
<1>2. /\ rets \in Sums /\ rets[cpu + 1] = aggRet[cpu] + retransmits[at][cpu]
      /\ \A n \in 0 .. cpu : rets[n] = aggRet[n]
  BY <1>1 DEF WithRetransmits, Sums
<1>3. /\ Share(aggSeg, cpu) \in 0 .. segments[at][cpu]
      /\ broken \/ (Share(aggSeg, cpu) = segments[at][cpu] /\ verdict[cpu] # at)
  BY <1>1 DEF HalfInv, TornBySegment, Share
<1>4. /\ Share(rets, cpu) = retransmits[at][cpu]
      /\ broken \/ Share(aggSeg, cpu) - Share(rets, cpu) = Passed(at, cpu)
  BY <1>1, <1>2, <1>3 DEF Share, Passed
<1>5. /\ Counts(at).seg[cpu] = segments[at][cpu] /\ Counts(at).ret[cpu] = retransmits[at][cpu]
      /\ Counts(at).passed[cpu] = Passed(at, cpu) /\ Passed(at, cpu) \in Nat
  BY <1>1 DEF CountersInv, Counters, Counts
<1> HIDE DEF rets, broken
<1>6. ASSUME NEW c \in 0 .. cpu
      PROVE  ShareOK(Counts(at), aggSeg, rets, broken, c)
  <2>1. CASE c = cpu
    BY <1>1, <1>3, <1>4, <1>5, <2>1 DEF ShareOK
  <2>2. CASE c # cpu
    <3>1. c \in 0 .. cpu - 1 /\ c \in 0 .. cpu /\ c + 1 \in 0 .. cpu
      BY <1>1, <2>2
    <3>2. ShareOK(Counts(at), aggSeg, aggRet, torn, c)
      BY <1>1, <3>1 DEF CopyingInv
    <3>3. rets[c] = aggRet[c] /\ rets[c + 1] = aggRet[c + 1]
      BY <1>2, <3>1
    <3>4. QED
      BY <3>2, <3>3 DEF ShareOK, Share, broken
  <2>3. QED
    BY <2>1, <2>2
<1>7. ASSUME NEW i \in 1 .. Len(copies[at])
      PROVE  NotBehind(copies[at][i], aggSeg, rets, broken, cpu + 1)
  <2> DEFINE old == copies[at][i]
  <2>1. /\ old.seg[cpu] \in Nat /\ old.seg[cpu + 1] \in Nat
        /\ old.ret[cpu] \in Nat /\ old.ret[cpu + 1] \in Nat
    <3>1. old \in Copy
      BY <1>1 DEF TypeOK, DaemonTypeOK
    <3> HIDE DEF old
    <3>2. QED
      BY <1>1, <3>1 DEF Copy, Sums
  <2>2. ShareOK(Counts(at), old.seg, old.ret, old.torn, cpu)
    BY <1>1 DEF CopiesInv, CopyOK
  <2>3. NotBehind(old, aggSeg, aggRet, torn, cpu)
    BY <1>1 DEF CopyingInv
  <2>4. old.seg[cpu + 1] <= aggSeg[cpu + 1]
    BY DEF HalfInv
  <2> HIDE DEF old
  <2>5. old.ret[cpu + 1] <= rets[cpu + 1]
    <3>1. old.ret[cpu] <= aggRet[cpu] /\ old.ret[cpu + 1] - old.ret[cpu] \in 0 .. retransmits[at][cpu]
      BY <1>5, <2>2, <2>3 DEF ShareOK, Share, NotBehind
    <3>2. old.ret[cpu + 1] <= aggRet[cpu] + retransmits[at][cpu]
      BY <1>1, <2>1, <3>1, StillNotBehind
    <3>3. QED
      BY <1>2, <3>2
  <2>6. broken \/ old.torn \/ old.seg[cpu + 1] - old.ret[cpu + 1] <= aggSeg[cpu + 1] - rets[cpu + 1]
    <3> SUFFICES ASSUME ~ broken, ~ old.torn
                 PROVE  old.seg[cpu + 1] - old.ret[cpu + 1] <= aggSeg[cpu + 1] - rets[cpu + 1]
      OBVIOUS
    <3>1. old.seg[cpu] - old.ret[cpu] <= aggSeg[cpu] - aggRet[cpu]
      BY <2>3 DEF NotBehind, broken
    <3>2. (old.seg[cpu + 1] - old.seg[cpu]) - (old.ret[cpu + 1] - old.ret[cpu]) <= Passed(at, cpu)
      BY <1>5, <2>2 DEF ShareOK, Share
    <3>3. (aggSeg[cpu + 1] - aggSeg[cpu]) - (rets[cpu + 1] - rets[cpu]) = Passed(at, cpu)
      BY <1>4 DEF Share
    <3>4. rets[cpu] = aggRet[cpu] /\ rets[cpu + 1] \in Nat
      BY <1>1, <1>2 DEF Sums
    <3>5. /\ aggSeg[cpu] \in Nat /\ aggSeg[cpu + 1] \in Nat /\ aggRet[cpu] \in Nat
          /\ Passed(at, cpu) \in Nat
          /\ (aggSeg[cpu + 1] - aggSeg[cpu]) - (rets[cpu + 1] - aggRet[cpu]) = Passed(at, cpu)
      BY <1>1, <1>5, <3>3, <3>4
    <3>6. QED
      <4> DEFINE a == old.seg[cpu]   a1 == old.seg[cpu + 1]
                 r == old.ret[cpu]   r1 == old.ret[cpu + 1]
                 b == aggSeg[cpu]    b1 == aggSeg[cpu + 1]
                 s == aggRet[cpu]    s1 == rets[cpu + 1]
                 e == Passed(at, cpu)
      <4>1. /\ a \in Nat /\ a1 \in Nat /\ r \in Nat /\ r1 \in Nat /\ b \in Nat /\ b1 \in Nat
            /\ s \in Nat /\ s1 \in Nat /\ e \in Nat
            /\ a - r <= b - s /\ (a1 - a) - (r1 - r) <= e /\ (b1 - b) - (s1 - s) = e
        BY <2>1, <3>1, <3>2, <3>4, <3>5
      <4> HIDE DEF a, a1, r, r1, b, b1, s, s1, e
      <4>2. a1 - r1 <= b1 - s1
        BY <4>1
      <4>3. QED
        BY <4>2 DEF a1, r1, b1, s1
  <2>7. QED
    BY <2>4, <2>5, <2>6 DEF NotBehind, old
<1>8. rets[0] = 0
  BY <1>1, <1>2 DEF CopyingInv
<1>9. QED
  BY <1>1, <1>2, <1>6, <1>7, <1>8 DEF rets, broken
LEMMA CopyRetransmitsPreserves ==
    ASSUME IInv, CopyRetransmits
    PROVE  IInv'
<1> USE DEF IInv
<1>1. /\ half /\ cpu + 1 < NumCpus /\ aggRet' = WithRetransmits
      /\ torn' = (torn \/ TornBySegment)
      /\ cpu' = cpu + 1 /\ half' = FALSE
      /\ UNCHANGED <<mapVars, verdict, reading, due, returned, transitNow, at, aggSeg, daemonVars, quiet>>
  BY DEF CopyRetransmits
<1>2. UNCHANGED <<entries, segments, retransmits, prevTransit, paths, copies, sound>>
  BY <1>1 DEF daemonVars, mapVars
<1>3. MapTypeOK' /\ CountersInv' /\ \A k \in Keys : Grown(Counts(k), Counts(k)')
  BY <1>1, CountersIdle
<1>4. DaemonTypeOK' /\ RingInv' /\ WindowIsADifference' /\ RateInv'
  BY <1>1, DaemonKept DEF TypeOK
<1>5. /\ at \in Keys /\ aggRet' \in Sums /\ aggRet'[0] = 0
      /\ \A c \in 0 .. cpu : ShareOK(Counts(at), aggSeg, aggRet', torn', c)
      /\ \A i \in 1 .. Len(copies[at]) : NotBehind(copies[at][i], aggSeg, aggRet', torn', cpu + 1)
  BY <1>1, WithRetransmitsOK
<1>6. cpu' \in Cpus /\ 0 .. cpu' - 1 = 0 .. cpu
  <2>1. cpu \in Cpus
    BY DEF TypeOK, ReadTypeOK
  <2>2. QED
    BY <1>1, <2>1, Parameters DEF Cpus
<1>7. TypeOK'
  <2>1. torn' \in BOOLEAN
    BY <1>1 DEF TornBySegment
  <2>2. QED
    BY <1>1, <1>2, <1>3, <1>4, <1>5, <1>6, <2>1 DEF TypeOK, ReadTypeOK
<1>8. ReadInv'
  BY <1>1, <1>2 DEF ReadInv, Fed
<1>9. CopiesInv' /\ ReturnedInv'
  BY <1>1, <1>2, <1>3, CopiesKept, ReturnedKept
<1>10. CopyingInv'
  <2>1. Counts(at)' = Counts(at)
    BY <1>1, <1>2 DEF Counts, Passed
  <2>2. at # None /\ aggSeg[0] = 0
    BY <1>5, Parameters DEF CopyingInv
  <2>3. QED
    BY <1>1, <1>2, <1>5, <1>6, <2>1, <2>2 DEF CopyingInv
<1>11. HalfInv'
  BY <1>1 DEF HalfInv
<1>12. QED
  BY <1>3, <1>4, <1>7, <1>8, <1>9, <1>10, <1>11

(* A reset copy is one that no key is being copied into.                   *)
LEMMA ResetOK ==
    ASSUME CopyReset
    PROVE  /\ at' = None /\ cpu' \in Cpus /\ half' = FALSE
           /\ aggSeg' \in Sums /\ aggRet' \in Sums /\ torn' \in BOOLEAN
           /\ CopyingInv' /\ HalfInv'
<1>1. /\ at' = None /\ cpu' = 0 /\ half' = FALSE
      /\ aggSeg' = NoSums /\ aggRet' = NoSums /\ torn' = FALSE
  BY DEF CopyReset
<1>2. 0 \in Cpus /\ 0 \in 0 .. NumCpus
  BY Parameters DEF Cpus
<1>3. QED
  BY <1>1, <1>2, ZeroCopy DEF CopyingInv, HalfInv

LEMMA KeyCopiedPreserves ==
    ASSUME IInv, KeyCopied
    PROVE  IInv'
<1> USE DEF IInv
<1> DEFINE new == [seg |-> aggSeg, ret |-> WithRetransmits, torn |-> torn \/ TornBySegment]
<1>1. /\ half /\ cpu + 1 = NumCpus
      /\ transitNow' = [transitNow EXCEPT ![at] = new]
      /\ returned' = returned \cup {at} /\ due' = due \ {at}
      /\ CopyReset
      /\ UNCHANGED <<mapVars, verdict, reading, daemonVars, quiet>>
  BY DEF KeyCopied
<1>2. UNCHANGED <<entries, segments, retransmits, prevTransit, paths, copies, sound>>
  BY <1>1 DEF daemonVars, mapVars
<1>3. /\ MapTypeOK' /\ CountersInv'
      /\ \A k \in Keys : Grown(Counts(k), Counts(k)') /\ Counts(k)' = Counts(k)
  BY <1>1, CountersIdle
<1>4. DaemonTypeOK' /\ RingInv' /\ WindowIsADifference' /\ RateInv'
  BY <1>1, DaemonKept DEF TypeOK
<1>5. /\ at' = None /\ cpu' \in Cpus /\ half' = FALSE
      /\ aggSeg' \in Sums /\ aggRet' \in Sums /\ torn' \in BOOLEAN
      /\ CopyingInv' /\ HalfInv'
  BY <1>1, ResetOK
<1>6. /\ at \in Keys /\ WithRetransmits \in Sums /\ WithRetransmits[0] = 0
      /\ \A c \in 0 .. cpu : ShareOK(Counts(at), aggSeg, WithRetransmits, torn \/ TornBySegment, c)
      /\ \A i \in 1 .. Len(copies[at]) :
           NotBehind(copies[at][i], aggSeg, WithRetransmits, torn \/ TornBySegment, cpu + 1)
  BY <1>1, WithRetransmitsOK
<1>7. new \in Copy
  BY <1>6 DEF Copy, TypeOK, ReadTypeOK, TornBySegment
<1>8. CopyOK(Counts(at), new) /\ \A i \in 1 .. Len(copies[at]) : Later(copies[at][i], new)
  <2>1. Cpus = 0 .. cpu
    BY <1>1, Parameters DEF Cpus, TypeOK, ReadTypeOK
  <2>2. aggSeg[0] = 0
    BY DEF CopyingInv
  <2>3. QED
    BY <1>1, <1>6, <2>1, <2>2 DEF CopyOK, Later
<1> HIDE DEF new
<1>9. TypeOK'
  BY <1>1, <1>2, <1>3, <1>4, <1>5, <1>6, <1>7 DEF TypeOK, ReadTypeOK
<1>10. ReadInv'
  <2>1. at \in entries
    BY <1>6, Parameters DEF ReadInv
  <2>2. \A k \in Keys \ returned' : transitNow'[k] = Zero
    BY <1>1, <1>6 DEF ReadInv, TypeOK, ReadTypeOK
  <2>3. QED
    BY <1>1, <1>2, <1>5, <2>1, <2>2 DEF ReadInv, Fed
<1>11. CopiesInv'
  BY <1>2, <1>3, CopiesKept
<1>12. ReturnedInv'
  <2>1. ASSUME NEW k \in returned'
        PROVE  /\ CopyOK(Counts(k)', transitNow'[k])
               /\ \A i \in 1 .. Len(copies[k]) : Later(copies[k][i], transitNow'[k])
    <3>1. CASE k = at
      <4>1. transitNow'[k] = new /\ Counts(k)' = Counts(k) /\ Counts(k) = Counts(at)
        BY <1>1, <1>3, <1>6, <3>1 DEF TypeOK, ReadTypeOK
      <4>2. QED
        BY <1>8, <3>1, <4>1
    <3>2. CASE k # at
      <4>1. k \in returned /\ k \in Keys
        BY <1>1, <3>2 DEF TypeOK, ReadTypeOK
      <4>2. transitNow'[k] = transitNow[k] /\ Counts(k)' = Counts(k)
        BY <1>1, <1>3, <3>2, <4>1 DEF TypeOK, ReadTypeOK
      <4>3. QED
        BY <4>1, <4>2 DEF ReturnedInv
    <3>3. QED
      BY <3>1, <3>2
  <2>2. QED
    BY <1>2, <2>1 DEF ReturnedInv
<1>13. QED
  BY <1>3, <1>4, <1>5, <1>9, <1>10, <1>11, <1>12

(* An iteration that fails is forgotten: the copies fed so far and the     *)
(* base of the next difference stay what they were.                        *)
LEMMA ReadFailsPreserves ==
    ASSUME IInv, ReadFails
    PROVE  IInv'
<1> USE DEF IInv
<1>1. /\ reading' = FALSE /\ due' = {} /\ returned' = {}
      /\ transitNow' = [k \in Keys |-> Zero]
      /\ CopyReset
      /\ UNCHANGED <<mapVars, verdict, daemonVars, quiet>>
  BY DEF ReadFails
<1>2. UNCHANGED <<entries, segments, retransmits, prevTransit, paths, copies, sound>>
  BY <1>1 DEF daemonVars, mapVars
<1>3. MapTypeOK' /\ CountersInv' /\ \A k \in Keys : Grown(Counts(k), Counts(k)')
  BY <1>1, CountersIdle
<1>4. DaemonTypeOK' /\ RingInv' /\ WindowIsADifference' /\ RateInv'
  BY <1>1, DaemonKept DEF TypeOK
<1>5. /\ at' = None /\ cpu' \in Cpus /\ half' = FALSE
      /\ aggSeg' \in Sums /\ aggRet' \in Sums /\ torn' \in BOOLEAN
      /\ CopyingInv' /\ HalfInv'
  BY <1>1, ResetOK
<1>6. TypeOK'
  BY <1>1, <1>2, <1>3, <1>4, <1>5, ZeroCopy DEF TypeOK, ReadTypeOK
<1>7. ReadInv'
  BY <1>1, <1>2, <1>5 DEF ReadInv, Fed
<1>8. CopiesInv' /\ ReturnedInv'
  BY <1>1, <1>2, <1>3, CopiesKept DEF ReturnedInv
<1>9. QED
  BY <1>3, <1>4, <1>5, <1>6, <1>7, <1>8

----------------------------------------------------------------------------
(* The update: every key that has been fed before is in the iteration, so  *)
(* a key that is not is one whose copy reads as zero on both sides.        *)
LEMMA UpdatePreserves ==
    ASSUME IInv, Update
    PROVE  IInv'
<1> USE DEF IInv
<1> DEFINE cs(k) == copies[k]
           ds(k) == Recent(Append(copies[k], transitNow[k]))
           q(k) == Updated(paths[k], diff(Segs(transitNow[k]), Segs(prevTransit[k])),
                                     diff(Rets(transitNow[k]), Rets(prevTransit[k])))
<1>1. /\ reading /\ at = None /\ due = {}
      /\ paths' = [k \in Keys |-> IF k \in returned THEN q(k) ELSE paths[k]]
      /\ copies' = [k \in Keys |-> IF k \in returned THEN ds(k) ELSE copies[k]]
      /\ prevTransit' = transitNow
      /\ sound' = [k \in Keys |-> sound[k] /\ Whole(copies'[k])]
      /\ reading' = FALSE /\ returned' = {}
      /\ transitNow' = [k \in Keys |-> Zero]
      /\ UNCHANGED <<mapVars, verdict, due, copyVars, quiet>>
  BY DEF Update
<1>2. UNCHANGED <<entries, segments, retransmits, at, cpu, half, aggSeg, aggRet, torn>>
  BY <1>1 DEF copyVars, mapVars
<1>3. /\ MapTypeOK' /\ CountersInv'
      /\ \A k \in Keys : Grown(Counts(k), Counts(k)') /\ Counts(k)' = Counts(k)
  BY <1>1, CountersIdle
<1>4. ASSUME NEW k \in Keys
      PROVE  /\ paths[k] \in Path /\ copies[k] \in Seq(Copy) /\ transitNow[k] \in Copy
             /\ Len(copies[k]) = paths[k].len + 1 /\ Len(copies[k]) \in 1 .. Cap + 1
             /\ prevTransit[k] = copies[k][Len(copies[k])]
             /\ Ordered(copies[k]) /\ RingOK(paths[k], copies[k])
             /\ paths[k].sumSeg = Segs(copies[k][Len(copies[k])]) - Segs(copies[k][1])
             /\ paths[k].sumRet = Rets(copies[k][Len(copies[k])]) - Rets(copies[k][1])
  <2>1. paths[k] \in Path /\ copies[k] \in Seq(Copy) /\ transitNow[k] \in Copy
        /\ Len(copies[k]) = paths[k].len + 1
    BY DEF TypeOK, ReadTypeOK, DaemonTypeOK
  <2>2. paths[k].len \in 0 .. Cap
    BY <2>1 DEF Path
  <2>3. Len(copies[k]) \in 1 .. Cap + 1
    BY <2>1, <2>2, Parameters
  <2>4. QED
    BY <2>1, <2>3 DEF ReadInv, CopiesInv, RingInv, WindowIsADifference
<1> HIDE DEF ds, q
<1>5. ASSUME NEW k \in returned
      PROVE  /\ k \in Keys /\ copies'[k] = ds(k) /\ paths'[k] = q(k)
             /\ ds(k) \in Seq(Copy) /\ ds(k)[Len(ds(k))] = transitNow[k] /\ Len(ds(k)) > 1
             /\ Len(ds(k)) = q(k).len + 1 /\ RingOK(q(k), ds(k)) /\ Ordered(ds(k))
             /\ q(k).sumSeg = Segs(ds(k)[Len(ds(k))]) - Segs(ds(k)[1])
             /\ q(k).sumRet = Rets(ds(k)[Len(ds(k))]) - Rets(ds(k)[1])
             /\ q(k) \in Path
             /\ Whole(ds(k)) /\ paths[k].ema <= Unit => q(k).ema <= Unit
             /\ \A i \in 1 .. Len(ds(k)) : CopyOK(Counts(k), ds(k)[i])
  <2>1. k \in Keys /\ copies'[k] = ds(k) /\ paths'[k] = q(k)
    BY <1>1 DEF TypeOK, ReadTypeOK
  <2>2. \A i \in 1 .. Len(copies[k]) : Later(copies[k][i], transitNow[k])
    BY DEF ReturnedInv
  <2>3. /\ Len(ds(k)) = q(k).len + 1 /\ RingOK(q(k), ds(k))
        /\ q(k).sumSeg = Segs(ds(k)[Len(ds(k))]) - Segs(ds(k)[1])
        /\ q(k).sumRet = Rets(ds(k)[Len(ds(k))]) - Rets(ds(k)[1])
        /\ q(k) \in Path
        /\ Whole(ds(k)) /\ paths[k].ema <= Unit => q(k).ema <= Unit
    BY <1>4, <2>1, <2>2, UpdatedPath DEF ds, q
  <2>4. Ordered(ds(k))
    BY <1>4, <2>1, <2>2, OrderedRecent DEF ds
  <2>5. /\ ds(k) \in Seq(Copy) /\ ds(k)[Len(ds(k))] = transitNow[k]
        /\ Len(copies[k]) <= Cap => /\ Len(ds(k)) = Len(copies[k]) + 1
                                    /\ \A i \in 1 .. Len(copies[k]) : ds(k)[i] = copies[k][i]
        /\ Len(copies[k]) = Cap + 1 => /\ Len(ds(k)) = Len(copies[k])
                                       /\ \A i \in 1 .. Len(copies[k]) - 1 : ds(k)[i] = copies[k][i + 1]
    BY <1>4, <2>1, RecentCopies DEF ds
  <2>6. ASSUME NEW i \in 1 .. Len(ds(k))
        PROVE  CopyOK(Counts(k), ds(k)[i])
    <3>1. CopyOK(Counts(k), transitNow[k])
      BY DEF ReturnedInv
    <3>2. \A j \in 1 .. Len(copies[k]) : CopyOK(Counts(k), copies[k][j])
      BY <2>1 DEF CopiesInv
    <3>3. i = Len(ds(k)) \/ \E j \in 1 .. Len(copies[k]) : ds(k)[i] = copies[k][j]
      <4>1. Len(copies[k]) \in 1 .. Cap + 1 /\ Cap \in Nat
        BY <1>4, <2>1, Parameters
      <4>2. CASE Len(copies[k]) <= Cap
        BY <2>5, <4>1, <4>2
      <4>3. CASE Len(copies[k]) = Cap + 1
        BY <2>5, <4>1, <4>3
      <4>4. QED
        BY <4>1, <4>2, <4>3
    <3>4. QED
      BY <2>5, <3>1, <3>2, <3>3
  <2>7. Len(ds(k)) > 1
    BY <1>4, <2>1, <2>5, Parameters
  <2>8. QED
    BY <2>1, <2>3, <2>4, <2>5, <2>6, <2>7
<1>6. ASSUME NEW k \in Keys \ returned
      PROVE  /\ copies'[k] = copies[k] /\ paths'[k] = paths[k]
             /\ transitNow[k] = Zero /\ prevTransit[k] = Zero
             /\ Len(copies[k]) <= 1
  <2>1. copies'[k] = copies[k] /\ paths'[k] = paths[k] /\ transitNow[k] = Zero
    BY <1>1 DEF ReadInv
  <2>2. ~ Fed(k)
    BY <1>1 DEF ReadInv
  <2>3. QED
    BY <1>4, <2>1, <2>2 DEF ReadInv, Fed
<1>7. ASSUME NEW k \in Keys
      PROVE  /\ paths'[k] \in Path /\ copies'[k] \in Seq(Copy) /\ Len(copies'[k]) = paths'[k].len + 1
             /\ RingOK(paths'[k], copies'[k]) /\ Ordered(copies'[k])
             /\ paths'[k].sumSeg = Segs(copies'[k][Len(copies'[k])]) - Segs(copies'[k][1])
             /\ paths'[k].sumRet = Rets(copies'[k][Len(copies'[k])]) - Rets(copies'[k][1])
             /\ copies'[k][Len(copies'[k])] = transitNow[k]
             /\ \A i \in 1 .. Len(copies'[k]) : CopyOK(Counts(k)', copies'[k][i])
             /\ Whole(copies'[k]) /\ paths[k].ema <= Unit => paths'[k].ema <= Unit
             /\ Len(copies'[k]) > 1 => k \in entries
             /\ ~ (Len(copies'[k]) > 1) => transitNow[k] = Zero
  <2>1. CASE k \in returned
    <3>1. k \in entries
      BY <2>1 DEF ReadInv
    <3>2. QED
      BY <1>3, <1>5, <2>1, <3>1
  <2>2. CASE k \notin returned
    <3>1. \A i \in 1 .. Len(copies[k]) : CopyOK(Counts(k)', copies[k][i])
      BY <1>3 DEF CopiesInv
    <3>2. Len(copies[k]) > 1 => k \in entries
      BY DEF ReadInv, Fed
    <3>3. QED
      BY <1>4, <1>6, <2>2, <3>1, <3>2
  <2>3. QED
    BY <2>1, <2>2
<1>8. DaemonTypeOK' /\ TypeOK'
  <2>1. DaemonTypeOK'
    <3>1. paths' \in [Keys -> Path] /\ copies' \in [Keys -> Seq(Copy)]
      BY <1>1, <1>7
    <3>2. sound' \in [Keys -> BOOLEAN]
      BY <1>1 DEF TypeOK, DaemonTypeOK, Whole
    <3>3. QED
      BY <1>1, <1>7, <3>1, <3>2 DEF DaemonTypeOK, TypeOK, ReadTypeOK
  <2>2. QED
    BY <1>1, <1>2, <1>3, <2>1, ZeroCopy DEF TypeOK, ReadTypeOK
<1>9. ReadInv'
  BY <1>1, <1>2, <1>7 DEF ReadInv, Fed
<1>10. CopiesInv' /\ ReturnedInv' /\ RingInv' /\ WindowIsADifference'
  BY <1>1, <1>7 DEF CopiesInv, ReturnedInv, RingInv, WindowIsADifference
<1>11. CopyingInv' /\ HalfInv'
  BY <1>1, <1>2 DEF CopyingInv, HalfInv, ReadInv
<1>12. RateInv'
  BY <1>1, <1>7 DEF RateInv
<1>13. QED
  BY <1>3, <1>8, <1>9, <1>10, <1>11, <1>12
----------------------------------------------------------------------------
LEMMA InitEstablishes ==
    ASSUME Init
    PROVE  IInv
<1> USE DEF Init
<1>1. 0 \in Cpus /\ 0 \in Slots /\ 0 \in 0 .. Cap /\ Unit \in Nat
  BY Parameters DEF Cpus, Slots
<1>2. NewPath \in Path
  BY <1>1 DEF NewPath, Path, NoSample, Sample
<1>3. \A k \in Keys : /\ copies[k] = <<Zero>> /\ copies[k] \in Seq(Copy) /\ Len(copies[k]) = 1
                      /\ copies[k][1] = Zero /\ paths[k] = NewPath
                      /\ paths[k].len = 0 /\ paths[k].sumSeg = 0 /\ paths[k].sumRet = 0 /\ paths[k].ema = 0
  BY ZeroCopy DEF NewPath
<1>4. TypeOK
  <2>1. MapTypeOK
    BY DEF MapTypeOK
  <2>2. ReadTypeOK
    BY <1>1, ZeroCopy DEF ReadTypeOK
  <2>3. DaemonTypeOK
    <3>1. prevTransit \in [Keys -> Copy] /\ paths \in [Keys -> Path] /\ sound \in [Keys -> BOOLEAN]
      BY <1>2, ZeroCopy
    <3>2. copies \in [Keys -> Seq(Copy)]
      BY <1>3
    <3>3. QED
      BY <1>3, <3>1, <3>2 DEF DaemonTypeOK
  <2>4. QED
    BY <2>1, <2>2, <2>3 DEF TypeOK
<1>5. ReadInv
  BY <1>3 DEF ReadInv, Fed
<1>6. CountersInv
  <2>1. ASSUME NEW k \in Keys, NEW c \in Cpus
        PROVE  Passed(k, c) = 0
    <3>1. segments[k][c] = 0 /\ retransmits[k][c] = 0 /\ verdict[c] # k
      BY Parameters
    <3>2. QED
      BY <3>1 DEF Passed
  <2>2. QED
    BY <2>1 DEF CountersInv, Counts, Counters
<1>7. CopiesInv
  <2>1. ASSUME NEW k \in Keys
        PROVE  CopyOK(Counts(k), Zero)
    BY <1>6, ZeroCopy DEF CountersInv
  <2>2. Later(Zero, Zero)
    BY ZeroCopy, CopySums, LaterSums
  <2>3. QED
    BY <1>3, <2>1, <2>2 DEF CopiesInv, Ordered
<1>8. ReturnedInv /\ HalfInv
  BY DEF ReturnedInv, HalfInv
<1>9. CopyingInv
  <2>1. NoSums[0] = 0
    BY <1>1, ZeroCopy, Parameters
  <2>2. QED
    BY <2>1 DEF CopyingInv
<1>10. RingInv
  BY <1>3 DEF RingInv, RingOK
<1>11. WindowIsADifference
  <2>1. Segs(Zero) - Segs(Zero) = 0 /\ Rets(Zero) - Rets(Zero) = 0
    BY ZeroCopy, CopySums
  <2>2. QED
    BY <1>3, <2>1 DEF WindowIsADifference
<1>12. RateInv
  BY <1>1, <1>3 DEF RateInv
<1>13. QED
  BY <1>4, <1>5, <1>6, <1>7, <1>8, <1>9, <1>10, <1>11, <1>12 DEF IInv

LEMMA StutterPreserves ==
    ASSUME IInv, UNCHANGED <<mapVars, verdict, readVars, daemonVars>>, quiet' \in BOOLEAN
    PROVE  IInv'
<1> USE DEF IInv
<1>1. UNCHANGED <<entries, reading, due, returned, transitNow, at, cpu, half, aggSeg, aggRet, torn,
                  prevTransit, paths, copies, sound, segments, verdict>>
  BY DEF mapVars, readVars, copyVars, daemonVars
<1>2. MapTypeOK' /\ CountersInv' /\ \A k \in Keys : Grown(Counts(k), Counts(k)')
  BY CountersIdle
<1>3. DaemonTypeOK' /\ RingInv' /\ WindowIsADifference' /\ RateInv'
  BY DaemonKept DEF TypeOK
<1>4. TypeOK'
  BY <1>1, <1>2, <1>3 DEF TypeOK, ReadTypeOK
<1>5. ReadInv'
  BY <1>1 DEF ReadInv, Fed
<1>6. CopiesInv' /\ ReturnedInv' /\ CopyingInv'
  BY <1>1, <1>2, CopiesKept, ReturnedKept, CopyingKept DEF copyVars
<1>7. HalfInv'
  BY <1>1 DEF HalfInv, TornBySegment
<1>8. QED
  BY <1>2, <1>3, <1>4, <1>5, <1>6, <1>7

LEMMA NextPreserves ==
    ASSUME IInv, [Next]_vars
    PROVE  IInv'
<1>1. CASE \/ \E c \in Cpus, k \in Keys : Segment(c, k)
           \/ \E c \in Cpus, again \in BOOLEAN : Verdict(c, again)
  BY <1>1, MapStepPreserves
<1>2. CASE StartRead
  BY <1>2, StartReadPreserves
<1>3. ASSUME NEW k \in Keys, NextKey(k)
      PROVE  IInv'
  BY <1>3, NextKeyPreserves
<1>4. CASE CopySegments
  BY <1>4, CopySegmentsPreserves
<1>5. CASE CopyRetransmits
  BY <1>5, CopyRetransmitsPreserves
<1>6. CASE KeyCopied
  BY <1>6, KeyCopiedPreserves
<1>7. CASE Update
  BY <1>7, UpdatePreserves
<1>8. CASE ReadFails
  BY <1>8, ReadFailsPreserves
<1>9. CASE Settle
  BY <1>9, StutterPreserves DEF Settle
<1>10. CASE UNCHANGED vars
  BY <1>10, StutterPreserves DEF vars, IInv, TypeOK
<1>11. QED
  BY <1>1, <1>2, <1>3, <1>4, <1>5, <1>6, <1>7, <1>8, <1>9, <1>10 DEF Next, DaemonStep

(* Of two whole copies, the later one has at least as many segments that   *)
(* passed, so its retransmits have grown by no more than its segments.     *)
LEMMA WholeWindow ==
    ASSUME IInv, NEW k \in Keys, Whole(copies[k])
    PROVE  paths[k].sumRet <= paths[k].sumSeg
<1> DEFINE first == copies[k][1]
           last == copies[k][Len(copies[k])]
<1>1. copies[k] \in Seq(Copy) /\ Len(copies[k]) \in Nat \ {0}
  <2>1. paths[k] \in Path /\ copies[k] \in Seq(Copy) /\ Len(copies[k]) = paths[k].len + 1
    BY DEF IInv, TypeOK, DaemonTypeOK
  <2>2. paths[k].len \in 0 .. Cap
    BY <2>1 DEF Path
  <2>3. QED
    BY <2>1, <2>2, Parameters
<1>2. first \in Copy /\ last \in Copy /\ Later(first, last)
  <2>1. 1 \in 1 .. Len(copies[k]) /\ Len(copies[k]) \in 1 .. Len(copies[k])
    BY <1>1
  <2>2. QED
    BY <1>1, <2>1 DEF IInv, CopiesInv, Ordered
<1>3. paths[k].sumSeg = Segs(last) - Segs(first) /\ paths[k].sumRet = Rets(last) - Rets(first)
  BY DEF IInv, WindowIsADifference
<1>4. ~ first.torn /\ ~ last.torn
  BY DEF Whole
<1> HIDE DEF first, last
<1>5. Segs(first) - Rets(first) <= Segs(last) - Rets(last)
  BY <1>2, <1>4, LaterSums
<1>6. QED
  BY <1>2, <1>3, <1>5, CopySums

(* The invariant of the copies and of the ring holds in every reachable    *)
(* state, however many CPUs count while an iteration copies (transit_egress *)
(* and AllTransit, and the deltas the daemon feeds to EMAStore.Update).    *)
THEOREM CopiesSafe == Spec => []IInv
<1>1. Init => IInv
  BY InitEstablishes
<1>2. IInv /\ [Next]_vars => IInv'
  BY NextPreserves
<1>3. QED
  BY <1>1, <1>2, PTL DEF Spec

(* The running sums of every window are the difference between the last    *)
(* copy of the counters and the one that its first sample was taken from.  *)
THEOREM WindowSafe == Spec => []WindowIsADifference
<1>1. IInv => WindowIsADifference
  BY DEF IInv
<1>2. QED
  BY <1>1, CopiesSafe, PTL

(* A loss rate is at most 1, of a window that whole copies bound and of an *)
(* EMA that was only fed from such windows.                                *)
THEOREM RateSafe == Spec => []LossIsARate
<1>1. IInv => LossIsARate
  BY WholeWindow DEF IInv, RateInv, LossIsARate
<1>2. QED
  BY <1>1, CopiesSafe, PTL
=============================================================================

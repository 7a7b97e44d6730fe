--------------------------- MODULE TransitWindow ---------------------------
(***************************************************************************)
(* The evidence of forwarded traffic: transit_egress counts on every CPU,  *)
(* the daemon copies the counters on every tick (maps.AllTransit), takes   *)
(* the difference to the copy before (cmd/daemon/main.go) and feeds it to  *)
(* a sliding window and an EMA per path (internal/metrics).                *)
(*                                                                         *)
(* Nothing locks the counters.  A segment and its verdict are counted at   *)
(* two moments, and the kernel copies the value of a CPU word by word, the *)
(* segments before the retransmits; a packet may fall in between.          *)
(* A copy is kept with what its sums were after each CPU (history): the    *)
(* daemon has only the last of them.                                       *)
(*                                                                         *)
(* A key is a (next hop, subnet) pair.  A key that is missing from a copy  *)
(* reads as zero in the next difference, so copies are total functions.    *)
(* Rates are in 1/Unit, and the weight of a tick in the EMA is Alpha/Den.  *)
(* The Wilson error, which tips no decision, is left out.                  *)
(***************************************************************************)
EXTENDS Integers, Sequences, Functions

CONSTANTS
    Keys,
    NumCpus,       \* possible CPUs
    Cap,           \* windowCap: ticks in the instant window
    Alpha, Den,
    Unit,
    MaxSegments,   \* bound: segments of a key, over all CPUs
    None

ASSUME WindowAssumption ==
    /\ {NumCpus, Cap, Den, Unit} \subseteq Nat \ {0}
    /\ Alpha \in 1 .. Den - 1
    /\ MaxSegments \in Nat
    /\ None \notin Keys

Cpus == 0 .. NumCpus - 1

VARIABLES
    \* transit_loss_map
    entries,                 \* keys that have an entry
    segments, retransmits,   \* key -> CPU -> count
    \* transit_egress
    verdict,                 \* CPU -> the key whose segment it counted, verdict to come
    \* maps.AllTransit
    reading,                 \* an iteration is in progress
    due,                     \* keys it has yet to return
    returned, transitNow,    \* keys it returned so far, and their copies
    at, cpu, half,           \* the key and CPU it is at, whose segments it has copied
    aggSeg, aggRet,          \* the sums over the first 0, 1, ... CPUs
    \* the daemon
    prevTransit,             \* the last complete iteration
    paths,                   \* EMAStore.paths
    \* history
    torn,                    \* a packet fell into the copy being made
    copies,                  \* key -> the last Cap + 1 copies that were fed to the window
    sound,                   \* key -> the window began and ended with a whole copy on every tick
    quiet                    \* traffic has stopped and reads succeed from here on

mapVars == <<entries, segments, retransmits>>
copyVars == <<at, cpu, half, aggSeg, aggRet, torn>>
readVars == <<reading, due, returned, transitNow, copyVars>>
daemonVars == <<prevTransit, paths, copies, sound>>
vars == <<mapVars, verdict, readVars, daemonVars, quiet>>

NoSums == [i \in 0 .. NumCpus |-> 0]
Zero == [seg |-> NoSums, ret |-> NoSums, torn |-> FALSE]
Segs(copy) == copy.seg[NumCpus]
Rets(copy) == copy.ret[NumCpus]

Slots == 0 .. Cap - 1
NoSample == [seg |-> 0, ret |-> 0]
NewPath == [window |-> [i \in Slots |-> NoSample], pos |-> 0, len |-> 0,
            sumSeg |-> 0, sumRet |-> 0, ema |-> 0, known |-> FALSE]

Total(f) == FoldFunction(+, 0, f)

Init ==
    /\ entries = {}
    /\ segments = [k \in Keys |-> [c \in Cpus |-> 0]]
    /\ retransmits = [k \in Keys |-> [c \in Cpus |-> 0]]
    /\ verdict = [c \in Cpus |-> None]
    /\ reading = FALSE /\ due = {} /\ returned = {}
    /\ transitNow = [k \in Keys |-> Zero] /\ prevTransit = [k \in Keys |-> Zero]
    /\ at = None /\ cpu = 0 /\ half = FALSE
    /\ aggSeg = NoSums /\ aggRet = NoSums /\ torn = FALSE
    /\ paths = [k \in Keys |-> NewPath]
    /\ copies = [k \in Keys |-> <<Zero>>] /\ sound = [k \in Keys |-> TRUE]
    /\ quiet = FALSE

----------------------------------------------------------------------------
(* A CPU counts a segment, in an entry it may have to create, ...          *)
Segment(c, k) ==
    /\ ~ quiet
    /\ verdict[c] = None
    /\ Total(segments[k]) < MaxSegments
    /\ entries' = entries \cup {k}
    /\ segments' = [segments EXCEPT ![k][c] = @ + 1]
    /\ verdict' = [verdict EXCEPT ![c] = k]
    /\ UNCHANGED <<retransmits, readVars, daemonVars, quiet>>

(* ... asks the filter, and counts a retransmit if that is what it was.    *)
Verdict(c, again) ==
    /\ verdict[c] # None
    /\ retransmits' = [retransmits EXCEPT ![verdict[c]][c] = IF again THEN @ + 1 ELSE @]
    /\ verdict' = [verdict EXCEPT ![c] = None]
    /\ UNCHANGED <<entries, segments, readVars, daemonVars, quiet>>

----------------------------------------------------------------------------
(* AllTransit.  Entries are never deleted, so the iteration returns every  *)
(* key that was there when it began; a later one it may miss.              *)
StartRead ==
    /\ ~ reading
    /\ reading' = TRUE
    /\ due' = entries /\ returned' = {}
    /\ transitNow' = [k \in Keys |-> Zero]
    /\ UNCHANGED <<mapVars, verdict, copyVars, daemonVars, quiet>>

NextKey(k) ==
    /\ reading /\ at = None
    /\ k \in entries \ returned
    /\ k \in due \/ due = {}
    /\ at' = k
    /\ UNCHANGED <<mapVars, verdict, reading, due, returned, transitNow,
                   cpu, half, aggSeg, aggRet, torn, daemonVars, quiet>>

CopySegments ==
    /\ at # None /\ ~ half
    /\ half' = TRUE
    /\ aggSeg' = [aggSeg EXCEPT ![cpu + 1] = aggSeg[cpu] + segments[at][cpu]]
    /\ torn' = (torn \/ verdict[cpu] = at)
    /\ UNCHANGED <<mapVars, verdict, reading, due, returned, transitNow,
                   at, cpu, aggRet, daemonVars, quiet>>

WithRetransmits == [aggRet EXCEPT ![cpu + 1] = aggRet[cpu] + retransmits[at][cpu]]
TornBySegment == aggSeg[cpu + 1] # aggSeg[cpu] + segments[at][cpu]

CopyRetransmits ==
    /\ half /\ cpu + 1 < NumCpus
    /\ aggRet' = WithRetransmits
    /\ torn' = (torn \/ TornBySegment)
    /\ cpu' = cpu + 1 /\ half' = FALSE
    /\ UNCHANGED <<mapVars, verdict, reading, due, returned, transitNow, at, aggSeg, daemonVars, quiet>>

CopyReset ==
    /\ at' = None /\ cpu' = 0 /\ half' = FALSE
    /\ aggSeg' = NoSums /\ aggRet' = NoSums /\ torn' = FALSE

(* With the retransmits of the last CPU the copy of a key is made.         *)
KeyCopied ==
    /\ half /\ cpu + 1 = NumCpus
    /\ transitNow' = [transitNow EXCEPT ![at] =
           [seg |-> aggSeg, ret |-> WithRetransmits, torn |-> torn \/ TornBySegment]]
    /\ returned' = returned \cup {at} /\ due' = due \ {at}
    /\ CopyReset
    /\ UNCHANGED <<mapVars, verdict, reading, daemonVars, quiet>>

(* Mutation: a part of a copy becomes the base of the next difference.     *)
ReadFailsPartial ==
    /\ reading /\ ~ quiet
    /\ reading' = FALSE /\ due' = {} /\ returned' = {}
    /\ prevTransit' = transitNow
    /\ transitNow' = [k \in Keys |-> Zero]
    /\ CopyReset
    /\ UNCHANGED <<mapVars, verdict, paths, copies, sound, quiet>>

(* The tick ends here; a tick without RIB data does not get that far.      *)
ReadFails ==
    /\ reading /\ ~ quiet
    /\ reading' = FALSE /\ due' = {} /\ returned' = {}
    /\ transitNow' = [k \in Keys |-> Zero]
    /\ CopyReset
    /\ UNCHANGED <<mapVars, verdict, daemonVars, quiet>>

----------------------------------------------------------------------------
diff(cur, prev) == IF cur < prev THEN 0 ELSE cur - prev

(* The EMA is fed with the window's rate while there is traffic in it, and *)
(* holds its value otherwise.                                              *)
Smoothed(p, segs, rets) ==
    IF segs = 0 THEN [ema |-> p.ema, known |-> p.known]
    ELSE LET instant == (rets * Unit) \div segs
         IN  [ema |-> IF p.known THEN (Alpha * instant + (Den - Alpha) * p.ema) \div Den ELSE instant,
              known |-> TRUE]

(* Mutation: the oldest retransmits stay in the sum.                       *)
UpdatedRetKept(p, seg, ret) ==
    LET old == IF p.len = Cap THEN p.window[p.pos] ELSE NoSample
        segs == p.sumSeg - old.seg + seg
        rets == p.sumRet + ret
        smoothed == Smoothed(p, segs, rets)
    IN  [window |-> [p.window EXCEPT ![p.pos] = [seg |-> seg, ret |-> ret]],
         pos    |-> (p.pos + 1) % Cap,
         len    |-> IF p.len = Cap THEN Cap ELSE p.len + 1,
         sumSeg |-> segs, sumRet |-> rets,
         ema    |-> smoothed.ema, known |-> smoothed.known]

(* EMAStore.Update for one path: the oldest sample makes room.             *)
Updated(p, seg, ret) ==
    LET old == IF p.len = Cap THEN p.window[p.pos] ELSE NoSample
        segs == p.sumSeg - old.seg + seg
        rets == p.sumRet - old.ret + ret
        smoothed == Smoothed(p, segs, rets)
    IN  [window |-> [p.window EXCEPT ![p.pos] = [seg |-> seg, ret |-> ret]],
         pos    |-> (p.pos + 1) % Cap,
         len    |-> IF p.len = Cap THEN Cap ELSE p.len + 1,
         sumSeg |-> segs, sumRet |-> rets,
         ema    |-> smoothed.ema, known |-> smoothed.known]

Whole(c) == ~ c[1].torn /\ ~ c[Len(c)].torn

Recent(s) == IF Len(s) > Cap + 1 THEN Tail(s) ELSE s

(* Mutation: a key without traffic is not visited.                         *)
UpdateMoved ==
    /\ reading /\ at = None /\ due = {}
    /\ paths' = [k \in Keys |->
         IF k \in returned /\ Segs(transitNow[k]) # Segs(prevTransit[k])
         THEN Updated(paths[k], diff(Segs(transitNow[k]), Segs(prevTransit[k])),
                                diff(Rets(transitNow[k]), Rets(prevTransit[k])))
         ELSE paths[k]]
    /\ prevTransit' = transitNow
    /\ copies' = [k \in Keys |->
         IF k \in returned THEN Recent(Append(copies[k], transitNow[k])) ELSE copies[k]]
    /\ sound' = [k \in Keys |-> sound[k] /\ Whole(copies'[k])]
    /\ reading' = FALSE /\ returned' = {}
    /\ transitNow' = [k \in Keys |-> Zero]
    /\ UNCHANGED <<mapVars, verdict, due, copyVars, quiet>>

(* The iteration is complete.                                              *)
Update ==
    /\ reading /\ at = None /\ due = {}
    /\ paths' = [k \in Keys |->
         IF k \in returned
         THEN Updated(paths[k], diff(Segs(transitNow[k]), Segs(prevTransit[k])),
                                diff(Rets(transitNow[k]), Rets(prevTransit[k])))
         ELSE paths[k]]
    /\ prevTransit' = transitNow
    /\ copies' = [k \in Keys |->
         IF k \in returned THEN Recent(Append(copies[k], transitNow[k])) ELSE copies[k]]
    /\ sound' = [k \in Keys |-> sound[k] /\ Whole(copies'[k])]
    /\ reading' = FALSE /\ returned' = {}
    /\ transitNow' = [k \in Keys |-> Zero]
    /\ UNCHANGED <<mapVars, verdict, due, copyVars, quiet>>

Settle ==
    /\ ~ quiet
    /\ quiet' = TRUE
    /\ UNCHANGED <<mapVars, verdict, readVars, daemonVars>>

DaemonStep ==
    \/ StartRead
    \/ \E k \in Keys : NextKey(k)
    \/ CopySegments
    \/ CopyRetransmits
    \/ KeyCopied
    \/ Update

Next ==
    \/ \E c \in Cpus, k \in Keys : Segment(c, k)
    \/ \E c \in Cpus, again \in BOOLEAN : Verdict(c, again)
    \/ DaemonStep
    \/ ReadFails
    \/ Settle

Spec == Init /\ [][Next]_vars

FairSpec == Spec /\ WF_vars(DaemonStep)
----------------------------------------------------------------------------
(* The ring and its running sums forget and repeat nothing: whatever reads *)
(* failed in between, and whenever the counters were copied, the sums are  *)
(* the difference between two copies of the counters, the last one and the *)
(* one Cap updates before it.                                              *)
WindowIsADifference ==
    \A k \in Keys : LET c == copies[k] IN
        /\ paths[k].sumSeg = Segs(c[Len(c)]) - Segs(c[1])
        /\ paths[k].sumRet = Rets(c[Len(c)]) - Rets(c[1])

(* A loss rate is at most 1, of the window and of the EMA, as long as no   *)
(* copy at an end of the window fell between a segment and its retransmit. *)
LossIsARate ==
    \A k \in Keys :
        /\ Whole(copies[k]) => paths[k].sumRet <= paths[k].sumSeg
        /\ sound[k] => paths[k].ema <= Unit

(* When traffic stops, the segments that give a neighbor its confidence    *)
(* leave the window for good, although its EMA is held.                    *)
EvidenceExpires == quiet ~> [](\A k \in Keys : paths[k].sumSeg = 0)
=============================================================================

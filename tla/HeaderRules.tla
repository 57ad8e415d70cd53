----------------------------- MODULE HeaderRules -----------------------------
(***************************************************************************)
(* The rules for block headers: compact targets, the difficulty of         *)
(* DarkGravityWaveV3, median time past, work (consensus/target.go and      *)
(* blockchain.go), the chainwork a node keeps across restarts, and the     *)
(* check of announced headers, which reads the chain, lets the lock go     *)
(* while it hashes, and has its own copy of every rule.                    *)
(*                                                                         *)
(* The numbers are the code's with a byte of Byte values in place of 256,  *)
(* so that a target has Bytes digits, and shorter windows and times.  A    *)
(* header is its time and its bits; proof of work is found for any target  *)
(* that is one.                                                            *)
(***************************************************************************)
EXTENDS Integers, FiniteSets, FiniteSetsExt, SequencesExt

CONSTANTS
    Byte, Bytes,    \* digits: 256 and 32 in the code
    Window,         \* DGWv3PastBlocks
    MedianWindow,   \* mtpWindow
    Spacing, Drift, \* TargetSpacing, MaxFutureDrift
    GenesisBits, PostGenesisBits,
    MaxTime, MaxLength, MaxBatch, \* bounds of the model
    Older           \* blocks written by a version that kept no chainwork

ASSUME HeaderAssumption ==
    /\ {Byte, Bytes, Window, MedianWindow, Spacing} \subseteq Nat \ {0}
    /\ {Drift, MaxTime, MaxLength, MaxBatch, Older} \subseteq Nat
    /\ Byte % 2 = 0 /\ Bytes > 3 /\ MedianWindow <= Window

VARIABLES
    hdrs,   \* the active chain: [time, bits, saved], saved the chainwork on disk or -1
    works,  \* workByHash for its blocks
    now,    \* the clock
    batch   \* an announced batch: [phase, on, headers]

hdrvars == <<hdrs, works, now, batch>>

PowLimit == Byte^Bytes \div 2 - 1
NoBatch == [phase |-> "none", on |-> <<>>, headers |-> <<>>]
-----------------------------------------------------------------------------
(* Compact targets: a size and a word of three digits whose top bit is the sign. *)

SignBit == Byte^3 \div 2
Digits(n) == Min({k \in 0 .. Bytes + 1 : n < Byte^k})

CompactToBig(c) ==
    LET size == c \div Byte^3
        word == c % SignBit
        big == IF size <= 3 THEN word \div Byte^(3 - size) ELSE word * Byte^(size - 3)
    IN  IF c % Byte^3 >= SignBit THEN -big ELSE big

(* Mutant: the top digit is taken for a sign. *)
BigToCompactSigned(n) ==
    LET size == Digits(n)
    IN  IF n = 0 THEN 0
        ELSE size * Byte^3 + (IF size <= 3 THEN n * Byte^(3 - size) ELSE n \div Byte^(size - 3))

(* For a target, which is never negative. *)
BigToCompact(n) ==
    LET size == Digits(n)
        word == IF size <= 3 THEN n * Byte^(3 - size) ELSE n \div Byte^(size - 3)
    IN  IF n = 0 THEN 0
        ELSE IF word >= SignBit THEN (size + 1) * Byte^3 + word \div Byte
        ELSE size * Byte^3 + word

ValidTarget(bits) == CompactToBig(bits) \in 1 .. PowLimit

WorkForBits(bits) ==
    IF ValidTarget(bits) THEN Byte^Bytes \div (CompactToBig(bits) + 1) ELSE 0
-----------------------------------------------------------------------------
(* Difficulty and time, from a window of entries, the newest first *)

Clamped(bits) == IF ValidTarget(bits) THEN CompactToBig(bits) ELSE PowLimit

(* The running average: each step divides what is left over by the count. *)
Average(recent) ==
    LET avg[i \in 1 .. Window] ==
            IF i = 1 THEN Clamped(recent[1].bits)
            ELSE avg[i - 1] + (Clamped(recent[i].bits) - avg[i - 1]) \div i
    IN  avg[Window]

Timespan == Window * Spacing

(* Mutant: an interval that is too long is not cut off. *)
AdjustedUnclamped(actual) == Max({Timespan \div 3, actual})
Adjusted(actual) == Max({Timespan \div 3, Min({actual, Timespan * 3})})

DarkGravityWaveV3(recent) ==
    LET next == (Average(recent) * Adjusted(recent[1].time - recent[Window].time)) \div Timespan
    IN  BigToCompact(Min({next, PowLimit}))

requiredBitsFromRecent(recent) ==
    CASE recent = <<>> -> GenesisBits
      [] Len(recent) \in 1 .. Window - 1 -> PostGenesisBits
      [] Len(recent) >= Window -> DarkGravityWaveV3(recent)

(* The upper middle one of the times at these places. *)
UpperMedian(list, places) ==
    LET rank(v) == Cardinality({i \in places : list[i].time < v})
        upto(v) == Cardinality({i \in places : list[i].time <= v})
        half == Cardinality(places) \div 2
    IN  CHOOSE v \in {list[i].time : i \in places} : rank(v) <= half /\ half < upto(v)

medianTimeFromRecent(recent) ==
    IF recent = <<>> THEN 0 ELSE UpperMedian(recent, 1 .. Min({Len(recent), MedianWindow}))

prependRecentEntry(recent, h) == SubSeq(<<h>> \o recent, 1, Min({Len(recent) + 1, Window}))
-----------------------------------------------------------------------------
(* The rules as a block that extends the chain meets them *)

recentEntries(chain) ==
    Reverse(SubSeq(chain, Max({1, Len(chain) - Window + 1}), Len(chain)))

medianTimePast(chain) == UpperMedian(chain, Max({1, Len(chain) - MedianWindow + 1}) .. Len(chain))

requiredBits(chain) == requiredBitsFromRecent(recentEntries(chain))

(* Mutant: a block need not be later than the median. *)
AnyEarlierTime(chain, time) == time <= now + Drift
TimeAllowed(chain, time) == time > medianTimePast(chain) /\ time <= now + Drift

HeaderAllowed(chain, h) ==
    /\ TimeAllowed(chain, h.time)
    /\ h.bits = requiredBits(chain)
    /\ ValidTarget(h.bits)

(* And as ValidateHeaderSequence meets them. *)
BatchAllowed(chain, headers) ==
    LET recent[i \in 0 .. Len(headers)] ==
            IF i = 0 THEN recentEntries(chain) ELSE prependRecentEntry(recent[i - 1], headers[i])
    IN  \A i \in DOMAIN headers :
            /\ headers[i].bits = requiredBitsFromRecent(recent[i - 1])
            /\ headers[i].time > medianTimeFromRecent(recent[i - 1])
            /\ headers[i].time <= now + Drift
            /\ ValidTarget(headers[i].bits)
-----------------------------------------------------------------------------
(* Steps.  Times worth trying lie at the limits the rules draw. *)

Times(chain) == {medianTimePast(chain) - 1, medianTimePast(chain), medianTimePast(chain) + 1,
                 Last(chain).time + Spacing, now + Drift} \cap 0 .. MaxTime

Tick ==
    /\ now + Drift < MaxTime
    /\ now' = now + Drift
    /\ UNCHANGED <<hdrs, works, batch>>

Entry(time, bits, saved) == [time |-> time, bits |-> bits, saved |-> saved]

ConnectHeader ==
    /\ Len(hdrs) < MaxLength
    /\ \E time \in Times(hdrs) :
          LET bits == requiredBits(hdrs)
              work == Last(works) + WorkForBits(bits)
          IN  /\ HeaderAllowed(hdrs, Entry(time, bits, 0))
              /\ hdrs' = Append(hdrs, Entry(time, bits, IF Len(hdrs) < Older THEN -1 ELSE work))
              /\ works' = Append(works, work)
    /\ UNCHANGED <<now, batch>>

DisconnectHeader ==
    /\ Len(hdrs) > 1
    /\ hdrs' = Front(hdrs) /\ works' = Front(works)
    /\ UNCHANGED <<now, batch>>

(* Mutant: the work of a block is taken for that of its chain. *)
RebuiltFromZero(chain) ==
    [i \in DOMAIN chain |-> IF chain[i].saved >= 0 THEN chain[i].saved ELSE WorkForBits(chain[i].bits)]

(* rebuildActiveChainworkLocked: what was saved counts, the rest is added up. *)
Rebuilt(chain) ==
    LET running[i \in 0 .. Len(chain)] ==
            IF i = 0 THEN 0
            ELSE IF chain[i].saved >= 0 THEN chain[i].saved
            ELSE running[i - 1] + WorkForBits(chain[i].bits)
    IN  [i \in DOMAIN chain |-> running[i]]

RestartHeaders ==
    /\ works' = Rebuilt(hdrs)
    /\ batch' = NoBatch
    /\ UNCHANGED <<hdrs, now>>

(* The active chain with the headers of a batch, which may break a rule. *)
Grown(t1, wrong) ==
    LET grown[i \in 0 .. MaxBatch] ==
            IF i = 0 THEN hdrs
            ELSE LET c == grown[i - 1]
                     t == IF i = 1 THEN t1 ELSE medianTimePast(c) + (IF wrong THEN 0 ELSE 1)
                 IN  Append(c, Entry(t, IF wrong /\ i = MaxBatch THEN GenesisBits ELSE requiredBits(c), 0))
    IN  grown

(* A peer's headers are looked at under the lock, hashed without it. *)
BatchBegins ==
    /\ batch.phase = "none"
    /\ \E t1 \in Times(hdrs) : \E wrong \in BOOLEAN :
          LET headers == SubSeq(Grown(t1, wrong)[MaxBatch], Len(hdrs) + 1, Len(hdrs) + MaxBatch)
          IN  /\ BatchAllowed(hdrs, headers)
              /\ batch' = [phase |-> "hashed", on |-> hdrs, headers |-> headers]
    /\ UNCHANGED <<hdrs, works, now>>

(* The verdict stands only if the tip has not moved. *)
BatchEndsAnyway ==
    /\ batch.phase = "hashed"
    /\ batch' = [batch EXCEPT !.phase = "valid", !.on = hdrs]
    /\ UNCHANGED <<hdrs, works, now>>
BatchEnds ==
    /\ batch.phase = "hashed"
    /\ batch' = IF batch.on = hdrs THEN [batch EXCEPT !.phase = "valid"] ELSE NoBatch
    /\ UNCHANGED <<hdrs, works, now>>

(* The bodies arrive, or are given up. *)
BatchUsed == batch.phase = "valid" /\ batch' = NoBatch /\ UNCHANGED <<hdrs, works, now>>

HeaderInit ==
    /\ LET w == WorkForBits(GenesisBits)
       IN  hdrs = <<Entry(0, GenesisBits, IF Older > 0 THEN -1 ELSE w)>> /\ works = <<w>>
    /\ now = 1 /\ batch = NoBatch

HeaderNext ==
    \/ Tick \/ ConnectHeader \/ DisconnectHeader \/ RestartHeaders
    \/ BatchBegins \/ BatchEnds \/ BatchUsed

HeaderSpec == HeaderInit /\ [][HeaderNext]_hdrvars
-----------------------------------------------------------------------------
(* Properties *)

(* A compact target is the greatest number of three digits, without a sign, that is *)
(* not above the target, so a target never gets easier by being written down        *)
(* (BigToCompact against the numbers CompactToBig can yield).                        *)
CompactRoundsDown ==
    LET written == {w * Byte^k : w \in 0 .. SignBit - 1, k \in 0 .. Bytes - 3}
    IN  Len(hdrs) = 1 /\ now = 1 => \A n \in 0 .. PowLimit :
            CompactToBig(BigToCompact(n)) = Max({m \in written : m <= n})

(* The next target stays within three times the easiest and a third of the hardest   *)
(* target of the window, and is a target that CheckProofOfWork accepts: no sequence   *)
(* of timestamps makes the chain stop (DarkGravityWaveV3; for targets of at least 3). *)
TargetFollowsWindow ==
    Len(hdrs) >= Window =>
        LET targets == {CompactToBig(b.bits) : b \in ToSet(recentEntries(hdrs))}
            next == CompactToBig(requiredBits(hdrs))
        IN  /\ next <= Min({PowLimit, 3 * Max(targets)})
            /\ next >= CompactToBig(BigToCompact(Min(targets) \div 3))
            /\ Min(targets) >= 3 => next \in 1 .. PowLimit

(* Whatever times miners choose, the median that transactions' lock times and the     *)
(* next block are held to does not fall as the chain grows (medianTimePastLocked).    *)
MedianNeverFalls ==
    \A n \in 1 .. Len(hdrs) - 1 :
        medianTimePast(SubSeq(hdrs, 1, n + 1)) >= medianTimePast(SubSeq(hdrs, 1, n))

(* Headers that were found valid, on a tip that is still the tip, would connect one   *)
(* after the other: the rolling copy of the rules agrees with the chain's             *)
(* (ValidateHeaderSequence, validateActiveBlockLocked).                               *)
HeadersWouldConnect ==
    batch.phase = "valid" /\ batch.on = hdrs =>
        \A i \in DOMAIN batch.headers :
            HeaderAllowed(hdrs \o SubSeq(batch.headers, 1, i - 1), batch.headers[i])

(* The chainwork that decides between branches is the sum of the work of all blocks,  *)
(* also after restarts on a chain part of which was written without it.               *)
WorkOf(chain) == [i \in DOMAIN chain |-> WorkForBits(chain[i].bits)]
ChainworkExact ==
    DOMAIN works = DOMAIN hdrs /\ \A i \in DOMAIN works : works[i] = MapThenSumSet(LAMBDA j : WorkOf(hdrs)[j], 1 .. i)

(* Headers accepted one by one, in batches and as blocks obey one set of rules: the    *)
(* median time does not fall, a batch found valid would connect, and the chainwork is  *)
(* exact.                                                                              *)
HeaderRulesHold == MedianNeverFalls /\ HeadersWouldConnect /\ ChainworkExact
=============================================================================

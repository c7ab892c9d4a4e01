----------------------------- MODULE Resampling -----------------------------
(***************************************************************************)
(* resample_candles: the candles of a higher timeframe, made of groups of  *)
(* Multiple candles each.  Time is counted in base candles, so a candle is *)
(* as long as 1 and a group as Multiple; all candles are confirmed.        *)
(* Turnover is summed as volume is and left out.                           *)
(***************************************************************************)
EXTENDS Integers, Sequences, FiniteSets, FiniteSetsExt, Functions

CONSTANT Multiple      \* candles of a group

ASSUME MultipleAssumption == Multiple \in Nat /\ Multiple > 1

Aligned(start) == start % Multiple = 0

\* Mutant: groups are counted from the first candle there is.
FromFirst(candles) == candles

\* From the first candle that starts a group.
FromFirstAligned(candles) ==
  LET starts == {i \in DOMAIN candles : Aligned(candles[i].start)}
  IN  IF starts = {} THEN <<>> ELSE SubSeq(candles, Min(starts), Len(candles))

\* Mutant: a group that is not complete is handed on too.
GroupsAndRest(candles) == (Len(candles) + Multiple - 1) \div Multiple

\* The number of complete groups.
Groups(candles) == Len(candles) \div Multiple

Group(candles, n) ==
  LET first == (n - 1) * Multiple + 1
      after == first + Multiple - 1
  IN  SubSeq(candles, first, IF after < Len(candles) THEN after ELSE Len(candles))

HasGap(group) ==
  \E i \in 2..Len(group) : group[i].start - group[i - 1].start # 1

Merged(group) ==
  [start |-> group[1].start, open |-> group[1].open,
   close |-> group[Len(group)].close,
   high |-> Max({group[i].high : i \in DOMAIN group}),
   low |-> Min({group[i].low : i \in DOMAIN group}),
   volume |-> FoldFunction(LAMBDA x, y : x + y, 0, [i \in DOMAIN group |-> group[i].volume])]

\* A gap within a group raises.
Resamples(candles) ==
  LET aligned == FromFirstAligned(candles)
  IN  \A n \in 1..Groups(aligned) : ~HasGap(Group(aligned, n))

Resampled(candles) ==
  LET aligned == FromFirstAligned(candles)
  IN  [n \in 1..Groups(aligned) |-> Merged(Group(aligned, n))]
=============================================================================

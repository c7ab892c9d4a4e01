--------------------------- MODULE KlinePagination ---------------------------
(***************************************************************************)
(* BybitRestClient.fetch_candles: pages of klines are fetched backwards    *)
(* from the end of the requested range until one reaches its start, then   *)
(* what was kept is validated as a whole.                                  *)
(*                                                                         *)
(* Time is in units of which a candle takes Interval; a candle is named by *)
(* its start, a multiple of Interval.  The exchange is external.  An       *)
(* honest one answers with the newest candles that start in the asked      *)
(* range, and may add the candle the range starts in; another may answer   *)
(* with any rows at all.                                                   *)
(***************************************************************************)
EXTENDS Integers, FiniteSets, FiniteSetsExt

CONSTANTS
  Interval,     \* length of a candle
  Horizon,      \* candles the exchange may have: they start before Horizon
  PageSize      \* rows of a page

ASSUME PaginationAssumption ==
  /\ Interval \in Nat \ {0}
  /\ Horizon \in Nat \ {0}
  /\ PageSize \in Nat \ {0}

VARIABLES
  startMs, endMs,   \* the requested range
  serverTime,       \* the exchange's clock, read once before the first page
  listed,           \* the candles the exchange has (external)
  honest,           \* whether it answers what it is asked (external)
  cursorEnd,        \* cursor_end
  byStart,          \* by_start: the candles kept
  outcome           \* fetching, error, or the result is in byStart: ok

request == <<startMs, endMs, serverTime, listed, honest>>
vars == <<startMs, endMs, serverTime, listed, honest, cursorEnd, byStart, outcome>>

Starts == {t \in 0..(Horizon - 1) : t % Interval = 0}

TypeOK ==
  /\ startMs \in 0..Horizon /\ endMs \in 0..Horizon
  /\ serverTime \in 0..Horizon
  /\ listed \subseteq Starts /\ honest \in BOOLEAN
  /\ cursorEnd \in (startMs - 1)..(endMs - 1)
  /\ byStart \subseteq Starts
  /\ outcome \in {"fetching", "ok", "error"}

Init ==
  /\ startMs \in 0..Horizon /\ endMs \in 0..Horizon /\ startMs < endMs
  /\ serverTime \in 0..Horizon
  /\ listed \in SUBSET {t \in Starts : t <= serverTime}
  /\ honest \in BOOLEAN
  /\ cursorEnd = endMs - 1
  /\ byStart = {}
  /\ outcome = "fetching"

-----------------------------------------------------------------------------
(* The exchange                                                            *)

Newest(rows) ==
  {t \in rows : Cardinality({u \in rows : u > t}) < PageSize}

StartsIn(from, to) == {t \in listed : from <= t /\ t <= to}

\* The candle that covers a moment, if it is listed.
Covering(moment) == {t \in listed : t <= moment /\ moment < t + Interval}

HonestPages ==
  {Newest(StartsIn(startMs, cursorEnd)),
   Newest(StartsIn(startMs, cursorEnd) \union Covering(startMs))}

AnyPages == {rows \in SUBSET Starts : Cardinality(rows) <= PageSize}

Pages == IF honest THEN HonestPages ELSE AnyPages

-----------------------------------------------------------------------------
(* The client                                                              *)

\* Mutant: a candle is confirmed as soon as it is served.
ConfirmedAtOnce(t) == t <= serverTime

Confirmed(t) == t + Interval - 1 < serverTime

Kept(rows) == {t \in rows : startMs <= t /\ t < endMs /\ Confirmed(t)}

\* Mutant: the whole candle before the cursor is skipped.
SkippingNextEnd(rows) == Min(rows) - 1 - Interval

NextEnd(rows) == Min(rows) - 1

\* Mutant: a page that makes no progress is fetched again.
AlwaysProgress(rows) == TRUE

MakesProgress(rows) == NextEnd(rows) < cursorEnd

\* Mutant: a page that reaches the start is not the last one.
NeverReaches(rows) == FALSE

ReachesStart(rows) == Min(rows) <= startMs

\* A page that leaves the range still to be fetched.
FetchPage ==
  /\ outcome = "fetching"
  /\ cursorEnd >= startMs
  /\ \E rows \in Pages \ {{}} :
       /\ ~ReachesStart(rows)
       /\ byStart' = byStart \union Kept(rows)
       /\ IF MakesProgress(rows)
          THEN cursorEnd' = NextEnd(rows) /\ UNCHANGED outcome
          ELSE outcome' = "error" /\ UNCHANGED cursorEnd
  /\ UNCHANGED request

\* Mutant: the candles are not checked for gaps.
AcceptsGaps(candles) == candles # {}

\* validate_candles: not empty, and no gap.
Valid(candles) ==
  /\ candles # {}
  /\ \A t \in candles : t # Max(candles) => t + Interval \in candles

\* An empty page, one that reaches the start of the range, or a cursor that
\* has passed it, end the fetching; the result is validated.
LastPage ==
  /\ outcome = "fetching"
  /\ \/ cursorEnd < startMs /\ UNCHANGED byStart
     \/ /\ cursorEnd >= startMs
        /\ \E rows \in Pages :
             /\ rows # {} => ReachesStart(rows)
             /\ byStart' = byStart \union Kept(rows)
  /\ outcome' = IF Valid(byStart') THEN "ok" ELSE "error"
  /\ UNCHANGED <<request, cursorEnd>>

\* The transport or a malformed answer raises.
CallFails ==
  /\ outcome = "fetching"
  /\ cursorEnd >= startMs
  /\ outcome' = "error"
  /\ UNCHANGED <<request, cursorEnd, byStart>>

Next == FetchPage \/ LastPage \/ CallFails

Spec == Init /\ [][Next]_vars

-----------------------------------------------------------------------------
(* Properties                                                              *)

\* What is returned is contiguous, in range and confirmed by the exchange's
\* clock, whatever the exchange answers: a caller may hand it to a strategy
\* without looking at it again.
ResultUsable ==
  outcome = "ok" =>
    /\ byStart # {}
    /\ \A t \in byStart :
         startMs <= t /\ t < endMs /\ t + Interval - 1 < serverTime
    /\ Cardinality(byStart) = 1 + (Max(byStart) - Min(byStart)) \div Interval

\* From an honest exchange nothing is missed at the seams of the pages, and
\* no page is fetched that the range did not call for.
ResultComplete ==
  honest /\ outcome = "ok" =>
    byStart = {t \in listed : startMs <= t /\ t < endMs /\ t + Interval - 1 < serverTime}

\* A range the exchange has whole is returned: the only failures left are
\* those of the calls.
NoFalseAlarm ==
  [][honest /\ outcome' = "error" /\ ~CallFails =>
       ~Valid({t \in listed : startMs <= t /\ t < endMs /\ Confirmed(t)})]_vars
=============================================================================

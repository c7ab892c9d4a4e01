----------------------------- MODULE PaperRunner -----------------------------
(***************************************************************************)
(* The paper-trading process: the command line program that restores the   *)
(* broker from disk, replays the candles it missed, subscribes to the      *)
(* stream of confirmed candles and stops on a signal or on the first       *)
(* exception; the handler the stream's thread runs for each candle; and    *)
(* the three files that outlive the process (state.json, HALT and the      *)
(* audit log).                                                             *)
(*                                                                         *)
(* The handler is cut where it writes to disk, the only points where a     *)
(* crash can tell two of its steps apart.  Two cuts are left out: the log  *)
(* line after a HALT file is written goes with it, and the log line on the *)
(* strategy's answer goes with the save that follows.                      *)
(***************************************************************************)
EXTENDS PaperBroker, Sequences, FiniteSets

CONSTANTS
  Window,        \* closed candles one REST fetch returns
  MinHistory,    \* the strategy's minimum_history
  ReliableFeed,  \* whether the stream delivers once, in order and without loss
  MaxCandles,    \* bound on the candles that close
  MaxCrashes     \* bound on the crashes

\* The command line refuses a window below the strategy's minimum.
ASSUME WindowAssumption ==
  /\ MinHistory \in Nat \ {0}
  /\ Window \in Nat /\ Window >= MinHistory

ASSUME BoundsAssumption ==
  /\ ReliableFeed \in BOOLEAN
  /\ MaxCandles \in Nat
  /\ MaxCrashes \in Nat

Reasons == {"daily_loss", "callback_failed"}

\* None is neither a saved state, nor a signal, nor a reason to halt.
ASSUME NoStateAssumption ==
  /\ None \notin [broker : Brokers, last : Nat]
  /\ None \notin [side : Sides, atr : Atrs, at : Nat]
  /\ None \notin Reasons

VARIABLES
  market,    \* the candles closed so far
  feed,      \* candles the stream has sent and may still deliver
  saved,     \* state.json: [broker, last], or None when there is no file
  halt,      \* the reason in the HALT file, or None when there is no file
  audit,     \* the audit log, as the set of its events
  phase,     \* where the main thread is
  missed,    \* the fetched candles still to replay
  broker,    \* the PaperBroker
  pending,   \* pending_signal
  last,      \* last_processed_ms
  history,   \* candles in the runner's history, counted up to MinHistory
  step,      \* how far the handler of candle cur is
  cur,       \* the candle being handled, 0 when none is
  cleared,   \* the last exit the operator has reviewed (not in the code)
  crashes    \* crashes so far (not in the code)

disk == <<saved, halt, audit>>
memory == <<broker, pending, last, history>>
world == <<market, feed, cleared, crashes>>
vars == <<market, feed, saved, halt, audit, phase, missed, broker, pending,
          last, history, step, cur, cleared, crashes>>

Events == {"opened", "closed", "rejected", "halted", "failed"}

\* Mutant: the log file is opened for writing, not for appending.
Overwrite(event, k) == {[event |-> event, at |-> k]}

Record(event, k) == audit \union {[event |-> event, at |-> k]}

Now == Len(market)

\* The candles of a fetch made now: the last Window closed ones, of which
\* some may have closed before the model starts.
Fetched == {k \in 1..Now : k > Now - Window}

\* Mutant: the history is not bounded on either side.
HistoryUnbounded(k) == Window - (Now - k)

HistoryUpTo(k) == Least(MinHistory, Greatest(0, Window - (Now - k)))

\* The broker of the last save, or a new one.
Durable == IF saved = None THEN NewBroker ELSE saved.broker

-----------------------------------------------------------------------------

TypeOK ==
  /\ market \in Seq(Candles)
  /\ feed \subseteq 1..Now
  /\ \/ saved = None
     \/ saved \in [broker : Brokers, last : 1..Now]
  /\ halt \in Reasons \union {None}
  /\ audit \subseteq [event : Events, at : 1..Now]
  /\ phase \in {"down", "replay", "live", "stopping"}
  /\ missed \subseteq 1..Now
  /\ broker \in Brokers
  /\ \/ pending = None
     \/ pending \in [side : Sides, atr : Atrs, at : 0..Now]
  /\ last \in 0..Now
  /\ history \in 0..MinHistory
  /\ step \in {"idle", "entered", "closed", "settled"}
  /\ cur \in 0..Now
  /\ cleared \in Nat
  /\ crashes \in 0..MaxCrashes

Init ==
  /\ market = <<>> /\ feed = {}
  /\ saved = None /\ halt = None /\ audit = {}
  /\ phase = "down" /\ missed = {}
  /\ broker = NewBroker /\ pending = None /\ last = 0 /\ history = 0
  /\ step = "idle" /\ cur = 0
  /\ cleared = 0 /\ crashes = 0

-----------------------------------------------------------------------------
(* The market and the stream, which only carries what closes while the     *)
(* program is subscribed.                                                  *)

CloseCandle ==
  /\ Now < MaxCandles
  /\ \E candle \in Candles : market' = Append(market, candle)
  /\ feed' = IF phase \in {"live", "stopping"} THEN feed \union {Now + 1} ELSE feed
  /\ UNCHANGED <<disk, phase, missed, memory, step, cur, cleared, crashes>>

Lose(k) ==
  /\ ~ReliableFeed
  /\ k \in feed
  /\ feed' = feed \ {k}
  /\ UNCHANGED <<market, disk, phase, missed, memory, step, cur, cleared, crashes>>

-----------------------------------------------------------------------------
(* The main thread                                                         *)

\* A first start seeds the history with everything fetched and handles none.
StartFresh ==
  /\ phase = "down"
  /\ saved = None
  /\ phase' = "replay"
  /\ missed' = {}
  /\ last' = Now
  /\ history' = HistoryUpTo(Now)
  /\ UNCHANGED <<world, disk, broker, pending, step, cur>>

\* Mutant: a start is refused while the kill switch is engaged.
MayResumeUnhalted == saved # None /\ Restorable(saved.broker) /\ halt = None

MayResume == saved # None /\ Restorable(saved.broker)

Resume ==
  /\ phase = "down"
  /\ MayResume
  /\ phase' = "replay"
  /\ missed' = {k \in Fetched : k > saved.last}
  /\ broker' = Restored(saved.broker)
  /\ last' = saved.last
  /\ history' = HistoryUpTo(saved.last)
  /\ UNCHANGED <<world, disk, pending, step, cur>>

Subscribe ==
  /\ phase = "replay"
  /\ missed = {}
  /\ step = "idle"
  /\ phase' = "live"
  /\ UNCHANGED <<world, disk, missed, memory, step, cur>>

\* SIGINT or SIGTERM
StopSignal ==
  /\ phase = "live"
  /\ phase' = "stopping"
  /\ UNCHANGED <<world, disk, missed, memory, step, cur>>

\* What the end of the process leaves: the disk.
GoesDown ==
  /\ phase' = "down"
  /\ missed' = {} /\ feed' = {}
  /\ broker' = NewBroker /\ pending' = None /\ last' = 0 /\ history' = 0
  /\ step' = "idle" /\ cur' = 0

\* The main thread returns; the stream's daemon thread dies wherever it is.
Finish ==
  /\ phase = "stopping"
  /\ GoesDown
  /\ UNCHANGED <<market, disk, cleared, crashes>>

Crash ==
  /\ phase \in {"replay", "live"}
  /\ crashes < MaxCrashes
  /\ crashes' = crashes + 1
  /\ GoesDown
  /\ UNCHANGED <<market, disk, cleared>>

-----------------------------------------------------------------------------
(* The handler of one candle                                               *)

\* The replay hands the missed candles over in order; the stream delivers
\* what it sent, any number of times and in any order unless it is reliable.
Receives(k) ==
  /\ step = "idle"
  /\ \/ /\ phase = "replay"
        /\ k \in missed /\ \A other \in missed : k <= other
        /\ missed' = missed \ {k}
        /\ UNCHANGED feed
     \/ /\ phase \in {"live", "stopping"}
        /\ k \in feed
        /\ ReliableFeed => \A other \in feed : k <= other
        /\ feed' = IF ReliableFeed THEN feed \ {k} ELSE feed
        /\ UNCHANGED missed

\* Mutant: only older candles are refused, not the last one.
FreshOrLast(k) == k >= last

Fresh(k) == k > last

\* A candle received again at once is ignored.
Ignore(k) ==
  /\ Receives(k)
  /\ k = last
  /\ UNCHANGED <<market, disk, phase, memory, step, cur, cleared, crashes>>

\* No queued signal, or a position already open.
PassEntry(k) ==
  /\ Receives(k)
  /\ Fresh(k)
  /\ ~Wanted(broker, pending)
  /\ step' = "entered" /\ cur' = k
  /\ UNCHANGED <<market, disk, phase, memory, cleared, crashes>>

RefuseEntry(k) ==
  /\ Receives(k)
  /\ Fresh(k)
  /\ Wanted(broker, pending)
  /\ ~RiskApproves(broker, pending, market[k])
  /\ pending' = None
  /\ audit' = Record("rejected", k)
  /\ step' = "entered" /\ cur' = k
  /\ UNCHANGED <<market, saved, halt, phase, broker, last, history, cleared, crashes>>

\* Mutant: submit does not ask the kill switch.
AcceptsHalted(k) == ValidIntent(IntentOf(broker, pending, market[k]))

\* submit raises before it changes anything when trading is halted or the
\* intent is not valid.
Accepts(k) ==
  /\ halt = None
  /\ ValidIntent(IntentOf(broker, pending, market[k]))

Enter(k) ==
  /\ Receives(k)
  /\ Fresh(k)
  /\ Wanted(broker, pending)
  /\ RiskApproves(broker, pending, market[k])
  /\ Accepts(k)
  /\ broker' = Opened(broker, IntentOf(broker, pending, market[k]), k)
  /\ pending' = None
  /\ audit' = Record("opened", k)
  /\ step' = "entered" /\ cur' = k
  /\ UNCHANGED <<market, saved, halt, phase, last, history, cleared, crashes>>

\* The handling of candle k raises: it is out of order, or submit refuses.
Raises(k) ==
  \/ k < last
  \/ /\ Fresh(k)
     /\ Wanted(broker, pending)
     /\ RiskApproves(broker, pending, market[k])
     /\ ~Accepts(k)

\* handle_candle engages the kill switch, whatever it says already, and
\* wakes the main thread.
Fail(k) ==
  /\ Receives(k)
  /\ phase # "replay"
  /\ Raises(k)
  /\ halt' = "callback_failed"
  /\ audit' = Record("failed", k)
  /\ phase' = "stopping"
  /\ pending' = IF k < last THEN pending ELSE None
  /\ UNCHANGED <<market, saved, broker, last, history, step, cur, cleared, crashes>>

\* Nothing catches an exception of the replay.
DieInReplay(k) ==
  /\ phase = "replay" /\ step = "idle"
  /\ k \in missed /\ \A other \in missed : k <= other
  /\ Raises(k)
  /\ GoesDown
  /\ UNCHANGED <<market, disk, cleared, crashes>>

\* broker.on_candle, when the position survives the candle
Hold ==
  /\ step = "entered"
  /\ ~Closes(broker, market[cur])
  /\ broker' = Settled(broker, market[cur], cur)
  /\ step' = "settled"
  /\ UNCHANGED <<world, disk, phase, missed, pending, last, history, cur>>

\* broker.on_candle, when the stop or the target is hit
Close ==
  /\ step = "entered"
  /\ Closes(broker, market[cur])
  /\ broker' = Settled(broker, market[cur], cur)
  /\ audit' = Record("closed", cur)
  /\ step' = "closed"
  /\ UNCHANGED <<world, saved, halt, phase, missed, pending, last, history, cur>>

EnforceDailyLoss ==
  /\ step = "closed"
  /\ halt' = IF LossReached(broker) THEN "daily_loss" ELSE halt
  /\ audit' = IF LossReached(broker) THEN Record("halted", cur) ELSE audit
  /\ step' = "settled"
  /\ UNCHANGED <<world, saved, phase, missed, memory, cur>>

\* Mutant: the state is saved before last_processed_ms moves on.
StaleSnapshot(k) == [broker |-> broker, last |-> last]

\* _save_state: the queued signal is not part of it.
Snapshot(k) == [broker |-> broker, last |-> k]

\* The candle joins the history, the strategy is asked if the history is
\* long enough, and the state is saved.
Conclude ==
  /\ step = "settled"
  /\ last' = cur
  /\ history' = Least(MinHistory, history + 1)
  /\ IF history' = MinHistory
     THEN \E signal \in Signals(cur) \union {None} : pending' = signal
     ELSE UNCHANGED pending
  /\ saved' = Snapshot(cur)
  /\ step' = "idle" /\ cur' = 0
  /\ UNCHANGED <<world, halt, audit, phase, missed, broker>>

-----------------------------------------------------------------------------
(* The operator reviews what was enforced so far and removes the HALT file. *)

LastEnforcedExit ==
  IF phase = "down" \/ step = "closed" THEN Durable.trades.last
                                       ELSE broker.trades.last

ReleaseHalt ==
  /\ halt # None
  /\ halt' = None
  /\ cleared' = Greatest(cleared, LastEnforcedExit)
  /\ UNCHANGED <<market, feed, saved, audit, phase, missed, memory, step, cur, crashes>>

-----------------------------------------------------------------------------

Handle(k) ==
  Ignore(k) \/ PassEntry(k) \/ RefuseEntry(k) \/ Enter(k) \/ Fail(k) \/ DieInReplay(k)

Proceed == Hold \/ Close \/ EnforceDailyLoss \/ Conclude

Main == StartFresh \/ Resume \/ Subscribe \/ Finish

Environment ==
  CloseCandle \/ StopSignal \/ Crash \/ ReleaseHalt \/ \E k \in feed : Lose(k)

Next ==
  \/ Main
  \/ Proceed
  \/ \E k \in feed \union missed : Handle(k)
  \/ Environment

Spec == Init /\ [][Next]_vars

-----------------------------------------------------------------------------
(* Safety                                                                  *)

\* A broker's equity is the initial equity, plus what its trades made, minus
\* the entry fee of its open position: on_candle and submit charge each fee
\* once, in memory and on disk, whatever was interrupted and replayed.
Balanced(b) ==
  b.equity = InitialEquity + b.trades.net
               - (IF Flat(b) THEN 0 ELSE b.position.fee)

EquityLedger == Balanced(broker) /\ Balanced(Durable)

\* The trades of a broker follow one another: a position is entered after the
\* last exit, never on the candle that closed it, and on a signal evaluated
\* on the candle handled just before (on_candle's order of entry, exit and
\* evaluation, and its refusal of candles it has seen).
InOrder(b) == ~Flat(b) => b.trades.last < b.position.time

Timeline ==
  /\ InOrder(broker) /\ InOrder(Durable)
  /\ pending # None => pending.at = last
  /\ ~Flat(broker) => broker.position.time <= Greatest(last, cur)

\* A day's loss that reached the limit keeps the kill switch engaged until
\* the operator, who has seen the trade that did it, removes the HALT file:
\* no crash between the trade, the HALT file and the save loses it.
Breached(b) ==
  /\ Flat(b) /\ b.dayStart > 0
  /\ (b.dayStart - b.equity) * Unit >= b.dayStart * DailyLossLimit

BreachStaysHalted ==
  /\ Breached(Durable) /\ halt = None => Durable.trades.last <= cleared
  /\ Breached(broker) /\ halt = None /\ step # "closed"
       => broker.trades.last <= cleared

\* Every entry and every exit the state knows of is in the audit log: the log
\* is written before the state that depends on it (submit, on_candle).
Audited(b) ==
  /\ ~Flat(b) => [event |-> "opened", at |-> b.position.time] \in audit
  /\ b.trades.last > 0 => [event |-> "closed", at |-> b.trades.last] \in audit

AuditCoversState == Audited(broker) /\ Audited(Durable)

\* A position is entered only while the loss of the day it is entered on is
\* below the limit, although the guardrail looks at the broker's last day and
\* the operator may have released the kill switch that day.
EntryWithinDailyLoss ==
  [][step = "idle" /\ step' = "entered" /\ Flat(broker) /\ ~Flat(broker)'
       => (broker'.dayStart - broker.equity) * Unit
            < broker'.dayStart * DailyLossLimit]_vars

\* While the HALT file is there the durable book does not go from flat to a
\* position, not even by a save that a handler under way makes.
HaltFreezesBook ==
  [][halt # None /\ Flat(Durable) => Flat(Durable)']_vars

\* The durable state changes as the candle ledger allows.
LastSaved == IF saved = None THEN 0 ELSE saved.last

Ledger == INSTANCE CandleLedger WITH ledger <- Durable, upto <- LastSaved

LedgerSpec == Ledger!Spec

\* How the program's position relates its memory to the disk: a running
\* process has handled what it saved last, a handler is ahead of it, and a
\* signal is queued only by a handling that has been saved.
Control ==
  /\ phase = "down" => step = "idle" /\ broker = NewBroker /\ pending = None
  /\ phase # "down" /\ saved # None => last = saved.last
  /\ pending # None =>
       saved # None /\ pending \in Signals(last) /\ history = MinHistory
  /\ step # "idle" => last < cur

\* While the process runs and no handler does, memory is what the disk says.
\* In the middle of a handler memory is what the handling of the candle makes
\* of the disk's state, with some signal of the last saved candle.
MemoryFollowsDisk ==
  /\ Control
  /\ phase # "down" /\ step = "idle" => broker = Durable
  /\ step = "entered" =>
       \E signal \in Signals(LastSaved) \union {None} :
          broker = Entered(Durable, signal, market[cur], cur)
  /\ step \in {"closed", "settled"} =>
       \E signal \in Signals(LastSaved) \union {None} :
          broker = Processed(Durable, signal, market[cur], cur)

-----------------------------------------------------------------------------
(* What the documentation says and the code does not do                    *)

\* PaperTradingRunner "consumes each confirmed candle once": the candle
\* handled follows the last one.
NoCandleSkipped ==
  [][step = "settled" /\ last' # last => last' = last + 1]_vars

\* An entry that only the daily loss stands against, the kill switch being
\* released, is refused for the loss of the day it would be made on.
RefusalIsTodays ==
  [][\A k \in 1..Now :
       /\ RefuseEntry(k)
       /\ halt = None
       /\ Admissible(ProposalOf(pending, market[k]), AccountOf(broker))
       /\ DailyLossReached(AccountOf(broker))
       => broker.day = Day(k)]_vars
=============================================================================

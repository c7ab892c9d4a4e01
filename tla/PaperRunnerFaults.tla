--------------------------- MODULE PaperRunnerFaults ---------------------------
(***************************************************************************)
(* The paper-trading process on a disk that may refuse to write: from some *)
(* moment on, and until somebody repairs it, writing to one of the files   *)
(* raises and leaves the file as it was.  In the replay nothing catches    *)
(* the exception.  In the stream handle_candle does: it engages the kill   *)
(* switch, logs the failure and sets stopped, in this order, and its own   *)
(* writes may raise too.  What the handler had changed in memory stays.    *)
(***************************************************************************)
EXTENDS PaperRunner

CONSTANTS
  Faults,       \* the sets of files that may break together
  MaxFaults     \* bound on how often

Files == {"audit", "halt", "state"}

ASSUME FaultsAssumption == Faults \subseteq SUBSET Files /\ MaxFaults \in Nat

VARIABLES
  broken,     \* the files that cannot be written now
  suffered,   \* the files that have been broken (not in the code)
  faults      \* how often some were (not in the code)

faultVars == <<broken, suffered, faults>>
allVars == <<vars, faultVars>>

FaultTypeOK ==
  /\ TypeOK
  /\ broken \subseteq suffered /\ suffered \subseteq Files
  /\ faults \in 0..MaxFaults

FaultInit == Init /\ broken = {} /\ suffered = {} /\ faults = 0

Writable(files) == files \intersect broken = {}

-----------------------------------------------------------------------------
(* Steps whose writes succeed                                              *)

\* _enforce_daily_loss writes only when the limit is reached, and the
\* strategy's answer is logged only when it is asked.
EnforceWrites == IF LossReached(broker) THEN {"halt", "audit"} ELSE {}

Asked == history + 1 >= MinHistory

ConcludeWrites == {"state"} \union (IF Asked THEN {"audit"} ELSE {})

-----------------------------------------------------------------------------
(* Steps whose write raises                                                *)

\* Mutant: the callback only logs its failure and stops.
CaughtUnhalted(k) ==
  /\ UNCHANGED halt
  /\ audit' = IF Writable({"audit"}) THEN Record("failed", k) ELSE audit
  /\ phase' = IF Writable({"audit"}) THEN "stopping" ELSE phase

\* handle_candle: engage, record, stopped.set, as far as they get
Caught(k) ==
  /\ halt' = IF Writable({"halt"}) THEN "callback_failed" ELSE halt
  /\ audit' = IF Writable({"halt", "audit"}) THEN Record("failed", k) ELSE audit
  /\ phase' = IF Writable({"halt", "audit"}) THEN "stopping" ELSE phase

\* The process dies of an exception in the main thread.
Dies == GoesDown /\ UNCHANGED <<market, saved, audit, cleared, crashes, faultVars>>

\* The first part of a handling raises after it has done what effect says.
AbortsOn(k, effect) ==
  \/ /\ phase = "replay" /\ step = "idle"
     /\ k \in missed /\ \A other \in missed : k <= other
     /\ Dies /\ UNCHANGED halt
  \/ /\ phase # "replay" /\ Receives(k)
     /\ effect /\ Caught(k)
     /\ UNCHANGED <<market, saved, last, history, step, cur, cleared, crashes, faultVars>>

\* A later part raises.
AbortsIn(effect) ==
  /\ phase # "replay"
  /\ effect /\ Caught(cur)
  /\ step' = "idle" /\ cur' = 0
  /\ UNCHANGED <<world, saved, missed, faultVars>>

DiesIn == phase = "replay" /\ Dies

\* The start is logged right after the subscription.
SubscribeFails ==
  /\ phase = "replay" /\ missed = {} /\ step = "idle"
  /\ ~Writable({"audit"})
  /\ Dies /\ UNCHANGED halt

RefuseFails(k) ==
  /\ Fresh(k) /\ Wanted(broker, pending) /\ ~RiskApproves(broker, pending, market[k])
  /\ ~Writable({"audit"})
  /\ AbortsOn(k, pending' = None /\ UNCHANGED broker)

\* Mutant: submit logs between the fee and the position.
FeeBeforeLog(k) ==
  [broker EXCEPT !.equity = @ - EntryFee(IntentOf(broker, pending, market[k]))]

OpenedBeforeLog(k) == Opened(broker, IntentOf(broker, pending, market[k]), k)

\* submit has charged the fee and set the position when the log raises.
EnterFails(k) ==
  /\ Fresh(k) /\ Wanted(broker, pending) /\ RiskApproves(broker, pending, market[k])
  /\ Accepts(k)
  /\ ~Writable({"audit"})
  /\ AbortsOn(k, pending' = None /\ broker' = OpenedBeforeLog(k))

\* The handling raises, and so does the handling of that.
FailFails(k) ==
  /\ phase # "replay" /\ Raises(k)
  /\ ~Writable({"halt", "audit"})
  /\ AbortsOn(k, pending' = (IF k < last THEN pending ELSE None) /\ UNCHANGED broker)

\* The exit is made when the log raises; the daily loss is not looked at.
CloseFails ==
  /\ step = "entered" /\ Closes(broker, market[cur])
  /\ ~Writable({"audit"})
  /\ \/ DiesIn /\ UNCHANGED halt
     \/ AbortsIn(broker' = Settled(broker, market[cur], cur)
                 /\ UNCHANGED <<pending, last, history>>)

EnforceFails ==
  /\ step = "closed" /\ ~Writable(EnforceWrites)
  /\ \/ DiesIn /\ halt' = IF Writable({"halt"}) THEN "daily_loss" ELSE halt
     \/ AbortsIn(UNCHANGED memory)

\* The log line on the signal or the save raises: memory has moved on.
ConcludeFails ==
  /\ step = "settled" /\ ~Writable(ConcludeWrites)
  /\ \/ DiesIn /\ UNCHANGED halt
     \/ AbortsIn(/\ last' = cur
                 /\ history' = Least(MinHistory, history + 1)
                 /\ IF Asked
                    THEN \E signal \in Signals(cur) \union {None} : pending' = signal
                    ELSE UNCHANGED pending
                 /\ UNCHANGED broker)

-----------------------------------------------------------------------------
(* Each step with the writes it needs.  Starting and ending need none: the *)
(* last log line of main may fail, the process ends all the same.          *)

MainStep ==
  \/ (StartFresh \/ Resume \/ Finish) /\ UNCHANGED faultVars
  \/ Subscribe /\ Writable({"audit"}) /\ UNCHANGED faultVars
  \/ SubscribeFails

ProceedStep ==
  \/ Hold /\ UNCHANGED faultVars
  \/ Close /\ Writable({"audit"}) /\ UNCHANGED faultVars
  \/ EnforceDailyLoss /\ Writable(EnforceWrites) /\ UNCHANGED faultVars
  \/ Conclude /\ Writable(ConcludeWrites) /\ UNCHANGED faultVars
  \/ CloseFails \/ EnforceFails \/ ConcludeFails

HandleStep(k) ==
  \/ (Ignore(k) \/ PassEntry(k) \/ DieInReplay(k)) /\ UNCHANGED faultVars
  \/ (RefuseEntry(k) \/ Enter(k)) /\ Writable({"audit"}) /\ UNCHANGED faultVars
  \/ Fail(k) /\ Writable({"halt", "audit"}) /\ UNCHANGED faultVars
  \/ RefuseFails(k) \/ EnterFails(k) \/ FailFails(k)

-----------------------------------------------------------------------------
(* The disk                                                                *)

Break(files) ==
  /\ broken = {} /\ faults < MaxFaults
  /\ broken' = files /\ suffered' = suffered \union files /\ faults' = faults + 1
  /\ UNCHANGED vars

Repair ==
  /\ broken # {}
  /\ broken' = {}
  /\ UNCHANGED <<vars, suffered, faults>>

FaultNext ==
  \/ MainStep \/ ProceedStep
  \/ \E k \in feed \union missed : HandleStep(k)
  \/ Environment /\ UNCHANGED faultVars
  \/ \E files \in Faults : Break(files)
  \/ Repair

FaultSpec == FaultInit /\ [][FaultNext]_allVars

\* The operator starts the program again whenever it is down, the process
\* runs while it is up, a handler or a replay that has begun goes on, and
\* somebody repairs the disk in the end.  A start whose fetch fails is no
\* start: fetches are taken to succeed in the end.  Nothing is asked of the
\* market, the stream or the operator's other acts.
FaultFairness ==
  /\ WF_allVars(MainStep)
  /\ WF_allVars(ProceedStep)
  /\ WF_allVars(phase = "replay" /\ \E k \in missed : HandleStep(k))
  /\ WF_allVars(Repair)

FaultFairSpec == FaultSpec /\ FaultFairness

-----------------------------------------------------------------------------
(* Properties                                                              *)

\* A daily loss that reached the limit keeps the kill switch engaged until
\* the operator has reviewed it, although the log and the saves may fail
\* anywhere: where the exit's log line raises and the loss is never looked
\* at, handle_candle engages it, or the replay dies before it can be saved.
BreachOutlivesFaults == "halt" \notin suffered => BreachStaysHalted

\* Failed saves alone never let the state get ahead of the audit log.
AuditOutlivesFaults == "audit" \notin suffered => AuditCoversState

\* A handler that failed and a save that did not come leave no fee charged
\* twice and no trade half booked: whatever memory and disk say, each adds up.
BooksOutliveFaults == EquityLedger

\* Whatever stopped it, a program that is started again gets back to the live
\* stream: neither the HALT file, a replay that dies on a refused entry, a
\* state saved half-way through the backlog nor a broken file that somebody
\* repairs keeps it down for ever.
RecoversFromFaults == []<>(phase = "live")

-----------------------------------------------------------------------------
(* What the documentation says and the code does not do                    *)

\* Every entry and every exit of the saved state is in the audit log.
EveryFillAudited == Audited(Durable)
=============================================================================

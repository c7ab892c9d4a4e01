------------------------ MODULE PaperRunnerFaultsProofs ------------------------
(***************************************************************************)
(* What PaperRunnerFaults guarantees for every value of its constants: the *)
(* invariants of PaperRunner that outlive a disk that refuses to write.    *)
(***************************************************************************)
EXTENDS PaperRunnerFaults, PaperRunnerProofs

-----------------------------------------------------------------------------
(* A step of the faulty process is a step of PaperRunner, or one whose     *)
(* write raises                                                            *)

FailingStep ==
  \/ SubscribeFails
  \/ \E k \in feed \union missed : RefuseFails(k) \/ EnterFails(k) \/ FailFails(k)
  \/ CloseFails \/ EnforceFails \/ ConcludeFails

LEMMA FaultNextSteps ==
  [FaultNext]_allVars => [Next]_vars \/ FailingStep
BY DEF FaultNext, MainStep, ProceedStep, HandleStep, FailingStep, Next, Main,
       Proceed, Handle, Break, Repair, allVars, vars

\* The process dies of the exception, with or without the halt of a daily loss.
Ended ==
  /\ GoesDown /\ UNCHANGED audit
  /\ halt' \in {halt, "daily_loss"}

\* handle_candle catches the exception, and the handling is over.
Survived ==
  /\ \E k \in 1..Now : Caught(k)
  /\ \/ step' = "idle" /\ cur' = 0
     \/ step = "idle" /\ UNCHANGED <<step, cur>>
  /\ phase \notin {"replay", "down"}
  /\ feed' \subseteq feed /\ missed' \subseteq missed

\* What memory keeps of it: nothing but perhaps the queued signal is gone, ...
NothingDone ==
  /\ UNCHANGED <<broker, last, history>>
  /\ pending' \in {pending, None}

\* ... a position entered that the log does not know of, ...
EnteredUnlogged ==
  /\ ~Writable({"audit"})
  /\ \E k \in feed \union missed :
        /\ Fresh(k) /\ Wanted(broker, pending) /\ Accepts(k)
        /\ RiskApproves(broker, pending, market[k])
        /\ broker' = Opened(broker, IntentOf(broker, pending, market[k]), k)
  /\ pending' = None /\ UNCHANGED <<last, history>>

\* ... an exit that the log does not know of, ...
ClosedUnlogged ==
  /\ ~Writable({"audit"})
  /\ step = "entered" /\ Closes(broker, market[cur])
  /\ broker' = Settled(broker, market[cur], cur)
  /\ UNCHANGED <<pending, last, history>>

\* ... or a candle handled that the disk does not know of.
HandledUnsaved ==
  /\ step = "settled" /\ UNCHANGED broker
  /\ last' = cur /\ history' = Least(MinHistory, history + 1)
  /\ IF Asked THEN \E signal \in Signals(cur) \union {None} : pending' = signal
              ELSE UNCHANGED pending

LEMMA FailingSteps ==
  ASSUME LooseInv, FailingStep
  PROVE  /\ UNCHANGED <<market, saved, cleared, crashes, faultVars>>
         /\ \/ Ended
            \/ Survived /\ (NothingDone \/ EnteredUnlogged \/ ClosedUnlogged \/ HandledUnsaved)
<1> DEFINE Goal ==
      /\ UNCHANGED <<market, saved, cleared, crashes, faultVars>>
      /\ \/ Ended
         \/ Survived /\ (NothingDone \/ EnteredUnlogged \/ ClosedUnlogged \/ HandledUnsaved)
<1>1. CASE SubscribeFails
  BY <1>1 DEF SubscribeFails, Dies, Ended
<1>2. ASSUME NEW k \in feed \union missed, RefuseFails(k) \/ EnterFails(k) \/ FailFails(k)
      PROVE  Goal
  <2>1. k \in 1..Now
    BY ReceivedHasClosed DEF LooseInv
  <2>2. CASE RefuseFails(k)
    BY <2>1, <2>2 DEF RefuseFails, AbortsOn, Dies, Receives, Ended, Survived, NothingDone
  <2>3. CASE EnterFails(k)
    BY <2>1, <2>3
    DEF EnterFails, AbortsOn, Dies, Receives, Ended, Survived, EnteredUnlogged, OpenedBeforeLog
  <2>4. CASE FailFails(k)
    BY <2>1, <2>4 DEF FailFails, AbortsOn, Dies, Receives, Ended, Survived, NothingDone
  <2> QED
    BY <1>2, <2>2, <2>3, <2>4
<1>3. step # "idle" => cur \in 1..Now /\ phase # "down"
  BY HandledHasClosed DEF LooseInv, Handling
<1>4. CASE CloseFails
  BY <1>3, <1>4
  DEF CloseFails, DiesIn, AbortsIn, Dies, Ended, Survived, ClosedUnlogged, world
<1>5. CASE EnforceFails
  BY <1>3, <1>5
  DEF EnforceFails, DiesIn, AbortsIn, Dies, Ended, Survived, NothingDone, world, memory
<1>6. CASE ConcludeFails
  BY <1>3, <1>6
  DEF ConcludeFails, DiesIn, AbortsIn, Dies, Ended, Survived, HandledUnsaved, world
<1> QED
  BY <1>1, <1>2, <1>4, <1>5, <1>6 DEF FailingStep

-----------------------------------------------------------------------------
(* Type correctness                                                        *)

FaultTypeInv == LooseInv /\ FaultTypeOK

LEMMA FaultTypeInvInit == FaultInit => FaultTypeInv
BY LooseInvInit, FaultsAssumption DEF FaultInit, FaultTypeInv, LooseInv, FaultTypeOK

LEMMA CaughtType ==
  ASSUME TypeOK, NEW k \in 1..Now, Caught(k)
  PROVE  /\ halt' \in Reasons \union {None}
         /\ audit' \subseteq [event : Events, at : 1..Now]
         /\ phase' \in {phase, "stopping"}
<1>1. Record("failed", k) \subseteq [event : Events, at : 1..Now]
  BY RecordType DEF Events
<1> QED
  BY <1>1 DEF Caught, TypeOK, Reasons

\* What a failing step leaves in memory still has its type, although the disk
\* no longer says the same.
LEMMA FailingLooseInv == ASSUME LooseInv, FailingStep PROVE LooseInv'
<1>0. /\ UNCHANGED <<market, saved, cleared, crashes, faultVars>>
      /\ Now' = Now /\ Now \in Nat /\ last \in Nat
  BY FailingSteps DEF Now, LooseInv, TypeOK
<1>1. CASE Ended
  <2>1. halt' \in Reasons \union {None} /\ crashes' \in 0..MaxCrashes
    BY <1>0, <1>1 DEF Ended, Reasons, LooseInv, TypeOK
  <2> QED
    BY <1>0, <1>1, <2>1, GoesDownLooseInv DEF Ended
<1>2. ASSUME Survived PROVE
        /\ halt' \in Reasons \union {None}
        /\ audit' \subseteq [event : Events, at : 1..Now']
        /\ phase' \in {"live", "stopping"}
        /\ feed' \subseteq 1..Now' /\ missed' \subseteq 1..Now'
        /\ step' = "idle" /\ cur' \in 0..Now'
  <2>1. PICK k \in 1..Now : Caught(k)
    BY <1>2 DEF Survived
  <2>2. TypeOK
    BY DEF LooseInv
  <2>3. /\ halt' \in Reasons \union {None}
        /\ audit' \subseteq [event : Events, at : 1..Now]
        /\ phase' \in {phase, "stopping"}
    BY <2>1, <2>2, CaughtType
  <2> QED
    BY <1>0, <1>2, <2>2, <2>3 DEF Survived, TypeOK
<1>3. ASSUME broker' \in Brokers, pending' \in {pending, None},
             UNCHANGED <<last, history>>, Survived
      PROVE  LooseInv'
  BY <1>0, <1>2, <1>3 DEF LooseInv, TypeOK, Handling
<1>4. CASE Survived /\ NothingDone
  BY <1>3, <1>4 DEF NothingDone, LooseInv, TypeOK
<1>5. CASE Survived /\ EnteredUnlogged
  <2>1. PICK k \in feed \union missed :
           /\ Wanted(broker, pending) /\ Accepts(k)
           /\ RiskApproves(broker, pending, market[k])
           /\ broker' = Opened(broker, IntentOf(broker, pending, market[k]), k)
    BY <1>5 DEF EnteredUnlogged
  <2>2. k \in Nat /\ market[k] \in Candles
    BY ReceivedHasClosed DEF LooseInv
  <2>3. pending \in Signals(last) /\ broker \in Brokers
    BY <2>1 DEF Wanted, LooseInv, TypeOK, Handling
  <2>4. broker' \in Brokers
    BY <1>0, <2>1, <2>2, <2>3, IntentType, OpenedKeeps DEF Accepts
  <2> QED
    BY <1>3, <1>5, <2>4 DEF EnteredUnlogged
<1>6. CASE Survived /\ ClosedUnlogged
  <2>1. broker \in Brokers /\ cur \in Nat /\ market[cur] \in Candles
    BY <1>6, HandledHasClosed DEF ClosedUnlogged, LooseInv, TypeOK, Now
  <2>2. broker' \in Brokers
    BY <1>6, <2>1, SettledKeeps DEF ClosedUnlogged
  <2> QED
    BY <1>3, <1>6, <2>2 DEF ClosedUnlogged
<1>7. CASE Survived /\ HandledUnsaved
  <2>1. cur \in 1..Now
    BY <1>7, HandledHasClosed DEF HandledUnsaved
  <2>2. history \in 0..MinHistory /\ MinHistory \in Nat \ {0}
    BY WindowAssumption DEF LooseInv, TypeOK
  <2>3. /\ history' \in 0..MinHistory
        /\ Asked => history' = MinHistory
        /\ history = MinHistory => Asked
    BY <1>7, <2>2 DEF HandledUnsaved, Asked, Least
  <2>4. pending' # None => pending' \in Signals(cur) /\ history' = MinHistory
    BY <1>7, <2>3 DEF HandledUnsaved, LooseInv, Handling
  <2>5. Signals(cur) \subseteq [side : Sides, atr : Atrs, at : 0..Now]
    BY <1>0, <2>1 DEF Signals
  <2>6. last' = cur /\ broker' = broker
    BY <1>7 DEF HandledUnsaved
  <2>7. TypeOK'
    BY <1>0, <1>2, <1>7, <2>1, <2>3, <2>4, <2>5, <2>6 DEF LooseInv, TypeOK
  <2>8. Handling'
    BY <1>2, <1>7, <2>4, <2>6 DEF Handling
  <2> QED
    BY <2>7, <2>8 DEF LooseInv
<1> QED
  BY <1>1, <1>4, <1>5, <1>6, <1>7, FailingSteps

LEMMA FaultVarsNext ==
  FaultTypeInv /\ [FaultNext]_allVars =>
    /\ broken' \subseteq suffered' /\ suffered' \subseteq Files
    /\ faults' \in 0..MaxFaults
    /\ suffered \subseteq suffered'
<1> SUFFICES ASSUME FaultTypeInv, [FaultNext]_allVars
             PROVE  /\ broken' \subseteq suffered' /\ suffered' \subseteq Files
                    /\ faults' \in 0..MaxFaults
                    /\ suffered \subseteq suffered'
  OBVIOUS
<1>1. ASSUME NEW files \in Faults, Break(files)
      PROVE  /\ broken' \subseteq suffered' /\ suffered' \subseteq Files
             /\ faults' \in 0..MaxFaults
             /\ suffered \subseteq suffered'
  BY <1>1, FaultsAssumption DEF Break, FaultTypeInv, FaultTypeOK
<1>2. CASE Repair
  BY <1>2 DEF Repair, FaultTypeInv, FaultTypeOK
<1>3. CASE UNCHANGED faultVars
  BY <1>3 DEF faultVars, FaultTypeInv, FaultTypeOK
<1>4. FailingStep => UNCHANGED faultVars
  BY FailingSteps DEF FaultTypeInv
<1> QED
  BY <1>1, <1>2, <1>3, <1>4
  DEF FaultNext, MainStep, ProceedStep, HandleStep, FailingStep, allVars

LEMMA FaultTypeInvNext == FaultTypeInv /\ [FaultNext]_allVars => FaultTypeInv'
<1> SUFFICES ASSUME FaultTypeInv, [FaultNext]_allVars PROVE FaultTypeInv'
  OBVIOUS
<1>1. LooseInv'
  BY FaultNextSteps, LooseInvNext, FailingLooseInv DEF FaultTypeInv
<1> QED
  BY <1>1, FaultVarsNext DEF FaultTypeInv, FaultTypeOK, LooseInv

\* Every variable keeps its type, whatever writes fail.
THEOREM FaultTypeCorrect == FaultSpec => []FaultTypeOK
<1>1. FaultTypeInv => FaultTypeOK
  BY DEF FaultTypeInv
<1> QED
  BY FaultTypeInvInit, FaultTypeInvNext, <1>1, PTL DEF FaultSpec

-----------------------------------------------------------------------------
(* The three invariants, where writes may fail                             *)

\* The book after a failing step
LEMMA FailingBook ==
  ASSUME LooseInv, FailingStep
  PROVE  /\ UNCHANGED <<saved, cleared, faultVars>> /\ Durable' = Durable
         /\ \/ Ended
            \/ Survived /\ broker' = broker
            \/ Survived /\ EnteredUnlogged
            \/ Survived /\ ClosedUnlogged
BY FailingSteps DEF Durable, NothingDone, HandledUnsaved

\* A position entered on an approved signal
LEMMA EnteredPosition ==
  ASSUME LooseInv, EnteredUnlogged
  PROVE  \E k \in Nat, intent \in [side : Sides, entry : Price, stop : Price,
                                   target : Price, quantity : Nat \ {0}] :
            /\ broker' = Opened(broker, intent, k)
            /\ broker \in Brokers /\ Flat(broker) /\ halt = None
<1>1. PICK k \in feed \union missed :
         /\ Wanted(broker, pending) /\ Accepts(k)
         /\ RiskApproves(broker, pending, market[k])
         /\ broker' = Opened(broker, IntentOf(broker, pending, market[k]), k)
  BY DEF EnteredUnlogged
<1>2. k \in Nat /\ market[k] \in Candles
  BY ReceivedHasClosed DEF LooseInv
<1>3. pending \in Signals(last) /\ broker \in Brokers /\ last \in Nat /\ Flat(broker)
  BY <1>1 DEF Wanted, LooseInv, TypeOK, Handling, Now
<1>4. IntentOf(broker, pending, market[k])
        \in [side : Sides, entry : Price, stop : Price, target : Price,
            quantity : Nat \ {0}]
  BY <1>1, <1>2, <1>3, IntentType DEF Accepts
<1> QED
  BY <1>1, <1>2, <1>3, <1>4 DEF Accepts

LEMMA FailingEquityLedger ==
  ASSUME LooseInv, EquityLedger, FailingStep
  PROVE  EquityLedger'
<1>0. Balanced(broker) /\ Balanced(Durable)
  BY DEF EquityLedger
<1>1. CASE Ended
  <2>1. broker' = NewBroker
    BY <1>1 DEF Ended, GoesDown
  <2> QED
    BY <1>0, <2>1, FailingBook, NewBrokerBalanced DEF EquityLedger, Balanced, Flat
<1>2. CASE broker' = broker
  BY <1>0, <1>2, FailingBook DEF EquityLedger, Balanced, Flat
<1>3. CASE EnteredUnlogged
  <2>1. Balanced(broker')
    BY <1>0, <1>3, EnteredPosition, OpenedBalanced
  <2> QED
    BY <1>0, <2>1, FailingBook DEF EquityLedger, Balanced, Flat
<1>4. CASE ClosedUnlogged
  <2>1. broker \in Brokers /\ cur \in Nat /\ market[cur] \in Candles
    BY <1>4, HandledHasClosed DEF ClosedUnlogged, LooseInv, TypeOK, Now
  <2>2. Balanced(Settled(broker, market[cur], cur))
    BY <1>0, <2>1, SettledBalanced
  <2> QED
    BY <1>0, <1>4, <2>2, FailingBook DEF ClosedUnlogged, EquityLedger, Balanced, Flat
<1> QED
  BY <1>1, <1>2, <1>3, <1>4, FailingBook

\* A failing step with a writable log has done nothing the log should know of.
LEMMA FailingAudit ==
  ASSUME LooseInv, AuditCoversState, FailingStep, "audit" \notin broken
  PROVE  AuditCoversState'
<1>0. Writable({"audit"})
  BY DEF Writable
<1>1. /\ Durable' = Durable
      /\ Ended \/ (Survived /\ broker' = broker)
  BY <1>0, FailingBook DEF EnteredUnlogged, ClosedUnlogged
<1>2. CASE Ended
  BY <1>1, <1>2, AuditKept DEF Ended, GoesDown
<1>3. CASE Survived /\ broker' = broker
  <2>1. audit \subseteq audit'
    BY <1>3 DEF Survived, Caught, Record
  <2> QED
    BY <1>1, <1>3, <2>1, AuditKept
<1> QED
  BY <1>1, <1>2, <1>3

\* handle_candle halts on whatever raised, if it can write the HALT file.
LEMMA FailingBreach ==
  ASSUME LooseInv, BreachInv, FailingStep, "halt" \notin broken
  PROVE  BreachInv'
<1>1. /\ UNCHANGED <<saved, cleared>>
      /\ \/ Ended
         \/ Survived /\ broker' = broker
         \/ Survived /\ EnteredUnlogged
         \/ Survived /\ ClosedUnlogged
  BY FailingBook
<1>2. None \notin {"daily_loss", "callback_failed"}
  BY NoStateAssumption DEF Reasons
<1>3. CASE Ended
  BY <1>1, <1>2, <1>3, BreachDown DEF Ended
<1>4. CASE Survived
  <2>1. halt' # None
    BY <1>2, <1>4 DEF Survived, Caught, Writable
  <2>2. phase # "down" /\ phase' # "down"
    BY <1>4 DEF Survived, Caught
  <2>3. CASE broker' = broker
    BY <1>1, <2>1, <2>2, <2>3
    DEF BreachInv, BreachStaysHalted, ReviewCoversDisk, Durable, Breached, Flat
  <2>4. CASE EnteredUnlogged
    <3>1. halt = None /\ ~Flat(broker')
      BY <2>4, EnteredPosition, OpenedKeeps, NoPositionAssumption DEF Flat
    <3> QED
      BY <1>1, <2>2, <3>1, BreachEntered
  <2>5. CASE ClosedUnlogged
    BY <1>1, <2>1, <2>2, <2>5, BreachSettled DEF ClosedUnlogged
  <2> QED
    BY <1>1, <1>3, <2>3, <2>4, <2>5
<1> QED
  BY <1>1, <1>3, <1>4

\* A handler that failed and a save that did not come leave no fee charged
\* twice and no trade half booked.
THEOREM BooksOutlive == FaultSpec => []BooksOutliveFaults
<1> DEFINE Inv == FaultTypeInv /\ EquityLedger
<1>1. FaultInit => Inv
  BY FaultTypeInvInit, LedgerInvInit DEF FaultInit, LedgerInv
<1>2. Inv /\ [FaultNext]_allVars => Inv'
  BY FaultTypeInvNext, FaultNextSteps, LedgerInvNext, FailingEquityLedger
  DEF FaultTypeInv, LedgerInv
<1>3. Inv => BooksOutliveFaults
  BY DEF BooksOutliveFaults
<1> QED
  BY <1>1, <1>2, <1>3, PTL DEF FaultSpec

\* Failed saves and a HALT file that cannot be written never let the state get
\* ahead of the audit log.
THEOREM AuditOutlives == FaultSpec => []AuditOutlivesFaults
<1> DEFINE Inv == FaultTypeInv /\ AuditOutlivesFaults
<1>1. FaultInit => Inv
  BY FaultTypeInvInit, AuditInit DEF FaultInit, AuditOutlivesFaults
<1>2. Inv /\ [FaultNext]_allVars => Inv'
  <2> SUFFICES ASSUME FaultTypeInv, AuditOutlivesFaults, [FaultNext]_allVars,
                      "audit" \notin suffered'
               PROVE  AuditCoversState'
    BY FaultTypeInvNext DEF AuditOutlivesFaults
  <2>1. LooseInv /\ AuditCoversState /\ "audit" \notin broken
    BY FaultVarsNext DEF FaultTypeInv, FaultTypeOK, AuditOutlivesFaults
  <2> QED
    BY <2>1, FaultNextSteps, AuditNext, FailingAudit
<1>3. Inv => AuditOutlivesFaults
  OBVIOUS
<1> QED
  BY <1>1, <1>2, <1>3, PTL DEF FaultSpec

\* As long as the HALT file can be written, a day's loss that reached the limit
\* keeps the kill switch engaged until it is reviewed, wherever the log and the
\* saves fail.
THEOREM BreachOutlives == FaultSpec => []BreachOutlivesFaults
<1> DEFINE Inv == FaultTypeInv /\ ("halt" \notin suffered => BreachInv)
<1>1. FaultInit => Inv
  BY FaultTypeInvInit, BreachInit DEF FaultInit
<1>2. Inv /\ [FaultNext]_allVars => Inv'
  <2> SUFFICES ASSUME FaultTypeInv, "halt" \notin suffered => BreachInv,
                      [FaultNext]_allVars, "halt" \notin suffered'
               PROVE  BreachInv'
    BY FaultTypeInvNext
  <2>1. LooseInv /\ BreachInv /\ "halt" \notin broken
    BY FaultVarsNext DEF FaultTypeInv, FaultTypeOK
  <2> QED
    BY <2>1, FaultNextSteps, BreachNext, FailingBreach
<1>3. Inv => BreachOutlivesFaults
  BY DEF BreachOutlivesFaults, BreachInv
<1> QED
  BY <1>1, <1>2, <1>3, PTL DEF FaultSpec
=============================================================================

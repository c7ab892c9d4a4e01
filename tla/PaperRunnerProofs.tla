-------------------------- MODULE PaperRunnerProofs --------------------------
(***************************************************************************)
(* What PaperRunner guarantees for every value of its constants.           *)
(***************************************************************************)
EXTENDS PaperRunner, PaperBrokerProofs

-----------------------------------------------------------------------------
(* Type correctness                                                        *)

\* What the type of the book rests on, whether or not the saves succeed: the
\* part of Control that does not mention the disk.
Handling ==
  /\ phase = "down" => step = "idle" /\ broker = NewBroker /\ pending = None
  /\ pending # None => pending \in Signals(last) /\ history = MinHistory
  /\ step # "idle" => last < cur

LooseInv == TypeOK /\ Handling

LEMMA NewBrokerType == NewBroker \in Brokers
BY RunnerAssumption DEF NewBroker, Brokers

\* The state and the log stay, and what they hold still fits.
LEMMA GoesDownLooseInv ==
  ASSUME LooseInv, GoesDown, UNCHANGED <<market, saved, audit, cleared>>,
         halt' \in Reasons \union {None},
         crashes' \in 0..MaxCrashes
  PROVE  LooseInv'
<1>1. TypeOK'
  <2>1. 0 \in 0..Now /\ 0 \in 0..MinHistory /\ {} \subseteq 1..Now
    BY WindowAssumption DEF LooseInv, TypeOK, Now
  <2>2. /\ feed' = {} /\ missed' = {} /\ phase' = "down" /\ step' = "idle"
        /\ broker' = NewBroker /\ pending' = None
        /\ last' = 0 /\ history' = 0 /\ cur' = 0
    BY DEF GoesDown
  <2> QED
    BY <2>1, <2>2, NewBrokerType DEF LooseInv, TypeOK, Now
<1>2. Handling'
  BY DEF GoesDown, Handling
<1> QED
  BY <1>1, <1>2 DEF LooseInv

\* A candle handed to the handler has closed.
LEMMA ReceivedHasClosed ==
  ASSUME TypeOK, NEW k \in feed \union missed
  PROVE  k \in 1..Now /\ market[k] \in Candles
BY DEF TypeOK, Now

\* The candle being handled has closed.
LEMMA HandledHasClosed ==
  ASSUME LooseInv, step # "idle"
  PROVE  cur \in 1..Now /\ market[cur] \in Candles
<1>1. cur \in 0..Now /\ last \in 0..Now /\ last < cur /\ market \in Seq(Candles)
  BY DEF LooseInv, TypeOK, Handling
<1> QED
  BY <1>1 DEF Now

LEMMA RecordType ==
  ASSUME TypeOK, NEW event \in Events, NEW k \in 1..Now
  PROVE  Record(event, k) \subseteq [event : Events, at : 1..Now]
BY DEF TypeOK, Record

LEMMA LooseInvInit == Init => LooseInv
<1> SUFFICES ASSUME Init PROVE LooseInv
  OBVIOUS
<1>1. Now = 0 /\ market \in Seq(Candles)
  BY DEF Init, Now
<1>2. TypeOK
  BY <1>1, NewBrokerType, WindowAssumption, BoundsAssumption DEF Init, TypeOK
<1>3. Handling
  BY DEF Init, Handling
<1> QED
  BY <1>2, <1>3 DEF LooseInv

LEMMA LooseInvNext == LooseInv /\ [Next]_vars => LooseInv'
<1> SUFFICES ASSUME LooseInv, [Next]_vars PROVE LooseInv'
  OBVIOUS
<1> USE DEF LooseInv
<1>1. CASE CloseCandle
  <2>1. market' \in Seq(Candles) /\ Now' = Now + 1 /\ Now \in Nat
    BY <1>1 DEF CloseCandle, TypeOK, Now
  <2>2. 1..Now \subseteq 1..Now' /\ 0..Now \subseteq 0..Now' /\ Now' \in 1..Now'
    BY <2>1
  <2>3. feed' \subseteq 1..Now'
    BY <1>1, <2>1, <2>2 DEF CloseCandle, TypeOK
  <2>4. audit' \subseteq [event : Events, at : 1..Now']
    BY <1>1, <2>2 DEF CloseCandle, TypeOK, disk
  <2>5. TypeOK'
    BY <1>1, <2>1, <2>2, <2>3, <2>4 DEF CloseCandle, TypeOK, disk, memory
  <2>6. Handling'
    BY <1>1 DEF CloseCandle, Handling, disk, memory
  <2> QED
    BY <2>5, <2>6
<1>2. ASSUME NEW k \in feed, Lose(k) PROVE LooseInv'
  BY <1>2 DEF Lose, TypeOK, Handling, disk, memory, Now
<1>3. CASE StartFresh
  BY <1>3, WindowAssumption
  DEF StartFresh, TypeOK, Handling, world, disk, Now, HistoryUpTo, Least, Greatest
<1>4. CASE Resume
  <2>1. saved \in [broker : Brokers, last : 1..Now] /\ Now \in Nat
    BY <1>4 DEF Resume, MayResume, TypeOK, Now
  <2>2. HistoryUpTo(saved.last) \in 0..MinHistory
    BY <2>1, WindowAssumption DEF HistoryUpTo, Least, Greatest
  <2>3. TypeOK'
    BY <1>4, <2>1, <2>2 DEF Resume, MayResume, Restored, TypeOK, world, disk, Now, Fetched
  <2>4. Handling'
    BY <1>4 DEF Resume, MayResume, Handling, disk
  <2> QED
    BY <2>3, <2>4
<1>5. CASE Subscribe
  BY <1>5 DEF Subscribe, TypeOK, Handling, world, disk, memory, Now
<1>6. CASE StopSignal
  BY <1>6 DEF StopSignal, TypeOK, Handling, world, disk, memory, Now
<1>7. CASE Finish
  BY <1>7, GoesDownLooseInv DEF Finish, TypeOK, disk
<1>8. CASE Crash
  <2>1. crashes' \in 0..MaxCrashes
    BY <1>8, BoundsAssumption DEF Crash, TypeOK
  <2> QED
    BY <1>8, <2>1, GoesDownLooseInv DEF Crash, TypeOK, disk
<1>9. ASSUME NEW k \in feed \union missed, Handle(k) PROVE LooseInv'
  <2> k \in 1..Now /\ market[k] \in Candles
    BY ReceivedHasClosed
  <2>1. Receives(k) => feed' \subseteq 1..Now /\ missed' \subseteq 1..Now
    BY DEF Receives, TypeOK
  <2>2. CASE Ignore(k)
    BY <2>1, <2>2 DEF Ignore, TypeOK, Handling, disk, memory, Now
  <2>3. CASE PassEntry(k)
    BY <2>1, <2>3 DEF PassEntry, Fresh, Receives, TypeOK, Handling, disk, memory, Now
  <2>4. CASE RefuseEntry(k)
    <3>1. audit' \subseteq [event : Events, at : 1..Now]
      BY <2>4, RecordType DEF RefuseEntry, Events
    <3> QED
      BY <2>1, <2>4, <3>1 DEF RefuseEntry, Fresh, Receives, TypeOK, Handling, Now
  <2>5. CASE Enter(k)
    <3>1. audit' \subseteq [event : Events, at : 1..Now]
      BY <2>5, RecordType DEF Enter, Events
    <3>2. pending \in Signals(last) /\ broker \in Brokers /\ last \in Nat
      BY <2>5 DEF Enter, Wanted, TypeOK, Handling, Now
    <3>3. broker' \in Brokers
      <4>1. IntentOf(broker, pending, market[k])
              \in [side : Sides, entry : Price, stop : Price, target : Price,
                  quantity : Nat \ {0}]
        BY <2>5, <3>2, IntentType DEF Enter, Accepts
      <4> QED
        BY <2>5, <3>2, <4>1, OpenedKeeps DEF Enter
    <3> QED
      BY <2>1, <2>5, <3>1, <3>3 DEF Enter, Fresh, Receives, TypeOK, Handling, Now
  <2>6. CASE Fail(k)
    <3>1. audit' \subseteq [event : Events, at : 1..Now]
      BY <2>6, RecordType DEF Fail, Events
    <3> QED
      BY <2>1, <2>6, <3>1 DEF Fail, Receives, TypeOK, Handling, Reasons, Now
  <2>7. CASE DieInReplay(k)
    BY <2>7, GoesDownLooseInv DEF DieInReplay, TypeOK, disk
  <2> QED
    BY <1>9, <2>2, <2>3, <2>4, <2>5, <2>6, <2>7 DEF Handle
<1>10. ASSUME step = "entered", broker' = Settled(broker, market[cur], cur)
       PROVE  broker' \in Brokers
  <2>1. broker \in Brokers /\ cur \in Nat /\ market[cur] \in Candles
    BY <1>10, HandledHasClosed DEF TypeOK, Now
  <2> QED
    BY <1>10, <2>1, SettledKeeps
<1>11. CASE Hold
  BY <1>10, <1>11 DEF Hold, TypeOK, Handling, world, disk, Now
<1>12. CASE Close
  <2>1. audit' \subseteq [event : Events, at : 1..Now]
    BY <1>12, HandledHasClosed, RecordType DEF Close, Events
  <2> QED
    BY <1>10, <1>12, <2>1 DEF Close, TypeOK, Handling, world, Now
<1>13. CASE EnforceDailyLoss
  <2>1. audit' \subseteq [event : Events, at : 1..Now]
    BY <1>13, HandledHasClosed, RecordType DEF EnforceDailyLoss, Events, TypeOK
  <2> QED
    BY <1>13, <2>1
    DEF EnforceDailyLoss, TypeOK, Handling, Reasons, world, memory, Now
<1>14. CASE Conclude
  <2>1. cur \in 1..Now /\ Now \in Nat
    BY <1>14, HandledHasClosed DEF Conclude, TypeOK, Now
  <2>2. /\ history' \in 0..MinHistory
        /\ history = MinHistory => history' = MinHistory
    BY <1>14, WindowAssumption DEF Conclude, TypeOK, Least
  <2>3. /\ pending' = None \/ pending' \in Signals(cur)
        /\ pending' # None => history' = MinHistory
    BY <1>14, <2>2 DEF Conclude, Handling
  <2>4. Signals(cur) \subseteq [side : Sides, atr : Atrs, at : 0..Now]
    BY <2>1 DEF Signals
  <2>5. saved' \in [broker : Brokers, last : 1..Now] /\ saved' # None
    <3>1. saved' = [broker |-> broker, last |-> cur] /\ broker \in Brokers
      BY <1>14 DEF Conclude, Snapshot, TypeOK
    <3>2. saved' \in [broker : Brokers, last : 1..Now]
      BY <2>1, <3>1
    <3>3. saved' \in [broker : Brokers, last : Nat]
      BY <2>1, <3>1
    <3> QED
      BY <3>2, <3>3, NoStateAssumption
  <2>6. TypeOK'
    BY <1>14, <2>1, <2>2, <2>3, <2>4, <2>5 DEF Conclude, TypeOK, world, Now
  <2>7. Handling'
    BY <1>14, <2>3, <2>5 DEF Conclude, Snapshot, Handling
  <2> QED
    BY <2>6, <2>7
<1>15. CASE ReleaseHalt
  <2>1. Durable.trades.last \in Nat /\ broker.trades.last \in Nat
    BY NewBrokerType DEF TypeOK, Durable, Brokers
  <2>2. LastEnforcedExit \in Nat
    BY <2>1 DEF LastEnforcedExit
  <2> QED
    BY <1>15, <2>2
    DEF ReleaseHalt, TypeOK, Handling, memory, Now, Greatest
<1>16. CASE UNCHANGED vars
  BY <1>16 DEF vars, TypeOK, Handling, Now
<1> QED
  BY <1>1, <1>2, <1>3, <1>4, <1>5, <1>6, <1>7, <1>8, <1>9, <1>11, <1>12,
     <1>13, <1>14, <1>15, <1>16
  DEF Next, Main, Proceed, Environment

\* What relates memory to the disk while every save succeeds
TypeInv == TypeOK /\ Control

LEMMA TypeInvIsLoose == TypeInv => LooseInv
BY DEF TypeInv, LooseInv, Control, Handling

LEMMA TypeInvInit == Init => TypeInv
BY LooseInvInit DEF TypeInv, LooseInv, Init, Control

LEMMA TypeInvNext == TypeInv /\ [Next]_vars => TypeInv'
<1> SUFFICES ASSUME TypeInv, [Next]_vars PROVE TypeInv'
  OBVIOUS
<1>1. LooseInv /\ LooseInv'
  BY LooseInvNext, TypeInvIsLoose
<1>2. CASE Conclude
  <2>1. saved' = [broker |-> broker, last |-> cur] /\ last' = cur
    BY <1>2 DEF Conclude, Snapshot
  <2>2. saved' # None
    BY <1>1, <1>2, <2>1, HandledHasClosed, NoStateAssumption
    DEF Conclude, LooseInv, TypeOK, Now
  <2> QED
    BY <1>1, <2>1, <2>2 DEF TypeInv, LooseInv, Control, Handling
<1>3. CASE UNCHANGED saved /\ phase' = "down"
  BY <1>1, <1>3 DEF TypeInv, LooseInv, Control, Handling
<1>4. CASE StartFresh
  BY <1>1, <1>4 DEF StartFresh, TypeInv, LooseInv, Control, Handling, disk
<1>5. CASE Resume
  BY <1>1, <1>5 DEF Resume, TypeInv, LooseInv, Control, Handling, disk
<1>6. CASE /\ UNCHANGED <<saved, last>> /\ phase # "down"
           /\ pending' # None => pending # None
  BY <1>1, <1>6 DEF TypeInv, LooseInv, Control, Handling
<1>7. CASE UNCHANGED <<saved, last, phase, pending>>
  BY <1>1, <1>7 DEF TypeInv, LooseInv, Control, Handling
<1> QED
  BY <1>2, <1>3, <1>4, <1>5, <1>6, <1>7
  DEF Next, Main, Subscribe, Finish, Proceed, Hold, Close, EnforceDailyLoss, Handle,
      Ignore, PassEntry, RefuseEntry, Enter, Fail, DieInReplay, Environment, CloseCandle,
      StopSignal, Crash, ReleaseHalt, Lose, GoesDown, Receives, world, memory, disk, vars

\* Every variable keeps its type, and the program's position keeps relating
\* its memory to the disk.
THEOREM TypeCorrect == Spec => []TypeOK
<1>1. TypeInv => TypeOK
  BY DEF TypeInv
<1> QED
  BY TypeInvInit, TypeInvNext, <1>1, PTL DEF Spec

-----------------------------------------------------------------------------
(* Memory follows the disk                                                 *)

BookInv == TypeInv /\ MemoryFollowsDisk

\* An entry without a signal changes nothing.
LEMMA EnteredNone ==
  ASSUME NEW b, NEW candle, NEW k
  PROVE  Entered(b, None, candle, k) = b
BY DEF Entered, Wanted

LEMMA BookInvInit == Init => BookInv
BY TypeInvInit DEF BookInv, TypeInv, MemoryFollowsDisk, Init

\* An action that leaves the book, the candle being handled and the step as
\* they are keeps memory in line with the disk.
LEMMA BookInvUnchanged ==
  ASSUME BookInv, TypeInv',
         UNCHANGED <<saved, broker, step, cur>>,
         step # "idle" => market'[cur] = market[cur],
         phase = "down" => phase' = "down"
  PROVE  BookInv'
BY DEF BookInv, TypeInv, MemoryFollowsDisk, Durable, LastSaved

LEMMA BookInvDown ==
  ASSUME TypeInv', GoesDown
  PROVE  BookInv'
BY DEF BookInv, TypeInv, MemoryFollowsDisk, GoesDown

LEMMA BookInvNext == BookInv /\ [Next]_vars => BookInv'
<1> SUFFICES ASSUME BookInv, [Next]_vars PROVE BookInv'
  OBVIOUS
<1>0. TypeInv' /\ TypeInv
  BY TypeInvNext DEF BookInv
<1>1. CASE CloseCandle
  <2>1. step # "idle" => market'[cur] = market[cur]
    BY <1>0, <1>1, HandledHasClosed, TypeInvIsLoose DEF CloseCandle, TypeInv, TypeOK, Now
  <2> QED
    BY <1>0, <1>1, <2>1, BookInvUnchanged DEF CloseCandle, disk, memory
<1>2. ASSUME NEW k \in feed, Lose(k) PROVE BookInv'
  BY <1>0, <1>2, BookInvUnchanged DEF Lose, disk, memory
<1>3. CASE StartFresh
  BY <1>0, <1>3
  DEF StartFresh, BookInv, TypeInv, MemoryFollowsDisk, Control, world, disk, Durable
<1>4. CASE Resume
  BY <1>0, <1>4
  DEF Resume, MayResume, Restored, BookInv, TypeInv, MemoryFollowsDisk, Control, world, disk, Durable
<1>5. CASE Subscribe
  BY <1>0, <1>5, BookInvUnchanged DEF Subscribe, world, disk, memory
<1>6. CASE StopSignal
  BY <1>0, <1>6, BookInvUnchanged DEF StopSignal, world, disk, memory
<1>7. CASE Finish
  BY <1>0, <1>7, BookInvDown DEF Finish
<1>8. CASE Crash
  BY <1>0, <1>8, BookInvDown DEF Crash
<1>9. ASSUME NEW k \in feed \union missed, Handle(k) PROVE BookInv'
  <2>1. CASE Ignore(k)
    BY <1>0, <2>1, BookInvUnchanged DEF Ignore, disk, memory
  <2>2. CASE DieInReplay(k)
    BY <1>0, <2>2, BookInvDown DEF DieInReplay
  <2>3. CASE Fail(k)
    BY <1>0, <2>3, BookInvUnchanged DEF Fail, Receives
  <2>4. CASE PassEntry(k) \/ RefuseEntry(k) \/ Enter(k)
    <3>1. /\ step = "idle" /\ phase # "down" /\ broker = Durable
          /\ step' = "entered" /\ cur' = k /\ market' = market /\ saved' = saved
      <4>1. Receives(k) /\ step' = "entered" /\ cur' = k /\ market' = market /\ saved' = saved
        BY <2>4 DEF PassEntry, RefuseEntry, Enter, disk
      <4>2. step = "idle" /\ phase # "down"
        BY <4>1 DEF Receives
      <4> QED
        BY <4>1, <4>2 DEF BookInv, MemoryFollowsDisk
    <3>2. \E signal \in Signals(LastSaved) \union {None} :
             broker' = Entered(Durable, signal, market[k], k)
      <4>1. CASE PassEntry(k) \/ RefuseEntry(k)
        <5>1. broker' = broker
          BY <4>1 DEF PassEntry, RefuseEntry, memory
        <5> QED
          BY <3>1, <5>1, EnteredNone
      <4>2. CASE Enter(k)
        <5>1. pending \in Signals(last) /\ last = LastSaved
          BY <3>1, <4>2
          DEF Enter, Wanted, BookInv, MemoryFollowsDisk, Control, LastSaved
        <5>2. broker' = Entered(broker, pending, market[k], k)
          BY <4>2 DEF Enter, Accepts, Entered
        <5> QED
          BY <3>1, <5>1, <5>2
      <4> QED
        BY <2>4, <4>1, <4>2
    <3>3. Durable' = Durable /\ LastSaved' = LastSaved
      BY <3>1 DEF Durable, LastSaved
    <3>4. \E signal \in (Signals(LastSaved) \union {None})' :
             broker' = Entered(Durable, signal, market[cur], cur)'
      BY <3>1, <3>2, <3>3
    <3> QED
      BY <1>0, <3>1, <3>4 DEF BookInv, TypeInv, MemoryFollowsDisk
  <2> QED
    BY <1>9, <2>1, <2>2, <2>3, <2>4 DEF Handle
<1>10. CASE Hold \/ Close
  <2>1. /\ step = "entered" /\ step' \in {"closed", "settled"}
        /\ broker' = Settled(broker, market[cur], cur)
        /\ UNCHANGED <<market, saved, phase, cur>>
    BY <1>10 DEF Hold, Close, world, disk
  <2>2. PICK signal \in Signals(LastSaved) \union {None} :
            broker = Entered(Durable, signal, market[cur], cur)
    BY <2>1 DEF BookInv, MemoryFollowsDisk
  <2>3. broker' = Processed(Durable, signal, market[cur], cur)
    BY <2>1, <2>2 DEF Processed
  <2>4. Durable' = Durable /\ LastSaved' = LastSaved
    BY <2>1 DEF Durable, LastSaved
  <2> QED
    BY <1>0, <2>1, <2>3, <2>4 DEF BookInv, TypeInv, MemoryFollowsDisk
<1>11. CASE EnforceDailyLoss
  <2>1. /\ step = "closed" /\ step' = "settled"
        /\ UNCHANGED <<market, saved, phase, cur, broker>>
    BY <1>11 DEF EnforceDailyLoss, world, memory
  <2> QED
    BY <1>0, <2>1 DEF BookInv, TypeInv, MemoryFollowsDisk, Durable, LastSaved
<1>12. CASE Conclude
  <2>1. saved' = [broker |-> broker, last |-> cur] /\ broker' = broker /\ step' = "idle"
    BY <1>12 DEF Conclude, Snapshot
  <2>2. saved' # None
    BY <2>1, <1>0, HandledHasClosed, TypeInvIsLoose, <1>12, NoStateAssumption
    DEF Conclude, TypeInv, TypeOK, Now
  <2>3. broker' = Durable'
    BY <2>1, <2>2 DEF Durable
  <2> QED
    BY <1>0, <2>1, <2>3 DEF BookInv, TypeInv, MemoryFollowsDisk
<1>13. CASE ReleaseHalt
  BY <1>0, <1>13, BookInvUnchanged DEF ReleaseHalt, memory
<1>14. CASE UNCHANGED vars
  BY <1>0, <1>14, BookInvUnchanged DEF vars
<1> QED
  BY <1>1, <1>2, <1>3, <1>4, <1>5, <1>6, <1>7, <1>8, <1>9, <1>10, <1>11,
     <1>12, <1>13, <1>14
  DEF Next, Main, Proceed, Environment

\* Memory is the disk's state, or what the handler under way makes of it.
THEOREM MemoryFollowed == Spec => []MemoryFollowsDisk
<1>1. BookInv => MemoryFollowsDisk
  BY DEF BookInv
<1> QED
  BY BookInvInit, BookInvNext, <1>1, PTL DEF Spec

-----------------------------------------------------------------------------
(* The durable state refines the candle ledger                             *)

\* Only closing a candle and saving show in the ledger's variables.
LEMMA StutterOrStep ==
  [Next]_vars => CloseCandle \/ Conclude \/ UNCHANGED <<market, saved>>
BY DEF Next, Main, StartFresh, Resume, Subscribe, Finish, Proceed, Hold, Close,
       EnforceDailyLoss, Handle, Ignore, PassEntry, RefuseEntry, Enter, Fail,
       DieInReplay, Environment, StopSignal, Crash, ReleaseHalt, Lose,
       world, disk, vars

LEMMA LedgerInit == Init => Ledger!Init
BY DEF Init, Ledger!Init, Durable, LastSaved

LEMMA LedgerStep ==
  BookInv /\ [Next]_vars => [Ledger!Next]_(Ledger!ledgerVars)
<1> SUFFICES ASSUME BookInv, [Next]_vars
             PROVE  Ledger!Next \/ UNCHANGED Ledger!ledgerVars
  OBVIOUS
<1>1. CASE CloseCandle
  <2>1. Ledger!CloseCandle
    BY <1>1 DEF CloseCandle, Ledger!CloseCandle, disk, Durable, LastSaved, Now
  <2> QED
    BY <2>1 DEF Ledger!Next
<1>2. CASE Conclude
  <2>1. cur \in 1..Len(market)
    BY <1>2, HandledHasClosed, TypeInvIsLoose DEF Conclude, BookInv, Now
  <2>2. LastSaved < cur
    BY <1>2, <2>1 DEF Conclude, BookInv, MemoryFollowsDisk, Control, LastSaved
  <2>3. saved' = [broker |-> broker, last |-> cur] /\ market' = market
    BY <1>2 DEF Conclude, Snapshot, world
  <2>4. saved' # None
    BY <1>2, <2>1, <2>3, NoStateAssumption DEF BookInv, TypeInv, TypeOK
  <2>5. Durable' = broker /\ LastSaved' = cur
    BY <2>3, <2>4 DEF Durable, LastSaved
  <2>6. \E signal \in Signals(LastSaved) \union {None} :
           broker = Processed(Durable, signal, market[cur], cur)
    BY <1>2 DEF Conclude, BookInv, MemoryFollowsDisk
  <2>7. Ledger!Consume(cur)
    BY <2>2, <2>3, <2>5, <2>6 DEF Ledger!Consume
  <2> QED
    BY <2>1, <2>7 DEF Ledger!Next
<1>3. CASE UNCHANGED <<market, saved>>
  BY <1>3 DEF Ledger!ledgerVars, Durable, LastSaved
<1> QED
  BY <1>1, <1>2, <1>3, StutterOrStep

\* Whatever crashes, is replayed, lost or repeated, the durable state moves as
\* if each candle's handling were one step.
THEOREM RefinesLedger == Spec => LedgerSpec
BY BookInvInit, BookInvNext, LedgerInit, LedgerStep, PTL
DEF Spec, LedgerSpec, Ledger!Spec

-----------------------------------------------------------------------------
(* The books balance                                                       *)

LEMMA NewBrokerBalanced == Balanced(NewBroker)
BY RunnerAssumption DEF Balanced, NewBroker, Flat

LEMMA SettledBalanced ==
  ASSUME NEW b \in Brokers, NEW candle \in Candles, NEW k \in Nat, Balanced(b)
  PROVE  Balanced(Settled(b, candle, k))
<1>1. /\ b.equity \in Int /\ b.trades.net \in Int
      /\ InitialEquity \in Int
  BY RunnerAssumption DEF Brokers
<1>2. CASE ~Closes(b, candle)
  BY <1>2, SettledKeeps DEF Balanced, Flat
<1>3. CASE Closes(b, candle)
  <2> DEFINE net == NetPnl(b.position, candle)
  <2>1. b.position \in Positions /\ ~Flat(b)
    BY <1>3, SettledKeeps DEF Closes
  <2>2. net \in Int /\ b.position.fee \in Int
    BY <2>1, ExitType DEF Positions
  <2>3. b.equity = InitialEquity + b.trades.net - b.position.fee
    BY <2>1 DEF Balanced
  <2>4. /\ Flat(Settled(b, candle, k))
        /\ Settled(b, candle, k).equity = b.equity + net + b.position.fee
        /\ Settled(b, candle, k).trades.net = b.trades.net + net
    BY <1>3, SettledKeeps
  <2> HIDE DEF net
  <2> QED
    BY <1>1, <2>2, <2>3, <2>4 DEF Balanced
<1> QED
  BY <1>2, <1>3

LEMMA OpenedBalanced ==
  ASSUME NEW b \in Brokers, NEW k \in Nat, Balanced(b), Flat(b),
         NEW intent \in [side : Sides, entry : Price, stop : Price,
                         target : Price, quantity : Nat \ {0}]
  PROVE  Balanced(Opened(b, intent, k))
<1> DEFINE o == Opened(b, intent, k)
<1>1. /\ o.position \in Positions /\ o.trades = b.trades
      /\ o.equity = b.equity - o.position.fee
  BY OpenedKeeps
<1>2. ~Flat(o)
  BY <1>1, NoPositionAssumption DEF Flat
<1>3. /\ b.equity = InitialEquity + b.trades.net
      /\ b.trades.net \in Int /\ InitialEquity \in Int /\ o.position.fee \in Int
  BY <1>1, RunnerAssumption DEF Balanced, Brokers, Positions
<1> HIDE DEF o
<1> QED
  BY <1>1, <1>2, <1>3 DEF Balanced, o

LedgerInv == LooseInv /\ EquityLedger

LEMMA LedgerInvInit == Init => LedgerInv
BY LooseInvInit, NewBrokerBalanced DEF LedgerInv, EquityLedger, Init, Durable

LEMMA LedgerInvNext == LedgerInv /\ [Next]_vars => LedgerInv'
<1> SUFFICES ASSUME LedgerInv, [Next]_vars PROVE Balanced(broker') /\ Balanced(Durable')
  BY LooseInvNext DEF LedgerInv, EquityLedger, Balanced, Flat
<1>0. LooseInv /\ Balanced(broker) /\ Balanced(Durable)
  BY DEF LedgerInv, EquityLedger
<1>1. CASE Conclude
  <2>1. broker' = broker /\ (Durable' = broker \/ Durable' = NewBroker)
    BY <1>1 DEF Conclude, Snapshot, Durable
  <2> QED
    BY <1>0, <2>1, NewBrokerBalanced
<1>2. CASE Hold \/ Close
  <2>1. broker' = Settled(broker, market[cur], cur) /\ Durable' = Durable
    BY <1>2 DEF Hold, Close, disk, Durable
  <2>2. broker \in Brokers /\ cur \in Nat /\ market[cur] \in Candles
    BY <1>0, <1>2, HandledHasClosed DEF Hold, Close, LooseInv, TypeOK, Now
  <2> QED
    BY <1>0, <2>1, <2>2, SettledBalanced
<1>3. ASSUME NEW k \in feed \union missed, Enter(k)
      PROVE  Balanced(broker') /\ Balanced(Durable')
  <2>1. /\ broker' = Opened(broker, IntentOf(broker, pending, market[k]), k)
        /\ Durable' = Durable /\ Flat(broker)
    BY <1>3 DEF Enter, Wanted, Durable
  <2>2. k \in Nat /\ market[k] \in Candles
    BY <1>0, ReceivedHasClosed DEF LooseInv
  <2>3. pending \in Signals(last) /\ broker \in Brokers /\ last \in Nat
    BY <1>0, <1>3 DEF Enter, Wanted, LooseInv, TypeOK, Handling, Now
  <2>4. IntentOf(broker, pending, market[k])
          \in [side : Sides, entry : Price, stop : Price, target : Price,
              quantity : Nat \ {0}]
    BY <1>3, <2>2, <2>3, IntentType DEF Enter, Accepts
  <2> QED
    BY <1>0, <2>1, <2>2, <2>3, <2>4, OpenedBalanced
<1>4. CASE Resume
  BY <1>0, <1>4 DEF Resume, MayResume, Restored, disk, Durable
<1>5. CASE GoesDown /\ saved' = saved
  BY <1>0, <1>5, NewBrokerBalanced DEF GoesDown, Durable
<1>6. CASE UNCHANGED <<broker, saved>>
  BY <1>0, <1>6 DEF Durable
<1> QED
  BY <1>1, <1>2, <1>3, <1>4, <1>5, <1>6
  DEF Next, Main, StartFresh, Subscribe, Finish, Proceed, EnforceDailyLoss, Handle,
      Ignore, PassEntry, RefuseEntry, Fail, DieInReplay, Environment, CloseCandle,
      StopSignal, Crash, ReleaseHalt, Lose, world, memory, disk, vars

\* No money appears or disappears, in memory or on disk, whatever is
\* interrupted and replayed.
THEOREM BooksBalance == Spec => []EquityLedger
<1>1. LedgerInv => EquityLedger
  BY DEF LedgerInv
<1> QED
  BY LedgerInvInit, LedgerInvNext, <1>1, PTL DEF Spec

-----------------------------------------------------------------------------
(* The audit log covers the state                                          *)

AuditedIn(b, log) ==
  /\ ~Flat(b) => [event |-> "opened", at |-> b.position.time] \in log
  /\ b.trades.last > 0 => [event |-> "closed", at |-> b.trades.last] \in log

LEMMA NewBrokerAudited == ASSUME NEW log PROVE AuditedIn(NewBroker, log)
BY DEF AuditedIn, NewBroker, Flat

LEMMA AuditInit == Init => AuditCoversState
BY NewBrokerAudited DEF Init, AuditCoversState, Audited, AuditedIn, Durable

\* A step that leaves the position and the trades of memory and disk alone, or
\* takes them over from each other, keeps them in a log that only grows.
LEMMA AuditKept ==
  ASSUME AuditCoversState, audit \subseteq audit',
         broker' \in {broker, Durable, NewBroker},
         Durable' \in {broker, Durable, NewBroker}
  PROVE  AuditCoversState'
<1>1. AuditedIn(broker, audit) /\ AuditedIn(Durable, audit)
  BY DEF AuditCoversState, Audited, AuditedIn
<1>2. AuditedIn(broker, audit') /\ AuditedIn(Durable, audit') /\ AuditedIn(NewBroker, audit')
  BY <1>1, NewBrokerAudited DEF AuditedIn
<1>3. AuditedIn(broker', audit') /\ AuditedIn(Durable', audit')
  BY <1>2
<1> QED
  BY <1>3 DEF AuditCoversState, Audited, AuditedIn, Flat

\* The exit that on_candle makes is logged with it.
LEMMA AuditSettled ==
  ASSUME LooseInv, AuditCoversState, step = "entered",
         broker' = Settled(broker, market[cur], cur), saved' = saved,
         audit \subseteq audit',
         Closes(broker, market[cur]) => [event |-> "closed", at |-> cur] \in audit'
  PROVE  AuditCoversState'
<1> DEFINE b == Settled(broker, market[cur], cur)
<1>1. broker \in Brokers /\ cur \in Nat /\ market[cur] \in Candles
  BY HandledHasClosed DEF LooseInv, TypeOK, Now
<1>2. AuditedIn(broker, audit) /\ AuditedIn(Durable, audit)
  BY DEF AuditCoversState, Audited, AuditedIn
<1>3. AuditedIn(b, audit')
  <2>1. CASE Closes(broker, market[cur])
    <3>1. Flat(b) /\ b.trades.last = cur
      BY <1>1, <2>1, SettledKeeps
    <3> QED
      BY <2>1, <3>1 DEF AuditedIn
  <2>2. CASE ~Closes(broker, market[cur])
    <3>1. b.position = broker.position /\ b.trades = broker.trades
      BY <1>1, <2>2, SettledKeeps
    <3> QED
      BY <1>2, <3>1 DEF AuditedIn, Flat
  <2> QED
    BY <2>1, <2>2
<1>4. AuditedIn(broker', audit') /\ AuditedIn(Durable', audit')
  BY <1>2, <1>3 DEF AuditedIn, Durable
<1> QED
  BY <1>4 DEF AuditCoversState, Audited, AuditedIn, Flat

LEMMA AuditNext == LooseInv /\ AuditCoversState /\ [Next]_vars => AuditCoversState'
<1> SUFFICES ASSUME LooseInv, AuditCoversState, [Next]_vars PROVE AuditCoversState'
  OBVIOUS
<1>1. CASE Hold
  BY <1>1, AuditSettled DEF Hold, disk
<1>2. CASE Close
  BY <1>2, AuditSettled DEF Close, Record
<1>3. ASSUME NEW k \in feed \union missed, Enter(k) PROVE AuditCoversState'
  <2> DEFINE b == Opened(broker, IntentOf(broker, pending, market[k]), k)
  <2>1. broker' = b /\ Durable' = Durable /\ Flat(broker)
        /\ audit' = audit \union {[event |-> "opened", at |-> k]}
    BY <1>3 DEF Enter, Wanted, Durable, Record
  <2>2. k \in Nat /\ market[k] \in Candles
    BY ReceivedHasClosed DEF LooseInv
  <2>3. pending \in Signals(last) /\ broker \in Brokers /\ last \in Nat
    BY <1>3 DEF Enter, Wanted, LooseInv, TypeOK, Handling, Now
  <2>4. IntentOf(broker, pending, market[k])
          \in [side : Sides, entry : Price, stop : Price, target : Price,
              quantity : Nat \ {0}]
    BY <1>3, <2>2, <2>3, IntentType DEF Enter, Accepts
  <2>5. b.position.time = k /\ b.trades = broker.trades
    BY <2>2, <2>3, <2>4, OpenedKeeps
  <2>6. AuditedIn(broker, audit) /\ AuditedIn(Durable, audit)
    BY DEF AuditCoversState, Audited, AuditedIn
  <2> HIDE DEF b
  <2>7. AuditedIn(b, audit') /\ AuditedIn(Durable, audit')
    BY <2>1, <2>5, <2>6 DEF AuditedIn
  <2>8. AuditedIn(broker', audit') /\ AuditedIn(Durable', audit')
    BY <2>1, <2>7
  <2> QED
    BY <2>8 DEF AuditCoversState, Audited, AuditedIn, Flat
<1>4. CASE Conclude
  <2>1. broker' = broker /\ audit' = audit /\ Durable' \in {broker, NewBroker}
    BY <1>4 DEF Conclude, Snapshot, Durable
  <2> QED
    BY <2>1, AuditKept
<1>5. CASE Resume
  BY <1>5, AuditKept DEF Resume, MayResume, Restored, disk, Durable
<1>6. CASE GoesDown /\ UNCHANGED <<saved, audit>>
  BY <1>6, AuditKept DEF GoesDown, Durable
<1>7. CASE UNCHANGED <<broker, saved>> /\ audit \subseteq audit'
  BY <1>7, AuditKept DEF Durable
<1> QED
  BY <1>1, <1>2, <1>3, <1>4, <1>5, <1>6, <1>7
  DEF Next, Main, StartFresh, Subscribe, Finish, Proceed, EnforceDailyLoss, Handle,
      Ignore, PassEntry, RefuseEntry, Fail, DieInReplay, Environment, CloseCandle,
      StopSignal, Crash, ReleaseHalt, Lose, Record, world, memory, disk, vars

\* Every entry and every exit that memory or the disk knows of is in the audit
\* log, whatever crashes and however often a candle is handled again.
THEOREM AuditCovers == Spec => []AuditCoversState
BY LooseInvInit, LooseInvNext, AuditInit, AuditNext, PTL DEF Spec

-----------------------------------------------------------------------------
(* A breached daily loss stays halted                                      *)

\* A breach that is on disk and not yet reviewed is what memory holds too: a
\* release that looks at memory's last exit covers it.
ReviewCoversDisk ==
  phase # "down" /\ Breached(Durable) /\ Durable.trades.last > cleared
    => Flat(broker) /\ broker.trades.last = Durable.trades.last

BreachInv == BreachStaysHalted /\ ReviewCoversDisk

LEMMA NewBrokerUnbreached == ~Breached(NewBroker)
<1>1. InitialEquity \in Nat \ {0} /\ DailyLossLimit \in Nat \ {0}
  BY RunnerAssumption, SettingsAssumption DEF ValidSettings
<1>2. InitialEquity * DailyLossLimit > 0 /\ (InitialEquity - InitialEquity) * Unit = 0
  BY <1>1, RatesAssumption
<1> QED
  BY <1>1, <1>2 DEF Breached, NewBroker

\* A new day starts without a loss.
LEMMA RolledBreached ==
  ASSUME NEW b \in Brokers, NEW k \in Nat, Breached(Rolled(b, k))
  PROVE  Breached(b) /\ Rolled(b, k) = b
<1>1. CASE b.day = Day(k)
  BY <1>1 DEF Rolled
<1>2. CASE b.day # Day(k)
  <2>1. Rolled(b, k).equity = b.equity /\ Rolled(b, k).dayStart = b.equity
    BY <1>2 DEF Rolled, Brokers
  <2>2. b.equity \in Int /\ b.equity > 0 /\ DailyLossLimit \in Nat \ {0}
    BY <2>1, SettingsAssumption DEF Breached, Brokers, ValidSettings
  <2>3. (b.equity - b.equity) * Unit >= b.equity * DailyLossLimit
    BY <2>1 DEF Breached
  <2> QED
    BY <2>2, <2>3, RatesAssumption
<1> QED
  BY <1>1, <1>2

LEMMA BreachInit == Init => BreachInv
BY NewBrokerUnbreached
DEF Init, BreachInv, BreachStaysHalted, ReviewCoversDisk, Durable

LEMMA BreachDown ==
  ASSUME BreachInv, GoesDown, UNCHANGED <<saved, cleared>>,
         halt' = halt \/ halt' # None
  PROVE  BreachInv'
BY NewBrokerUnbreached
DEF BreachInv, BreachStaysHalted, ReviewCoversDisk, GoesDown, Durable, Breached, Flat

LEMMA BreachUnchanged ==
  ASSUME BreachInv, UNCHANGED <<saved, broker, cleared>>,
         step' = step \/ step # "closed",
         phase = "down" => phase' = "down",
         halt' = halt \/ halt' # None
  PROVE  BreachInv'
BY DEF BreachInv, BreachStaysHalted, ReviewCoversDisk, Durable, Breached, Flat

\* on_candle may breach the limit only by an exit, and closes no position
\* while a breach on disk is not yet reviewed.
LEMMA BreachSettled ==
  ASSUME LooseInv, BreachInv, step = "entered",
         broker' = Settled(broker, market[cur], cur),
         UNCHANGED <<saved, cleared>>,
         phase' # "down" => phase # "down",
         halt' = halt \/ halt' # None,
         Closes(broker, market[cur]) => step' = "closed" \/ halt' # None
  PROVE  BreachInv'
<1> DEFINE b == Settled(broker, market[cur], cur)
<1>1. broker \in Brokers /\ cur \in Nat /\ market[cur] \in Candles
  BY HandledHasClosed DEF LooseInv, TypeOK, Now
<1>2. CASE Closes(broker, market[cur])
  <2>1. ~Flat(broker)
    BY <1>2 DEF Closes
  <2> QED
    BY <1>2, <2>1 DEF BreachInv, BreachStaysHalted, ReviewCoversDisk, Durable, Breached, Flat
<1>3. CASE ~Closes(broker, market[cur])
  <2>1. b = Rolled(broker, cur) /\ b.position = broker.position /\ b.trades = broker.trades
    BY <1>1, <1>3, RolledKeeps DEF Settled
  <2>2. Breached(b) => Breached(broker) /\ b = broker
    BY <1>1, <2>1, RolledBreached
  <2> HIDE DEF b
  <2>3. broker' = b
    BY DEF b
  <2> QED
    BY <2>1, <2>2, <2>3
    DEF BreachInv, BreachStaysHalted, ReviewCoversDisk, Durable, Breached, Flat
<1> QED
  BY <1>2, <1>3

\* An entry needs the kill switch released, so nothing on disk is unreviewed.
LEMMA BreachEntered ==
  ASSUME LooseInv, BreachInv, halt = None, phase # "down",
         ~Flat(broker'), UNCHANGED <<saved, cleared>>
  PROVE  BreachInv'
<1>1. Durable' = Durable /\ Durable.trades.last \in Nat /\ cleared \in Nat
  BY NewBrokerType DEF Durable, LooseInv, TypeOK, Brokers
<1>2. ~(Breached(Durable) /\ Durable.trades.last > cleared)
  BY <1>1 DEF BreachInv, BreachStaysHalted
<1> QED
  BY <1>1, <1>2
  DEF BreachInv, BreachStaysHalted, ReviewCoversDisk, Breached, Flat

LEMMA BreachNext == LooseInv /\ BreachInv /\ [Next]_vars => BreachInv'
<1> SUFFICES ASSUME LooseInv, BreachInv, [Next]_vars PROVE BreachInv'
  OBVIOUS
<1>0. \A reason \in Reasons : reason # None
  BY NoStateAssumption
<1>1. CASE Hold
  BY <1>1, BreachSettled DEF Hold, world, disk
<1>2. CASE Close
  BY <1>2, BreachSettled DEF Close, world
<1>3. ASSUME NEW k \in feed \union missed, Enter(k) PROVE BreachInv'
  <2> DEFINE b == Opened(broker, IntentOf(broker, pending, market[k]), k)
  <2>1. broker' = b /\ halt = None /\ phase # "down" /\ UNCHANGED <<saved, cleared>>
    BY <1>3 DEF Enter, Accepts, Receives
  <2>2. k \in Nat /\ market[k] \in Candles
    BY ReceivedHasClosed DEF LooseInv
  <2>3. pending \in Signals(last) /\ broker \in Brokers /\ last \in Nat
    BY <1>3 DEF Enter, Wanted, LooseInv, TypeOK, Handling, Now
  <2>4. b.position \in Positions
    BY <1>3, <2>2, <2>3, IntentType, OpenedKeeps DEF Enter, Accepts
  <2>5. ~Flat(b)
    BY <2>4, NoPositionAssumption DEF Flat
  <2> QED
    BY <2>1, <2>5, BreachEntered DEF Flat
<1>4. CASE EnforceDailyLoss
  <2>1. UNCHANGED <<saved, broker, cleared, phase>> /\ step = "closed" /\ step' = "settled"
    BY <1>4 DEF EnforceDailyLoss, world, memory
  <2>2. CASE LossReached(broker)
    <3>1. halt' # None
      BY <1>0, <1>4, <2>2 DEF EnforceDailyLoss, Reasons
    <3> QED
      BY <2>1, <3>1
      DEF BreachInv, BreachStaysHalted, ReviewCoversDisk, Durable, Breached, Flat
  <2>3. CASE ~LossReached(broker)
    <3>1. ~Breached(broker) /\ halt' = halt
      BY <1>4, <2>3 DEF EnforceDailyLoss, Breached, LossReached
    <3> QED
      BY <2>1, <3>1
      DEF BreachInv, BreachStaysHalted, ReviewCoversDisk, Durable, Breached, Flat
  <2> QED
    BY <2>2, <2>3
<1>5. CASE Conclude
  <2>1. /\ step = "settled" /\ step' = "idle" /\ broker' = broker /\ halt' = halt
        /\ cleared' = cleared /\ phase' = phase
        /\ Durable' \in {broker, NewBroker}
    BY <1>5 DEF Conclude, Snapshot, Durable, world
  <2>2. Durable' = broker
    <3>1. saved' = [broker |-> broker, last |-> cur]
      BY <1>5 DEF Conclude, Snapshot
    <3>2. saved' # None
      BY <1>5, <3>1, HandledHasClosed, NoStateAssumption
      DEF Conclude, LooseInv, TypeOK, Now
    <3> QED
      BY <3>1, <3>2 DEF Durable
  <2>3. BreachStaysHalted'
    BY <2>1, <2>2 DEF BreachInv, BreachStaysHalted, Breached, Flat
  <2>4. ReviewCoversDisk'
    BY <2>1, <2>2 DEF ReviewCoversDisk, Breached, Flat
  <2> QED
    BY <2>3, <2>4 DEF BreachInv
<1>6. CASE ReleaseHalt
  <2>1. /\ UNCHANGED <<saved, broker, phase, step>>
        /\ cleared' = Greatest(cleared, LastEnforcedExit)
    BY <1>6 DEF ReleaseHalt, memory
  <2>2. /\ Durable.trades.last \in Nat /\ broker.trades.last \in Nat /\ cleared \in Nat
        /\ Durable' = Durable
    BY <2>1, NewBrokerType DEF Durable, LooseInv, TypeOK, Brokers
  <2>3. cleared' \in Nat /\ cleared' >= cleared /\ cleared' >= LastEnforcedExit
    BY <2>1, <2>2 DEF LastEnforcedExit, Greatest
  <2>4. Breached(Durable) => Durable.trades.last <= cleared'
    BY <2>2, <2>3 DEF BreachInv, ReviewCoversDisk, LastEnforcedExit
  <2>5. Breached(broker) /\ step # "closed" => broker.trades.last <= cleared'
    <3>1. CASE phase = "down"
      BY <3>1, NewBrokerUnbreached DEF LooseInv, Handling
    <3>2. CASE phase # "down"
      BY <2>2, <2>3, <3>2 DEF LastEnforcedExit
    <3> QED
      BY <3>1, <3>2
  <2>6. ReviewCoversDisk'
    BY <2>1, <2>2, <2>3 DEF BreachInv, ReviewCoversDisk, Breached, Flat
  <2> QED
    BY <2>1, <2>2, <2>4, <2>5, <2>6 DEF BreachInv, BreachStaysHalted, Breached, Flat
<1>7. CASE Resume
  <2>1. /\ broker' = Durable /\ Durable' = Durable
        /\ UNCHANGED <<halt, cleared>>
    BY <1>7 DEF Resume, MayResume, Restored, Durable, disk, world
  <2> QED
    BY <2>1 DEF BreachInv, BreachStaysHalted, ReviewCoversDisk, Breached, Flat
<1>8. CASE StartFresh
  <2>1. broker' = NewBroker /\ Durable' = NewBroker
    BY <1>8 DEF StartFresh, LooseInv, Handling, Durable, disk
  <2> QED
    BY <2>1, NewBrokerUnbreached
    DEF BreachInv, BreachStaysHalted, ReviewCoversDisk, Breached, Flat
<1>9. CASE GoesDown /\ UNCHANGED <<saved, halt, cleared>>
  BY <1>9, BreachDown
<1>10. CASE /\ UNCHANGED <<saved, broker, cleared>>
            /\ step # "closed" \/ step' = step
            /\ phase = "down" => phase' = "down"
            /\ halt' = halt \/ halt' \in Reasons
  BY <1>0, <1>10, BreachUnchanged
<1> QED
  BY <1>1, <1>2, <1>3, <1>4, <1>5, <1>6, <1>7, <1>8, <1>9, <1>10
  DEF Next, Main, Subscribe, Finish, Proceed, Handle,
      Ignore, PassEntry, RefuseEntry, Fail, DieInReplay, Environment, CloseCandle,
      StopSignal, Crash, Lose, Receives, Reasons, world, memory, disk, vars

\* A day's loss that reached the limit keeps the kill switch engaged until the
\* operator has reviewed the exit that made it: no crash between the trade, the
\* HALT file and the save, and no release of an earlier halt, loses it.
THEOREM BreachHalts == Spec => []BreachStaysHalted
<1>1. BreachInv => BreachStaysHalted
  BY DEF BreachInv
<1> QED
  BY LooseInvInit, LooseInvNext, BreachInit, BreachNext, <1>1, PTL DEF Spec

-----------------------------------------------------------------------------
(* The trades follow one another                                           *)

\* A book whose dates are in order and none later than upto.
Dated(b, upto) ==
  /\ b.trades.last <= upto
  /\ ~Flat(b) => b.trades.last < b.position.time /\ b.position.time <= upto

Dates ==
  /\ Dated(Durable, LastSaved)
  /\ Dated(broker, Greatest(last, cur))
  /\ step = "idle" => cur = 0

LEMMA NewBrokerDated == ASSUME NEW upto \in Nat PROVE Dated(NewBroker, upto)
BY DEF Dated, NewBroker, Flat

LEMMA DatesInit == Init => Dates
BY NewBrokerDated DEF Init, Dates, Durable, LastSaved, Greatest

LEMMA DatesSettled ==
  ASSUME LooseInv, Dates, step = "entered"
  PROVE  Dated(Settled(broker, market[cur], cur), Greatest(last, cur))
<1> DEFINE b == Settled(broker, market[cur], cur)
<1>1. broker \in Brokers /\ cur \in Nat /\ market[cur] \in Candles
  BY HandledHasClosed DEF LooseInv, TypeOK, Now
<1>2. CASE Closes(broker, market[cur])
  <2>1. Flat(b) /\ b.trades.last = cur
    BY <1>1, <1>2, SettledKeeps
  <2>2. cur <= Greatest(last, cur)
    BY <1>1 DEF LooseInv, TypeOK, Greatest, Now
  <2> QED
    BY <2>1, <2>2 DEF Dated
<1>3. CASE ~Closes(broker, market[cur])
  <2>1. b.position = broker.position /\ b.trades = broker.trades
    BY <1>1, <1>3, SettledKeeps
  <2> QED
    BY <2>1 DEF Dates, Dated, Flat
<1> QED
  BY <1>2, <1>3

\* A position is entered on a candle later than every exit.
LEMMA DatesEntered ==
  ASSUME LooseInv, Dates, NEW k \in feed \union missed, Enter(k)
  PROVE  Dated(broker', k)
<1>1. k \in Nat /\ market[k] \in Candles
  BY ReceivedHasClosed DEF LooseInv
<1>2. pending \in Signals(last) /\ broker \in Brokers /\ last \in Nat
  BY DEF Enter, Wanted, LooseInv, TypeOK, Handling, Now
<1>3. /\ broker' \in Brokers
      /\ broker'.position.time = k
      /\ broker'.trades = broker.trades
  BY <1>1, <1>2, IntentType, OpenedKeeps DEF Enter, Accepts
<1>4. broker.trades.last <= last /\ last < k /\ broker.trades.last \in Nat
  BY <1>2 DEF Enter, Receives, Fresh, Dates, Dated, Greatest, Brokers
<1> QED
  BY <1>1, <1>2, <1>3, <1>4 DEF Dated

LEMMA DatesNext == LooseInv /\ Dates /\ [Next]_vars => Dates'
<1> SUFFICES ASSUME LooseInv, Dates, [Next]_vars PROVE Dates'
  OBVIOUS
<1>0. /\ broker \in Brokers /\ broker.trades.last \in Nat
      /\ ~Flat(broker) => broker.position.time \in Nat
      /\ last \in Nat /\ cur \in Nat /\ Now \in Nat
  BY DEF LooseInv, TypeOK, Brokers, Positions, Flat, Now
<1>1. CASE Hold \/ Close
  <2>1. /\ broker' = Settled(broker, market[cur], cur)
        /\ step = "entered" /\ step' # "idle"
        /\ UNCHANGED <<saved, last, cur>>
    BY <1>1 DEF Hold, Close, world, disk
  <2>2. Dated(Settled(broker, market[cur], cur), Greatest(last, cur))
    BY <2>1, DatesSettled
  <2> QED
    BY <2>1, <2>2 DEF Dates, Dated, Durable, LastSaved, Flat
<1>2. ASSUME NEW k \in feed \union missed, PassEntry(k) \/ RefuseEntry(k) \/ Enter(k)
      PROVE  Dates'
  <2>1. /\ cur' = k /\ step' = "entered" /\ UNCHANGED <<saved, last>>
        /\ last < k /\ k \in Nat /\ step = "idle"
    BY <1>2, ReceivedHasClosed
    DEF PassEntry, RefuseEntry, Enter, Fresh, Receives, LooseInv, memory, disk
  <2>2. Greatest(last, cur) = last /\ Greatest(last, k) = k
    BY <1>0, <2>1 DEF Dates, Greatest
  <2>3. Dated(broker', k)
    <3>1. CASE Enter(k)
      BY <3>1, DatesEntered
    <3>2. CASE broker' = broker
      BY <1>0, <2>1, <2>2, <3>2 DEF Dates, Dated, Flat
    <3> QED
      BY <1>2, <3>1, <3>2 DEF PassEntry, RefuseEntry, memory
  <2> QED
    BY <2>1, <2>2, <2>3 DEF Dates, Dated, Durable, LastSaved, Flat
<1>3. CASE Conclude
  <2>1. /\ broker' = broker /\ last' = cur /\ cur' = 0 /\ last < cur
        /\ saved' = [broker |-> broker, last |-> cur]
    BY <1>3 DEF Conclude, Snapshot, LooseInv, Handling
  <2>2. saved' # None
    BY <1>3, <2>1, HandledHasClosed, NoStateAssumption
    DEF Conclude, LooseInv, TypeOK, Now
  <2>3. Durable' = broker /\ LastSaved' = cur
    BY <2>1, <2>2 DEF Durable, LastSaved
  <2>4. Greatest(last, cur) = cur /\ Greatest(cur, 0) = cur
    BY <1>0, <2>1 DEF Greatest
  <2>5. Dated(broker, cur)
    BY <2>4 DEF Dates
  <2> QED
    BY <2>1, <2>3, <2>4, <2>5 DEF Dates, Dated, Flat
<1>4. CASE Resume
  <2>1. /\ broker' = Durable /\ Durable' = Durable
        /\ last' = LastSaved /\ LastSaved' = LastSaved
        /\ step' = step /\ cur' = cur /\ phase = "down"
    BY <1>4 DEF Resume, MayResume, Restored, Durable, LastSaved, disk, world
  <2>2. cur = 0 /\ LastSaved \in Nat
    BY <2>1 DEF LooseInv, Handling, Dates, TypeOK, LastSaved, Now
  <2>3. Greatest(LastSaved, 0) = LastSaved
    BY <2>2 DEF Greatest
  <2> QED
    BY <2>1, <2>2, <2>3 DEF Dates, Dated, Flat
<1>5. CASE StartFresh
  <2>1. /\ broker' = NewBroker /\ Durable' = Durable /\ LastSaved' = LastSaved
        /\ last' = Now /\ UNCHANGED <<step, cur>> /\ step = "idle"
    BY <1>5 DEF StartFresh, LooseInv, Handling, Durable, LastSaved, disk
  <2>2. Greatest(Now, cur) \in Nat
    BY <1>0 DEF Greatest
  <2>3. Dated(NewBroker, Greatest(Now, cur))
    BY <2>2, NewBrokerDated
  <2> QED
    BY <2>1, <2>3 DEF Dates, Dated, Flat
<1>6. CASE GoesDown /\ UNCHANGED saved
  BY <1>6, NewBrokerDated DEF GoesDown, Dates, Dated, Durable, LastSaved, Greatest, Flat
<1>7. CASE UNCHANGED <<saved, broker, last, cur>> /\ (step' = "idle" => step = "idle")
  BY <1>7 DEF Dates, Dated, Durable, LastSaved, Flat
<1> QED
  BY <1>1, <1>2, <1>3, <1>4, <1>5, <1>6, <1>7
  DEF Next, Main, Subscribe, Finish, Proceed, EnforceDailyLoss, Handle,
      Ignore, Fail, DieInReplay, Environment, CloseCandle,
      StopSignal, Crash, ReleaseHalt, Lose, world, memory, disk, vars

\* The trades of memory and of the disk follow one another, and a queued signal
\* is that of the candle handled last.
THEOREM TradesInOrder == Spec => []Timeline
<1>1. LooseInv /\ Dates => Timeline
  BY DEF Dates, Dated, Timeline, InOrder, LooseInv, Handling, Signals
<1> QED
  BY LooseInvInit, LooseInvNext, DatesInit, DatesNext, <1>1, PTL DEF Spec

-----------------------------------------------------------------------------
(* No position appears in the saved book while the HALT file is there      *)

\* A handler under way has entered nothing that the halt it met forbids, and
\* the position of an exit is gone.
Frozen ==
  /\ step # "idle" /\ halt # None /\ Flat(Durable) => Flat(broker)
  /\ step = "closed" => Flat(broker)

FrozenInv == BookInv /\ Frozen

LEMMA FrozenInit == Init => FrozenInv
BY BookInvInit DEF FrozenInv, Frozen, Init

LEMMA FrozenNext == FrozenInv /\ [Next]_vars => FrozenInv'
<1> SUFFICES ASSUME FrozenInv, [Next]_vars PROVE Frozen'
  BY BookInvNext DEF FrozenInv
<1>0. BookInv /\ LooseInv /\ Frozen
  BY TypeInvIsLoose DEF FrozenInv, BookInv
<1>1. CASE Hold \/ Close
  <2>1. /\ broker' = Settled(broker, market[cur], cur) /\ step = "entered"
        /\ step' = (IF Closes(broker, market[cur]) THEN "closed" ELSE "settled")
        /\ UNCHANGED <<saved, halt>>
    BY <1>1 DEF Hold, Close, world, disk
  <2>2. broker \in Brokers /\ cur \in Nat /\ market[cur] \in Candles
    BY <1>0, <2>1, HandledHasClosed DEF LooseInv, TypeOK, Now
  <2>3. CASE Closes(broker, market[cur])
    <3>1. Flat(Settled(broker, market[cur], cur))
      BY <2>2, <2>3, SettledKeeps
    <3> QED
      BY <2>1, <3>1 DEF Frozen, Flat
  <2>4. CASE ~Closes(broker, market[cur])
    <3>1. Settled(broker, market[cur], cur).position = broker.position
      BY <2>2, <2>4, SettledKeeps
    <3> QED
      BY <1>0, <2>1, <2>4, <3>1 DEF Frozen, Flat, Durable
  <2> QED
    BY <2>3, <2>4
<1>2. ASSUME NEW k \in feed \union missed, PassEntry(k) \/ RefuseEntry(k) PROVE Frozen'
  <2>1. /\ broker = Durable /\ step' = "entered"
        /\ UNCHANGED <<saved, broker, halt>>
    BY <1>0, <1>2
    DEF PassEntry, RefuseEntry, Receives, BookInv, MemoryFollowsDisk, memory, disk
  <2> QED
    BY <2>1 DEF Frozen, Flat, Durable
<1>3. ASSUME NEW k \in feed \union missed, Enter(k) PROVE Frozen'
  BY <1>3 DEF Enter, Accepts, Frozen
<1>4. CASE EnforceDailyLoss
  BY <1>0, <1>4 DEF EnforceDailyLoss, Frozen, Flat, memory
<1>5. CASE step' = "idle"
  BY <1>5 DEF Frozen
<1>6. CASE ReleaseHalt
  BY <1>0, <1>6 DEF ReleaseHalt, Frozen, Flat, memory
<1>7. CASE UNCHANGED <<saved, halt, broker, step>>
  BY <1>0, <1>7 DEF Frozen, Flat, Durable
<1>8. CASE Resume
  BY <1>0, <1>8 DEF Resume, LooseInv, Handling, Frozen
<1> QED
  BY <1>1, <1>2, <1>3, <1>4, <1>5, <1>6, <1>7, <1>8
  DEF Next, Main, StartFresh, Subscribe, Finish, Proceed, Conclude, Handle,
      Ignore, Fail, DieInReplay, Environment, CloseCandle, GoesDown, Receives,
      StopSignal, Crash, Lose, world, memory, disk, vars

LEMMA HaltFreezesStep ==
  FrozenInv /\ [Next]_vars => [halt # None /\ Flat(Durable) => Flat(Durable)']_vars
<1> SUFFICES ASSUME FrozenInv, [Next]_vars, halt # None, Flat(Durable)
             PROVE  Flat(Durable')
  BY DEF Flat
<1>1. CASE Conclude
  <2>1. Durable' \in {broker, NewBroker} /\ step = "settled"
    BY <1>1 DEF Conclude, Snapshot, Durable
  <2>2. Flat(broker)
    BY <2>1 DEF FrozenInv, Frozen
  <2> QED
    BY <2>1, <2>2 DEF NewBroker, Flat
<1>2. CASE UNCHANGED saved
  BY <1>2 DEF Durable
<1> QED
  BY <1>1, <1>2, StutterOrStep DEF CloseCandle, disk

\* While the HALT file is there the saved book does not go from flat to a
\* position, not even by a save that a handler under way makes.
THEOREM HaltFreezes == Spec => HaltFreezesBook
BY FrozenInit, FrozenNext, HaltFreezesStep, PTL DEF Spec, HaltFreezesBook

-----------------------------------------------------------------------------
(* Entries are made below the limit of the day they are made on            *)

SolventInv == LooseInv /\ Solvent(broker) /\ Solvent(Durable)

LEMMA NewBrokerSolvent == Solvent(NewBroker)
BY RunnerAssumption DEF Solvent, NewBroker, Flat

LEMMA SolventInit == Init => SolventInv
BY LooseInvInit, NewBrokerSolvent DEF SolventInv, Init, Durable

LEMMA SolventNext == SolventInv /\ [Next]_vars => SolventInv'
<1> SUFFICES ASSUME SolventInv, [Next]_vars PROVE Solvent(broker') /\ Solvent(Durable')
  BY LooseInvNext DEF SolventInv, Solvent, Flat
<1>0. LooseInv /\ Solvent(broker) /\ Solvent(Durable)
  BY DEF SolventInv
<1>1. CASE Conclude
  <2>1. broker' = broker /\ (Durable' = broker \/ Durable' = NewBroker)
    BY <1>1 DEF Conclude, Snapshot, Durable
  <2> QED
    BY <1>0, <2>1, NewBrokerSolvent
<1>2. CASE Hold \/ Close
  <2>1. broker' = Settled(broker, market[cur], cur) /\ Durable' = Durable
    BY <1>2 DEF Hold, Close, disk, Durable
  <2>2. broker \in Brokers /\ cur \in Nat /\ market[cur] \in Candles
    BY <1>0, <1>2, HandledHasClosed DEF Hold, Close, LooseInv, TypeOK, Now
  <2> QED
    BY <1>0, <2>1, <2>2, SettledSolvent
<1>3. ASSUME NEW k \in feed \union missed, Enter(k)
      PROVE  Solvent(broker') /\ Solvent(Durable')
  <2>1. /\ broker' = Opened(broker, IntentOf(broker, pending, market[k]), k)
        /\ Durable' = Durable
    BY <1>3 DEF Enter, Durable
  <2>2. k \in Nat /\ market[k] \in Candles
    BY <1>0, ReceivedHasClosed DEF LooseInv
  <2>3. pending \in Signals(last) /\ broker \in Brokers /\ last \in Nat
    BY <1>0, <1>3 DEF Enter, Wanted, LooseInv, TypeOK, Handling, Now
  <2> QED
    BY <1>0, <1>3, <2>1, <2>2, <2>3, OpenedSolvent DEF Enter, Accepts
<1>4. CASE Resume
  BY <1>0, <1>4 DEF Resume, MayResume, Restored, disk, Durable
<1>5. CASE GoesDown /\ saved' = saved
  BY <1>0, <1>5, NewBrokerSolvent DEF GoesDown, Durable
<1>6. CASE UNCHANGED <<broker, saved>>
  BY <1>0, <1>6 DEF Durable
<1> QED
  BY <1>1, <1>2, <1>3, <1>4, <1>5, <1>6
  DEF Next, Main, StartFresh, Subscribe, Finish, Proceed, EnforceDailyLoss, Handle,
      Ignore, PassEntry, RefuseEntry, Fail, DieInReplay, Environment, CloseCandle,
      StopSignal, Crash, ReleaseHalt, Lose, world, memory, disk, vars

\* The guardrail looks at the loss of the broker's last day and at its share
\* of the equity; the loss of the day entered on, as a share of that day's
\* start, is below the limit all the same.
LEMMA ApprovedWithinDailyLoss ==
  ASSUME NEW b \in Brokers, NEW signal, NEW candle, NEW k \in Nat, Solvent(b),
         RiskApproves(b, signal, candle)
  PROVE  (Rolled(b, k).dayStart - b.equity) * Unit
            < Rolled(b, k).dayStart * DailyLossLimit
<1> DEFINE e == b.equity
           d == b.dayStart
<1>1. e \in Int /\ d \in Int /\ Unit \in Nat \ {0} /\ DailyLossLimit \in Nat \ {0}
  BY RatesAssumption, SettingsAssumption DEF Brokers, ValidSettings
<1>2. e > 0 /\ ~((e - d) * Unit <= -(e * DailyLossLimit))
  BY DEF RiskApproves, Approved, Admissible, DailyLossReached, AccountOf, DailyPnl
<1>3. d > 0
  BY <1>2 DEF Solvent
<1> HIDE DEF e, d
<1>4. e * DailyLossLimit > 0 /\ e * DailyLossLimit \in Int /\ d * DailyLossLimit \in Nat
  BY <1>1, <1>2, <1>3
<1>5. CASE b.day = Day(k)
  <2>1. (d - e) * Unit = -((e - d) * Unit) /\ (d - e) * Unit \in Int
    BY <1>1
  <2>2. (d - e) * Unit < e * DailyLossLimit
    BY <1>1, <1>2, <1>4, <2>1
  <2>3. CASE e <= d
    <3>1. e * DailyLossLimit <= d * DailyLossLimit
      BY <1>1, <1>2, <1>3, <2>3, TimesMonotone
    <3> QED
      BY <1>4, <1>5, <2>1, <2>2, <3>1 DEF Rolled, e, d
  <2>4. CASE d < e
    <3>1. (e - d) * Unit > 0 /\ (e - d) * Unit \in Int
      BY <1>1, <2>4
    <3>2. d * DailyLossLimit > 0
      BY <1>1, <1>3
    <3> QED
      BY <1>4, <1>5, <2>1, <3>1, <3>2 DEF Rolled, e, d
  <2> QED
    BY <1>1, <2>3, <2>4
<1>6. CASE b.day # Day(k)
  <2>1. Rolled(b, k).dayStart = e
    BY <1>6 DEF Rolled, Brokers, e
  <2>2. (e - e) * Unit = 0
    BY <1>1
  <2> QED
    BY <1>4, <2>1, <2>2 DEF e
<1> QED
  BY <1>5, <1>6

LEMMA EntryWithinStep ==
  SolventInv /\ [Next]_vars =>
    [step = "idle" /\ step' = "entered" /\ Flat(broker) /\ ~Flat(broker)'
       => (broker'.dayStart - broker.equity) * Unit
            < broker'.dayStart * DailyLossLimit]_vars
<1> SUFFICES ASSUME SolventInv, [Next]_vars, step = "idle", step' = "entered",
                    Flat(broker), ~Flat(broker')
             PROVE  (broker'.dayStart - broker.equity) * Unit
                      < broker'.dayStart * DailyLossLimit
  BY DEF Flat
<1>1. ASSUME NEW k \in feed \union missed, Enter(k)
      PROVE  (broker'.dayStart - broker.equity) * Unit
               < broker'.dayStart * DailyLossLimit
  <2>1. broker' = Opened(broker, IntentOf(broker, pending, market[k]), k)
    BY <1>1 DEF Enter
  <2>2. k \in Nat /\ market[k] \in Candles
    BY ReceivedHasClosed DEF SolventInv, LooseInv
  <2>3. pending \in Signals(last) /\ broker \in Brokers /\ last \in Nat
    BY <1>1 DEF Enter, Wanted, SolventInv, LooseInv, TypeOK, Handling, Now
  <2>4. broker'.dayStart = Rolled(broker, k).dayStart
    BY <1>1, <2>1, <2>2, <2>3, OpenedSolvent DEF Enter, Accepts, SolventInv
  <2> QED
    BY <1>1, <2>2, <2>3, <2>4, ApprovedWithinDailyLoss DEF Enter, SolventInv
<1>2. \E k \in feed \union missed : Enter(k)
  <2>1. CASE broker' = broker
    BY <2>1
  <2>2. CASE step' # "entered"
    BY <2>2
  <2> QED
    BY <2>1, <2>2
    DEF Next, Main, StartFresh, Resume, Subscribe, Finish, Proceed, Hold, Close,
        EnforceDailyLoss, Conclude, Handle, GoesDown,
        Ignore, PassEntry, RefuseEntry, Fail, DieInReplay, Environment, CloseCandle,
        StopSignal, Crash, ReleaseHalt, Lose, world, memory, disk, vars
<1> QED
  BY <1>1, <1>2

\* Every entry is made while the loss of its own day is below the limit.
THEOREM EntriesWithinDailyLoss == Spec => EntryWithinDailyLoss
BY SolventInit, SolventNext, EntryWithinStep, PTL DEF Spec, EntryWithinDailyLoss
=============================================================================

---------------------------- MODULE DaemonProofs ----------------------------
(***************************************************************************)
(* First the service, whoever starts it: for every configuration, every    *)
(* board and any interleaving of the two.  Then the process under its      *)
(* unit, for every way in which a process can end.                         *)
(***************************************************************************)
EXTENDS Daemon, ControllerProofs

FanByteOK == fanByte \in Byte

LEMMA InitFanByte == ServiceInit => FanByteOK
  BY ServiceAssumption DEF ServiceInit, FanByteOK, Byte

LEMMA NextFanByte == FanByteOK /\ [ServiceNext]_serviceVars => FanByteOK'
<1> SUFFICES ASSUME FanByteOK, [ServiceNext]_serviceVars PROVE FanByteOK'
  OBVIOUS
<1>1. CASE Environment
  <2>1. 0 \in Byte /\ BootBytes \subseteq Byte /\ ForeignBytes \subseteq Byte
    BY ServiceAssumption DEF Byte
  <2>. QED
    BY <1>1, <2>1
       DEF Environment, Unplug, Plug, FaultChanges, ForeignByte, FanByteOK
<1>2. CASE ApplyDelivered
  BY <1>2 DEF ApplyDelivered, WriteByte, Stored, FanByteOK
<1>3. CASE Shutdown
  BY <1>3 DEF Shutdown, WriteByte, WriteError, Stored, FanByteOK
<1>4. CASE ApplyFailed
  BY <1>4 DEF ApplyFailed, WriteError, FanByteOK
<1>5. CASE Sense \/ Decide \/ ApplyAbsent \/ ApplyNothing \/ Record \/ Sleep \/ Stop
  BY <1>5 DEF Sense, Decide, ApplyAbsent, ApplyNothing, Record, Sleep, Stop,
              boardVars, FanByteOK
<1>6. CASE UNCHANGED serviceVars
  BY <1>6 DEF serviceVars, boardVars, FanByteOK
<1>. QED
  BY <1>1, <1>2, <1>3, <1>4, <1>5, <1>6 DEF ServiceNext, Tick

\* Every step of the service is a call the control law allows, or none.
LEMMA ServiceCalls ==
  ASSUME Readbacks = Byte, FanByteOK, [ServiceNext]_serviceVars
  PROVE  [Next]_controllerVars
<1>1. CASE Sense
  BY <1>1 DEF Sense, Next
<1>2. CASE Decide
  <2>1. (IF DryRun THEN None ELSE ReadBack) \in Readbacks \cup {None}
    BY DEF ReadBack, FanByteOK
  <2>2. SomeStep
    BY <1>2, <2>1 DEF Decide, SomeStep
  <2>. QED
    BY <2>2 DEF Next
<1>3. CASE ApplyAbsent \/ ApplyFailed
  BY <1>3 DEF ApplyAbsent, ApplyFailed, Next
<1>4. CASE Sleep
  BY <1>4 DEF Sleep, Passing, Next
<1>5. CASE ApplyDelivered \/ ApplyNothing \/ Record \/ Stop \/ Shutdown \/ Environment
  BY <1>5 DEF ApplyDelivered, ApplyNothing, Record, Stop, Shutdown, Environment
<1>6. CASE UNCHANGED serviceVars
  BY <1>6 DEF serviceVars
<1>. QED
  BY <1>1, <1>2, <1>3, <1>4, <1>5, <1>6 DEF ServiceNext, Tick

\* The service drives the control law only as Controller assumes, so everything
\* proved of Controller holds inside the service (service.rs 76-149).
THEOREM ServiceObeysController ==
  ASSUME Readbacks = Byte
  PROVE  ServiceSpec => Spec
<1>1. ServiceInit => Init
  BY DEF ServiceInit
<1>2. FanByteOK /\ [ServiceNext]_serviceVars => [Next]_controllerVars
  BY ServiceCalls
<1>. QED
  BY <1>1, <1>2, InitFanByte, NextFanByte, PTL DEF ServiceSpec, Spec

\* In particular the duty the service computes always covers the temperature,
\* whatever the board does (controller.rs 129-167 under service.rs 76-98).
THEOREM ServiceDutyCovers ==
  ASSUME Readbacks = Byte
  PROVE  ServiceSpec => []DutyCoversTemperature
  BY ServiceObeysController, DutyAlwaysCovers, PTL

-----------------------------------------------------------------------------
\* Between a decision to write and its outcome the controller already believes
\* in the byte; at every other point of a tick only a delivered byte is believed.
BelievesDelivered == lastWritten # None => lastWritten = delivered

DeliveryInv ==
  ~DryRun =>
    /\ pc \in {"sense", "decide", "record", "idle"} => BelievesDelivered
    /\ pc = "apply" => IF decision.write THEN lastWritten = decision.pwm
                                         ELSE BelievesDelivered

LEMMA InitDelivery == ServiceInit => DeliveryInv
  BY DEF ServiceInit, Init, DeliveryInv, BelievesDelivered

LEMMA NextDelivery == DeliveryInv /\ [ServiceNext]_serviceVars => DeliveryInv'
<1> SUFFICES ASSUME DeliveryInv, [ServiceNext]_serviceVars, ~DryRun
             PROVE  DeliveryInv'
  BY DEF DeliveryInv
<1>1. CASE Sense
  <2>1. lastWritten' = lastWritten
    BY <1>1 DEF Sense, Kick, controllerVars
  <2>. QED
    BY <1>1, <2>1 DEF Sense, DeliveryInv, BelievesDelivered
<1>2. CASE Decide
  <2>1. PICK reading \in Temps \cup {None} :
          Step(reading, IF DryRun THEN None ELSE ReadBack)
    BY <1>2 DEF Decide
  <2>2. IF decision'.write THEN lastWritten' = decision'.pwm
                           ELSE lastWritten' = lastWritten
    BY <2>1 DEF Step, StepWith
  <2>3. BelievesDelivered /\ pc' = "apply" /\ delivered' = delivered
    BY <1>2 DEF Decide, DeliveryInv, historyVars
  <2>. QED
    BY <2>2, <2>3 DEF DeliveryInv, BelievesDelivered
<1>3. CASE ApplyAbsent \/ ApplyFailed
  <2>1. lastWritten' = None
    BY <1>3 DEF ApplyAbsent, ApplyFailed, WriteFailed
  <2>2. pc' \in {"record", "stopping"}
    BY <1>3 DEF ApplyAbsent, ApplyFailed
  <2>. QED
    BY <2>1, <2>2 DEF DeliveryInv, BelievesDelivered
<1>4. CASE ApplyDelivered
  <2>1. delivered' = decision.pwm /\ lastWritten' = lastWritten /\ pc' = "record"
    BY <1>4 DEF ApplyDelivered, WriteByte, controllerVars
  <2>2. lastWritten = decision.pwm
    BY <1>4 DEF ApplyDelivered, Applies, DeliveryInv
  <2>. QED
    BY <2>1, <2>2 DEF DeliveryInv, BelievesDelivered
<1>5. CASE ApplyNothing
  <2>1. BelievesDelivered
    BY <1>5 DEF ApplyNothing, DeliveryInv
  <2>. QED
    BY <1>5, <2>1 DEF ApplyNothing, controllerVars, historyVars, DeliveryInv,
                      BelievesDelivered
<1>6. CASE Record \/ Stop \/ Shutdown
  BY <1>6 DEF Record, Stop, Shutdown, controllerVars, historyVars, DeliveryInv,
              BelievesDelivered
<1>7. CASE Sleep
  BY <1>7 DEF Sleep, Elapse, DeliveryInv, BelievesDelivered
<1>8. CASE Environment
  BY <1>8 DEF Environment, Unplug, Plug, FaultChanges, ForeignByte, controllerVars,
              DeliveryInv, BelievesDelivered
<1>9. CASE UNCHANGED serviceVars
  BY <1>9 DEF serviceVars, controllerVars, historyVars, DeliveryInv, BelievesDelivered
<1>. QED
  BY <1>1, <1>2, <1>3, <1>4, <1>5, <1>6, <1>7, <1>8, <1>9 DEF ServiceNext, Tick

\* Between ticks the controller believes in a byte only if it is the last one a
\* board accepted, whatever the board did in between (service.rs 99-115,
\* controller.rs 92-94).
THEOREM BeliefIsDelivery == ServiceSpec => []BelievedIsDelivered
<1>1. DeliveryInv => BelievedIsDelivered
  BY DEF DeliveryInv, BelievedIsDelivered, BelievesDelivered
<1>. QED
  BY <1>1, InitDelivery, NextDelivery, PTL DEF ServiceSpec

-----------------------------------------------------------------------------
\* What the tick knows of its board while that is left alone, and what the state
\* file may say.
TickInv ==
  ~DryRun =>
    /\ pc \in {"decide", "apply"} /\ calm => devicePresent = (board # None)
    /\ pc \in {"apply", "record"} => decision.pwm = PctToPwm(appliedPct)
    /\ pc = "apply" =>
         /\ lastWritten = decision.pwm
         /\ calm /\ Writable /\ ~decision.write => Distance(fanByte, decision.pwm) <= 1
    /\ pc = "record" =>
         /\ lastError = "none" => decision.pwm = delivered
         /\ calm /\ Writable => Distance(fanByte, decision.pwm) <= 1
    /\ pc = "idle" =>
         /\ calm /\ Writable => Distance(fanByte, PctToPwm(appliedPct)) <= 1

LEMMA InitTick == ServiceInit => TickInv
  BY DEF ServiceInit, TickInv

\* A step decides the applied duty's byte, believes in it, and if it does not write
\* it has read back that byte or a neighbour.
LEMMA StepDecides ==
  ASSUME TypeOK', NEW reading \in Temps \cup {None}, NEW readback \in Byte \cup {None},
         Step(reading, readback)
  PROVE  /\ decision'.pwm = PctToPwm(appliedPct')
         /\ lastWritten' = decision'.pwm
         /\ ~decision'.write /\ readback # None => Distance(readback, decision'.pwm) <= 1
<1>1. PICK average \in EmaAfter(reading) : StepWith(reading, readback, average)
  BY DEF Step
<1> DEFINE pwm == PctToPwm(appliedPct')
           write == MustWrite(pwm, readback)
<1>2. /\ decision'.pwm = pwm /\ decision'.write = write
      /\ lastWritten' = IF write THEN pwm ELSE lastWritten
  BY <1>1 DEF StepWith
<1>3. pwm \in Byte
  BY <1>2 DEF TypeOK
<1> HIDE DEF pwm
<1>4. ~write => lastWritten = pwm /\ ~ForeignWrite(readback)
  BY DEF MustWrite
<1> HIDE DEF write
<1>5. ~write /\ readback # None => Distance(readback, pwm) <= 1
  <2> SUFFICES ASSUME ~write, readback # None PROVE Distance(readback, pwm) <= 1
    OBVIOUS
  <2>1. pwm # None /\ readback \in Int /\ pwm \in Int
    BY <1>3, NoneAssumption DEF Byte
  <2>2. ~(Distance(readback, pwm) > 1)
    BY <1>4, <2>1 DEF ForeignWrite
  <2>. QED
    BY <2>1, <2>2 DEF Distance
<1>. QED
  BY <1>2, <1>4, <1>5 DEF pwm

LEMMA NextTick ==
  ASSUME TypeOK, TypeOK', FanByteOK, DeliveryInv, TickInv, [ServiceNext]_serviceVars
  PROVE  TickInv'
<1> SUFFICES ASSUME ~DryRun PROVE TickInv'
  BY DEF TickInv
<1>1. CASE Sense
  BY <1>1 DEF Sense, boardVars, TickInv
<1>2. CASE Decide
  <2>1. PICK reading \in Temps \cup {None} : Step(reading, ReadBack)
    BY <1>2 DEF Decide
  <2>2. ReadBack \in Byte \cup {None}
    BY DEF ReadBack, FanByteOK
  <2>3. /\ decision'.pwm = PctToPwm(appliedPct')
        /\ lastWritten' = decision'.pwm
        /\ ~decision'.write /\ ReadBack # None => Distance(ReadBack, decision'.pwm) <= 1
    BY <2>1, <2>2, StepDecides
  <2>4. Writable => ReadBack = fanByte /\ fanByte # None
    BY NoneAssumption DEF Writable, Readable, ReadBack, FanByteOK, Byte
  <2>5. /\ pc = "decide" /\ pc' = "apply"
        /\ UNCHANGED <<board, fanByte, fault, calm, devicePresent>>
    BY <1>2 DEF Decide, boardVars, historyVars
  <2>6. Writable' = Writable
    BY <2>5 DEF Writable
  <2>7. calm => devicePresent = (board # None)
    BY <2>5 DEF TickInv
  <2>8. calm' /\ Writable' /\ ~decision'.write => Distance(fanByte', decision'.pwm) <= 1
    BY <2>3, <2>4, <2>5, <2>6
  <2>. QED
    BY <2>3, <2>5, <2>7, <2>8 DEF TickInv
<1>3. CASE ApplyAbsent
  <2>1. /\ pc = "apply" /\ pc' = "record" /\ ~devicePresent /\ lastError' = "absent"
        /\ UNCHANGED <<board, fanByte, fault, calm, decision, appliedPct>>
    BY <1>3 DEF ApplyAbsent, Applies, WriteFailed, boardVars, historyVars, lawVars
  <2>2. ~(calm' /\ Writable')
    BY <2>1 DEF TickInv, Writable
  <2>. QED
    BY <2>1, <2>2 DEF TickInv
<1>4. CASE ApplyFailed
  <2>1. /\ pc = "apply" /\ pc' \in {"record", "stopping"} /\ ~Writable /\ lastError' = "failed"
        /\ UNCHANGED <<board, fanByte, fault, calm, decision, appliedPct>>
    BY <1>4 DEF ApplyFailed, Applies, WriteError, WriteFailed, lawVars
  <2>2. ~Writable'
    BY <2>1 DEF Writable
  <2>. QED
    BY <2>1, <2>2 DEF TickInv
<1>5. CASE ApplyDelivered
  <2>1. /\ pc = "apply" /\ pc' = "record" /\ delivered' = decision.pwm
        /\ fanByte' \in Stored(decision.pwm)
        /\ UNCHANGED <<decision, appliedPct>>
    BY <1>5 DEF ApplyDelivered, Applies, WriteByte, controllerVars, lawVars
  <2>2. decision.pwm \in Int
    BY DEF TypeOK, Byte
  <2>3. Distance(fanByte', decision.pwm) <= 1
    BY <2>1, <2>2, ServiceAssumption DEF Stored, Distance
  <2>. QED
    BY <2>1, <2>3 DEF TickInv
<1>6. CASE ApplyNothing
  <2>1. /\ pc = "apply" /\ pc' = "record" /\ ~decision.write
        /\ UNCHANGED <<board, fanByte, fault, calm, decision, appliedPct, delivered, lastWritten>>
    BY <1>6 DEF ApplyNothing, controllerVars, lawVars, boardVars, historyVars
  <2>2. decision.pwm # None
    BY NoneAssumption DEF TypeOK, Byte
  <2>3. decision.pwm = delivered
    BY <2>1, <2>2 DEF TickInv, DeliveryInv, BelievesDelivered
  <2>4. Writable' = Writable
    BY <2>1 DEF Writable
  <2>. QED
    BY <2>1, <2>3, <2>4 DEF TickInv
<1>7. CASE Record
  <2>1. /\ pc = "record" /\ pc' = "idle"
        /\ UNCHANGED <<board, fanByte, fault, calm, decision, appliedPct, delivered>>
    BY <1>7 DEF Record, controllerVars, lawVars, boardVars, historyVars
  <2>2. Writable' = Writable
    BY <2>1 DEF Writable
  <2>. QED
    BY <2>1, <2>2 DEF TickInv
<1>8. CASE Sleep \/ Stop \/ Shutdown
  BY <1>8 DEF Sleep, Stop, Shutdown, TickInv
<1>9. CASE Environment
  <2>1. calm' = FALSE /\ delivered' = delivered
    BY <1>9 DEF Environment, Unplug, Plug, FaultChanges, ForeignByte, Disturb
  <2>2. UNCHANGED <<pc, status, decision, appliedPct, lastWritten, lastError>>
    BY <1>9 DEF Environment, controllerVars, lawVars, countVars
  <2>. QED
    BY <2>1, <2>2 DEF TickInv
<1>10. CASE UNCHANGED serviceVars
  BY <1>10 DEF serviceVars, controllerVars, lawVars, boardVars, countVars, historyVars, TickInv,
               Writable
<1>. QED
  BY <1>1, <1>2, <1>3, <1>4, <1>5, <1>6, <1>7, <1>8, <1>9, <1>10 DEF ServiceNext, Tick

LEMMA TickInvariant == ASSUME Readbacks = Byte PROVE ServiceSpec => []TickInv
<1>1. ServiceSpec => []TypeOK
  BY ServiceObeysController, TypeCorrect, PTL
<1>2. TypeOK /\ TypeOK' /\ FanByteOK /\ DeliveryInv /\ TickInv /\ [ServiceNext]_serviceVars
        => TickInv'
  BY NextTick
<1>. QED
  BY <1>1, <1>2, InitTick, InitFanByte, NextFanByte, InitDelivery, NextDelivery, PTL DEF ServiceSpec

\* One undisturbed tick puts the fan right, whatever happened before it
\* (service.rs 97-127, controller.rs 169-190).
THEOREM OneTickDelivers ==
  ASSUME Readbacks = Byte
  PROVE  ServiceSpec => []CleanTickDelivers
<1>1. TickInv => CleanTickDelivers
  BY DEF TickInv, CleanTickDelivers, CleanTick
<1>. QED
  BY <1>1, TickInvariant, PTL

\* The state file.  Without an error in the last write's outcome, nothing counts
\* towards the limit; and the file only says so of a byte that was delivered.
FileInv ==
  ~DryRun =>
    /\ lastError = "none" => writeFailures = 0
    /\ StatusIsHonest

LEMMA NextFile ==
  ASSUME TickInv, FileInv, [ServiceNext]_serviceVars
  PROVE  FileInv'
<1> SUFFICES ASSUME ~DryRun PROVE FileInv'
  BY DEF FileInv
<1>1. CASE Record
  <2>1. /\ pc = "record"
        /\ UNCHANGED <<lastError, writeFailures, delivered>>
    BY <1>1 DEF Record, countVars
  <2>2. lastError = "none" => writeFailures = 0 /\ decision.pwm = delivered
    BY <2>1 DEF TickInv, FileInv
  <2>3. CASE Written
    BY <2>1, <2>2, <2>3 DEF Written, FileInv, StatusIsHonest
  <2>4. CASE WriteLost
    <3>1. file' # "current" /\ (file' # "outdated" => file # "outdated") /\ status' = status
      BY <2>4 DEF WriteLost
    <3>. QED
      BY <2>1, <2>2, <3>1 DEF FileInv, StatusIsHonest
  <2>. QED
    BY <1>1, <2>3, <2>4 DEF Record
<1>2. CASE ApplyDelivered
  <2>1. file' = "outdated" /\ writeFailures' = 0
    BY <1>2 DEF ApplyDelivered, WriteByte
  <2>. QED
    BY <2>1 DEF FileInv, StatusIsHonest
<1>3. CASE ApplyAbsent \/ ApplyFailed
  <2>1. /\ lastError' # "none" /\ pc' # "idle"
        /\ UNCHANGED <<status, file, delivered>>
    BY <1>3 DEF ApplyAbsent, ApplyFailed, WriteError, historyVars
  <2>. QED
    BY <2>1 DEF FileInv, StatusIsHonest
<1>4. CASE Shutdown
  <2>1. /\ pc' # "idle" /\ UNCHANGED <<lastError, writeFailures, status>>
        /\ file' = "outdated" \/ UNCHANGED <<file, delivered>>
    BY <1>4 DEF Shutdown, WriteByte, WriteError, countVars
  <2>. QED
    BY <2>1 DEF FileInv, StatusIsHonest
<1>5. CASE Sense \/ Decide \/ ApplyNothing \/ Sleep \/ Stop \/ Environment
  <2>1. UNCHANGED <<lastError, writeFailures, status, file, delivered>>
    BY <1>5 DEF Sense, Decide, ApplyNothing, Sleep, Stop, Environment, Unplug, Plug,
                FaultChanges, ForeignByte, countVars, historyVars
  <2>2. pc' # "idle" \/ pc' = pc
    BY <1>5 DEF Sense, Decide, ApplyNothing, Sleep, Stop, Environment
  <2>. QED
    BY <2>1, <2>2 DEF FileInv, StatusIsHonest
<1>6. CASE UNCHANGED serviceVars
  BY <1>6 DEF serviceVars, countVars, historyVars, FileInv, StatusIsHonest
<1>. QED
  BY <1>1, <1>2, <1>3, <1>4, <1>5, <1>6 DEF ServiceNext, Tick

\* A state file without an error names the byte a board last accepted, for as long
\* as no other is accepted and though any later file may be lost; and when it is the
\* last tick's, no failure counts towards the limit (service.rs 105-148, state.rs
\* 9-15).
THEOREM StatusStaysHonest ==
  ASSUME Readbacks = Byte
  PROVE  ServiceSpec => []StatusIsHonest
<1>1. ServiceInit => FileInv
  BY DEF ServiceInit, FileInv, StatusIsHonest
<1>2. TickInv /\ FileInv /\ [ServiceNext]_serviceVars => FileInv'
  BY NextFile
<1>3. FileInv => StatusIsHonest
  BY DEF FileInv, StatusIsHonest
<1>. QED
  BY <1>1, <1>2, <1>3, TickInvariant, PTL DEF ServiceSpec

-----------------------------------------------------------------------------
\* What follows a board that left or came back: the three mechanisms that meet in a
\* tick are the kick, the reassert and the report of a failed write.

Turning == pc \in {"decide", "apply", "record", "idle"}

\* The history variables keep inside their bounds.
TimesOK == settled \in 0..Reassert /\ kickDue \in 0..StartSeconds

\* A tick that found its board left alone knows it, and has no other one to notice.
SeenInv ==
  /\ Turning /\ settled > 0 => calm
  /\ Turning /\ calm => devicePresent = (board # None)
  /\ Turning /\ calm /\ Writable => path = board /\ ~newGeneration

\* A kick that is owed will be armed by the next tick, or is running and lasts as
\* long as it is owed; and while one runs, the decided duty is no less than its.
KickInv ==
  ~DryRun =>
    /\ Turning /\ pendingKick => kickLeft = StartSeconds
    /\ pc \in {"apply", "record", "idle"} /\ kickLeft > 0 => appliedPct >= StartPct
    /\ (pc = "sense" \/ Turning) /\ board # None /\ kickDue > 0 =>
         NeedsKick \/ pendingKick \/ (kickBegun /\ kickLeft >= kickDue)

LEMMA InitSeen == ServiceInit => TimesOK /\ SeenInv /\ KickInv
<1> SUFFICES ASSUME ServiceInit PROVE TimesOK /\ SeenInv /\ KickInv
  OBVIOUS
<1>1. TimesOK
  <2>1. \A m \in Nat : 0 \in 0..m /\ m \in 0..m
    OBVIOUS
  <2>. QED
    BY <2>1, NumberFacts DEF ServiceInit, TimesOK
<1>. QED
  BY <1>1 DEF ServiceInit, SeenInv, KickInv, Turning, NeedsKick

LEMMA NextTimes == TimesOK /\ [ServiceNext]_serviceVars => TimesOK'
<1> SUFFICES ASSUME TimesOK, [ServiceNext]_serviceVars PROVE TimesOK'
  OBVIOUS
<1>1. CASE Environment
  <2>1. \A m \in Nat : 0 \in 0..m /\ m \in 0..m
    OBVIOUS
  <2>. QED
    BY <1>1, <2>1, NumberFacts
       DEF Environment, Unplug, Plug, FaultChanges, ForeignByte, Disturb, TimesOK
<1>2. CASE Sleep
  <2>1. PICK d \in Delays : /\ settled' = Smaller(settled + d, Reassert)
                            /\ kickDue' = IF kickBegun THEN Larger(kickDue - d, 0) ELSE kickDue
    BY <1>2 DEF Sleep
  <2>2. d \in Nat
    BY TimeAssumption
  <2>. QED
    BY <2>1, <2>2, NumberFacts DEF TimesOK, Smaller, Larger
<1>3. CASE UNCHANGED <<settled, kickDue>>
  BY <1>3 DEF TimesOK
<1>4. Environment \/ Sleep \/ UNCHANGED <<settled, kickDue>>
  BY DEF ServiceNext, Tick, Sense, Decide, ApplyAbsent, ApplyDelivered, ApplyFailed, ApplyNothing,
         Record, Stop, Shutdown, serviceVars, historyVars
<1>. QED
  BY <1>1, <1>2, <1>3, <1>4

\* Whoever finds a working board with a path to it leaves that path alone.
LEMMA PathStays ==
  ASSUME Writable, path = board, ~newGeneration,
         Resolve \/ ReadPath \/ UNCHANGED pwmVars
  PROVE  path' = board /\ ~newGeneration'
<1>1. Resolve \/ UNCHANGED pwmVars
  BY DEF Writable, Readable, ReadPath
<1>2. CASE Resolve
  <2>1. ~Resolves
    BY DEF Resolves
  <2>2. newGeneration' = (newGeneration \/ Resolves)
    BY <1>2 DEF Resolve
  <2>3. ~newGeneration'
    BY <2>1, <2>2, Zenon
  <2>. QED
    BY <1>2, <2>3 DEF Resolve
<1>3. CASE UNCHANGED pwmVars
  BY <1>3 DEF pwmVars
<1>. QED
  BY <1>1, <1>2, <1>3

LEMMA NextSeen ==
  ASSUME TimesOK, TimesOK', SeenInv, [ServiceNext]_serviceVars
  PROVE  SeenInv'
<1>1. CASE Sense
  <2>1. /\ pc' = "decide" /\ calm' = TRUE /\ path' = board /\ newGeneration' = FALSE
        /\ devicePresent' = (board # None) /\ UNCHANGED <<board, fault>>
    BY <1>1 DEF Sense, boardVars
  <2>. QED
    BY <2>1 DEF SeenInv
<1>2. CASE Decide \/ Record
  <2>1. /\ Turning /\ UNCHANGED <<board, fault, calm, settled, devicePresent>>
        /\ Resolve \/ ReadPath \/ UNCHANGED pwmVars
    BY <1>2 DEF Decide, Record, Turning, boardVars, historyVars
  <2>2. Writable' = Writable
    BY <2>1 DEF Writable
  <2>. QED
    BY <2>1, <2>2, PathStays DEF SeenInv
<1>3. CASE ApplyAbsent \/ ApplyNothing
  <2>1. Turning /\ UNCHANGED <<board, fault, calm, settled, devicePresent, path, newGeneration>>
    BY <1>3 DEF ApplyAbsent, ApplyNothing, Applies, Turning, boardVars, historyVars, pwmVars
  <2>2. Writable' = Writable
    BY <2>1 DEF Writable
  <2>. QED
    BY <2>1, <2>2 DEF SeenInv
<1>4. CASE ApplyDelivered \/ ApplyFailed
  <2>1. /\ Turning /\ UNCHANGED <<board, fault, calm, settled, devicePresent>>
        /\ Writable => Resolve
    BY <1>4 DEF ApplyDelivered, ApplyFailed, Applies, WriteByte, WriteError, Turning
  <2>2. Writable' = Writable
    BY <2>1 DEF Writable
  <2>. QED
    BY <2>1, <2>2, PathStays DEF SeenInv
<1>5. CASE Sleep \/ Stop \/ Shutdown
  BY <1>5 DEF Sleep, Stop, Shutdown, SeenInv, Turning
<1>6. CASE Environment
  <2>1. calm' = FALSE /\ settled' = 0
    BY <1>6 DEF Environment, Unplug, Plug, FaultChanges, ForeignByte, Disturb
  <2>. QED
    BY <2>1 DEF SeenInv
<1>7. CASE UNCHANGED serviceVars
  BY <1>7 DEF serviceVars, boardVars, pwmVars, historyVars, SeenInv, Turning, Writable
<1>. QED
  BY <1>1, <1>2, <1>3, <1>4, <1>5, <1>6, <1>7 DEF ServiceNext, Tick

\* A board still to be noticed stays so until the next tick begins.
LEMMA NoticeStays ==
  ASSUME NeedsKick, UNCHANGED <<board, devicePresent>>,
         Resolve \/ ResolveAndDrop \/ UNCHANGED pwmVars
  PROVE  NeedsKick'
  BY DEF NeedsKick, Resolve, ResolveAndDrop, Resolves, pwmVars

\* The byte of a duty no less than the start duty begins a kick.
LEMMA StartByteFacts ==
  ASSUME TypeOK, appliedPct >= StartPct
  PROVE  /\ PctToPwm(appliedPct) \in Byte /\ StartByte \in Byte
         /\ PctToPwm(appliedPct) >= StartByte
<1>1. appliedPct \in Duty /\ StartPct \in Duty
  BY NumberFacts DEF TypeOK, Duty
<1>. QED
  BY <1>1, PctToPwmFacts DEF StartByte

LEMMA NextKick ==
  ASSUME TypeOK, TypeOK', TimesOK, StepIsAccounted', TickInv, KickInv, ~ReuseSlot,
         [ServiceNext]_serviceVars
  PROVE  KickInv'
<1> SUFFICES ASSUME ~DryRun PROVE KickInv'
  BY DEF KickInv
<1>1. CASE Sense
  <2>1. /\ pc = "sense" /\ pc' = "decide" /\ pendingKick' = (pendingKick \/ NeedsKick)
        /\ pendingKick' => kickLeft' = StartSeconds
        /\ ~pendingKick' => kickLeft' = kickLeft
        /\ UNCHANGED <<board, kickDue, kickBegun>>
    BY <1>1 DEF Sense, Kick, boardVars, controllerVars, timeVars
  <2>2. (board' # None /\ kickDue' > 0) =>
          pendingKick' \/ (kickBegun' /\ kickLeft' >= kickDue')
    BY <2>1 DEF KickInv
  <2>. QED
    BY <2>1, <2>2 DEF KickInv
<1>2. CASE Decide
  <2>1. PICK reading \in Temps \cup {None} : Step(reading, ReadBack)
    BY <1>2 DEF Decide
  <2>2. call' = "step" /\ kickLeft' = kickLeft
    BY <2>1 DEF Step, StepWith
  <2>3. kickLeft' > 0 => appliedPct' >= StartPct
    BY <2>2 DEF StepIsAccounted
  <2>4. /\ pc = "decide" /\ pc' = "apply"
        /\ UNCHANGED <<board, devicePresent, pendingKick, kickDue, kickBegun>>
        /\ Resolve \/ ResolveAndDrop
    BY <1>2 DEF Decide, ReadPath, boardVars, countVars, historyVars
  <2>5. NeedsKick => NeedsKick'
    BY <2>4, NoticeStays
  <2>. QED
    BY <2>2, <2>3, <2>4, <2>5 DEF KickInv, Turning
<1>3. CASE ApplyAbsent \/ ApplyNothing \/ Record
  <2>1. /\ Turning /\ Turning' /\ pc' \in {"record", "idle"} /\ pc \in {"apply", "record"}
        /\ UNCHANGED <<board, devicePresent, kickDue, kickBegun, kickLeft, appliedPct>>
        /\ Resolve \/ UNCHANGED pwmVars
    BY <1>3 DEF ApplyAbsent, ApplyNothing, Record, Applies, WriteFailed, Turning, boardVars,
                historyVars, countVars, controllerVars, lawVars, timeVars
  <2>2. NeedsKick => NeedsKick'
    BY <2>1, NoticeStays
  <2>3. pendingKick' <=> pendingKick
    <3>1. CASE ApplyNothing
      BY <3>1, Zenon DEF ApplyNothing
    <3>2. CASE ApplyAbsent \/ Record
      BY <3>2 DEF ApplyAbsent, Record, countVars
    <3>. QED
      BY <1>3, <3>1, <3>2
  <2>. QED
    BY <2>1, <2>2, <2>3 DEF KickInv
<1>4. CASE ApplyDelivered
  <2>1. /\ pc = "apply" /\ pc' = "record" /\ pendingKick' = FALSE
        /\ kickBegun' = (kickBegun \/ decision.pwm >= StartByte)
        /\ UNCHANGED <<board, devicePresent, kickDue, kickLeft, appliedPct>>
        /\ Resolve
    BY <1>4 DEF ApplyDelivered, Applies, WriteByte, controllerVars, lawVars, timeVars
  <2>2. NeedsKick => NeedsKick'
    BY <2>1, NoticeStays
  <2>3. ASSUME pendingKick, kickDue > 0
        PROVE  kickBegun' /\ kickLeft >= kickDue
    <3>1. kickLeft = StartSeconds /\ kickLeft >= kickDue /\ kickLeft > 0
      BY <2>1, <2>3, NumberFacts DEF KickInv, Turning, TimesOK
    <3>2. appliedPct >= StartPct
      BY <2>1, <3>1 DEF KickInv
    <3>3. decision.pwm >= StartByte
      BY <2>1, <3>2, StartByteFacts DEF TickInv
    <3>. QED
      BY <2>1, <3>1, <3>3
  <2>4. kickBegun => kickBegun'
    BY <2>1
  <2>. QED
    BY <2>1, <2>2, <2>3, <2>4 DEF KickInv, Turning
<1>5. CASE ApplyFailed
  <2>1. /\ pc = "apply" /\ pc' \in {"record", "stopping"}
        /\ UNCHANGED <<board, devicePresent, pendingKick, kickDue, kickBegun, kickLeft, appliedPct>>
        /\ ResolveAndDrop
    BY <1>5 DEF ApplyFailed, Applies, WriteError, WriteFailed, lawVars, timeVars
  <2>2. NeedsKick => NeedsKick'
    BY <2>1, NoticeStays
  <2>. QED
    BY <2>1, <2>2 DEF KickInv, Turning
<1>6. CASE Sleep
  <2>1. PICK d \in Delays : /\ kickLeft' = Larger(kickLeft - d, 0)
                            /\ kickDue' = IF kickBegun THEN Larger(kickDue - d, 0) ELSE kickDue
    BY <1>6 DEF Sleep, Elapse
  <2>2. /\ pc = "idle" /\ pc' = "sense"
        /\ UNCHANGED <<board, devicePresent, pendingKick, kickBegun, path, newGeneration>>
    BY <1>6 DEF Sleep, boardVars, pwmVars, countVars
  <2>3. NeedsKick' = NeedsKick
    BY <2>2 DEF NeedsKick, Resolves
  <2>4. kickDue' > 0 => kickDue > 0
    BY <2>1, TimeAssumption, NumberFacts DEF TimesOK, Larger
  <2>5. kickBegun /\ kickLeft >= kickDue => kickLeft' >= kickDue'
    <3>1. d \in Nat /\ kickLeft \in Nat /\ kickDue \in Nat
      BY TimeAssumption, NumberFacts DEF TimesOK, TypeOK
    <3>. QED
      BY <2>1, <3>1 DEF Larger
  <2>. QED
    BY <2>2, <2>3, <2>4, <2>5 DEF KickInv, Turning
<1>7. CASE Stop \/ Shutdown
  BY <1>7 DEF Stop, Shutdown, KickInv, Turning
<1>8. CASE Environment
  <2>1. UNCHANGED <<kickLeft, appliedPct, path, newGeneration, pendingKick, pc, devicePresent>>
    BY <1>8 DEF Environment, controllerVars, lawVars, timeVars, pwmVars, countVars
  <2>2. CASE Unplug
    BY <2>1, <2>2 DEF Unplug, KickInv, Turning
  <2>3. CASE Plug
    <3>1. NeedsKick'
      BY <2>1, <2>3, ServiceAssumption DEF Plug, NeedsKick, Resolves
    <3>. QED
      BY <2>1, <3>1 DEF KickInv, Turning
  <2>4. CASE FaultChanges \/ ForeignByte
    <3>1. UNCHANGED <<board, kickDue, kickBegun>>
      BY <2>4 DEF FaultChanges, ForeignByte
    <3>2. NeedsKick' = NeedsKick
      BY <2>1, <3>1 DEF NeedsKick, Resolves
    <3>. QED
      BY <2>1, <3>1, <3>2 DEF KickInv, Turning
  <2>. QED
    BY <1>8, <2>2, <2>3, <2>4 DEF Environment
<1>9. CASE UNCHANGED serviceVars
  BY <1>9 DEF serviceVars, controllerVars, lawVars, timeVars, boardVars, pwmVars, countVars,
              historyVars, KickInv, Turning, NeedsKick, Resolves
<1>. QED
  BY <1>1, <1>2, <1>3, <1>4, <1>5, <1>6, <1>7, <1>8, <1>9 DEF ServiceNext, Tick

LEMMA ServiceFacts ==
  ASSUME Readbacks = Byte
  PROVE  ServiceSpec => [](TypeOK /\ FanByteOK /\ StepIsAccounted /\ TickInv /\ TimesOK /\ SeenInv)
<1>1. TimesOK /\ TimesOK' /\ SeenInv /\ [ServiceNext]_serviceVars => SeenInv'
  BY NextSeen
<1>2. ServiceSpec => []TypeOK /\ []StepIsAccounted
  BY ServiceObeysController, TypeCorrect, StepsAreAccounted, PTL
<1>. QED
  BY <1>1, <1>2, InitSeen, NextTimes, TickInvariant, InitFanByte, NextFanByte, PTL DEF ServiceSpec

\* A board that was away, or was replaced, is kicked for as long as a kick takes, unless
\* it can come back under its old number (service.rs 85-95, 105-110; pwm.rs 46-51).
THEOREM ReturningBoardIsAlwaysKicked ==
  ASSUME Readbacks = Byte, ~ReuseSlot
  PROVE  ServiceSpec => []ReturningBoardIsKicked
<1>1. TypeOK /\ TypeOK' /\ TimesOK /\ StepIsAccounted' /\ TickInv /\ KickInv
        /\ [ServiceNext]_serviceVars => KickInv'
  BY NextKick
<1>2. TypeOK /\ FanByteOK /\ TimesOK /\ TickInv /\ SeenInv /\ KickInv => ReturningBoardIsKicked
  <2> SUFFICES ASSUME TypeOK, FanByteOK, TimesOK, TickInv, SeenInv, KickInv, CleanTick, kickDue > 0
               PROVE  fanByte + 1 >= StartByte
    BY DEF ReturningBoardIsKicked
  <2>1. Distance(fanByte, PctToPwm(appliedPct)) <= 1 /\ board # None
    BY DEF TickInv, CleanTick, Writable
  <2>2. ~NeedsKick
    BY <2>1 DEF SeenInv, CleanTick, Turning, NeedsKick, Resolves
  <2>3. kickLeft > 0
    BY <2>1, <2>2, NumberFacts DEF KickInv, CleanTick, Turning, TimesOK, TypeOK
  <2>4. appliedPct >= StartPct
    BY <2>3 DEF KickInv, CleanTick
  <2>5. PctToPwm(appliedPct) \in Int /\ StartByte \in Int /\ fanByte \in Int
        /\ PctToPwm(appliedPct) >= StartByte
    BY <2>4, StartByteFacts DEF FanByteOK, Byte
  <2>6. \A x, y, z \in Int : Distance(x, y) <= 1 /\ y >= z => x + 1 >= z
    BY DEF Distance
  <2>. QED
    BY <2>1, <2>5, <2>6
<1>. QED
  BY <1>1, <1>2, InitSeen, ServiceFacts, PTL DEF ServiceSpec

-----------------------------------------------------------------------------
\* A board that is gone: no write was decided since, or one has failed and is on record
\* unless the record was lost.
\* At the reassert period one must be decided.
AbsenceInv ==
  ~DryRun =>
    /\ pc = "idle" /\ file = "current" => status.error = lastError
    /\ board = None /\ lastError = "none" =>
         /\ pc \in {"sense", "decide", "record", "idle"} => sinceWrite >= settled
         /\ pc = "apply" => decision.write \/ (sinceWrite >= settled /\ settled < Reassert)
         /\ pc \in {"record", "idle"} => settled < Reassert

\* A step that does not write is younger than the reassert period, and leaves the age of
\* the last write as it was.
LEMMA StepWithoutWrite ==
  ASSUME TypeOK, TypeOK', NEW reading, NEW readback, Step(reading, readback), ~decision'.write
  PROVE  /\ sinceWrite < Reassert /\ sinceWrite' = sinceWrite
         /\ lastWritten # None
<1>1. PICK average \in EmaAfter(reading) : StepWith(reading, readback, average)
  BY DEF Step
<1> DEFINE pwm == PctToPwm(appliedPct')
           write == MustWrite(pwm, readback)
<1>2. /\ decision'.write = write /\ decision'.pwm = pwm
      /\ sinceWrite' = IF write THEN 0 ELSE sinceWrite
  BY <1>1 DEF StepWith
<1> HIDE DEF pwm
<1>3. lastWritten = pwm /\ ~(sinceWrite >= Reassert)
  BY <1>2 DEF MustWrite
<1> HIDE DEF write
<1>4. pwm # None /\ sinceWrite \in Int /\ Reassert \in Int
  BY <1>2, NoneAssumption, NumberFacts DEF TypeOK, Byte
<1>. QED
  BY <1>2, <1>3, <1>4

\* Time that passes ages the last write and the last disturbance alike.
LEMMA SleepAges ==
  ASSUME TypeOK, TimesOK, Sleep
  PROVE  sinceWrite >= settled => sinceWrite' >= settled'
<1>1. PICK d \in Delays : /\ settled' = Smaller(settled + d, Reassert)
                          /\ sinceWrite' = Smaller(sinceWrite + d, Reassert)
  BY DEF Sleep, Elapse
<1>2. d \in Int /\ settled \in Int /\ sinceWrite \in Int /\ Reassert \in Int
  BY TimeAssumption, NumberFacts DEF TimesOK, TypeOK
<1>. QED
  BY <1>1, <1>2 DEF Smaller

\* What a disturbance does to the times.
LEMMA DisturbFacts ==
  ASSUME TypeOK, Environment
  PROVE  /\ settled' = 0 /\ sinceWrite' = sinceWrite /\ sinceWrite' >= settled' /\ 0 < Reassert
         /\ UNCHANGED <<pc, lastError, status, file, decision, lastWritten, pendingKick, path,
                        newGeneration, devicePresent>>
<1>1. settled' = 0
  BY DEF Environment, Unplug, Plug, FaultChanges, ForeignByte, Disturb
<1>2. UNCHANGED <<pc, lastError, status, file, decision, lastWritten, sinceWrite, pendingKick,
                  path, newGeneration, devicePresent>>
  BY DEF Environment, controllerVars, timeVars, countVars, pwmVars
<1>. QED
  BY <1>1, <1>2, NumberFacts DEF TypeOK

LEMMA NextAbsence ==
  ASSUME TypeOK, TypeOK', TimesOK, AbsenceInv, [ServiceNext]_serviceVars
  PROVE  AbsenceInv'
<1> SUFFICES ASSUME ~DryRun PROVE AbsenceInv'
  BY DEF AbsenceInv
<1>1. CASE Sense
  <2>1. pc = "sense" /\ pc' = "decide" /\ UNCHANGED <<board, lastError, sinceWrite, settled>>
    BY <1>1 DEF Sense, Kick, boardVars, controllerVars, timeVars
  <2>. QED
    BY <2>1 DEF AbsenceInv
<1>2. CASE Decide
  <2>1. PICK reading \in Temps \cup {None} : Step(reading, ReadBack)
    BY <1>2 DEF Decide
  <2>2. ~decision'.write => sinceWrite < Reassert /\ sinceWrite' = sinceWrite
    BY <2>1, StepWithoutWrite
  <2>3. pc = "decide" /\ pc' = "apply" /\ UNCHANGED <<board, lastError, settled>>
    BY <1>2 DEF Decide, boardVars, countVars, historyVars
  <2>4. ~decision'.write /\ sinceWrite >= settled => sinceWrite' >= settled' /\ settled' < Reassert
    BY <2>2, <2>3, NumberFacts DEF TypeOK, TimesOK
  <2>. QED
    BY <2>3, <2>4 DEF AbsenceInv
<1>3. CASE ApplyAbsent \/ ApplyFailed
  <2>1. pc' \in {"record", "stopping"} /\ lastError' \in {"absent", "failed"}
    BY <1>3 DEF ApplyAbsent, ApplyFailed
  <2>. QED
    BY <2>1 DEF AbsenceInv
<1>4. CASE ApplyDelivered
  <2>1. pc' = "record" /\ board' # None
    BY <1>4 DEF ApplyDelivered, WriteByte, Writable
  <2>. QED
    BY <2>1 DEF AbsenceInv
<1>5. CASE ApplyNothing
  <2>1. /\ pc = "apply" /\ pc' = "record" /\ ~decision.write
        /\ UNCHANGED <<board, lastError, sinceWrite, settled>>
    BY <1>5 DEF ApplyNothing, boardVars, controllerVars, timeVars, historyVars
  <2>. QED
    BY <2>1 DEF AbsenceInv
<1>6. CASE Record
  <2>1. /\ pc = "record" /\ pc' = "idle" /\ (file' = "current" => status'.error = lastError)
        /\ UNCHANGED <<board, lastError, sinceWrite, settled>>
    BY <1>6 DEF Record, Written, WriteLost, boardVars, controllerVars, timeVars, countVars,
         historyVars
  <2>. QED
    BY <2>1 DEF AbsenceInv
<1>7. CASE Sleep
  <2>1. pc = "idle" /\ pc' = "sense" /\ UNCHANGED <<board, lastError>>
    BY <1>7 DEF Sleep, boardVars, countVars
  <2>. QED
    BY <1>7, <2>1, SleepAges DEF AbsenceInv
<1>8. CASE Stop \/ Shutdown
  BY <1>8 DEF Stop, Shutdown, AbsenceInv
<1>9. CASE Environment
  BY <1>9, DisturbFacts DEF AbsenceInv
<1>10. CASE UNCHANGED serviceVars
  BY <1>10 DEF serviceVars, controllerVars, timeVars, boardVars, countVars, historyVars, AbsenceInv
<1>. QED
  BY <1>1, <1>2, <1>3, <1>4, <1>5, <1>6, <1>7, <1>8, <1>9, <1>10 DEF ServiceNext, Tick

\* An absent board is on record no later than a reassert period after it left, whenever in
\* a tick that was, in every state file that could be written (service.rs 99-102, 128-148,
\* controller.rs 177-182).
THEOREM AbsenceIsAlwaysReported ==
  ASSUME Readbacks = Byte
  PROVE  ServiceSpec => []AbsenceIsReported
<1>1. ServiceInit => AbsenceInv
  BY NumberFacts DEF ServiceInit, Init, AbsenceInv
<1>2. TypeOK /\ TypeOK' /\ TimesOK /\ AbsenceInv /\ [ServiceNext]_serviceVars => AbsenceInv'
  BY NextAbsence
<1>3. AbsenceInv => AbsenceIsReported
  BY NumberFacts DEF AbsenceInv, AbsenceIsReported
<1>. QED
  BY <1>1, <1>2, <1>3, ServiceFacts, PTL DEF ServiceSpec

-----------------------------------------------------------------------------
\* A kick that waits, or will be armed by the next tick, on a board that works: the next
\* step writes, for want of a belief or because the last write is as old as the board's
\* peace.
PendingInv ==
  /\ DryRun => (pc \in {"record", "idle"} => ~pendingKick)
  /\ ~DryRun /\ Writable /\ (pendingKick \/ NeedsKick) =>
       /\ pc \in {"sense", "decide", "record", "idle"} =>
            lastWritten = None \/ sinceWrite >= settled
       /\ pc = "apply" => decision.write \/ (sinceWrite >= settled /\ settled < Reassert)
       /\ pc \in {"record", "idle"} => settled < Reassert

\* In a tick without a disturbance a working board has no kick to be armed.
LEMMA SettledIsSeen ==
  ASSUME SeenInv, Turning, Writable, settled > 0
  PROVE  ~NeedsKick /\ devicePresent
  BY DEF SeenInv, NeedsKick, Resolves, Writable

LEMMA NoticeComes ==
  ASSUME NeedsKick', UNCHANGED <<board, devicePresent>>, Resolve \/ UNCHANGED pwmVars
  PROVE  NeedsKick
<1>1. CASE Resolve
  <2>1. newGeneration' => newGeneration \/ Resolves
    BY <1>1, Zenon DEF Resolve
  <2>. QED
    BY <1>1, <2>1 DEF NeedsKick, Resolve, Resolves
<1>2. CASE UNCHANGED pwmVars
  BY <1>2 DEF NeedsKick, Resolves, pwmVars
<1>. QED
  BY <1>1, <1>2

LEMMA NextPending ==
  ASSUME TypeOK, TypeOK', TimesOK, TimesOK', SeenInv, PendingInv, [ServiceNext]_serviceVars
  PROVE  PendingInv'
<1> DEFINE due == pendingKick \/ NeedsKick
<1> USE NumberFacts
<1>1. CASE Sense
  <2>1. /\ pc = "sense" /\ pc' = "decide" /\ path' = board /\ newGeneration' = FALSE
        /\ devicePresent' = (board # None)
        /\ UNCHANGED <<board, fault, lastWritten, sinceWrite, settled>>
    BY <1>1 DEF Sense, Kick, boardVars, controllerVars, timeVars
  <2>2. ~NeedsKick' /\ Writable' = Writable
    BY <2>1 DEF NeedsKick, Resolves, Writable
  <2>3. pendingKick' => due
    BY <1>1, Zenon DEF Sense
  <2>. QED
    BY <2>1, <2>2, <2>3 DEF PendingInv
<1>2. CASE Decide
  <2>1. /\ pc = "decide" /\ pc' = "apply"
        /\ UNCHANGED <<board, fault, devicePresent, pendingKick, settled>>
        /\ DryRun \/ ReadPath
    BY <1>2 DEF Decide, boardVars, countVars, historyVars
  <2>2. Writable' = Writable
    BY <2>1 DEF Writable
  <2>3. ASSUME ~DryRun, Writable, NeedsKick' PROVE NeedsKick
    <3>1. Resolve
      BY <2>1, <2>3 DEF ReadPath, Readable, Writable
    <3>. QED
      BY <2>1, <2>3, <3>1, NoticeComes
  <2>4. PICK reading \in Temps \cup {None}, readback \in {None, ReadBack} : Step(reading, readback)
    BY <1>2 DEF Decide
  <2>5. ~decision'.write => /\ sinceWrite < Reassert /\ sinceWrite' = sinceWrite
                            /\ lastWritten # None
    BY <2>4, StepWithoutWrite
  <2>6. ~decision'.write /\ sinceWrite >= settled => sinceWrite' >= settled' /\ settled' < Reassert
    BY <2>1, <2>5 DEF TypeOK, TimesOK
  <2>. QED
    BY <2>1, <2>2, <2>3, <2>5, <2>6 DEF PendingInv
<1>3. CASE ApplyAbsent
  <2>1. /\ pc = "apply" /\ pc' = "record" /\ ~devicePresent /\ lastWritten' = None /\ ~DryRun
        /\ UNCHANGED <<board, fault, settled>>
    BY <1>3 DEF ApplyAbsent, Applies, WriteFailed, boardVars, historyVars
  <2>2. Writable => settled = 0
    BY <2>1, SettledIsSeen DEF Turning, TimesOK
  <2>3. Writable' = Writable
    BY <2>1 DEF Writable
  <2>. QED
    BY <2>1, <2>2, <2>3 DEF PendingInv
<1>4. CASE ApplyDelivered
  <2>1. /\ pc = "apply" /\ pc' = "record" /\ pendingKick' = FALSE /\ ~DryRun /\ Writable /\ Resolve
        /\ UNCHANGED <<board, devicePresent, settled>>
    BY <1>4 DEF ApplyDelivered, Applies, WriteByte
  <2>2. NeedsKick' => settled' = 0
    BY <2>1, NoticeComes, SettledIsSeen DEF Turning, TimesOK
  <2>3. sinceWrite' \in Nat
    BY DEF TypeOK
  <2>. QED
    BY <2>1, <2>2, <2>3 DEF PendingInv
<1>5. CASE ApplyFailed
  <2>1. ~DryRun /\ ~Writable /\ UNCHANGED <<board, fault>>
    BY <1>5 DEF ApplyFailed, Applies, WriteError
  <2>2. ~Writable'
    BY <2>1 DEF Writable
  <2>. QED
    BY <2>1, <2>2 DEF PendingInv
<1>6. CASE ApplyNothing
  <2>1. /\ pc = "apply" /\ pc' = "record" /\ (DryRun \/ ~decision.write)
        /\ UNCHANGED <<board, fault, path, newGeneration, devicePresent, lastWritten, sinceWrite,
                       settled>>
    BY <1>6 DEF ApplyNothing, boardVars, pwmVars, controllerVars, timeVars, historyVars
  <2>2. /\ pendingKick' => pendingKick
        /\ DryRun => ~pendingKick'
    BY <1>6, Zenon DEF ApplyNothing
  <2>3. NeedsKick' = NeedsKick /\ Writable' = Writable
    BY <2>1 DEF NeedsKick, Resolves, Writable
  <2>. QED
    BY <2>1, <2>2, <2>3 DEF PendingInv
<1>7. CASE Record
  <2>1. /\ pc = "record" /\ pc' = "idle" /\ Resolve
        /\ UNCHANGED <<board, fault, devicePresent, pendingKick, lastWritten, sinceWrite, settled>>
    BY <1>7 DEF Record, boardVars, controllerVars, timeVars, countVars, historyVars
  <2>2. NeedsKick' => NeedsKick
    BY <2>1, NoticeComes
  <2>3. Writable' = Writable
    BY <2>1 DEF Writable
  <2>. QED
    BY <2>1, <2>2, <2>3 DEF PendingInv
<1>8. CASE Sleep
  <2>1. /\ pc = "idle" /\ pc' = "sense"
        /\ UNCHANGED <<board, fault, path, newGeneration, devicePresent, pendingKick, lastWritten>>
    BY <1>8 DEF Sleep, Elapse, boardVars, pwmVars, countVars
  <2>2. NeedsKick' = NeedsKick /\ Writable' = Writable
    BY <2>1 DEF NeedsKick, Resolves, Writable
  <2>. QED
    BY <1>8, <2>1, <2>2, SleepAges DEF PendingInv
<1>9. CASE Stop \/ Shutdown
  BY <1>9 DEF Stop, Shutdown, PendingInv
<1>10. CASE Environment
  BY <1>10, DisturbFacts DEF PendingInv
<1>11. CASE UNCHANGED serviceVars
  BY <1>11 DEF serviceVars, controllerVars, timeVars, boardVars, pwmVars, countVars, historyVars,
               PendingInv, NeedsKick, Resolves, Writable
<1>. QED
  BY <1>1, <1>2, <1>3, <1>4, <1>5, <1>6, <1>7, <1>8, <1>9, <1>10, <1>11 DEF ServiceNext, Tick

\* A kick that waits for a write does not hold the duty up for longer than a reassert period
\* once the board works, whatever board it was armed for (service.rs 93-95, 109).
THEOREM PendingKickAlwaysEnds ==
  ASSUME Readbacks = Byte
  PROVE  ServiceSpec => []PendingKickEnds
<1>1. ServiceInit => PendingInv
  BY DEF ServiceInit, Init, PendingInv
<1>2. TypeOK /\ TypeOK' /\ TimesOK /\ TimesOK' /\ SeenInv /\ PendingInv
        /\ [ServiceNext]_serviceVars => PendingInv'
  BY NextPending
<1>3. TimesOK /\ PendingInv => PendingKickEnds
  BY DEF TimesOK, PendingInv, PendingKickEnds
<1>. QED
  BY <1>1, <1>2, <1>3, ServiceFacts, PTL DEF ServiceSpec

-----------------------------------------------------------------------------
\* The steps of the daemon, as its service sees them.

NewProcess == ProcessMemory /\ UNCHANGED <<boardVars, settled, status>> /\ calm' = TRUE

LEMMA DaemonSteps ==
  ASSUME [DaemonNext]_daemonVars
  PROVE  \/ [ServiceNext]_serviceVars
         \/ NewProcess
         \/ StopPost
<1>1. CASE Loop \/ Board
  BY <1>1 DEF Loop, LoopTick, LoopSleep, LoopStop, MainShutdown, Board, ServiceNext
<1>2. CASE Exit \/ Watchdog \/ StopTimeout \/ StartRefused \/ Killed
  BY <1>2 DEF Exit, Watchdog, StopTimeout, StartRefused, Killed, Gone, NewProcess
<1>3. CASE StartTimeout \/ Start \/ Operator \/ Hang \/ UNCHANGED daemonVars
  BY <1>3 DEF StartTimeout, Start, Operator, OperatorStop, OperatorStart, EditConfig, Hang,
              daemonVars
<1>. QED
  BY <1>1, <1>2, <1>3 DEF DaemonNext, Systemd

\* What StopPost writes is a byte, and no less than the smaller exit duty asks for.
LEMMA SafeFacts ==
  /\ SafeBytes \subseteq Byte
  /\ \A byte \in SafeBytes : byte + 1 >= PctToPwm(Smaller(ExitPct, DefaultExitPct))
<1> DEFINE pct == IF badConfig THEN DefaultExitPct ELSE ExitPct
           least == Smaller(ExitPct, DefaultExitPct)
<1>1. pct \in Duty /\ least \in Duty /\ least <= pct
  BY ServiceAssumption, DaemonAssumption DEF Duty, Smaller, MIN_EXIT_PCT
<1>2. PctToPwm(least) <= PctToPwm(pct) /\ PctToPwm(pct) \in Byte /\ PctToPwm(least) \in Byte
  BY <1>1, PctToPwmFacts
<1>3. SafeBytes = Stored(PctToPwm(pct))
  BY DEF SafeBytes
<1>4. ASSUME NEW byte \in SafeBytes
      PROVE  byte \in Byte /\ byte + 1 >= PctToPwm(least)
  <2>1. PICK r \in Rounding : byte = PctToPwm(pct) + r
    BY <1>3, <1>4 DEF Stored
  <2>2. r \in {-1, 0, 1} /\ byte \in Byte
    BY <1>3, <1>4, ServiceAssumption DEF Stored
  <2>3. PctToPwm(pct) \in Int /\ PctToPwm(least) \in Int /\ PctToPwm(least) <= PctToPwm(pct)
    BY <1>2 DEF Byte
  <2>4. \A x, y \in Int : y <= x => x + r + 1 >= y
    BY <2>2
  <2>5. byte + 1 >= PctToPwm(least)
    BY <2>1, <2>3, <2>4
  <2>. QED
    BY <2>2, <2>5
<1>. QED
  BY <1>4

-----------------------------------------------------------------------------
\* The control law, in whatever process.

LawInv == IInv /\ FanByteOK

LEMMA InitNext == Init' => IInv'
  BY InitInvariant, PTL

LEMMA NextLaw ==
  ASSUME Readbacks = Byte, LawInv, [DaemonNext]_daemonVars
  PROVE  LawInv'
<1>1. CASE [ServiceNext]_serviceVars
  <2>1. [Next]_controllerVars
    BY <1>1, ServiceCalls DEF LawInv
  <2>. QED
    BY <1>1, <2>1, NextInvariant, NextFanByte DEF LawInv
<1>2. CASE NewProcess
  <2>1. Init'
    BY <1>2 DEF NewProcess, ProcessMemory, Init
  <2>2. FanByteOK'
    BY <1>2 DEF NewProcess, boardVars, LawInv, FanByteOK
  <2>. QED
    BY <2>1, <2>2, InitNext DEF LawInv
<1>3. CASE StopPost
  <2>1. UNCHANGED controllerVars
    BY <1>3 DEF StopPost
  <2>2. IInv'
    BY <2>1, NextInvariant DEF LawInv
  <2>3. FanByteOK'
    BY <1>3, SafeFacts DEF StopPost, LawInv, FanByteOK
  <2>. QED
    BY <2>2, <2>3 DEF LawInv
<1>. QED
  BY <1>1, <1>2, <1>3, DaemonSteps

LEMMA LawInvariant ==
  ASSUME Readbacks = Byte
  PROVE  DaemonSpec => []LawInv
<1>1. DaemonInit => LawInv
  BY InitInvariant, InitFanByte DEF DaemonInit, ServiceInit, LawInv
<1>2. LawInv /\ [DaemonNext]_daemonVars => LawInv'
  BY NextLaw
<1>. QED
  BY <1>1, <1>2, PTL DEF DaemonSpec

\* The duty covers the temperature in every process, however often one is killed
\* and started again (controller.rs 129-167, main.rs 109-177).
THEOREM DaemonDutyCovers ==
  ASSUME Readbacks = Byte
  PROVE  DaemonSpec => []DutyCoversTemperature
<1>1. LawInv => DutyCoversTemperature
  BY RequiredIsCovered DEF LawInv
<1>. QED
  BY <1>1, LawInvariant, PTL

-----------------------------------------------------------------------------
\* However a run ended, a working board that was left alone since holds at least the
\* smaller of the two exit duties once the unit is down (main.rs 179-195, 231-234).
THEOREM UnattendedStaysSafe == DaemonSpec => []UnattendedIsSafe
<1>1. DaemonInit => UnattendedIsSafe
  BY DEF DaemonInit, UnattendedIsSafe
<1>2. UnattendedIsSafe /\ [DaemonNext]_daemonVars => UnattendedIsSafe'
  <2> SUFFICES ASSUME UnattendedIsSafe, [DaemonNext]_daemonVars,
                      unit' \in {"waiting", "dead"}, calm', Writable'
               PROVE  fanByte' + 1 >= PctToPwm(Smaller(ExitPct, DefaultExitPct))
    BY DEF UnattendedIsSafe
  <2>1. CASE Board
    BY <2>1 DEF Board, Environment, Unplug, Plug, FaultChanges, ForeignByte, Disturb
  <2>2. CASE StopPost
    BY <2>2, SafeFacts DEF StopPost, Writable
  <2>3. CASE Loop \/ Exit \/ Watchdog \/ StopTimeout \/ StartTimeout \/ Start
             \/ StartRefused \/ Killed \/ Hang
    BY <2>3 DEF Loop, LoopTick, LoopSleep, LoopStop, MainShutdown, Running, Exit, Watchdog,
                StopTimeout, StartTimeout, Start, StartRefused, Killed, Hang, Gone, unitVars
  <2>4. CASE Operator \/ UNCHANGED daemonVars
    <3>1. UNCHANGED <<board, fanByte, fault, calm>> /\ unit \in {"waiting", "dead"}
      BY <2>4 DEF Operator, OperatorStop, OperatorStart, EditConfig, daemonVars, serviceVars,
                  unitVars, boardVars, historyVars
    <3>. QED
      BY <3>1 DEF UnattendedIsSafe, Writable
  <2>. QED
    BY <2>1, <2>2, <2>3, <2>4 DEF DaemonNext, Systemd
<1>. QED
  BY <1>1, <1>2, PTL DEF DaemonSpec

-----------------------------------------------------------------------------
\* A process that was told it is ready has had a byte accepted.
ReadyInv == ready \/ announced => delivered # None

LEMMA ByteIsSome == None \notin Byte
  BY NoneAssumption DEF Byte

LEMMA NextReady ==
  ASSUME ~DryRun, LawInv, ReadyInv, [DaemonNext]_daemonVars
  PROVE  ReadyInv'
<1>1. CASE LoopTick
  <2>1. CASE Sense \/ Decide \/ ApplyAbsent \/ ApplyFailed \/ Record
    <3>1. delivered' = delivered /\ ready' = ready
      BY <2>1 DEF Sense, Decide, ApplyAbsent, ApplyFailed, Record, WriteError, countVars,
                  historyVars
    <3>. QED
      BY <1>1, <3>1 DEF LoopTick, Announce, ReadyInv
  <2>2. CASE ApplyNothing
    <3>1. delivered' = delivered
      BY <2>2 DEF ApplyNothing, historyVars
    <3>2. ready' => ready
      BY <2>2, Zenon DEF ApplyNothing
    <3>. QED
      BY <1>1, <3>1, <3>2 DEF LoopTick, Announce, ReadyInv
  <2>3. CASE ApplyDelivered
    <3>1. delivered' = decision.pwm
      BY <2>3 DEF ApplyDelivered, WriteByte
    <3>2. decision.pwm \in Byte
      BY DEF LawInv, IInv, TypeOK
    <3>. QED
      BY <3>1, <3>2, ByteIsSome DEF ReadyInv
  <2>. QED
    BY <1>1, <2>1, <2>2, <2>3 DEF LoopTick, Tick
<1>2. CASE MainShutdown
  <2>1. delivered' \in {delivered, PctToPwm(ExitPct)}
    BY <1>2 DEF MainShutdown, Shutdown, WriteByte, WriteError
  <2>2. PctToPwm(ExitPct) # None
    <3>1. ExitPct \in Duty
      BY ServiceAssumption DEF MIN_EXIT_PCT, Duty
    <3>. QED
      BY <3>1, PctToPwmFacts, ByteIsSome
  <2>. QED
    BY <1>2, <2>1, <2>2 DEF MainShutdown, Shutdown, countVars, unitVars, ReadyInv
<1>3. CASE LoopSleep \/ LoopStop
  BY <1>3 DEF LoopSleep, LoopStop, Sleep, Stop, countVars, historyVars, unitVars, ReadyInv
<1>4. CASE Exit \/ Watchdog \/ StopTimeout \/ StartRefused \/ Killed
  BY <1>4 DEF Exit, Watchdog, StopTimeout, StartRefused, Killed, Gone, ProcessMemory, ReadyInv
<1>5. CASE StopPost \/ StartTimeout \/ Start \/ Operator \/ Hang \/ UNCHANGED daemonVars
  BY <1>5 DEF StopPost, StartTimeout, Start, Operator, OperatorStop, OperatorStart, EditConfig,
              Hang, daemonVars, serviceVars, unitVars, countVars, historyVars, ReadyInv
<1>6. CASE Board
  BY <1>6 DEF Board, Environment, Unplug, Plug, FaultChanges, ForeignByte, countVars, unitVars,
              ReadyInv
<1>. QED
  BY <1>1, <1>2, <1>3, <1>4, <1>5, <1>6 DEF DaemonNext, Loop, Systemd

\* READY=1 is only sent by a process that has had a byte accepted, and none is left
\* over from one that was replaced (main.rs 129-132).
THEOREM ReadyMeansControl ==
  ASSUME Readbacks = Byte, ~DryRun
  PROVE  DaemonSpec => []ReadyMeansControlled
<1>1. DaemonInit => ReadyInv
  BY DEF DaemonInit, ServiceInit, ReadyInv
<1>2. LawInv /\ ReadyInv /\ [DaemonNext]_daemonVars => ReadyInv'
  BY NextReady
<1>3. ReadyInv => ReadyMeansControlled
  BY DEF ReadyInv, ReadyMeansControlled
<1>. QED
  BY <1>1, <1>2, <1>3, LawInvariant, PTL DEF DaemonSpec

-----------------------------------------------------------------------------
\* Types, one group of variables at a time.  The failure count is at its limit only in
\* a process that is on its way out.

BoardTypes == /\ board \in Slots \cup {None}
              /\ fanByte \in Byte
              /\ fault \in {"none", "write", "io"}

TickTypes == /\ pc \in {"sense", "decide", "apply", "record", "idle", "stopping", "stopped"}
             /\ path \in Slots \cup {None}
             /\ newGeneration \in BOOLEAN
             /\ devicePresent \in BOOLEAN

CountTypes == /\ pendingKick \in BOOLEAN
              /\ writeFailures \in 0..ExitAfter
              /\ ready \in BOOLEAN
              /\ lastError \in {"none", "absent", "failed"}
              /\ pc \notin {"stopping", "stopped"} => writeFailures < ExitAfter

StatusType == status \in [pwm : Byte, error : {"none", "absent", "failed"}] \cup {None}

HistoryTypes == /\ calm \in BOOLEAN
                /\ settled \in 0..Reassert
                /\ delivered \in Byte \cup {None}
                /\ kickDue \in 0..StartSeconds
                /\ kickBegun \in BOOLEAN
                /\ file \in {"current", "kept", "outdated"}

UnitTypes == /\ unit \in {"running", "post", "waiting", "dead"}
             /\ wanted \in BOOLEAN /\ termed \in BOOLEAN /\ announced \in BOOLEAN
             /\ ending \in {"none", "exit", "killed", "watchdog", "timeout"}
             /\ hung \in BOOLEAN /\ badConfig \in BOOLEAN

TypeInv == BoardTypes /\ TickTypes /\ CountTypes /\ StatusType /\ HistoryTypes /\ UnitTypes

LEMMA TypeGroups == LawInv /\ TypeInv => DaemonTypeOK
  BY DEF LawInv, IInv, TypeInv, BoardTypes, TickTypes, CountTypes, StatusType, HistoryTypes,
         UnitTypes, DaemonTypeOK, ServiceTypeOK

\* The ends of the counters' ranges.
LEMMA Limits ==
  /\ 0 \in 0..ExitAfter /\ 0 < ExitAfter
  /\ 0 \in 0..Reassert
  /\ 0 \in 0..StartSeconds /\ StartSeconds \in 0..StartSeconds
<1>1. \A n \in Nat : 0 \in 0..n /\ n \in 0..n
  OBVIOUS
<1>2. ExitAfter \in Nat /\ 0 < ExitAfter
  BY ServiceAssumption
<1>. QED
  BY <1>1, <1>2, NumberFacts

LEMMA InitTypes == DaemonInit => TypeInv
<1> SUFFICES ASSUME DaemonInit PROVE TypeInv
  OBVIOUS
<1>1. BoardTypes
  BY InitFanByte DEF DaemonInit, ServiceInit, BoardTypes, FanByteOK
<1>2. TickTypes /\ StatusType
  BY DEF DaemonInit, ServiceInit, TickTypes, StatusType
<1>3. CountTypes
  BY Limits DEF DaemonInit, ServiceInit, CountTypes
<1>4. HistoryTypes
  BY Limits DEF DaemonInit, ServiceInit, HistoryTypes
<1>5. UnitTypes
  BY DEF DaemonInit, UnitTypes
<1>. QED
  BY <1>1, <1>2, <1>3, <1>4, <1>5 DEF TypeInv

LEMMA NextBoardTypes ==
  ASSUME TypeInv, LawInv', [DaemonNext]_daemonVars
  PROVE  BoardTypes'
<1>1. BoardTypes /\ fanByte' \in Byte
  BY DEF TypeInv, LawInv, FanByteOK
<1>2. CASE Environment
  BY <1>1, <1>2 DEF Environment, Unplug, Plug, FaultChanges, ForeignByte, BoardTypes
<1>3. CASE UNCHANGED <<board, fault>>
  BY <1>1, <1>3 DEF BoardTypes
<1>4. Environment \/ UNCHANGED <<board, fault>>
  <2>1. CASE Tick \/ Sleep \/ Stop \/ Shutdown \/ UNCHANGED serviceVars
    BY <2>1 DEF Tick, Sense, Decide, ApplyAbsent, ApplyDelivered, ApplyFailed, ApplyNothing, Record,
                Sleep, Stop, Shutdown, serviceVars, boardVars
  <2>2. CASE NewProcess \/ StopPost
    BY <2>2 DEF NewProcess, StopPost, boardVars
  <2>. QED
    BY <2>1, <2>2, DaemonSteps DEF ServiceNext
<1>. QED
  BY <1>2, <1>3, <1>4

\* Where the device is found, it is under one of its numbers.
LEMMA ResolveTypes ==
  ASSUME TypeInv, Resolve \/ ResolveAndDrop
  PROVE  path' \in Slots \cup {None} /\ newGeneration' \in BOOLEAN
<1>1. path' \in Slots \cup {None}
  BY DEF TypeInv, BoardTypes, Resolve, ResolveAndDrop
<1>2. newGeneration' \in BOOLEAN
  BY Zenon DEF Resolve, ResolveAndDrop
<1>. QED
  BY <1>1, <1>2

LEMMA NextTickTypes ==
  ASSUME TypeInv, [DaemonNext]_daemonVars
  PROVE  TickTypes'
<1>1. TickTypes /\ board \in Slots \cup {None}
  BY DEF TypeInv, BoardTypes
<1>2. CASE Sense
  <2>1. devicePresent' \in BOOLEAN
    BY <1>2, Zenon DEF Sense
  <2>. QED
    BY <1>1, <1>2, <2>1 DEF Sense, TickTypes
<1>3. CASE Decide
  <2>1. (Resolve \/ ResolveAndDrop) \/ UNCHANGED pwmVars
    BY <1>3 DEF Decide, ReadPath
  <2>. QED
    BY <1>1, <1>3, <2>1, ResolveTypes DEF Decide, TickTypes, pwmVars
<1>4. CASE ApplyAbsent \/ ApplyNothing \/ Sleep \/ Stop
  BY <1>1, <1>4 DEF ApplyAbsent, ApplyNothing, Sleep, Stop, TickTypes, pwmVars
<1>5. CASE ApplyDelivered \/ ApplyFailed \/ Record
  <2>1. Resolve \/ ResolveAndDrop
    BY <1>5 DEF ApplyDelivered, ApplyFailed, Record, WriteByte, WriteError
  <2>. QED
    BY <1>1, <1>5, <2>1, ResolveTypes DEF ApplyDelivered, ApplyFailed, Record, TickTypes
<1>6. CASE Shutdown
  <2>1. (Resolve \/ ResolveAndDrop) \/ UNCHANGED pwmVars
    BY <1>6 DEF Shutdown, WriteByte, WriteError
  <2>. QED
    BY <1>1, <1>6, <2>1, ResolveTypes DEF Shutdown, TickTypes, pwmVars
<1>7. CASE NewProcess \/ StopPost
  BY <1>1, <1>7 DEF NewProcess, ProcessMemory, StopPost, TickTypes, pwmVars
<1>8. CASE Environment \/ UNCHANGED serviceVars
  BY <1>1, <1>8 DEF Environment, TickTypes, pwmVars, serviceVars
<1>. QED
  BY <1>2, <1>3, <1>4, <1>5, <1>6, <1>7, <1>8, DaemonSteps DEF ServiceNext, Tick

LEMMA NextCountTypes ==
  ASSUME TypeInv, [DaemonNext]_daemonVars
  PROVE  CountTypes'
<1>1. CountTypes
  BY DEF TypeInv
<1>2. CASE Sense
  <2>1. pendingKick' \in BOOLEAN
    BY <1>2, Zenon DEF Sense
  <2>. QED
    BY <1>1, <1>2, <2>1 DEF Sense, CountTypes
<1>3. CASE Decide \/ Record \/ Sleep \/ Stop
  BY <1>1, <1>3 DEF Decide, Record, Sleep, Stop, CountTypes, countVars
<1>4. CASE ApplyAbsent
  BY <1>1, <1>4 DEF ApplyAbsent, Applies, CountTypes
<1>5. CASE ApplyDelivered
  BY <1>1, <1>5, Limits DEF ApplyDelivered, CountTypes
<1>6. CASE ApplyFailed
  <2>1. writeFailures \in Nat /\ writeFailures < ExitAfter /\ ExitAfter \in Nat
    BY <1>1, <1>6, ServiceAssumption DEF ApplyFailed, Applies, CountTypes
  <2>2. writeFailures' \in 0..ExitAfter /\ (pc' # "stopping" => writeFailures' < ExitAfter)
    BY <1>6, <2>1 DEF ApplyFailed, GivesUp
  <2>. QED
    BY <1>1, <1>6, <2>2 DEF ApplyFailed, CountTypes
<1>7. CASE ApplyNothing
  <2>1. ready' \in BOOLEAN /\ pendingKick' \in BOOLEAN
    BY <1>7, Zenon DEF ApplyNothing
  <2>. QED
    BY <1>1, <1>7, <2>1 DEF ApplyNothing, CountTypes
<1>8. CASE Shutdown
  BY <1>1, <1>8 DEF Shutdown, CountTypes, countVars
<1>9. CASE NewProcess
  BY <1>9, Limits DEF NewProcess, ProcessMemory, CountTypes
<1>10. CASE StopPost \/ Environment \/ UNCHANGED serviceVars
  BY <1>1, <1>10 DEF StopPost, Environment, CountTypes, countVars, serviceVars
<1>. QED
  BY <1>2, <1>3, <1>4, <1>5, <1>6, <1>7, <1>8, <1>9, <1>10, DaemonSteps DEF ServiceNext, Tick

LEMMA NextStatusType ==
  ASSUME TypeInv, LawInv, [DaemonNext]_daemonVars
  PROVE  StatusType'
<1>1. CASE Record
  <2>1. decision.pwm \in Byte
    BY DEF LawInv, IInv, TypeOK
  <2>2. lastError \in {"none", "absent", "failed"}
    BY DEF TypeInv, CountTypes
  <2>. QED
    BY <1>1, <2>1, <2>2 DEF Record, Written, WriteLost, StatusType, TypeInv
<1>2. CASE StopPost
  BY <1>2 DEF StopPost, StatusType
<1>3. CASE UNCHANGED status
  BY <1>3 DEF StatusType, TypeInv
<1>4. Record \/ StopPost \/ UNCHANGED status
  <2>1. CASE ServiceNext \/ UNCHANGED serviceVars
    BY <2>1 DEF ServiceNext, Tick, Sense, Decide, ApplyAbsent, ApplyDelivered, ApplyFailed,
                ApplyNothing, Sleep, Stop, Shutdown, Environment, serviceVars
  <2>2. CASE NewProcess
    BY <2>2 DEF NewProcess
  <2>. QED
    BY <2>1, <2>2, DaemonSteps
<1>. QED
  BY <1>1, <1>2, <1>3, <1>4

LEMMA NextHistoryTypes ==
  ASSUME TypeInv, LawInv, [DaemonNext]_daemonVars
  PROVE  HistoryTypes'
<1>1. HistoryTypes
  BY DEF TypeInv
<1>2. CASE Environment
  BY <1>1, <1>2, Limits
     DEF Environment, Unplug, Plug, FaultChanges, ForeignByte, Disturb, HistoryTypes
<1>3. CASE Sense
  BY <1>1, <1>3 DEF Sense, HistoryTypes
<1>4. CASE ApplyDelivered
  <2>1. decision.pwm \in Byte
    BY DEF LawInv, IInv, TypeOK
  <2>2. kickBegun' \in BOOLEAN
    BY <1>4, Zenon DEF ApplyDelivered, WriteByte
  <2>. QED
    BY <1>1, <1>4, <2>1, <2>2 DEF ApplyDelivered, WriteByte, HistoryTypes
<1>5. CASE ApplyFailed
  BY <1>1, <1>5 DEF ApplyFailed, WriteError, HistoryTypes
<1>6. CASE Shutdown
  <2>1. PctToPwm(ExitPct) \in Byte
    <3>1. ExitPct \in Duty
      BY ServiceAssumption DEF MIN_EXIT_PCT, Duty
    <3>. QED
      BY <3>1, PctToPwmFacts
  <2>2. CASE WriteByte(PctToPwm(ExitPct))
    <3>1. kickBegun' \in BOOLEAN
      BY <2>2, Zenon DEF WriteByte
    <3>. QED
      BY <1>1, <1>6, <2>1, <2>2, <3>1 DEF Shutdown, WriteByte, HistoryTypes
  <2>3. CASE WriteError \/ UNCHANGED <<delivered, kickBegun, file>>
    BY <1>1, <1>6, <2>3 DEF Shutdown, WriteError, HistoryTypes
  <2>. QED
    BY <1>6, <2>2, <2>3 DEF Shutdown
<1>7. CASE Sleep
  <2>1. PICK d \in Delays : /\ settled' = Smaller(settled + d, Reassert)
                            /\ kickDue' = IF kickBegun THEN Larger(kickDue - d, 0) ELSE kickDue
    BY <1>7 DEF Sleep
  <2>2. d \in Nat /\ settled \in 0..Reassert /\ kickDue \in 0..StartSeconds
    BY <1>1, TimeAssumption DEF HistoryTypes
  <2>3. settled' \in 0..Reassert /\ kickDue' \in 0..StartSeconds
    BY <2>1, <2>2, NumberFacts DEF Smaller, Larger
  <2>. QED
    BY <1>1, <1>7, <2>3 DEF Sleep, HistoryTypes
<1>8. CASE NewProcess
  BY <1>1, <1>8, Limits DEF NewProcess, ProcessMemory, HistoryTypes
<1>9. CASE Record
  BY <1>1, <1>9 DEF Record, Written, WriteLost, HistoryTypes
<1>10. CASE Decide \/ ApplyAbsent \/ ApplyNothing \/ Stop \/ StopPost
           \/ UNCHANGED serviceVars
  BY <1>1, <1>10 DEF Decide, ApplyAbsent, ApplyNothing, Stop, StopPost, historyVars,
                     serviceVars, HistoryTypes
<1>. QED
  BY <1>2, <1>3, <1>4, <1>5, <1>6, <1>7, <1>8, <1>9, <1>10, DaemonSteps DEF ServiceNext, Tick

LEMMA NextUnitTypes ==
  ASSUME TypeInv, [DaemonNext]_daemonVars
  PROVE  UnitTypes'
<1>1. UnitTypes
  BY DEF TypeInv
<1>2. CASE LoopTick
  <2>1. announced' \in BOOLEAN
    BY <1>2, Zenon DEF LoopTick, Announce
  <2>. QED
    BY <1>1, <1>2, <2>1 DEF LoopTick, UnitTypes
<1>3. CASE LoopSleep \/ LoopStop \/ MainShutdown \/ Board \/ UNCHANGED daemonVars
  BY <1>1, <1>3 DEF LoopSleep, LoopStop, MainShutdown, Board, daemonVars, unitVars, UnitTypes
<1>4. CASE Exit \/ Watchdog \/ StopTimeout \/ StartRefused \/ Killed
  BY <1>1, <1>4
     DEF Exit, Watchdog, StopTimeout, StartRefused, Killed, Gone, ProcessMemory, UnitTypes
<1>5. CASE StopPost \/ StartTimeout \/ Start \/ Hang \/ OperatorStart
  BY <1>1, <1>5 DEF StopPost, StartTimeout, Start, OperatorStart, Hang, UnitTypes
<1>6. CASE OperatorStop
  <2>1. termed' \in BOOLEAN
    BY <1>6, Zenon DEF OperatorStop
  <2>. QED
    BY <1>1, <1>6, <2>1 DEF OperatorStop, UnitTypes
<1>7. CASE EditConfig
  BY <1>1, <1>7 DEF EditConfig, UnitTypes
<1>. QED
  BY <1>2, <1>3, <1>4, <1>5, <1>6, <1>7 DEF DaemonNext, Loop, Systemd, Operator

\* Types of the whole daemon; with them the failure count, which stays below its limit
\* until the run gives up and starts from nothing after it (service.rs 112-118,
\* main.rs 151-165).
THEOREM DaemonTypeCorrect ==
  ASSUME Readbacks = Byte
  PROVE  DaemonSpec => []DaemonTypeOK
<1>1. LawInv /\ LawInv' /\ TypeInv /\ [DaemonNext]_daemonVars => TypeInv'
  BY NextBoardTypes, NextTickTypes, NextCountTypes, NextStatusType, NextHistoryTypes,
     NextUnitTypes DEF TypeInv
<1>. QED
  BY <1>1, InitTypes, TypeGroups, LawInvariant, PTL DEF DaemonSpec
=============================================================================

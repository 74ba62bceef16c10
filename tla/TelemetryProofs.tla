--------------------------- MODULE TelemetryProofs ---------------------------
(***************************************************************************)
(* How fanwatch learns of fanctl and of the GPU.  First the state file:    *)
(* it implements the register, for any number of inodes and any statuses,  *)
(* because what is being written is never the inode the name points to nor *)
(* one a reader has open, and those two are always whole.  Then fanctl and *)
(* fanwatch around it, for any age at which a status counts as stale.      *)
(* Last, apart from both, the two NVML sessions, however often the driver  *)
(* restarts and whatever calls fail.                                       *)
(***************************************************************************)
EXTENDS Telemetry, Nvml, TLAPS

FileTypes ==
  /\ tmp \in Inodes \cup {None} /\ path \in Inodes \cup {None} /\ fd \in Inodes \cup {None}
  /\ content \in [Inodes -> Values \cup {Cut}]
  /\ payload \in Values /\ got \in Values \cup {None}

\* The inode under the writer.
WriterOwnsTmp ==
  /\ writing \in {"fill", "rename"} => tmp # None
  /\ writing = "rename" => content[tmp] = payload
  /\ tmp # None => tmp # path /\ tmp # fd

\* The inodes under the name and under a reader.
SeenIsWhole ==
  /\ path # None => content[path] \in Values
  /\ fd # None => content[fd] \in Values

FileInv == FileTypes /\ WriterOwnsTmp /\ SeenIsWhole

\* The invariant holds when neither file exists.
LEMMA FileInvInit == FileInit => FileInv
BY FileAssumption DEF FileInit, FileInv, FileTypes, WriterOwnsTmp, SeenIsWhole

\* ... and every system call of the writer and the reader preserves it.
LEMMA FileInvStep == FileInv /\ [FileNext]_fileVars => FileInv'
<1> SUFFICES ASSUME FileInv, [FileNext]_fileVars PROVE FileInv'
  OBVIOUS
<1> USE FileAssumption DEF FileInv, FileTypes, WriterOwnsTmp, SeenIsWhole
<1>1. ASSUME NEW v \in Values, OpenTmp(v) PROVE FileInv'
  <2>1. CASE writing' = "remove" /\ UNCHANGED <<tmp, content>>
    BY <1>1, <2>1 DEF OpenTmp, reader
  <2>2. ASSUME NEW i \in Truncated, tmp' = i, content' = [content EXCEPT ![i] = Cut],
               writing' = "fill"
        PROVE  FileInv'
    <3>1. i \in Inodes /\ i # path /\ i # fd
      BY <2>2 DEF Truncated
    <3>2. QED
      BY <1>1, <2>2, <3>1 DEF OpenTmp, reader
  <2>3. QED
    BY <1>1, <2>1, <2>2 DEF OpenTmp
<1>2. CASE Fill
  BY <1>2 DEF Fill, names, reader
<1>3. CASE Rename
  BY <1>3 DEF Rename, names, reader
<1>4. CASE Remove
  BY <1>4 DEF Remove, reader
<1>5. CASE WriterDies
  BY <1>5 DEF WriterDies, names, reader
<1>6. CASE DirectoryGoes
  BY <1>6 DEF DirectoryGoes, reader, writer
<1>7. CASE OpenState
  BY <1>7 DEF OpenState, names, writer
<1>8. CASE ReadState
  BY <1>8 DEF ReadState, Parsed, names, writer
<1>9. CASE UNCHANGED fileVars
  BY <1>9 DEF fileVars, names, writer, reader
<1>10. QED
  BY <1>1, <1>2, <1>3, <1>4, <1>5, <1>6, <1>7, <1>8, <1>9 DEF FileNext, Write

\* Every system call publishes a whole status, withdraws it, reads what is
\* published, or is invisible.
LEMMA FileStepIsRegisterStep ==
  FileInv /\ [FileNext]_fileVars =>
    [Register!Next]_<<IF path = None THEN None ELSE content[path],
                      IF fd = None THEN got ELSE content[fd]>>
<1> SUFFICES ASSUME FileInv, [FileNext]_fileVars
             PROVE  [Register!Next]_<<IF path = None THEN None ELSE content[path],
                                      IF fd = None THEN got ELSE content[fd]>>
  OBVIOUS
<1> DEFINE published == IF path = None THEN None ELSE content[path]
           read == IF fd = None THEN got ELSE content[fd]
<1> SUFFICES \/ \E v \in Values : published' = v /\ read' = read
             \/ published' = None /\ read' = read
             \/ read' = published /\ published' = published
             \/ published' = published /\ read' = read
  BY DEF Register!Next, Register!Publish, Register!Withdraw, Register!Read
<1> USE FileAssumption DEF FileInv, FileTypes, WriterOwnsTmp, SeenIsWhole
<1>1. ASSUME NEW v \in Values, OpenTmp(v)
      PROVE  published' = published /\ read' = read
  <2>1. CASE writing' = "remove" /\ UNCHANGED <<tmp, content>>
    BY <1>1, <2>1 DEF OpenTmp, reader
  <2>2. ASSUME NEW i \in Truncated, content' = [content EXCEPT ![i] = Cut]
        PROVE  published' = published /\ read' = read
    <3>1. i \in Inodes /\ i # path /\ i # fd
      BY <2>2 DEF Truncated
    <3>2. QED
      BY <1>1, <2>2, <3>1 DEF OpenTmp, reader
  <2>3. QED
    BY <1>1, <2>1, <2>2 DEF OpenTmp
<1>2. CASE Fill
  BY <1>2 DEF Fill, names, reader
<1>3. CASE Rename
  BY <1>3 DEF Rename, names, reader
<1>4. CASE Remove
  BY <1>4 DEF Remove, reader
<1>5. CASE WriterDies
  BY <1>5 DEF WriterDies, names, reader
<1>6. CASE DirectoryGoes
  BY <1>6 DEF DirectoryGoes, reader
<1>7. CASE OpenState
  BY <1>7 DEF OpenState, names
<1>8. CASE ReadState
  BY <1>8 DEF ReadState, Parsed, names
<1>9. CASE UNCHANGED fileVars
  BY <1>9 DEF fileVars, names, reader
<1>10. QED
  BY <1>1, <1>2, <1>3, <1>4, <1>5, <1>6, <1>7, <1>8, <1>9 DEF FileNext, Write

\* Whatever system call fails or is the last before a crash, readers see a register
\* of whole statuses (state.rs 6-13, state.py 14-34).
THEOREM StateFileIsRegister == FileSpec => ImplementsRegister
<1>1. FileInit => Register!Init
  BY DEF FileInit, Register!Init
<1>2. QED
  BY <1>1, FileInvInit, FileInvStep, FileStepIsRegisterStep, PTL
     DEF FileSpec, ImplementsRegister, Register!Spec

-----------------------------------------------------------------------------
\* Time, and the states of the daemon, leave the file to the file's own steps.
LEMMA TelemetryStepIsFileStep == [TelemetryNext]_telemetryVars => [FileNext]_fileVars
<1> SUFFICES ASSUME [TelemetryNext]_telemetryVars PROVE [FileNext]_fileVars
  OBVIOUS
<1>1. CASE TimePasses \/ DaemonStarts
  BY <1>1 DEF TimePasses, DaemonStarts
<1>2. CASE DaemonOpens \/ DaemonWrites
  BY <1>2 DEF DaemonOpens, DaemonWrites, FileNext
<1>3. CASE DaemonDies \/ DirectoryRemoved
  BY <1>3 DEF DaemonDies, DirectoryRemoved, FileNext
<1>4. CASE Fanwatch
  BY <1>4 DEF Fanwatch, SnapshotOpens, SnapshotReads, FileNext
<1>5. CASE UNCHANGED telemetryVars
  BY <1>5 DEF telemetryVars
<1>6. QED
  BY <1>1, <1>2, <1>3, <1>4, <1>5 DEF TelemetryNext, Fanctl

\* fanctl, however it hangs, dies and is started again, and fanwatch use the file only
\* as StateFile says, so it is a register to them too (service.rs 128-148, probe.py
\* 352).
THEOREM TelemetryIsRegister == TelemetrySpec => ImplementsRegister
<1>1. TelemetryInit => FileInit
  BY DEF TelemetryInit
<1>2. TelemetrySpec => FileSpec
  BY <1>1, TelemetryStepIsFileStep, PTL DEF TelemetrySpec, FileSpec
<1>3. QED
  BY <1>2, StateFileIsRegister

-----------------------------------------------------------------------------
Ages == 0..Never

AgeTypes == age \in [Inodes -> Ages] /\ gotAge \in Ages /\ okAgo \in Ages

\* A status without trouble was put in place no longer ago than it is old.
OkIsNoOlder ==
  /\ path # None /\ content[path] = "ok" => okAgo <= age[path]
  /\ fd # None /\ content[fd] = "ok" => okAgo <= age[fd]
  /\ got = "ok" => okAgo <= gotAge

AgeInv == AgeTypes /\ OkIsNoOlder

LEMMA AgeInvInit == TelemetryInit => AgeInv
BY FileAssumption, TelemetryAssumption
   DEF TelemetryInit, FileInit, AgeInv, AgeTypes, OkIsNoOlder, Ages, Never

\* Growing older is monotone up to the longest age that is told apart.
LEMMA AgedIsMonotone ==
  ASSUME NEW a \in Ages, NEW b \in Ages, a <= b
  PROVE  Aged(a) \in Ages /\ Aged(a) <= Aged(b)
BY TelemetryAssumption DEF Aged, Ages, Never

LEMMA AgeInvStep == FileInv /\ AgeInv /\ [TelemetryNext]_telemetryVars => AgeInv'
<1> SUFFICES ASSUME FileInv, AgeInv, [TelemetryNext]_telemetryVars PROVE AgeInv'
  OBVIOUS
<1> USE FileAssumption, TelemetryAssumption DEF AgeInv, AgeTypes, OkIsNoOlder
<1>0. 0 \in Ages /\ \A a \in Ages : a \in Nat /\ Aged(a) \in Ages
  BY DEF Ages, Never, Aged
<1>1. CASE TimePasses
  <2>1. age' \in [Inodes -> Ages] /\ gotAge' \in Ages /\ okAgo' \in Ages
    BY <1>1, <1>0 DEF TimePasses, AgedOnScreen
  <2>2. path \in Inodes \cup {None} /\ fd \in Inodes \cup {None}
    BY DEF FileInv, FileTypes
  <2>3. okAgo' = Aged(okAgo) /\ gotAge' = Aged(gotAge)
        /\ \A i \in Inodes : age'[i] = Aged(age[i])
    BY <1>1 DEF TimePasses, AgedOnScreen
  <2>4. UNCHANGED <<path, content, fd, got>>
    BY <1>1 DEF TimePasses, fileVars, names, reader
  <2>5. got = "ok" => okAgo' <= gotAge'
    BY <2>3, AgedIsMonotone
  <2>6. \A i \in Inodes : okAgo <= age[i] => okAgo' <= age'[i]
    BY <2>3, AgedIsMonotone
  <2>7. path # None => path \in Inodes
    BY <2>2
  <2>8. fd # None => fd \in Inodes
    BY <2>2
  <2>9. QED
    BY <2>1, <2>4, <2>5, <2>6, <2>7, <2>8
<1>2. CASE DaemonOpens
  <2>1. PICK v \in Values : OpenTmp(v)
    BY <1>2 DEF DaemonOpens
  <2>2. CASE writing' = "remove" /\ UNCHANGED <<tmp, content>>
    BY <1>2, <2>1, <2>2 DEF DaemonOpens, OpenTmp, reader
  <2>3. ASSUME NEW i \in Truncated, tmp' = i, content' = [content EXCEPT ![i] = Cut],
               writing' = "fill"
        PROVE  AgeInv'
    <3>1. i \in Inodes /\ i # path /\ i # fd
      BY <2>3 DEF Truncated, FileInv, FileTypes, WriterOwnsTmp
    <3>2. age' = [age EXCEPT ![i] = 0] /\ UNCHANGED <<gotAge, okAgo>>
      BY <1>2, <2>3 DEF DaemonOpens
    <3>3. UNCHANGED <<path, fd, got>>
      BY <2>1 DEF OpenTmp, reader
    <3>4. content \in [Inodes -> Values \cup {Cut}]
          /\ path \in Inodes \cup {None} /\ fd \in Inodes \cup {None}
      BY DEF FileInv, FileTypes
    <3>5. QED
      BY <1>0, <2>3, <3>1, <3>2, <3>3, <3>4
  <2>4. QED
    BY <2>1, <2>2, <2>3 DEF OpenTmp
<1>3. CASE DaemonWrites
  <2>1. age' = age /\ gotAge' = gotAge
    BY <1>3 DEF DaemonWrites
  <2>2. CASE Fill
    <3>1. okAgo' = okAgo /\ UNCHANGED <<path, fd, got>>
      BY <1>3, <2>2 DEF DaemonWrites, Fill, names, reader
    <3>2. \A i \in {path, fd} : i # None => content'[i] = content[i]
      BY <2>2 DEF Fill, FileInv, FileTypes, WriterOwnsTmp
    <3>3. QED
      BY <2>1, <3>1, <3>2
  <2>3. CASE Rename
    <3>1. UNCHANGED <<content, fd, got, payload>>
      BY <2>3 DEF Rename, reader
    <3>2. CASE path' = tmp
      <4>1. tmp # None /\ tmp # path /\ content[tmp] = payload /\ tmp \in Inodes
        BY <2>3 DEF Rename, FileInv, FileTypes, WriterOwnsTmp
      <4>2. okAgo' = IF payload = "ok" THEN 0 ELSE okAgo
        BY <1>3, <3>2, <4>1 DEF DaemonWrites
      <4>3. okAgo' \in Ages /\ okAgo' <= okAgo
        BY <4>2 DEF Ages, Never
      <4>4. payload = "ok" => okAgo' <= age[tmp]
        BY <4>1, <4>2 DEF Ages, Never
      <4>5. fd # None => fd \in Inodes
        BY DEF FileInv, FileTypes
      <4>6. QED
        BY <2>1, <3>1, <3>2, <4>1, <4>3, <4>4, <4>5 DEF Ages, Never
    <3>3. CASE UNCHANGED names
      BY <1>3, <2>1, <3>1, <3>3 DEF DaemonWrites, names
    <3>4. QED
      BY <2>3, <3>2, <3>3 DEF Rename
  <2>4. CASE Remove
    BY <1>3, <2>1, <2>4 DEF DaemonWrites, Remove, reader
  <2>5. QED
    BY <1>3, <2>2, <2>3, <2>4 DEF DaemonWrites, Write
<1>4. CASE DaemonDies
  BY <1>4 DEF DaemonDies, WriterDies, names, reader, ages
<1>5. CASE DirectoryRemoved
  BY <1>5 DEF DirectoryRemoved, DirectoryGoes, reader, ages
<1>6. CASE DaemonStarts
  BY <1>6 DEF DaemonStarts, fileVars, names, reader, ages
<1>7. CASE SnapshotOpens
  BY <1>7 DEF SnapshotOpens, OpenState, names, ages
<1>8. CASE SnapshotReads
  BY <1>8 DEF SnapshotReads, ReadState, Parsed, names, FileInv, FileTypes
<1>9. CASE UNCHANGED telemetryVars
  BY <1>9 DEF telemetryVars, fileVars, names, reader, ages
<1>10. QED
  BY <1>1, <1>2, <1>3, <1>4, <1>5, <1>6, <1>7, <1>8, <1>9
     DEF TelemetryNext, Fanctl, Fanwatch

\* A row that is neither red nor yellow is never older than ten seconds, however the
\* daemon, the reader and the clock are interleaved (dashboard.py 230-244).
THEOREM CalmRowsAreRecent == TelemetrySpec => []CalmRowIsRecent
<1>1. TelemetryInit => FileInit
  BY DEF TelemetryInit
<1>2. FileInv /\ AgeInv => CalmRowIsRecent
  <2> SUFFICES ASSUME FileInv, AgeInv, fd = None, RowColor = "muted"
               PROVE  okAgo <= StaleAfter
    BY DEF CalmRowIsRecent
  <2>1. got = "ok" /\ gotAge <= StaleAfter
    BY FileAssumption, TelemetryAssumption
       DEF RowColor, FileInv, FileTypes, AgeInv, AgeTypes, Ages, Never
  <2>2. QED
    BY <2>1, TelemetryAssumption DEF AgeInv, AgeTypes, OkIsNoOlder, Ages, Never
<1>3. QED
  BY <1>1, <1>2, FileInvInit, FileInvStep, TelemetryStepIsFileStep, AgeInvInit, AgeInvStep, PTL
     DEF TelemetrySpec

-----------------------------------------------------------------------------
\* What fanctl does next, and that it writes only at the end of a tick.
DaemonTypes ==
  /\ writing \in {"nothing", "fill", "rename", "remove"}
  /\ daemon \in {"tick", "write", "dead"}
  /\ daemon # "write" => writing = "nothing"

LEMMA DaemonTypesStep == DaemonTypes /\ [TelemetryNext]_telemetryVars => DaemonTypes'
<1> SUFFICES ASSUME DaemonTypes, [TelemetryNext]_telemetryVars PROVE DaemonTypes'
  OBVIOUS
<1> USE DEF DaemonTypes
<1>1. CASE DaemonOpens
  BY <1>1 DEF DaemonOpens, OpenTmp
<1>2. CASE DaemonWrites
  BY <1>2 DEF DaemonWrites, Write, Fill, Rename, Remove
<1>3. CASE TimePasses \/ DaemonDies \/ DaemonStarts
  BY <1>3 DEF TimePasses, DaemonDies, WriterDies, DaemonStarts, fileVars, writer
<1>4. CASE DirectoryRemoved
  BY <1>4 DEF DirectoryRemoved, DirectoryGoes, writer
<1>5. CASE Fanwatch
  BY <1>5 DEF Fanwatch, SnapshotOpens, SnapshotReads, OpenState, ReadState, writer
<1>6. CASE UNCHANGED telemetryVars
  BY <1>6 DEF telemetryVars, fileVars, writer
<1>7. QED
  BY <1>1, <1>2, <1>3, <1>4, <1>5, <1>6 DEF TelemetryNext, Fanctl

\* The writer never renames or fills a file that is not there, and the reader never
\* returns anything but a whole status or none (state.rs 6-13, state.py 14-34).
THEOREM TelemetryTypeCorrect == TelemetrySpec => []TelemetryTypeOK
<1>1. TelemetryInit => FileInit /\ DaemonTypes
  BY DEF TelemetryInit, FileInit, DaemonTypes
<1>2. FileInv /\ AgeInv /\ DaemonTypes => TelemetryTypeOK
  BY DEF FileInv, FileTypes, WriterOwnsTmp, AgeInv, AgeTypes, Ages, DaemonTypes,
         TelemetryTypeOK
<1>3. QED
  BY <1>1, <1>2, FileInvInit, FileInvStep, TelemetryStepIsFileStep, AgeInvInit, AgeInvStep,
     DaemonTypesStep, PTL
     DEF TelemetrySpec

-----------------------------------------------------------------------------
Things == {"none", "live", "stale"}

SessionTypes ==
  /\ library \in {"closed", "live", "stale"} /\ handle \in Things
  /\ at \in {"idle", "init", "handle", "temp", "done", "left"}
  /\ gpu \in {"none", "partial", "whole"}
  /\ quiet \in 0..2

\* What is open at each point of a reading.
OpenAt ==
  /\ refused \in Nat /\ inits = IF initialised THEN refused + 1 ELSE refused
  /\ at \in {"idle", "done"} => (initialised <=> handle # "none")
  /\ at \in {"init", "left"} => ~initialised /\ handle = "none"
  /\ at = "handle" => initialised /\ handle = "none"
  /\ at = "temp" => initialised /\ handle # "none"

\* What is stale was obtained before the driver last failed, and is only kept past a
\* reading by a reference that could not be given back.
NothingStale == handle # "stale" /\ (library = "stale" => refused > 0)

StaleIsOld ==
  /\ handle = "live" => library = "live"
  /\ library # "closed" <=> inits > 0
  /\ quiet > 0 => up
  /\ quiet = 1 /\ at \in {"idle", "done", "left"} => NothingStale
  /\ quiet = 2 => NothingStale
  /\ quiet = 2 /\ at = "done" => gpu = "whole" \/ (refused > 0 /\ library = "stale")

SessionInv == SessionTypes /\ OpenAt /\ StaleIsOld

GpuInv ==
  /\ nvml \in Things /\ reading \in {"none", "whole"}
  /\ quietGpu \in 0..2
  /\ quietGpu > 0 => up
  /\ quietGpu = 1 /\ ~asking => nvml # "stale"
  /\ quietGpu = 2 => nvml # "stale"
  /\ quietGpu = 2 /\ asking => nvml = "live"
  /\ quietGpu = 2 /\ ~asking => reading = "whole"

LEMMA NvmlInvInit == NvmlInit => SessionInv /\ GpuInv
BY DEF NvmlInit, SessionInv, SessionTypes, OpenAt, StaleIsOld, NothingStale, GpuInv, Things

\* A closed session has no reference to the library but those of a shutdown that failed.
Closed ==
  /\ handle' = "none" /\ initialised' = FALSE
  /\ refused' \in Nat /\ refused' >= refused /\ inits' = refused'
  /\ library' = IF refused' = 0 THEN "closed" ELSE library
  /\ library' # "closed" <=> refused' > 0

LEMMA CloseCloses ==
  ASSUME SessionTypes, OpenAt, StaleIsOld, Close
  PROVE  Closed
<1> USE DEF SessionTypes, OpenAt, StaleIsOld, Close, Closed
<1>1. CASE initialised /\ ShutDown
  BY <1>1 DEF ShutDown
<1>2. CASE initialised /\ ShutdownRefused
  BY <1>2 DEF ShutdownRefused
<1>3. CASE ~initialised
  BY <1>3
<1>4. QED
  BY <1>1, <1>2, <1>3

\* After a failure the readings begun count from nothing, or as before if what failed
\* was stale or the driver was away.
LEMMA FailsThroughCases ==
  ASSUME NEW thing, FailsThrough(thing)
  PROVE  \/ quiet' = 0 /\ quietGpu' = 0
         \/ ~(up /\ thing = "live") /\ quiet' = quiet /\ quietGpu' = quietGpu
BY DEF FailsThrough, Disturbed

LEMMA SessionInvStep == SessionInv /\ [NvmlNext]_nvmlVars => SessionInv'
<1> SUFFICES ASSUME SessionInv, [NvmlNext]_nvmlVars PROVE SessionInv'
  OBVIOUS
<1> USE DEF SessionInv, SessionTypes, OpenAt, StaleIsOld, NothingStale, Things
<1>1. CASE DriverChanges
  BY <1>1 DEF DriverChanges, Older, Disturbed
<1>2. CASE BeginRead
  BY <1>2 DEF BeginRead, OneMore
<1>3. CASE InitLibrary
  BY <1>3 DEF InitLibrary
<1>4. CASE GetHandle
  BY <1>4 DEF GetHandle
<1>5. CASE OpenFails
  <2>1. Closed
    BY <1>5, CloseCloses DEF OpenFails
  <2>2. \/ quiet' = 0
        \/ quiet' = quiet /\ ~(up /\ (at = "init" \/ library = "live"))
    BY <1>5, FailsThroughCases DEF OpenFails
  <2>3. quiet' = 2 => refused > 0 /\ library = "stale"
    BY <1>5, <2>2 DEF OpenFails
  <2>4. SessionTypes'
    BY <1>5, <2>1, <2>2, <2>3 DEF OpenFails, Closed, nvmlGpu
  <2>5. OpenAt'
    BY <1>5, <2>1, <2>2, <2>3 DEF OpenFails, Closed, nvmlGpu
  <2>6. StaleIsOld'
    BY <1>5, <2>1, <2>2, <2>3 DEF OpenFails, Closed, nvmlGpu
  <2>7. QED
    BY <2>4, <2>5, <2>6
<1>6. CASE ReadWhole
  BY <1>6 DEF ReadWhole
<1>7. CASE ReadFails
  <2>1. Closed
    BY <1>7, CloseCloses DEF ReadFails, CloseAsStale
  <2>2. quiet' = 0 \/ (quiet' = quiet /\ ~(up /\ handle = "live"))
    BY <1>7, FailsThroughCases DEF ReadFails
  <2>3. quiet' # 2
    BY <1>7, <2>2 DEF ReadFails
  <2>4. SessionTypes'
    BY <1>7, <2>1, <2>2, <2>3 DEF ReadFails, Closed, nvmlGpu
  <2>5. OpenAt'
    BY <1>7, <2>1, <2>2, <2>3 DEF ReadFails, Closed, nvmlGpu
  <2>6. StaleIsOld'
    BY <1>7, <2>1, <2>2, <2>3 DEF ReadFails, Closed, nvmlGpu
  <2>7. QED
    BY <2>4, <2>5, <2>6
<1>8. CASE Returned
  BY <1>8 DEF Returned
<1>9. CASE Leave
  <2>1. Closed
    BY <1>9, CloseCloses DEF Leave
  <2>2. SessionTypes'
    BY <1>9, <2>1 DEF Leave, Closed
  <2>3. OpenAt'
    BY <1>9, <2>1 DEF Leave, Closed
  <2>4. StaleIsOld'
    BY <1>9, <2>1 DEF Leave, Closed
  <2>5. QED
    BY <2>2, <2>3, <2>4
<1>10. CASE OpenNvml
  <2>1. quiet' = 0 \/ quiet' = quiet
    BY <1>10, FailsThroughCases DEF OpenNvml
  <2>2. QED
    BY <1>10, <2>1 DEF OpenNvml, session
<1>11. CASE AskNvml
  <2>1. quiet' = 0 \/ quiet' = quiet
    BY <1>11, FailsThroughCases DEF AskNvml
  <2>2. QED
    BY <1>11, <2>1 DEF AskNvml, session
<1>12. CASE UNCHANGED nvmlVars
  BY <1>12 DEF nvmlVars, session
<1>13. QED
  BY <1>1, <1>2, <1>3, <1>4, <1>5, <1>6, <1>7, <1>8, <1>9, <1>10, <1>11, <1>12
     DEF NvmlNext, Session

LEMMA GpuInvStep == GpuInv /\ [NvmlNext]_nvmlVars => GpuInv'
<1> SUFFICES ASSUME GpuInv, [NvmlNext]_nvmlVars PROVE GpuInv'
  OBVIOUS
<1> USE DEF GpuInv, Things
<1>1. CASE DriverChanges
  BY <1>1 DEF DriverChanges, Older, Disturbed
<1>2. CASE Session
  <2>1. UNCHANGED <<up, nvmlGpu>>
    BY <1>2 DEF Session, BeginRead, InitLibrary, GetHandle, OpenFails, ReadWhole, ReadFails,
                Returned, Leave
  <2>2. quietGpu' = 0 \/ quietGpu' = quietGpu
    BY <1>2, FailsThroughCases
       DEF Session, BeginRead, InitLibrary, GetHandle, OpenFails, ReadWhole, ReadFails,
           Returned, Leave
  <2>3. QED
    BY <2>1, <2>2 DEF nvmlGpu
<1>3. CASE OpenNvml
  <2>1. CASE nvml # "none" /\ UNCHANGED nvml /\ quietGpu' = OneMore(quietGpu)
    BY <1>3, <2>1 DEF OpenNvml, OneMore
  <2>2. CASE nvml = "none" /\ up /\ nvml' = "live" /\ quietGpu' = OneMore(quietGpu)
    BY <1>3, <2>2 DEF OpenNvml, OneMore
  <2>3. CASE nvml = "none" /\ UNCHANGED nvml /\ FailsThrough("live")
    <3>1. quietGpu' = 0 \/ (quietGpu' = quietGpu /\ ~up)
      BY <2>3, FailsThroughCases
    <3>2. QED
      BY <1>3, <2>3, <3>1 DEF OpenNvml
  <2>4. QED
    BY <1>3, <2>1, <2>2, <2>3 DEF OpenNvml
<1>4. CASE AskNvml
  <2>1. CASE up /\ nvml = "live" /\ reading' = "whole" /\ UNCHANGED <<quiet, quietGpu>>
    BY <1>4, <2>1 DEF AskNvml, NvmlAfter
  <2>2. CASE reading' = "none" /\ FailsThrough(nvml)
    <3>1. quietGpu' = 0 \/ (quietGpu' = quietGpu /\ ~(up /\ nvml = "live"))
      BY <2>2, FailsThroughCases
    <3>2. QED
      BY <1>4, <2>2, <3>1 DEF AskNvml, NvmlAfter
  <2>3. QED
    BY <1>4, <2>1, <2>2 DEF AskNvml
<1>5. CASE UNCHANGED nvmlVars
  BY <1>5 DEF nvmlVars, nvmlGpu
<1>6. QED
  BY <1>1, <1>2, <1>3, <1>4, <1>5 DEF NvmlNext

\* Every nvmlInit of fanwatch is followed by one nvmlShutdown, however readings and
\* shutdowns fail (gpu.py 83-120).
THEOREM SessionsAreAccounted == NvmlSpec => []SessionIsAccounted
<1>1. SessionInv => SessionIsAccounted
  BY DEF SessionInv, OpenAt, SessionIsAccounted
<1>2. QED
  BY <1>1, NvmlInvInit, SessionInvStep, PTL DEF NvmlSpec

\* A restart of the driver costs each program one reading, however long the driver
\* was away and whatever failed meanwhile, except fanwatch after an nvmlShutdown that
\* failed (gpu.py 97-120, sensors.rs 97-116).
THEOREM OnlyOneReadingIsLost == NvmlSpec => []OneReadingLost
<1>1. SessionInv /\ GpuInv => OneReadingLost
  BY DEF SessionInv, StaleIsOld, GpuInv, OneReadingLost
<1>2. QED
  BY <1>1, NvmlInvInit, SessionInvStep, GpuInvStep, PTL DEF NvmlSpec
=============================================================================

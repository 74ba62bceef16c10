------------------------------ MODULE Telemetry ------------------------------
(***************************************************************************)
(* fanctl and fanwatch around the state file, and the row of the dashboard *)
(* that shows it.                                                          *)
(*                                                                         *)
(* fanctl writes its status in every tick; it may hang, die and be started *)
(* again at any point.  Between two snapshots the screen of fanwatch is    *)
(* drawn again and again, with the age of the status at that moment.  A    *)
(* status is "ok", or "trouble" when it tells of a panic or an error.      *)
(***************************************************************************)
EXTENDS Naturals, StateFile

CONSTANT StaleAfter   \* ten seconds

ASSUME TelemetryAssumption ==
  /\ StaleAfter \in Nat
  /\ Values = {"ok", "trouble"}

VARIABLES
  daemon,    \* fanctl: "tick", "write", or "dead"
  age,       \* age of the status in each inode, or being written to it
  gotAge,    \* ... and in the snapshot
  okAgo      \* history: time since a status without trouble was put in place

Never == StaleAfter + 1   \* long enough ago

ages == <<age, gotAge, okAgo>>
telemetryVars == <<fileVars, daemon, ages>>

TelemetryInit ==
  /\ FileInit
  /\ daemon = "tick"
  /\ age = [i \in Inodes |-> 0] /\ gotAge = 0
  /\ okAgo = Never

-----------------------------------------------------------------------------
\* Time.
Aged(a) == IF a = Never THEN Never ELSE a + 1

\* Mutant: the age is taken when the file is read.
AgedInFile == gotAge' = gotAge

AgedOnScreen == gotAge' = Aged(gotAge)

TimePasses ==
  /\ age' = [i \in Inodes |-> Aged(age[i])]
  /\ AgedOnScreen
  /\ okAgo' = Aged(okAgo)
  /\ UNCHANGED <<fileVars, daemon>>

-----------------------------------------------------------------------------
\* fanctl.
\* The end of a tick: write_state is called ...
DaemonOpens ==
  /\ daemon = "tick"
  /\ \E v \in Values : OpenTmp(v)
  /\ age' = IF writing' = "fill" THEN [age EXCEPT ![tmp'] = 0] ELSE age
  /\ daemon' = "write"
  /\ UNCHANGED <<gotAge, okAgo>>

DaemonWrites ==
  /\ daemon = "write"
  /\ Write
  /\ daemon' = IF writing' = "nothing" THEN "tick" ELSE "write"
  /\ okAgo' = IF path' # path /\ payload = "ok" THEN 0 ELSE okAgo
  /\ UNCHANGED <<age, gotAge>>

DaemonDies ==
  /\ daemon # "dead"
  /\ WriterDies
  /\ daemon' = "dead"
  /\ UNCHANGED ages

DirectoryRemoved == daemon = "dead" /\ DirectoryGoes /\ UNCHANGED <<daemon, ages>>

DaemonStarts ==
  /\ daemon = "dead"
  /\ daemon' = "tick"
  /\ UNCHANGED <<fileVars, ages>>

Fanctl == DaemonOpens \/ DaemonWrites \/ DaemonDies \/ DirectoryRemoved \/ DaemonStarts

-----------------------------------------------------------------------------
\* fanwatch, whose loop waits for the next snapshot as long as it likes.
SnapshotOpens == OpenState /\ UNCHANGED <<daemon, ages>>

SnapshotReads ==
  /\ ReadState
  /\ gotAge' = age[fd]
  /\ UNCHANGED <<daemon, age, okAgo>>

Fanwatch == SnapshotOpens \/ SnapshotReads

TelemetryNext == TimePasses \/ Fanctl \/ Fanwatch

TelemetrySpec == TelemetryInit /\ [][TelemetryNext]_telemetryVars

-----------------------------------------------------------------------------
\* The colour of the row of _controller_row, "none" if there is no row.
RowColor ==
  IF got = None THEN "none"
  ELSE IF got = "trouble" THEN "red" ELSE IF gotAge > StaleAfter THEN "yellow" ELSE "muted"

\* Type invariant.
TelemetryTypeOK ==
  /\ {tmp, path, fd} \subseteq Inodes \cup {None}
  /\ content \in [Inodes -> Values \cup {Cut}]
  /\ writing \in {"nothing", "fill", "rename", "remove"} /\ payload \in Values
  /\ writing \in {"fill", "rename"} => tmp # None
  /\ got \in Values \cup {None}
  /\ daemon \in {"tick", "write", "dead"} /\ (daemon # "write" => writing = "nothing")
  /\ age \in [Inodes -> 0..Never] /\ {gotAge, okAgo} \subseteq 0..Never

\* A row that is neither red nor yellow can be trusted at the moment it is drawn:
\* no longer than StaleAfter ago fanctl said that all is well, even if the dashboard
\* is paused or fanctl hangs in the middle of a write (dashboard.py 230-244).
CalmRowIsRecent == fd = None /\ RowColor = "muted" => okAgo <= StaleAfter
=============================================================================

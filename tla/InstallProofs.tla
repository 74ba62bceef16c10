---------------------------- MODULE InstallProofs ----------------------------
(***************************************************************************)
(* The two services never write the fan together, for any number of        *)
(* scripts and refused commands.                                           *)
(***************************************************************************)
EXTENDS Install, SequenceTheorems, TLAPS

Starting == {"enable", "restart"}
GivingBack == {"unmask", "unmask or go on", "start", "start or go on"}
Commands ==
  {"copy rule", "copy unit", "check", "reload rules", "trigger", "verify", "daemon-reload", "mask",
   "health", "disable or go on", "remove", "chgrp"} \cup Starting \cup GivingBack

\* What is left of an installation starts fanctl only after the mask, and what is left of
\* the other two scripts begins with the stop of fanctl if it still holds one.  Both are
\* inherited by the tail of a list.
InstallOrder(list) ==
  /\ list \in Seq(Commands)
  /\ \A i \in 1..Len(list) : list[i] \notin GivingBack \cup {"disable or go on"}
  /\ \A i, j \in 1..Len(list) : list[i] \in Starting /\ list[j] = "mask" => j < i
UninstallOrder(list) ==
  /\ list \in Seq(Commands)
  /\ \A i \in 1..Len(list) : list[i] \notin Starting \cup {"mask", "health"}
  /\ \A i \in 1..Len(list) : list[i] = "disable or go on" => i = 1

Awaits(command) == \E i \in 1..Len(todo) : todo[i] = command

Place ==
  /\ script \in {"idle", "install", "rollback", "uninstall"}
  /\ script = "idle" => todo = <<>>
  /\ script = "install" => InstallOrder(todo)
  /\ script \in {"rollback", "uninstall"} => UninstallOrder(todo)

\* An installation past its mask has stopped system76-power, and a script past its
\* disable has stopped fanctl, if that was not refused.
PastMask == script = "install" /\ ~Awaits("mask")
PastDisable == script \in {"rollback", "uninstall"} /\ ~Awaits("disable or go on")

Writers ==
  /\ PastMask => masked /\ ~power
  /\ ~stopRefused =>
       /\ PastDisable => fanctl = "down" /\ ~enabled
       /\ ~(power /\ fanctl # "down")
       /\ ~(enabled /\ ~masked)

WriterInv == Place /\ Writers

-----------------------------------------------------------------------------
\* The lists, whole and without their first command.

LEMMA InstallListed == InstallOrder(InstallCommands) /\ InstallCommands[8] = "mask"
                       /\ Len(InstallCommands) = 11
<1>1. InstallCommands \in Seq(Commands) /\ Len(InstallCommands) = 11
  BY DEF InstallCommands, Commands, Starting
<1>2. /\ \A i \in 1..11 : InstallCommands[i] = "mask" => i = 8
      /\ \A i \in 1..11 : InstallCommands[i] = "enable" => i = 9
      /\ \A i \in 1..11 : InstallCommands[i] = "restart" => i = 10
      /\ \A i \in 1..11 : InstallCommands[i] \notin GivingBack \cup {"disable or go on"}
  BY DEF InstallCommands, GivingBack
<1>3. InstallCommands[8] = "mask"
  BY DEF InstallCommands
<1>4. ASSUME NEW i \in 1..11, NEW j \in 1..11, InstallCommands[i] \in Starting,
             InstallCommands[j] = "mask"
      PROVE  j < i
  <2>1. j = 8 /\ i \in {9, 10}
    BY <1>2, <1>4 DEF Starting
  <2>. QED
    BY <2>1
<1>. QED
  BY <1>1, <1>2, <1>3, <1>4 DEF InstallOrder

LEMMA RollbackListed ==
  /\ UninstallOrder(RollbackCommands)
  /\ Len(RollbackCommands) = 3 /\ RollbackCommands[1] = "disable or go on"
<1>1. RollbackCommands \in Seq(Commands) /\ Len(RollbackCommands) = 3
  BY DEF RollbackCommands, Commands, GivingBack
<1>2. /\ RollbackCommands[1] = "disable or go on"
      /\ \A i \in 1..3 : RollbackCommands[i] = "disable or go on" => i = 1
      /\ \A i \in 1..3 : RollbackCommands[i] \notin Starting \cup {"mask", "health"}
  BY DEF RollbackCommands, Starting
<1>. QED
  BY <1>1, <1>2 DEF UninstallOrder

LEMMA UninstallListed ==
  /\ UninstallOrder(UninstallCommands)
  /\ Len(UninstallCommands) = 7 /\ UninstallCommands[1] = "disable or go on"
<1>1. UninstallCommands \in Seq(Commands) /\ Len(UninstallCommands) = 7
  BY DEF UninstallCommands, Commands, GivingBack
<1>2. /\ UninstallCommands[1] = "disable or go on"
      /\ \A i \in 1..7 : UninstallCommands[i] = "disable or go on" => i = 1
      /\ \A i \in 1..7 : UninstallCommands[i] \notin Starting \cup {"mask", "health"}
  BY DEF UninstallCommands, Starting
<1>. QED
  BY <1>1, <1>2 DEF UninstallOrder

LEMMA TailFacts ==
  ASSUME NEW list \in Seq(Commands), list # <<>>
  PROVE  /\ Len(list) \in Nat \ {0} /\ Head(list) = list[1]
         /\ Tail(list) \in Seq(Commands) /\ Len(Tail(list)) = Len(list) - 1
         /\ \A i \in 1..Len(Tail(list)) : i + 1 \in 1..Len(list) /\ Tail(list)[i] = list[i + 1]
<1>1. Len(list) \in Nat \ {0} /\ Head(list) = list[1]
  OBVIOUS
<1>2. /\ Tail(list) \in Seq(Commands) /\ Len(Tail(list)) = Len(list) - 1
      /\ \A i \in 1..Len(Tail(list)) : Tail(list)[i] = list[i + 1]
  BY HeadTailProperties
<1>. QED
  BY <1>1, <1>2

LEMMA TailInstallOrder ==
  ASSUME NEW list, InstallOrder(list), list # <<>>
  PROVE  InstallOrder(Tail(list))
<1>1. list \in Seq(Commands)
  BY DEF InstallOrder
<1>2. /\ Tail(list) \in Seq(Commands)
      /\ \A i \in 1..Len(Tail(list)) : i + 1 \in 1..Len(list) /\ Tail(list)[i] = list[i + 1]
  BY <1>1, TailFacts
<1>3. \A i \in 1..Len(Tail(list)) : Tail(list)[i] \notin GivingBack \cup {"disable or go on"}
  BY <1>2 DEF InstallOrder
<1>4. ASSUME NEW i \in 1..Len(Tail(list)), NEW j \in 1..Len(Tail(list)),
             Tail(list)[i] \in Starting, Tail(list)[j] = "mask"
      PROVE  j < i
  <2>1. i + 1 \in 1..Len(list) /\ j + 1 \in 1..Len(list)
        /\ list[i + 1] \in Starting /\ list[j + 1] = "mask"
    BY <1>2, <1>4
  <2>2. j + 1 < i + 1
    BY <2>1 DEF InstallOrder
  <2>. QED
    BY <2>2
<1>. QED
  BY <1>2, <1>3, <1>4 DEF InstallOrder

LEMMA TailUninstallOrder ==
  ASSUME NEW list, UninstallOrder(list), list # <<>>
  PROVE  UninstallOrder(Tail(list))
<1>1. list \in Seq(Commands)
  BY DEF UninstallOrder
<1>2. /\ Tail(list) \in Seq(Commands)
      /\ \A i \in 1..Len(Tail(list)) : i + 1 \in 1..Len(list) /\ Tail(list)[i] = list[i + 1]
  BY <1>1, TailFacts
<1>3. \A i \in 1..Len(Tail(list)) : Tail(list)[i] \notin Starting \cup {"mask", "health"}
  BY <1>2 DEF UninstallOrder
<1>4. \A i \in 1..Len(Tail(list)) : Tail(list)[i] # "disable or go on"
  <2> SUFFICES ASSUME NEW i \in 1..Len(Tail(list)) PROVE Tail(list)[i] # "disable or go on"
    OBVIOUS
  <2>1. i + 1 \in 1..Len(list) /\ Tail(list)[i] = list[i + 1] /\ i + 1 # 1
    BY <1>2
  <2>. QED
    BY <2>1 DEF UninstallOrder
<1>. QED
  BY <1>2, <1>3, <1>4 DEF UninstallOrder

\* Going on in a script leaves one command behind.
LEMMA TailAwaits ==
  ASSUME todo \in Seq(Commands), todo # <<>>, todo' = Tail(todo), NEW command, Awaits(command)
  PROVE  Awaits(command)' \/ Runs(command)
<1>1. PICK i \in 1..Len(todo) : todo[i] = command
  BY DEF Awaits
<1>2. CASE i = 1
  BY <1>1, <1>2, TailFacts DEF Runs
<1>3. CASE i # 1
  <2>1. i - 1 \in 1..Len(Tail(todo)) /\ (i - 1) + 1 = i
    BY <1>1, <1>3, TailFacts
  <2>2. Tail(todo)[i - 1] = command
    BY <1>1, <2>1, TailFacts
  <2>. QED
    BY <2>1, <2>2 DEF Awaits
<1>. QED
  BY <1>2, <1>3

\* In a place of a script only some commands can come.
LEMMA NextCommand ==
  ASSUME Place, todo # <<>>
  PROVE  /\ script # "idle" /\ todo \in Seq(Commands)
         /\ Head(todo) \in Starting => PastMask
         /\ Head(todo) \in GivingBack => PastDisable
         /\ Runs("health") => script = "install"
<1>1. script # "idle" /\ todo \in Seq(Commands)
  BY DEF Place, InstallOrder, UninstallOrder
<1>2. 1 \in 1..Len(todo) /\ Head(todo) = todo[1]
  BY <1>1, TailFacts
<1>3. CASE script = "install"
  <2>1. InstallOrder(todo)
    BY <1>3 DEF Place
  <2>2. Head(todo) \notin GivingBack
    BY <1>2, <2>1 DEF InstallOrder
  <2>3. ASSUME Head(todo) \in Starting, NEW j \in 1..Len(todo), todo[j] = "mask"
        PROVE  FALSE
    <3>1. j < 1
      BY <1>2, <2>1, <2>3 DEF InstallOrder
    <3>. QED
      BY <3>1
  <2>. QED
    BY <1>1, <1>3, <2>2, <2>3 DEF PastMask, Awaits
<1>4. CASE script \in {"rollback", "uninstall"}
  <2>1. UninstallOrder(todo)
    BY <1>4 DEF Place
  <2>2. Head(todo) \notin Starting \cup {"mask", "health"}
    BY <1>2, <2>1 DEF UninstallOrder
  <2>3. ASSUME Head(todo) \in GivingBack, NEW j \in 1..Len(todo), todo[j] = "disable or go on"
        PROVE  FALSE
    <3>1. j = 1
      BY <2>1, <2>3 DEF UninstallOrder
    <3>. QED
      BY <1>2, <2>3, <3>1 DEF GivingBack
  <2>. QED
    BY <1>1, <1>4, <2>2, <2>3 DEF PastDisable, Awaits, Runs
<1>. QED
  BY <1>1, <1>3, <1>4 DEF Place

\* Going on keeps the place, and passes a mark only over its command.
LEMMA GoOnPlace ==
  ASSUME Place, todo # <<>>, GoOn
  PROVE  /\ Place'
         /\ PastMask' => PastMask \/ Runs("mask")
         /\ PastDisable' => PastDisable \/ Runs("disable or go on")
<1>1. CASE Len(todo) = 1
  BY <1>1 DEF GoOn, EndsAs, Place, PastMask, PastDisable
<1>2. CASE Len(todo) # 1
  <2>1. todo' = Tail(todo) /\ script' = script
    BY <1>2 DEF GoOn
  <2>2. Place'
    BY <2>1, TailInstallOrder, TailUninstallOrder, NextCommand DEF Place
  <2>3. todo \in Seq(Commands)
    BY NextCommand
  <2>4. PastMask' => PastMask \/ Runs("mask")
    <3>1. Awaits("mask") => Awaits("mask")' \/ Runs("mask")
      BY <2>1, <2>3, TailAwaits
    <3>. QED
      BY <2>1, <3>1 DEF PastMask
  <2>5. PastDisable' => PastDisable \/ Runs("disable or go on")
    <3>1. Awaits("disable or go on") => Awaits("disable or go on")' \/ Runs("disable or go on")
      BY <2>1, <2>3, TailAwaits
    <3>. QED
      BY <2>1, <3>1 DEF PastDisable
  <2>. QED
    BY <2>2, <2>4, <2>5
<1>. QED
  BY <1>1, <1>2

-----------------------------------------------------------------------------
LEMMA InitWriters == InstallInit => WriterInv
  BY DEF InstallInit, WriterInv, Writers, Place, PastMask, PastDisable

LEMMA BeginWriters ==
  ASSUME WriterInv, BeginInstall \/ BeginUninstall
  PROVE  WriterInv'
<1>1. UNCHANGED <<enabled, fanctl, masked, power, stopRefused>>
  BY DEF BeginInstall, BeginUninstall, Begin, unitVars
<1>2. \/ script' = "install" /\ todo' = InstallCommands
      \/ script' = "uninstall" /\ todo' = UninstallCommands
  BY DEF BeginInstall, BeginUninstall, Begin
<1>3. Place'
  BY <1>2, InstallListed, UninstallListed DEF Place
<1>4. ~PastMask' /\ ~PastDisable'
  <2>1. CASE script' = "install" /\ todo' = InstallCommands
    <3>1. 8 \in 1..Len(todo') /\ todo'[8] = "mask"
      BY <2>1, InstallListed
    <3>. QED
      BY <2>1, <3>1 DEF PastMask, PastDisable, Awaits
  <2>2. CASE script' = "uninstall" /\ todo' = UninstallCommands
    <3>1. Len(todo') = 7 /\ todo'[1] = "disable or go on"
      BY <2>2, UninstallListed
    <3>2. \E i \in 1..Len(todo') : todo'[i] = "disable or go on"
      <4>1. Len(todo') = 7
        BY <3>1
      <4>2. 1 \in 1..Len(todo')
        BY <4>1
      <4>. WITNESS 1 \in 1..Len(todo')
      <4>. QED
        BY <3>1
    <3>. QED
      BY <2>2, <3>2 DEF PastMask, PastDisable, Awaits
  <2>. QED
    BY <1>2, <2>1, <2>2
<1>. QED
  BY <1>1, <1>3, <1>4 DEF WriterInv, Writers

LEMMA WorksWriters ==
  ASSUME WriterInv, Works
  PROVE  WriterInv'
<1>1. todo # <<>> /\ stopRefused' = stopRefused
  BY DEF Works, Files, Udev, Units, Runs
<1>2. /\ Place'
      /\ PastMask' => PastMask \/ Runs("mask")
      /\ PastDisable' => PastDisable \/ Runs("disable or go on")
  BY <1>1, GoOnPlace DEF WriterInv, Works
<1>3. /\ Runs("enable") \/ Runs("restart") => PastMask
      /\ Runs("unmask") \/ Runs("unmask or go on") \/ Runs("start") \/ Runs("start or go on")
           => PastDisable
  BY <1>1, NextCommand DEF WriterInv, Runs, Starting, GivingBack
<1>4. ~(PastMask /\ PastDisable)
  BY DEF PastMask, PastDisable
<1>5. CASE Files \/ Udev
  <2>1. UNCHANGED <<enabled, fanctl, masked, power>>
    BY <1>5 DEF Files, Udev, unitVars
  <2>2. ~Runs("mask") /\ ~Runs("disable or go on")
    BY <1>5 DEF Files, Udev, Runs
  <2>. QED
    BY <1>1, <1>2, <2>1, <2>2 DEF WriterInv, Writers
<1>6. CASE Units
  <2>1. CASE Runs("mask") /\ masked' = TRUE /\ power' = FALSE /\ UNCHANGED <<enabled, fanctl>>
    <3>1. ~Runs("disable or go on")
      BY <2>1 DEF Runs
    <3>. QED
      BY <1>1, <1>2, <2>1, <3>1 DEF WriterInv, Writers
  <2>2. CASE /\ Runs("enable") \/ Runs("restart")
             /\ UNCHANGED <<masked, power>>
    <3>1. PastMask /\ ~PastDisable' /\ masked /\ ~power
      <4>1. ~Runs("disable or go on")
        BY <2>2 DEF Runs
      <4>. QED
        BY <1>2, <1>3, <1>4, <2>2, <4>1 DEF WriterInv, Writers
    <3>. QED
      BY <1>1, <1>2, <2>2, <3>1 DEF WriterInv, Writers
  <2>3. CASE Runs("disable or go on") /\ enabled' = FALSE /\ fanctl' = "down"
             /\ UNCHANGED <<masked, power>>
    <3>1. ~Runs("mask")
      BY <2>3 DEF Runs
    <3>. QED
      BY <1>1, <1>2, <2>3, <3>1 DEF WriterInv, Writers
  <2>4. CASE /\ Runs("unmask") \/ Runs("unmask or go on") \/ Runs("start") \/ Runs("start or go on")
             /\ UNCHANGED <<enabled, fanctl>>
    <3>1. PastDisable /\ ~PastMask'
      <4>1. ~Runs("mask")
        BY <2>4 DEF Runs
      <4>. QED
        BY <1>2, <1>3, <1>4, <2>4, <4>1
    <3>. QED
      BY <1>1, <1>2, <2>4, <3>1 DEF WriterInv, Writers
  <2>. QED
    BY <1>6, <2>1, <2>2, <2>3, <2>4 DEF Units
<1>. QED
  BY <1>5, <1>6 DEF Works

\* A script that ends, or turns into the rollback, is past no mark.
LEMMA EndWriters ==
  ASSUME WriterInv,
         \/ script' = "idle" /\ todo' = <<>>
         \/ script' = "rollback" /\ todo' = RollbackCommands,
         UNCHANGED <<enabled, masked, power, stopRefused>>,
         fanctl' = fanctl \/ PastMask
  PROVE  WriterInv'
<1>1. Place'
  BY RollbackListed DEF Place
<1>2. ~PastMask' /\ ~PastDisable'
  <2>1. CASE script' = "idle"
    BY <2>1 DEF PastMask, PastDisable
  <2>2. CASE script' = "rollback" /\ todo' = RollbackCommands
    <3>1. Len(todo') = 3 /\ todo'[1] = "disable or go on"
      BY <2>2, RollbackListed
    <3>2. \E i \in 1..Len(todo') : todo'[i] = "disable or go on"
      <4>1. Len(todo') = 3
        BY <3>1
      <4>2. 1 \in 1..Len(todo')
        BY <4>1
      <4>. WITNESS 1 \in 1..Len(todo')
      <4>. QED
        BY <3>1
    <3>. QED
      BY <2>2, <3>2 DEF PastMask, PastDisable, Awaits
  <2>. QED
    BY <2>1, <2>2
<1>. QED
  BY <1>1, <1>2 DEF WriterInv, Writers

LEMMA HealthWriters ==
  ASSUME WriterInv, Healthy \/ StartFails \/ FailsAndGoesOn
  PROVE  WriterInv'
<1>1. todo # <<>> /\ UNCHANGED <<enabled, fanctl, masked, power>>
  BY DEF Healthy, StartFails, FailsAndGoesOn, Refusal, Runs, unitVars
<1>2. GoOn
  BY DEF Healthy, StartFails, FailsAndGoesOn
<1>3. /\ Place'
      /\ PastMask' => PastMask \/ Runs("mask")
      /\ PastDisable' => PastDisable \/ Runs("disable or go on")
  BY <1>1, <1>2, GoOnPlace DEF WriterInv
<1>4. ~Runs("mask")
  BY DEF Healthy, StartFails, FailsAndGoesOn, Refusal, Runs, Forgiving
<1>5. stopRefused => stopRefused'
  BY DEF Healthy, StartFails, FailsAndGoesOn, historyVars
<1>6. Runs("disable or go on") => stopRefused'
  BY DEF Healthy, StartFails, FailsAndGoesOn, Runs
<1>. QED
  BY <1>1, <1>3, <1>4, <1>5, <1>6 DEF WriterInv, Writers

LEMMA NextWriters == WriterInv /\ [InstallNext]_installVars => WriterInv'
<1> SUFFICES ASSUME WriterInv, [InstallNext]_installVars PROVE WriterInv'
  OBVIOUS
<1>1. CASE BeginInstall \/ BeginUninstall
  BY <1>1, BeginWriters
<1>2. CASE Works
  BY <1>2, WorksWriters
<1>3. CASE Healthy \/ StartFails \/ FailsAndGoesOn
  BY <1>3, HealthWriters
<1>4. CASE Unhealthy \/ VerifyFails \/ Kill
  BY <1>4, EndWriters DEF Unhealthy, VerifyFails, Kill, EndsAs, unitVars, historyVars
<1>5. CASE Fails
  <2>1. todo # <<>> /\ UNCHANGED <<enabled, masked, power, stopRefused>>
        /\ script' = "idle" /\ todo' = <<>>
    BY <1>5 DEF Fails, Refusal, EndsAs, historyVars
  <2>2. fanctl' = fanctl \/ PastMask
    BY <1>5, <2>1, NextCommand DEF Fails, WriterInv, Runs, Starting
  <2>. QED
    BY <2>1, <2>2, EndWriters
<1>6. CASE FanctlReady \/ BoardChanges
  <2>1. /\ UNCHANGED <<script, todo, enabled, masked, power, stopRefused>>
        /\ fanctl' # "down" => fanctl # "down"
    BY <1>6 DEF FanctlReady, BoardChanges, scriptVars, unitVars, historyVars
  <2>2. Place' /\ PastMask' = PastMask /\ PastDisable' = PastDisable
    BY <2>1 DEF WriterInv, Place, PastMask, PastDisable, Awaits
  <2>. QED
    BY <1>6, <2>1, <2>2 DEF WriterInv, Writers, FanctlReady, BoardChanges, unitVars
<1>7. CASE Reboot
  <2>1. script' = "idle" /\ todo' = <<>>
    BY <1>7 DEF Reboot, EndsAs, WriterInv, Place
  <2>2. /\ UNCHANGED <<enabled, masked, stopRefused>>
        /\ power' = ~masked
        /\ fanctl' # "down" => enabled
    BY <1>7 DEF Reboot, historyVars
  <2>3. Place' /\ ~PastMask' /\ ~PastDisable'
    BY <2>1 DEF Place, PastMask, PastDisable
  <2>. QED
    BY <2>2, <2>3 DEF WriterInv, Writers
<1>8. CASE UNCHANGED installVars
  BY <1>8 DEF installVars, scriptVars, unitVars, historyVars, WriterInv, Writers, Place, PastMask,
              PastDisable, Awaits
<1>. QED
  BY <1>1, <1>2, <1>3, <1>4, <1>5, <1>6, <1>7, <1>8 DEF InstallNext, Script, Machine

\* system76-power and fanctl never run together, nor will a reboot bring them together,
\* whatever is refused, killed or interrupted, as long as fanctl could be stopped when it
\* was meant to be (install.sh 10-57, uninstall.sh 6-18).
THEOREM OneWriterAlways == InstallSpec => []OneWriter
<1>1. WriterInv => OneWriter
  BY DEF WriterInv, Writers, OneWriter
<1>. QED
  BY <1>1, InitWriters, NextWriters, PTL DEF InstallSpec
-----------------------------------------------------------------------------
\* What a script that goes on has done.

Precedes(list, first, second) ==
  \A i, j \in 1..Len(list) : list[i] = first /\ list[j] = second => i < j

Lasts(list, command) == Len(list) > 0 /\ list[Len(list)] = command

Installing ==
  {"copy rule", "copy unit", "check", "reload rules", "trigger", "verify", "daemon-reload",
   "mask", "enable", "restart", "health"}
Uninstalling ==
  {"disable or go on", "remove", "daemon-reload", "reload rules", "chgrp", "unmask", "start"}

\* What is left of an installation ends with the health check, and what is left of an
\* uninstall with the start of system76-power; both keep what they await in order.
InstallPlan(list) ==
  /\ list \in Seq(Installing)
  /\ Precedes(list, "copy rule", "reload rules") /\ Precedes(list, "reload rules", "verify")
  /\ Lasts(list, "health")
UninstallPlan(list) ==
  /\ list \in Seq(Uninstalling)
  /\ Precedes(list, "remove", "reload rules") /\ Precedes(list, "reload rules", "chgrp")
  /\ Lasts(list, "start")

\* A command that a script no longer awaits has done its work, and nothing undid it.
InstallProgress ==
  /\ ~Awaits("copy rule") => ruleFile
  /\ ~Awaits("copy unit") => unitFile
  /\ ~Awaits("reload rules") => ruleFile /\ ruleLoaded
  /\ ~Awaits("verify") => ruleFile /\ ruleLoaded /\ (board => open)
  /\ ~Awaits("mask") => masked /\ ~power
  /\ ~Awaits("enable") => enabled
  /\ ~Awaits("restart") => fanctl # "down"
UninstallProgress ==
  /\ ~Awaits("remove") => ~ruleFile /\ ~unitFile
  /\ ~Awaits("reload rules") => ~ruleFile /\ ~ruleLoaded
  /\ ~Awaits("chgrp") => ~ruleFile /\ ~ruleLoaded /\ ~open
  /\ ~Awaits("unmask") => ~masked

\* What an uninstall promises whether or not fanctl could be stopped.
Fenced ==
  outcome = "uninstalled" =>
    power /\ ~masked /\ ~open /\ ~ruleLoaded /\ ~ruleFile /\ ~unitFile

Progress ==
  /\ script \in {"idle", "install", "rollback", "uninstall"}
  /\ script = "install" => InstallPlan(todo) /\ InstallProgress
  /\ script = "uninstall" => UninstallPlan(todo) /\ UninstallProgress
  /\ outcome \in {"installed", "uninstalled"} => script = "idle"
  /\ outcome = "installed" => ruleFile /\ ruleLoaded
  /\ InstalledLasts /\ Fenced

LEMMA TailPrecedes ==
  ASSUME NEW list \in Seq(Commands), list # <<>>, NEW first, NEW second,
         Precedes(list, first, second)
  PROVE  Precedes(Tail(list), first, second)
<1> SUFFICES ASSUME NEW i \in 1..Len(Tail(list)), NEW j \in 1..Len(Tail(list)),
                    Tail(list)[i] = first, Tail(list)[j] = second
             PROVE  i < j
  BY DEF Precedes
<1>1. i + 1 \in 1..Len(list) /\ j + 1 \in 1..Len(list)
      /\ list[i + 1] = first /\ list[j + 1] = second
  BY TailFacts
<1>2. i + 1 < j + 1
  BY <1>1 DEF Precedes
<1>. QED
  BY <1>2

LEMMA TailLasts ==
  ASSUME NEW list \in Seq(Commands), Len(list) # 1, NEW command, Lasts(list, command)
  PROVE  list # <<>> /\ Lasts(Tail(list), command)
<1>1. Len(list) \in Nat /\ Len(list) > 1
  <2>1. PICK n \in Nat : n = Len(list)
    OBVIOUS
  <2>2. n > 0 /\ n # 1
    BY <2>1 DEF Lasts
  <2>. QED
    BY <2>1, <2>2
<1>2. list # <<>>
  BY <1>1
<1>3. Len(Tail(list)) = Len(list) - 1 /\ Len(Tail(list)) \in 1..Len(Tail(list))
  BY <1>1, <1>2, TailFacts
<1>4. Tail(list)[Len(Tail(list))] = list[Len(Tail(list)) + 1]
  BY <1>2, <1>3, TailFacts
<1>. QED
  BY <1>1, <1>2, <1>3, <1>4 DEF Lasts

LEMMA OnlyLast ==
  ASSUME todo \in Seq(Commands), Len(todo) = 1, NEW command, Lasts(todo, command)
  PROVE  /\ todo # <<>> /\ Head(todo) = command
         /\ \A other : other # command => ~Awaits(other)
<1>1. todo # <<>> /\ Head(todo) = todo[1] /\ todo[1] = command
  BY DEF Lasts
<1>2. \A i \in 1..Len(todo) : i = 1
  OBVIOUS
<1>. QED
  BY <1>1, <1>2 DEF Awaits

\* What comes first is not behind what it precedes.
LEMMA NotBehind ==
  ASSUME todo \in Seq(Commands), todo # <<>>, NEW first, Precedes(todo, first, Head(todo))
  PROVE  ~Awaits(first)
<1> SUFFICES ASSUME NEW i \in 1..Len(todo), todo[i] = first PROVE FALSE
  BY DEF Awaits
<1>1. 1 \in 1..Len(todo) /\ Head(todo) = todo[1]
  BY TailFacts
<1>2. i < 1
  BY <1>1 DEF Precedes
<1>. QED
  BY <1>2

LEMMA WholePlans == InstallPlan(InstallCommands) /\ UninstallPlan(UninstallCommands)
<1>1. InstallCommands \in Seq(Installing) /\ Len(InstallCommands) = 11
  BY DEF InstallCommands, Installing
<1>2. /\ \A i \in 1..11 : InstallCommands[i] = "copy rule" => i = 1
      /\ \A i \in 1..11 : InstallCommands[i] = "reload rules" => i = 4
      /\ \A i \in 1..11 : InstallCommands[i] = "verify" => i = 6
      /\ InstallCommands[11] = "health"
  BY DEF InstallCommands
<1>3. /\ Precedes(InstallCommands, "copy rule", "reload rules")
      /\ Precedes(InstallCommands, "reload rules", "verify")
      /\ Lasts(InstallCommands, "health")
  <2>1. \A i, j \in 1..11 :
          /\ InstallCommands[i] = "copy rule" /\ InstallCommands[j] = "reload rules" => i < j
          /\ InstallCommands[i] = "reload rules" /\ InstallCommands[j] = "verify" => i < j
    <3> SUFFICES ASSUME NEW i \in 1..11, NEW j \in 1..11
                 PROVE
          /\ InstallCommands[i] = "copy rule" /\ InstallCommands[j] = "reload rules" => i < j
          /\ InstallCommands[i] = "reload rules" /\ InstallCommands[j] = "verify" => i < j
      OBVIOUS
    <3>1. ASSUME InstallCommands[i] = "copy rule", InstallCommands[j] = "reload rules"
          PROVE  i < j
      <4>1. i = 1 /\ j = 4
        BY <1>2, <3>1
      <4>. QED
        BY <4>1
    <3>2. ASSUME InstallCommands[i] = "reload rules", InstallCommands[j] = "verify"
          PROVE  i < j
      <4>1. i = 4 /\ j = 6
        BY <1>2, <3>2
      <4>. QED
        BY <4>1
    <3>. QED
      BY <3>1, <3>2
  <2>2. Len(InstallCommands) = 11
    BY <1>1
  <2>3. Lasts(InstallCommands, "health")
    <3>1. 11 > 0
      OBVIOUS
    <3>. QED
      BY <1>2, <2>2, <3>1, Zenon DEF Lasts
  <2>. QED
    BY <2>1, <2>2, <2>3, Zenon DEF Precedes
<1>4. UninstallCommands \in Seq(Uninstalling) /\ Len(UninstallCommands) = 7
  BY DEF UninstallCommands, Uninstalling
<1>5. /\ \A i \in 1..7 : UninstallCommands[i] = "remove" => i = 2
      /\ \A i \in 1..7 : UninstallCommands[i] = "reload rules" => i = 4
      /\ \A i \in 1..7 : UninstallCommands[i] = "chgrp" => i = 5
      /\ UninstallCommands[7] = "start"
  BY DEF UninstallCommands
<1>6. /\ Precedes(UninstallCommands, "remove", "reload rules")
      /\ Precedes(UninstallCommands, "reload rules", "chgrp")
      /\ Lasts(UninstallCommands, "start")
  <2>1. \A i, j \in 1..7 :
          /\ UninstallCommands[i] = "remove" /\ UninstallCommands[j] = "reload rules" => i < j
          /\ UninstallCommands[i] = "reload rules" /\ UninstallCommands[j] = "chgrp" => i < j
    <3> SUFFICES ASSUME NEW i \in 1..7, NEW j \in 1..7
                 PROVE
          /\ UninstallCommands[i] = "remove" /\ UninstallCommands[j] = "reload rules" => i < j
          /\ UninstallCommands[i] = "reload rules" /\ UninstallCommands[j] = "chgrp" => i < j
      OBVIOUS
    <3>1. ASSUME UninstallCommands[i] = "remove", UninstallCommands[j] = "reload rules"
          PROVE  i < j
      <4>1. i = 2 /\ j = 4
        BY <1>5, <3>1
      <4>. QED
        BY <4>1
    <3>2. ASSUME UninstallCommands[i] = "reload rules", UninstallCommands[j] = "chgrp"
          PROVE  i < j
      <4>1. i = 4 /\ j = 5
        BY <1>5, <3>2
      <4>. QED
        BY <4>1
    <3>. QED
      BY <3>1, <3>2
  <2>2. Len(UninstallCommands) = 7
    BY <1>4
  <2>3. Lasts(UninstallCommands, "start")
    <3>1. 7 > 0
      OBVIOUS
    <3>. QED
      BY <1>5, <2>2, <3>1, Zenon DEF Lasts
  <2>. QED
    BY <2>1, <2>2, <2>3, Zenon DEF Precedes
<1>. QED
  BY <1>1, <1>3, <1>4, <1>6 DEF InstallPlan, UninstallPlan

\* Nothing is done yet when everything is awaited.
LEMMA WholeListsAwaitAll ==
  /\ todo = InstallCommands => InstallProgress
  /\ todo = UninstallCommands => UninstallProgress
<1>1. ASSUME todo = InstallCommands PROVE InstallProgress
  <2>1. /\ Len(todo) = 11 /\ todo[1] = "copy rule" /\ todo[2] = "copy unit"
        /\ todo[4] = "reload rules" /\ todo[6] = "verify" /\ todo[8] = "mask"
        /\ todo[9] = "enable" /\ todo[10] = "restart"
    BY <1>1 DEF InstallCommands
  <2>2. {1, 2, 4, 6, 8, 9, 10} \subseteq 1..11
    OBVIOUS
  <2>3. /\ Awaits("copy rule") /\ Awaits("copy unit") /\ Awaits("reload rules")
        /\ Awaits("verify") /\ Awaits("mask") /\ Awaits("enable") /\ Awaits("restart")
    BY <2>1, <2>2, Zenon DEF Awaits
  <2>. QED
    BY <2>3 DEF InstallProgress
<1>2. ASSUME todo = UninstallCommands PROVE UninstallProgress
  <2>1. /\ Len(todo) = 7 /\ todo[2] = "remove" /\ todo[4] = "reload rules"
        /\ todo[5] = "chgrp" /\ todo[6] = "unmask"
    BY <1>2 DEF UninstallCommands
  <2>2. {2, 4, 5, 6} \subseteq 1..7
    OBVIOUS
  <2>3. Awaits("remove") /\ Awaits("reload rules") /\ Awaits("chgrp") /\ Awaits("unmask")
    BY <2>1, <2>2, Zenon DEF Awaits
  <2>. QED
    BY <2>3 DEF UninstallProgress
<1>. QED
  BY <1>1, <1>2

LEMMA InitProgress == InstallInit => Progress
  BY DEF InstallInit, Progress, InstalledLasts, Fenced

LEMMA BeginProgress ==
  ASSUME BeginInstall \/ BeginUninstall
  PROVE  Progress'
<1>1. \/ script' = "install" /\ todo' = InstallCommands
      \/ script' = "uninstall" /\ todo' = UninstallCommands
  BY DEF BeginInstall, BeginUninstall, Begin
<1>2. outcome' = "none"
  BY DEF BeginInstall, BeginUninstall, Begin
<1>3. /\ (todo = InstallCommands => InstallProgress)'
      /\ (todo = UninstallCommands => UninstallProgress)'
  BY WholeListsAwaitAll, PTL
<1>. QED
  BY <1>1, <1>2, <1>3, WholePlans DEF Progress, InstalledLasts, Fenced

\* A script that ends without its last command, or turns into the rollback, has promised
\* nothing.
LEMMA EndProgress ==
  ASSUME script' \in {"idle", "rollback"},
         outcome' \notin {"installed", "uninstalled"}
  PROVE  Progress'
  BY DEF Progress, InstalledLasts, Fenced

\* The plans are inherited, and their commands come in order.
LEMMA PlanGoesOn ==
  ASSUME Place, Progress, todo # <<>>, Len(todo) # 1, todo' = Tail(todo), script' = script
  PROVE  /\ script = "install" => InstallPlan(todo')
         /\ script = "uninstall" => UninstallPlan(todo')
<1>1. todo \in Seq(Commands)
  BY NextCommand
<1>2. ASSUME script = "install" PROVE InstallPlan(todo')
  <2>1. InstallPlan(todo)
    BY <1>2 DEF Progress
  <2>2. Tail(todo) \in Seq(Installing)
    BY <2>1, HeadTailProperties DEF InstallPlan
  <2>. QED
    BY <1>1, <2>1, <2>2, TailPrecedes, TailLasts DEF InstallPlan
<1>3. ASSUME script = "uninstall" PROVE UninstallPlan(todo')
  <2>1. UninstallPlan(todo)
    BY <1>3 DEF Progress
  <2>2. Tail(todo) \in Seq(Uninstalling)
    BY <2>1, HeadTailProperties DEF UninstallPlan
  <2>. QED
    BY <1>1, <2>1, <2>2, TailPrecedes, TailLasts DEF UninstallPlan
<1>. QED
  BY <1>2, <1>3

LEMMA PlanOrder ==
  ASSUME Place, Progress, todo # <<>>
  PROVE  /\ script = "install" => /\ Head(todo) \in Installing
                                  /\ Runs("reload rules") => ~Awaits("copy rule")
                                  /\ Runs("verify") => ~Awaits("reload rules")
                                  /\ Len(todo) = 1 => Runs("health")
                                  /\ Len(todo) = 1 => \A c : c # "health" => ~Awaits(c)
         /\ script = "uninstall" => /\ Head(todo) \in Uninstalling
                                    /\ Runs("reload rules") => ~Awaits("remove")
                                    /\ Runs("chgrp") => ~Awaits("reload rules")
                                    /\ Len(todo) = 1 => Runs("start")
                                    /\ Len(todo) = 1 => \A c : c # "start" => ~Awaits(c)
<1>1. todo \in Seq(Commands)
  BY NextCommand
<1>2. ASSUME script = "install"
      PROVE  /\ Head(todo) \in Installing
             /\ Runs("reload rules") => ~Awaits("copy rule")
             /\ Runs("verify") => ~Awaits("reload rules")
             /\ Len(todo) = 1 => Runs("health")
             /\ Len(todo) = 1 => \A c : c # "health" => ~Awaits(c)
  <2>1. InstallPlan(todo)
    BY <1>2 DEF Progress
  <2>2. Head(todo) \in Installing
    BY <2>1, HeadTailProperties DEF InstallPlan
  <2>3. Runs("reload rules") => ~Awaits("copy rule")
    BY <1>1, <2>1, NotBehind DEF InstallPlan, Runs
  <2>4. Runs("verify") => ~Awaits("reload rules")
    BY <1>1, <2>1, NotBehind DEF InstallPlan, Runs
  <2>5. Len(todo) = 1 => Runs("health") /\ \A c : c # "health" => ~Awaits(c)
    BY <1>1, <2>1, OnlyLast DEF InstallPlan, Runs
  <2>. QED
    BY <2>2, <2>3, <2>4, <2>5
<1>3. ASSUME script = "uninstall"
      PROVE  /\ Head(todo) \in Uninstalling
             /\ Runs("reload rules") => ~Awaits("remove")
             /\ Runs("chgrp") => ~Awaits("reload rules")
             /\ Len(todo) = 1 => Runs("start")
             /\ Len(todo) = 1 => \A c : c # "start" => ~Awaits(c)
  <2>1. UninstallPlan(todo)
    BY <1>3 DEF Progress
  <2>2. Head(todo) \in Uninstalling
    BY <2>1, HeadTailProperties DEF UninstallPlan
  <2>3. Runs("reload rules") => ~Awaits("remove")
    BY <1>1, <2>1, NotBehind DEF UninstallPlan, Runs
  <2>4. Runs("chgrp") => ~Awaits("reload rules")
    BY <1>1, <2>1, NotBehind DEF UninstallPlan, Runs
  <2>5. Len(todo) = 1 => Runs("start") /\ \A c : c # "start" => ~Awaits(c)
    BY <1>1, <2>1, OnlyLast DEF UninstallPlan, Runs
  <2>. QED
    BY <2>2, <2>3, <2>4, <2>5
<1>. QED
  BY <1>2, <1>3

\* A command of the installation that works undoes nothing that another one did.
LEMMA InstallEffects ==
  ASSUME Works, Head(todo) \in Installing
  PROVE  /\ (ruleFile => ruleFile') /\ (Runs("copy rule") => ruleFile')
         /\ (unitFile => unitFile') /\ (Runs("copy unit") => unitFile')
         /\ ruleFile /\ (ruleLoaded \/ Runs("reload rules")) => ruleLoaded'
         /\ (board => open) \/ Runs("verify") => (board' => open')
         /\ (masked => masked') /\ (~power => ~power')
         /\ Runs("mask") => masked' /\ ~power'
         /\ (enabled => enabled') /\ (Runs("enable") => enabled')
         /\ fanctl # "down" \/ Runs("restart") => fanctl' # "down"
<1>1. CASE Files
  <2>1. /\ UNCHANGED <<enabled, fanctl, masked, power, ruleLoaded, board, open>>
        /\ \/ Runs("copy rule") /\ ruleFile' = TRUE /\ UNCHANGED unitFile
           \/ Runs("copy unit") /\ unitFile' = TRUE /\ UNCHANGED ruleFile
           \/ (Runs("check") \/ Runs("daemon-reload")) /\ UNCHANGED <<ruleFile, unitFile>>
    <3>1. ~Runs("remove")
      BY DEF Runs, Installing
    <3>. QED
      BY <1>1, <3>1, Zenon DEF Files, unitVars, udevVars
  <2>2. /\ ~Runs("reload rules") /\ ~Runs("verify") /\ ~Runs("mask")
        /\ ~Runs("enable") /\ ~Runs("restart")
    BY <2>1 DEF Runs
  <2>3. CASE Runs("copy rule") /\ ruleFile' = TRUE /\ UNCHANGED unitFile
    <3>1. ~Runs("copy unit")
      BY <2>3 DEF Runs
    <3>. QED
      BY <2>1, <2>2, <2>3, <3>1, Zenon
  <2>4. CASE Runs("copy unit") /\ unitFile' = TRUE /\ UNCHANGED ruleFile
    <3>1. ~Runs("copy rule")
      BY <2>4 DEF Runs
    <3>. QED
      BY <2>1, <2>2, <2>4, <3>1, Zenon
  <2>5. CASE (Runs("check") \/ Runs("daemon-reload")) /\ UNCHANGED <<ruleFile, unitFile>>
    <3>1. ~Runs("copy rule") /\ ~Runs("copy unit")
      BY <2>5 DEF Runs
    <3>. QED
      BY <2>1, <2>2, <2>5, <3>1, Zenon
  <2>. QED
    BY <2>1, <2>3, <2>4, <2>5
<1>2. CASE Udev
  <2>1. /\ UNCHANGED <<unitFile, enabled, fanctl, masked, power, ruleFile, board>>
        /\ \/ Runs("reload rules") /\ ruleLoaded' = ruleFile /\ UNCHANGED open
           \/ Runs("trigger") /\ open' = (open \/ (board /\ ruleLoaded)) /\ UNCHANGED ruleLoaded
           \/ Runs("verify") /\ board /\ open /\ UNCHANGED <<ruleLoaded, open>>
    <3>1. ~Runs("chgrp")
      BY DEF Runs, Installing
    <3>. QED
      BY <1>2, <3>1, Zenon DEF Udev, unitVars, udevVars
  <2>2. /\ ~Runs("copy rule") /\ ~Runs("copy unit") /\ ~Runs("mask")
        /\ ~Runs("enable") /\ ~Runs("restart")
    BY <2>1 DEF Runs
  <2>3. CASE Runs("reload rules") /\ ruleLoaded' = ruleFile /\ UNCHANGED open
    <3>1. ~Runs("verify")
      BY <2>3 DEF Runs
    <3>. QED
      BY <2>1, <2>2, <2>3, <3>1, Zenon
  <2>4. CASE Runs("trigger") /\ open' = (open \/ (board /\ ruleLoaded)) /\ UNCHANGED ruleLoaded
    <3>1. ~Runs("verify") /\ ~Runs("reload rules")
      BY <2>4 DEF Runs
    <3>2. open => open'
      BY <2>4, Zenon
    <3>. QED
      BY <2>1, <2>2, <2>4, <3>1, <3>2, Zenon
  <2>5. CASE Runs("verify") /\ board /\ open /\ UNCHANGED <<ruleLoaded, open>>
    <3>1. ~Runs("reload rules")
      BY <2>5 DEF Runs
    <3>. QED
      BY <2>1, <2>2, <2>5, <3>1, Zenon
  <2>. QED
    BY <2>1, <2>3, <2>4, <2>5
<1>3. CASE Units
  <2>1. /\ UNCHANGED <<unitFile, ruleFile, ruleLoaded, board, open>>
        /\ \/ Runs("mask") /\ masked' = TRUE /\ power' = FALSE /\ UNCHANGED <<enabled, fanctl>>
           \/ Runs("enable") /\ enabled' = TRUE /\ UNCHANGED <<fanctl, masked, power>>
           \/ Runs("restart") /\ fanctl' = "up" /\ UNCHANGED <<enabled, masked, power>>
    <3>1. /\ ~Runs("disable or go on") /\ ~Runs("unmask") /\ ~Runs("unmask or go on")
          /\ ~Runs("start") /\ ~Runs("start or go on")
      BY DEF Runs, Installing
    <3>. QED
      BY <1>3, <3>1, Zenon DEF Units, unitVars, udevVars
  <2>2. /\ ~Runs("copy rule") /\ ~Runs("copy unit") /\ ~Runs("reload rules") /\ ~Runs("verify")
    BY <2>1 DEF Runs
  <2>3. CASE Runs("mask") /\ masked' = TRUE /\ power' = FALSE /\ UNCHANGED <<enabled, fanctl>>
    <3>1. ~Runs("enable") /\ ~Runs("restart")
      BY <2>3 DEF Runs
    <3>. QED
      BY <2>1, <2>2, <2>3, <3>1, Zenon
  <2>4. CASE Runs("enable") /\ enabled' = TRUE /\ UNCHANGED <<fanctl, masked, power>>
    <3>1. ~Runs("mask") /\ ~Runs("restart")
      BY <2>4 DEF Runs
    <3>. QED
      BY <2>1, <2>2, <2>4, <3>1, Zenon
  <2>5. CASE Runs("restart") /\ fanctl' = "up" /\ UNCHANGED <<enabled, masked, power>>
    <3>1. ~Runs("mask") /\ ~Runs("enable") /\ fanctl' # "down"
      BY <2>5 DEF Runs
    <3>. QED
      BY <2>1, <2>2, <2>5, <3>1, Zenon
  <2>. QED
    BY <2>1, <2>3, <2>4, <2>5
<1>. QED
  BY <1>1, <1>2, <1>3 DEF Works

\* ... and nor does one of the uninstall.
LEMMA UninstallEffects ==
  ASSUME Works, Head(todo) \in Uninstalling
  PROVE  /\ ~ruleFile \/ Runs("remove") => ~ruleFile'
         /\ ~unitFile \/ Runs("remove") => ~unitFile'
         /\ ~ruleFile /\ (~ruleLoaded \/ Runs("reload rules")) => ~ruleLoaded'
         /\ ~open \/ Runs("chgrp") => ~open'
         /\ ~masked \/ Runs("unmask") => ~masked'
         /\ Runs("start") => power' /\ ~masked
<1>1. CASE Files
  <2>1. /\ UNCHANGED <<masked, ruleLoaded, open>>
        /\ \/ Runs("remove") /\ ruleFile' = FALSE /\ unitFile' = FALSE
           \/ Runs("daemon-reload") /\ UNCHANGED ruleFile /\ UNCHANGED unitFile
    <3>1. ~Runs("copy rule") /\ ~Runs("copy unit") /\ ~Runs("check")
      BY DEF Runs, Uninstalling
    <3>. QED
      BY <1>1, <3>1, Zenon DEF Files, unitVars, udevVars
  <2>2. /\ ~Runs("reload rules") /\ ~Runs("chgrp") /\ ~Runs("unmask") /\ ~Runs("start")
        /\ Runs("daemon-reload") => ~Runs("remove")
    BY <2>1 DEF Runs
  <2>3. ~ruleFile \/ Runs("remove") => ~ruleFile'
    BY <2>1, <2>2, Zenon
  <2>4. ~unitFile \/ Runs("remove") => ~unitFile'
    BY <2>1, <2>2, Zenon
  <2>. QED
    BY <2>1, <2>2, <2>3, <2>4, Zenon
<1>2. CASE Udev
  <2>1. /\ UNCHANGED <<masked, ruleFile, unitFile>>
        /\ \/ Runs("reload rules") /\ ruleLoaded' = ruleFile /\ UNCHANGED open
           \/ Runs("chgrp") /\ open' = FALSE /\ UNCHANGED ruleLoaded
    <3>1. ~Runs("trigger") /\ ~Runs("verify")
      BY DEF Runs, Uninstalling
    <3>. QED
      BY <1>2, <3>1, Zenon DEF Udev, unitVars, udevVars
  <2>2. /\ ~Runs("remove") /\ ~Runs("unmask") /\ ~Runs("start")
        /\ Runs("chgrp") => ~Runs("reload rules")
    BY <2>1 DEF Runs
  <2>3. ~ruleFile /\ (~ruleLoaded \/ Runs("reload rules")) => ~ruleLoaded'
    BY <2>1, <2>2, Zenon
  <2>4. ~open \/ Runs("chgrp") => ~open'
    BY <2>1, <2>2, Zenon
  <2>. QED
    BY <2>1, <2>2, <2>3, <2>4, Zenon
<1>3. CASE Units
  <2>1. /\ UNCHANGED <<unitFile, ruleFile, ruleLoaded, open>>
        /\ \/ Runs("disable or go on") /\ UNCHANGED masked
           \/ Runs("unmask") /\ masked' = FALSE
           \/ Runs("start") /\ ~masked /\ power' = TRUE /\ UNCHANGED masked
    <3>1. /\ ~Runs("mask") /\ ~Runs("enable") /\ ~Runs("restart")
          /\ ~Runs("unmask or go on") /\ ~Runs("start or go on")
      BY DEF Runs, Uninstalling
    <3>. QED
      BY <1>3, <3>1, Zenon DEF Units, unitVars, udevVars
  <2>2. /\ ~Runs("remove") /\ ~Runs("reload rules") /\ ~Runs("chgrp")
        /\ Runs("disable or go on") => ~Runs("unmask") /\ ~Runs("start")
        /\ Runs("unmask") => ~Runs("start")
    BY <2>1 DEF Runs
  <2>3. ~masked \/ Runs("unmask") => ~masked'
    BY <2>1, <2>2, Zenon
  <2>4. Runs("start") => power' /\ ~masked
    BY <2>1, <2>2, Zenon
  <2>. QED
    BY <2>1, <2>2, <2>3, <2>4, Zenon
<1>. QED
  BY <1>1, <1>2, <1>3 DEF Works

LEMMA WorksProgress ==
  ASSUME Place, Progress, Works
  PROVE  Progress'
<1>1. todo # <<>> /\ script # "idle" /\ todo \in Seq(Commands) /\ GoOn
  <2>1. todo # <<>>
    BY DEF Works, Files, Udev, Units, Runs
  <2>. QED
    BY <2>1, NextCommand DEF Works
<1>2. CASE script = "install"
  <2>1. ~Runs("health")
    BY DEF Works, Files, Udev, Units, Runs
  <2>2. Head(todo) \in Installing /\ Len(todo) # 1
    BY <1>1, <1>2, <2>1, PlanOrder
  <2>3. todo' = Tail(todo) /\ script' = script /\ outcome' = outcome
    BY <2>2 DEF Works, GoOn
  <2>4. InstallPlan(todo')
    BY <1>1, <1>2, <2>2, <2>3, PlanGoesOn
  <2>5. \A c : ~Awaits(c)' => ~Awaits(c) \/ Runs(c)
    BY <1>1, <2>3, TailAwaits
  <2>6. InstallProgress
    BY <1>2 DEF Progress
  <2>7. Runs("reload rules") => ruleFile
    BY <1>1, <1>2, <2>6, PlanOrder DEF InstallProgress
  <2>8. Runs("verify") => ruleFile /\ ruleLoaded
    BY <1>1, <1>2, <2>6, PlanOrder DEF InstallProgress
  <2>9. InstallProgress'
    BY <2>2, <2>5, <2>6, <2>7, <2>8, InstallEffects DEF InstallProgress
  <2>. QED
    BY <1>2, <2>3, <2>4, <2>9 DEF Progress, InstalledLasts, Fenced
<1>3. CASE script = "uninstall"
  <2>1. Head(todo) \in Uninstalling
    BY <1>1, <1>3, PlanOrder
  <2>2. UninstallProgress
    BY <1>3 DEF Progress
  <2>3. /\ Runs("reload rules") => ~ruleFile
        /\ Runs("chgrp") => ~ruleFile /\ ~ruleLoaded
    BY <1>1, <1>3, <2>2, PlanOrder DEF UninstallProgress
  <2>4. CASE Len(todo) = 1
    <3>1. Runs("start") /\ ~Awaits("remove") /\ ~Awaits("reload rules") /\ ~Awaits("chgrp")
          /\ ~Awaits("unmask")
      BY <1>1, <1>3, <2>4, PlanOrder
    <3>2. power' /\ ~masked' /\ ~open' /\ ~ruleLoaded' /\ ~ruleFile' /\ ~unitFile'
      BY <2>1, <2>2, <3>1, UninstallEffects DEF UninstallProgress
    <3>3. script' = "idle" /\ outcome' = "uninstalled"
      BY <1>1, <1>3, <2>4 DEF GoOn, EndsAs, Outcome
    <3>. QED
      BY <3>2, <3>3 DEF Progress, InstalledLasts, Fenced
  <2>5. CASE Len(todo) # 1
    <3>1. todo' = Tail(todo) /\ script' = script /\ outcome' = outcome
      BY <1>1, <2>5 DEF GoOn
    <3>2. UninstallPlan(todo')
      BY <1>1, <1>3, <2>5, <3>1, PlanGoesOn
    <3>3. \A c : ~Awaits(c)' => ~Awaits(c) \/ Runs(c)
      BY <1>1, <3>1, TailAwaits
    <3>4. UninstallProgress'
      BY <2>1, <2>2, <2>3, <3>3, UninstallEffects DEF UninstallProgress
    <3>. QED
      BY <1>3, <3>1, <3>2, <3>4 DEF Progress, InstalledLasts, Fenced
  <2>. QED
    BY <2>4, <2>5
<1>4. CASE script = "rollback"
  <2>1. outcome' \notin {"installed", "uninstalled"} /\ script' \in {"idle", "rollback"}
    BY <1>1, <1>4 DEF GoOn, EndsAs, Outcome, Progress
  <2>. QED
    BY <2>1, EndProgress
<1>. QED
  BY <1>1, <1>2, <1>3, <1>4 DEF Progress

\* The same for what goes on without changing the machine.
LEMMA HealthProgress ==
  ASSUME Place, Progress, Healthy \/ StartFails \/ FailsAndGoesOn
  PROVE  Progress'
<1>1. todo # <<>> /\ UNCHANGED <<unitVars, udevVars>> /\ GoOn
  BY DEF Healthy, StartFails, FailsAndGoesOn, Refusal, Runs
<1>2. script # "idle" /\ todo \in Seq(Commands)
  BY <1>1, NextCommand
<1>3. UNCHANGED <<unitFile, enabled, fanctl, masked, power, ruleFile, ruleLoaded, board, open>>
  BY <1>1 DEF unitVars, udevVars
<1>4. CASE script = "install"
  <2>1. Runs("health") /\ fanctl = "up"
    BY <1>1, <1>4, PlanOrder
    DEF Healthy, StartFails, FailsAndGoesOn, Refusal, Forgiving, Runs, Installing
  <2>2. InstallProgress
    BY <1>4 DEF Progress
  <2>3. CASE Len(todo) = 1
    <3>1. /\ ~Awaits("copy unit") /\ ~Awaits("verify") /\ ~Awaits("mask")
          /\ ~Awaits("enable") /\ ~Awaits("restart")
      BY <1>1, <1>4, <2>3, PlanOrder
    <3>2. script' = "idle" /\ outcome' = "installed"
      BY <1>1, <1>4, <2>3 DEF GoOn, EndsAs, Outcome
    <3>. QED
      BY <1>3, <2>2, <3>1, <3>2
      DEF InstallProgress, Progress, InstalledLasts, Fenced
  <2>4. CASE Len(todo) # 1
    <3>1. todo' = Tail(todo) /\ script' = script /\ outcome' = outcome
      BY <1>1, <2>4 DEF GoOn
    <3>2. InstallPlan(todo')
      BY <1>1, <1>4, <2>4, <3>1, PlanGoesOn
    <3>3. \A c : ~Awaits(c)' => ~Awaits(c) \/ c = "health"
      BY <1>1, <1>2, <2>1, <3>1, TailAwaits DEF Runs
    <3>4. InstallProgress'
      BY <1>3, <2>2, <3>3 DEF InstallProgress
    <3>. QED
      BY <1>4, <3>1, <3>2, <3>4 DEF Progress, InstalledLasts, Fenced
  <2>. QED
    BY <2>3, <2>4
<1>5. CASE script = "uninstall"
  <2>1. Head(todo) \in Uninstalling /\ (Len(todo) = 1 => Runs("start"))
    BY <1>1, <1>5, PlanOrder
  <2>2. Runs("disable or go on")
    BY <1>1, <2>1
    DEF Healthy, StartFails, FailsAndGoesOn, Refusal, Forgiving, Runs, Uninstalling
  <2>3. Len(todo) # 1
    BY <2>1, <2>2 DEF Runs
  <2>4. todo' = Tail(todo) /\ script' = script /\ outcome' = outcome
    BY <1>1, <2>3 DEF GoOn
  <2>5. UninstallPlan(todo')
    BY <1>1, <1>5, <2>3, <2>4, PlanGoesOn
  <2>6. \A c : ~Awaits(c)' => ~Awaits(c) \/ c = "disable or go on"
    BY <1>1, <1>2, <2>2, <2>4, TailAwaits DEF Runs
  <2>7. UninstallProgress
    BY <1>5 DEF Progress
  <2>8. UninstallProgress'
    BY <1>3, <2>6, <2>7 DEF UninstallProgress
  <2>. QED
    BY <1>5, <2>4, <2>5, <2>8 DEF Progress, InstalledLasts, Fenced
<1>6. CASE script = "rollback"
  <2>1. outcome' \notin {"installed", "uninstalled"} /\ script' \in {"idle", "rollback"}
    BY <1>1, <1>6 DEF GoOn, EndsAs, Outcome, Progress
  <2>. QED
    BY <2>1, EndProgress
<1>. QED
  BY <1>2, <1>4, <1>5, <1>6 DEF Progress

\* The machine under a script, or under what a script left behind.
LEMMA MachineProgress ==
  ASSUME Progress, FanctlReady \/ BoardChanges
  PROVE  Progress'
<1>1. UNCHANGED <<script, todo, outcome, unitFile, enabled, masked, power, ruleFile, ruleLoaded>>
  BY DEF FanctlReady, BoardChanges, scriptVars, unitVars, udevVars
<1>2. /\ fanctl # "down" => fanctl' # "down"
      /\ ruleLoaded /\ (board => open) => (board' => open')
      /\ ~ruleLoaded /\ ~open => ~open'
  <2>1. CASE FanctlReady
    <3>1. fanctl' = "up" /\ UNCHANGED board /\ UNCHANGED open
      BY <2>1 DEF FanctlReady, udevVars
    <3>. QED
      BY <3>1
  <2>2. CASE BoardChanges
    <3>1. open' = (board' /\ ruleLoaded) /\ UNCHANGED fanctl
      BY <2>2 DEF BoardChanges, unitVars
    <3>. QED
      BY <3>1, Zenon
  <2>. QED
    BY <2>1, <2>2
<1>3. \A c : Awaits(c)' = Awaits(c)
  BY <1>1 DEF Awaits
<1>4. InstallProgress => InstallProgress'
  BY <1>1, <1>2, <1>3 DEF InstallProgress
<1>5. UninstallProgress => UninstallProgress'
  BY <1>1, <1>2, <1>3 DEF UninstallProgress
<1>6. Progress => InstalledLasts'
  BY <1>1, <1>2 DEF Progress, InstalledLasts
<1>7. Progress => Fenced'
  BY <1>1, <1>2 DEF Progress, Fenced
<1>. QED
  BY <1>1, <1>4, <1>5, <1>6, <1>7 DEF Progress

LEMMA RebootProgress ==
  ASSUME Progress, Reboot
  PROVE  Progress'
<1>1. CASE script # "idle"
  <2>1. script' = "idle" /\ outcome' = "killed"
    BY <1>1 DEF Reboot, EndsAs
  <2>. QED
    BY <2>1, EndProgress
<1>2. CASE script = "idle"
  <2>1. /\ UNCHANGED <<script, todo, outcome>>
        /\ UNCHANGED <<unitFile, enabled, masked, ruleFile, board>>
    BY <1>2 DEF Reboot
  <2>2. /\ power' = ~masked
        /\ enabled /\ unitFile => fanctl' # "down"
        /\ ruleFile => ruleLoaded' /\ (board => open')
        /\ ~ruleFile => ~ruleLoaded' /\ ~open'
    BY DEF Reboot
  <2>3. InstalledLasts'
    BY <2>1, <2>2 DEF Progress, InstalledLasts
  <2>4. Fenced'
    BY <2>1, <2>2 DEF Progress, Fenced
  <2>. QED
    BY <1>2, <2>1, <2>2, <2>3, <2>4 DEF Progress
<1>. QED
  BY <1>1, <1>2

LEMMA NextProgress == WriterInv /\ Progress /\ [InstallNext]_installVars => Progress'
<1> SUFFICES ASSUME WriterInv, Progress, [InstallNext]_installVars PROVE Progress'
  OBVIOUS
<1>. Place
  BY DEF WriterInv
<1>1. CASE BeginInstall \/ BeginUninstall
  BY <1>1, BeginProgress
<1>2. CASE Works
  BY <1>2, WorksProgress
<1>3. CASE Healthy \/ StartFails \/ FailsAndGoesOn
  BY <1>3, HealthProgress
<1>4. CASE Fails \/ VerifyFails \/ Kill
  BY <1>4, EndProgress DEF Fails, VerifyFails, Kill, EndsAs
<1>5. CASE Unhealthy
  <2>1. script = "install"
    BY <1>5, NextCommand DEF Unhealthy, Runs
  <2>2. outcome' \notin {"installed", "uninstalled"} /\ script' = "rollback"
    BY <1>5, <2>1 DEF Unhealthy, Progress
  <2>. QED
    BY <2>2, EndProgress
<1>6. CASE FanctlReady \/ BoardChanges
  BY <1>6, MachineProgress
<1>7. CASE Reboot
  BY <1>7, RebootProgress
<1>8. CASE UNCHANGED installVars
  <2>1. /\ UNCHANGED <<script, todo, outcome>>
        /\ UNCHANGED <<unitFile, enabled, fanctl, masked, power>>
        /\ UNCHANGED <<ruleFile, ruleLoaded, board, open>>
    BY <1>8 DEF installVars, scriptVars, unitVars, udevVars
  <2>2. \A c : Awaits(c)' = Awaits(c)
    BY <2>1 DEF Awaits
  <2>. QED
    BY <2>1, <2>2
    DEF Progress, InstallProgress, UninstallProgress, InstalledLasts, Fenced
<1>. QED
  BY <1>1, <1>2, <1>3, <1>4, <1>5, <1>6, <1>7, <1>8 DEF InstallNext, Script, Machine

LEMMA ProgressAlways == InstallSpec => []Progress
<1>1. InstallInit => WriterInv /\ Progress
  BY InitWriters, InitProgress
<1>2. WriterInv /\ Progress /\ [InstallNext]_installVars => (WriterInv /\ Progress)'
  BY NextWriters, NextProgress
<1>. QED
  BY <1>1, <1>2, PTL DEF InstallSpec

\* An installation that said it was done stays done, whatever the machine does until the
\* next script: over reboots the fan is fanctl's, system76-power is out of the way, and
\* the byte of a board that comes back is writable (install.sh 25-76, 60-fanctl.rules).
THEOREM InstallationAlwaysLasts == InstallSpec => []InstalledLasts
<1>1. Progress => InstalledLasts
  BY DEF Progress
<1>. QED
  BY <1>1, ProgressAlways, PTL

\* After an uninstall that said it was done the fan is system76-power's, neither a reboot
\* nor a board that comes back opens the byte to the group again, and fanctl's unit is gone;
\* if fanctl could be stopped it is down and disabled too, whatever came before and comes
\* after (uninstall.sh 6-18).
THEOREM UninstallationAlwaysFences == InstallSpec => []UninstalledIsFenced
<1>1. Progress /\ OneWriter => UninstalledIsFenced
  BY DEF Progress, Fenced, OneWriter, UninstalledIsFenced
<1>. QED
  BY <1>1, ProgressAlways, OneWriterAlways, PTL
=============================================================================

------------------------------- MODULE Install -------------------------------
(***************************************************************************)
(* The handover of the fan between system76-power and fanctl:              *)
(* src/packaging/install.sh, uninstall.sh and 60-fanctl.rules.             *)
(*                                                                         *)
(* A script is a list of commands under set -e, each of which works or is  *)
(* refused.  Most go through the function run, in which a failure ends the *)
(* script at once: the ERR trap set in line 53 is not inherited by         *)
(* functions without set -E.  systemd, udev and the board are external.    *)
(* Users, groups and the binary change nothing here and are left out.      *)
(***************************************************************************)
EXTENDS Naturals, Sequences

CONSTANTS
  MaxRuns,     \* bounds of the model: how many scripts are started,
  MaxRefused   \* and how many commands are refused

ASSUME InstallAssumption == MaxRuns \in Nat /\ MaxRefused \in Nat

VARIABLES
  \* the script
  script,       \* "idle", "install", "rollback" or "uninstall"
  todo,         \* its commands still to be run
  outcome,      \* of the last script: "none", "installed", "rolled back",
                \* "uninstalled", "failed" or "killed"
  runs,         \* scripts started
  refused,      \* commands refused
  \* what it changes
  unitFile,     \* fanctl.service is there
  enabled,      \* ... and enabled
  fanctl,       \* the fanctl unit: "down", "starting" or "up"
  masked,       \* system76-power is masked
  power,        \* ... is running
  ruleFile,     \* 60-fanctl.rules is there
  ruleLoaded,   \* ... and known to udev
  board,        \* the Io board is connected
  open,         \* its pwm2 belongs to the group fanctl
  \* history
  handedOver,   \* this script has stopped system76-power
  stopRefused   \* fanctl was not stopped when it should have been

scriptVars == <<script, todo, outcome, runs, refused>>
unitVars == <<unitFile, enabled, fanctl, masked, power>>
udevVars == <<ruleFile, ruleLoaded, board, open>>
historyVars == <<handedOver, stopRefused>>
installVars == <<scriptVars, unitVars, udevVars, historyVars>>

InstallInit ==
  /\ script = "idle" /\ todo = <<>> /\ outcome = "none" /\ runs = 0 /\ refused = 0
  /\ unitFile = FALSE /\ enabled = FALSE /\ fanctl = "down"
  /\ masked = FALSE /\ power = TRUE
  /\ ruleFile = FALSE /\ ruleLoaded = FALSE /\ board \in BOOLEAN /\ open = FALSE
  /\ handedOver = FALSE /\ stopRefused = FALSE

-----------------------------------------------------------------------------
\* The scripts.

\* Mutants: the unit is started but not enabled; fanctl is started before system76-power
\* is out of the way.
InstallWithoutEnable ==
  <<"copy rule", "copy unit", "check", "reload rules", "trigger", "verify", "daemon-reload",
    "mask", "restart", "health">>
InstallRestartsFirst ==
  <<"copy rule", "copy unit", "check", "reload rules", "trigger", "verify", "daemon-reload",
    "enable", "restart", "mask", "health">>

InstallCommands ==
  <<"copy rule", "copy unit", "check", "reload rules", "trigger", "verify", "daemon-reload",
    "mask", "enable", "restart", "health">>

RollbackCommands == <<"disable or go on", "unmask or go on", "start or go on">>

\* Mutant: the attribute is given back before the rule is gone.
UninstallFencesFirst ==
  <<"disable or go on", "chgrp", "remove", "daemon-reload", "reload rules", "unmask", "start">>

UninstallCommands ==
  <<"disable or go on", "remove", "daemon-reload", "reload rules", "chgrp", "unmask", "start">>

Begin(name, commands) ==
  /\ script = "idle" /\ runs < MaxRuns
  /\ script' = name /\ todo' = commands
  /\ outcome' = "none" /\ handedOver' = FALSE
  /\ runs' = runs + 1
  /\ UNCHANGED <<refused, unitVars, udevVars, stopRefused>>

BeginInstall == Begin("install", InstallCommands)
BeginUninstall == Begin("uninstall", UninstallCommands)

EndsAs(result) == script' = "idle" /\ todo' = <<>> /\ outcome' = result

Outcome == CASE script = "install" -> "installed"
             [] script = "rollback" -> "rolled back"
             [] OTHER -> "uninstalled"

\* The next command, or the end of the script after the last.
GoOn == IF Len(todo) = 1 THEN EndsAs(Outcome)
        ELSE todo' = Tail(todo) /\ UNCHANGED <<script, outcome>>

Runs(command) == todo # <<>> /\ Head(todo) = command

Files ==
  \/ Runs("copy rule") /\ ruleFile' = TRUE /\ UNCHANGED <<unitVars, ruleLoaded, board, open>>
  \/ /\ Runs("copy unit") /\ unitFile' = TRUE
     /\ UNCHANGED <<enabled, fanctl, masked, power, udevVars>>
  \/ /\ Runs("remove") /\ ruleFile' = FALSE /\ unitFile' = FALSE
     /\ UNCHANGED <<enabled, fanctl, masked, power, ruleLoaded, board, open>>
  \/ (Runs("check") \/ Runs("daemon-reload")) /\ UNCHANGED <<unitVars, udevVars>>

\* udevadm, and the checks of pwm2 (lines 36-49); chgrp and chmod (uninstall 10-16).
Udev ==
  /\ \/ /\ Runs("reload rules") /\ ruleLoaded' = ruleFile
        /\ UNCHANGED <<ruleFile, board, open>>
     \/ /\ Runs("trigger") /\ open' = (open \/ (board /\ ruleLoaded))
        /\ UNCHANGED <<ruleFile, ruleLoaded, board>>
     \/ Runs("verify") /\ board /\ open /\ UNCHANGED udevVars
     \/ /\ Runs("chgrp") /\ open' = FALSE
        /\ UNCHANGED <<ruleFile, ruleLoaded, board>>
  /\ UNCHANGED unitVars

\* systemctl.
Units ==
  /\ \/ /\ Runs("mask") /\ masked' = TRUE /\ power' = FALSE
        /\ UNCHANGED <<unitFile, enabled, fanctl>>
     \/ /\ Runs("enable") /\ enabled' = TRUE
        /\ UNCHANGED <<unitFile, fanctl, masked, power>>
     \/ /\ Runs("restart") /\ fanctl' = "up"
        /\ UNCHANGED <<unitFile, enabled, masked, power>>
     \/ /\ Runs("disable or go on") /\ enabled' = FALSE /\ fanctl' = "down"
        /\ UNCHANGED <<unitFile, masked, power>>
     \/ /\ Runs("unmask") \/ Runs("unmask or go on")
        /\ masked' = FALSE
        /\ UNCHANGED <<unitFile, enabled, fanctl, power>>
     \/ /\ Runs("start") \/ Runs("start or go on")
        /\ ~masked
        /\ power' = TRUE
        /\ UNCHANGED <<unitFile, enabled, fanctl, masked>>
  /\ UNCHANGED udevVars

Works ==
  /\ Files \/ Udev \/ Units
  /\ GoOn
  /\ handedOver' = (handedOver \/ Runs("mask"))
  /\ UNCHANGED <<runs, refused, stopRefused>>

\* The state file says error null and panic false within ten seconds (lines 58-72).
Healthy ==
  /\ Runs("health") /\ fanctl = "up"
  /\ GoOn
  /\ UNCHANGED <<runs, refused, unitVars, udevVars, historyVars>>

Unhealthy ==
  /\ Runs("health")
  /\ script' = "rollback" /\ todo' = RollbackCommands
  /\ UNCHANGED <<outcome, runs, refused, unitVars, udevVars, historyVars>>

Forgiving == {"disable or go on", "unmask or go on", "start or go on"}

Refusal == /\ todo # <<>>
           /\ refused < MaxRefused /\ refused' = refused + 1

\* A refused command ends the script; a unit that did not get ready is left to
\* Restart=always.
Fails ==
  /\ Refusal /\ Head(todo) \notin Forgiving \cup {"health"}
  /\ EndsAs("failed")
  /\ fanctl' = IF Runs("restart") THEN "starting" ELSE fanctl
  /\ UNCHANGED <<runs, unitFile, enabled, masked, power, udevVars, historyVars>>

\* ... unless it is followed by || (lines 12-14, uninstall 6).
FailsAndGoesOn ==
  /\ Refusal /\ Head(todo) \in Forgiving
  /\ GoOn
  /\ stopRefused' = (stopRefused \/ Runs("disable or go on"))
  /\ UNCHANGED <<runs, unitVars, udevVars, handedOver>>

\* Without the board, or with its pwm2 not open, nothing is handed over.
VerifyFails ==
  /\ Runs("verify") /\ ~(board /\ open)
  /\ EndsAs("failed")
  /\ UNCHANGED <<runs, refused, unitVars, udevVars, historyVars>>

\* A masked unit does not start, and a rollback does not mind.
StartFails ==
  /\ Runs("start or go on") /\ masked
  /\ GoOn
  /\ UNCHANGED <<runs, refused, unitVars, udevVars, historyVars>>

-----------------------------------------------------------------------------
\* The rest of the machine.

\* Ctrl-C, or a terminal that is closed.
Kill ==
  /\ script # "idle"
  /\ EndsAs("killed")
  /\ UNCHANGED <<runs, refused, unitVars, udevVars, historyVars>>

FanctlReady ==
  /\ fanctl = "starting"
  /\ fanctl' = "up"
  /\ UNCHANGED <<scriptVars, unitFile, enabled, masked, power, udevVars, historyVars>>

\* The board leaves, or comes with a pwm2 of root that udev sees to.
BoardChanges ==
  /\ board' = ~board
  /\ open' = (board' /\ ruleLoaded)
  /\ UNCHANGED <<scriptVars, unitVars, ruleFile, ruleLoaded, historyVars>>

\* What is enabled and not masked comes up again, and udev reads its rules.
Reboot ==
  /\ IF script = "idle" THEN UNCHANGED <<script, todo, outcome>> ELSE EndsAs("killed")
  /\ power' = ~masked
  /\ fanctl' = IF enabled /\ unitFile THEN "starting" ELSE "down"
  /\ ruleLoaded' = ruleFile
  /\ open' = (board /\ ruleFile)
  /\ UNCHANGED <<runs, refused, unitFile, enabled, masked, ruleFile, board, historyVars>>

Script == \/ BeginInstall \/ BeginUninstall \/ Works \/ Healthy \/ Unhealthy
          \/ Fails \/ FailsAndGoesOn \/ VerifyFails \/ StartFails
Machine == Kill \/ FanctlReady \/ BoardChanges \/ Reboot

InstallNext == Script \/ Machine

InstallSpec == InstallInit /\ [][InstallNext]_installVars

-----------------------------------------------------------------------------
\* system76-power and fanctl never run together, and a reboot does not bring them
\* together either, whatever was interrupted, as long as fanctl could be stopped
\* when it was meant to be (install.sh 54: "it writes the same PWM file").
OneWriter ==
  ~stopRefused => ~(power /\ fanctl # "down") /\ ~(enabled /\ ~masked)

\* An installation that reported success lasts: over reboots the fan is fanctl's,
\* and its byte is writable whenever the board is there.
InstalledLasts ==
  outcome = "installed" =>
    /\ enabled /\ unitFile /\ masked /\ ~power /\ fanctl # "down"
    /\ board => open

\* After an uninstall that reported success the fan is system76-power's, no board that
\* appears is open to the group any more, and fanctl has no unit to come back with; it is
\* down and disabled as well, as long as it could be stopped when it was meant to be
\* (uninstall.sh 6-18).
UninstalledIsFenced ==
  outcome = "uninstalled" =>
    /\ power /\ ~masked
    /\ ~open /\ ~ruleLoaded /\ ~ruleFile
    /\ ~unitFile
    /\ ~stopRefused => fanctl = "down" /\ ~enabled

\* "From here on any failure must restore system76-power, whatever set -e would
\* do" (install.sh 52).
FailureRestores == outcome = "failed" /\ handedOver => power
=============================================================================

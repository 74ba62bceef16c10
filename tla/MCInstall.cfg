\* Three scripts: install, upgrade or uninstall, and install again; two refusals
\* are a command that fails and a rollback that fails.
CONSTANTS
  MaxRuns = 3
  MaxRefused = 2
SPECIFICATION InstallSpec
INVARIANTS OneWriter InstalledLasts UninstalledIsFenced
CHECK_DEADLOCK FALSE

\* Findings 15 to 18, one invariant at a time: a descriptor that outlives the
\* card, a debugfs file used before the registers are mapped, an interrupt
\* handled after remoteproc has freed the handle, a probe that goes on without
\* its debugfs directory.
SPECIFICATION Spec
CONSTANTS
  Apps = {a1, a2}
  MaxBinds = 1
INVARIANT AppSafe
\* INVARIANT DebugfsSafe
\* INVARIANT ReportSafe
\* INVARIANT DirectoryLive
CHECK_DEADLOCK FALSE

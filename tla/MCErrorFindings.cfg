\* Findings 7 to 9, one invariant at a time: a transfer starts while an error
\* waits for its handler, a burst of errors against one handler, a reset while
\* a transfer is armed.
SPECIFICATION ErrorSpec
CONSTANTS
  Callers = {c1}
  NFields = 5
  MaxErrors = 4
INVARIANT LateReadsCause
\* INVARIANT SeenOrCounted
\* INVARIANT ResetCancels
\* INVARIANT CrashTracesNone

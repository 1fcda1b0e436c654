\* Two callers of the bring-up DMA, four errors.
SPECIFICATION ErrorSpec
CONSTANTS
  Callers = {c1, c2}
  NFields = 5
  MaxErrors = 4
SYMMETRY Symmetry
INVARIANTS ReportWhole WholeTransfer OkIsDone

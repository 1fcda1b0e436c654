\* Two readers, three windows of two bytes, reads of up to four bytes (three
\* windows), two swallowed writes.
SPECIFICATION WindowSpec
CONSTANTS
  MemReaders = {r1, r2}
  WindowSize = 2
  Windows = 3
  PageSize = 4
  MaxInjects = 2
SYMMETRY Symmetry
INVARIANTS ReadsRequested FaultsAreTransient

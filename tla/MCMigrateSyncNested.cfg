\* Two of the machine's datasets, the second a delegate within the first, two syncs, one
\* failing command or broken stream. One invariant: send.js says of a resume token that is
\* of no use that it falls "back to just sending the previous snapshot name".
CONSTANTS
  NumDatasets = 2
  MaxRuns = 2
  MaxFaults = 1
  MaxOwn = 0

SPECIFICATION Spec
INVARIANT FallsBack
CHECK_DEADLOCK FALSE

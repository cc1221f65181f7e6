CONSTANTS
  Procs = {p1, p2}
  Frames = 12
  Pool = {2, 3, 4, 5, 6, 7, 8, 9, 10, 11}
  Span = 2
  CloneTables = 3
  MaxPages = 4
  ImagePages = {2, 3}
  StackPages = {3}
  DataPages = {2}
  HeapBase = 4
  HeapTop = 7
SPECIFICATION SpacesSpec
INVARIANT WritableStackAccepted

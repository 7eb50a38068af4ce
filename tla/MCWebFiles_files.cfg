CONSTANTS
  c1 = c1
  c2 = c2
  c3 = c3
  p1 = p1
  p2 = p2
  Contexts = {c1, c2, c3}
  NumSlots = 2
  Pages = {p1, p2}
  PageLen <- MCPageLen
  DirLen = 2
  NULL = NULL
  NoFile = NoFile
  Dir = Dir
  Upload = Upload
SPECIFICATION Spec
SYMMETRY Symmetry
INVARIANTS TypeOK HandlesOwned ReadsItsPage OnlyUnreadPagesLeak

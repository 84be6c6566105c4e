SPECIFICATION SuiteSpec
CONSTANTS
  Vals <- MCVals
  Fps <- MCFps
  Bases <- MCBases
  Pats <- MCPats
  Wides <- MCWides
  Build <- Builds
  Names <- MCNames
  Page = 16
  Half = 32
  StaticBase = 64
  AllocBase = 128
  q1 = q1
  q2 = q2
  u1 = u1
  u2 = u2
  u3 = u3
  Process = {q1, q2}
  FirstProcess = q1
  Task = {u1, u2, u3}
  ProcessOf <- MCProcessOf
  Fd = {0, 1}
  Floor = {0, 1}
  Host = {0, 1, 2, 3}
  File = {1, 2, 3}
  Master = {2}
  Quota <- MCQuota
  t1 = t1
  t2 = t2
  t3 = t3
  p1 = p1
  p2 = p2
  p3 = p3
  s1 = s1
  s2 = s2
  h1 = h1
  h2 = h2
  h3 = h3
  h4 = h4
  v0 = v0
  v1 = v1
  nil = nil
  Thread = {t1, t2, t3}
  Proc = {p1, p2, p3}
  Home <- Single
  First = p1
  Seg = {s1}
  Val = {v0, v1}
  Zero = v0
  HPage = {h1, h2, h3}
  Unmapped = nil
  Ops = {"fork", "mmap", "munmap", "mprotect", "exit"}
SYMMETRY Symmetry
INVARIANTS
  EnginesAgree
  LoweringCorrect
  ReferencesReach
  ContentsKept
  LinkerSectionsTell
  LinkVerdict
  IoOnSameFile
  OwnHandles
  WritableIsExclusive
  TlbCoherent
PROPERTIES
  FdPromise
  FlatSpec
CHECK_DEADLOCK FALSE

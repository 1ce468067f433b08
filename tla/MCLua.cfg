CONSTANTS
  MAXSTACK = 250
  MAXRK = 2
  MAXARG_C = 2
  LFIELDS_PER_FLUSH = 2
  LUAI_MAXCALLS = 9
  LUAI_MAXCCALLS = 8
  MAXTAGLOOP = 4
  LUA_MAXCAPTURES = 2
  Programs <- MCPrograms
  Main <- MCMain
  NameOfRegister <- ObjName
  StringFunction <- StrCall
  NewMatching <- StrMatching
  NextMatch <- StrGmatch
  GsubBegun <- StrSubstituting
  GsubStep <- StrGsub
  GsubAsked <- StrAsked
  GsubAnswered <- StrAnswered
SPECIFICATION Spec
INVARIANTS
  InFrame
  UpvaluesOpen
  FlagsTrue
  ResumedOnce
PROPERTIES
  CompiledWell
  Correct
  Ends

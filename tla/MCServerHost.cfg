\* Two folders.
CONSTANTS
  Nil = Nil
  ConfigFile = ConfigFile
  ServerName = ServerName
  Host = Host
  Port = Port
  other = other
  str = str
  num = num
  empty = empty
  main = main
  full = full
  late = late
  numbered = numbered
  wrong = wrong
  wrongLate = wrongLate
  Table = {empty, main, full, late, numbered, wrong, wrongLate}
  Value = {ConfigFile, ServerName, Host, Port, other, str, num,
           empty, main, full, late, numbered, wrong, wrongLate}
  MaxRef = 2
  Entries <- TableEntries
  TypeOf <- LuaType
  Reader = {"serverData", "config"}
  Folders = 2
SPECIFICATION Spec
INVARIANTS
  InOrder
  Accounted
  SettledWhenRegistered
  EntriesApplied
PROPERTY Settles

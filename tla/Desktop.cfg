SPECIFICATION DeskSpec
CONSTANTS
  Rows = 2
  Cols = 3
  Scrollback = 3
  CaptureRoom = 4
  Blank = " "
  ScreenW = 1024
  ScreenH = 768
  Esc = "esc"
  Letters = {"d", "q"}
  QueryRoom = 1
  TermRoom = 1
  TermDesktop <- MCTermDesktop
  Hits <- MCHits
  Listing <- MCListing
  Parent <- MCParent
  BufSize = 3
  HistorySize = 2
  QueueSize = 2
  Prompt <- MCPrompt
  Banner <- MCBanner
  Programs <- MCPrograms
  MaxRefused = 1
  MaxTokens = 32
  MaxCommands = 8
  Capacity = 3
  Events <- MCEvents
  NoEvent = NoEvent
  MaxPush = 5
  KeyEvents <- MCKeyEvents
  Packets <- MCPackets
  Width = 10
  StartX = 4
  Users = {"shell", "ahead", "terminal", "settings", "files", "search", "modifiers", "mouse"}
  Keys <- MCKeys
  Patient = {"shell", "terminal", "settings", "files", "search"}
  Terse = {"terminal", "settings", "files", "search"}
  Staying = {"terminal", "settings", "search"}
  UsbUsers = {"ahead", "terminal", "files"}
  Places <- MCPlaces
INVARIANTS
  
  
  CaretFollowsShell
  
  
PROPERTIES
  Implements
  CommandsInOrder
CHECK_DEADLOCK FALSE

SPECIFICATION RecordsSpec
CONSTANTS
  ann = ann
  bob = bob
  t1 = t1
  t2 = t2
  t3 = t3
  n1 = n1
  Addresses = {ann, bob, t1, t2, t3}
  Garbage = Garbage
  Absent = Absent
  Names = {n1}
  NoName = NoName
  NoList = NoList
  NoContact = NoContact
  Inputs <- MCInputs
  Chunk = 1
  MaxRows = 3
  Importers = {1, 2}
  MaxContacts = 4
  Creations = {1, 2}
  Batch <- MCBatch
  MaxHappened = 3
  Day = 8
  None = None
  Offsets <- MCOffsets
  Change = 20
  Instants = {10, 11, 12, 13, 14, 15, 16, 17, 18, 19, 20, 21, 22, 23, 24, 25, 26, 27, 28, 29, 30}
  Starts <- MCStarts
  Skews <- MCSkews
  MaxTyped = 1
  Characters <- MCCharacters
  Tables <- MCTables
  Headers <- MCHeaders
  Delimiters <- MCDelimiters
  MaxDataRows = 3
  Templates <- MCTemplates
  Parts     <- MCParts
  LowerCase <- MCLowerCase
  Links     <- MCLinks
  Symbols   <- MCSymbols
  Pixels     = {"pixel of ann"}
  People <- MCPeople
  Sample <- MCSample
  Callers = {1, 2}
  Connections = {1, 2}
  Messages = {1, 2, 3}
  To <- MCTo
  Scenario <- MCScenario
  Failures <- MCFailures
  Keep = 3
  MaxTries = 2
  Tabs = {1, 2}
  Accounts = {1, 2}
  CallerAddresses = {3}
  LoginWindow = 2
  MaxPerAccount = 1
  MaxPerAddress = 2
  MaxKeys = 2
  Ttl = 2
  NoToken = NoToken
  LastMoment = 3
  MaxSignIns = 3
  Forms = {1, 2}
  Sender = 0
  Unset = Unset
  Environments <- MCEnvironments
  FirstEnvironment <- MCFirst
  MaxEdits = 1
  MaxPasswords = 2
  MaxSaves = 3
  MaxRestarts = 1
INVARIANTS
  AskedIsDone
  TimesAreMeant
  
  
  
  ThrottleHolds
PROPERTIES
  OthersAreSpared
  
  ServedWhileSignedIn
  SettingsKept
CHECK_DEADLOCK FALSE

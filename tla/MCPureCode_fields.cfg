CONSTANTS
  MaxBirthdayDays = 366
  Width <- SymbolWidth
  Symbols <- MCSymbols
  FoldWidth = 6
  MaxFieldBytes = 9
  MaxNoteBytes = 11
  MaxVcardBytes = 70
  MaxMultiValues = 2
  Hosts = {"h1", "l1", "l2"}
  Ports = {1, 2}
  Paths = {"p1", "p2"}
  Spellings = {1, 2}
  LoopbackHosts = {"l1", "l2"}
  NoHost = "none"
  AddressBooks <- MCAddressBooks
  Dates <- MCDates
  Windows = {0, 1, 365, 366, 367}
  Inputs <- MCInputs
  AllowLists <- MCAllowLists
  Asked <- MCAsked
  Documents <- MCDocuments
  Absolute = {"https://mcp", "https://dav", "https://login", "http://mcp"}
  Secure = {"https://mcp", "https://dav", "https://login"}
  Environments <- MCEnvironments
  Parameters <- MCParameters
SPECIFICATION Spec
INVARIANT StructuredFieldsReadBack
CHECK_DEADLOCK FALSE

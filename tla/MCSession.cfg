CONSTANTS
  None = None
  REDACTED = REDACTED
  Devices = {"device"}
  Strangers = {"other"}
  Self = "self"
  MAC <- MCMac
  ReplyOf <- MCReplies
  ListenFor = 2
  RepeatEvery = 1
  Offers <- MCOffers
  Sizes = {3, 1000}
  MaxRead = 24
  InFlight = 4
  Settings <- MCSettings
  Commands <- MCCommands
  Aims <- MCAims
  Asks <- MCAsks
  Writes <- MCWrites
  Mutes <- MCMutes
  Texts <- MCTexts
  RigCount = 10
  CommandQueue = 3
  MaxInFlight = 3
  MaxReplies = 2
  MaxCalls = 2
SPECIFICATION Spec
INVARIANTS OpensRight LoadsAreAimed ReadsShowDevice
PROPERTIES OpeningEnds
CHECK_DEADLOCK FALSE

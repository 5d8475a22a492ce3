SPECIFICATION Spec
CONSTANTS
  en = en  zh = zh  slow = slow  fast = fast
  Langs <- MCLangs
  Rates <- MCRates
  FirstRate = slow
  FirstLang = en
  Passes = 2
  MaxChunks = 2
  MaxWords = 2
  MaxPacket = 2
  MaxHeard = 2
  MaxFails = 2
  MaxActs = 1
  MaxChanges = 1
  MaxSpeaks = 1
INVARIANTS TypeOK InStepUnlessRetried RateNotLost
PROPERTIES EventsPlaced QuietAfterStop SpeakEnds

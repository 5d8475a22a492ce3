SPECIFICATION Spec
CONSTANTS
  en = en  zh = zh  slow = slow  fast = fast
  Langs <- MCLangs
  Rates <- MCRates
  FirstRate = slow
  FirstLang = en
  Passes = 2
  MaxChunks = 2
  MaxWords = 2
  MaxPacket = 2
  MaxHeard = 3
  MaxFails = 0
  MaxActs = 1
  MaxChanges = 1
  MaxSpeaks = 1
INVARIANT EncodingMatches

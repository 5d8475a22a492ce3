SPECIFICATION Safety
CONSTANTS
  en = en  fc = fc  r11 = r11  r8 = r8  v1 = v1  v2 = v2  loud = loud
  NoRequest = NoRequest  Unset = Unset
  Langs <- MCLangs
  Exclusive <- MCExclusive
  Rates <- MCRates
  Voices <- MCVoices
  Volumes <- MCVolumes
  Requests <- ExclusiveRequests
  InCap = 8
  OutCap = 1
  MaxSound = 2
  MaxMarks = 1
  IdleDiscardEnds = FALSE
  MaxUtts = 2
  IdSpace = 4
  MaxCancels = 0
  Prompt = TRUE
INVARIANTS TypeOK RendersAsAsked NeverStuck
PROPERTIES KeepsContract OwnSound CleanEnd

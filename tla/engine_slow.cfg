SPECIFICATION Spec
CONSTANTS
  en = en  fc = fc  r11 = r11  r8 = r8  v1 = v1  v2 = v2  loud = loud
  NoRequest = NoRequest  Unset = Unset
  Langs <- MCLangs
  Exclusive <- MCExclusive
  Rates <- MCRates
  Voices <- MCVoices
  Volumes <- MCVolumes
  Requests <- OneRequest
  InCap = 8
  OutCap = 1
  MaxSound = 0
  MaxMarks = 0
  IdleDiscardEnds = TRUE
  MaxUtts = 2
  IdSpace = 65536
  MaxCancels = 1
  Prompt = FALSE
INVARIANTS OnlyThisChild ReaderJoined NoLostWakeup
PROPERTY SpeakReturns

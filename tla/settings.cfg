SPECIFICATION Spec
CONSTANTS
  o1 = o1  o2 = o2  Nobody = Nobody
  Objects <- MCObjects
  NLanguages = 2
  NSpeakers = 3
  SpeakerLanguage <- MCSpeakerLanguage
  Has11k <- MCHas11k
  MaxSaves = 1
SYMMETRY MCSymmetry
INVARIANTS TypeOK SnapshotUsable SnapshotCurrent SavedIsSpoken RateSupportedIfKept

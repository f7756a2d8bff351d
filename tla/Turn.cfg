\* Two updates of any text, their replies in one piece, one crash.
SPECIFICATION Spec
SYMMETRY Swaps
CONSTANTS
  MaxAttempts = 2
  StuckAfter = 1
  Updates = {u1, u2}
  NoUpdate = NoUpdate
  Chunks = 1
  MaxIntensity = 2
  MaxCrashes = 1
INVARIANTS TypeOK PauseCarriedThrough PausedMeansRevoked LastWordWins ExtractedIffInCharacter
PROPERTIES PersonaSpeaksOnlyWhileActive AnsweredReplayIsInert

SPECIFICATION Spec
CONSTANT MaxPieces = 3
INVARIANT RepairKeepsTags

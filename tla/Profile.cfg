SPECIFICATION Spec
CONSTANTS
  Programs <- mcPrograms
  Entries <- mcEntries
  Vector = 0
  Threshold = 2
  maxblocks = 1
  Disturbances = 2
INVARIANTS AssertionsNeedInterrupt TranslatesWholeBlocks TranslatesWhatRan
PROPERTIES HotIsTranslated
CHECK_DEADLOCK FALSE

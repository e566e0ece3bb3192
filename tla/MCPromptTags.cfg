SPECIFICATION SpecTags
CONSTANTS
  brain = brain
  debug = debug
  Skill = {brain, debug}
  Body <- MCBody
  Anchors <- MCAnchors
  Atom <- MCAtom
  Texts <- MCTexts
  MaxRewrites = 3
INVARIANTS
  TypeOK
  SegmentsDisjoint
  DroppedForHigher
  OnlySeparators
  Settles
  EachTokenOnce

SPECIFICATION SpecTags
CONSTANTS
  brain = brain
  debug = debug
  Skill = {brain, debug}
  Body <- MCBody
  Anchors <- MCAnchors
  Atom <- MCAtom
  Texts <- MCTexts
  MaxRewrites = 2
INVARIANT
  Idempotent

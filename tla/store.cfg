CONSTANTS
  NSentences = 2
  None = None
  thA = thA
  thB = thB
  refuge = refuge
  judge = judge
  c1 = c1
  plain = plain
  noted = noted
  Themes <- MCThemes
  Refuges <- MCRefuges
  Judges <- MCJudges
  Levels <- MCLevels
  Details <- MCDetails
  Messy <- MCMessy
  Palette <- MCPalette
  Cards <- MCCards
  PreAnnotations <- MCPreAnnotations
  Loads <- MCLoads
  UndoDepth = 2
  MaxEdits = 3
SPECIFICATION Spec
CHECK_DEADLOCK FALSE
INVARIANTS
  TypeOK
  AnchorsUnique
  NoForeignClause
  ClausesAreSound
PROPERTY
  ChangesCanBeUndone

SPECIFICATION SpecAll
CONSTANTS
  Words <- WordsOf
  Cut = Cut
  Remains <- RemainsOf
  Texts <- TextsOf
  Names <- NamesOf
  Clean <- CleanOf
  Stems <- StemsOf
  Bodies = {old, new}
  Stub = "net"
  Seconds = 2
  Limit = 2
  MaxCalls = 3
INVARIANTS NoDuplicates RestartKeepsTheList SavedIsDurable SkillsAgree SavedSkillsSurvive ReportsAreKept
PROPERTIES PromptCatchesUp

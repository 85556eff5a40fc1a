CONSTANTS
  Owners = {"p", "q"}
  TargetLanguage <- TwoLanguages
  Script <- SharedScript
  Occurring <- FewTerms
  Translations = {"x", "y"}
  Priorities = {1, 2}
  MaxBlockEntries = 2
  MaxEntries = 2
  MaxRemovals = 1
  MaxPasses = 1
SPECIFICATION GlossarySpec
INVARIANT MadeInItsLanguage
CHECK_DEADLOCK FALSE

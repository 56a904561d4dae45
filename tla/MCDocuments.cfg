SPECIFICATION Spec
CONSTANTS
  Threshold = 85
  Limit = 2
  Type <- TwoTypes
  Path = {"README.md", "guide.md", "docs/API.md"}
  Nested = {"docs/API.md"}
  Standard = {"README.md", "docs/API.md"}
  Root = TRUE
  Texts <- SomeTexts
  Drafts <- SomeDrafts
  Markdowns <- SomeMarkdowns
  CriticItems <- SomeItems
  Repositories <- SomeRepositories
  MaxPushes = 2
INVARIANTS
    AnswersAreUnderstood PassedMeansJudged
  
CHECK_DEADLOCK FALSE

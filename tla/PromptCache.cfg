SPECIFICATION Spec
CONSTANTS
  User = {"u", "v"}
  Word = {"a"}
  Others <- MCOthers
  Ids <- MCIds
  Draft = "draft"
  Templates = {"keeps", "drops"}
  MaxMsgs = 4
  MaxNew = 2
  MaxRows = 10
  Situations = {}
INVARIANT TypeOK
INVARIANT AnswersRequest
PROPERTY ExtensionReuses

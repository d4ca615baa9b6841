SPECIFICATION MCSpec
CONSTANTS
    p1 = p1 q1 = q1 q2 = q2 m1 = m1 s1 = s1 d1 = d1
    EntityTables <- MCEntityTables
    Parents <- MCParentTables
    Rows <- MCRows
    KindOf <- MCKindOf
    ParentsOf <- MCParents
    Unborn <- MCUnborn
    Texts = {1, 2}
    Questions <- MCQuestions
    Score <- MCScore
    PerKind = 1
    Total = 3
    MaxWrites = 3
    MaxOpens = 1
    Drafts <- MCDrafts
    MaxBatches = 1
    Models = {"qwen"}
    ExtractionModel = "vision"
    MaxAsks = 2
    MaxTokens = 1
    MaxPulls = 2
    MaxChanges = 1
INVARIANTS OwnAffairs FollowsTables FoundByItsText KindsAnswered
PROPERTIES QuestionEnds BatchAsMeant
CHECK_DEADLOCK FALSE

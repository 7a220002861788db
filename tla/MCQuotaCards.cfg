SPECIFICATION Spec
CONSTANTS
    GeminiResponses <- Responses
    ClaudeAnswers <- Claude
    CodexLive <- Live
    CodexDisks <- Disks
    MaxSessionFiles = 2
    CursorUsages <- Usages
    AntigravityStatuses <- Statuses
    HiddenSets <- Hideable
    MaxBands = 2
    Warn = 75
    Crit = 90
INVARIANTS LowestOfPool NewestLocalRows ExhaustedShown EveryRowOffered

SPECIFICATION QSpec
CONSTANTS
    r1 = r1
    r2 = r2
    r3 = r3
    Requests <- MCRequests
    NameOf <- MCNameOf
    Paginated <- MCPaginated
    MaxPages = 2
    Screens = 3
    MinInterval = 2
    OverloadBackoff <- MCOverloadBackoff
    ResponseTimeout = 3
    TimeoutLimit = 2
INVARIANTS
    AnswersAccounted
    QueueDisciplined
PROPERTIES
    NoForeignAnswer
    AnsweredIfResumed

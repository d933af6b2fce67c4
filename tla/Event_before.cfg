\* Any order of registrations, by clients that remove the last callback only.
CONSTANTS
    Handler = {h1}
    Event = {e1}
    NULL = NULL
    Function = {f}
    Wild = Wild
    Priority <- MCPriority
    Kind = {"normal"}
    MaxCalls = 4
    MaxDepth = 2
    Careful = TRUE
SPECIFICATION Spec
INVARIANT BeforeGoesFirst

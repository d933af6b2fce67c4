\* A client that destroys a handler without callbacks.
CONSTANTS
    Handler = {h1}
    Event = {e1}
    NULL = NULL
    Function = {f}
    Wild = Wild
    Priority <- OnePriority
    Kind = {"normal"}
    MaxCalls = 4
    MaxDepth = 2
    Careful = FALSE
SPECIFICATION Spec
INVARIANT DispatchesLiveHandler

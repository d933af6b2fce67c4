\* A client that unregisters any callback.
CONSTANTS
    Handler = {h1}
    Event = {e1}
    NULL = NULL
    Function = {f1, f2}
    Wild = Wild
    Priority <- OnePriority
    Kind = {"normal"}
    MaxCalls = 4
    MaxDepth = 2
    Careful = FALSE
SPECIFICATION Spec
INVARIANT DeletesJustOne

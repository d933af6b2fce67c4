\* Two events and two handlers, one of which may be a timer; six calls, of
\* which two may fire inside each other and outside a third dispatch.
CONSTANTS
    Handler = {h1, h2}
    Event = {e1, e2}
    NULL = NULL
    Function = {f}
    Wild = Wild
    Priority <- MCPriority
    Kind = {"normal", "timer", "read"}
    MaxCalls = 6
    MaxDepth = 3
    Careful = TRUE
SPECIFICATION FairSpec
INVARIANTS CallbackOrder DispatchIsComplete RegistriesMirrorLoop
PROPERTY AsyncRuns

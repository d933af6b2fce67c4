\* A later resize of the framebuffers fails.
CONSTANTS
    Context = context
    Pass = {p}
    Leaf = {l}
    Size = {small, large}
    StartSize = small
    NoSize = NoSize
    MaxLog = 1
    MaxWindow = 0
    GLMayFail = TRUE
SPECIFICATION Spec
INVARIANT DrawsOnlyComplete

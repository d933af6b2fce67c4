\* A pass and two leaves, so that a removal moves the last renderer into the
\* gap; no more is sent once two messages were, but ILG_STOP, what SDL reports
\* and what builds upload; the window is resized once, the program asks for other
\* sizes itself; any resize of the framebuffers may fail, the first one included.
CONSTANTS
    Context = context
    Pass = {p}
    Leaf = {l, m}
    Size = {small, large}
    StartSize = small
    NoSize = NoSize
    MaxLog = 2
    MaxWindow = 1
    GLMayFail = TRUE
SPECIFICATION FairSpec
INVARIANTS DrawsOnlyBuilt RemovalFindsRenderer
PROPERTIES TreeFollowsCalls ResizeConverges FreeReturns

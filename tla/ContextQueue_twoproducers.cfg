\* One upload from the build of a renderer on the render thread, against two
\* messages from the main thread.
CONSTANTS
    Node = {n1, n2, n3, n4, n5}
    NULL = NULL
    Msg = {m1}
    Stop = Stop
    NoMsg = NoMsg
    MainSends = 2
    RenderSends = 1
SPECIFICATION TwoProducersSpec
SYMMETRY Symmetry
INVARIANT NothingLost

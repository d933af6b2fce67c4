\* Two messages and ILG_STOP; a node for each of them and the dummy, so calloc
\* never fails, and freed addresses are there to be used again.
CONSTANTS
    Node = {n1, n2, n3, n4}
    NULL = NULL
    Msg = {m1, m2}
    Stop = Stop
    NoMsg = NoMsg
    MainSends = 2
    RenderSends = 0
SPECIFICATION FairSpec
INVARIANTS NoUseAfterFree NoLeak QueueInv
PROPERTIES ImplementsChannel FreeReturns

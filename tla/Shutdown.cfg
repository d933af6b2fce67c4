\* One window that is closed once, resized up to twice before, between and after
CONSTANTS
    Wild = Wild
    MaxCloses = 1
    MaxResizes = 2
SPECIFICATION Spec
INVARIANTS TypeOK NoUseAfterFree ContextGoneBeforeSDL NothingRemains QuitRemovesItsOwn
PROPERTY CloseEnds
CHECK_DEADLOCK FALSE

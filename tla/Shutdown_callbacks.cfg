\* As Shutdown.cfg: does shutdownCallbacks leave no callback?
CONSTANTS
    Wild = Wild
    MaxCloses = 1
    MaxResizes = 0
SPECIFICATION Spec
INVARIANT CallbacksGoFirst
CHECK_DEADLOCK FALSE

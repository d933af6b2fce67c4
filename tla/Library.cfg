\* Four positionables; three objects, two descriptors besides 0 and unions of
\* two or three directories; six modules and three calls after the directory;
\* two messages and five builds of textures.
CONSTANTS
    MaxPositionables = 4
    Object = {o1, o2, o3}
    Slot = {s}
    NULL = NULL
    Descriptor = {0, 1, 2}
    MaxOwned = 2
    MaxParts = 3
    util = util
    common = common
    graphics = graphics
    demo = demo
    lost = lost
    stray = stray
    Library = {util, common, graphics, demo, lost, stray}
    Deps <- LibraryDeps
    Absent = {lost}
    NoBootstrap = {stray}
    Ignored = {stray}
    MaxCalls = 3
    Scenes <- LibraryScenes
    MaxRequests = 2
    MaxBuilds = 5
    Nil = Nil
SPECIFICATION LibrarySpec
INVARIANTS TypeOK IdsPartitioned WalkVisitsLive ObjectsOwned LoadedIsUsable
           TexturesReachOwners
PROPERTY LoadsReturn

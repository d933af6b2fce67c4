\* Three letters that make names that are no beginnings of one another; three
\* names of one or two parts, two opaques, two numbers in one bucket;
\* packets of bytes with eight values, three times sent.  The bounds of the parts
\* of the graphics, of strings, buffers and loggers are in MCGraphics and MCValues.
\* A packet that has arrived for the last time stops, and so does what crashed.
CONSTANTS
    part_a = part_a
    part_b = part_b
    Number = {1, 2}
    SameBucket = TRUE
    Opaque = {d1, d2}
    MaxIndex = 2
    MaxEntries = 2
    letter_u = letter_u
    letter_v = letter_v
    letter_w = letter_w
    MaxLength = 8
    MaxDirs = 2
    Base = 8
    Flags = {0, 4}
    Channels = {1, 7}
    Events = {0, 10}
    Ids = {0, 3, 514}
    Payloads <- PacketPayload
    MaxHops = 3
    MaxStrings = 3
    MaxHeld = 2
    MaxBytes = 2
    Text <- StringText
    Room = 4
    Null = Nothing
    Nothing = Nothing
    None = "none"
    Renderer = {"box", "crate", "land", "lamp", "sky", "panel", "label", "screen"}
    Kind <- SceneKind
    Material <- SceneMaterial
    Model <- SceneModel
    SceneSize = 3
    MaxMembers = 1
    MaxInvalid = 1
    Thing = {"one", "other"}
    MaxCalls = 5
    Width = {4, 8}
    SceneLength = 3
    Levels = 4
    MaxBuilds = 2
    Nil = Nothing
SPECIFICATION ValuesSpec
INVARIANTS TypeOK TablesKeepNames PathsLeadToFiles PacketsArrive BuffersReadBack
           StringsKeepText MessagesKept MatricesPlaceThings DrawnWithOwn
           PassesShowScene ListFollowsCalls FramesWhereSeen PixelsKept
CHECK_DEADLOCK FALSE

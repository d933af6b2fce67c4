------------------------------- MODULE MCValues -------------------------------
(***************************************************************************)
(* The libraries of values: a behaviour is one of tables (Storage), of a   *)
(* path in a script or of a search for files (Paths), of a packet          *)
(* (Packets) or a buffer (Buffers), of strings (Strings), of loggers       *)
(* (Loggers), or of a part of the graphics (MCGraphics).                   *)
(***************************************************************************)
EXTENDS MCGraphics, Packets, Strings

CONSTANTS part_a, part_b,  \* parts of names
          letter_u, letter_v, letter_w,
          Number, SameBucket, Opaque, MaxIndex, MaxEntries, MaxLength, MaxDirs

VARIABLES root, freed, lost, given, names,
          path, disk, search, asked,
          logger, configured, message, destroyed, fault, stored,
          buf, broken, expected, misused, count

\* a, a.a and a.b
Dotted == {<<part_a>>, <<part_a, part_a>>, <<part_a, part_b>>}

S == INSTANCE Storage

U == <<letter_u>>
V == <<letter_v>>
W == <<letter_w>>
Root == <<>>            \* what stands before the first slash
Up   == <<".", ".">>

\* HOME=/u, the program runs in /v/w
Home == <<Root, U>>
Cwd  == <<Root, V, W>>

\* u, ., ../v, /u/w, u/../../v, ~, //v/./w/, /.. and the empty string
String == { <<U>>, <<<<".">>>>, <<Up, V>>, <<Root, U, W>>,
            <<U, Up, Up, V>>, <<<<"~">>>>,
            <<Root, Root, V, <<".">>, W, Root>>, <<Root, Up>>, <<Root>> }

\* ., ../v, /u/w and the empty string
Directory == { <<<<".">>>>, <<Up, V>>, <<Root, U, W>>, <<Root>> }

\* /u and ..
Prefix == { <<Root, U>>, <<Up>> }

\* /v/w/u, /v/v/u, /v/w/w, /u/w/v and /u/v
File == { <<V, W, U>>, <<V, V, U>>, <<V, W, W>>, <<U, W, V>>, <<U, V>> }

P == INSTANCE Paths

PacketPayload == {<<>>, <<1>>, <<2, 0, 1>>, <<0, 5, 7>>}

ASSUME ValuesAssumption == PacketsAssumption /\ StringsAssumption

StringText == {<<1>>}

\* Three loggers; rings of three places, into which two messages go, and of two, where
\* the second one fails; two messages and three calls that change the loggers
L == INSTANCE Loggers WITH Logger <- {"stderr", "net", "file"}, Stderr <- "stderr",
                           Level <- {2, 3}, Capacity <- {2, 3}, MaxMessages <- 2,
                           MaxForwards <- 2, MaxCalls <- 3, failure <- fault

\* Bytes of four bits; numbers of one and two bytes, and of less and more than one
B == INSTANCE Buffers WITH Width <- 4, MinCapacity <- 2, String <- {<<{0}, {1, 2}>>},
                           Field <- {<<5, 4>>, <<150, 8>>, <<3, 2>>, <<37, 6>>},
                           MaxBytes <- 4, MaxSteps <- 5,
                           failure <- broken, careless <- misused

ValuesInit ==
        /\ part \in {"storage", "path", "search", "packet", "buffer", "strings", "loggers"} \cup GraphicsParts
        /\ IF part = "storage" THEN S!Init ELSE
             /\ root = Nothing /\ freed = Nothing /\ lost = Nothing /\ given = Nothing
             /\ names = Nothing
        /\ IF part \in {"path", "search"} THEN P!Init ELSE
             /\ path = Nothing /\ disk = Nothing /\ search = Nothing /\ asked = Nothing
        /\ part = "path" => disk = {}
        /\ part # "packet" => packet = [flags |-> 0, channel |-> 1, event |-> 0, object |-> 0,
                                         type |-> 0, length |-> 0, data |-> <<>>]
        /\ PacketsInit
        /\ StringsInit
        /\ IF part = "loggers" THEN L!LoggersInit ELSE
             /\ logger = Nothing /\ configured = Nothing /\ message = Nothing
             /\ destroyed = Nothing /\ fault = Nothing /\ stored = Nothing
        /\ IF part = "buffer" THEN B!BuffersInit ELSE
             /\ buf = Nothing /\ broken = Nothing /\ expected = Nothing /\ misused = Nothing
             /\ count = Nothing
        /\ GraphicsInit

storage  == <<root, freed, lost, given, names>>
searches == <<disk, search, asked>>
logs     == <<logger, configured, message, destroyed, fault, stored>>
streams  == <<buf, broken, expected, misused, count>>
vars == <<part, storage, path, searches, packetVars, strings, logs, streams, graphics>>

\* A step of one of these parts leaves the graphics and the strings alone
StorageStep == part = "storage" /\ S!Next /\ UNCHANGED <<path, searches, packetVars>>
PathStep    == part = "path" /\ P!PathStep /\ UNCHANGED <<storage, packetVars>>
SearchStep  == part = "search" /\ P!SearchStep /\ UNCHANGED <<storage, packetVars>>
PacketStep  == part = "packet" /\ PacketsNext /\ UNCHANGED <<storage, path, searches>>

ValuesStep == StorageStep \/ PathStep \/ SearchStep \/ PacketStep

StringStep == part = "strings" /\ StringsNext /\ UNCHANGED <<logs, streams>>
LoggerStep == part = "loggers" /\ L!LoggersNext /\ UNCHANGED <<strings, streams>>
BufferStep == part = "buffer" /\ B!BuffersNext /\ UNCHANGED <<strings, logs>>

ValuesNext ==
    /\ UNCHANGED part
    /\ \/ ValuesStep /\ UNCHANGED <<strings, logs, streams, graphics>>
       \/ /\ StringStep \/ LoggerStep \/ BufferStep
          /\ UNCHANGED <<storage, path, searches, packetVars, graphics>>
       \/ /\ GraphicsStep
          /\ UNCHANGED <<storage, path, searches, packetVars, strings, logs, streams>>

ValuesSpec == ValuesInit /\ [][ValuesNext]_vars
-----------------------------------------------------------------------------
\* Type correctness of them all.
TypeOK == /\ part = "storage" => S!StorageTypes
          /\ part \in {"path", "search"} => P!PathTypes
          /\ part = "packet" => PacketTypes
          /\ part = "strings" => StringTypes
          /\ part = "loggers" => L!LoggerTypes
          /\ part = "buffer" => B!BufferTypes
          /\ GraphicsTypes

\* An opaque is in a table once, or destroyed once, or lost, and nested tables are
\* one flat map of names (common/storage.c).
TablesKeepNames == part = "storage" => S!OpaqueOwnedOnce /\ S!FlatMapOfNames

\* The names of a path lead where its string leads, and a lookup finds the file in
\* the first directory that has it (asset/).
PathsLeadToFiles == /\ part = "path" => P!NodesMatchPath
                    /\ part = "search" => P!FirstMatchFound

\* A buffer has the bytes that were written to it, numbers are read as they were
\* written, and nothing behind its memory is (network/buffer.c).
BuffersReadBack == part = "buffer" => B!BufferKeeps /\ B!NumbersReadBack /\ B!ReadsInside

\* A message is in one ring or destroyed once; a ring has the last messages until
\* it is full; the handlers of the loggers on all open ways are fired
\* (util/logger.c).
MessagesKept ==
    part = "loggers" => L!MessagesOwnedOnce /\ L!RingHoldsAll /\ L!HeardAlongForwards
=============================================================================

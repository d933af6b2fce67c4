# IntenseLogic in TLA+

IntenseLogic is a set of C99 libraries for a game engine. A program links an
event loop (`src/common`), a renderer that runs on a thread of its own
(`src/graphics`), a module loader, and smaller libraries for objects, storage,
assets, strings and network packets. Lua scripts and the demos drive them.

This directory holds TLA+ models of its core, TLC configurations that check
them on small instances, and proofs for all instances, checked by TLAPS. Paths
below are relative to the repository; the C sources are in `src/`.

- [The system](#the-system) · [The modules](#the-modules) · [The runs](#the-runs)
- [Fairness](#fairness) · [The proofs](#the-proofs)
- [What the code does against its documents](#what-the-code-does-against-its-documents)
- [Not modelled](#not-modelled) · [Plan](#plan)

To check a configuration or a proof:

    tlc -workers 2 -config ContextQueue.cfg MCContextQueue
    tlapm ContextQueueProofs.tla

## The system

Two threads matter: the *main thread*, which runs `ilE_loop` and every client
callback, and one *render thread* for each graphics context. They share the
queue of the context and, less intentionally, the tree of renderers, the window
and the callbacks of the context's handlers.

| Component (source) | State | Operations | What makes it hard, and what makes it correct |
|---|---|---|---|
| Render message queue (`graphics/context.c`) | a linked list: `first`, `head`, `tail` | `produce`, `consume`, `done_consume`, `queue_init`, `queue_free` | No lock: the order of the stores is the synchronisation. The producer frees nodes behind the consumer. No use after free, no leak, FIFO, exactly once |
| Graphics context, render thread (`graphics/context.c`) | window, size, framebuffers, `valid`, the queue | start, free, upload, resize, message; the loop of `render_thread` | A size follows three sources (window, RESIZE messages, start size); failures of GL half-way; the thread may leave before ILG_STOP. Free returns; the size converges; nothing unbuilt is drawn |
| Renderer tree (`context_renderer.c`, `renderer.c`, `geometrypass.c`, `transparencypass.c`, `guipass.c`) | an array of children in the context and in each pass | add, delete, build, draw | A change goes by message if the parent is built and by a direct call if not, and the start of the thread may fall between the test and the change |
| Event system (`common/event.c`) | handlers with arrays of callbacks, persistent handlers, pending events; libevent's queue | new, timer, watch, destroy, fire, fireasync, register, unregister, loop | Callbacks change the very array that is being walked; slots and handlers are freed and used again from inside dispatches. Order of callbacks, complete dispatches, registries that agree with libevent |
| SDL event pump (`graphics/sdl_input_backend.c`) | SDL's queue | poll, window, key and mouse events | Events arrive for a window or size that has changed since |
| Shutdown chain (`event.c`, `main.c`, `graphics.c`, `demos/helper.lua`) | shutdown handlers, the poll timer | shutdown event, `ilE_loop` returning, `ilE_quit` | Close events twice, handlers removed while they fire, the timer that keeps the loop alive |
| Objects (`common/base.c`) | reference count, weak references, type chain | ref, unref, weakref, init, copy | Destructors run user code that counts again; weak pointers are cleared once |
| World (`common/world.c`) | arrays indexed by id, free list | new, destroy, iterate | Identifiers are used again; iteration skips the free ones |
| Storage (`common/storage.c`) | hash tables of tagged values | get, set, free values | Keys that outlive their memory, nested tables. Every opaque is destroyed once; names behave as one map |
| Module loader (`loader.c`) | modules loaded, search paths | load, close, iterate | Recursion over dependencies, partial failures |
| Logger (`util/logger.c`, `log.c`) | levels, ways to other loggers, a ring of messages | log, forward, buffer, get, copy, destroy | Ring arithmetic, copies along ways that join. A message has one owner; a ring has the last ones |
| Network (`network/buffer.c`, `packet.c`) | bit buffer with a cursor | read, write bits and fields, seek, clear | Packets that are cut, flags that stay from hop to hop, bits in stale bytes. What was sent arrives, and nothing is read behind the end |
| Assets (`asset/`) | paths, union directories, files | normalise, join, look up, open, destroy | Destructors that call each other; a path is kept as a string and as names. Counts agree with owners; the first file there is is found |
| Strings (`util/string.c`) | bytes shared by slices, with one count | new, copy, ref, unref, sub, cat | Slices outlive the string they were cut from; capacity and allocation differ. Text is kept, writes stay inside |
| Growable arrays (`util/array.h`) | data, length, capacity | append, insert, remove | Shifts in bytes against elements |
| Leaves of the tree (`legacyrenderer.c`, `heightmap.c`, `lightpass.c`) | positionables, lights | add, delete, draw | Calls by message and directly in one order; loops to `length - 1`. The list is what the calls ask for |
| Bindables: materials, shapes, meshes (`bindable.c`, `material.c`, `shape.c`, `mesh.c`) | program and vertex array of GL, and the context's record of them | build, bind, swap, update | The record leaves binds out; some renderers bind past it. Everything is drawn with its own material and vertices |
| Passes and framebuffers (`*pass.c`, `framebuffer.c`) | what is drawn into and read from, switches of GL | build, resize, draw | Switches stay on from pass to pass; one pair of buffers blurs four sizes. The picture is the whole scene, and nothing reads what it writes |
| Textures (`tex.c`) | what is to be uploaded, objects, units | load, build, bind; set in an image | Values are copied and share their upload; what is built stays bound to any unit. A renderer samples its own |
| GUI frames (`graphics/gui/`) | a tree of rectangles | add, pop, remove, position, build, draw, click | Down the children against up the parents, messages against direct calls. A frame is drawn, clicked and built where it is seen |
| Mathematics (`math/`, `glutil.c`, `camera.c`) | values | products, rotations, inverses, the matrices of a material | Products do not commute; two conventions of rotation must cancel |
| Images (`asset/image.c`, `h2n.c`) | cells of pixels, a set of channels | copy, resize, swizzle, normals | Channels that are missing take no room. Colours stay in their places |
| Input (`input/`), meshes and materials from files, script bindings | tables of keys; parsers | | see [Not modelled](#not-modelled) |

`PROJECT.json` lists the hazards of this code one by one, at their lines, with
the properties that would notice them going wrong.

## The modules

| Module | Models | Role |
|---|---|---|
| `Channel` | what the queue promises | abstract specification: FIFO, each message once, closes for good |
| `ContextQueue` | the queue in memory | implements `Channel` (`ImplementsChannel`) |
| `TwoProducers` | the queue with the second producer the render thread really is | extends `ContextQueue` |
| `RenderThread` | a context's life over a `Channel` | uses `Channel` by `INSTANCE` |
| `Event` | the event system, for any clients | |
| `Callbacks` | the array of callbacks | operators used by `Event` and `Shutdown` |
| `Shutdown` | one whole program, from `main()` to the end of `ilE_quit` | `event.c`, `event.lua`, `helper.lua`, the SDL pump and `main.c` together |
| `World` | identifiers of positionables, iterations | |
| `Assets` | counted objects, weak references, the file system objects built from them | |
| `Loader` | the module loader | |
| `Storage` | tables and vectors of values | |
| `Paths` | paths, and the search for a file in directories | operators, with a script and a search as their users |
| `Packets` | packets, over buffers at whole bytes | |
| `Buffers` | buffers bit by bit | |
| `Strings` | counted strings, their slices, a material's sources | |
| `Loggers` | loggers, ways between them, rings | |
| `Transforms` | vectors, quaternions, matrices | operators, with a camera and an object as their users |
| `Drawing` | builds and draws of the renderers, and what is bound | |
| `Members` | the lists of positionables, lights and renderers | |
| `Passes` | framebuffers, switches and blurs of a frame | |
| `Textures` | textures and who has them | |
| `Frames` | the tree of GUI frames | |
| `Images` | pixels, channels, texels | |
| `ContextQueueProofs`, `RenderThreadProofs`, `EventProofs`, `LibraryProofs`, `RenderersProofs`, `ShutdownProofs`, `ValueProofs` | theorems | one module for the component of that name; `LibraryProofs` for World, Loader, Assets and Textures, `RenderersProofs` for Members, Drawing and Passes, `ValueProofs` for Packets and Strings |
| `SequenceFacts` | lemmas on least numbers and on arrays: appending, taking the first or the last, removing with or without order; on functions defined by recursion over 0..n | used by all of them but the queue's |
| `MCContextQueue`, `MCRenderThread`, `MCEvent` | instances for TLC | |
| `MCLibrary` | an instance for TLC of `World`, `Assets`, `Loader` and `Textures`: a behaviour is that of one of them | extends all four, so that the run checks what the theorems state |
| `MCGraphics` | the same for `Transforms`, `Drawing`, `Passes`, `Members`, `Frames` and `Images` | extends `Drawing`, `Members` and `Passes`, so that the run checks what the theorems state; `INSTANCE`s the other three |
| `MCValues` | the same for `Storage`, `Paths`, `Packets`, `Buffers`, `Strings`, `Loggers` | extends `MCGraphics`, `Packets` and `Strings`, whose theorems state what the run checks, `INSTANCE`s the others |

The last two give one property to each part, a conjunction of the properties
that the part's module states one by one (`DrawnWithOwn` of `Drawing` is
`DrawsWithOwn`, `SeesCamera` and `CrashesWithoutDrawable`).

In every module an operator that follows a comment "Mutant of X" is X with a
plausible bug; it is not part of the specification. For each property there is
one that breaks it, so that the property is known to say something about the code.

### ContextQueue

One action per access to shared memory. A node is an address; memory is the
two fields of every address (`next`, `payload`) and the set `live` of the
addresses allocated. `calloc` returns any address that is not live, so a freed
node comes back as another message at once, which is what makes stale pointers
visible.

| Code | Actions |
|---|---|
| `produce`: allocate and fill a node | `Allocate` |
| `tail->next = msg` / `tail = msg` | `Link` / `Publish` |
| `while (first != head)` unlink, free | `Check`, `Unlink`, `Free` |
| `ilG_context_upload`, `_resize`, `_message` | `MainSend` |
| `ilG_context_free`: send ILG_STOP, join, `queue_free` | `MainStop`, `Join`, `QueueFree` |
| `while (self->valid)` before the first message | `Start` |
| `consume` | `Consume` (the test), `ConsumeNext` (the load) |
| the switch | `Handle` |
| `done_consume` | `DoneConsume` (the test), `DoneLoad`, `DoneStore` |

The memory is sequentially consistent. `head` and `tail` are volatile, the
build passes `-O0` (`SConstruct`), and x86 keeps the order of a processor's
stores and of its loads; what it may delay, a store behind a later load of
another variable, only makes the other thread see an older `head` or `tail`,
which the interleavings contain.
On a machine or under a compiler that reorders stores, `Link` and `Publish`
could be swapped and nothing here would hold.

`log`, `addr`, `freed` and `taken` are history: the messages published, the
nodes that carried them, how many nodes were unlinked and how many times `head`
has moved. No action reads them in a guard.

### Channel and TwoProducers

`Channel` has the variables `log`, `taken`, `current` and `open`. In the
refinement a message is sent when `tail` is stored, taken when `consume`
returns it, finished when `done_consume` stores `head`; the channel closes when
the thread leaves its loop. `Close` has a second alternative, from a channel
nobody has taken anything from: `render_thread` skips its loop when the first
`context_resize` fails, and `done_consume` at the end then drops a message that
was never handled.

`TwoProducers` adds `RenderSend`: while the render thread builds a pass, the
pass uploads the builds of its children with the same `produce`.

### RenderThread

Below one context, passes with children, and leaves. The tree is a function
from parents to sequences, because removal moves the last child into the gap.

| Code | Actions |
|---|---|
| `ilG_renderer_build` | `RequestBuild` |
| `ilG_renderer_addRenderer`, `_delRenderer` down to `push_msg`: the test and the message | `PushMsg` |
| the other branch of `push_msg`, a direct change by the main thread | `DirectChange` |
| `ilG_context_resize` | `RequestResize` |
| `ilG_context_start` | `StartContext` |
| `handle_windowevent` | `PollResize` (the user: `UserResize`) |
| `ilG_context_free` | `FreeContext`, `JoinAndFree` |
| `context_build`, a child at a time | `BuildTree` |
| `context_resize` | `Reshape`, used by `FirstResize`, `HandleResize`, `CheckWindow` |
| the loop of `render_thread` | `BeginFrame`, `Drain`, `Handle`, `DoneConsume`, `HandleStop`, `CheckWindow`, `Draw` |

The test in `push_msg` and the direct change are two actions, because the
render thread may start building between them. Assumptions:

- The queue is a `Channel` for both producers. `queue_twoproducers` shows that
  the real queue is not one when both send at once; this module says what holds
  once it is. The bound `MaxLog` is on what the program sends; what
  the render thread, the window and `ilG_context_free` send is not cut off.
- The arrays change atomically. The direct change while the render thread
  walks the array is a data race in the code, kept as a hazard without property.
- Clients build a renderer before they add it to a running context
  (`demos/bouncing-lights/camera.lua` does). One that does not
  has it drawn unbuilt: a precondition of `DrawsOnlyBuilt`, found in no header.
- A context is started once and not freed before; clients delete only what they
  added.

### Event

| Code | Actions |
|---|---|
| `ilE_handler_new`, `_timer`, `_watch` | `New` with the kind of handler |
| `ilE_handler_destroy` | `Destroy` (`Forget` is its removal loop) |
| `ilE_register_real` | `Register` (`Place`, `ILInsert`) |
| `ilE_unregister` | `Unregister` (`ILRemove`) |
| `ilE_handler_fire` | `Fire` |
| `ilE_handler_fireasync` | `FireAsync` |
| `normal_dispatch` | `RunEvent`, and `EndDispatch`, which frees the event |
| `timer_dispatch`, `file_dispatch` | `RunReady` |
| `ilE_handler_fire_forced` | `Call`, `Return`, `EndDispatch` |
| libevent | `active`, a FIFO; `Ready` makes a timer or descriptor due |

Dispatches nest, so they are a stack of frames, each with the index of its
loop. While a callback runs (`calling`), its code is a client and may do
whatever a client may do, to the handler that is being dispatched too.
`registered` is what the clients believe the callbacks to be, and the frame's
`due`, `called` and `grown` record what a dispatch owes and has done.

`ILRemove` is the array macro as it is. It passes a count of elements to
`memmove` as a count of bytes, so a removal from the middle mixes two function
pointers and cuts the last element off. `Careful` says whether the clients keep
to what the code supports: they remove the last callback only, and destroy a
handler once none of its events and dispatches is left. With `Careful = FALSE`
they keep to the words of the header only. A call through a mixed pointer is
undefined, so `Call` has no step for it and the model stops there. Fewer than nine callbacks to a handler
are assumed: then the bytes moved lie within the function pointer.

### Shutdown

Where `Event` lets clients do whatever they may, `Shutdown` follows the one
program every demo is: modules are set up, a script opens a window and calls
`helper.camera`, the loop runs until the window is closed. `todo` is the
control stack of its single thread, a list of steps. Taking a callback from an
array puts the steps of its body in front of the rest of the loop (`Body`), so
the handlers of `shutdown` fire each other inside each other as they do in the code,
and each dispatch sees the arrays as its callbacks have left them.

| Code | Definitions |
|---|---|
| `ilE_init`, the graphics module's `il_bootstrap`, the script | `IleInit`, `GraphicsBootstrap`, `Script`: the list the program starts with |
| `event.c` | `DoNew`, `DoRegister`, `DoUnregister`, `DoDestroy`, `DoFire`, `DoFireAsync`, `DoDumpAll` |
| `event.lua` | `LuaCreates`, `LuaRegisters`, `LuaDispatches`, `LuaFails` (a function raises an error), `LuaDestroys` |
| `ilG_context_new`, `_free`; SDL | `ContextNew`, `ContextUse`, `ContextFree`, `SDLInit`, `SDLQuit`, `PollEvents` |
| callbacks and script functions | `CloseScript`, `AfterClose`, `PollShutdownCb`, `PollShutdownHnd`, `DestroyLuaHandlers` |
| `ilE_loop` (libevent) | `RunActive`, `Due`, `LoopReturns` |
| `main` | `StartLoop`, `LoopReturns` with `IleQuit`, `Exit` |

`User` is the user, at any time while there is a window. A step that uses a
handler or the context after it was freed sets `crashed` and nothing happens
afterwards. `close` stands for the three handlers of a context; scripts
register with this one only. Each handler of a script has one function, and no
handler gets the address of an earlier one.

The run closes the window *once*. With `MaxCloses = 2` TLC finds that the
code does not survive a second close event that arrives before the first
drain of SDL's queue is through: `on_after_close` is fired twice, and its second
dispatch destroys `tick` and the context again (`helper.lua:142`). The
same chain, run for two windows, unregisters from the poll timer after it was freed.
No document excludes it, so it is said here and at the hazard. The loop is
that fragile because the close event is passed on asynchronously for a reason:
`CloseScriptAtOnce` frees the context inside the dispatch of its own handler.

`QuitRemovesItsOwn` holds by a coincidence: `ilE_init` stores two handles in
`shutdownCallbacks_id` and none in `shutdownHandlers_id`, and all three are 0.

### World

| Code | Actions |
|---|---|
| `il_positionable_new` | `New`, which takes the last of `free_list` or grows the arrays |
| `il_positionable_destroy` | `Destroy` |
| `il_world_iter` | `Begin` |
| `il_world_next` | `Advance` (`NextId`, the calls it makes of itself included) |

Positionables of other clients may be created and destroyed between any two
steps of an iteration. `walk.due` is what an iteration still owes, `walk.gone`
what was destroyed since it began. The code starts at index 0 without asking
whether it is free, so `WalkVisitsLive` excepts that index; a client that
iterates while index 0 is free is given a positionable nobody owns
(`il_world_next` would have skipped it). A client destroys a positionable once:
twice puts the index on the list twice, and two later positionables share it.

### Assets

Objects of four types: files, directories on disk, prefixes and unions. The
references they hold make a tree (or a graph without circles), which one
`il_unref` may bring down.

| Code | Actions |
|---|---|
| `il_new`, `il_init` | `Create`, part of every action that makes an object |
| `il_ref`, `il_unref` | `Ref`, `Unref` (`Release`) |
| `union_des`, `prefix_des`, `stdiodir_des`, `stdiofile_des`, `free` | `DestroyPart` for each directory, `DestroyEnd` |
| `il_weakref`, `il_weakunref` | `WeakRef`, `WeakUnref` (`Unlisted`) |
| `ilA_stdiodir`, `ilA_stdiofile` | `Open`, `OpenMissing` |
| `ilA_contents` | `Contents` |
| `ilA_lookup` | `Lookup` |
| `ilA_prefix`, `ilA_union` | `MakePrefix`; `MakeUnion`, `ExtendUnion` |

`Reach(o)` is what `o` is made of: the least set with `o` that is closed
under being a part (`Closed`). `Holders(x)` are the
references to `x` that other objects hold, each union once for each place in its
list; those of a destructor that is running count as long as it has them still
to give up (`Left`).

A destructor that releases the last reference to another object calls that
one's destructor, so destructors are a stack (`unrefs`). `owned` is history:
the references clients hold, by which a client may release no more than it was
given. Clients build no circle of unions, and give `il_weakref` a pointer that
is not in use. `open` takes the lowest descriptor that is closed, as POSIX
has it, which is what makes a wrong `close` visible. Descriptor 0 is left out
of `DescriptorsOwned`: `stdiofile_des` closes it for a file that was never
opened, because `fd` is 0 from `calloc`.

### Loader

| Code | Actions |
|---|---|
| `il_load_module_dir`, for each entry in the order of `readdir` | `LoadEntry` |
| `il_load_module` by a client | `LoadByName` |
| up to `dlopen` | `Load` |
| the loop over `il_dependencies()` | `LoadDependency`, the call of itself; `Depend`, its return |
| the rest | `Bootstrap`, `BootstrapMissing` |
| `il_close_module` | `Close` |

The calls under way are a stack (`frames`). Dependencies form no circle: a
module is listed after its bootstrap only, so on a circle `il_load_module`
would call itself until the stack ends. Clients close only modules that no
loaded module depends on, because nothing in the code counts who does. The
model is the POSIX branch; on Windows the result of loading a dependency is
ignored (`DependAnyway` is that branch, and breaks `DependenciesLoaded`).

### Storage

| Code | Definitions |
|---|---|
| `il_table_setv` | `SetV`, with the entry `HASH_FIND` found (`Candidates`) |
| `il_table_sets` | `SetS`, used by `SetByName` and `CopyByName` |
| `il_table_mgets`, `il_table_gets` | `GetS` |
| `il_table_seti` | `SetByNumber` |
| `il_vector_set` | `SetInVector` (`SetElement`) |
| `il_value_free`, `il_table_free`, `il_vector_free` | `FreeValue`; `Free` |
| `il_value_copy` | `CopyValue` |

A table is the sequence of its entries, the newest first, and values nest as in
the code. The entry for a number keeps the address of an argument of a call that
has returned; what lies there later is anything, so `HASH_FIND` may find the
entry under any number of its bucket, or miss it, and the next `il_table_seti`
adds a second one. The reference is `names`, a flat map from dotted names.
Names are not as long as an `int`, or they might be taken for a number.
What is set behind something that is no table, and what lies under a new
element of a vector, is never destroyed: `lost` keeps these, which the code
forgets.

### Paths

| Code | Definitions |
|---|---|
| `ilA_path_string`, `_chars` | `FromString` (`AddNode` is its loop) |
| `ilA_path_copy`, `_concat`, `_absolute`, `_cwd` | `Copy`, `Concat`, `Absolute` |
| `ilA_path_tostr`, `_tochars` | `ToStr` |
| `ilA_path_cmp`, `_relativeTo` | `Cmp`, `RelativeTo` |
| the operators of `asset/path.lua` | `New`, `CopyPath`, `ConcatWith`, `MakeRelative` |
| `stdiodir_lookup`, `prefix_lookup`, `union_lookup` | `DirLookup`, `EntryLookup`, `Lookup` |
| the option `--shaders` in `graphics.c` | `AddDirectory` |

The reference is `Place`: where a string leads, part by part, from the root or
the working directory. There are no symbolic links, files only are looked for,
and directories and prefixes are opened by strings, as everywhere in `src`.
`FirstMatchFound` holds because two errors cancel: `ilA_path_concat` leaves
out the slash behind an absolute path, and `ilA_path_copy`, through which every
directory gets its path, forgets that it is absolute. The names in the instance
are not beginnings of one another, because `il_string_cmp` cannot tell such
names apart.

### Packets

`Serialized` and `Deserialized` are `ilN_packet_serialize` and
`ilN_packet_deserialize`, over the calls of `ilN_buf` they make, all at whole bytes:
`Bytes`, `ReadU`, `Enough` (`ilN_buf_check`, on whose failure a field reads as 0 and
the cursor stays). Nothing in the repository sends packets yet; what
carries them (`Cut`) is external. `PacketSurvives` follows a packet over several
hops because a type is stored as an object when it is received and the
reserved flags stay in `flags`.

### Buffers

A byte is the set of its bits. `WriteBits` and `ReadBits` are `write_bits` and
`read_bits`, `WriteFrom` and `ReadFrom` the loops of `ilN_buf_writeu` and `_readu`;
`Grow` is `IL_AUTORESIZE`, which copies as many bytes as `length` says.

| Code | Actions |
|---|---|
| `ilN_buf_writeu`, and by it `_writei`, `_writef`, `_writed` | `WriteU` |
| `ilN_buf_writes`, `_writec`, `_in` | `WriteC` |
| `ilN_buf_seek`, `_clear` | `Seek`, `Clear` |
| `ilN_buf_readu`; `_readc`, `_reads` | `Read`; `ReadC` |

`careless` names what a client did beyond appending whole bytes: `"bits"` that
are not aligned, and writing `"behind"` or before the end. The first shifts by a
negative number, the second ORs into what was there or counts bytes again. What holds is stated
for clients for whom it is empty.

### Strings

A slot has an `il_string`; `of` is the string it was cut from, whose entry in
`memory` has the bytes and the count that are shared (`CountUp`, `CountDown`). `held` counts
a client's references, `source` is what a material has as its shader.

| Code | Actions |
|---|---|
| `il_string_new`, `_bin`, `_format` | `Create` |
| `il_string_copy`, `_ref`, `_unref`, `_sub` | `Copy`, `Ref`, `Unref`, `Sub` |
| `il_string_cat`, `_catchars`, with `_resize` | `Cat` (`Grown`, `CatText`) |
| `ilG_material_vertex`, `_vertex_file` | `SetSource`, `SetSourceFile` |

A copy has the capacity of the other string on record and only its length
allocated. `WritesInside` excepts it (`spare`), and a string that was written
past its bytes is not used any more. Only strings nobody shares are appended to,
as everywhere in the repository.

### Loggers

| Code | Actions |
|---|---|
| `il_logmsg_new`, `_setLevel`, `il_logger_log`; `il_log_real` | `Log` (`LogAt`, `Keep`); `LogReal` |
| `il_logger_setFilter`, `_setBuffering`, `_forward`, `_destroy` | `SetFilter`, `SetBuffering`, `Forward`, `Destroy` |
| `il_logger_getMessage` | `GetMessage`, read by `RingHoldsAll` |

`failure` says why the program cannot go on: a copy of a message with a trace
(every message of `il_log` has one) never ends, nor do ways in a circle, and the
first message that does not fit into a ring has the unwritten slot destroyed. `destroyed`
is the sequence of what was destroyed, so that one destroyed twice is in it twice. Nobody
in the repository calls `setBuffering` or `forward`. Ways to a logger that
was destroyed stay, and a message that takes one fails.

### Transforms

Floats are the integers modulo 97, where every number but 0 has an inverse and
2 and 3 have roots: an identity of products, sums and quotients that holds up to
rounding holds there exactly, and one that does not is broken by some of the
numbers. Comparisons of sizes have no meaning there and are left out.

| Code | Definitions |
|---|---|
| `vector.c`, `quaternion.c` | `Add` to `Cross`, `QuatMul`, `Normalize`, `FromAxisQuarter`, `Rotate` |
| `matrix.c` | `Scale`, `Translate`, `RotateMat`, `Perspective`, `MulV`, `Invert` (`Hunt`, `Clear`) |
| `ilG_computeMVP` | `ComputeMVP` (`Factors`) |
| `il_positionable_set*`, `ilG_camera_setMatrix` | `SetPosition`, `SetSize`, `Turn`, `SetMatrix` |

`axes` is the reference: where the turns took the axes, as a permutation with signs.
`il_mat_rotate` is the transpose of what `il_vec3_rotate` does; the view uses it
without taking an inverse, so `ViewUndoesPose` holds, and a model is turned the
other way, which `ModelPlacesPoints` states as it is. `InverseUndoes` is about the
matrices that are inverted: products of rotations, scalings and projections
that never need the hunt of `il_mat_invert` among rows above.

### Drawing

`gl` has the program and the vertex array that are bound, and `material` and
`drawable`, the context's record of them. The draw functions are functions of it;
a frame is `BeginFrame`, `DrawNext` for each renderer of the scene, `EndFrame`.

| Code | Definitions |
|---|---|
| `ilG_bindable_swap`, `mtl_bind`, `mtl_update` | `SwapMaterial`, `SwapDrawable`, `BindMaterial`, `UpdateMaterial` |
| `legacy_draw`, `heightmap_draw`, `lights_draw`, `sky_draw`, `filler_draw`, `image_draw`, `out_draw` | `LegacyDraw` to `OutDraw` |
| their builds, `build_mesh` | `Build` (`Link`, `HeightmapBuild`, `OutBuild`), `Upload` |
| `ilG_material_link` again | `Relink` |

What the record is wrong about is named, not left out: `DrawsWithOwn` excepts
those that come between by kind, `CrashesWithoutDrawable` says exactly when
`mtl_update` finds no drawable. The shader of fillers is linked by `Build`, in the code at the
first draw (`gui/filler.c:28`): linking changes nothing that is bound or on record.

### Members

Four owners of lists. `PushMsg` is the test in `push_msg`; `Direct` and `Message`
carry the change out on either thread, `BuildOwner` sets the context between. `wanted`
counts what the calls ask for. A light is removed by a `memcmp` that is true of the
first that differs, so `ListFollowsCalls` leaves lights out.

### Passes

A texture is an image in a region at its corner; an image is the layers in it,
the filters it went through and whether it was blended. `Blur` is one round of the loop
in `out_draw`, `Filter` is `fullscreenTexture`, `Blit` is `glBlitFramebuffer`.

| Code | Actions |
|---|---|
| `ilG_context_hint`, `setup_context` | `PassesInit` |
| `out_build`, `ilG_fbo_build` | `BuildOut` |
| `context_resize` and the handlers of its event | `ContextResize` (`Resized`) |
| `render_frame`, the draw functions | `BeginPasses`, `DrawPass` (`GeometryPass` to `OutPass`), `EndPasses` |

The width is halved from blur to blur (`Halved`), which is what `context->width / (1<<i)`
comes to in integers; a context of a width below 8 has its smallest blur torn.

A resize that fails leaves the framebuffer of the context incomplete (`~whole`), its
textures new and the buffers for blurs at the old size; frames are drawn all the same
(see `render_incomplete`). GL clears, draws and copies nothing in an incomplete
framebuffer (`Complete`), so nothing is claimed of such frames' pictures; what they leave
behind must not spoil those after the next resize. The framebuffers of the output
pass are taken to be complete.

### Textures

A texture is a record that is copied as `ilG_tex` is by `memcpy`; `freed` are the uploads
whose memory is gone. `active` and `bound` are GL's units.

| Code | Actions |
|---|---|
| `ilG_tex_loadfile`, `_loadimage`, `_loadcube` | `Value` |
| `ilG_skybox_new`, `ilG_heightmap_new`, `ilG_renderer_addTexture` | `NewSkybox`, `NewHeightmap`, `AddTexture` |
| `ilG_gui_frame_image_setTex` | `SetTex`, `SetTexDirect` |
| the builds of the four renderers | `RequestBuild`, `Message` (`Build`, `TexBuild`) |
| `image_message` | `Message` (`ImageMessage`) |
| the textures each draw binds | `Draw` (`Bound`, `TexBind`) |

`careless` names what makes a texture be uploaded twice; the demo does one of
these itself, setting `frame.context` before the frame is built (`SetContext`).

### Frames

| Code | Actions |
|---|---|
| `ilG_gui_addChild`, `ilG_gui_pop` | `AddChild`, `Pop` |
| `frame_add_renderer`, `frame_del_renderer` | `AddRenderer`, `DelRenderer` |
| `setPosition`, `setSize` of `frame.lua` | `SetPosition`, `SetSize` |
| `gui_build`, `frame_build` | `RequestBuild`, `FrameBuild` |
| `gui_draw` | `GuiDraw` |
| `ilG_gui_frame_abs`, `_contains`, `ilG_gui_click` | `Abs`, `FrameContains`, `Click`, read by the properties |

Percentages are halves and are cut as a float is when it becomes an `int`. `loose`
are the frames that came by a message to a renderer, which sets no parent,
`late` those added below one that was built, `tangled` says that `IL_REMOVE` moved
bytes of pointers; what follows is undefined and nothing more is asked.

### Images

A cell is a byte of the image as it was loaded, or a component of a normal, by
name, so every mix-up shows. `img` is laid out as in memory, `meaning` is the
reference: at each place the four channels. `off` says by which call the two
came apart (among them a resize by ILA_IMG_LINEAR, which leaves the image blank),
`outside` by which one a cell was written outside the memory: each operation
names the cells it writes (`Cells`). After that nothing more is asked.

| Code | Definitions |
|---|---|
| `read_png`, `ilA_img_fromdata` | `Loaded` |
| the choice of an interpolation in `ilA_img_resize` | `Chosen` |
| `ilA_img_copy`, `_resize`, `_swizzle`, `_bgra_to_rgba`, `_height_to_normal` | `Copy`, `Resize`, `Swizzle`, `BgraToRgba`, `HeightToNormal` |
| `getImgFormat`, `getImgType`, `glTexImage2D` | `ImgFormat`, `ImgType`, `RowAt`, `Texel` |

## The runs

| Run | Question | Bounds |
|---|---|---|
| `queue` | Is the queue memory safe, free of leaks, FIFO and exactly-once, and does free return, under every interleaving? `QueueInv` is checked here because the proofs rest on it | two messages and ILG_STOP, four addresses |
| `queue_twoproducers` | *violation*: does it survive the second producer? | two messages against one |
| `render` | Is everything drawn built, and every removal possible? Does the tree end as asked for, the size as the window has it, and does free return? | a pass, two leaves, two sizes, two messages, one user resize, GL may fail |
| `render_incomplete` | *violation*: are incomplete framebuffers left alone? | one message |
| `event` | Do callbacks keep their order, are dispatches complete, do the registries agree with libevent, is every asynchronous event run? | two handlers, two events, three priorities, six calls, nesting of three |
| `event_before` | *violation*: is a callback of ILE_BEFORE called before those registered earlier? | the same |
| `event_unregister` | *violation*: does unregister delete one callback? | one handler, four calls |
| `event_destroy` | *violation*: is a handler without callbacks safe to destroy? | one handler, four calls |
| `library` | Are identifiers never shared and iterations complete? Do counts, weak references and descriptors agree with their owners through cascades of destructors? Are modules loaded with all they depend on, once, and does loading end? Do textures reach who has them? | four positionables; three objects, two descriptors besides 0, one weak pointer, unions of up to three, two references to a client; six modules, three calls after the directory; two renderers at a time, two messages, five builds of textures |
| `shutdown` | Does closing the window end the program, with everything gone in time and nothing used after it is gone? | one window, closed once, resized twice |
| `shutdown_callbacks` | *violation*: are all callbacks gone before the handlers are destroyed? | the same, no resizes |
| `values` | Are opaques destroyed once, do tables behave as one map, do paths lead where their strings lead, do packets, numbers, strings and messages stay what they were; is everything drawn with its own matrices, material, vertices, textures and framebuffers, where it is seen; do lists, frames and images follow the calls? | see *Values* and *Graphics* |

Why the bounds are enough:

- *Queue.* Two messages and ILG_STOP are three links, so that the list has dead,
  current and waiting nodes at once, and the producer frees several nodes in one
  call. As many addresses as messages and the dummy: `calloc` never fails, as
  the code assumes, and addresses are used again. The proofs cover all other sizes.
- *Tree.* Two leaves make a removal move another renderer; a leaf below the pass
  makes a build upload a build. The program sends no more once two messages were sent, which is enough to ask for
  a pass to be built and to add it to the running tree; changes made directly, ILG_STOP,
  the resizes SDL reports and the builds that builds upload come on top.
  `DrawsOnlyBuilt` and `RemovalFindsRenderer` are proved for
  all other sizes. Sizes are symmetric except for the start size, so two suffice.
  One user resize gives a stale RESIZE message and a disagreement with the check
  before the frame; a RESIZE sent by the program adds one that is wrong.
- *Events.* Six calls build a handler, register, fire within fire and
  change it from inside. Two events and two handlers make slots of
  `pending_events` free and occupied in either order. `AsyncRuns` needs a kind
  that is always ready (`timer`) to compete with. `readasarg` dispatches as a
  timer does and is left out of the instance; `read` does not dispatch.

- *World.* Four indices allow two free ones between, before and behind those an
  iteration has to visit. The proofs cover all other sizes.
- *Objects.* Three make a union of two, a union with the same directory twice,
  a prefix in a union, and a cascade two deep; two descriptors for three files
  make `open` fail and a descriptor be used again.
- *Modules.* `graphics` depends on `common` and `util` and `common` on
  `util`, as the real ones do: `util` is asked for from three sides. `demo`
  depends on a library that is missing, after one that is not; `stray` has no
  bootstrap.
- *Textures.* Renderers two by two, so that one binds between the other's build and
  draw; files that are missing among them; a heightmap that gets one texture twice. Two
  messages let a texture be set while a build is on its way; five builds are
  those of a skybox and a heightmap, and one more. The proofs cover all other sizes.

- *Shutdown.* The program is fixed; what varies is where timers expire, in which
  order, and what lies in SDL's queue before and behind the close event: two
  resizes give one on either side.

- *Values.* Names `a`, `a.a`, `a.b`: a name, one within it and a sibling of that make
  every way in which a value can stand where a table is wanted, be replaced with
  others in it, or be made on the way; two opaques can be in one vector and in two
  tables, two numbers share a bucket. The strings of paths have `.`, `..` above and below names,
  doubled and trailing slashes, `~`, the empty string and `..` at the root; there are four
  directories and two prefixes, two at a time, and any of five files. Packets have bytes of
  eight values (both reserved flags and one of users), identifiers of all four
  bytes, three hops. Buffers have bytes of four bits, so that
  a number of eight bits takes two and one of six part of a second, and grow from two to
  four bytes. Three strings, two references to each client and texts of two bytes make a slice of a
  slice, its original freed first, and a copy with room to spare. Three loggers have two
  ways that join, a ring has three places, of which the code can fill two, so that messages have an order
  in it, or two, where the second message finds the unwritten slot.
- *Graphics.* `Transforms`: the camera takes all 24 turns about its axes, the object four, at
  two positions, in two sizes, by one projection; the points looked at are corners
  of a tetrahedron, which no other linear map takes to the same places. `Drawing`: every
  kind of renderer, two of one kind that share a material and a shape, three at a
  time in every order, so that any one comes between two others. `Members`: two things and five
  calls, which are two in the array, a removal from the middle and two under way.
  `Passes`: three passes of seven kinds in any order, a width that halves three times and one
  that does not, two builds. `Frames`: the root, two frames, one of them perhaps in the other, with
  percentages and negative places; one build under way. `Images`: all four sets of
  channels that are loaded, higher than wide, wider than high and square, two operations.
  A behaviour belongs to one part: they share no state but what `Drawing`, `Passes` and
  `Textures` each have of GL, which the properties of the one do not read from the other.

Deadlock is checked in every run but those of `Shutdown`, where the program
ends, and `values`, where packets arrive for the last time and crashes stop; in
`library`, `TexturesStop` is where a crash or the bound of builds ends `Textures`. `Terminated` (free has returned) and `Idle` (the loop waits) are the
states the other systems may rest in.

## Fairness

- *Queue, render thread*: both threads are scheduled, so an enabled step of
  `render_thread` and of a call the main thread is in the middle of (`produce`,
  `push_msg`, `ilG_context_free`) is taken in the end. Nothing obliges the
  program to send, to resize or to free.
- *Event pump*: `poll_events` runs from a timer and takes every event SDL has,
  so a window event is read in the end as long as the main thread is in its loop
  (`WF(act = <<>> /\ PollResize)`).
- *Event*: `ilE_loop` is libevent's loop and callbacks return (`WF(Loop)`).
  libevent runs active events of one priority in the order they became active;
  the code sets no priorities. Timers are never obliged to expire.

- *Shutdown*: the thread runs on (`WF(Thread)`), and the poll timer, a persistent
  one, expires again and again as long as it exists (`SF(PollTimerIsDue)`:
  strong, because timers are looked at only between dispatches). Nothing obliges
  the user to close.
- *Loader*: a call of `il_load_module` runs on (`WF(Step)`). Nothing obliges
  clients to make one.

Properties that need more do not hold and are not claimed: a main thread that
sends faster than messages are handled keeps the inner loop of `render_thread`
from ever drawing. The bounds on sends hide this case, so no property about
progress of frames is stated.

## The proofs

All theorems hold for every value of the constants under the named
assumptions.  `QueueAssumption`, `EventAssumption` and `RenderThreadAssumption` ask for no more than distinct
markers and natural bounds; what `LoaderAssumption`, `AssetsAssumption`,
`TexturesAssumption`, `MembersAssumption`, `DrawingAssumption`, `PassesAssumption`, `ShutdownAssumption`,
`PacketsAssumption` and `StringsAssumption` ask for is said below. TLC evaluates each for the instances of
the runs. A theorem about careful clients says so in its hypotheses or in the property, and so do
those about `Shutdown`, of the user.

**ContextQueueProofs.** `QueueInvariant`: `Spec => []QueueInv`, by induction.
Neither `NoUseAfterFree` nor the order of messages is inductive: whether
`head->next` is allocated depends on where `head` is, on what the producer is
about to free and on addresses not being in the list twice. `QueueInv`
describes the list instead. `addr` names the nodes in the order they were
published, the ones from `freed + 1` on are linked, allocated and distinct
(`ListInv`); the three pointers are positions in it (`PointersInv`); the node the
producer holds, before linking and after unlinking, is allocated and outside
the list (`ProducerInv`), so freeing it takes nothing from the list and linking
it adds no second occurrence; nothing else is allocated (`LiveInv`); and the consumer's
message is the one after `head` (`ConsumerInv`). Each action disturbs few of these
parts; the proof has a lemma per action. From it follow

- `QueueTypes` (`TypeOK`), `QueueIsMemorySafe` (`NoUseAfterFree`),
  `QueueDoesNotLeak` (`NoLeak`);
- `QueueRefinesChannel`: `Spec => ChannelOf!Spec`, each step of the queue is a
  step of the channel or leaves it alone. This is the safety part of
  `ImplementsChannel`; its fairness is left to TLC.

**EventProofs.** `CallbacksStayOrdered`: `Spec => []CallbackOrder`, for any
number of handlers, callbacks and priorities, careful clients or not: no callback is in front
of one that asked for an earlier place, and ILE_AFTER is behind all that were registered
before. That ILE_BEFORE is not in front of them (of the ILE_BEFORE ones among them) is what
`event_before` shows. The
invariant adds that the handles in an array are below `cur_id`, so a new
callback has the greatest handle and goes behind its equals. The lemmas on the
array (`PlaceIsFirst`, `InsertKeepsOrder`, `RemoveKeepsOrder`) show that insertion and
even the faulty removal keep the order: the bytes it moves are part of the
function, not of the priority. `LeastNumber` (module `SequenceFacts`) makes the
`CHOOSE` of `Place` defined, by well-founded induction over a set of numbers.

`EventTypes` (`Spec => []TypeOK`) and `RegistriesAreExact` (`Spec => []RegistriesMirrorLoop`)
hold for any clients. The registries alone are not inductive: that a dispatch
clears one slot of `pending_events` and no other depends on each event being in one
place. `LoopInv` says so: an event is not allocated, in libevent's queue or under way,
in one place each (`AsyncInv`); a slot names an event that is in the queue, and no
other slot does (`PendingInv`); the persistent handlers are the timers and watchers,
once each (`PersistentInv`).

`DispatchesAreComplete` (`DispatchIsComplete`) and `CarefulClientsAreSafe` (`DeletesJustOne`
and `DispatchesLiveHandler`) assume `Careful`: clients unregister only the callback that
stands last, and destroy no handler that an event or a dispatch still needs. The runs
`event_unregister` and `event_destroy` show that without it the latter two fail; the
theorem, that nothing else is needed. A dispatch is complete when it
has ended, so `CarefulInv` says of every dispatch under way what it still has ahead: what was due is
called or stands at its index or behind (`DueAhead`), and what stands there
it has not called, unless a callback was put in front of it (`NewAhead`). Insertion at or before the index
moves all of it one place, which is the case `grown` records; removal of
the last callback takes away what is not called yet only if it is no longer due.

**RenderThreadProofs.** Three facts about the tree of renderers, for any number of
passes and leaves, any number of messages and any interleaving, under
`RenderThreadAssumption`. They rest on `BaseInv` (types, which thread is where,
and that no change is on its way to a renderer the main thread is changing) and
on two descriptions of the queue. `Pending` is the messages whose effect is still to
come; `Advance` says what any step does to them.

- `DrawnIsBuilt` (`Spec => []DrawsOnlyBuilt`). A renderer is `Ready` when it is built
  or its build is pending. `DrawInv`: whatever was requested, and whatever hangs
  below something built, is ready; a pending addition stands behind the build it needs
  (`AddedReady`). At the empty queue ready means built (`FrameBuilt`), and until
  the frame ends only a direct change can reach the tree: its renderer was
  requested before, or its parent is not drawn.
- `RemovalsFind` (`Spec => []RemovalFindsRenderer`). The property says nothing of
  the changes that wait, so it is not inductive. `Alternate`: the pending changes of
  one edge alternate between removal and addition, from what the tree is (`FirstFits`) to
  what the client sees (`LastFits`). `RemoveInv` adds that the arrays have no
  duplicates, which keeps the removal by the last element from disturbing the rest
  (`LinkEffect`).
- `SettledTreeIsTheClients`: with nothing on its way, tree and calls agree. It
  is `NoneFits` of the same invariant, and the safety part of `TreeFollowsCalls`.

`RenderTypes` is `TypeOK`, which no run lists: the theorem makes it redundant.

**LibraryProofs, the world.** `IdsStayPartitioned` (`Spec => []IdsPartitioned`) needs no more
than the types: the partition is inductive, by what `Front` and `Append` do to an
injective sequence. `WalksVisitLive` (`Spec => []WalkVisitsLive`) is about the end
of an iteration, so its invariant, `WalkInv`, says what holds on the way: what
was visited lies behind `walk.at`, in ascending order; all that is still owed is
alive, and was visited or lies at `walk.at` or ahead of it. It needs the partition:
`NextId` leaves out what is on the free list, and the partition says that
everything else below `length` is alive (`NextIdIsNext`).

**LibraryProofs, the loader.** `LoaderKeepsTypes` and `LoadedStaysUsable` (`LoaderSpec => []LoadedIsUsable`), for any
modules under `LoaderAssumption`: dependencies are modules, and form no circle, which
`il_load_module` would follow for ever. What is loaded is added at the end of a call, when its
dependencies have been asked for by calls of their own, so `LoaderInv` is about the stack
of calls (`GoodFrames`). Each call was made by the one below it for the dependency it
asked for last; none is for a module that is loaded; and what was asked for
before the last dependency is loaded. The last one is too, if the call for it has not
failed (`TopHasAll`). No two calls are for the same module, by the assumption: the libraries of
calls that ask for one another would be a set in which each depends on one of the
set. So a library is opened once for each use.

**LibraryProofs, the objects.** `AssetsKeepTypes` and `ObjectsStayOwned` (`AssetsSpec => []ObjectsOwned`), for any objects, pointers,
descriptors and bounds under `AssetsAssumption` (null is no object, descriptor 0 exists, clients
may own a reference). The three parts of `ObjectsOwned` are almost inductive
themselves, once a running destructor is described by what it has still to give
up (`Left`). `AssetInv` adds that an object is in the stack of destructors at most once and is
not freed before it leaves it (`StackInv`: otherwise the parts below
would be released twice); that the references to an object are finitely many, so that
counting them by `Cardinality` means something (`CountInv`); that no list of weak
references has a pointer twice, or taking it back would leave one (`WeakInv`); and that a
file with a descriptor is mapped, so that it is not opened a second time (`FileInv`).
The lemmas say what a change of `parts`, of the stack or of `kind` does to
`Holders`, and what one reference more or less does to its size.

**LibraryProofs, the textures.** `TexturesKeepTypes` and `TexturesStayWithOwners` (`TexturesSpec => []TexturesReachOwners`), for
any scenes of renderers and files, any number of messages and builds, under `TexturesAssumption`:
heightmaps are made of images, and `Nil` is no texture. `TextureInv` has a part for
each of the three properties.

- Samples (`Sane`): what is complete at a place has the unit and the target of that place, and
  its object holds what was uploaded for it. Binding changes one unit and target, and
  the three textures of a heightmap have different ones (`BoundIsOwn`).
- Uploads (`CareInv`, with `GivenInv`): with careful clients the uploads that are still to happen, in
  places, in messages or in what is being set, are of different memory,
  none of it freed. A new texture is of memory that was not given away before, and all
  that waits or was freed was. Two more facts keep two owners from arising: while a texture is copied in place
  no message carries one (`OrderInv`), and an image with one to build has no context.
- The image (`OrderInv`, `ImageInv`): what was last set is the last that was sent, or is being set, or is
  at the place; and a texture there that is not complete will be built with the
  image, or came late.

**RenderersProofs, the lists.** `MembersKeepTypes` and `ListsFollowCalls` (`MembersSpec => []ListFollowsCalls`), for
any things and any number of calls, under `MembersAssumption`: `Nil` is no call. The
invariant, `MembersInv`, adds to the property which way calls come (`OnTheirWay`): no message before there is a context,
and none while a direct call waits. That is why no message overtakes a direct
call at the change from the ones to the others. `Follows` is the property without its
exceptions: a removal that misses leaves the bag as it is, in the array as in what was
asked for. `Arrays`, what the calls on their way make of the array one by one, is
a recursive function; that it is defined at all (`RecursionDefines` of `SequenceFacts`), and what one call
more behind or one less in front does to it (`FinalOfAppend`, `FinalOfTail`), is
shown by the least number at which two such functions would differ. A call adds to the array one of its thing
or takes one away (`HandleCounts`), which is where the move of the last
into the gap must not lose any.

**RenderersProofs, the draws.** `DrawingKeepsTypes` and `EachDrawsItsOwn` (`DrawingSpec => []DrawnWithOwn`), for any
renderers of the seven kinds in any order, any materials and meshes, shared or not, under `DrawingAssumption`:
each renderer is of one of the kinds, and `None` is neither a material nor a drawable.
The property is about calls that were made; the invariant, `DrawingInv`, says what the
record of the context may be trusted for in the middle of a frame (`GoodRecord`). A material on record was
bound by one of the renderers before, and is the program in use, unless it did not link
or a heightmap came since (`MaterialOnRecord`); so for the vertices, where
an output pass may have come too (`DrawableOnRecord`); the program in use has the matrices of
the camera (`ProgramIsFresh`); and no drawable is on record only where lights came after
all that put one there (`NoneOnRecord`). A lemma for each kind of renderer
says what its draw function does to program, vertices and record (`LegacyDraws` to `OutDraws`), in
three forms: those that swap, those that bind past the record, and the output
pass. What the calls show follows for all kinds at once (`CallsAreOwn`). TLC has
checked `DrawingInv` on scenes of four renderers too.

**RenderersProofs, the passes.** `PassesKeepTypes` and `PassesShowTheScene` (`PassesSpec => []PassesShowScene`),
for any widths but 0, any passes in any order, any number of blurs and builds, under `PassesAssumption`.
The property looks at the picture when it is swapped; the invariant, `PassesInv`, says what leads there.
The framebuffers are as large as the context, unless a resize has failed (`BuffersFit`). From the beginning
of a frame to the output pass the framebuffer of the context holds the passes drawn so far, in
their order, if the last resize left it complete, and it is what is drawn into (`FrameInv`, `Holds`). Between passes blending is on only if there is
a transparency pass, and depth testing off only if there is one that leaves it off (`SwitchesInv`),
whence every layer is good when it is drawn (`LayersInv`). The blurs are a recursion over their number, so what
they do is shown stage by stage (`NextStage`): each adds one image to the screen and changes
nothing but its two buffers (`BlurDoes`), and the width of the last of them
being more than 0 means that of all (`HalvedFits`).

**ShutdownProofs.** `NoUseAfterFreeHolds`, `ContextGoneBeforeSDLHolds`, `NothingRemainsHolds`,
`QuitRemovesItsOwnHolds` and `ShutdownTypeCorrect`, each `Spec => []` of the property in its name,
for any number of resizes, under `ShutdownAssumption` (natural bounds, and `Wild` is none of
the functions of C) and the hypothesis `MaxCloses <= 1`: with a second close event the program
does use freed memory, as said above, so the hypothesis cannot be left out. The run
has two resizes; with more of them SDL's queue, and the interleavings of clicks with
polls and timers, have no bound.

None of the properties is inductive: whether a step finds its handler depends on all that was set
up and taken down before it. `ShutdownInv` therefore has a clock of 32 times. `Data(t)`
says, for each of them, which handlers are live, which callbacks, in which order and with which
handles, each of them has, which functions scripts have registered, and what there is of
context and SDL: up to 19 as the start makes it, from 20 as the shutdown takes it
down, from 26 as `ilE_quit` does. `Situation(t)` says what the thread may be at then, as a list of steps
(`Starting`, `Open`, `Closing`, `Clicked`, `Leave`, `Gone`, `Downing`, `Quitting`, `Ended`), and
what libevent's queue holds meanwhile. Two parts of it are what a test would hardly
reach. While the context goes there is *nothing* in libevent's queue: in it `on_after_close`
is behind all ticks, the poll timer is not among them when the close event is handled
(`PollOnce`, and `Open` while it polls), and a timer becomes active only when the queue is empty. And once a close
event was handled there is none in SDL's queue, nor will there be (`Spent`).

Each step leads from a situation to one of the same time or of the next. Lemmas say what a
step of each kind does (`FireDoes`, `LuaDispatchDoes`, `StepDoes`, `PollDoes`), others how the data get from one
time to the next (`BornAt`, `RegisteredAt`, `LuaRegisteredAt`, `WithdrawnAt`, `DiesAt`, `SDLAt`), and there is one
for each situation (`StartingStep` to `EndedStep`) and one for the user. That the handles of `ilE_init`
are all 0, which `QuitRemovesItsOwn` rests on, is part of `Data`. TLC has checked
`ShutdownInv` on the run's instance.

**ValueProofs, the packets.** `PacketsKeepTypes` and `PacketsDoArrive` (`PacketsSpec => []PacketsArrive`), for any
packets, any values of a byte and any number of hops, under `PacketsAssumption`: every field fits its width,
and the flags of users leave room for the reserved two. Two lemmas are about the buffer:
what `ilN_buf_writeu` writes of a number that fits, `ilN_buf_readu` reads (`ReadsField`), and a field that is not whole
is 0 and is not stepped over (`ReadsNothing`). Two more say at which bytes the fields of a packet lie
(`SerializedLayout`), and what comes of them when only the first n arrive (`DeserializesCut`). The invariant,
`PacketInv`, says what a packet is after so many hops (`Arrived`): its flags are those of the user
and one reserved flag (`Mark`), which is that of a type on the first hop and that of an object on all others; and what
is on the wire is the beginning of what was sent. That a reserved flag never meets the other one is `FlagsSent`.

**ValueProofs, the strings.** `StringsKeepTypes` and `StringsDoKeepText` (`StringsSpec => []StringsKeepText`), for any
number of strings and references, any texts of any length and any capacity of an empty string, under
`StringsAssumption`: a C string has no zero before its end, and `Null` is none of the rest. The invariant,
`StringsInv`, is about the structs, the memory and a function that says how many references each struct
has (`Consistent`), so that `ilG_material_vertex` can be shown in two steps, the source given up
(`GivenUpIsConsistent`) and the other taken (`TakenIsConsistent`), between which the material has
no source; that it may be given the one it has already is the hard case. It adds to the property that
a string that is allocated is not a slice of another one, that its capacity is allocated unless it is a copy
with room to spare, and how a text lies in the bytes (`Reads`): its own bytes, then zeros up to the
length. That is what makes slices work that reach past the text: a part of zeros
reads as nothing (`SubReads`), and a text that is appended to is read up to its first zero, so
nothing comes between (`CStringReads`). The count of a string is the number of pairs of a slice and a
reference to it; `CountedMore` says what one reference more or less does to it. TLC has
checked `StringsInv` on the run's instance.

Model-checked only:

- all liveness (`FreeReturns`, `TreeFollowsCalls`, `ResizeConverges`, `AsyncRuns`, `LoadsReturn`,
  `CloseEnds`, the fairness of `ImplementsChannel`), which is out of the prover's reach;
- what recursive definitions compute (`Storage`, `Loggers`, `Buffers`), which is too;
- the arithmetic of `Transforms` (modulo a prime) and of the pixels of `Images`;
- `Paths`, and `Frames` of the graphics, which remain for later (see the plan).

## What the code does against its documents

Shown by runs:

- `queue_twoproducers`. Both threads store to `tail->next` and one message is
  lost, where `graphics/context.h:152` has `ilG_context_upload` call its function.
  `context.c:67` knows: "TODO: Multiple producer threads".
- `render_incomplete`. A resize that fails after one that succeeded leaves
  `valid` at 1 and has already taken the size over, so the loop draws into
  incomplete framebuffers and never tries again.
- `event_before`. `common/event.h:42`: a callback of ILE_BEFORE "must be called before
  previously registered handlers". One goes behind those of its own priority
  (`event.c:271`), so of two with ILE_BEFORE the earlier one is called first.
- `event_unregister`. `IL_REMOVE` moves bytes for elements (`util/array.h:133`).
- `event_destroy`. A handler without callbacks may still be pointed to by an
  asynchronous event, or by the dispatch that is running.
- `shutdown_callbacks`. `common/event.h:108` has `ilE_shutdownCallbacks` destroy
  all callbacks; scripts' callbacks are not registered with it, and their
  handlers are destroyed with `lua_dispatch` in them.

Seen while modelling, and not the subject of a run:

- `graphics/context.h:154` has `ilG_context_resize` resize the framebuffers. The
  loop compares the size with the window's before it draws and undoes any other.
- `script/common/event.lua:17` declares ILE_BEFORE and ILE_AFTER to scripts as 1 and 2, where
  `event.h` has -100 and 100: a script's ILE_BEFORE comes after the default.
- `common/event.h:57` offers ILE_READ and ILE_WRITE watchers. Their callbacks
  are never called, because `file_dispatch` fires for ILE_READASARG alone; and a
  persistent watcher keeps waking the loop.

- `asset/stdiofile.c:41`. Every file that was never read closes descriptor 0
  when it is destroyed, which is standard input the first time and may be
  another file's afterwards.

- `asset/path.h` has `ilA_path_absolute` create "an absolute version of the
  specified path". It joins the working directory, which is absolute, and the path
  without a slash: in `/v/w`, `u` becomes `/v/wu`. The same happens to `..` of an
  absolute path and a string in scripts.
- `asset/path.h` has `ilA_path_relativeTo` chop one path off another, and
  `util/ilstring.h` has `il_string_cmp` compare like `strcmp`. It compares as far
  as the shorter goes, so `us/x` is below `u` and becomes `x`.
- `asset/path.h` has `ilA_path_cmp` compare like `strcmp`: it tells "different" (1),
  "above" (-1) and anything else (0) apart, so `a < b` and `a == b` in scripts do not
  make an order.
- A directory of the empty string is the root, and a path `/`, printed, is empty.
- A packet for a type is for an object of that number once received
  (`network/packet.c:43`), and its payload ends at the first zero byte (`buffer.c:132`).
- `il_string_copy` takes the capacity over and allocates the length (`util/string.c:73`), so
  appending to the copy writes behind it. The struct of a slice is freed only if it is the last.
- `il_logmsg_copy` never ends on a message with a trace, the ring destroys a slot before it
  is first written (`util/logger.c:178`), `il_logger_getMessage` with -1 gives the last but one.
- `il_mat_invert` hunts for a pivot among the rows above too (`math/matrix.c:198`), which
  undoes what was cleared: 21 of the 174 invertible 3 by 3 blocks of zeroes and
  ones get a wrong inverse. `il_quat_fromYPR` has its components misplaced.
- `material.lua` has the bits of `ILG_INVERSE` and `ILG_TRANSPOSE` the other way round than
  `graphics/glutil.h:30`.
- `heightmap_draw` and `out_draw` bind past the context's record (`heightmap.c:40`,
  `outpass.c:82`), so a renderer behind them may be drawn with their vertices; and
  heightmaps and lights crash in `mtl_update` when no drawable is on record.
- `lights_del_light` removes the first light that is *not* the one given (`lightpass.c:177`),
  and the removal loops run over the end of an empty array.
- A frame added to the tree by a renderer message gets no parent and is not built; clicks
  are compared with a frame's size as if it began where the screen does; and the
  child drawn lowest is asked first.
- The output pass erases the scene with `use_default_fb`; `ilG_fbo_build` deletes texture names
  it never wrote the first time, leaks its framebuffer every later time and is registered
  with the resize event once more each time; transparency leaves blending on.
- A texture that is given to two renderers is uploaded from freed memory by the second;
  one whose file is missing has no build function and crashes; legacy renderers never
  build theirs. The faces of cubes and the objects of replaced images are never freed.
- `ilA_img_copy` forgets that an image has floats: the normal map of the demo
  (`demos/bouncing-lights/main.lua:61`) is uploaded as unsigned integers. Of the two interpolations of `asset/image.h:30` that
  `ilA_img_resize` "uses" (`image.h:45`), ILA_IMG_LINEAR is "unknown" to it (`image.c:242`)
  and makes a blank image. Resizing puts channels
  off when one before them is left out, `ilA_img_height_to_normal` loops over rows to the
  width, `read_png` sizes memory for square images, and rows that are not a multiple of
  four bytes are uploaded sheared.

## Not modelled

- OpenGL, SDL and GLEW set-up, the sources of shaders, attributes: calls into a driver
  without state of their own to go wrong.
- Rounding and comparison of floats (`Transforms` is exact), frame times.
- The decoders of PNG, the parsers of meshes (`obj.c`, `mesh.c`) and materials (`mtl.c`), text in the GUI
  (`text.c`, which asks Pango): no state beyond a call.
- Keys and buttons (`input/`): one table that is looked up.
- Lua bindings other than those named above: declarations for the foreign-function interface.
- `util/uthash.h`, a hash table from elsewhere; `util/timer.h` and `util/list.h`, macros of the frame times.
- `network/network.c`, `network/state.c`, `common/serializable.c`: stubs.
- Payloads of events and renderers, names, log output: no property tells them apart.
- Failure of `calloc` and `realloc`: the code checks neither.

## Plan

In this order; the modules to come keep the conventions of those here: constants
with named assumptions, one action per operation, no recursive operator where
there are theorems.

1. Scripts: `event.lua` over handlers whose addresses are used again (`callbacks`
   keeps the functions of a destroyed handler, and a handler at the same address is
   taken for registered), several functions to a handler and errors among them.
2. The data race of direct changes against `context_draw` and of registrations against
   `tick` on the render thread: `RenderThread` and `Event` with arrays that are read
   an element at a time and move when they grow; a context whose window fails to open.
3. `Objects` beyond counts: parent types' destructors and `il_copy`; the storage
   of objects and worlds.
4. `Drawing`, `Passes` and `Textures` composed over one state of GL.
5. Proofs: which frames of `Frames` are built; that paths lead to files (`Paths`);
   `OpaqueOwnedOnce` over tables written without recursion.

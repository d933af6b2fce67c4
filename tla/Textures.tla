------------------------------- MODULE Textures -------------------------------
(***************************************************************************)
(* Textures (graphics/tex.c) and who has them: skyboxes, heightmaps, legacy *)
(* renderers and images of the GUI.  A texture is passed on by value; its  *)
(* copies share what is to be uploaded, which is freed when one is built.  *)
(***************************************************************************)
EXTENDS Integers, Sequences, FiniteSets

CONSTANTS Scenes,       \* which renderers there are, and what the script loads for
                        \* them: "data", "cube", or "none" if it cannot be read;
                        \* and which of these heightmaps are made of
          MaxRequests,  \* bound: messages on their way
          MaxBuilds,    \* bound: textures built
          Nil

VARIABLES cast,         \* one of the scenes
          freed,        \* uploads whose memory was freed
          place,        \* the textures of the renderers, or Nil
          things,       \* how many positionables the legacy renderer has
          haveTex,      \* the image has a texture to build
          setting,      \* what ilG_gui_frame_image_setTex() is about to copy, or Nil
          context,      \* the renderers with a context
          requests,     \* messages to the render thread
          object,       \* what each texture object of OpenGL was filled with
          active,       \* the texture unit that is
          bound,        \* the texture objects of the units, or 0
          failure,      \* why the program has crashed, or may do anything
          wanted,       \* history: the upload that was last set for the image
          given,        \* history: what the script has given away, to be built
          built,        \* history: the renderers that were
          careless      \* history: what clients did that they should not

textures == <<cast, freed, place, things, haveTex, setting, context, requests, object, active,
              bound, failure, wanted, given, built, careless>>

\* Textures as they are in memory, whatever was loaded for them
Texture == [build : {"none", "data", "cube"}, target : {"2D", "cube"}, upload : Nat,
            unit : 0..2, object : Nat, complete : BOOLEAN]

\* Heightmaps are made of three images; no texture is taken for none
TexturesAssumption ==
    /\ \A c \in Scenes : /\ c.renderers \subseteq {"sky", "map", "model", "image"}
                         /\ c.files \in Seq({"data", "cube", "none"})
                         /\ \A m \in c.maps : \A i \in 1..3 : /\ m[i] \in DOMAIN c.files
                                                             /\ c.files[m[i]] # "cube"
    /\ Nil \notin Texture

Files == cast.files

Place    == {"sky", "height", "normal", "color", "model", "image"}
Renderer == {"sky", "map", "model", "image"}
PlacesOf == [sky |-> {"sky"}, map |-> {"height", "normal", "color"},
             model |-> {"model"}, image |-> {"image"}]

Unit   == [sky |-> 0, height |-> 0, normal |-> 1, color |-> 2, model |-> 0, image |-> 0]
Target == {"2D", "cube"}
Units  == (0..2) \X Target

\* calloc(), or ffi.new(): a texture without a function to build it
Empty == [build |-> "none", target |-> "2D", upload |-> 0, unit |-> 0, object |-> 0,
          complete |-> FALSE]

State == [freed |-> freed, place |-> place, haveTex |-> haveTex, object |-> object,
          active |-> active, bound |-> bound, failure |-> failure]

Become(s) ==
    /\ freed' = s.freed /\ place' = s.place /\ haveTex' = s.haveTex /\ object' = s.object
    /\ active' = s.active /\ bound' = s.bound /\ failure' = s.failure

\* ilG_tex_loadfile() and ilG_tex_loadimage(), which leave the texture as it was
\* if the file cannot be read, and ilG_tex_loadcube()
Value == [v \in DOMAIN Files |->
            IF Files[v] = "none" THEN Empty
            ELSE [Empty EXCEPT !.build = Files[v], !.upload = v,
                               !.target = IF Files[v] = "cube" THEN "cube" ELSE "2D"]]
-----------------------------------------------------------------------------
\* tex_data_build() or tex_cube_build(): a new object, filled and left bound to
\* the unit that happens to be active
Fill(s, p) ==
    LET t   == s.place[p]
        new == Len(s.object) + 1
    IN  [s EXCEPT !.object = Append(@, t.upload),
                  !.bound[<<s.active, t.target>>] = new,
                  !.place[p].object = new,
                  !.place[p].complete = TRUE]

\* tex_cube_build(): the faces are not freed
CubeBuild(s, p) == Fill(s, p)

\* tex_data_build(): what was uploaded is freed
DataBuild(s, p) ==
    LET u == s.place[p].upload
    IN  IF u \in s.freed THEN [s EXCEPT !.failure = "freed"]
        ELSE [Fill(s, p) EXCEPT !.freed = @ \cup {u}]

\* ilG_tex_build(): the pointer to the function is not looked at
TexBuild(s, p) ==
    IF s.failure # "none" THEN s
    ELSE CASE s.place[p].build = "none" -> [s EXCEPT !.failure = "null"]
           [] s.place[p].build = "cube" -> CubeBuild(s, p)
           [] s.place[p].build = "data" -> DataBuild(s, p)

\* Mutant of TexBind: the unit that is active is used
TexBindActive(s, t) ==
    IF ~t.complete THEN s ELSE [s EXCEPT !.bound[<<s.active, t.target>>] = t.object]

\* ilG_tex_bind(): an incomplete texture leaves what was bound
TexBind(s, t) ==
    IF ~t.complete THEN s
    ELSE [s EXCEPT !.active = t.unit, !.bound[<<t.unit, t.target>>] = t.object]

\* image_build()
ImageBuild(s) == IF s.haveTex THEN TexBuild(s, "image") ELSE s

\* sky_build(), heightmap_build(), legacy_build(), which builds no texture, and
\* image_build()
Build(s, r) == CASE r = "sky"   -> TexBuild(s, "sky")
                 [] r = "map"   -> TexBuild(TexBuild(TexBuild(s, "height"), "normal"), "color")
                 [] r = "model" -> s
                 [] r = "image" -> ImageBuild(s)

\* image_message(): the object of the last texture is lost
ImageMessage(s, t) == TexBuild([s EXCEPT !.place["image"] = t], "image")
-----------------------------------------------------------------------------
TexturesInit ==
    /\ cast \in Scenes
    /\ freed = {} /\ place = [p \in Place |-> Nil] /\ things = 1 /\ haveTex = FALSE
    /\ setting = Nil /\ context = {} /\ requests = <<>> /\ object = <<>> /\ active = 0
    /\ bound = [u \in Units |-> 0] /\ failure = "none"
    /\ wanted = 0 /\ given = {} /\ built = {} /\ careless = {}

\* A texture is given away to be built; another time is one too many
GiveAway(vs, twice) ==
    /\ given' = given \cup vs
    /\ careless' = IF twice \/ given \cap vs # {} THEN careless \cup {"shared"} ELSE careless

\* The textures of new renderers, each with the unit of its place
Give(which) ==
    /\ \A p \in DOMAIN which : place[p] = Nil
    /\ place' = [p \in Place |-> IF p \in DOMAIN which
                                 THEN [Value[which[p]] EXCEPT !.unit = Unit[p]]
                                 ELSE place[p]]
    /\ UNCHANGED <<cast, freed, things, haveTex, setting, context, requests, object, active, bound,
                   failure, wanted, built>>

\* ilG_skybox_new()
NewSkybox(v) ==
    Files[v] # "data" /\ Give([p \in {"sky"} |-> v]) /\ GiveAway({v}, FALSE)

\* ilG_heightmap_new()
NewHeightmap(height, normal, color) ==
    LET which == [height |-> height, normal |-> normal, color |-> color]
        vs    == {height, normal, color}
    IN  Give(which) /\ GiveAway(vs, Cardinality(vs) < 3)

\* ilG_renderer_addTexture()
AddTexture(v) ==
    Files[v] # "cube" /\ Give([p \in {"model"} |-> v]) /\ UNCHANGED <<given, careless>>

\* legacy_add_positionable()
AddPositionable ==
    /\ things = 1 /\ things' = 2
    /\ UNCHANGED <<cast, freed, place, haveTex, setting, context, requests, object, active, bound,
                   failure, wanted, given, built, careless>>

Send(m) == Len(requests) < MaxRequests /\ requests' = Append(requests, m)

\* ilG_gui_frame_image_setTex(): the context is looked at, and with one the
\* texture is sent
SetTex(v) ==
    /\ setting = Nil /\ Files[v] # "cube"
    /\ wanted' = Value[v].upload
    /\ GiveAway({v}, FALSE)
    /\ IF "image" \in context
       THEN Send([type |-> "tex", tex |-> Value[v]]) /\ UNCHANGED setting
       ELSE setting' = Value[v] /\ UNCHANGED requests
    /\ UNCHANGED <<cast, freed, place, things, haveTex, context, object, active, bound, failure, built>>

Careless(what, when) == careless' = IF when THEN careless \cup {what} ELSE careless

\* Without one the texture is copied; the image may have been built meanwhile
SetTexDirect ==
    /\ setting # Nil /\ setting' = Nil
    /\ Become([State EXCEPT !.place["image"] = setting, !.haveTex = TRUE])
    /\ Careless("late", "image" \in context)
    /\ UNCHANGED <<cast, things, context, requests, wanted, given, built>>

\* A script sets frame.context (demos/bouncing-lights/camera.lua)
SetContext ==
    /\ "image" \notin context /\ context' = context \cup {"image"}
    /\ Careless("late", haveTex)
    /\ UNCHANGED <<cast, freed, place, things, haveTex, setting, requests, object, active, bound,
                   failure, wanted, given, built>>

\* ilG_renderer_build(), which is not kept from building again
RequestBuild(r) ==
    /\ r \in {"image", "model"} \/ \A p \in PlacesOf[r] : place[p] # Nil
    /\ Send([type |-> "build", renderer |-> r])
    /\ UNCHANGED <<cast, freed, place, things, haveTex, setting, context, object, active, bound,
                   failure, wanted, given, built, careless>>

\* The next message of the render thread
Message ==
    LET m == Head(requests)
    IN  /\ requests # <<>> /\ requests' = Tail(requests) /\ Len(object) < MaxBuilds
        /\ IF m.type = "build"
           THEN /\ context' = context \cup {m.renderer}
                /\ Become(Build(State, m.renderer))
                /\ built' = built \cup {m.renderer}
                /\ Careless("again", m.renderer \in built)
           ELSE /\ Become(ImageMessage(State, m.tex))
                /\ UNCHANGED <<context, built, careless>>
        /\ UNCHANGED <<cast, things, setting, wanted, given>>

BindPlace(s, p) == TexBind(s, s.place[p])

\* The textures that are bound before the objects of a renderer are drawn
Bound(r) == CASE r = "sky" -> BindPlace(State, "sky")
              [] r = "map" -> BindPlace(BindPlace(BindPlace(State, "height"), "normal"), "color")
              [] r \in {"model", "image"} -> IF place[r] = Nil THEN State ELSE BindPlace(State, r)

\* sky_draw(), heightmap_draw(), legacy_draw(), image_draw(); the legacy renderer
\* takes, for each object, the texture of the object's number
Draw(r) ==
    /\ r \in built
    /\ IF r = "model" /\ things > 1 /\ place["model"] # Nil
       THEN Become([State EXCEPT !.failure = "outside"])
       ELSE Become(Bound(r))
    /\ UNCHANGED <<cast, things, setting, context, requests, wanted, given, built, careless>>

TexturesNext ==
    /\ failure = "none"
    /\ \/ \E v \in DOMAIN Files : \/ "sky" \in cast.renderers /\ NewSkybox(v)
                                  \/ "model" \in cast.renderers /\ AddTexture(v)
                                  \/ "image" \in cast.renderers /\ SetTex(v)
       \/ "map" \in cast.renderers /\ \E m \in cast.maps : NewHeightmap(m[1], m[2], m[3])
       \/ "model" \in cast.renderers /\ AddPositionable
       \/ "image" \in cast.renderers /\ (SetTexDirect \/ SetContext)
       \/ Message
       \/ \E r \in cast.renderers : RequestBuild(r) \/ Draw(r)

TexturesSpec == TexturesInit /\ [][TexturesNext]_textures
-----------------------------------------------------------------------------
TextureType == [build : {"none", "data", "cube"}, target : Target,
                upload : {0} \cup DOMAIN Files, unit : 0..2, object : Nat, complete : BOOLEAN]

TextureTypes ==
    /\ cast \in Scenes
    /\ freed \subseteq DOMAIN Files
    /\ place \in [Place -> TextureType \cup {Nil}] /\ setting \in TextureType \cup {Nil}
    /\ things \in 1..2 /\ haveTex \in BOOLEAN
    /\ context \subseteq Renderer /\ built \subseteq context
    /\ object \in Seq(DOMAIN Files) /\ active \in 0..2
    /\ bound \in [Units -> 0..Len(object)]
    /\ failure \in {"none", "null", "freed", "outside"}

\* Nothing is uploaded from memory that was freed (tex.c:152) as long as clients
\* give each texture they load away once, build each renderer once, and do not set
\* the context of an image or build it while it has a texture to be built.
UploadsLive == failure = "freed" => careless # {}

\* What is drawn next with a texture that was built samples the texture of that
\* very place, whatever other renderers bound before and builds left bound; those
\* of legacy renderers are never built (legacyrenderer.c:145).
SamplesOwn ==
    LET Content(r, p) ==
            LET o == Bound(r).bound[<<Unit[p], IF p = "sky" THEN "cube" ELSE "2D">>]
            IN  IF o = 0 THEN 0 ELSE object[o]
    IN  \A r \in built, p \in Place :
            p \in PlacesOf[r] /\ place[p] # Nil =>
                /\ place[p].complete => Content(r, p) = place[p].upload
                /\ r = "model" => ~place[p].complete

\* Once it has arrived, an image has the texture that was last set, complete, but
\* for one that is set while the image is being built (gui/image.c:105).
ImageShowsLast ==
    LET arrived == setting = Nil /\ \A i \in DOMAIN requests : requests[i].type # "tex"
    IN  failure = "none" /\ wanted # 0 /\ "image" \in built /\ arrived /\ "late" \notin careless
            => place["image"].complete /\ place["image"].upload = wanted

\* What tex.c and its clients promise of textures that are passed on by value
TexturesReachOwners == UploadsLive /\ SamplesOwn /\ ImageShowsLast
=============================================================================

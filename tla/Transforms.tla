------------------------------ MODULE Transforms ------------------------------
(***************************************************************************)
(* Vectors, quaternions and matrices (math/) and what the graphics makes   *)
(* of them: the matrices a material gets for a camera and an object        *)
(* (ilG_computeMVP).  Floats are the integers modulo a prime, where sums,  *)
(* products and quotients are exact and the roots of 2 and 3 exist: what   *)
(* holds here holds up to rounding.                                        *)
(***************************************************************************)
EXTENDS Integers, Sequences, SequencesExt, FiniteSets, FiniteSetsExt

CONSTANTS Q,            \* the prime
          Position,     \* where cameras and objects are put
          Size,         \* of objects
          Projection,   \* what perspective() is called with: one over the
                        \* tangent, aspect, near and far plane
          Turner        \* [{"camera", "object"} -> SUBSET Axis]: who turns how

VARIABLES pose,         \* positions, rotations and sizes in the world
          projection,   \* the matrix of the camera
          axes          \* history: where the axes of camera and object point

transforms == <<pose, projection, axes>>

Inv(x) == CHOOSE y \in 1..(Q - 1) : (x * y) % Q = 1
RootOf(x)  == CHOOSE y \in 1..(Q \div 2) : (y * y) % Q = x

Who  == {"camera", "object"}
Axis == 1..3
Unit(a) == [i \in 1..3 |-> IF i = a THEN 1 ELSE 0]
-----------------------------------------------------------------------------
(***************************************************************************)
(* Vectors of three or four, and quaternions <<x, y, z, w>>                *)
(***************************************************************************)
Four(Of(_)) == <<Of(1), Of(2), Of(3), Of(4)>>
Each(u, Of(_)) == IF Len(u) = 3 THEN <<Of(1) % Q, Of(2) % Q, Of(3) % Q>>
                  ELSE Four(LAMBDA i : Of(i) % Q)

Add(u, v)    == Each(u, LAMBDA i : u[i] + v[i])
Times(u, v)  == Each(u, LAMBDA i : u[i] * v[i])
Scaled(u, f) == Each(u, LAMBDA i : u[i] * f)
Neg(u) == Scaled(u, -1)
Dot(u, v) == (u[1] * v[1] + u[2] * v[2] + u[3] * v[3] + (IF Len(u) = 3 THEN 0 ELSE u[4] * v[4])) % Q

Cross(a, b) == << (a[2] * b[3] - b[2] * a[3]) % Q,
                  (a[3] * b[1] - b[3] * a[1]) % Q,
                  (a[1] * b[2] - b[1] * a[2]) % Q >>

ToVec4(v, w) == Append(v, w)

QuatMul(a, b) ==
    << (a[4]*b[1] + a[1]*b[4] + a[2]*b[3] - a[3]*b[2]) % Q,
       (a[4]*b[2] + a[2]*b[4] + a[3]*b[1] - a[1]*b[3]) % Q,
       (a[4]*b[3] + a[3]*b[4] + a[1]*b[2] - a[2]*b[1]) % Q,
       (a[4]*b[4] - a[1]*b[1] - a[2]*b[2] - a[3]*b[3]) % Q >>

NoTurn == <<0, 0, 0, 1>>

Normalize(q) == IF Dot(q, q) = 0 THEN NoTurn
                ELSE Scaled(q, Inv(RootOf(Dot(q, q))))

\* il_quat_fromAxisAngle() for a quarter turn: the sine and the cosine of its
\* half are one over the root of 2
FromAxisQuarter(a) == Normalize(ToVec4(Scaled(Unit(a), Inv(RootOf(2))), Inv(RootOf(2))))

\* il_vec3_rotate()
Rotate(v, q) ==
    LET qv == SubSeq(q, 1, 3)
        uv == Cross(qv, v)
    IN  Add(Add(v, Scaled(uv, 2 * q[4])), Scaled(Cross(qv, uv), 2))
-----------------------------------------------------------------------------
(***************************************************************************)
(* Matrices, as rows                                                       *)
(***************************************************************************)
Ix == 1..4
Square(Of(_, _)) == Four(LAMBDA r : Four(LAMBDA c : Of(r, c)))
Diagonal(d) == Square(LAMBDA r, c : IF r = c THEN d[r] ELSE 0)
Identity == Diagonal(<<1, 1, 1, 1>>)

Scale(v) == Diagonal(v)
Translate(v) == Square(LAMBDA r, c : IF c = 4 THEN v[r] ELSE Identity[r][c])
Transpose(m) == Square(LAMBDA r, c : m[c][r])
Mul(a, b)  == Square(LAMBDA r, c : Dot(a[r], Four(LAMBDA k : b[k][c])))
MulV(m, v) == Four(LAMBDA r : Dot(m[r], v))

\* il_mat_rotate()
RotateMat(q) ==
    LET x == q[1]  y == q[2]  z == q[3]  w == q[4]
    IN  << << (1 - 2*y*y - 2*z*z) % Q, (2*x*y + 2*w*z) % Q, (2*x*z - 2*w*y) % Q, 0 >>,
           << (2*x*y - 2*w*z) % Q, (1 - 2*x*x - 2*z*z) % Q, (2*y*z + 2*w*x) % Q, 0 >>,
           << (2*x*z + 2*w*y) % Q, (2*y*z - 2*w*x) % Q, (1 - 2*x*x - 2*y*y) % Q, 0 >>,
           << 0, 0, 0, 1 >> >>

\* il_mat_perspective(), f being one over the tangent of half the angle
Perspective(p) ==
    LET d == Inv((p.near - p.far) % Q)
    IN  << << (p.f * Inv(p.aspect)) % Q, 0, 0, 0 >>, << 0, p.f, 0, 0 >>,
           << 0, 0, ((p.far + p.near) * d) % Q, (2 * p.far * p.near * d) % Q >>,
           << 0, 0, Q - 1, 0 >> >>

\* il_mat_invert() does to the rows of the identity, which stand beside those
\* of the matrix, what it does to them
Beside(m) == Four(LAMBDA r : <<m[r], Identity[r]>>)

SwapRows(m, r, c) == [m EXCEPT ![r] = m[c], ![c] = m[r]]
AddRow(m, src, dst, f) == Four(LAMBDA r : IF r # dst THEN m[r]
                                          ELSE << Add(m[dst][1], Scaled(m[src][1], f)),
                                                  Add(m[dst][2], Scaled(m[src][2], f)) >>)
MulRow(m, r, f) == [m EXCEPT ![r] = <<Scaled(@[1], f), Scaled(@[2], f)>>]

\* Its hunt for a better diagonal: every other row that has a number in the
\* column is swapped in, those above too
Hunt(m, c) ==
    IF m[c][1][c] # 0 THEN m
    ELSE FoldLeft(LAMBDA n, r : IF r # c /\ n[r][1][c] # 0 THEN SwapRows(n, r, c) ELSE n,
                  m, <<1, 2, 3, 4>>)

\* One column: subtract the row of the diagonal from the others, bring the
\* diagonal to 1
Clear(m, c) ==
    LET d == Inv(m[c][1][c])
        cleared == FoldLeft(LAMBDA n, r : IF r = c THEN n ELSE AddRow(n, c, r, -n[r][1][c] * d),
                            m, <<1, 2, 3, 4>>)
    IN  MulRow(cleared, c, d)

Invert(m) ==
    LET done == FoldLeft(LAMBDA n, c : Clear(Hunt(n, c), c), Beside(m), <<1, 2, 3, 4>>)
    IN  Four(LAMBDA r : done[r][2])
-----------------------------------------------------------------------------
VIEW  == {"VIEW_R", "VIEW_T"}
VP    == VIEW \cup {"PROJECTION"}
MODEL == {"MODEL_T", "MODEL_R", "MODEL_S"}

\* Mutant of Factors: the camera is moved first and turned then
FactorsSwapped(filter) ==
    << <<"PROJECTION", projection>>,
       <<"VIEW_T",  Translate(ToVec4(Neg(pose["camera"].position), 1))>>,
       <<"VIEW_R",  RotateMat(pose["camera"].rotation)>>,
       <<"MODEL_T", Translate(ToVec4(pose["object"].position, 1))>>,
       <<"MODEL_R", RotateMat(pose["object"].rotation)>>,
       <<"MODEL_S", Scale(ToVec4(pose["object"].size, 1))>> >>

\* What ilG_computeMVP() multiplies, as far as the filter names it
Factors(filter) ==
    << <<"PROJECTION", projection>>,
       <<"VIEW_R",  RotateMat(pose["camera"].rotation)>>,
       <<"VIEW_T",  Translate(ToVec4(Neg(pose["camera"].position), 1))>>,
       <<"MODEL_T", Translate(ToVec4(pose["object"].position, 1))>>,
       <<"MODEL_R", RotateMat(pose["object"].rotation)>>,
       <<"MODEL_S", Scale(ToVec4(pose["object"].size, 1))>> >>

ComputeMVP(filter) ==
    LET product == FoldLeft(LAMBDA m, f : IF f[1] \in filter THEN Mul(m, f[2]) ELSE m,
                            Identity, Factors(filter))
        inverse == IF "INVERSE" \in filter THEN Invert(product) ELSE product
    IN  IF "TRANSPOSE" \in filter THEN Transpose(inverse) ELSE inverse
-----------------------------------------------------------------------------
Init ==
    /\ pose = [w \in Who |-> [position |-> <<0, 0, 0>>, rotation |-> NoTurn, size |-> <<1, 1, 1>>]]
    /\ projection = Identity
    /\ axes = [w \in Who |-> [i \in Axis |-> Unit(i)]]

\* il_positionable_setPosition()
SetPosition(w, v) ==
    /\ pose' = [pose EXCEPT ![w].position = v]
    /\ UNCHANGED <<projection, axes>>

\* il_positionable_setSize()
SetSize(v) ==
    /\ pose' = [pose EXCEPT !["object"].size = v]
    /\ UNCHANGED <<projection, axes>>

\* ilG_camera_setMatrix(matrix.perspective(...))
SetMatrix(p) ==
    /\ projection' = Perspective(p)
    /\ UNCHANGED <<pose, axes>>

\* The right-handed quarter turn about an axis takes the next one to the one
\* after it
Next3(a) == (a % 3) + 1
Turned(f, a) == [f EXCEPT ![Next3(a)] = f[Next3(Next3(a))],
                          ![Next3(Next3(a))] = Neg(f[Next3(a)])]

\* il_positionable_setRotation(rotation * quaternion(axis, pi/2))
Turn(w, a) ==
    /\ pose' = [pose EXCEPT ![w].rotation = QuatMul(@, FromAxisQuarter(a))]
    /\ axes' = [axes EXCEPT ![w] = Turned(@, a)]
    /\ UNCHANGED projection

Next ==
    \/ \E w \in Who : \/ \E v \in Position : SetPosition(w, v)
                      \/ \E a \in Turner[w] : Turn(w, a)
    \/ \E v \in Size : SetSize(v)
    \/ \E p \in Projection : SetMatrix(p)

Spec == Init /\ [][Next]_transforms
-----------------------------------------------------------------------------
Residue == 0..(Q - 1)

TransformTypes ==
    /\ \A w \in Who : /\ pose[w].position \in [1..3 -> Residue]
                      /\ pose[w].rotation \in [1..4 -> Residue]
                      /\ pose[w].size \in [1..3 -> Residue]
    /\ \A r \in Ix : projection[r] \in [Ix -> Residue]

\* Points to look at: the corners of a tetrahedron
Point == {<<0, 0, 0>>, <<1, 0, 0>>, <<0, 1, 0>>, <<0, 0, 1>>}

(***************************************************************************)
(* However often something is turned about its own axes, its quaternion    *)
(* takes the axes where the turns took them, one after the other.          *)
(***************************************************************************)
RotationFollowsTurns ==
    \A w \in Who, i \in Axis : Rotate(Unit(i), pose[w].rotation) = axes[w][i]

(***************************************************************************)
(* The view is the inverse of the pose of the camera: what stands where    *)
(* the camera's position and il_vec3_rotate() put it in the world comes to *)
(* its own place in front of the camera.  The matrix of a quaternion turns *)
(* back what il_vec3_rotate() turns, and no inverse is taken.              *)
(***************************************************************************)
ViewUndoesPose ==
    LET view == ComputeMVP(VIEW)
        cam  == pose["camera"]
    IN  \A v \in Point :
            MulV(view, ToVec4(Add(cam.position, Rotate(v, cam.rotation)), 1)) = ToVec4(v, 1)

(***************************************************************************)
(* A point of a model comes to the place of the object, scaled first, then *)
(* turned, the way back from il_vec3_rotate(), then moved.                 *)
(***************************************************************************)
ModelPlacesPoints ==
    LET model == ComputeMVP(MODEL)
        obj   == pose["object"]
        back  == [Neg(obj.rotation) EXCEPT ![4] = obj.rotation[4]]
    IN  \A v \in Point :
            MulV(model, ToVec4(v, 1)) =
                ToVec4(Add(obj.position, Rotate(Times(v, obj.size), back)), 1)

(***************************************************************************)
(* The light pass gets back the world from the screen by the inverse of VP *)
(* (lightpass.c:241), and the heightmap takes normals by the transposed    *)
(* inverse of MODEL (heightmap.c:207): they stay at right angles.          *)
(***************************************************************************)
InverseUndoes ==
    /\ Mul(ComputeMVP(VP \cup {"INVERSE"}), ComputeMVP(VP)) = Identity
    /\ Mul(Transpose(ComputeMVP(MODEL \cup {"INVERSE", "TRANSPOSE"})), ComputeMVP(MODEL)) = Identity
=============================================================================

-------------------------------- MODULE Images --------------------------------
(***************************************************************************)
(* Images (asset/image.c, asset/h2n.c) and how their pixels are uploaded   *)
(* (graphics/tex.c).  A cell is a component of a pixel: a byte, or a       *)
(* number of a normal.  Cells are tuples; only where they go matters.      *)
(***************************************************************************)
EXTENDS Integers, Sequences, FiniteSets, FiniteSetsExt

CONSTANTS Picture,      \* the images that are loaded, [channels, width, height]
          Size,         \* the sizes they are given, <<width, height>>
          Wanted,       \* the channels that are asked for
          Mask,         \* the masks of swizzles: for each channel, a set of sources
          MaxSteps      \* bound: operations on an image

R == 1  G == 2  B == 3  A == 4
Channel == 1..4         \* ILA_IMG_R to ILA_IMG_A

VARIABLES img,          \* the image
          meaning,      \* history: what its channels should be, at each place
          off,          \* history: why they are not
          outside,      \* history: what wrote outside the memory of an image, if anything
          steps         \* history: operations so far

images == <<img, meaning, off, outside, steps>>

Blank == <<0>>

Xs(i) == 0..(i.width - 1)
Ys(i) == 0..(i.height - 1)
-----------------------------------------------------------------------------
\* compute_bpp(): in cells
Bpp(i) == Cardinality(i.channels)

\* Cells before the pixel at x and y
Offset(i, x, y) == Bpp(i) * (y * i.width + x)

\* Which cell of a pixel a channel is
Rank(channels, c) == Cardinality({d \in channels : d <= c})

\* decompose_pixel(): the channels at a place, with 0 where there is none
Decompose(i, x, y) ==
    [c \in Channel |-> IF c \in i.channels THEN i.data[Offset(i, x, y) + Rank(i.channels, c)]
                       ELSE Blank]

\* The image of a size whose pixels are as in At(x, y), put together as by
\* compose_pixel()
Compose(channels, width, height, depth, At(_, _)) ==
    LET n == Cardinality(channels)
        Nth(k) == CHOOSE c \in channels : Rank(channels, c) = k
    IN  [channels |-> channels, width |-> width, height |-> height, depth |-> depth,
         fp |-> depth = 32,
         data |-> [k \in 1..(n * width * height) |->
                     LET pixel == (k - 1) \div n
                     IN  At(pixel % width, pixel \div width)[Nth(((k - 1) % n) + 1)]]]

\* nearest_sample(): where a pixel is taken from
NearestSample(sample, w, h, x, y) == <<(x * sample.width) \div w, (y * sample.height) \div h>>

\* sample_pixel(): the source goes on only over channels that are asked for
SamplePixel(i, x, y, channels) ==
    [c \in Channel |->
        IF c \in i.channels /\ c \in channels
        THEN i.data[Offset(i, x, y) + Rank(i.channels \cap channels, c)]
        ELSE Blank]

\* ilA_img_resize(): of the two ways that image.h:28 names only the nearest pixel
\* is implemented; by the other the image stays as calloc() left it
Interpolation == {"nearest", "linear"}

Chosen(i, w, h, up, down) == IF w > i.width /\ h > i.height THEN up ELSE down

Resized(i, w, h, interp, channels) ==
    Compose(channels, w, h, 8,
            LAMBDA x, y : LET at == NearestSample(i, w, h, x, y)
                          IN  IF interp = "nearest" THEN SamplePixel(i, at[1], at[2], channels)
                              ELSE [c \in Channel |-> Blank])

\* Mutant of BitmatMulv: the last source of a row is taken
BitmatMulvLast(mask, col) ==
    [c \in Channel |-> IF mask[c] = {} THEN Blank ELSE col[Max(mask[c])]]

\* bitmat_mulv(): the first source of a row is taken
BitmatMulv(mask, col) == [c \in Channel |-> IF mask[c] = {} THEN Blank ELSE col[Min(mask[c])]]

\* ilA_img_swizzle()
Swizzled(i, mask) ==
    Compose(i.channels, i.width, i.height, 8,
            LAMBDA x, y : BitmatMulv(mask, Decompose(i, x, y)))

\* ilA_img_bgra_to_rgba(), of four channels
Turned(i) ==
    Compose(i.channels, i.width, i.height, 8,
            LAMBDA x, y : LET c == Decompose(i, x, y) IN <<c[B], c[G], c[R], c[A]>>)

\* ilA_img_height_to_normal(): a normal comes from three pixels.  What is taken
\* for a height are all channels of a pixel.
Height(i, x, y) == [k \in 1..Bpp(i) |-> i.data[Offset(i, x, y) + k]]

Normal(heights) == [c \in Channel |-> <<heights, c>>]

\* The loop over rows ends at the width
Normals(i) ==
    Compose({R, G, B}, i.width - 1, i.height - 1, 32,
            LAMBDA x, y : IF y < i.width - 1
                          THEN Normal(<<Height(i, x + 1, y + 1), Height(i, x, y + 1),
                                        Height(i, x + 1, y)>>)
                          ELSE [c \in Channel |-> Blank])

\* getImgType()
ImgType(i) == IF i.fp THEN "float" ELSE IF i.depth = 8 THEN "byte" ELSE "int"

\* getImgFormat() and getImgIFormat(): how many cells OpenGL takes for
\* a texel, or none
ImgFormat(i) == CASE i.channels = {R} -> 1
                  [] i.channels = {R, G} -> 2
                  [] i.channels = {R, G, B} -> 3
                  [] i.channels = {R, G, B, A} -> 4
                  [] OTHER -> 0

\* glTexImage2D(): rows begin at multiples of four bytes (GL_UNPACK_ALIGNMENT);
\* numbers of normals have four bytes.  The first cell of a row.
RowAt(i, y) == LET cells == ImgFormat(i) * i.width
               IN  y * (IF i.depth = 32 THEN cells ELSE 4 * ((cells + 3) \div 4))

\* The cells that come to a texel
Texel(i, x, y) == [k \in 1..ImgFormat(i) |-> RowAt(i, y) + ImgFormat(i) * x + k]
-----------------------------------------------------------------------------
\* read_png(), ilA_img_fromdata(): every cell is another
Loaded(p) ==
    LET n == Cardinality(p.channels)
    IN  [channels |-> p.channels, width |-> p.width, height |-> p.height, depth |-> 8,
         fp |-> FALSE,
         data |-> [k \in 1..(n * p.width * p.height) |-> <<k>>]]

Meant(i) == [p \in Xs(i) \X Ys(i) |-> Decompose(i, p[1], p[2])]

\* The cells that are written at the pixels xs and ys of an image of n cells each
Cells(n, width, xs, ys, each) == {n * (y * width + x) + k : x \in xs, y \in ys, k \in 1..each}

\* All cells of an image
All(i) == Cells(Bpp(i), i.width, Xs(i), Ys(i), Bpp(i))

\* read_png() allocates as many rows as the image has columns; ilA_img_fromdata()
\* as many as it has rows
ImagesInit == /\ \E p \in Picture, png \in BOOLEAN :
                     LET rows == IF png THEN p.width ELSE p.height
                     IN  /\ img = Loaded(p)
                         /\ outside = IF All(img) \subseteq 1..(Bpp(img) * img.width * rows)
                                      THEN "none" ELSE "png"
              /\ meaning = Meant(img)
              /\ off = {} /\ steps = 0

\* What an operation makes, which cells it writes, what the image should mean, and
\* why it does not
Become(op, new, written, means, why) ==
    /\ steps < MaxSteps
    /\ IF written \subseteq DOMAIN new.data
       THEN /\ img' = new /\ meaning' = means /\ off' = off \cup why
            /\ steps' = steps + 1 /\ UNCHANGED outside
       ELSE outside' = op /\ UNCHANGED <<img, meaning, off, steps>>

\* ilA_img_copy(), which forgets that cells are floats
Copy == Become("copy", [img EXCEPT !.fp = FALSE], All(img), meaning,
               IF img.fp THEN {"fp"} ELSE {})

\* ilA_img_resize(): a channel that is there and not wanted puts those after it off
Resize(w, h, up, down, channels) ==
    LET interp == Chosen(img, w, h, up, down)
        new == Resized(img, w, h, interp, channels)
        Skipped == \E c \in img.channels \ channels : \E d \in img.channels \cap channels : c < d
    IN  /\ img.depth = 8
        /\ Become("resize", new, IF interp = "nearest" THEN All(new) ELSE {},
                  [p \in (0..(w - 1)) \X (0..(h - 1)) |->
                     LET from == meaning[<<(p[1] * img.width) \div w, (p[2] * img.height) \div h>>]
                     IN  [c \in Channel |-> IF c \in channels THEN from[c] ELSE Blank]],
                  (IF interp = "linear" THEN {"linear"} ELSE {})
                  \cup (IF interp = "nearest" /\ Skipped THEN {"skipped"} ELSE {}))

Swizzle(mask) ==
    /\ img.depth = 8
    /\ Become("swizzle", Swizzled(img, mask), All(img),
              [p \in DOMAIN meaning |->
                 [c \in Channel |->
                    IF c \notin img.channels \/ mask[c] = {} THEN Blank
                    ELSE meaning[p][CHOOSE d \in mask[c] : \A e \in mask[c] : d <= e]]],
              {})

\* ilA_img_bgra_to_rgba() writes four cells at each pixel, however many it has
BgraToRgba ==
    /\ img.depth = 8
    /\ Become("bgra", Turned(img), Cells(Bpp(img), img.width, Xs(img), Ys(img), 4),
              [p \in DOMAIN meaning |-> <<meaning[p][B], meaning[p][G], meaning[p][R],
                                          meaning[p][A]>>], {})

\* The loop writes as many rows as the image has columns, less one
HeightToNormal ==
    LET Red(x, y) == <<meaning[<<x, y>>][R]>>
        square == 0..(img.width - 2)
    IN  /\ img.depth = 8 /\ R \in img.channels /\ img.width > 1 /\ img.height > 1
        /\ Become("normals", Normals(img), Cells(3, img.width - 1, square, square, 3),
                  [p \in square \X (0..(img.height - 2)) |->
                     [Normal(<<Red(p[1] + 1, p[2] + 1), Red(p[1], p[2] + 1),
                               Red(p[1] + 1, p[2])>>) EXCEPT ![A] = Blank]],
                  (IF img.height > img.width THEN {"rows"} ELSE {})
                  \cup (IF Bpp(img) > 1 THEN {"wide"} ELSE {}))

ImagesNext == /\ outside = "none"
              /\ \/ Copy \/ BgraToRgba \/ HeightToNormal
                 \/ \E s \in Size, up, down \in Interpolation, channels \in Wanted :
                        Resize(s[1], s[2], up, down, channels)
                 \/ \E mask \in Mask : Swizzle(mask)

ImagesSpec == ImagesInit /\ [][ImagesNext]_images
-----------------------------------------------------------------------------
ImageTypes ==
    /\ img.channels \subseteq Channel /\ img.fp \in BOOLEAN
    /\ DOMAIN img.data = 1..(Bpp(img) * img.width * img.height)
    /\ DOMAIN meaning = Xs(img) \X Ys(img)
    /\ off \subseteq {"fp", "linear", "skipped", "rows", "wide"}
    /\ outside \in {"none", "png", "copy", "resize", "swizzle", "bgra", "normals"}
    /\ steps \in 0..MaxSteps

\* After any operations an image has at each place and in each channel what their
\* meanings make of the first image, but after a resize by ILA_IMG_LINEAR, which
\* leaves the image blank (image.c:242), or one that leaves out a channel before
\* another (image.c:170), and for normals of images that are higher than wide or of
\* more than one channel (h2n.c:18, 24).
ColoursFollow == off \subseteq {"fp"} => Meant(img) = meaning

\* If a texture format is found for an image its texels are its pixels, as long as
\* its rows are multiples of four bytes; if they are not, texels after the first
\* row come from elsewhere, at last from behind the image (tex.c:105).  Their numbers
\* are read as what they are, but for copies of normals (image.c:138).
TexelsArePixels ==
    LET Wrong == {p \in Xs(img) \X Ys(img) :
                    Texel(img, p[1], p[2])
                        # [k \in 1..Bpp(img) |-> Offset(img, p[1], p[2]) + k]}
    IN  ImgFormat(img) # 0 =>
            /\ "fp" \notin off => ImgType(img) = (IF img.depth = 8 THEN "byte" ELSE "float")
            /\ IF img.depth = 32 \/ (Bpp(img) * img.width) % 4 = 0 THEN Wrong = {}
               ELSE Wrong = Xs(img) \X (1..(img.height - 1))

\* Nothing is written outside the memory of an image, but by reading a PNG that is
\* higher than wide (image.c:82), by turning pixels of less than four channels
\* (image.c:321), and by making normals of an image that is wider than high
\* (h2n.c:18).
WritesInside ==
    \/ outside = "none"
    \/ outside = "png" /\ img.height > img.width
    \/ outside = "bgra" /\ Bpp(img) < 4
    \/ outside = "normals" /\ img.width > img.height
=============================================================================

------------------------------- MODULE Demosaic -------------------------------
(***************************************************************************)
(* write_praa_color_ppm as a computation: the packed 10-bit Bayer frame of *)
(* the camera is unpacked to 8 bits and turned into colours row by row.    *)
(* What it acquires and how its file gets to the disk is in Storage.  The  *)
(* scene is what the sensor saw; the frame is the scene packed by the      *)
(* device, or bytes of any other length it may have delivered.             *)
(***************************************************************************)
EXTENDS Integers, Sequences

CONSTANTS
  Widths, Heights,    \* sizes of the images
  Scenes(_, _),       \* the 10-bit samples of a size, by column and row
  Paddings,           \* bytes a row is longer than its samples need
  Shortages           \* bytes missing at the end of the frame

Columns(w) == 0 .. w - 1
Samples(w, h) == [Columns(w) \X Columns(h) -> 0 .. 1023]

ASSUME SizeAssumption == Widths \subseteq Nat /\ Heights \subseteq Nat
ASSUME SceneAssumption ==
  \A w \in Widths, h \in Heights : Scenes(w, h) \subseteq Samples(w, h)
ASSUME DeviceAssumption == Paddings \subseteq Int /\ Shortages \subseteq Int

VARIABLES
  scene,        \* the 10-bit samples, by column and row
  frame,        \* camera_image_t
  step,         \* "check", "unpack", "rows", "done" or "rejected"
  raw8,         \* the unpacked samples
  rows          \* the rows of colours written so far

colour_vars == <<scene, frame, step, raw8, rows>>

Outside == -1     \* what a read outside of the frame yields

-----------------------------------------------------------------------------
(* The camera. *)

MinimumRowBytes(w) == (w \div 4) * 5

Filler == 170     \* what is in a frame and is not part of the scene

\* Four samples take five bytes, the last of which holds their lowest bits.
PackedByte(s, w, h, stride, i) ==
  LET y == i \div stride
      o == i % stride
      low(k) == s[<<4 * (o \div 5) + k, y>>] % 4
  IN  CASE o >= MinimumRowBytes(w) \/ y >= h -> Filler
        [] o < MinimumRowBytes(w) /\ y < h /\ o % 5 < 4 ->
             s[<<4 * (o \div 5) + (o % 5), y>>] \div 4
        [] OTHER -> low(0) + 4 * low(1) + 16 * low(2) + 64 * low(3)

\* A frame, with its stride told or not.  A scene that does not fit into rows of
\* the stride, or is not a multiple of four wide, is not in it.
Frame(s, w, h, padding, told, shortage) ==
  LET stride == MinimumRowBytes(w) + padding
      size == IF stride * h > shortage THEN stride * h - shortage ELSE 0
  IN  [width |-> w, height |-> h, size |-> size,
       bytesperline |-> IF told THEN stride ELSE 0,
       data |-> [i \in 0 .. size - 1 |->
                   IF w % 4 = 0 /\ w > 0 /\ padding >= 0
                   THEN PackedByte(s, w, h, stride, i) ELSE Filler]]

\* A device whose rows are not the shortest tells their stride; zero tells nothing.
ColourInit ==
  /\ \E w \in Widths, h \in Heights, padding \in Paddings, told \in BOOLEAN,
        shortage \in Shortages :
       /\ padding = 0 \/ (told /\ MinimumRowBytes(w) + padding > 0)
       /\ scene \in Scenes(w, h)
       /\ frame = Frame(scene, w, h, padding, told, shortage)
  /\ step = "check" /\ raw8 = <<>> /\ rows = <<>>

-----------------------------------------------------------------------------
(* The program. *)

Stride == IF frame.bytesperline # 0 THEN frame.bytesperline
                                    ELSE MinimumRowBytes(frame.width)

\* Mutant: the padding of the rows is forgotten.
FitsUnpadded(stride) == MinimumRowBytes(frame.width) * frame.height <= frame.size
Fits(stride) == /\ stride >= MinimumRowBytes(frame.width)
                /\ stride * frame.height <= frame.size

Check ==
  /\ step = "check"
  /\ step' = IF frame.width = 0 \/ frame.height = 0 \/ frame.width % 4 # 0
                \/ ~Fits(Stride)
             THEN "rejected" ELSE "unpack"
  /\ UNCHANGED <<scene, frame, raw8, rows>>

Byte(i) == IF i \in 0 .. frame.size - 1 THEN frame.data[i] ELSE Outside

InputOffset(x) == 5 * (x \div 4)

Unpack ==
  /\ step = "unpack" /\ step' = "rows"
  /\ raw8' = [p \in Columns(frame.width) \X Columns(frame.height) |->
                Byte(p[2] * Stride + InputOffset(p[1]) + (p[1] % 4))]
  /\ UNCHANGED <<scene, frame, rows>>

Clamped(n, limit) == IF n < 0 THEN 0 ELSE IF n >= limit THEN limit - 1 ELSE n

\* get_pixel
Pixel(x, y) == raw8[<<Clamped(x, frame.width), Clamped(y, frame.height)>>]

Horizontal(x, y) == (Pixel(x - 1, y) + Pixel(x + 1, y)) \div 2
Vertical(x, y) == (Pixel(x, y - 1) + Pixel(x, y + 1)) \div 2
Cross(x, y) == (Pixel(x - 1, y) + Pixel(x + 1, y)
                 + Pixel(x, y - 1) + Pixel(x, y + 1)) \div 4

\* Mutant: the sum of four is halved.
DiagonalHalved(x, y) == (Pixel(x - 1, y - 1) + Pixel(x + 1, y - 1)
                          + Pixel(x - 1, y + 1) + Pixel(x + 1, y + 1)) \div 2
Diagonal(x, y) == (Pixel(x - 1, y - 1) + Pixel(x + 1, y - 1)
                    + Pixel(x - 1, y + 1) + Pixel(x + 1, y + 1)) \div 4

\* Mutant: the green pixels of both kinds of rows are treated alike.
GreenAlike(x, y) ==
  [r |-> Horizontal(x, y), g |-> Pixel(x, y), b |-> Vertical(x, y)]
\* A green pixel has red beside it in even rows, above and below it in odd ones.
Green(x, y) ==
  IF y % 2 = 0
  THEN [r |-> Horizontal(x, y), g |-> Pixel(x, y), b |-> Vertical(x, y)]
  ELSE [r |-> Vertical(x, y), g |-> Pixel(x, y), b |-> Horizontal(x, y)]

Colours(x, y) ==
  CASE y % 2 = 0 /\ x % 2 = 0 ->
         [r |-> Pixel(x, y), g |-> Cross(x, y), b |-> Diagonal(x, y)]
    [] y % 2 = 1 /\ x % 2 = 1 ->
         [r |-> Diagonal(x, y), g |-> Cross(x, y), b |-> Pixel(x, y)]
    [] OTHER -> Green(x, y)

WriteRow ==
  /\ step = "rows" /\ Len(rows) < frame.height
  /\ rows' = Append(rows, [x \in Columns(frame.width) |-> Colours(x, Len(rows))])
  /\ UNCHANGED <<scene, frame, step, raw8>>

Finish ==
  /\ step = "rows" /\ Len(rows) = frame.height
  /\ step' = "done"
  /\ UNCHANGED <<scene, frame, raw8, rows>>

ColourNext == Check \/ Unpack \/ WriteRow \/ Finish

ColourSpec == ColourInit /\ [][ColourNext]_colour_vars

-----------------------------------------------------------------------------

\* No byte outside of the frame is read, whatever stride and size the device
\* reports and however short its frame is.
ReadsInFrame ==
  step \in {"rows", "done"} => \A p \in DOMAIN raw8 : raw8[p] # Outside

\* The colour the sensor's filter lets through at a place.
FilterColour(p) ==
  CASE p[1] % 2 = 0 /\ p[2] % 2 = 0 -> "r"
    [] p[1] % 2 = 1 /\ p[2] % 2 = 1 -> "b"
    [] OTHER -> "g"

Neighbourhood(x, y) == {<<x + i, y + j>> : i \in -1 .. 1, j \in -1 .. 1}

\* The samples of a colour that are nearest to a place: its own, or those next to it.
Nearest(colour, x, y) ==
  {p \in Neighbourhood(x, y) :
     FilterColour(p) = colour /\ (FilterColour(<<x, y>>) = colour => p = <<x, y>>)}

\* The sum over a neighbourhood, row by row.
RowTotal(f, x, y) == f[<<x - 1, y>>] + f[<<x, y>>] + f[<<x + 1, y>>]
Total(f, x, y) == RowTotal(f, x, y - 1) + RowTotal(f, x, y) + RowTotal(f, x, y + 1)

\* The mean of the upper eight bits of the nearest samples of a colour.
Interpolated(colour, x, y) ==
  LET values == [p \in Neighbourhood(x, y) |->
                   IF p \in Nearest(colour, x, y) THEN scene[p] \div 4 ELSE 0]
      number == [p \in Neighbourhood(x, y) |->
                   IF p \in Nearest(colour, x, y) THEN 1 ELSE 0]
  IN  Total(values, x, y) \div Total(number, x, y)

\* Away from the border every colour of a pixel comes from the nearest samples
\* of that colour and no other.
ColoursExact ==
  \A n \in DOMAIN rows :
    \A x \in 1 .. frame.width - 2 :
      n - 1 \in 1 .. frame.height - 2 =>
        \A colour \in {"r", "g", "b"} :
          rows[n][x][colour] = Interpolated(colour, x, n - 1)

\* Everywhere, the border with its clamped (and wrongly coloured) neighbours
\* included, a colour lies between two of the samples around: no mean overflows
\* its byte.
ColoursBounded ==
  \A n \in DOMAIN rows :
    \A x \in DOMAIN rows[n] :
      \A colour \in {"r", "g", "b"} :
        \E p, q \in Neighbourhood(x, n - 1) \cap DOMAIN scene :
          rows[n][x][colour] \in scene[p] \div 4 .. scene[q] \div 4

=============================================================================

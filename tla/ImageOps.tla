------------------------------ MODULE ImageOps ------------------------------
(***************************************************************************)
(* What the image threads compute on a frame (green_mask.c,                *)
(* calculate_com in com_calculator.c): threshold by hue, erode, dilate,    *)
(* remove small blobs, center of mass.  GreenMaskQueue has the threads and *)
(* the queue between them.                                                 *)
(*                                                                         *)
(* A mask is the set of its white pixels <<x, y>>.  The loops over all     *)
(* pixels are sets; the search of filter_small_blobs, whose queue, labels  *)
(* and early return matter, is done step by step.                          *)
(***************************************************************************)
EXTENDS Integers, FiniteSets, SequencesExt

CONSTANTS WIDTH, HEIGHT,
          MAX_LABELS,         \* labels of blobs, 0 is for none (10000)
          MinSize,            \* smallest blob that is kept (600)
          MIN_GREEN_PIXELS,   \* smallest object that has a COM (1000)
          Frames,             \* frames: the pixels of an object and their color
          Ground              \* the color of all other pixels

Pixels == (0 .. WIDTH - 1) \X (0 .. HEIGHT - 1)
Interior == (1 .. WIDTH - 2) \X (1 .. HEIGHT - 2)
Channel == 0 .. 255
Color == Channel \X Channel \X Channel

ASSUME ImageAssumption ==
    /\ WIDTH \in Nat \ {0} /\ HEIGHT \in Nat \ {0}
    /\ MAX_LABELS \in Nat \ {0, 1} /\ MinSize \in Nat
    /\ MIN_GREEN_PIXELS \in Nat \ {0}
    /\ Frames \subseteq [object : SUBSET Pixels, color : Color]
    /\ Ground \in Color

VARIABLES
    frame,          \* the frame that was pulled
    pc,             \* the operation that comes next
    green_mask,     \* the mask, white pixels
    temp_mask,
    label_map, label_sizes, current_label,
    queue,          \* the pixels queued for the blob, as far as they are filled
    queue_start,    \* how many of them were taken out
    com,            \* sums over the pixels and their number, or NoCom
    opened          \* history: the mask that filter_small_blobs was given

vars == <<frame, pc, green_mask, temp_mask, label_map, label_sizes,
          current_label, queue, queue_start, com, opened>>
blobVars == <<label_map, label_sizes, current_label, queue, queue_start>>

-----------------------------------------------------------------------------
(* Threshold.                                                              *)

\* rgb_to_hsv with fractions: the hue is 60 * h / c degrees, the saturation
\* c / v and the value v / 255.  A tie goes to the first channel.
rgb_to_hsv(r, g, b) ==
    LET v == Max({r, g, b})
        c == v - Min({r, g, b})
        h == CASE c = 0 -> 0
               [] c # 0 /\ v = r -> IF g < b THEN g - b + 6 * c ELSE g - b
               [] c # 0 /\ v # r /\ v = g -> b - r + 2 * c
               [] c # 0 /\ v # r /\ v # g -> r - g + 4 * c
    IN [h |-> h, c |-> c, v |-> v]

\* Hue from 90 to 180 degrees, saturation from 0.25, value from 0.1.
Green(r, g, b) ==
    LET hsv == rgb_to_hsv(r, g, b)
    IN /\ hsv.c # 0                  \* no chroma: the hue is 0
       /\ 2 * hsv.h >= 3 * hsv.c /\ hsv.h <= 3 * hsv.c
       /\ 4 * hsv.c >= hsv.v
       /\ 10 * hsv.v >= 255

data(p) == IF p \in frame.object THEN frame.color ELSE Ground

Threshold == {p \in Pixels : Green(data(p)[1], data(p)[2], data(p)[3])}

-----------------------------------------------------------------------------
(* Erosion and dilation, which leave the border black.                     *)

Block(p) == {p[1] - 1, p[1], p[1] + 1} \X {p[2] - 1, p[2], p[2] + 1}

erode_mask(mask) == {p \in Interior : Block(p) \subseteq mask}

\* Mutant of dilate_mask: the border is not cleared.
dilate_mask_border(mask) == {p \in Pixels : Block(p) \cap mask # {}}

dilate_mask(mask) == {p \in Interior : Block(p) \cap mask # {}}

-----------------------------------------------------------------------------
(* The steps of the green mask thread.                                     *)

\* A frame is thresholded and eroded, then dilated back.
ThresholdAndErode ==
    /\ pc = "threshold"
    /\ green_mask' = Threshold
    /\ temp_mask' = erode_mask(green_mask')
    /\ pc' = "dilate"
    /\ UNCHANGED <<frame, blobVars, com, opened>>

Dilate ==
    /\ pc = "dilate"
    /\ green_mask' = dilate_mask(temp_mask)
    /\ opened' = green_mask'
    /\ pc' = "scan"
    /\ UNCHANGED <<frame, temp_mask, blobVars, com>>

\* The white pixels without a label, and the first of them in the order of the
\* loops, row by row.
Unlabelled == {p \in green_mask : label_map[p] = 0}
Before(p, q) == p[2] < q[2] \/ (p[2] = q[2] /\ p[1] < q[1])
FirstOf(S) == CHOOSE p \in S : \A q \in S \ {p} : Before(p, q)

\* The next blob begins.
StartBlob ==
    /\ pc = "scan" /\ Unlabelled # {}
    /\ LET p == FirstOf(Unlabelled)
       IN /\ queue' = <<p>>
          /\ label_map' = [label_map EXCEPT ![p] = current_label]
    /\ queue_start' = 0
    /\ pc' = "expand"
    /\ UNCHANGED <<frame, green_mask, temp_mask, label_sizes, current_label, com,
                   opened>>

\* Mutant of neighbors: the one above is forgotten.
neighbors_not_up(p) ==
    <<<<p[1] - 1, p[2]>>, <<p[1] + 1, p[2]>>, <<p[1], p[2] + 1>>, <<p[1], p[2] + 1>>>>

neighbors(p) ==
    <<<<p[1] - 1, p[2]>>, <<p[1] + 1, p[2]>>, <<p[1], p[2] - 1>>, <<p[1], p[2] + 1>>>>

\* One pixel is taken out of the queue; its neighbors that are inside, white
\* and without a label get this label and are queued, in this order.
Expand ==
    /\ pc = "expand" /\ queue_start < Len(queue)
    /\ LET n == neighbors(queue[queue_start + 1])
           Found(i) == IF n[i] \in Unlabelled THEN <<n[i]>> ELSE <<>>
           new == {n[i] : i \in 1 .. 4} \cap Unlabelled
       IN /\ queue' = queue \o Found(1) \o Found(2) \o Found(3) \o Found(4)
          /\ label_map' = [p \in Pixels |-> IF p \in new THEN current_label
                                            ELSE label_map[p]]
    /\ queue_start' = queue_start + 1
    /\ UNCHANGED <<frame, pc, green_mask, temp_mask, label_sizes, current_label, com,
                   opened>>

\* Mutant of LabelsUsedUp: the label after the last one is used.
LabelsUsedUpLate == current_label + 1 > MAX_LABELS

LabelsUsedUp == current_label + 1 >= MAX_LABELS

\* The blob is complete.  With all labels used the function returns at once,
\* before it has removed anything.
EndBlob ==
    /\ pc = "expand" /\ queue_start = Len(queue)
    /\ label_sizes' = [label_sizes EXCEPT ![current_label] = Len(queue)]
    /\ current_label' = current_label + 1
    /\ pc' = IF LabelsUsedUp THEN "com" ELSE "scan"
    /\ UNCHANGED <<frame, green_mask, temp_mask, label_map, queue, queue_start, com,
                   opened>>

\* All blobs have their size: the small ones become black.
RemoveSmall ==
    /\ pc = "scan" /\ Unlabelled = {}
    /\ green_mask' = {p \in green_mask :
                        label_map[p] = 0 \/ label_sizes[label_map[p]] >= MinSize}
    /\ pc' = "com"
    /\ UNCHANGED <<frame, temp_mask, blobVars, com, opened>>

-----------------------------------------------------------------------------
(* calculate_com, in the other thread.                                     *)

NoCom == [x |-> -1, y |-> -1, count |-> 1]
SumOver(S, i) == FoldSet(LAMBDA p, n : p[i] + n, 0, S)

\* Mutant of Com: an object must be larger than MIN_GREEN_PIXELS.
ComOfMore(mask) ==
    IF Cardinality(mask) > MIN_GREEN_PIXELS
    THEN [x |-> SumOver(mask, 1), y |-> SumOver(mask, 2), count |-> Cardinality(mask)]
    ELSE NoCom

\* The coordinates are x / count and y / count.
Com(mask) ==
    IF Cardinality(mask) >= MIN_GREEN_PIXELS
    THEN [x |-> SumOver(mask, 1), y |-> SumOver(mask, 2), count |-> Cardinality(mask)]
    ELSE NoCom

calculate_com ==
    /\ pc = "com"
    /\ com' = Com(green_mask)
    /\ pc' = "done"
    /\ UNCHANGED <<frame, green_mask, temp_mask, blobVars, opened>>

-----------------------------------------------------------------------------
Init ==
    /\ frame \in Frames
    /\ pc = "threshold"
    /\ green_mask = {} /\ temp_mask = {}
    /\ label_map = [p \in Pixels |-> 0]
    /\ label_sizes = [l \in 0 .. MAX_LABELS - 1 |-> 0]
    /\ current_label = 1
    /\ queue = <<>> /\ queue_start = 0
    /\ com = NoCom
    /\ opened = {}

Next ==
    \/ ThresholdAndErode \/ Dilate
    \/ StartBlob \/ Expand \/ EndBlob \/ RemoveSmall
    \/ calculate_com

Spec == Init /\ [][Next]_vars

-----------------------------------------------------------------------------
(* What the operations are to compute.                                     *)

\* Green by the order of the channels: between cyan and green blue is above
\* red; between green and yellow red has not come half-way up from blue.
LooksGreen(c) ==
    LET r == c[1]  g == c[2]  b == c[3]
    IN /\ g >= 26 /\ g > r /\ g >= b
       /\ \/ b >= r /\ 4 * (g - r) >= g
          \/ b < r /\ 2 * (r - b) <= g - b /\ 4 * (g - b) >= g

\* The blob of p in a mask: grown from p until nothing is added.
Beside(p) == {<<p[1] - 1, p[2]>>, <<p[1] + 1, p[2]>>, <<p[1], p[2] - 1>>,
              <<p[1], p[2] + 1>>}
Blob(p, mask) ==
    LET Grown[S \in SUBSET mask] ==
          LET T == S \cup {q \in mask : Beside(q) \cap S # {}}
          IN IF T = S THEN S ELSE Grown[T]
    IN Grown[{p}]

Opened == {p \in Interior : \E c \in Block(p) \cap Interior :
                              \A q \in Block(c) : LooksGreen(data(q))}
Kept(mask) ==
    LET blobs == {Blob(p, mask) : p \in mask}
    IN IF Cardinality(blobs) >= MAX_LABELS - 1 THEN mask
       ELSE UNION {B \in blobs : Cardinality(B) >= MinSize}

-----------------------------------------------------------------------------
(* Properties.                                                             *)

\* The queue of filter_small_blobs never outgrows its array of WIDTH * HEIGHT
\* points and a blob never gets a label that has no entry in label_sizes.
ImageTypeOK ==
    /\ green_mask \subseteq Pixels /\ temp_mask \subseteq Pixels
    /\ label_map \in [Pixels -> 0 .. MAX_LABELS - 1]
    /\ DOMAIN label_sizes = 0 .. MAX_LABELS - 1
    /\ Len(queue) <= WIDTH * HEIGHT /\ queue_start <= Len(queue)

\* Erosion and dilation, with a border that both leave black, keep exactly the
\* inner pixels that lie in a three by three block of green ones.
OpeningExact == pc = "scan" /\ current_label = 1 => green_mask = Opened

\* The search finds whole blobs, neighbors sharing an edge, and removes the
\* small ones and no other pixel; where there are as many blobs as labels it
\* removes nothing.
FilterExact == pc = "com" => green_mask = Kept(opened)

\* The control loop takes a COM with a coordinate that is not positive for "no
\* object" (main.c:155).  A frame has a COM that it accepts if and only if
\* enough green is left, and the COM lies among the pixels that are left.
ComAccepted ==
    pc = "done" =>
      LET kept == Kept(opened)
      IN /\ com.x > 0 /\ com.y > 0 <=> Cardinality(kept) >= MIN_GREEN_PIXELS
         /\ com # NoCom =>
              /\ \E p, q \in kept : com.x \in p[1] * com.count .. q[1] * com.count
              /\ \E p, q \in kept : com.y \in p[2] * com.count .. q[2] * com.count
=============================================================================

----------------------------- MODULE MapRaster -----------------------------
(***************************************************************************)
(* A saved map, and what validate_map.py makes of it: the structural check *)
(* (modal_app.py makes the same one), the classes of its pixels, and the   *)
(* connected free areas that its coverage report is to count.              *)
(*                                                                         *)
(* Of map.yaml only the keys matter, and the thresholds, here in           *)
(* thousandths.  Pixels are numbered row by row from 0 as in the code; an  *)
(* image that was cut short has fewer of them than its header says.        *)
(***************************************************************************)
EXTENDS Integers, Sequences, SequencesExt

CONSTANTS
    MinBytes,         \* a smaller image is implausible (1024)
    FreeThresh,       \* free_thresh, occupied_thresh
    OccupiedThresh,
    NoImage           \* the image file is not there

ASSUME RasterAssumption ==
    /\ MinBytes \in Nat
    /\ FreeThresh \in 0..1000 /\ OccupiedThresh \in FreeThresh..1000

UNKNOWN == 0
FREE == 1
OCCUPIED == 2

Required == {"resolution", "origin", "image"}

(* The map in a directory: fields are the keys of its map.yaml.            *)
Artifact(fields, image) == [fields |-> fields, image |-> image]
Absent == Artifact({}, NoImage)

Whole(image) == Len(image.pixels) = image.width * image.height

(* verify_map_yaml, _verify_map_yaml: complete keys, and an image that is  *)
(* there and not tiny.                                                     *)
Verified(map) ==
    /\ Required \subseteq map.fields
    /\ map.image # NoImage
    /\ Len(map.image.pixels) >= MinBytes

(* read_pgm_raster, when it does not raise.                                *)
Readable(image) == image.p5 /\ Len(image.pixels) >= image.width * image.height

Indices(image) == 0..(image.width * image.height - 1)

(* classify_pixels, for one pixel.                                         *)
Class(pixel, maxval, negate) ==
    LET level == 1000 * (IF negate THEN pixel ELSE maxval - pixel)
    IN  IF level > OccupiedThresh * maxval THEN OCCUPIED
        ELSE IF level < FreeThresh * maxval THEN FREE
        ELSE UNKNOWN

Classes(image) ==
    [i \in Indices(image) |->
        Class(image.pixels[i + 1], image.maxval, image.negate)]

-----------------------------------------------------------------------------
(* The connected free areas, whatever algorithm counts them: two free      *)
(* pixels are in one area unless some set of free pixels that has no free  *)
(* pixel beside it holds one of them and not the other.                    *)

FreePixels(image) ==
    LET classes == Classes(image) IN {i \in Indices(image) : classes[i] = FREE}

Beside(i, j, width) ==
    \/ i \div width = j \div width /\ (i - j = 1 \/ j - i = 1)
    \/ i % width = j % width /\ (i - j = width \/ j - i = width)

Secluded(image) ==
    LET free == FreePixels(image)
    IN  {C \in SUBSET free :
            \A i \in C, j \in free \ C : ~Beside(i, j, image.width)}

AreaOf(pixel, image) ==
    LET secluded == Secluded(image)
    IN  {j \in FreePixels(image) : \A C \in secluded : pixel \in C => j \in C}

Areas(image) == {AreaOf(i, image) : i \in FreePixels(image)}

(* sizes lists the size of every area once, in falling order.              *)
Descending(sizes) == \A i, j \in DOMAIN sizes : i < j => sizes[i] >= sizes[j]

ListsTheAreas(sizes, image) ==
    /\ Descending(sizes)
    /\ \E area \in Bijection(DOMAIN sizes, Areas(image)) :
          \A i \in DOMAIN sizes : sizes[i] = Cardinality(area[i])
=============================================================================

----------------------------- MODULE FloodFill -----------------------------
(***************************************************************************)
(* validate_map.py's flood_fill_component_sizes, a step for each turn of   *)
(* its two loops: every free pixel not yet visited starts an area, which   *)
(* grows by the pixels on a stack until the stack is empty.                *)
(***************************************************************************)
EXTENDS MapRaster

VARIABLES
    at,        \* in which loop the fill is; "over": nothing is filled
    picture,   \* the image filled, now or last
    start,     \* the pixel the outer loop is at
    visited,   \* the pixels marked
    stack,     \* the marked pixels whose neighbours were not looked at
    size,      \* pixels counted of the area that grows
    sizes      \* the areas' sizes

fillVars == <<at, picture, start, visited, stack, size, sizes>>

FillInit ==
    /\ at = "over" /\ picture = NoImage
    /\ start = 0 /\ visited = {} /\ stack = <<>> /\ size = 0 /\ sizes = <<>>

Filling == at # "over"

IsFree(pixel) == Classes(picture)[pixel] = FREE

(* compute_coverage, of an image that could be read.                       *)
BeginFill(image) ==
    /\ at' = "outer" /\ picture' = image
    /\ start' = 0 /\ visited' = {} /\ stack' = <<>> /\ size' = 0 /\ sizes' = <<>>

Outer == at = "outer" /\ start \in Indices(picture)
StartsArea == IsFree(start) /\ start \notin visited

SkipPixel ==
    /\ Outer /\ ~StartsArea
    /\ start' = start + 1
    /\ UNCHANGED <<at, picture, visited, stack, size, sizes>>

BeginArea ==
    /\ Outer /\ StartsArea
    /\ at' = "inner"
    /\ size' = 0 /\ stack' = <<start>> /\ visited' = visited \cup {start}
    /\ UNCHANGED <<picture, start, sizes>>

(* One neighbour: a free pixel not yet visited is marked and pushed.       *)
Look(fill, pixel, inside) ==
    IF inside /\ pixel \notin fill.visited /\ IsFree(pixel)
    THEN [visited |-> fill.visited \cup {pixel}, stack |-> Append(fill.stack, pixel)]
    ELSE fill

(* Mutant: the left and right neighbours run over the ends of a row.       *)
LookAroundWrapping(fill, idx) ==
    LET w == picture.width
        In(pixel) == pixel \in Indices(picture)
        left == Look(fill, idx - 1, In(idx - 1))
        right == Look(left, idx + 1, In(idx + 1))
        up == Look(right, idx - w, In(idx - w))
    IN  Look(up, idx + w, In(idx + w))

(* The neighbours of a pixel, in the code's order.                         *)
LookAround(fill, idx) ==
    LET w == picture.width
        x == idx % w
        y == idx \div w
        left == Look(fill, idx - 1, x > 0)
        right == Look(left, idx + 1, x < w - 1)
        up == Look(right, idx - w, y > 0)
    IN  Look(up, idx + w, y < picture.height - 1)

(* The stack's top is counted, and its neighbours are looked at.           *)
CountPixel ==
    /\ at = "inner" /\ stack # <<>>
    /\ size' = size + 1
    /\ LET fill == LookAround([visited |-> visited, stack |-> Front(stack)],
                              Last(stack))
       IN  visited' = fill.visited /\ stack' = fill.stack
    /\ UNCHANGED <<at, picture, start, sizes>>

EndArea ==
    /\ at = "inner" /\ stack = <<>>
    /\ at' = "outer"
    /\ sizes' = Append(sizes, size) /\ start' = start + 1
    /\ UNCHANGED <<picture, visited, stack, size>>

(* sizes.sort(reverse=True): the same sizes, in falling order.             *)
SortSizes ==
    /\ at = "outer" /\ start \notin Indices(picture)
    /\ at' = "over"
    /\ \E order \in Bijection(DOMAIN sizes, DOMAIN sizes) :
          sizes' = [i \in DOMAIN sizes |-> sizes[order[i]]]
    /\ Descending(sizes')
    /\ UNCHANGED <<picture, start, visited, stack, size>>

FillStep == SkipPixel \/ BeginArea \/ CountPixel \/ EndArea \/ SortSizes

(* The coverage report lists the map's connected free areas: as many as    *)
(* there are, each with its size, largest first (validate_map.py:22-24).   *)
ComponentsAreExact ==
    ~Filling /\ picture # NoImage => ListsTheAreas(sizes, picture)
=============================================================================

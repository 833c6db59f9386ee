--------------------------- MODULE LockImagePaint ---------------------------
(***************************************************************************)
(* How XGetImage (GetImage.c) and XShmGetImage (XShm.c) overwrite a        *)
(* picture of the screen: fill it with the background colour, then copy    *)
(* the lock image over it, centred.  The two functions hold the same code; *)
(* the loops are followed pixel by pixel, because put_pixel checks no      *)
(* bounds.                                                                 *)
(*                                                                         *)
(* A pixel is known by where it comes from: the screen, the background, or *)
(* the lock image, by its index _y * lock_image->width + _x.               *)
(***************************************************************************)
EXTENDS Integers

CONSTANT Sizes       \* widths and heights

ASSUME SizesAssumption == Sizes \subseteq Nat \ {0}

VARIABLES
  width, height,           \* of the picture
  lockWidth, lockHeight,   \* of the lock image
  loaded,                  \* lock_image # NULL
  pixel,                   \* pixel[<<_x, _y>>] of the picture
  pc,                      \* "fill", "copy" or "done"
  x, y                     \* _x and _y of the loop

sizes == <<width, height, lockWidth, lockHeight, loaded>>
vars  == <<sizes, pixel, pc, x, y>>

Screen     == -1
Background == -2

Picture == (0 .. width - 1) \X (0 .. height - 1)

Init ==
  /\ width \in Sizes /\ height \in Sizes
  /\ lockWidth \in Sizes /\ lockHeight \in Sizes
  /\ loaded \in BOOLEAN
  /\ pixel = [p \in Picture |-> Screen]
  /\ pc = "fill"
  /\ x = 0 /\ y = 0

\* Along one axis: the first and the end of the source, and where the first
\* goes, for a lock image of size lock and a picture of size dim.
Src(lock, dim) == IF lock > dim THEN (lock - dim) \div 2 ELSE 0

\* Mutant of SrcEnd: the lock image is not clipped.
SrcEndUnclipped(lock, dim) == lock

SrcEnd(lock, dim) == IF lock > dim THEN dim ELSE lock

\* Mutant of Dst: the gap on both sides, not on one.
DstWholeGap(lock, dim) == IF lock < dim THEN dim - lock ELSE 0

Dst(lock, dim) == IF lock < dim THEN (dim - lock) \div 2 ELSE 0

\* put_pixel(image, dx, dy, v); outside the picture it writes elsewhere.
Put(dx, dy, v) ==
  pixel' = IF <<dx, dy>> \in Picture THEN [pixel EXCEPT ![<<dx, dy>>] = v] ELSE pixel

\* Mutant of FillPixel: the first column is left out.
FillPixelFromOne ==
  /\ pc = "fill" /\ y < height /\ x < width
  /\ Put(x + 1, y, Background)
  /\ x' = x + 1
  /\ UNCHANGED <<sizes, pc, y>>

FillPixel ==
  /\ pc = "fill" /\ y < height /\ x < width
  /\ Put(x, y, Background)
  /\ x' = x + 1
  /\ UNCHANGED <<sizes, pc, y>>

FillNextRow ==
  /\ pc = "fill" /\ y < height /\ x >= width
  /\ x' = 0 /\ y' = y + 1
  /\ UNCHANGED <<sizes, pixel, pc>>

FillEnd ==
  /\ pc = "fill" /\ y >= height
  /\ IF loaded
     THEN /\ pc' = "copy"
          /\ x' = Src(lockWidth, width) /\ y' = Src(lockHeight, height)
     ELSE pc' = "done" /\ UNCHANGED <<x, y>>
  /\ UNCHANGED <<sizes, pixel>>

Copying == pc = "copy" /\ y < SrcEnd(lockHeight, height)
InRow   == Copying /\ x < SrcEnd(lockWidth, width)

\* Index of the source pixel, and the two coordinates of the target.
Start == y * lockWidth + x

\* Mutant of DstX: the clipped part is not subtracted.
DstXUnclipped == Dst(lockWidth, width) + x

DstX  == Dst(lockWidth, width) + x - Src(lockWidth, width)
DstY  == Dst(lockHeight, height) + y - Src(lockHeight, height)

CopyPixel ==
  /\ InRow
  /\ Put(DstX, DstY, Start)
  /\ x' = x + 1
  /\ UNCHANGED <<sizes, pc, y>>

CopyNextRow ==
  /\ Copying /\ ~InRow
  /\ x' = Src(lockWidth, width) /\ y' = y + 1
  /\ UNCHANGED <<sizes, pixel, pc>>

CopyEnd ==
  /\ pc = "copy" /\ ~Copying
  /\ pc' = "done"
  /\ UNCHANGED <<sizes, pixel, x, y>>

Next ==
  \/ FillPixel \/ FillNextRow \/ FillEnd
  \/ CopyPixel \/ CopyNextRow \/ CopyEnd

Spec == Init /\ [][Next]_vars

-----------------------------------------------------------------------------
(* Properties. *)

\* The loops read inside the lock image and write inside the picture, whatever
\* the two sizes are.
PaintInBounds ==
  InRow => Start \in 0 .. lockWidth * lockHeight - 1 /\ <<DstX, DstY>> \in Picture

\* No pixel of the screen is left when the background has been filled in, and
\* nothing brings one back.
NoScreenLeft == pc \in {"copy", "done"} => \A p \in Picture : pixel[p] # Screen

\* The pixel of the lock image that is shown at p when it is centred along an
\* axis; it may lie outside the lock image.
Centre(lock, dim, p) == p + Src(lock, dim) - Dst(lock, dim)

Centred(p) ==
  LET cx == Centre(lockWidth, width, p[1])
      cy == Centre(lockHeight, height, p[2])
  IN  IF cx \in 0 .. lockWidth - 1 /\ cy \in 0 .. lockHeight - 1
      THEN cy * lockWidth + cx
      ELSE Background

\* The margins left and right, or above and below, differ by one at most.
Balanced(lock, dim) == dim - lock - 2 * Dst(lock, dim) \in {0, 1}

\* A lock image that fits into the picture is shown as a whole, once, in the
\* middle, on the background.
CentredWhenItFits ==
  pc = "done" /\ loaded /\ lockWidth <= width /\ lockHeight <= height =>
    /\ \A p \in Picture : pixel[p] = Centred(p)
    /\ Balanced(lockWidth, width) /\ Balanced(lockHeight, height)

\* Along one axis: the centred lock image has a pixel for p, but the copy, which
\* starts at Src and ends where the picture does, has ended before it.
Lost(lock, dim, p) == p >= dim - Src(lock, dim)

\* Whatever the sizes, what is shown is where the centred lock image has it.  Of
\* one that is larger than the picture as much is lost right and below as was
\* clipped left and above: there, and nowhere else, the background stands for it.
LostRightAndBelow ==
  pc = "done" /\ loaded =>
    \A p \in Picture :
      pixel[p] = IF Lost(lockWidth, width, p[1]) \/ Lost(lockHeight, height, p[2])
                 THEN Background
                 ELSE Centred(p)

\* What the program says and does not keep: the lock image is shown centred,
\* also when it is larger than the picture.
AlwaysCentred == pc = "done" /\ loaded => \A p \in Picture : pixel[p] = Centred(p)
=============================================================================

------------------------ MODULE LockImagePaintProofs ------------------------
(***************************************************************************)
(* Proofs about LockImagePaint, for pictures and lock images of any size.  *)
(***************************************************************************)
EXTENDS LockImagePaint, TLAPS

PaintTypes ==
  /\ width \in Nat \ {0} /\ height \in Nat \ {0}
  /\ lockWidth \in Nat \ {0} /\ lockHeight \in Nat \ {0}
  /\ pc \in {"fill", "copy", "done"}
  /\ x \in Nat /\ y \in Nat
  /\ pixel \in [Picture -> Int]

\* The loops start where they should, and the fill leaves nothing behind it.
LoopsInRange ==
  /\ pc = "copy" => x >= Src(lockWidth, width) /\ y >= Src(lockHeight, height)
  /\ pc = "fill" =>
       \A px \in 0 .. width - 1, py \in 0 .. height - 1 :
         py < y \/ (py = y /\ px < x) => pixel[<<px, py>>] # Screen

PaintInv == PaintTypes /\ LoopsInRange /\ NoScreenLeft

\* One axis of the copy: the source is inside the lock image, the target
\* inside the picture.
LEMMA AxisInBounds ==
  ASSUME NEW lock \in Nat \ {0}, NEW dim \in Nat \ {0}, NEW s \in Int,
         s >= Src(lock, dim), s < SrcEnd(lock, dim)
  PROVE  /\ Src(lock, dim) \in Nat
         /\ s \in 0 .. lock - 1
         /\ Dst(lock, dim) + s - Src(lock, dim) \in 0 .. dim - 1
BY DEF Src, SrcEnd, Dst

LEMMA SrcIsNat ==
  ASSUME NEW lock \in Nat \ {0}, NEW dim \in Nat \ {0}
  PROVE  Src(lock, dim) \in Nat
BY DEF Src

\* Row-major indices of a w by h array stay below its size.
LEMMA IndexInArray ==
  ASSUME NEW w \in Nat \ {0}, NEW h \in Nat \ {0}, NEW i \in 0 .. w - 1, NEW j \in 0 .. h - 1
  PROVE  j * w + i \in 0 .. w * h - 1
<1>1. j * w <= (h - 1) * w /\ j * w \in Nat
  BY SMT
<1>2. (h - 1) * w = w * h - w
  BY SMT
<1> QED BY <1>1, <1>2

LEMMA CopyInBounds ==
  ASSUME PaintInv
  PROVE  PaintInBounds
<1> SUFFICES ASSUME InRow
             PROVE  Start \in 0 .. lockWidth * lockHeight - 1 /\ <<DstX, DstY>> \in Picture
  BY DEF PaintInBounds
<1>1. x \in 0 .. lockWidth - 1 /\ DstX \in 0 .. width - 1
  BY AxisInBounds DEF InRow, Copying, PaintInv, PaintTypes, LoopsInRange, DstX
<1>2. y \in 0 .. lockHeight - 1 /\ DstY \in 0 .. height - 1
  BY AxisInBounds DEF InRow, Copying, PaintInv, PaintTypes, LoopsInRange, DstY
<1>3. Start \in 0 .. lockWidth * lockHeight - 1
  BY <1>1, <1>2, IndexInArray DEF Start, PaintInv, PaintTypes
<1> QED BY <1>1, <1>2, <1>3 DEF Picture

LEMMA PaintInit == Init => PaintInv
BY SizesAssumption
DEF Init, PaintInv, PaintTypes, LoopsInRange, NoScreenLeft, Picture, Screen

LEMMA PaintNext ==
  ASSUME PaintInv, [Next]_vars
  PROVE  PaintInv'
<1> USE DEF PaintInv, PaintTypes, LoopsInRange, NoScreenLeft, sizes
<1>1. CASE UNCHANGED vars
  BY <1>1 DEF vars, Picture
<1>2. CASE FillPixel
  <2>1. <<x, y>> \in Picture
    BY <1>2 DEF FillPixel, Picture
  <2>2. pixel' = [pixel EXCEPT ![<<x, y>>] = Background]
    BY <1>2, <2>1 DEF FillPixel, Put
  <2>3. PaintTypes'
    BY <1>2, <2>2 DEF FillPixel, Picture, Background
  <2>4. ASSUME NEW px \in 0 .. width - 1, NEW py \in 0 .. height - 1,
               py < y \/ (py = y /\ px < x + 1)
        PROVE  pixel'[<<px, py>>] # Screen
    <3>1. <<px, py>> \in Picture
      BY DEF Picture
    <3>2. CASE px = x /\ py = y
      BY <2>1, <2>2, <3>2 DEF Background, Screen
    <3>3. CASE ~(px = x /\ py = y)
      BY <1>2, <2>2, <2>4, <3>1, <3>3 DEF FillPixel
    <3> QED BY <3>2, <3>3
  <2> QED BY <1>2, <2>3, <2>4 DEF FillPixel
<1>3. CASE FillNextRow
  BY <1>3 DEF FillNextRow, Picture
<1>4. CASE FillEnd
  BY <1>4, SrcIsNat DEF FillEnd, Picture
<1>5. CASE CopyPixel
  <2>1. Start \in Nat /\ <<DstX, DstY>> \in Picture
    BY <1>5, CopyInBounds DEF CopyPixel, PaintInBounds, PaintTypes
  <2>2. pixel' = [pixel EXCEPT ![<<DstX, DstY>>] = Start]
    BY <1>5, <2>1 DEF CopyPixel, Put
  <2>3. PaintTypes'
    BY <1>5, <2>1, <2>2 DEF CopyPixel, Picture
  <2>4. \A p \in Picture : pixel'[p] # Screen
    <3>1. \A p \in Picture : pixel[p] # Screen
      BY <1>5 DEF CopyPixel, InRow, Copying
    <3> QED BY <2>1, <2>2, <3>1 DEF Screen
  <2>5. Picture' = Picture /\ pc' = "copy" /\ x' >= x /\ y' = y /\ UNCHANGED sizes
    BY <1>5 DEF CopyPixel, InRow, Copying, Picture
  <2>6. x' >= Src(lockWidth, width) /\ y' >= Src(lockHeight, height)
    BY <1>5, <2>5, SrcIsNat DEF CopyPixel, InRow, Copying
  <2> QED BY <2>3, <2>4, <2>5, <2>6 DEF Src
<1>6. CASE CopyNextRow
  BY <1>6, SrcIsNat DEF CopyNextRow, InRow, Copying, Picture
<1>7. CASE CopyEnd
  BY <1>7 DEF CopyEnd, Picture
<1> QED BY <1>1, <1>2, <1>3, <1>4, <1>5, <1>6, <1>7 DEF Next

\* Painting never leaves the lock image or the picture, whatever their sizes.
THEOREM InBounds == Spec => []PaintInBounds
<1>1. PaintInv /\ [Next]_vars => PaintInv'
  BY PaintNext
<1>2. PaintInv => PaintInBounds
  BY CopyInBounds
<1> QED BY PaintInit, <1>1, <1>2, PTL DEF Spec

\* When the background is in, no pixel of the screen is left, and none comes back.
THEOREM ScreenIsCovered == Spec => []NoScreenLeft
<1>1. PaintInv /\ [Next]_vars => PaintInv'
  BY PaintNext
<1>2. PaintInv => NoScreenLeft
  BY DEF PaintInv
<1> QED BY PaintInit, <1>1, <1>2, PTL DEF Spec

-----------------------------------------------------------------------------
(* What is shown of a lock image of any size. *)

\* The column and the row of the lock image that belong at px and py.
Column(px) == Centre(lockWidth, width, px)
Row(py)    == Centre(lockHeight, height, py)

\* The loops copy s along an axis.
InSource(lock, dim, s) == Src(lock, dim) <= s /\ s < SrcEnd(lock, dim)

\* The pixel at <<px, py>> is one the loops copy, and they have got to it.
Copied(px, py) ==
  /\ InSource(lockWidth, width, Column(px)) /\ InSource(lockHeight, height, Row(py))
  /\ Row(py) < y \/ (Row(py) = y /\ Column(px) < x)

FilledSoFar ==
  pc = "fill" =>
    \A px \in 0 .. width - 1, py \in 0 .. height - 1 :
      py < y \/ (py = y /\ px < x) => pixel[<<px, py>>] = Background

\* What is copied is the lock image, what is not copied is the background.
CopiedSoFar ==
  pc = "copy" =>
    \A px \in 0 .. width - 1, py \in 0 .. height - 1 :
      pixel[<<px, py>>] = IF Copied(px, py) THEN Row(py) * lockWidth + Column(px) ELSE Background

LoadedToCopy == pc = "copy" => loaded

ShownInv == PaintInv /\ FilledSoFar /\ CopiedSoFar /\ LoadedToCopy /\ LostRightAndBelow

\* One axis: what the loops copy is what the centred lock image has there,
\* without what is lost.
LEMMA AxisShown ==
  ASSUME NEW lock \in Nat \ {0}, NEW dim \in Nat \ {0}, NEW p \in 0 .. dim - 1
  PROVE  /\ Centre(lock, dim, p) \in Int
         /\ InSource(lock, dim, Centre(lock, dim, p)) <=>
              ~Lost(lock, dim, p) /\ Centre(lock, dim, p) \in 0 .. lock - 1
BY DEF Centre, InSource, Lost, Src, SrcEnd, Dst

\* One axis: s is copied to the place where it belongs, and nothing else is.
LEMMA AxisPlace ==
  ASSUME NEW lock \in Nat \ {0}, NEW dim \in Nat \ {0}, NEW s \in Nat, NEW p \in Int
  PROVE  p = Dst(lock, dim) + s - Src(lock, dim) <=> Centre(lock, dim, p) = s
BY DEF Centre, Src, Dst

LEMMA ShownInit == Init => ShownInv
BY PaintInit DEF Init, ShownInv, FilledSoFar, CopiedSoFar, LoadedToCopy, LostRightAndBelow

LEMMA ShownFillPixel ==
  ASSUME ShownInv, FillPixel
  PROVE  FilledSoFar'
<1> USE DEF ShownInv, PaintInv, PaintTypes
<1>1. /\ <<x, y>> \in Picture /\ pixel' = [pixel EXCEPT ![<<x, y>>] = Background]
      /\ UNCHANGED <<sizes, y>> /\ x' = x + 1
  BY DEF FillPixel, Picture, Put
<1>2. SUFFICES ASSUME NEW px \in 0 .. width - 1, NEW py \in 0 .. height - 1,
                      py < y \/ (py = y /\ px < x + 1)
               PROVE  pixel'[<<px, py>>] = Background
  BY <1>1 DEF FilledSoFar, sizes
<1>3. <<px, py>> \in Picture
  BY DEF Picture
<1>4. CASE px = x /\ py = y
  BY <1>1, <1>4
<1>5. CASE ~(px = x /\ py = y)
  BY <1>1, <1>2, <1>3, <1>5 DEF FillPixel, FilledSoFar
<1> QED BY <1>4, <1>5

LEMMA ShownFillEnd ==
  ASSUME ShownInv, FillEnd
  PROVE  CopiedSoFar' /\ LostRightAndBelow'
<1> USE DEF ShownInv, PaintInv, PaintTypes
<1>1. UNCHANGED <<sizes, pixel>>
  BY DEF FillEnd
<1>2. \A px \in 0 .. width - 1, py \in 0 .. height - 1 : pixel[<<px, py>>] = Background
  <2>1. \A py \in 0 .. height - 1 : py < y
    BY DEF FillEnd
  <2> QED BY <2>1 DEF FillEnd, FilledSoFar
<1>3. CopiedSoFar'
  <2> SUFFICES ASSUME pc' = "copy", NEW px \in 0 .. width - 1, NEW py \in 0 .. height - 1
               PROVE  ~Copied(px, py)'
    BY <1>1, <1>2 DEF CopiedSoFar, sizes
  <2>1. x' = Src(lockWidth, width) /\ y' = Src(lockHeight, height)
    BY DEF FillEnd
  <2>2. Column(px) \in Int /\ Row(py) \in Int /\ x' \in Nat /\ y' \in Nat
    BY <2>1, AxisShown, SrcIsNat DEF Column, Row
  <2> QED BY <1>1, <2>1, <2>2 DEF Copied, InSource, Column, Row, Centre, Src, SrcEnd, Dst, sizes
<1>4. LostRightAndBelow'
  BY <1>1 DEF FillEnd, LostRightAndBelow, sizes
<1> QED BY <1>3, <1>4

LEMMA ShownCopyPixel ==
  ASSUME ShownInv, CopyPixel
  PROVE  CopiedSoFar'
<1> USE DEF ShownInv, PaintInv, PaintTypes
<1>1. /\ pc = "copy" /\ pc' = "copy" /\ x' = x + 1 /\ y' = y /\ UNCHANGED sizes
      /\ InSource(lockWidth, width, x) /\ InSource(lockHeight, height, y)
      /\ Put(DstX, DstY, Start)
  BY DEF CopyPixel, InRow, Copying, InSource, LoopsInRange
<1>2. <<DstX, DstY>> \in Picture
  BY CopyInBounds DEF CopyPixel, PaintInBounds
<1>3. pixel' = [pixel EXCEPT ![<<DstX, DstY>>] = y * lockWidth + x]
  BY <1>1, <1>2 DEF Put, Start
<1>4. SUFFICES ASSUME NEW px \in 0 .. width - 1, NEW py \in 0 .. height - 1
               PROVE  pixel'[<<px, py>>] =
                        IF Copied(px, py)' THEN Row(py) * lockWidth + Column(px) ELSE Background
  BY <1>1 DEF CopiedSoFar, Row, Column, Centre, Src, Dst, sizes
<1>5. <<px, py>> \in Picture /\ Column(px) \in Int /\ Row(py) \in Int
  BY AxisShown DEF Picture, Column, Row
<1>6. px = DstX <=> Column(px) = x
  BY AxisPlace DEF DstX, Column
<1>7. py = DstY <=> Row(py) = y
  BY AxisPlace DEF DstY, Row
<1>8. Copied(px, py)' <=>
        /\ InSource(lockWidth, width, Column(px)) /\ InSource(lockHeight, height, Row(py))
        /\ Row(py) < y \/ (Row(py) = y /\ Column(px) < x + 1)
  BY <1>1 DEF Copied, InSource, Column, Row, Centre, Src, SrcEnd, Dst, sizes
<1>9. CASE Column(px) = x /\ Row(py) = y
  <2>1. Copied(px, py)'
    BY <1>1, <1>8, <1>9
  <2>2. <<px, py>> = <<DstX, DstY>>
    BY <1>6, <1>7, <1>9
  <2>3. pixel'[<<DstX, DstY>>] = y * lockWidth + x
    BY <1>2, <1>3
  <2>4. pixel'[<<px, py>>] = Row(py) * lockWidth + Column(px)
    BY Zenon, <1>9, <2>2, <2>3
  <2> QED BY Zenon, <2>1, <2>4
<1>10. CASE ~(Column(px) = x /\ Row(py) = y)
  <2>1. pixel'[<<px, py>>] = pixel[<<px, py>>]
    BY <1>3, <1>5, <1>6, <1>7, <1>10
  <2>2. Copied(px, py)' <=> Copied(px, py)
    BY <1>5, <1>8, <1>10 DEF Copied
  <2> QED BY <1>1, <2>1, <2>2 DEF CopiedSoFar
<1> QED BY <1>9, <1>10

LEMMA ShownCopyNextRow ==
  ASSUME ShownInv, CopyNextRow
  PROVE  CopiedSoFar'
<1> USE DEF ShownInv, PaintInv, PaintTypes
<1>1. /\ pc = "copy" /\ x >= SrcEnd(lockWidth, width)
      /\ x' = Src(lockWidth, width) /\ y' = y + 1 /\ UNCHANGED <<sizes, pixel>>
  BY DEF CopyNextRow, InRow, Copying, SrcEnd
<1>2. SUFFICES ASSUME NEW px \in 0 .. width - 1, NEW py \in 0 .. height - 1
               PROVE  Copied(px, py)' <=> Copied(px, py)
  BY <1>1 DEF CopiedSoFar, Row, Column, Centre, Src, Dst, sizes
<1>3. Column(px) \in Int /\ Row(py) \in Int
  BY AxisShown DEF Column, Row
<1>4. Copied(px, py)' <=>
        /\ InSource(lockWidth, width, Column(px)) /\ InSource(lockHeight, height, Row(py))
        /\ Row(py) < y + 1 \/ (Row(py) = y + 1 /\ Column(px) < Src(lockWidth, width))
  BY <1>1 DEF Copied, InSource, Column, Row, Centre, Src, SrcEnd, Dst, sizes
<1>5. Src(lockWidth, width) \in Nat /\ SrcEnd(lockWidth, width) \in Nat
  BY SrcIsNat DEF SrcEnd
<1> QED BY <1>1, <1>3, <1>4, <1>5 DEF Copied, InSource

LEMMA ShownCopyEnd ==
  ASSUME ShownInv, CopyEnd
  PROVE  LostRightAndBelow'
<1> USE DEF ShownInv, PaintInv, PaintTypes
<1>1. pc = "copy" /\ y >= SrcEnd(lockHeight, height) /\ UNCHANGED <<sizes, pixel>>
  BY DEF CopyEnd, Copying, SrcEnd
<1>2. ASSUME NEW px \in 0 .. width - 1, NEW py \in 0 .. height - 1
      PROVE  pixel[<<px, py>>] =
               IF Lost(lockWidth, width, px) \/ Lost(lockHeight, height, py)
               THEN Background
               ELSE Centred(<<px, py>>)
  <2>1. Row(py) \in Int /\ SrcEnd(lockHeight, height) \in Nat
    BY AxisShown DEF Row, SrcEnd
  <2>2. Copied(px, py) <=>
          InSource(lockWidth, width, Column(px)) /\ InSource(lockHeight, height, Row(py))
    BY <1>1, <2>1 DEF Copied, InSource
  <2>3. /\ InSource(lockWidth, width, Column(px)) <=>
             ~Lost(lockWidth, width, px) /\ Column(px) \in 0 .. lockWidth - 1
        /\ InSource(lockHeight, height, Row(py)) <=>
             ~Lost(lockHeight, height, py) /\ Row(py) \in 0 .. lockHeight - 1
    BY AxisShown DEF Column, Row
  <2> QED BY <1>1, <2>2, <2>3 DEF CopiedSoFar, Centred, Column, Row
<1>3. \A p \in Picture : pixel[p] = IF Lost(lockWidth, width, p[1]) \/ Lost(lockHeight, height, p[2])
                                    THEN Background
                                    ELSE Centred(p)
  BY <1>2 DEF Picture
<1> QED BY <1>1, <1>3 DEF LostRightAndBelow, Lost, Centred, Centre, Src, Dst, Picture, sizes

LEMMA ShownNext ==
  ASSUME ShownInv, [Next]_vars
  PROVE  ShownInv'
<1>1. PaintInv'
  BY PaintNext DEF ShownInv
<1> USE DEF ShownInv, FilledSoFar, CopiedSoFar, LoadedToCopy, LostRightAndBelow
<1>2. CASE UNCHANGED vars
  BY <1>1, <1>2
  DEF vars, sizes, Copied, Column, Row, InSource, Lost, Centred, Centre, Src, SrcEnd, Dst, Picture
<1>3. CASE FillPixel
  BY <1>1, <1>3, ShownFillPixel DEF FillPixel
<1>4. CASE FillNextRow
  BY <1>1, <1>4 DEF FillNextRow, sizes, PaintInv, PaintTypes
<1>5. CASE FillEnd
  BY <1>1, <1>5, ShownFillEnd DEF FillEnd, sizes
<1>6. CASE CopyPixel
  BY <1>1, <1>6, ShownCopyPixel DEF CopyPixel, InRow, Copying, sizes
<1>7. CASE CopyNextRow
  BY <1>1, <1>7, ShownCopyNextRow DEF CopyNextRow, Copying, sizes
<1>8. CASE CopyEnd
  BY <1>1, <1>8, ShownCopyEnd DEF CopyEnd
<1> QED BY <1>2, <1>3, <1>4, <1>5, <1>6, <1>7, <1>8 DEF Next

\* What is shown of a lock image of any size on a picture of any size: each of
\* its pixels in its place, but for the columns and rows lost right and below,
\* as many as were clipped left and above.
THEOREM OnlyRightAndBelowLost == Spec => []LostRightAndBelow
<1>1. ShownInv /\ [Next]_vars => ShownInv'
  BY ShownNext
<1>2. ShownInv => LostRightAndBelow
  BY DEF ShownInv
<1> QED BY ShownInit, <1>1, <1>2, PTL DEF Spec

\* A lock image that fits is shown as a whole in the middle of the picture.
THEOREM FittingImageIsCentred == Spec => []CentredWhenItFits
<1>1. ShownInv /\ [Next]_vars => ShownInv'
  BY ShownNext
<1>2. ShownInv => CentredWhenItFits
  <2> SUFFICES ASSUME ShownInv, pc = "done", loaded, lockWidth <= width, lockHeight <= height
               PROVE  /\ \A p \in Picture : pixel[p] = Centred(p)
                      /\ Balanced(lockWidth, width) /\ Balanced(lockHeight, height)
    BY DEF CentredWhenItFits
  <2> USE DEF ShownInv, PaintInv, PaintTypes
  <2>1. \A p \in Picture : ~Lost(lockWidth, width, p[1]) /\ ~Lost(lockHeight, height, p[2])
    BY DEF Lost, Src, Picture
  <2>2. Balanced(lockWidth, width) /\ Balanced(lockHeight, height)
    BY DEF Balanced, Dst
  <2> QED BY <2>1, <2>2 DEF LostRightAndBelow
<1> QED BY ShownInit, <1>1, <1>2, PTL DEF Spec
=============================================================================

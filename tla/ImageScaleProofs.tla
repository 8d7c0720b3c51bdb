-------------------------- MODULE ImageScaleProofs --------------------------
(***************************************************************************)
(* The scaler's loops stay inside the picture, for every size a JPEG       *)
(* header can state and every width of the fixed point, although they add  *)
(* up a rounded step modulo the width of an integer.                       *)
(***************************************************************************)
EXTENDS ImageScale, TLAPS

\* The defining property of \div, with the remainder left out.
LEMMA DivBounds ==
    ASSUME NEW a \in Nat, NEW b \in Nat \ {0}
    PROVE  /\ a \div b \in Nat
           /\ (a \div b) * b <= a
           /\ a < (a \div b + 1) * b
OBVIOUS

LEMMA MulMono ==
    ASSUME NEW a \in Nat, NEW b \in Nat, NEW c \in Nat, a <= b
    PROVE  a * c <= b * c /\ c * a <= c * b
OBVIOUS

LEMMA MulNat == ASSUME NEW a \in Nat, NEW b \in Nat PROVE a * b \in Nat
OBVIOUS

LEMMA MulZero == ASSUME NEW a \in Nat PROVE 0 * a = 0
OBVIOUS

\* A sum that does not reach the width of an integer does not wrap around.
LEMMA NoWrap ==
    ASSUME NEW n \in Nat, NEW m \in Nat, NEW b \in 0 .. Word - 1, n + m \in 0 .. b
    PROVE  (n + m) % Word = n + m
<1>1. Word \in Nat \ {0}
  BY SizeAssumption
<1> QED
  BY <1>1

\* Division rounds down, so what is below a multiple stays below the factor.
LEMMA DivBelow ==
    ASSUME NEW a \in Nat, NEW b \in Nat \ {0}, NEW c \in Nat, a < c * b
    PROVE  a \div b < c
<1>1. (a \div b) * b <= a /\ a \div b \in Nat
  BY DivBounds
<1>2. SUFFICES ASSUME c <= a \div b PROVE FALSE
  BY <1>1
<1>3. c * b <= (a \div b) * b
  BY <1>1, <1>2, MulMono
<1> QED
  BY <1>1, <1>3, MulNat

LEMMA DivAtMost ==
    ASSUME NEW a \in Nat, NEW b \in Nat \ {0}, NEW c \in Nat, a <= c * b
    PROVE  a \div b <= c
<1>1. (a \div b) * b <= a /\ a \div b \in Nat
  BY DivBounds
<1>2. SUFFICES ASSUME c + 1 <= a \div b PROVE FALSE
  BY <1>1
<1>3. (c + 1) * b <= (a \div b) * b
  BY <1>1, <1>2, MulMono
<1>4. (c + 1) * b = c * b + b
  OBVIOUS
<1> QED
  BY <1>1, <1>3, <1>4, MulNat

\* k rounded steps of n pixels in t parts never go beyond the n pixels, and
\* fewer than t of them end before the last one.
LEMMA StepInside ==
    ASSUME NEW n \in Nat \ {0}, NEW t \in Nat \ {0}, NEW k \in 0 .. t
    PROVE  LET s == (n * One) \div t
           IN  /\ s \in Nat /\ k * s \in 0 .. n * One
               /\ k < t => (k * s) \div One < n /\ (k + 1) * s = k * s + s
<1> DEFINE s == (n * One) \div t
<1>1. One \in Nat \ {0} /\ n * One \in Nat /\ n * One > 0
  <2>1. One \in Nat \ {0}
    BY SizeAssumption
  <2>2. One <= n * One
    BY <2>1, MulMono
  <2> QED
    BY <2>1, <2>2, MulNat
<1>2. s \in Nat /\ s * t <= n * One
  BY <1>1, DivBounds
<1>3. k * s \in 0 .. n * One
  <2>1. k * s <= t * s
    BY <1>2, MulMono
  <2>2. t * s = s * t
    BY <1>2
  <2> QED
    BY <1>1, <1>2, <2>1, <2>2, MulNat
<1>4. ASSUME k < t PROVE (k * s) \div One < n /\ (k + 1) * s = k * s + s
  <2>1. (k + 1) * s = k * s + s
    BY <1>2
  <2>2. (k + 1) * s <= t * s
    BY <1>2, <1>4, MulMono
  <2>3. k * s < n * One
    <3>1. CASE s = 0
      BY <1>1, <3>1
    <3>2. CASE s > 0
      <4>1. t * s = s * t
        BY <1>2
      <4> QED
        BY <1>1, <1>2, <1>3, <2>1, <2>2, <3>2, <4>1
    <3> QED
      BY <1>2, <3>1, <3>2
  <2>4. (k * s) \div One < n
    BY <1>1, <1>3, <2>3, DivBelow
  <2> QED
    BY <2>1, <2>4
<1> QED
  BY <1>2, <1>3, <1>4

\* The target of a picture that is too big has no side of nothing, fits the cell
\* and is no larger than the picture.
LEMMA TargetFits ==
    ASSUME w \in Sides, h \in Sides, w > 0, h > 0, TooBig
    PROVE  /\ Target[1] \in 1 .. AreaW /\ Target[1] <= w
           /\ Target[2] \in 1 .. AreaH /\ Target[2] <= h
<1>1. /\ AreaW \in Nat \ {0} /\ AreaH \in Nat \ {0} /\ MaxSide \in Nat
      /\ w \in Nat \ {0} /\ h \in Nat \ {0}
  BY SizeAssumption DEF Sides
<1>2. /\ w * AreaH \in Nat /\ h * AreaW \in Nat
      /\ (w * AreaH) \div h \in Nat /\ (h * AreaW) \div w \in Nat
  BY <1>1, MulNat, DivBounds
<1>3. CASE w * AreaH >= h * AreaW
  <2>1. AreaW <= w
    <3>1. SUFFICES ASSUME w < AreaW PROVE FALSE
      BY <1>1
    <3>2. h > AreaH
      BY <1>1, <3>1 DEF TooBig
    <3>3. w * AreaH <= AreaW * AreaH
      BY <1>1, <3>1, MulMono
    <3>4. (AreaH + 1) * AreaW <= h * AreaW
      BY <1>1, <3>2, MulMono
    <3>5. (AreaH + 1) * AreaW = AreaW * AreaH + AreaW
      BY <1>1
    <3> QED
      BY <1>1, <1>2, <1>3, <3>3, <3>4, <3>5, MulNat
  <2>2. (h * AreaW) \div w <= AreaH
    <3>1. h * AreaW <= AreaH * w
      BY <1>1, <1>3
    <3> QED
      BY <1>1, <1>2, <3>1, DivAtMost
  <2>3. (h * AreaW) \div w <= h
    <3>1. h * AreaW <= h * w
      BY <1>1, <2>1, MulMono
    <3> QED
      BY <1>1, <1>2, <3>1, DivAtMost
  <2>4. Target[1] = AreaW /\ Target[2] = OneAtLeast((h * AreaW) \div w)
    BY <1>3 DEF Target
  <2> QED
    BY <1>1, <1>2, <2>1, <2>2, <2>3, <2>4 DEF OneAtLeast
<1>4. CASE ~(w * AreaH >= h * AreaW)
  <2>1. AreaH <= h
    <3>1. SUFFICES ASSUME h < AreaH PROVE FALSE
      BY <1>1
    <3>2. w > AreaW
      BY <1>1, <3>1 DEF TooBig
    <3>3. h * AreaW <= AreaH * AreaW
      BY <1>1, <3>1, MulMono
    <3>4. AreaW * AreaH <= w * AreaH
      BY <1>1, <3>2, MulMono
    <3>5. AreaH * AreaW = AreaW * AreaH
      BY <1>1
    <3> QED
      BY <1>1, <1>2, <1>4, <3>3, <3>4, <3>5, MulNat
  <2>2. (w * AreaH) \div h <= AreaW
    <3>1. w * AreaH <= AreaW * h
      BY <1>1, <1>2, <1>4
    <3> QED
      BY <1>1, <1>2, <3>1, DivAtMost
  <2>3. (w * AreaH) \div h <= w
    <3>1. w * AreaH <= w * h
      BY <1>1, <2>1, MulMono
    <3> QED
      BY <1>1, <1>2, <3>1, DivAtMost
  <2>4. Target[1] = OneAtLeast((w * AreaH) \div h) /\ Target[2] = AreaH
    BY <1>4 DEF Target
  <2> QED
    BY <1>1, <1>2, <2>1, <2>2, <2>3, <2>4 DEF OneAtLeast
<1> QED
  BY <1>3, <1>4

-----------------------------------------------------------------------------
\* In the loops each sum is the step times the round, without a wrap-around,
\* and the picture is not empty from the check of its size on.
LoopInv ==
    stage = "loop" =>
        /\ tgtW \in 1 .. AreaW /\ tgtW <= w /\ tgtH \in 1 .. AreaH /\ tgtH <= h
        /\ x <= tgtW /\ y <= tgtH
        /\ xFp = x * XStep /\ yFp = y * YStep

NotEmpty == /\ stage \notin {"fetched", "sized", "skipped"} => w > 0 /\ h > 0
            /\ stage = "stored" => stored.w > 0 /\ stored.h > 0

IInv == ScaleTypeOK /\ LoopInv /\ NotEmpty

\* The left shift of a side does not overflow, so that the steps are those of
\* the lemma.
LEMMA StepsExact ==
    ASSUME w \in Sides, h \in Sides
    PROVE  /\ w * One \in 0 .. Word - 1 /\ h * One \in 0 .. Word - 1
           /\ XStep = (w * One) \div tgtW /\ YStep = (h * One) \div tgtH
<1>1. /\ MaxSide \in Nat /\ One \in Nat /\ Word \in Nat \ {0} /\ MaxSide * One < Word
      /\ w \in Nat /\ h \in Nat /\ w <= MaxSide /\ h <= MaxSide
  BY SizeAssumption DEF Sides
<1>2. w * One <= MaxSide * One /\ h * One <= MaxSide * One
  BY <1>1, MulMono
<1>3. w * One \in 0 .. Word - 1 /\ h * One \in 0 .. Word - 1
  BY <1>1, <1>2, MulNat
<1>4. (w * One) % Word = w * One /\ (h * One) % Word = h * One
  BY <1>1, <1>3
<1> QED
  BY <1>3, <1>4 DEF XStep, YStep

LEMMA InitIInv == ScaleInit => IInv
BY SizeAssumption DEF ScaleInit, IInv, ScaleTypeOK, LoopInv, NotEmpty, Sides, Bufs, NoPicture, NoWidget

LEMMA NextIInv == IInv /\ [ScaleNext]_scaleVars => IInv'
<1> SUFFICES ASSUME IInv, [ScaleNext]_scaleVars PROVE IInv'
  OBVIOUS
<1> USE DEF IInv, ScaleTypeOK, LoopInv, NotEmpty, infoVars, loopVars, Bufs
<1>0. /\ AreaW \in Nat \ {0} /\ AreaH \in Nat \ {0} /\ Pad \in Nat \ {0}
      /\ One \in Nat \ {0} /\ Zoom1 \in Nat \ {0} /\ Word \in Nat \ {0} /\ MaxSide \in Nat
  BY SizeAssumption
<1>1. ASSUME NEW a \in Sides, NEW b \in Sides, GetInfo(a, b) PROVE IInv'
  <2>1. ASSUME NEW n \in Sides PROVE Padded(n) \in Nat
    <3>1. n + Pad - 1 \in Nat
      BY <1>0 DEF Sides
    <3> QED
      BY <1>0, <3>1, DivBounds, MulNat DEF Padded
  <2>2. Padded(a) * Padded(b) * 2 \in Nat
    BY <2>1, MulNat
  <2>3. (Padded(a) * Padded(b) * 2) % Word \in 0 .. Word - 1
    BY <1>0, <2>2
  <2> QED
    BY <1>1, <2>1, <2>3 DEF GetInfo
<1>2. ASSUME NEW here, NEW freed, Skip(here, freed) PROVE IInv'
  BY <1>2 DEF Skip
<1>3. CASE KeepSize
  BY <1>3 DEF KeepSize, TooLargeOrEmpty, Sides
<1>4. ASSUME NEW here \in {"alloc", "engine"}, NEW next \in {"engine", "decode"},
             NEW buf \in Bufs, Take(here, next, buf)
      PROVE  IInv'
  BY <1>4 DEF Take
<1>5. CASE Decode
  BY <1>5 DEF Decode
<1>6. CASE NoScaling \/ ScaleFails
  BY <1>6 DEF NoScaling, ScaleFails
<1>7. CASE StartScaling
  <2>1. /\ Target[1] \in 1 .. AreaW /\ Target[1] <= w
        /\ Target[2] \in 1 .. AreaH /\ Target[2] <= h
    BY <1>7, TargetFits DEF StartScaling
  <2>2. ScaleTypeOK' /\ NotEmpty'
    BY <1>0, <1>7, <2>1 DEF StartScaling
  <2>3. LoopInv'
    <3>1. XStep' \in Nat /\ YStep' \in Nat
      <4>1. /\ XStep' = ((w * One) % Word) \div Target[1]
            /\ YStep' = ((h * One) % Word) \div Target[2]
        BY <1>7 DEF StartScaling, XStep, YStep
      <4>2. (w * One) % Word \in Nat /\ (h * One) % Word \in Nat
        BY <1>0, StepsExact
      <4> QED
        BY <1>0, <2>1, <4>1, <4>2, DivBounds
    <3>2. 0 = 0 * XStep' /\ 0 = 0 * YStep'
      BY <3>1, MulZero
    <3> QED
      BY <1>0, <1>7, <2>1, <3>2 DEF StartScaling
  <2> QED
    BY <2>2, <2>3
<1>8. CASE Pixel
  <2>1. /\ w \in Nat \ {0} /\ tgtW \in Nat \ {0} /\ x \in 0 .. tgtW /\ x + 1 \in 0 .. tgtW
    BY <1>0, <1>8 DEF Pixel, Sides
  <2>2. XStep = (w * One) \div tgtW /\ w * One \in 0 .. Word - 1
    BY <1>0, <1>8, StepsExact DEF Pixel
  <2>3. xFp' = (x + 1) * XStep /\ xFp' \in 0 .. Word - 1
    <3> DEFINE s == (w * One) \div tgtW
    <3>1. s \in Nat /\ x * s \in Nat /\ (x + 1) * s = x * s + s
      BY <2>1, StepInside
    <3>2. (x + 1) * s \in 0 .. w * One
      BY <2>1, StepInside
    <3>3. x * s + s \in 0 .. w * One
      BY <3>1, <3>2
    <3>4. xFp' = (x * s + s) % Word
      BY <1>8, <2>2 DEF Pixel
    <3> HIDE DEF s
    <3>5. (x * s + s) % Word = x * s + s
      BY <2>2, <3>1, <3>3, NoWrap
    <3>6. x * s + s \in 0 .. Word - 1
      BY <1>0, <2>2, <3>3
    <3>7. XStep = s
      BY <2>2 DEF s
    <3> QED
      BY <3>1, <3>4, <3>5, <3>6, <3>7
  <2>4. XStep' = XStep /\ YStep' = YStep
    BY <1>8 DEF Pixel, XStep, YStep
  <2> QED
    BY <1>0, <1>8, <2>1, <2>3, <2>4 DEF Pixel
<1>9. CASE NextRow
  <2>1. /\ h \in Nat \ {0} /\ tgtH \in Nat \ {0} /\ y \in 0 .. tgtH /\ y + 1 \in 0 .. tgtH
    BY <1>0, <1>9 DEF NextRow, Sides
  <2>2. YStep = (h * One) \div tgtH /\ h * One \in 0 .. Word - 1
    BY <1>0, <1>9, StepsExact DEF NextRow
  <2>3. yFp' = (y + 1) * YStep /\ yFp' \in 0 .. Word - 1
    <3> DEFINE s == (h * One) \div tgtH
    <3>1. s \in Nat /\ y * s \in Nat /\ (y + 1) * s = y * s + s
      BY <2>1, StepInside
    <3>2. (y + 1) * s \in 0 .. h * One
      BY <2>1, StepInside
    <3>3. y * s + s \in 0 .. h * One
      BY <3>1, <3>2
    <3>4. yFp' = (y * s + s) % Word
      BY <1>9, <2>2 DEF NextRow
    <3> HIDE DEF s
    <3>5. (y * s + s) % Word = y * s + s
      BY <2>2, <3>1, <3>3, NoWrap
    <3>6. y * s + s \in 0 .. Word - 1
      BY <1>0, <2>2, <3>3
    <3>7. YStep = s
      BY <2>2 DEF s
    <3> QED
      BY <3>1, <3>4, <3>5, <3>6, <3>7
  <2>4. XStep' = XStep /\ YStep' = YStep /\ XStep \in Nat
    <3>1. w \in Nat \ {0} /\ tgtW \in Nat \ {0} /\ 0 \in 0 .. tgtW
      BY <1>0, <1>9 DEF NextRow, Sides
    <3>2. XStep \in Nat
      BY <1>9, <3>1, StepInside, StepsExact DEF NextRow
    <3> QED
      BY <1>9, <3>2 DEF NextRow, XStep, YStep
  <2>5. 0 = 0 * XStep
    BY <2>4, MulZero
  <2> QED
    BY <1>0, <1>9, <2>1, <2>3, <2>4, <2>5 DEF NextRow
<1>10. CASE Scaled
  BY <1>0, <1>10 DEF Scaled, Sides
<1>11. CASE Store
  BY <1>0, <1>11 DEF Store, Sides
<1>12. CASE Show
  <2>1. stored.w \in Nat \ {0} /\ stored.h \in Nat \ {0}
    BY <1>12 DEF Show
  <2>2. Zoom \in Nat
    <3>1. AreaW * Zoom1 \in Nat /\ AreaH * Zoom1 \in Nat
      BY <1>0, MulNat
    <3> QED
      BY <2>1, <3>1, DivBounds DEF Zoom, Least
  <2>3. (stored.w * Zoom) \div Zoom1 \in Nat /\ (stored.h * Zoom) \div Zoom1 \in Nat
    BY <1>0, <2>1, <2>2, MulNat, DivBounds
  <2> QED
    BY <1>12, <2>3 DEF Show, OneAtLeast
<1>13. CASE UNCHANGED scaleVars
  BY <1>13 DEF scaleVars, XStep, YStep
<1>14. CASE PictureDone
  BY <1>13, <1>14 DEF PictureDone
<1> QED
  <2>1. CASE InfoFails \/ SkipSize \/ AllocFails \/ EngineFails \/ DecodeFails
    BY <1>2, <2>1 DEF InfoFails, SkipSize, AllocFails, EngineFails, DecodeFails
  <2>2. CASE AllocOutput \/ NewEngine
    BY <1>4, <2>2 DEF AllocOutput, NewEngine
  <2> QED
    BY <1>1, <1>3, <1>5, <1>6, <1>7, <1>8, <1>9, <1>10, <1>11, <1>12, <1>13, <1>14,
       <2>1, <2>2 DEF ScaleNext

-----------------------------------------------------------------------------
\* Types, for every cell size, fixed point and width of integers.
THEOREM ScaleTypes == ScaleSpec => []ScaleTypeOK
<1>1. IInv => ScaleTypeOK
  BY DEF IInv
<1> QED
  BY InitIInv, NextIInv, <1>1, PTL DEF ScaleSpec

\* The scaler never reads outside the picture (grocy_image_cache.c:251-262), for
\* every size of the picture and of the cell.
THEOREM ScalerReadsPicture == ScaleSpec => []ReadsPicture
<1>1. IInv => ReadsPicture
  <2> SUFFICES ASSUME IInv, stage = "loop", x < tgtW, y < tgtH
               PROVE  Column < w /\ Row < h
    BY DEF ReadsPicture
  <2> USE DEF IInv, ScaleTypeOK, LoopInv, NotEmpty
  <2>1. /\ w \in Nat \ {0} /\ h \in Nat \ {0}
        /\ tgtW \in Nat \ {0} /\ tgtH \in Nat \ {0}
        /\ x \in 0 .. tgtW /\ y \in 0 .. tgtH
    BY SizeAssumption DEF Sides
  <2>2. (x * XStep) \div One < w /\ (y * YStep) \div One < h
    BY <2>1, StepInside, StepsExact
  <2> QED
    BY <2>2 DEF Column, Row
<1> QED
  BY InitIInv, NextIInv, <1>1, PTL DEF ScaleSpec

-----------------------------------------------------------------------------
\* Which buffers are allocated at every place of the function.
HeapInv ==
    /\ stage \in {"fetched", "sized", "alloc"} => buffers = {"tmp"}
    /\ stage = "engine" => buffers = {"tmp", "rgb"}
    /\ stage = "decode" => buffers = {"tmp", "rgb", "engine"}
    /\ stage = "scale" => buffers = {"rgb"}
    /\ stage = "loop" => buffers = {"rgb", "scaled"}
    /\ stage = "store" => buffers \in {{"rgb"}, {"scaled"}}
    /\ stage \in {"stored", "shown"} => stored.data # "none" /\ buffers = {stored.data}
    /\ stage \notin {"stored", "shown"} => stored.data = "none"
    /\ stage = "skipped" => buffers = {}

LEMMA HeapStarts == ScaleInit => HeapInv
BY DEF ScaleInit, HeapInv, NoPicture

LEMMA HeapStep == IInv /\ HeapInv /\ [ScaleNext]_scaleVars => HeapInv'
<1> SUFFICES ASSUME IInv, HeapInv, [ScaleNext]_scaleVars PROVE HeapInv'
  OBVIOUS
<1> USE DEF HeapInv
<1>1. ASSUME NEW a \in Sides, NEW b \in Sides, GetInfo(a, b) PROVE HeapInv'
  BY <1>1 DEF GetInfo
<1>2. CASE InfoFails \/ SkipSize \/ AllocFails \/ EngineFails \/ DecodeFails
  BY <1>2 DEF InfoFails, SkipSize, AllocFails, EngineFails, DecodeFails, Skip
<1>3. CASE KeepSize \/ AllocOutput \/ NewEngine \/ Decode
  BY <1>3 DEF KeepSize, AllocOutput, NewEngine, Take, Decode
<1>4. CASE NoScaling \/ ScaleFails \/ StartScaling
  BY <1>4 DEF NoScaling, ScaleFails, StartScaling
<1>5. CASE Pixel \/ NextRow \/ Scaled
  BY <1>5 DEF Pixel, NextRow, Scaled
<1>6. CASE Store \/ Show
  BY <1>6 DEF Store, Show
<1>7. CASE PictureDone \/ UNCHANGED scaleVars
  BY <1>7 DEF PictureDone, scaleVars
<1> QED
  BY <1>1, <1>2, <1>3, <1>4, <1>5, <1>6, <1>7 DEF ScaleNext

\* No way out of the function keeps a buffer that is not stored
\* (grocy_image_cache.c:142-275).
THEOREM AllBuffersReturned == ScaleSpec => []NoBufferLeaks
<1>1. IInv /\ HeapInv => NoBufferLeaks
  BY DEF IInv, ScaleTypeOK, HeapInv, NoBufferLeaks
<1> QED
  BY InitIInv, NextIInv, HeapStarts, HeapStep, <1>1, PTL DEF ScaleSpec

-----------------------------------------------------------------------------
(* The size of the widget                                                  *)

LEMMA DivAtLeast ==
    ASSUME NEW a \in Nat, NEW b \in Nat \ {0}, NEW c \in Nat, c * b <= a
    PROVE  c <= a \div b
<1>1. a < (a \div b + 1) * b /\ a \div b \in Nat
  BY DivBounds
<1>2. SUFFICES ASSUME a \div b + 1 <= c PROVE FALSE
  BY <1>1
<1>3. (a \div b + 1) * b <= c * b
  BY <1>1, <1>2, MulMono
<1> QED
  BY <1>1, <1>3, MulNat

LEMMA DivExact == ASSUME NEW a \in Nat, NEW b \in Nat \ {0} PROVE (a * b) \div b = a
<1>1. a * b \in Nat
  BY MulNat
<1>2. (a * b) \div b <= a /\ a <= (a * b) \div b /\ (a * b) \div b \in Nat
  BY <1>1, DivAtMost, DivAtLeast, DivBounds
<1> QED
  BY <1>2

\* The picture that is stored has one side exactly as long as the cell's and no
\* side longer.
FillsCell(a, b) == a \in 1 .. AreaW /\ b \in 1 .. AreaH /\ (a = AreaW \/ b = AreaH)

FitInv ==
    /\ stage = "loop" => FillsCell(tgtW, tgtH)
    /\ stage = "store" /\ "scaled" \in buffers => FillsCell(w, h)
    /\ stage = "stored" /\ stored.data = "scaled" => FillsCell(stored.w, stored.h)
    /\ FitsCell

\* One side of the target is the cell's, the other is rounded down.
LEMMA TargetFills ==
    ASSUME w \in Sides, h \in Sides, w > 0, h > 0, TooBig
    PROVE  FillsCell(Target[1], Target[2])
BY TargetFits DEF FillsCell, Target

\* The zoom rounds down, and so does the size it gives.
LEMMA ZoomFits ==
    ASSUME stored.w \in Nat \ {0}, stored.h \in Nat \ {0}
    PROVE  /\ OneAtLeast((stored.w * Zoom) \div Zoom1) \in 1 .. AreaW
           /\ OneAtLeast((stored.h * Zoom) \div Zoom1) \in 1 .. AreaH
<1>1. /\ AreaW \in Nat \ {0} /\ AreaH \in Nat \ {0} /\ Zoom1 \in Nat \ {0}
      /\ AreaW * Zoom1 \in Nat /\ AreaH * Zoom1 \in Nat
  BY SizeAssumption, MulNat
<1> DEFINE zw == (AreaW * Zoom1) \div stored.w
           zh == (AreaH * Zoom1) \div stored.h
<1>2. /\ zw \in Nat /\ zw * stored.w <= AreaW * Zoom1
      /\ zh \in Nat /\ zh * stored.h <= AreaH * Zoom1
  BY <1>1, DivBounds
<1>3. Zoom \in Nat /\ Zoom <= zw /\ Zoom <= zh
  BY <1>2 DEF Zoom, Least
<1> HIDE DEF zw, zh
<1>4. stored.w * Zoom \in Nat /\ stored.w * Zoom <= AreaW * Zoom1
  <2>1. Zoom * stored.w <= zw * stored.w /\ Zoom * stored.w \in Nat /\ zw * stored.w \in Nat
    BY <1>2, <1>3, MulMono, MulNat
  <2>2. stored.w * Zoom = Zoom * stored.w
    BY <1>3
  <2> QED
    BY <1>1, <1>2, <2>1, <2>2
<1>5. stored.h * Zoom \in Nat /\ stored.h * Zoom <= AreaH * Zoom1
  <2>1. Zoom * stored.h <= zh * stored.h /\ Zoom * stored.h \in Nat /\ zh * stored.h \in Nat
    BY <1>2, <1>3, MulMono, MulNat
  <2>2. stored.h * Zoom = Zoom * stored.h
    BY <1>3
  <2> QED
    BY <1>1, <1>2, <2>1, <2>2
<1>6. /\ (stored.w * Zoom) \div Zoom1 \in Nat /\ (stored.w * Zoom) \div Zoom1 <= AreaW
      /\ (stored.h * Zoom) \div Zoom1 \in Nat /\ (stored.h * Zoom) \div Zoom1 <= AreaH
  BY <1>1, <1>4, <1>5, DivBounds, DivAtMost
<1> QED
  BY <1>1, <1>6 DEF OneAtLeast

\* A picture with a side of the cell's is shown one to one.
LEMMA ZoomIsOne ==
    ASSUME FillsCell(stored.w, stored.h)
    PROVE  /\ Zoom = Zoom1
           /\ OneAtLeast((stored.w * Zoom) \div Zoom1) = stored.w
           /\ OneAtLeast((stored.h * Zoom) \div Zoom1) = stored.h
<1>1. /\ AreaW \in Nat \ {0} /\ AreaH \in Nat \ {0} /\ Zoom1 \in Nat \ {0}
      /\ AreaW * Zoom1 \in Nat /\ AreaH * Zoom1 \in Nat
  BY SizeAssumption, MulNat
<1>2. /\ stored.w \in Nat \ {0} /\ stored.w <= AreaW
      /\ stored.h \in Nat \ {0} /\ stored.h <= AreaH
  BY <1>1 DEF FillsCell
<1>3. /\ Zoom1 <= (AreaW * Zoom1) \div stored.w /\ Zoom1 <= (AreaH * Zoom1) \div stored.h
      /\ (AreaW * Zoom1) \div stored.w \in Nat /\ (AreaH * Zoom1) \div stored.h \in Nat
  <2>1. Zoom1 * stored.w <= Zoom1 * AreaW /\ Zoom1 * stored.h <= Zoom1 * AreaH
    BY <1>1, <1>2, MulMono
  <2>2. Zoom1 * AreaW = AreaW * Zoom1 /\ Zoom1 * AreaH = AreaH * Zoom1
    BY <1>1
  <2> QED
    BY <1>1, <1>2, <2>1, <2>2, DivAtLeast, DivBounds
<1>4. /\ stored.w = AreaW => (AreaW * Zoom1) \div stored.w = Zoom1
      /\ stored.h = AreaH => (AreaH * Zoom1) \div stored.h = Zoom1
  <2>1. AreaW * Zoom1 = Zoom1 * AreaW /\ AreaH * Zoom1 = Zoom1 * AreaH
    BY <1>1
  <2>2. (Zoom1 * AreaW) \div AreaW = Zoom1 /\ (Zoom1 * AreaH) \div AreaH = Zoom1
    BY <1>1, DivExact
  <2> QED
    BY <2>1, <2>2
<1>5. Zoom = Zoom1
  BY <1>1, <1>3, <1>4 DEF FillsCell, Zoom, Least
<1>6. (stored.w * Zoom1) \div Zoom1 = stored.w /\ (stored.h * Zoom1) \div Zoom1 = stored.h
  BY <1>1, <1>2, DivExact
<1> QED
  BY <1>2, <1>5, <1>6 DEF OneAtLeast

\* What is shown fits the cell, and a scaled picture fills it one way and is not
\* stretched, for every size of the picture and of the cell
\* (ui_product_cell.c:72-88).
THEOREM PictureFits == ScaleSpec => []FitsCell
<1>1. ScaleInit => FitInv
  BY DEF ScaleInit, FitInv, FitsCell
<1>2. IInv /\ HeapInv /\ FitInv /\ [ScaleNext]_scaleVars => FitInv'
  <2> SUFFICES ASSUME IInv, HeapInv, FitInv, [ScaleNext]_scaleVars PROVE FitInv'
    OBVIOUS
  <2>1. CASE stage' \in {"fetched", "sized", "alloc", "engine", "decode", "scale", "skipped"}
    BY <2>1 DEF FitInv, FitsCell
  <2>2. CASE StartScaling
    <3>1. FillsCell(tgtW', tgtH') /\ stage' = "loop"
      BY <2>2, TargetFills DEF StartScaling, IInv, ScaleTypeOK, NotEmpty
    <3> QED
      BY <3>1 DEF FitInv, FitsCell, FillsCell
  <2>3. CASE NoScaling \/ ScaleFails
    <3>1. stage' = "store" /\ "scaled" \notin buffers'
      BY <2>3 DEF NoScaling, ScaleFails, HeapInv
    <3> QED
      BY <3>1 DEF FitInv, FitsCell
  <2>4. CASE Pixel \/ NextRow
    <3>1. stage = "loop" /\ stage' = "loop" /\ tgtW' = tgtW /\ tgtH' = tgtH
      BY <2>4 DEF Pixel, NextRow
    <3> QED
      BY <3>1 DEF FitInv, FitsCell, FillsCell
  <2>5. CASE Scaled
    <3>1. stage = "loop" /\ stage' = "store" /\ w' = tgtW /\ h' = tgtH
      BY <2>5 DEF Scaled
    <3> QED
      BY <3>1 DEF FitInv, FitsCell, FillsCell
  <2>6. CASE Store
    <3>1. /\ stage = "store" /\ stage' = "stored" /\ stored'.w = w /\ stored'.h = h
          /\ stored'.data = "scaled" => "scaled" \in buffers
      BY <2>6 DEF Store
    <3> QED
      BY <3>1 DEF FitInv, FitsCell, FillsCell
  <2>7. CASE Show
    <3>1. /\ stage = "stored" /\ stage' = "shown" /\ stored' = stored
          /\ widget'.w = OneAtLeast((stored.w * Zoom) \div Zoom1)
          /\ widget'.h = OneAtLeast((stored.h * Zoom) \div Zoom1)
          /\ widget'.stretch = (Zoom > Zoom1)
      BY <2>7 DEF Show
    <3>2. stored.w \in Nat \ {0} /\ stored.h \in Nat \ {0}
      BY <3>1 DEF IInv, ScaleTypeOK, NotEmpty
    <3>3. widget'.w \in 1 .. AreaW /\ widget'.h \in 1 .. AreaH
      BY <3>1, <3>2, ZoomFits
    <3>4. ASSUME stored.data = "scaled"
          PROVE  /\ ~widget'.stretch /\ widget'.w = stored.w /\ widget'.h = stored.h
                 /\ stored.w = AreaW \/ stored.h = AreaH
      <4>1. FillsCell(stored.w, stored.h)
        BY <3>1, <3>4 DEF FitInv
      <4>2. Zoom = Zoom1 /\ ~(Zoom1 > Zoom1)
        BY <4>1, ZoomIsOne, SizeAssumption
      <4> QED
        BY <3>1, <4>1, <4>2, ZoomIsOne DEF FillsCell
    <3>5. FitsCell'
      BY <3>1, <3>3, <3>4 DEF FitsCell
    <3> QED
      BY <3>1, <3>5 DEF FitInv
  <2>8. CASE PictureDone \/ UNCHANGED scaleVars
    <3>1. /\ stage' = stage /\ tgtW' = tgtW /\ tgtH' = tgtH /\ w' = w /\ h' = h
          /\ buffers' = buffers /\ stored' = stored /\ widget' = widget
      BY <2>8 DEF PictureDone, scaleVars, infoVars
    <3> QED
      BY <3>1 DEF FitInv, FitsCell, FillsCell
  <2> QED
    BY <2>1, <2>2, <2>3, <2>4, <2>5, <2>6, <2>7, <2>8
       DEF ScaleNext, GetInfo, InfoFails, SkipSize, KeepSize, AllocOutput, AllocFails, NewEngine,
           EngineFails, Decode, DecodeFails, Skip, Take
<1>3. FitInv => FitsCell
  BY DEF FitInv
<1> QED
  BY InitIInv, NextIInv, HeapStarts, HeapStep, <1>1, <1>2, <1>3, PTL DEF ScaleSpec
=============================================================================

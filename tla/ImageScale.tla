----------------------------- MODULE ImageScale -----------------------------
(***************************************************************************)
(* One picture on its way from the download to a cell: the JPEG branch of  *)
(* image_cache_fetch_and_store with its buffers and its fixed-point        *)
(* scaler, and the size ui_product_cell_create gives the widget.           *)
(*                                                                         *)
(* Integers are unsigned and Word values wide, as uint32_t is; a picture's *)
(* side has half of that width, as in a JPEG header.  A buffer has a size  *)
(* in pixels (two bytes each) and no contents.                             *)
(***************************************************************************)
EXTENDS Integers

CONSTANTS
    AreaW, AreaH,  \* UI_CELL_IMG_AREA_W, UI_CELL_IMG_H: the room in a cell
    Pad,           \* the decoder's output comes in blocks of 16 x 16 pixels
    Limit,         \* the most bytes a decoded picture may have
    One,           \* 1 << 16: a source pixel in the scaler's fixed point
    Zoom1,         \* 1024: a zoom of one to one
    Word,          \* 2^32
    MaxSide        \* the longest side a JPEG header can state

ASSUME SizeAssumption ==
    /\ AreaW \in Nat \ {0} /\ AreaH \in Nat \ {0} /\ Pad \in Nat \ {0}
    /\ Limit \in Nat /\ One \in Nat \ {0}
    /\ Zoom1 \in Nat \ {0} /\ Word \in Nat \ {0} /\ MaxSide \in Nat
    /\ MaxSide * One < Word
    /\ MaxSide * AreaW < Word /\ MaxSide * AreaH < Word

VARIABLES
    stage,       \* where image_cache_fetch_and_store is, or the cell's creation
    w, h,     \* pic_info.width, pic_info.height
    outW, outH, outSize,   \* the decoder's output: sides and bytes
    buffers,     \* the buffers that are allocated
    tgtW, tgtH,            \* the size after scaling
    x, y, xFp, yFp,        \* the scaler's loops
    stored,   \* the header of the cache entry
    widget    \* the cell's image: size and whether LVGL stretches it

infoVars == <<w, h, outW, outH, outSize>>
loopVars == <<x, y, xFp, yFp>>
scaleVars == <<stage, infoVars, buffers, tgtW, tgtH, loopVars, stored, widget>>

Sides == 0 .. MaxSide
Bufs  == {"tmp", "rgb", "engine", "scaled"}
NoPicture == [w |-> 0, h |-> 0, stride |-> 0, data |-> "none"]
NoWidget  == [w |-> 0, h |-> 0, stretch |-> FALSE]

ScaleTypeOK ==
    /\ stage \in {"fetched", "sized", "alloc", "engine", "decode", "scale", "loop",
               "store", "stored", "shown", "skipped"}
    /\ w \in Sides /\ h \in Sides /\ outW \in Nat /\ outH \in Nat
    /\ outSize \in 0 .. Word - 1 /\ buffers \subseteq Bufs
    /\ tgtW \in 0 .. AreaW /\ tgtH \in 0 .. AreaH
    /\ x \in 0 .. AreaW /\ y \in 0 .. AreaH
    /\ xFp \in 0 .. Word - 1 /\ yFp \in 0 .. Word - 1
    /\ stored.w \in Nat /\ stored.h \in Nat /\ stored.stride \in Nat
    /\ stored.data \in {"none", "rgb", "scaled"}
    /\ widget.w \in Nat /\ widget.h \in Nat /\ widget.stretch \in BOOLEAN

ScaleInit ==
    /\ stage = "fetched" /\ buffers = {"tmp"}
    /\ w = 0 /\ h = 0 /\ outW = 0 /\ outH = 0 /\ outSize = 0
    /\ tgtW = 0 /\ tgtH = 0 /\ x = 0 /\ y = 0 /\ xFp = 0 /\ yFp = 0
    /\ stored = NoPicture /\ widget = NoWidget

-----------------------------------------------------------------------------
\* (n + 15) & ~15
Padded(n) == ((n + Pad - 1) \div Pad) * Pad

\* jpeg_decoder_get_info; a progressive picture is reported as 0 x 0.
GetInfo(a, b) ==
    /\ stage = "fetched" /\ stage' = "sized"
    /\ w' = a /\ h' = b
    /\ outW' = Padded(a) /\ outH' = Padded(b)
    /\ outSize' = (Padded(a) * Padded(b) * 2) % Word
    /\ UNCHANGED <<buffers, tgtW, tgtH, loopVars, stored, widget>>

\* Every way out without a picture: what is still allocated is freed.
Skip(here, freed) ==
    /\ stage = here /\ stage' = "skipped" /\ buffers' = buffers \ freed
    /\ UNCHANGED <<infoVars, tgtW, tgtH, loopVars, stored, widget>>

InfoFails == Skip("fetched", {"tmp"})

TooLargeOrEmpty == w = 0 \/ h = 0 \/ outSize > Limit

SkipSize == TooLargeOrEmpty /\ Skip("sized", {"tmp"})

KeepSize == /\ stage = "sized" /\ ~TooLargeOrEmpty /\ stage' = "alloc"
            /\ UNCHANGED <<infoVars, buffers, tgtW, tgtH, loopVars, stored, widget>>

Take(here, next, buf) ==
    /\ stage = here /\ stage' = next /\ buffers' = buffers \cup {buf}
    /\ UNCHANGED <<infoVars, tgtW, tgtH, loopVars, stored, widget>>

AllocOutput == Take("alloc", "engine", "rgb")
AllocFails  == Skip("alloc", {"tmp"})
NewEngine   == Take("engine", "decode", "engine")

\* Mutated EngineFails: the output buffer is forgotten.
EngineFailsKeeps == Skip("engine", {"tmp"})

EngineFails == Skip("engine", {"rgb", "tmp"})

\* jpeg_decoder_process refuses a buffer that is too small for the picture.
Decodes == outW * outH * 2 <= outSize

\* The engine is deleted and the download freed, whatever it says.
Decode ==
    /\ stage = "decode" /\ Decodes
    /\ stage' = "scale" /\ buffers' = buffers \ {"engine", "tmp"}
    /\ UNCHANGED <<infoVars, tgtW, tgtH, loopVars, stored, widget>>

DecodeFails == Skip("decode", {"engine", "tmp", "rgb"})

-----------------------------------------------------------------------------
(* The scaler                                                              *)

OneAtLeast(n) == IF n = 0 THEN 1 ELSE n

\* The picture's size fitted into the cell, one side exactly.
Target == IF w * AreaH >= h * AreaW
          THEN <<AreaW, OneAtLeast((h * AreaW) \div w)>>
          ELSE <<OneAtLeast((w * AreaH) \div h), AreaH>>

TooBig == w > AreaW \/ h > AreaH

NoScaling == /\ stage = "scale" /\ ~TooBig /\ stage' = "store"
             /\ UNCHANGED <<infoVars, buffers, tgtW, tgtH, loopVars, stored, widget>>

\* No memory: the picture is stored as it was decoded.
ScaleFails == /\ stage = "scale" /\ TooBig /\ stage' = "store"
              /\ UNCHANGED <<infoVars, buffers, tgtW, tgtH, loopVars, stored, widget>>

StartScaling ==
    /\ stage = "scale" /\ TooBig /\ stage' = "loop"
    /\ tgtW' = Target[1] /\ tgtH' = Target[2]
    /\ buffers' = buffers \cup {"scaled"}
    /\ x' = 0 /\ y' = 0 /\ xFp' = 0 /\ yFp' = 0
    /\ UNCHANGED <<infoVars, stored, widget>>

\* Mutated XStep: the padded width is scaled.
XStepPadded == ((outW * One) % Word) \div tgtW

XStep == ((w * One) % Word) \div tgtW
YStep == ((h * One) % Word) \div tgtH

\* The source pixel of this round.
Column == xFp \div One
Row    == yFp \div One

\* dst[y * tgt_w + x] = src_row[x_fp >> 16], and on to the next.
Pixel ==
    /\ stage = "loop" /\ x < tgtW /\ y < tgtH
    /\ x' = x + 1 /\ xFp' = (xFp + XStep) % Word
    /\ UNCHANGED <<stage, infoVars, buffers, tgtW, tgtH, y, yFp, stored, widget>>

NextRow ==
    /\ stage = "loop" /\ x = tgtW /\ y < tgtH
    /\ x' = 0 /\ xFp' = 0 /\ y' = y + 1 /\ yFp' = (yFp + YStep) % Word
    /\ UNCHANGED <<stage, infoVars, buffers, tgtW, tgtH, stored, widget>>

\* The scaled picture takes the place of the decoded one.
Scaled ==
    /\ stage = "loop" /\ y = tgtH /\ stage' = "store"
    /\ buffers' = buffers \ {"rgb"}
    /\ w' = tgtW /\ h' = tgtH /\ outW' = tgtW /\ outH' = tgtH
    /\ UNCHANGED <<outSize, tgtW, tgtH, loopVars, stored, widget>>

-----------------------------------------------------------------------------
Store ==
    /\ stage = "store" /\ stage' = "stored"
    /\ stored' = [w |-> w, h |-> h, stride |-> outW,
                  data |-> IF "scaled" \in buffers THEN "scaled" ELSE "rgb"]
    /\ UNCHANGED <<infoVars, buffers, tgtW, tgtH, loopVars, widget>>

Least(a, b) == IF a < b THEN a ELSE b

\* Mutated Zoom: the larger of the two, which fills the cell.
ZoomFill == IF (AreaW * Zoom1) \div stored.w > (AreaH * Zoom1) \div stored.h
            THEN (AreaW * Zoom1) \div stored.w ELSE (AreaH * Zoom1) \div stored.h

\* The zoom that fits the picture into the cell, in 1024ths in the code.
Zoom == Least((AreaW * Zoom1) \div stored.w, (AreaH * Zoom1) \div stored.h)

\* ui_product_cell_create
Show ==
    /\ stage = "stored" /\ stage' = "shown"
    /\ widget' = [w |-> OneAtLeast((stored.w * Zoom) \div Zoom1),
                  h |-> OneAtLeast((stored.h * Zoom) \div Zoom1),
                  stretch |-> Zoom > Zoom1]
    /\ UNCHANGED <<infoVars, buffers, tgtW, tgtH, loopVars, stored>>

-----------------------------------------------------------------------------
PictureDone == stage \in {"shown", "skipped"} /\ UNCHANGED scaleVars

ScaleNext == \/ \E a, b \in Sides : GetInfo(a, b)
             \/ InfoFails \/ SkipSize \/ KeepSize \/ AllocOutput \/ AllocFails
             \/ NewEngine \/ EngineFails \/ Decode \/ DecodeFails
             \/ NoScaling \/ ScaleFails \/ StartScaling \/ Pixel \/ NextRow \/ Scaled
             \/ Store \/ Show \/ PictureDone

ScaleSpec == ScaleInit /\ [][ScaleNext]_scaleVars

-----------------------------------------------------------------------------
\* The scaler reads the picture and never the padding beside or below it, for
\* every size and every rounding of the two steps
\* (grocy_image_cache.c:251-262).
ReadsPicture == stage = "loop" /\ x < tgtW /\ y < tgtH => Column < w /\ Row < h

\* On every way out all buffers but the stored one are freed
\* (grocy_image_cache.c:142-275).
NoBufferLeaks == stage \in {"stored", "shown", "skipped"} => buffers = {stored.data} \ {"none"}

\* What is shown fits the cell, however far the zoom rounds; a scaled picture
\* fills the cell one way and is shown one to one, so that the two roundings,
\* of the scaler's target and of the zoom, agree (ui_product_cell.c:72-88).
FitsCell ==
    stage = "shown" =>
        /\ widget.w \in 1 .. AreaW /\ widget.h \in 1 .. AreaH
        /\ stored.data = "scaled" => /\ ~widget.stretch
                                     /\ widget.w = stored.w /\ widget.h = stored.h
                                     /\ stored.w = AreaW \/ stored.h = AreaH

=============================================================================

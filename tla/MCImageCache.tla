---------------------------- MODULE MCImageCache ----------------------------
(***************************************************************************)
(* Lists for ImageCache: each fits a cache of two slots, while the three   *)
(* products that come and go with them have one picture too many, just     *)
(* enough, or fewer, as Init chooses.                                      *)
(***************************************************************************)
EXTENDS ImageCache

TwoLists == {<<1, 2>>, <<3, 2>>}
=============================================================================

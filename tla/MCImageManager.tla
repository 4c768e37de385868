--------------------------- MODULE MCImageManager ---------------------------
(* ImageManager for TLC: goroutines, image names, archive files. *)
EXTENDS ImageManager, TLC

CONSTANTS c1, c2, c3, n1, n2, f1, f2

Apart == n1 :> f1 @@ n2 :> f2
TwoForOne == c1 :> n1 @@ c2 :> n1 @@ c3 :> n2
=============================================================================

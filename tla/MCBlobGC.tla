------------------------------ MODULE MCBlobGC ------------------------------
(* Instances of BlobGC for TLC.  One client commits the same blob under two *)
(* paths, the other commits that blob again.                                *)
EXTENDS BlobGC, TLC

CONSTANTS c1, c2, p1, p2, h1

Shared == (c1 :> {<<p1, h1>>, <<p2, h1>>}) @@ (c2 :> {<<p2, h1>>})
=============================================================================

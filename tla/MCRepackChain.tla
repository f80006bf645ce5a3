--------------------------- MODULE MCRepackChain ---------------------------
(* Package groups for TLC.  The serial runs use one shipped group with two *)
(* files, the concurrent ones add a second shipped group with one file; the *)
(* user group has one path.  Offsets are small and PazLimit (2^32 in the   *)
(* code) is reached after two or three saves, so that runs meet it.        *)
EXTENDS RepackChain, TLC

CONSTANTS g1, g2, u1, fa, fb, fc, fu, t1, t2

Has(at, len, f) == [at |-> at, len |-> len, file |-> f, ver |-> 0]
At(at, len)     == [at |-> at, len |-> len]

OneFiles == {fa, fb, fu}
OneGroupOf == (fa :> g1) @@ (fb :> g1) @@ (fu :> u1)
OnePaz  == g1 :> [size |-> 36, blobs |-> {Has(0, 10, fa), Has(16, 20, fb)}]
OneRecs == g1 :> ((fa :> At(0, 10)) @@ (fb :> At(16, 20)) @@ (fu :> NoRec))

TwoFiles == {fa, fc, fu}
TwoGroupOf == (fa :> g1) @@ (fc :> g2) @@ (fu :> u1)
TwoPaz  == (g1 :> [size |-> 10, blobs |-> {Has(0, 10, fa)}])
        @@ (g2 :> [size |-> 16, blobs |-> {Has(0, 16, fc)}])
TwoRecs == (g1 :> ((fa :> At(0, 10)) @@ (fc :> NoRec) @@ (fu :> NoRec)))
        @@ (g2 :> ((fa :> NoRec) @@ (fc :> At(0, 16)) @@ (fu :> NoRec)))
=============================================================================

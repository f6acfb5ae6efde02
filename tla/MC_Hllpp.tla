------------------------------ MODULE MC_Hllpp ------------------------------
(* Small instances of Hllpp for TLC. *)
EXTENDS HllppEstimate

CONSTANTS a, b, c

(* Three of the 64 hashes of six bits, at precisions 1 and 3: two share a *)
(* normal register, the extra index bits are zero for one of them, one has *)
(* nothing but zeros after its index, and the three together have one      *)
(* sparse register too many.                                               *)
MCHash == {1, 16, 45}

(* Received bodies: ranks up to the largest the decoder accepts, one dense *)
(* body that says less than a sparse one would, and two it refuses.        *)
MCBody == {[mode |-> "sparse", sparse |-> (0 :> 4 @@ 2 :> 1), dense |-> Zeros],
           [mode |-> "sparse", sparse |-> (4 :> 4), dense |-> Zeros],
           [mode |-> "dense", sparse |-> NoSparse, dense |-> (0 :> 0 @@ 1 :> 6)],
           [mode |-> "sparse", sparse |-> (0 :> 5), dense |-> Zeros],
           [mode |-> "dense", sparse |-> NoSparse, dense |-> (0 :> 7 @@ 1 :> 1)]}

(* 1000 n ln(n / (n - k)), and a table of eight entries: the sixth and the  *)
(* seventh are equally far from the raw estimate of ranks 1 and 6, and two *)
(* of the six nearest from that of ranks 1 and 2.  The biases have six     *)
(* significant bits, which is what an addition keeps, so that most sums of *)
(* three or more are rounded.                                              *)
MCLog == <<2, 1>> :> 1386 @@ <<8, 1>> :> 1068 @@ <<8, 2>> :> 2301
MCRawEstimate == <<936, 1500, 2100, 2600, 2892, 4100, 5000, 5760>>
MCBias == <<400, 352, 304, 240, 180, 110, 40, -20>>

(* One sketch has a keying of its own; the other two may change places.    *)
MCTwoKeyings == [s \in Sketch |-> IF s = c THEN "tool:v1" ELSE "prompt:v1"]
MCSymmetry == Permutations({a, b})
=============================================================================

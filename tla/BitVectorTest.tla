--------------------------- MODULE BitVectorTest ---------------------------
(***************************************************************************)
(* The test of bit_vector: numbers are appended one after another, each    *)
(* with as many bits as ceil_log2 gives, and all are read back.            *)
(***************************************************************************)
EXTENDS BitVectors

CONSTANTS Number, MaxNumbers    \* what is appended, and how often (bound)

VARIABLES bv, orig

vars == <<bv, orig>>

Init == bv = NewBits(0) /\ orig = <<>>

AppendNumber(x) ==
  /\ Len(orig) < MaxNumbers
  /\ orig' = Append(orig, x)
  /\ bv' = AppendBits(bv, x, CeilLog2(x))

Next == \E x \in Number : AppendNumber(x)

Spec == Init /\ [][Next]_vars

----------------------------------------------------------------------------
\* Where the k-th number begins.
Pos[k \in Nat] == IF k = 1 THEN 0 ELSE Pos[k - 1] + CeilLog2(orig[k - 1])

\* The assertion of the test: every number is read back as it was appended.
ReadsBack == \A k \in DOMAIN orig : GetBits(bv, Pos[k], CeilLog2(orig[k])) = orig[k]
=============================================================================

--------------------------- MODULE BijectiveHash ---------------------------
(***************************************************************************)
(* split_mix_hasher: a permutation of the numbers of a given width, and    *)
(* its inverse.  Three rounds mix high bits into low ones by a shift of    *)
(* half the width or more, which is its own inverse, and multiply by an    *)
(* odd number modulo the size of the universe.                             *)
(***************************************************************************)
EXTENDS Integers, Sequences, Bitwise

\* For each width the factors of the three rounds and their inverses.  The
\* table of the code goes on to 63 bits.
PRIME_TABLE ==
  << << <<1, 1, 1>>, <<1, 1, 1>> >>,
     << <<3, 1, 3>>, <<3, 1, 3>> >>,
     << <<7, 5, 3>>, <<7, 5, 3>> >>,
     << <<13, 11, 7>>, <<5, 3, 7>> >>,
     << <<31, 29, 23>>, <<31, 21, 7>> >>,
     << <<61, 59, 53>>, <<21, 51, 29>> >>,
     << <<127, 113, 109>>, <<127, 17, 101>> >>,
     << <<251, 241, 239>>, <<51, 17, 15>> >> >>

Widths == DOMAIN PRIME_TABLE

XorShift(bits, n, x) == x ^^ (x \div 2^(bits \div 2 + 1 + n))

\* hash_<N> and hash_inv_<N>
Mix(bits, n, x) == (XorShift(bits, n, x) * PRIME_TABLE[bits][1][n + 1]) % 2^bits
Unmix(bits, n, x) == XorShift(bits, n, (x * PRIME_TABLE[bits][2][n + 1]) % 2^bits)

SplitMix(bits, x) == Mix(bits, 2, Mix(bits, 1, Mix(bits, 0, x)))
SplitMixInv(bits, x) == Unmix(bits, 0, Unmix(bits, 1, Unmix(bits, 2, x)))

\* What the tables that store quotients rely on, and the hasher's test checks:
\* hash_inv undoes hash, at each width and for each number.
ASSUME SplitMixBijective ==
  \A bits \in Widths : \A x \in 0 .. 2^bits - 1 :
    /\ SplitMix(bits, x) \in 0 .. 2^bits - 1
    /\ SplitMixInv(bits, SplitMix(bits, x)) = x
=============================================================================

----------------------------- MODULE CodeTable -----------------------------
(***************************************************************************)
(* The codes that a map gives to characters, one after another, when they  *)
(* are met at a branch for the first time.                                 *)
(***************************************************************************)
EXTENDS Integers, FiniteSets

CONSTANTS
  CodeMax,    \* UINT8_MAX: the code that says that there is none
  Chars       \* the values of a byte that occur in keys; 0 is '\0'

ASSUME CodeAssumption == CodeMax \in Nat \ {0} /\ Chars \subseteq Nat /\ 0 \in Chars

VARIABLES
  is_ready,   \* whether the table was set up
  codes, num_codes

FreshCodes == [c \in Chars |-> IF c = 0 THEN 0 ELSE CodeMax]

\* Mutant: the code of the terminator is not counted.
FreshCount_None == 0

FreshCount == 1

\* A default-constructed object has no codes yet.
InitCodes ==
  /\ is_ready \in BOOLEAN
  /\ codes = IF is_ready THEN FreshCodes ELSE [c \in Chars |-> 0]
  /\ num_codes = IF is_ready THEN FreshCount ELSE 0

SetUpCodes ==
  /\ is_ready' = TRUE
  /\ IF is_ready THEN UNCHANGED <<codes, num_codes>>
                 ELSE codes' = FreshCodes /\ num_codes' = FreshCount

HasCode(c) == codes[c] # CodeMax

\* A code is one byte of the counter.
GiveCode(c) ==
  /\ codes' = [codes EXCEPT ![c] = num_codes % (CodeMax + 1)]
  /\ num_codes' = num_codes + 1

\* No two characters share a code.
CodesDiffer == is_ready => \A c, d \in Chars : codes[c] = codes[d] /\ HasCode(c) => c = d
=============================================================================

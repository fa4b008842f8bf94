---------------------------- MODULE MCKernelLaunch ----------------------------
(***************************************************************************)
(* Model checking of KernelLaunch and its ROM: small N-D ranges, one of    *)
(* them empty, and one of a kernel that is not orderly.                    *)
(***************************************************************************)
EXTENDS KernelRom, TLC

MCRanges ==
  { [dim |-> 1, groups |-> <<2, 1, 1>>, orderly |-> TRUE],
    [dim |-> 2, groups |-> <<1, 2, 1>>, orderly |-> FALSE],
    [dim |-> 3, groups |-> <<1, 1, 2>>, orderly |-> TRUE],
    [dim |-> 3, groups |-> <<0, 1, 1>>, orderly |-> TRUE] }

\* The loads and stores of the ROM are just wide enough for these ranges.
ASSUME RangesFit == GroupsFit

\* Neither threads nor blocks are compared or ordered.
Symmetry == Permutations(Threads) \cup Permutations(Blocks)
=============================================================================

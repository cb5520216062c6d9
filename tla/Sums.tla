-------------------------------- MODULE Sums --------------------------------
(***************************************************************************)
(* Sums of amounts over finite sets.                                       *)
(***************************************************************************)
EXTENDS Integers, FiniteSets, FiniteSetsExt

\* The sum of f[x] for x in S, and of all values of f.
SumOver(f, S) == MapThenSumSet(LAMBDA x : f[x], S)
Sum(f) == SumOver(f, DOMAIN f)
=============================================================================

------------------------------ MODULE Mempool -------------------------------
(***************************************************************************)
(* What Tendermint's mempool does with its list when a block is committed: *)
(* the block's transactions leave, the others keep their order.            *)
(***************************************************************************)
EXTENDS Integers, Sequences, FiniteSets

\* The elements of a sequence at the given positions, in their order: a set with
\* one member.
Selection(seq, positions) ==
    {[n \in DOMAIN f |-> seq[f[n]]] :
        f \in {g \in [1..Cardinality(positions) -> positions] :
                  \A m, n \in DOMAIN g : m < n => g[m] < g[n]}}
=============================================================================

------------------------------ MODULE MCPager ------------------------------
EXTENDS Pager, TLC

Symmetry == Permutations(Conns)

\* A run ends where nothing is promised any more. What a misled connection reads is
\* followed, as long as another transaction could still begin.
Promised == ~spoiled /\ (misled # {} => tx < MaxTx)
=============================================================================

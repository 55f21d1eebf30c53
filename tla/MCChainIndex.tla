---------------------------- MODULE MCChainIndex ----------------------------
(* A block is the path from genesis to it: one label per height, the label *)
(* 1 marking a fork.  A path with more than MaxForks forks is left out.    *)
EXTENDS ChainIndex, Sequences, FiniteSets

CONSTANTS MaxForks

Paths(len) == {p \in [1 .. len -> {0, 1}] :
                 p[1] = 0 /\ Cardinality({i \in 1 .. len : p[i] = 1}) <= MaxForks}

MCBlock == UNION {Paths(len) : len \in 1 .. MaxHeight + 1}
MCGenesis == <<0>>
MCHeightOf(b) == Len(b) - 1
MCAt(b, h) == SubSeq(b, 1, h + 1)

=============================================================================

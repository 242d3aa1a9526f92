------------------------- MODULE MCInstantSendNetwork -------------------------
(* Model-checking instance of InstantSendNetwork. *)
EXTENDS InstantSendNetwork, TLC

CONSTANTS A, B, o1, m1, m2, m3, f, n1

\* A and B spend the same output, on which every masternode may vote.
BothSpend == [t \in Txs |-> {o1}]
AllRank == [o \in Outpoints |-> Masternodes]

\* m2 and m3 are honest masternodes whose own nodes are not looked at.
Symmetry == Permutations({m2, m3})
=============================================================================

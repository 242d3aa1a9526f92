----------------------------- MODULE InstantLocks -----------------------------
(***************************************************************************)
(* What one node's InstantSend promises, without candidates, memory pool,  *)
(* blocks or clocks: it completes a transaction lock only on a quorum of   *)
(* votes that it has heard for every input, and never over another lock;   *)
(* and the masternode it may run votes at most once on an outpoint.        *)
(* InstantSend implements this specification; InstantSendNetwork composes  *)
(* many such nodes.                                                        *)
(***************************************************************************)
EXTENDS Integers, FiniteSets

CONSTANTS
    Txs, Outpoints,
    Spends,           \* Spends[t]: the outpoints that transaction t spends
    Masternodes,
    Quorum,           \* Quorum[o]: the masternodes that may vote on o
    Self,             \* the masternode this node runs, if any
    NoTx,
    SIGNATURES_REQUIRED

VARIABLES
    signed,           \* the votes that masternodes have signed so far
    heard,            \* the valid votes this node has processed so far
    locked            \* mapLockedOutpoints

vars == <<signed, heard, locked>>

Votes == [tx : Txs, out : Outpoints, mn : Masternodes]

Voters(S, t, o) == {m \in Quorum[o] : [tx |-> t, out |-> o, mn |-> m] \in S}

HasQuorum(S, t) ==
    \A o \in Spends[t] : Cardinality(Voters(S, t, o)) >= SIGNATURES_REQUIRED

VotesOnce(S, m) ==
    \A v, w \in S : v.mn = m /\ w.mn = m /\ v.out = w.out => v.tx = w.tx

Init ==
    /\ signed \subseteq Votes /\ VotesOnce(signed, Self)
    /\ heard = {}
    /\ locked = [o \in Outpoints |-> NoTx]

\* Masternodes sign votes, this node's own once per outpoint.
Sign ==
    /\ signed \subseteq signed' /\ signed' \subseteq Votes
    /\ VotesOnce(signed', Self)

\* Votes arrive in any order, late or never, and may be this node's own.
Hear == heard \subseteq heard' /\ heard' \subseteq signed'

\* The lock on t completes.
Complete(t) ==
    /\ HasQuorum(heard', t)
    /\ \A o \in Spends[t] : locked[o] \in {NoTx, t}
    /\ locked' = [o \in Outpoints |-> IF o \in Spends[t] THEN t ELSE locked[o]]

\* Locks are released, or nothing happens to them.
Release ==
    \E O \in SUBSET Outpoints :
        locked' = [o \in Outpoints |-> IF o \in O THEN NoTx ELSE locked[o]]

Next == Sign /\ Hear /\ (Release \/ \E t \in Txs : Complete(t))

Spec == Init /\ [][Next]_vars
=============================================================================

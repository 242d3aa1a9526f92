-------------------------- MODULE InstantSendNetwork --------------------------
(***************************************************************************)
(* The network of nodes that run InstantSend.  Each node is an instance of *)
(* InstantLocks, which module InstantSend implements; they share the votes *)
(* that masternodes sign and relay.  A relayed vote may reach a node late, *)
(* out of order, several times or never, so a node may hear any subset.    *)
(*                                                                         *)
(* Faulty masternodes sign any votes.  A masternode that forgets its votes *)
(* (all of CInstantSend is lost in a restart) counts as faulty from the    *)
(* start.                                                                  *)
(***************************************************************************)
EXTENDS Integers, FiniteSets

CONSTANTS
    Nodes,            \* the nodes we look at; some may be masternodes
    Txs, Outpoints, Spends, Masternodes, Quorum, NoTx, SIGNATURES_REQUIRED,
    Faulty            \* masternodes that need not follow the code

\* Two quorums for one outpoint share a masternode that is not faulty.  With 6 of
\* 10 signatures this allows one faulty masternode in the ten.
ASSUME QuorumAssumption ==
    /\ Spends \in [Txs -> SUBSET Outpoints]
    /\ Quorum \in [Outpoints -> SUBSET Masternodes]
    /\ SIGNATURES_REQUIRED \in Nat
    /\ \A o \in Outpoints :
          /\ IsFiniteSet(Quorum[o])
          /\ 2 * SIGNATURES_REQUIRED
               > Cardinality(Quorum[o]) + Cardinality(Quorum[o] \cap Faulty)

ASSUME NamesAssumption == NoTx \notin Txs

VARIABLES
    signed,           \* the votes signed so far
    heard,            \* heard[n]: the votes node n has processed
    locked,           \* locked[n]: n's mapLockedOutpoints
    completed         \* history: the transactions some node has ever locked

vars == <<signed, heard, locked, completed>>

Votes == [tx : Txs, out : Outpoints, mn : Masternodes]
Vote(t, o, m) == [tx |-> t, out |-> o, mn |-> m]

Voters(S, t, o) == {m \in Quorum[o] : Vote(t, o, m) \in S}

OneVoteShort(S, t) ==
    \A o \in Spends[t] : Cardinality(Voters(S, t, o)) >= SIGNATURES_REQUIRED - 1

\* IsAllOutPointsReady.
HasQuorum(S, t) ==
    \A o \in Spends[t] : Cardinality(Voters(S, t, o)) >= SIGNATURES_REQUIRED

Conflict(t, u) == t # u /\ Spends[t] \cap Spends[u] # {}

VotesOnThisTxOnly(m, t, o) == Vote(t, o, m) \notin signed

\* Vote: m has not voted on o for any transaction.
MayVote(m, t, o) == \A v \in signed : ~(v.mn = m /\ v.out = o)

Init ==
    /\ signed = {}
    /\ heard = [n \in Nodes |-> {}]
    /\ locked = [n \in Nodes |-> [o \in Outpoints |-> NoTx]]
    /\ completed = {}

\* TryToFinalizeLockCandidate at node n, which has heard the votes H: nothing
\* happens (too few votes, a conflict, a timeout), or a lock completes.
Finalize(n, H) ==
    \/ UNCHANGED <<locked, completed>>
    \/ \E t \in Txs :
         /\ HasQuorum(H, t)
         /\ \A o \in Spends[t] : locked[n][o] \in {NoTx, t}
         /\ locked' = [locked EXCEPT ![n] =
                         [o \in Outpoints |-> IF o \in Spends[t] THEN t ELSE @[o]]]
         /\ completed' = completed \cup {t}

\* A masternode votes for its share of t's inputs, and counts its votes itself.
CastVote(m, t, o) ==
    /\ m \in Quorum[o] \ Faulty /\ o \in Spends[t]
    /\ MayVote(m, t, o)
    /\ signed' = signed \cup {Vote(t, o, m)}
    /\ IF m \in Nodes
       THEN /\ heard' = [heard EXCEPT ![m] = @ \cup {Vote(t, o, m)}]
            /\ Finalize(m, heard[m] \cup {Vote(t, o, m)})
       ELSE UNCHANGED <<heard, locked, completed>>

SignAnything(m, t, o) ==
    /\ m \in Faulty /\ m \in Masternodes
    /\ signed' = signed \cup {Vote(t, o, m)}
    /\ UNCHANGED <<heard, locked, completed>>

\* ProcessTxLockVote or ProcessTxLockRequest at node n, with a vote relayed to it.
Process(n, v) ==
    /\ heard' = [heard EXCEPT ![n] = @ \cup {v}]
    /\ Finalize(n, heard[n] \cup {v})
    /\ UNCHANGED signed

\* CheckAndRemove, two conflicting locks dropped, or a restart of node n.
Release(n, O) ==
    /\ locked' = [locked EXCEPT ![n] =
                    [o \in Outpoints |-> IF o \in O THEN NoTx ELSE @[o]]]
    /\ UNCHANGED <<signed, heard, completed>>

Next ==
    \/ \E m \in Masternodes, t \in Txs, o \in Outpoints :
          CastVote(m, t, o) \/ SignAnything(m, t, o)
    \/ \E n \in Nodes : \E v \in signed : Process(n, v)
    \/ \E n \in Nodes : \E O \in SUBSET Outpoints : Release(n, O)

Spec == Init /\ [][Next]_vars

-----------------------------------------------------------------------------

TypeOK ==
    /\ signed \subseteq Votes
    /\ heard \in [Nodes -> SUBSET Votes]
    /\ locked \in [Nodes -> [Outpoints -> Txs \cup {NoTx}]]
    /\ completed \subseteq Txs

\* Two transactions that spend the same output are never both locked, at any
\* two nodes and at any two times: what a merchant relies on who treats a locked
\* transaction as confirmed (IsLockedInstantSendTransaction, GetConfirmations).
Agreement == \A t, u \in completed : ~Conflict(t, u)

\* What any node has locked at the moment agrees with what any other has.
LocksAgree ==
    \A n, p \in Nodes : \A o \in Outpoints :
        locked[n][o] # NoTx /\ locked[p][o] # NoTx => locked[n][o] = locked[p][o]

\* The inductive invariant: honest masternodes vote once per outpoint, nodes
\* hear only what was signed, and whatever was ever locked has a signed quorum.
HonestVoteOnce ==
    \A v, w \in signed :
        v.mn \notin Faulty /\ v.mn = w.mn /\ v.out = w.out => v.tx = w.tx

HeardWasSigned == \A n \in Nodes : heard[n] \subseteq signed

CompletedHaveQuorums == \A t \in completed : HasQuorum(signed, t)

LocksWereCompleted ==
    \A n \in Nodes : \A o \in Outpoints :
        locked[n][o] # NoTx =>
            locked[n][o] \in completed /\ o \in Spends[locked[n][o]]

\* The parts above together are inductive: no step of CastVote, SignAnything,
\* Process or Release breaks them.
IInv ==
    /\ TypeOK
    /\ HonestVoteOnce
    /\ HeardWasSigned
    /\ CompletedHaveQuorums
    /\ LocksWereCompleted

-----------------------------------------------------------------------------
(* Every node is an InstantLocks.                                          *)

Node(n) == INSTANCE InstantLocks WITH
              Self <- n, heard <- heard[n], locked <- locked[n]

\* Each node that is not a faulty masternode behaves as InstantLocks says, which
\* is what InstantSend is shown to implement.
NodesAreInstantLocks ==
    /\ \A n \in Nodes \ Faulty : Node(n)!Init
    /\ [][\A n \in Nodes \ Faulty : Node(n)!Next]_vars
=============================================================================

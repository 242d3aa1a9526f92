----------------------- MODULE InstantSendNetworkProofs -----------------------
(***************************************************************************)
(* InstantSend's safety for any number of nodes, masternodes, transactions *)
(* and outpoints: two conflicting transactions are never both locked.      *)
(***************************************************************************)
EXTENDS InstantSendNetwork, FiniteSetTheorems, TLAPS

\* Two sets of SIGNATURES_REQUIRED masternodes of one quorum have a member in
\* common that is not faulty (COutPointLock::SIGNATURES_REQUIRED and _TOTAL).
LEMMA QuorumsIntersect ==
    ASSUME NEW o \in Outpoints,
           NEW P \in SUBSET Quorum[o], NEW Q \in SUBSET Quorum[o],
           Cardinality(P) >= SIGNATURES_REQUIRED,
           Cardinality(Q) >= SIGNATURES_REQUIRED
    PROVE  \E m \in P \cap Q : m \notin Faulty
<1> DEFINE F == Quorum[o] \cap Faulty
<1>1. /\ IsFiniteSet(Quorum[o])
      /\ SIGNATURES_REQUIRED \in Nat
      /\ 2 * SIGNATURES_REQUIRED > Cardinality(Quorum[o]) + Cardinality(F)
    BY QuorumAssumption
<1>2. /\ IsFiniteSet(P) /\ IsFiniteSet(Q) /\ IsFiniteSet(F)
      /\ IsFiniteSet(P \cup Q) /\ IsFiniteSet(P \cap Q)
    <2>1. /\ P \subseteq Quorum[o] /\ Q \subseteq Quorum[o] /\ F \subseteq Quorum[o]
          /\ P \cup Q \subseteq Quorum[o] /\ P \cap Q \subseteq Quorum[o]
        OBVIOUS
    <2> QED  BY <1>1, <2>1, FS_Subset
<1>3. /\ Cardinality(P) \in Nat /\ Cardinality(Q) \in Nat /\ Cardinality(F) \in Nat
      /\ Cardinality(P \cup Q) \in Nat /\ Cardinality(P \cap Q) \in Nat
      /\ Cardinality(Quorum[o]) \in Nat
    BY <1>1, <1>2, FS_CardinalityType
<1>4. Cardinality(P \cup Q)
        = Cardinality(P) + Cardinality(Q) - Cardinality(P \cap Q)
    BY <1>2, FS_Union
<1>5. Cardinality(P \cup Q) <= Cardinality(Quorum[o])
    <2>1. P \cup Q \subseteq Quorum[o]
        OBVIOUS
    <2> QED  BY <1>1, <2>1, FS_Subset
<1>6. Cardinality(P \cap Q) > Cardinality(F)
    <2> HIDE DEF F
    <2> QED  BY <1>1, <1>3, <1>4, <1>5
<1>7. ~(P \cap Q \subseteq F)
    <2>1. SUFFICES ASSUME P \cap Q \subseteq F PROVE FALSE
        OBVIOUS
    <2>2. Cardinality(P \cap Q) <= Cardinality(F)
        BY <2>1, <1>2, FS_Subset
    <2> HIDE DEF F
    <2> QED  BY <2>2, <1>6, <1>3
<1> QED  BY <1>7

\* More votes never destroy a quorum.
LEMMA QuorumsGrow ==
    ASSUME NEW S, NEW T, S \subseteq T, NEW t \in Txs, HasQuorum(S, t)
    PROVE  HasQuorum(T, t)
<1> SUFFICES ASSUME NEW o \in Spends[t]
             PROVE  Cardinality(Voters(T, t, o)) >= SIGNATURES_REQUIRED
    BY DEF HasQuorum
<1>1. /\ o \in Outpoints /\ IsFiniteSet(Quorum[o]) /\ SIGNATURES_REQUIRED \in Nat
    BY QuorumAssumption
<1>2. /\ Voters(S, t, o) \subseteq Voters(T, t, o)
      /\ Voters(T, t, o) \subseteq Quorum[o]
    BY DEF Voters
<1>3. IsFiniteSet(Voters(T, t, o)) /\ IsFiniteSet(Voters(S, t, o))
    BY <1>1, <1>2, FS_Subset
<1>4. Cardinality(Voters(S, t, o)) <= Cardinality(Voters(T, t, o))
    BY <1>2, <1>3, FS_Subset
<1>5. Cardinality(Voters(S, t, o)) \in Nat /\ Cardinality(Voters(T, t, o)) \in Nat
    BY <1>3, FS_CardinalityType
<1>6. Cardinality(Voters(S, t, o)) >= SIGNATURES_REQUIRED
    BY DEF HasQuorum
<1> QED  BY <1>1, <1>4, <1>5, <1>6

\* New votes leave the quorums behind the completed locks intact.
LEMMA CompletedStay ==
    ASSUME IInv, signed \subseteq signed', completed' = completed
    PROVE  CompletedHaveQuorums'
<1>1. \A t \in completed : HasQuorum(signed', t)
    BY QuorumsGrow DEF IInv, TypeOK, CompletedHaveQuorums
<1> QED  BY <1>1 DEF CompletedHaveQuorums, HasQuorum, Voters

\* TryToFinalizeLockCandidate: a node that has heard only signed votes adds to the
\* locks only transactions with a quorum of signed votes.
LEMMA FinalizeKeeps ==
    ASSUME IInv, NEW n \in Nodes, NEW H, H \subseteq signed',
           signed \subseteq signed', Finalize(n, H)
    PROVE  /\ locked' \in [Nodes -> [Outpoints -> Txs \cup {NoTx}]]
           /\ completed' \subseteq Txs
           /\ CompletedHaveQuorums'
           /\ LocksWereCompleted'
<1> USE DEF IInv, TypeOK
<1>1. \A t \in completed : HasQuorum(signed', t)
    BY QuorumsGrow DEF CompletedHaveQuorums
<1>2. CASE UNCHANGED <<locked, completed>>
    <2>1. CompletedHaveQuorums'
        BY <1>2, CompletedStay
    <2> QED  BY <1>2, <2>1 DEF LocksWereCompleted
<1>3. ASSUME NEW t \in Txs,
             HasQuorum(H, t),
             locked' = [locked EXCEPT ![n] =
                          [o \in Outpoints |-> IF o \in Spends[t] THEN t ELSE @[o]]],
             completed' = completed \cup {t}
      PROVE  /\ locked' \in [Nodes -> [Outpoints -> Txs \cup {NoTx}]]
             /\ completed' \subseteq Txs
             /\ CompletedHaveQuorums'
             /\ LocksWereCompleted'
    <2>1. HasQuorum(signed', t)
        BY <1>3, QuorumsGrow
    <2>2. CompletedHaveQuorums'
        BY <1>1, <1>3, <2>1 DEF CompletedHaveQuorums, HasQuorum, Voters
    <2>3. LocksWereCompleted'
        BY <1>3, QuorumAssumption DEF LocksWereCompleted
    <2> QED  BY <1>3, <2>2, <2>3
<1> QED  BY <1>2, <1>3 DEF Finalize

\* The strengthened invariant: honest masternodes vote once per outpoint (Vote's
\* "refuse to vote twice"), nodes count only signed votes, and every lock ever
\* completed rests on a quorum of votes that were signed.
THEOREM Invariance == Spec => []IInv
<1>1. Init => IInv
    BY DEF Init, IInv, TypeOK, HonestVoteOnce, HeardWasSigned,
           CompletedHaveQuorums, LocksWereCompleted, Votes
<1>2. IInv /\ [Next]_vars => IInv'
    <2> SUFFICES ASSUME IInv, [Next]_vars PROVE IInv'
        OBVIOUS
    <2>1. ASSUME NEW m \in Masternodes, NEW t \in Txs, NEW o \in Outpoints,
                 CastVote(m, t, o)
          PROVE  IInv'
        <3> DEFINE v == Vote(t, o, m)
        <3>1. v \in Votes /\ signed' = signed \cup {v}
            BY <2>1 DEF CastVote, Votes, Vote
        <3>2. signed' \subseteq Votes /\ signed \subseteq signed'
            BY <3>1 DEF IInv, TypeOK
        <3>3. HonestVoteOnce'
            BY <2>1, <3>1 DEF CastVote, MayVote, Vote, IInv, HonestVoteOnce
        <3>4. CASE m \in Nodes
            <4>1. /\ heard' = [heard EXCEPT ![m] = @ \cup {v}]
                  /\ Finalize(m, heard[m] \cup {v})
                BY <2>1, <3>4 DEF CastVote
            <4>2. heard' \in [Nodes -> SUBSET Votes] /\ HeardWasSigned'
                BY <4>1, <3>1 DEF IInv, TypeOK, HeardWasSigned
            <4>3. heard[m] \cup {v} \subseteq signed'
                BY <3>1, <3>4 DEF IInv, HeardWasSigned
            <4>4. /\ locked' \in [Nodes -> [Outpoints -> Txs \cup {NoTx}]]
                  /\ completed' \subseteq Txs
                  /\ CompletedHaveQuorums'
                  /\ LocksWereCompleted'
                BY <3>2, <3>4, <4>1, <4>3, FinalizeKeeps
            <4> QED  BY <3>2, <3>3, <4>2, <4>4 DEF IInv, TypeOK
        <3>5. CASE m \notin Nodes
            <4>1. UNCHANGED <<heard, locked, completed>>
                BY <2>1, <3>5 DEF CastVote
            <4>2. CompletedHaveQuorums'
                BY <3>2, <4>1, CompletedStay
            <4> QED  BY <3>2, <3>3, <4>1, <4>2
                     DEF IInv, TypeOK, HeardWasSigned, LocksWereCompleted
        <3> QED  BY <3>4, <3>5
    <2>2. ASSUME NEW m \in Masternodes, NEW t \in Txs, NEW o \in Outpoints,
                 SignAnything(m, t, o)
          PROVE  IInv'
        <3>1. /\ Vote(t, o, m) \in Votes /\ signed' = signed \cup {Vote(t, o, m)}
              /\ m \in Faulty /\ UNCHANGED <<heard, locked, completed>>
            BY <2>2 DEF SignAnything, Votes, Vote
        <3>2. signed' \subseteq Votes /\ signed \subseteq signed'
            BY <3>1 DEF IInv, TypeOK
        <3>3. HonestVoteOnce'
            BY <3>1 DEF Vote, IInv, HonestVoteOnce
        <3>4. CompletedHaveQuorums'
            BY <3>1, <3>2, CompletedStay
        <3> QED  BY <3>1, <3>2, <3>3, <3>4
                 DEF IInv, TypeOK, HeardWasSigned, LocksWereCompleted
    <2>3. ASSUME NEW n \in Nodes, NEW v \in signed, Process(n, v)
          PROVE  IInv'
        <3>1. /\ heard' = [heard EXCEPT ![n] = @ \cup {v}]
              /\ Finalize(n, heard[n] \cup {v}) /\ signed' = signed
            BY <2>3 DEF Process
        <3>2. heard' \in [Nodes -> SUBSET Votes] /\ HeardWasSigned'
            BY <3>1 DEF IInv, TypeOK, HeardWasSigned
        <3>3. heard[n] \cup {v} \subseteq signed'
            BY <3>1 DEF IInv, HeardWasSigned
        <3>4. /\ locked' \in [Nodes -> [Outpoints -> Txs \cup {NoTx}]]
              /\ completed' \subseteq Txs
              /\ CompletedHaveQuorums'
              /\ LocksWereCompleted'
            BY <3>1, <3>3, FinalizeKeeps
        <3> QED  BY <3>1, <3>2, <3>4 DEF IInv, TypeOK, HonestVoteOnce
    <2>4. ASSUME NEW n \in Nodes, NEW O \in SUBSET Outpoints, Release(n, O)
          PROVE  IInv'
        <3>1. /\ locked' = [locked EXCEPT ![n] =
                              [o \in Outpoints |-> IF o \in O THEN NoTx ELSE @[o]]]
              /\ UNCHANGED <<signed, heard, completed>>
            BY <2>4 DEF Release
        <3>2. locked' \in [Nodes -> [Outpoints -> Txs \cup {NoTx}]]
            BY <3>1 DEF IInv, TypeOK
        <3>3. LocksWereCompleted'
            BY <3>1 DEF IInv, TypeOK, LocksWereCompleted
        <3>4. CompletedHaveQuorums'
            BY <3>1, CompletedStay
        <3> QED  BY <3>1, <3>2, <3>3, <3>4
                 DEF IInv, TypeOK, HonestVoteOnce, HeardWasSigned
    <2>5. CASE UNCHANGED vars
        <3>1. UNCHANGED <<signed, heard, locked, completed>>
            BY <2>5 DEF vars
        <3>2. CompletedHaveQuorums'
            BY <3>1, CompletedStay
        <3> QED  BY <3>1, <3>2
                 DEF IInv, TypeOK, HonestVoteOnce, HeardWasSigned, LocksWereCompleted
    <2> QED  BY <2>1, <2>2, <2>3, <2>4, <2>5 DEF Next
<1> QED  BY <1>1, <1>2, PTL DEF Spec

\* Two transactions that were ever locked, by whichever nodes, do not conflict.
LEMMA QuorumsPreventConflicts == IInv => Agreement
<1> SUFFICES ASSUME IInv, NEW t \in completed, NEW u \in completed,
                    NEW o \in Spends[t] \cap Spends[u]
             PROVE  t = u
    BY DEF Agreement, Conflict
<1>1. t \in Txs /\ u \in Txs
    BY DEF IInv, TypeOK
<1>2. o \in Outpoints
    BY <1>1, QuorumAssumption
<1> DEFINE P == Voters(signed, t, o)
           Q == Voters(signed, u, o)
<1>3. P \in SUBSET Quorum[o] /\ Q \in SUBSET Quorum[o]
    BY DEF Voters
<1>4. Cardinality(P) >= SIGNATURES_REQUIRED /\ Cardinality(Q) >= SIGNATURES_REQUIRED
    BY DEF IInv, CompletedHaveQuorums, HasQuorum
<1>5. PICK m \in P \cap Q : m \notin Faulty
    <2> HIDE DEF P, Q
    <2> QED  BY <1>2, <1>3, <1>4, QuorumsIntersect
<1>6. Vote(t, o, m) \in signed /\ Vote(u, o, m) \in signed
    BY <1>5 DEF Voters
<1> QED  BY <1>5, <1>6 DEF IInv, HonestVoteOnce, Vote

\* No two conflicting transactions are ever both locked, anywhere in a network
\* whose quorums intersect in a masternode that follows the code.
THEOREM LocksNeverConflict == Spec => []Agreement
<1> QED  BY Invariance, QuorumsPreventConflicts, PTL

\* At any moment the mapLockedOutpoints of all nodes agree where both are defined.
THEOREM NodesAgree == Spec => []LocksAgree
<1>1. IInv => LocksAgree
    <2> SUFFICES ASSUME IInv, NEW n \in Nodes, NEW p \in Nodes, NEW o \in Outpoints,
                        locked[n][o] # NoTx, locked[p][o] # NoTx
                 PROVE  locked[n][o] = locked[p][o]
        BY DEF LocksAgree
    <2>1. /\ locked[n][o] \in completed /\ o \in Spends[locked[n][o]]
          /\ locked[p][o] \in completed /\ o \in Spends[locked[p][o]]
        BY DEF IInv, LocksWereCompleted
    <2> QED  BY <2>1, QuorumsPreventConflicts DEF Agreement, Conflict
<1> QED  BY <1>1, Invariance, PTL

-----------------------------------------------------------------------------
(* Every node is an InstantLocks.                                          *)

\* A quorum of the votes a node has heard is one in the sense of InstantLocks.
LEMMA SameQuorums ==
    ASSUME NEW n, NEW S, NEW t, HasQuorum(S, t)
    PROVE  Node(n)!HasQuorum(S, t)
<1>1. \A Q : Node(n)!Cardinality(Q) = Cardinality(Q)
    BY Zenon DEF Node!Cardinality, Cardinality
<1>2. \A o : Node(n)!Voters(S, t, o) = Voters(S, t, o)
    BY Zenon DEF Node!Voters, Voters, Vote
<1> QED  BY <1>1, <1>2, Zenon DEF Node!HasQuorum, HasQuorum

\* A node whose locks stay as they are releases none.
LEMMA NoLockReleased ==
    ASSUME IInv, NEW n \in Nodes, locked'[n] = locked[n]
    PROVE  Node(n)!Release
<1> DEFINE N == {}
<1>1. N \in SUBSET Outpoints
    OBVIOUS
<1>2. locked'[n] = [o \in Outpoints |-> IF o \in N THEN NoTx ELSE locked[n][o]]
    BY DEF IInv, TypeOK
<1> HIDE DEF N
<1> QED  BY <1>1, <1>2 DEF Node!Release

\* TryToFinalizeLockCandidate at node k completes a lock at k, or changes none.
LEMMA FinalizeIsALockStep ==
    ASSUME IInv, NEW k \in Nodes, Finalize(k, heard'[k]), NEW n \in Nodes
    PROVE  Node(n)!Release \/ \E t \in Txs : Node(n)!Complete(t)
<1>1. locked \in [Nodes -> [Outpoints -> Txs \cup {NoTx}]]
    BY DEF IInv, TypeOK
<1>2. CASE locked'[n] = locked[n]
    BY <1>2, NoLockReleased
<1>3. CASE locked'[n] # locked[n]
    <2>1. PICK t \in Txs :
             /\ HasQuorum(heard'[k], t)
             /\ \A o \in Spends[t] : locked[k][o] \in {NoTx, t}
             /\ locked' = [locked EXCEPT ![k] =
                             [o \in Outpoints |-> IF o \in Spends[t] THEN t ELSE @[o]]]
        BY <1>3 DEF Finalize
    <2>2. /\ n = k
          /\ locked'[n] = [o \in Outpoints |-> IF o \in Spends[t] THEN t ELSE locked[n][o]]
        BY <1>1, <1>3, <2>1
    <2>3. Node(n)!HasQuorum(heard'[n], t)
        BY <2>1, <2>2, SameQuorums
    <2>4. Node(n)!Complete(t)
        BY <2>1, <2>2, <2>3 DEF Node!Complete
    <2> QED  BY <2>4
<1> QED  BY <1>2, <1>3

\* Each node whose masternode is not faulty behaves as InstantLocks: the network
\* composes what module InstantSend is shown to implement.
THEOREM NetworkOfInstantLocks == Spec => NodesAreInstantLocks
<1>1. Init => \A n \in Nodes \ Faulty : Node(n)!Init
    BY DEF Init, Node!Init, Node!VotesOnce
<1>2. ASSUME IInv, IInv', Next, NEW n \in Nodes \ Faulty
      PROVE  Node(n)!Next
    <2>1. Node(n)!Sign
        <3>1. signed \subseteq signed'
            BY <1>2 DEF Next, CastVote, SignAnything, Process, Release
        <3>2. signed' \subseteq Node(n)!Votes
            BY <1>2 DEF IInv, TypeOK, Votes, Node!Votes
        <3>3. \A v, w \in signed' : v.mn = n /\ w.mn = n /\ v.out = w.out => v.tx = w.tx
            BY <1>2 DEF IInv, HonestVoteOnce
        <3> QED  BY <3>1, <3>2, <3>3 DEF Node!Sign, Node!VotesOnce
    <2>2. heard \in [Nodes -> SUBSET Votes] /\ locked \in [Nodes -> [Outpoints -> Txs \cup {NoTx}]]
        BY <1>2 DEF IInv, TypeOK
    <2>3. Node(n)!Hear
        <3>1. heard[n] \subseteq heard'[n]
            BY <1>2, <2>2 DEF Next, CastVote, SignAnything, Process, Release
        <3> QED  BY <1>2, <3>1 DEF IInv, HeardWasSigned, Node!Hear
    <2>4. ASSUME NEW k \in Nodes, NEW O \in SUBSET Outpoints, Release(k, O)
          PROVE  Node(n)!Release
        <3> DEFINE N == IF n = k THEN O ELSE {}
        <3>1. locked'[n] = [o \in Outpoints |-> IF o \in N THEN NoTx ELSE locked[n][o]]
            BY <2>2, <2>4 DEF Release
        <3>2. N \in SUBSET Outpoints
            OBVIOUS
        <3> HIDE DEF N
        <3> QED  BY <3>1, <3>2 DEF Node!Release
    <2>5. ASSUME locked' = locked
          PROVE  Node(n)!Release
        BY <1>2, <2>5, NoLockReleased
    <2>6. ASSUME NEW k \in Nodes, NEW v, heard' = [heard EXCEPT ![k] = @ \cup {v}],
                 Finalize(k, heard[k] \cup {v})
          PROVE  Node(n)!Release \/ \E t \in Txs : Node(n)!Complete(t)
        <3>1. heard'[k] = heard[k] \cup {v}
            BY <2>2, <2>6
        <3> QED  BY <1>2, <2>6, <3>1, FinalizeIsALockStep
    <2>7. Node(n)!Release \/ \E t \in Txs : Node(n)!Complete(t)
        <3>1. CASE \E m \in Masternodes, t \in Txs, o \in Outpoints : CastVote(m, t, o)
            BY <2>5, <2>6, <3>1 DEF CastVote
        <3>2. CASE \E m \in Masternodes, t \in Txs, o \in Outpoints : SignAnything(m, t, o)
            BY <2>5, <3>2 DEF SignAnything
        <3>3. CASE \E k \in Nodes : \E v \in signed : Process(k, v)
            BY <2>6, <3>3 DEF Process
        <3> QED  BY <1>2, <2>4, <3>1, <3>2, <3>3 DEF Next
    <2> QED  BY <2>1, <2>3, <2>7 DEF Node!Next
<1>3. ASSUME IInv, IInv', [Next]_vars
      PROVE  [\A n \in Nodes \ Faulty : Node(n)!Next]_vars
    BY <1>2, <1>3
<1> QED  BY <1>1, <1>3, Invariance, PTL DEF Spec, NodesAreInstantLocks
=============================================================================

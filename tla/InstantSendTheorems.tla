-------------------------- MODULE InstantSendTheorems --------------------------
(***************************************************************************)
(* The theorems about a node's votes and locks: completed locks have       *)
(* quorums, and what follows when SIGNATURES_REQUIRED is a majority of an  *)
(* outpoint's masternodes (6 of the 10 of CTxLockRequest), among it that   *)
(* the node implements InstantLocks.                                       *)
(***************************************************************************)
EXTENDS InstantSendProofs, FiniteSetTheorems

USE Zenon

-----------------------------------------------------------------------------
(* The steps of the block chain, and a restart.                            *)

\* A new block buries more, and its transactions are confirmed at its height.
LEMMA ConnectTipSettles ==
    ASSUME IInv, IInv', Settled, ConnectTip
    PROVE  Settled' /\ KeepsLocks
<1>1. /\ instantsend' = instantsend /\ heard' = heard /\ cast' = cast /\ told' = told
      /\ undone' = undone /\ restarts' = restarts
      /\ chain' = Append(chain, blk.txs) /\ blk'.txs = blk.txs
    BY DEF ConnectTip, env, IInv, Types
<1>2. Types /\ blk.txs \in SUBSET Txs
    BY DEF IInv, Types
<1>3. /\ Buried \subseteq Buried' /\ Height' = Height + 1
      /\ \A t, i : i \in 1..Len(chain) /\ t \in chain[i]
                   => i \in 1..Len(chain') /\ t \in chain'[i]
      /\ chain' # <<>> /\ chain'[Len(chain')] = blk.txs
    BY <1>1, <1>2, BuriedGrows
<1>4. HeightsAreMined'
    <2>1. instantsend.cached \in Int /\ Height \in Nat /\ undone \in Nat
        BY <1>2, RecordFacts, HeightType DEF Records, Types
    <2>2. instantsend'.cached >= BaseHeight /\ instantsend'.cached <= Height' + undone'
        BY <1>1, <1>3, <2>1, SMT DEF Settled, HeightsAreMined
    <2>3. ASSUME NEW t \in Txs, instantsend.candHeight[t] # -1
          PROVE  \E i \in 1..Len(chain') :
                    t \in chain'[i] /\ instantsend.candHeight[t] = BaseHeight + i
        <3>1. PICK i \in 1..Len(chain) :
                 t \in chain[i] /\ instantsend.candHeight[t] = BaseHeight + i
            BY <2>3 DEF Settled, HeightsAreMined
        <3>2. i \in 1..Len(chain') /\ t \in chain'[i]
            BY <1>3, <3>1
        <3> QED  BY <3>1, <3>2
    <2> QED  BY <1>1, <2>2, <2>3 DEF HeightsAreMined
<1>5. BlockIsTip'
    BY <1>1, <1>3 DEF BlockIsTip
<1>6. VInv(instantsend, Buried)'
    BY <1>1, <1>3, RecordFacts, VInvCarries
<1>7. CastOnce'
    BY <1>1, <1>3, RecordFacts, CastStays DEF Settled
<1>8. ToldAreLocked' /\ ToldAgree'
    BY <1>1, <1>3, ToldStay DEF Settled
<1>9. KeepsLocks
    BY <1>1 DEF KeepsLocks
<1> QED  BY <1>4, <1>5, <1>6, <1>7, <1>8, <1>9 DEF Settled

\* A candidate that has expired by its height is buried.
LEMMA ExpiredAreBuried ==
    ASSUME Types, NEW s \in Records, s.cached <= Height + undone, NEW t \in Txs,
           s.candHeight[t] # -1 => \E i \in 1..Len(chain) :
                                      t \in chain[i] /\ s.candHeight[t] = BaseHeight + i,
           Expired(s, s.candHeight[t])
    PROVE  t \in Buried
<1>1. PICK i \in 1..Len(chain) : t \in chain[i] /\ s.candHeight[t] = BaseHeight + i
    BY DEF Expired
<1>2. /\ s.cached \in Int /\ undone \in Nat /\ KeepLock \in Nat /\ BaseHeight \in Nat
      /\ Len(chain) \in Nat
    BY ConstantsAssumption, SMT DEF Records, Types
<1>3. s.cached - (BaseHeight + i) > KeepLock /\ s.cached <= BaseHeight + Len(chain) + undone
    BY <1>1 DEF Expired, Height
<1>4. i + KeepLock < Len(chain) + undone
    BY <1>2, <1>3, SMT
<1> QED  BY <1>1, <1>4 DEF Buried

LEMMA NotifyTipSettles ==
    ASSUME IInv, IInv', Settled, NotifyTip
    PROVE  Settled' /\ KeepsLocks
<1> DEFINE s == instantsend
           r == Notified(s, blk.dropped, blk.txs, Height)
<1>1. /\ instantsend' = r /\ heard' = heard /\ chain' = chain /\ cast' = cast
      /\ undone' = undone /\ restarts' = restarts /\ blk'.stage = "none"
      /\ blk.stage = "connected" /\ Become(r)
    BY DEF NotifyTip, Become, Notified, env, NoBlock
<1>2. /\ s \in Records /\ blk.dropped \in SUBSET Txs /\ blk.txs \in SUBSET Txs
      /\ Height \in Int /\ now \in Int
    BY RecordFacts, HeightType, SMT DEF IInv, Types
<1>3. Height \in Nat /\ Len(chain) \in Nat /\ Types /\ undone \in Nat
    BY HeightType DEF IInv, Types
<1>4. /\ r \in Records /\ r.cached = Height
      /\ r.cands = s.cands /\ r.counted = s.counted /\ r.attacked = s.attacked
      /\ r.voted = s.voted /\ r.locked = s.locked /\ r.rejected = s.rejected
      /\ \A t \in Txs : \/ r.candHeight[t] \in {s.candHeight[t], -1}
                        \/ r.candHeight[t] = Height /\ t \in blk.txs /\ t \in s.cands
    BY <1>2, NotifiedFields, ZenonT(30)
<1> HIDE DEF r
<1>5. BaseHeight \in Nat /\ KeepLock \in Nat /\ BaseHeight > KeepLock
    BY ConstantsAssumption, LongChain
<1>6. chain # <<>> /\ chain[Len(chain)] = blk.txs /\ Len(chain) > 0
    <2>1. chain # <<>> /\ chain[Len(chain)] = blk.txs
        BY <1>1 DEF Settled, BlockIsTip
    <2> QED  BY <1>3, <2>1, SMT DEF Types
<1>7. \A t \in Txs : r.candHeight[t] # -1 =>
         \E i \in 1..Len(chain) : t \in chain[i] /\ r.candHeight[t] = BaseHeight + i
    <2> SUFFICES ASSUME NEW t \in Txs, r.candHeight[t] # -1
                 PROVE  \E i \in 1..Len(chain) :
                           t \in chain[i] /\ r.candHeight[t] = BaseHeight + i
        OBVIOUS
    <2>1. CASE r.candHeight[t] = s.candHeight[t]
        BY <2>1 DEF Settled, HeightsAreMined
    <2>2. CASE r.candHeight[t] = Height /\ t \in blk.txs
        <3>1. Len(chain) \in 1..Len(chain)
            BY <1>3, <1>6, SMT
        <3> QED  BY <1>6, <2>2, <3>1 DEF Height
    <2> QED  BY <1>4, <2>1, <2>2
<1>8. r.cached >= BaseHeight /\ r.cached > KeepLock /\ r.cached <= Height + undone
    BY <1>3, <1>4, <1>5, SMT DEF Height
<1>9. HeightsAreMined' /\ BlockIsTip' /\ Buried' = Buried
    BY <1>1, <1>7, <1>8, BuriedStays DEF HeightsAreMined, BlockIsTip, Height
<1>10. Excused(s, Buried) = Excused(r, Buried) /\ \A o : Free(s, Buried, o) => Free(r, Buried, o)
    BY <1>4 DEF Excused, Free
<1>11. VInv(r, Buried)
    <2>1. HeightsAreSound(r, Buried)
        <3>1. \A t \in Txs : r.candHeight[t] # -1 => t \in r.cands
            BY <1>4 DEF Settled, VInv, HeightsAreSound
        <3>2. \A t \in r.cands : Expired(r, r.candHeight[t]) => t \in Buried
            <4>1. r.cands \subseteq Txs
                BY <1>4 DEF Records
            <4> QED  BY <1>3, <1>4, <1>7, <1>8, <4>1, ExpiredAreBuried
        <3> QED  BY <1>8, <3>1, <3>2 DEF HeightsAreSound
    <2>2. CountedAreRecorded(r, Buried) /\ DoublesAreSpoilt(r, Buried)
        BY <1>4, <1>10 DEF Settled, VInv, CountedAreRecorded, DoublesAreSpoilt
    <2>3. HeldWhole(r, Buried)
        BY <1>4, <1>10 DEF Settled, VInv, HeldWhole
    <2> QED  BY <2>1, <2>2, <2>3 DEF VInv
<1>12. VInv(instantsend, Buried)'
    BY <1>1, <1>9, <1>11, VInvCarries
<1>13. CastOnce'
    BY <1>1, <1>4, <1>9, <1>10, RecordFacts, CastStays DEF Settled
<1>14. ToldAreLocked' /\ ToldAgree'
    <2>1. \A t \in told' : t \in told \/ IsLockedInstantSendTransaction(instantsend', t)
        BY <1>1 DEF Become
    <2> QED  BY <1>1, <1>4, <1>9, <2>1, ToldStay DEF Settled
<1>15. KeepsLocks
    BY <1>1, <1>4 DEF KeepsLocks
<1> QED  BY <1>9, <1>12, <1>13, <1>14, <1>15 DEF Settled

\* The heights of a disconnected block are taken back, and as long as Shallow
\* holds the block was not buried.
LEMMA DisconnectTipSettles ==
    ASSUME IInv, IInv', Settled, Shallow', DisconnectTip
    PROVE  Settled' /\ KeepsLocks
<1> DEFINE S == chain[Len(chain)]
           s == instantsend
<1>1. /\ instantsend' = SyncTransactions(s, S, -1) /\ heard' = heard /\ cast' = cast
      /\ blk' = blk /\ blk.stage = "none" /\ chain # <<>> /\ restarts' = restarts
      /\ chain' = SubSeq(chain, 1, Len(chain) - 1) /\ undone' = undone + 1
      /\ Become(instantsend')
    BY DEF DisconnectTip, Become
<1>2. chain \in Seq(SUBSET Txs) /\ s \in Records /\ now \in Int /\ Types
    BY RecordFacts DEF IInv, Types
<1>3. /\ Len(chain) \in Nat \ {0} /\ Len(chain') = Len(chain) - 1
      /\ \A i \in 1..(Len(chain) - 1) : chain'[i] = chain[i]
    BY <1>1, <1>2, MinedShrinks
<1>4. S \in SUBSET Txs
    BY <1>2, <1>3, SMT
<1>5. /\ Buried \subseteq Buried' /\ Height' + undone' = Height + undone
      /\ \A t, i : i \in 1..Len(chain) /\ t \in chain[i] /\ t \notin S
                   => i \in 1..Len(chain') /\ t \in chain'[i]
    BY <1>1, <1>2, <1>3, BuriedSurvives
<1> HIDE DEF S
<1>6. /\ VInv(instantsend', Buried) /\ VStep(s, instantsend', Buried)
      /\ \A t \in S : instantsend'.candHeight[t] = -1
    BY <1>1, <1>2, <1>4, RecordFacts, UnsyncVotes
<1>7. HeightsAreMined'
    <2>1. instantsend'.cached >= BaseHeight /\ instantsend'.cached <= Height' + undone'
        BY <1>5, <1>6 DEF Settled, HeightsAreMined, VStep
    <2>2. ASSUME NEW t \in Txs, instantsend'.candHeight[t] # -1
          PROVE  \E i \in 1..Len(chain') :
                    t \in chain'[i] /\ instantsend'.candHeight[t] = BaseHeight + i
        <3>1. t \notin S /\ instantsend'.candHeight[t] = s.candHeight[t]
            BY <1>6, <2>2 DEF VStep
        <3>2. PICK i \in 1..Len(chain) : t \in chain[i] /\ s.candHeight[t] = BaseHeight + i
            BY <2>2, <3>1 DEF Settled, HeightsAreMined
        <3>3. i \in 1..Len(chain') /\ t \in chain'[i]
            BY <1>5, <3>1, <3>2
        <3> QED  BY <3>1, <3>2, <3>3
    <2> QED  BY <2>1, <2>2 DEF HeightsAreMined
<1>8. BlockIsTip'
    BY <1>1 DEF BlockIsTip
<1>9. VInv(instantsend, Buried)'
    BY <1>5, <1>6, VInvCarries
<1>10. CastOnce'
    BY <1>1, <1>5, <1>6, RecordFacts, CastStays DEF Settled, VStep
<1>11. ToldAreLocked' /\ ToldAgree'
    <2>1. \A g \in s.cands : Expired(s, s.candHeight[g]) => g \in Buried
        BY DEF Settled, VInv, HeightsAreSound
    <2>2. QuorumsIntersect =>
             \A o \in Outpoints :
                \/ s.locked[o] = NoTx
                \/ instantsend'.locked[o] = s.locked[o]
                \/ \E g \in Buried : o \in Inputs(g)
        BY <1>6, <2>1 DEF VStep
    <2>3. \A t \in told' : t \in told \/ IsLockedInstantSendTransaction(instantsend', t)
        BY <1>1 DEF Become
    <2> QED  BY <1>1, <1>5, <2>2, <2>3, ToldStay DEF Settled
<1>12. KeepsLocks
    BY <1>6 DEF VStep, KeepsLocks
<1> QED  BY <1>7, <1>8, <1>9, <1>10, <1>11, <1>12 DEF Settled

\* A node that has just started has no maps to be wrong.
LEMMA EmptyIsSound ==
    ASSUME NEW h \in Int, h > KeepLock, NEW M, NEW B
    PROVE  LET r == Restarted(h, M)
           IN  /\ VInv(r, B) /\ r.cached = h
               /\ \A t \in Txs : r.candHeight[t] = -1
<1> DEFINE r == Restarted(h, M)
<1>1. /\ r.cands = {} /\ r.counted = {} /\ r.locked = [o \in Outpoints |-> NoTx]
      /\ r.candHeight = [t \in Txs |-> -1] /\ r.cached = h
    BY DEF Restarted, Fresh
<1> HIDE DEF r
<1>2. VInv(r, B)
    BY <1>1 DEF VInv, HeightsAreSound, CountedAreRecorded, DoublesAreSpoilt, HeldWhole
<1> QED  BY <1>1, <1>2 DEF r

LEMMA RestartSettles ==
    ASSUME IInv, IInv', Settled, Restart
    PROVE  Settled' /\ restarts' # restarts
<1>1. /\ instantsend' = Restarted(Height, instantsend.banned)
      /\ heard' = heard /\ cast' = cast /\ chain' = chain /\ blk' = blk
      /\ undone' = undone /\ restarts' = restarts + 1 /\ blk.stage = "none"
    BY DEF Restart, Restarted
<1>2. /\ Height \in Int /\ Height \in Nat /\ Height >= BaseHeight /\ Height > KeepLock
      /\ undone \in Nat /\ restarts \in Nat
    BY HeightType, ConstantsAssumption, LongChain, SMT DEF IInv, Types, Height
<1>3. /\ VInv(instantsend', Buried) /\ instantsend'.cached = Height
      /\ \A t \in Txs : instantsend'.candHeight[t] = -1
    BY <1>1, <1>2, EmptyIsSound, SMT
<1>4. Buried' = Buried /\ Height' = Height
    BY <1>1, BuriedStays
<1>5. HeightsAreMined'
    <2>1. Height <= Height + undone
        BY <1>2, SMT
    <2> QED  BY <1>1, <1>2, <1>3, <1>4, <2>1 DEF HeightsAreMined
<1>6. VInv(instantsend, Buried)' /\ BlockIsTip'
    BY <1>1, <1>3, <1>4, VInvCarries DEF BlockIsTip
<1>7. restarts' # 0 /\ restarts' # restarts
    BY <1>1, <1>2, SMT
<1>8. CastOnce' /\ ToldAreLocked' /\ ToldAgree'
    BY <1>1, <1>7 DEF Settled, CastOnce, ToldAreLocked, ToldAgree
<1> QED  BY <1>5, <1>6, <1>7, <1>8 DEF Settled

LEMMA InitSettled == Init => Settled
<1> SUFFICES ASSUME Init  PROVE Settled
    OBVIOUS
<1>1. /\ instantsend.cands = {} /\ instantsend.counted = {}
      /\ instantsend.locked = [o \in Outpoints |-> NoTx]
      /\ instantsend.candHeight = [t \in Txs |-> -1] /\ instantsend.cached = BaseHeight
    BY DEF Init, Fresh
<1>2. HeightsAreMined
    BY <1>1, ConstantsAssumption, SMT DEF Init, HeightsAreMined, Height
<1>3. VInv(instantsend, Buried)
    BY <1>1, LongChain
       DEF VInv, HeightsAreSound, CountedAreRecorded, DoublesAreSpoilt, HeldWhole
<1>4. BlockIsTip /\ CastOnce /\ ToldAreLocked /\ ToldAgree
    BY DEF Init, NoBlock, BlockIsTip, CastOnce, ToldAreLocked, ToldAgree,
           NeverAnnouncesConflictingLocks
<1> QED  BY <1>2, <1>3, <1>4 DEF Settled

LEMMA NextSInv ==
    IInv /\ IInv' /\ SInv /\ [Next]_vars
    => SInv' /\ (Shallow' => Settled /\ (KeepsLocks \/ restarts' # restarts))
<1> SUFFICES ASSUME IInv, IInv', SInv, [Next]_vars, Shallow'
             PROVE  Settled /\ Settled' /\ (KeepsLocks \/ restarts' # restarts)
    BY DEF SInv
<1>1. Settled
    <2>1. undone' \in {undone, undone + 1}
        BY DEF Next, RecvLockRequest, RecvTx, SendLockRequest, RelayWalletTransaction, Evict,
               AcceptLockRequest, RejectLockRequest, RecvVote, CleanUp, AcceptBlock,
               ConnectTip, NotifyTip, DisconnectTip, Tick, Restart, vars, env
    <2>2. undone \in Nat /\ KeepLock \in Nat
        BY ConstantsAssumption DEF IInv, Types
    <2>3. undone <= KeepLock
        BY <2>1, <2>2, SMT DEF Shallow
    <2> QED  BY <2>3 DEF SInv, Shallow
<1>2. CASE \E t \in Txs : RecvLockRequest(t)
    BY <1>1, <1>2, RecvLockRequestSettles
<1>3. CASE \E t \in Txs : RecvTx(t)
    BY <1>1, <1>3, RecvTxSettles
<1>4. CASE \E t \in Txs : SendLockRequest(t)
    BY <1>1, <1>4, SendLockRequestSettles
<1>5. CASE \E t \in Txs : RelayWalletTransaction(t)
    BY <1>1, <1>5, RelayWalletTransactionSettles
<1>6. CASE AcceptLockRequest
    BY <1>1, <1>6, AcceptLockRequestSettles
<1>7. CASE RejectLockRequest
    BY <1>1, <1>7, RejectLockRequestSettles
<1>8. CASE \E v \in PeerVotes \cup cast : RecvVote(v)
    BY <1>1, <1>8, RecvVoteSettles
<1>9. CASE CleanUp
    BY <1>1, <1>9, CleanUpSettles
<1>10. CASE ConnectTip
    BY <1>1, <1>10, ConnectTipSettles
<1>11. CASE NotifyTip
    BY <1>1, <1>11, NotifyTipSettles
<1>12. CASE DisconnectTip
    BY <1>1, <1>12, DisconnectTipSettles
<1>13. CASE Restart
    BY <1>1, <1>13, RestartSettles
<1>14. CASE \/ \E t \in Txs : Evict(t)
            \/ \E S \in SUBSET Txs : AcceptBlock(S)
            \/ Tick
            \/ UNCHANGED vars
    BY <1>1, <1>14, OtherSettles
<1> QED  BY <1>2, <1>3, <1>4, <1>5, <1>6, <1>7, <1>8, <1>9, <1>10, <1>11, <1>12,
            <1>13, <1>14 DEF Next

\* The invariant of the votes: it rests on that of the maps.
THEOREM VoteInvariance == Spec => [](IInv /\ SInv)
<1>1. Init => SInv
    BY InitSettled DEF SInv
<1> QED  BY <1>1, InitIInv, NextIInv, NextSInv, PTL DEF Spec

-----------------------------------------------------------------------------
(* What it means for the node.                                             *)

LEMMA ExcusedAreDone == Excused(instantsend, Buried) \subseteq mined \cup instantsend.rejected
BY BuriedAreMined DEF Excused

\* Between restarts and within Shallow, Vote() signs one vote per outpoint,
\* unless a transaction that spends it was mined, or rejected because two
\* conflicting locks completed.
THEOREM VotesOnce == Spec => []VotesOnceUntilRestart
<1>1. SInv => VotesOnceUntilRestart
    BY ExcusedAreDone DEF SInv, Settled, CastOnce, VotesOnceUntilRestart, Free
<1> QED  BY <1>1, VoteInvariance, PTL

\* mapLockedOutpoints gives a transaction all of its inputs or none, unless a
\* conflicting one was mined or rejected: CheckAndRemove releases the inputs of
\* candidates that are buried, and no others.
THEOREM LocksHeldWhole == Spec => []LocksAreWhole
<1>1. SInv => LocksAreWhole
    BY ExcusedAreDone DEF SInv, Settled, VInv, HeldWhole, LocksAreWhole
<1> QED  BY <1>1, VoteInvariance, PTL

-----------------------------------------------------------------------------
(* Quorums.                                                                *)

\* COutPointLock: SIGNATURES_REQUIRED of SIGNATURES_TOTAL is a majority.
MajorityQuorums == \A o \in Outpoints : 2 * SIGNATURES_REQUIRED > Cardinality(Quorum[o])

-----------------------------------------------------------------------------
(* Votes for one transaction on one outpoint are as many as their signers. *)

Signers(P) == {v.mn : v \in P}

LEMMA SignersCount ==
    ASSUME NEW t, NEW o, NEW P \in SUBSET Votes, \A v \in P : v.tx = t /\ v.out = o
    PROVE  /\ IsFiniteSet(P) /\ Cardinality(P) \in Nat
           /\ IsFiniteSet(Signers(P)) /\ Cardinality(Signers(P)) = Cardinality(P)
<1> DEFINE f == [v \in P |-> v.mn]
<1>1. ASSUME NEW v \in P, NEW w \in P, f[v] = f[w]
      PROVE  v = w
    <2>1. v \in [tx : Txs, out : Outpoints, mn : Masternodes]
          /\ w \in [tx : Txs, out : Outpoints, mn : Masternodes]
        BY DEF Votes
    <2>2. v.tx = w.tx /\ v.out = w.out /\ v.mn = w.mn
        BY <1>1
    <2> QED  BY <2>1, <2>2, SMT
<1>2. f \in [P -> Masternodes] /\ f \in [P -> Signers(P)]
    BY DEF Votes, Signers
<1>3. \A m \in Signers(P) : \E v \in P : f[v] = m
    BY DEF Signers
<1> HIDE DEF f
<1>4. f \in Injection(P, Masternodes)
    BY <1>1, <1>2 DEF Injection, IsInjective
<1>5. f \in Bijection(P, Signers(P))
    BY <1>1, <1>2, <1>3 DEF Injection, Surjection, Bijection, IsInjective
<1>6. IsFiniteSet(P)
    BY <1>4, ConstantsAssumption, FS_Injection
<1>7. ExistsBijection(P, Signers(P))
    BY <1>5 DEF ExistsBijection
<1>8. IsFiniteSet(Signers(P)) /\ Cardinality(Signers(P)) = Cardinality(P)
    BY <1>6, <1>7, FS_Bijection
<1> QED  BY <1>6, <1>8, FS_CardinalityType

\* Two sets of SIGNATURES_REQUIRED masternodes of one outpoint intersect.
LEMMA MajoritiesIntersect ==
    ASSUME MajorityQuorums, NEW o \in Outpoints,
           NEW P \in SUBSET Quorum[o], NEW Q \in SUBSET Quorum[o],
           Cardinality(P) >= SIGNATURES_REQUIRED,
           Cardinality(Q) >= SIGNATURES_REQUIRED
    PROVE  P \cap Q # {}
<1>1. Quorum[o] \subseteq Masternodes /\ SIGNATURES_REQUIRED \in Nat
    BY ConstantsAssumption
<1>2. IsFiniteSet(Quorum[o])
    BY <1>1, ConstantsAssumption, FS_Subset
<1>3. /\ IsFiniteSet(P) /\ IsFiniteSet(Q) /\ IsFiniteSet(P \cup Q)
      /\ P \cup Q \subseteq Quorum[o] /\ Cardinality(P \cup Q) <= Cardinality(Quorum[o])
    <2>1. P \cup Q \subseteq Quorum[o]
        OBVIOUS
    <2> QED  BY <1>2, <2>1, FS_Subset
<1>4. /\ Cardinality(P) \in Nat /\ Cardinality(Q) \in Nat
      /\ Cardinality(Quorum[o]) \in Nat /\ Cardinality(P \cup Q) \in Nat
    BY <1>2, <1>3, FS_CardinalityType
<1>5. 2 * SIGNATURES_REQUIRED > Cardinality(Quorum[o])
    BY DEF MajorityQuorums
<1>6. ASSUME P \cap Q = {}  PROVE FALSE
    <2>1. Cardinality(P \cup Q) = Cardinality(P) + Cardinality(Q) - Cardinality(P \cap Q)
        BY <1>3, FS_Union
    <2>2. Cardinality(P \cap Q) = 0
        BY <1>6, FS_EmptySet
    <2> QED  BY <1>1, <1>3, <1>4, <1>5, <2>1, <2>2, SMT
<1> QED  BY <1>6

LEMMA MajoritySuffices == MajorityQuorums => QuorumsIntersect
<1> SUFFICES ASSUME MajorityQuorums, NEW o \in Outpoints, NEW t \in Txs, NEW u \in Txs,
                    NEW P \in SUBSET ValidVotes(t, o), NEW Q \in SUBSET ValidVotes(u, o),
                    Cardinality(P) >= SIGNATURES_REQUIRED,
                    Cardinality(Q) >= SIGNATURES_REQUIRED
             PROVE  \E v \in P, w \in Q : v.mn = w.mn
    BY SMT DEF QuorumsIntersect
<1>1. Cardinality(Signers(P)) = Cardinality(P)
    <2>1. P \in SUBSET Votes /\ \A v \in P : v.tx = t /\ v.out = o
        BY DEF ValidVotes
    <2> QED  BY <2>1, SignersCount
<1>2. Cardinality(Signers(Q)) = Cardinality(Q)
    <2>1. Q \in SUBSET Votes /\ \A v \in Q : v.tx = u /\ v.out = o
        BY DEF ValidVotes
    <2> QED  BY <2>1, SignersCount
<1>3. Signers(P) \in SUBSET Quorum[o] /\ Signers(Q) \in SUBSET Quorum[o]
    BY DEF Signers, ValidVotes
<1>4. Signers(P) \cap Signers(Q) # {}
    BY <1>1, <1>2, <1>3, MajoritiesIntersect
<1> QED  BY <1>4 DEF Signers

-----------------------------------------------------------------------------
(* What rests on quorums.                                                  *)

\* The votes behind a lock, on one of its inputs.
LEMMA VotesBehind ==
    ASSUME NEW s, NEW H, s.counted \in SUBSET Votes, CountedAreHeard(s, H),
           NEW t, Backed(s, t), NEW p \in Inputs(t)
    PROVE  \E Q \in SUBSET H :
              /\ Q \in SUBSET Votes /\ Cardinality(Q) >= SIGNATURES_REQUIRED
              /\ \A v \in Q : v.tx = t /\ v.out = p /\ v.mn \in Quorum[p]
<1>1. PICK Q \in SUBSET VotesFor(s.counted, t, p) : Cardinality(Q) >= SIGNATURES_REQUIRED
    BY DEF Backed
<1>2. \A v \in Q : v \in s.counted /\ v.tx = t /\ v.out = p
    BY DEF VotesFor
<1>3. \A v \in Q : v \in Votes /\ v \in H /\ v.mn \in Quorum[p]
    BY <1>2 DEF CountedAreHeard
<1> QED  BY <1>1, <1>2, <1>3

\* Every entry of mapLockedOutpoints rests on enough valid votes for each input
\* of a transaction that is still a candidate, across reorganisations, time-outs,
\* clean-ups and restarts: nothing removes a counted vote and leaves the lock.
THEOREM LocksRestOnQuorums == Spec => []LocksHaveQuorums
<1>1. IInv => LocksHaveQuorums
    <2> SUFFICES ASSUME IInv, NEW o \in Outpoints, instantsend.locked[o] # NoTx
                 PROVE  LET t == instantsend.locked[o]
                        IN  /\ t \in instantsend.outlocks /\ o \in Inputs(t)
                            /\ \A p \in Inputs(t) :
                                 Cardinality({v \in VotesFor(heard, t, p) : v.mn \in Quorum[p]})
                                   >= SIGNATURES_REQUIRED
        BY DEF LocksHaveQuorums
    <2> DEFINE t == instantsend.locked[o]
    <2>1. Backed(instantsend, t) /\ o \in Inputs(t)
        BY DEF IInv, RInv, LocksAreBacked
    <2>2. heard \in SUBSET Votes /\ SIGNATURES_REQUIRED \in Nat
        BY ConstantsAssumption DEF IInv, Types
    <2>4. instantsend.counted \in SUBSET Votes /\ CountedAreHeard(instantsend, heard)
        BY DEF IInv, RInv, Records
    <2> HIDE DEF t
    <2>3. ASSUME NEW p \in Inputs(t)
          PROVE  Cardinality({v \in VotesFor(heard, t, p) : v.mn \in Quorum[p]})
                   >= SIGNATURES_REQUIRED
        <3> DEFINE W == {v \in VotesFor(heard, t, p) : v.mn \in Quorum[p]}
        <3>1. PICK Q \in SUBSET heard :
                 /\ Q \in SUBSET Votes /\ Cardinality(Q) >= SIGNATURES_REQUIRED
                 /\ \A v \in Q : v.tx = t /\ v.out = p /\ v.mn \in Quorum[p]
            BY <2>1, <2>4, VotesBehind, SMT
        <3>2. Q \subseteq W /\ W \in SUBSET Votes /\ \A v \in W : v.tx = t /\ v.out = p
            BY <2>2, <3>1 DEF VotesFor
        <3> HIDE DEF W
        <3>3. IsFiniteSet(W) /\ Cardinality(W) \in Nat /\ Cardinality(Q) \in Nat
            BY <3>1, <3>2, SignersCount
        <3>4. Cardinality(Q) <= Cardinality(W)
            BY <3>2, <3>3, FS_Subset
        <3> QED  BY <2>2, <3>1, <3>3, <3>4, SMT DEF W
    <2> QED  BY <2>1, <2>3 DEF Backed, t
<1> QED  BY <1>1, Invariance, PTL

-----------------------------------------------------------------------------
(* What follows when quorums intersect.                                    *)

\* ProcessTxLockVote marks both candidates as attacked: whenever two votes of a
\* masternode for different transactions on one outpoint are counted, neither
\* candidate can complete on that outpoint any more.
THEOREM DoubleVotesSpoil ==
    ASSUME MajorityQuorums
    PROVE  Spec /\ []Shallow => []DoubleVotesSpoilBoth
<1>1. QuorumsIntersect
    BY MajoritySuffices
<1>2. SInv /\ Shallow => DoubleVotesSpoilBoth
    BY <1>1 DEF SInv, Settled, VInv, DoublesAreSpoilt, DoubleVotesSpoilBoth
<1> QED  BY <1>2, VoteInvariance, PTL

\* Until a restart, a masternode never signs votes for two transactions on one
\* outpoint: Vote's "refuse to vote twice", across everything CheckAndRemove
\* forgets.
THEOREM VotesOnceWhileRunning ==
    ASSUME MajorityQuorums
    PROVE  Spec /\ [](restarts = 0 /\ Shallow) => []VotesOncePerOutpoint
<1>1. QuorumsIntersect
    BY MajoritySuffices
<1>2. SInv /\ restarts = 0 /\ Shallow => VotesOncePerOutpoint
    BY <1>1 DEF SInv, Settled, CastOnce, VotesOncePerOutpoint
<1> QED  BY <1>2, VoteInvariance, PTL

\* Until a restart, UpdateLockedTransaction never announces two locks that
\* conflict, as long as no thread runs between the lock filter and ConnectTip.
THEOREM AnnouncedLocksAgree ==
    ASSUME MajorityQuorums, ~OtherThreads
    PROVE  Spec /\ [](restarts = 0 /\ Shallow) => []NeverAnnouncesConflictingLocks
<1>1. QuorumsIntersect
    BY MajoritySuffices
<1>2. SInv /\ restarts = 0 /\ Shallow => NeverAnnouncesConflictingLocks
    BY <1>1 DEF SInv, Settled, ToldAgree
<1> QED  BY <1>2, VoteInvariance, PTL

\* A completed lock is given up only when its own transaction is buried deeply
\* enough to have expired, or with the whole state by a restart: CheckAndRemove
\* frees the outpoints of an expired candidate whoever holds them, but that
\* candidate is mined, and the chain conflicts with no lock.
THEOREM LocksStayUntilDone ==
    ASSUME MajorityQuorums, ~OtherThreads
    PROVE  Spec /\ []Shallow => LocksReleasedOnlyWhenDone
<1> DEFINE s == instantsend
           Kept == \A t \in Txs :
                      /\ IsLockedInstantSendTransaction(s, t)
                      /\ ~IsLockedInstantSendTransaction(s', t)
                      => \/ t \in mined /\ Expired(s, s.candHeight[t])
                         \/ t \in s'.rejected
                         \/ restarts' # restarts
<1>1. ASSUME IInv, IInv', SInv, Shallow', [Next]_vars  PROVE Kept
    <2> SUFFICES ASSUME NEW t \in Txs, IsLockedInstantSendTransaction(s, t),
                        ~IsLockedInstantSendTransaction(s', t), restarts' = restarts
                 PROVE  t \in mined /\ Expired(s, s.candHeight[t])
        OBVIOUS
    <2>1. Settled /\ KeepsLocks
        BY <1>1, NextSInv
    <2>2. t # NoTx /\ Inputs(t) \subseteq Outpoints /\ Inputs(t) # {}
        BY ConstantsAssumption, InputsType
    <2>3. PICK o \in Inputs(t) : s.locked[o] = t /\ s'.locked[o] # t
        <3> SUFFICES ASSUME \A o \in Inputs(t) : s'.locked[o] = t
                     PROVE  FALSE
            BY DEF IsLockedInstantSendTransaction
        <3>1. t \in s'.outlocks
            BY <1>1, <2>2 DEF IInv, RInv, LocksAreBacked, Backed
        <3> QED  BY <3>1 DEF IsLockedInstantSendTransaction
    <2>4. PICK g \in s.cands : Expired(s, s.candHeight[g]) /\ o \in Inputs(g)
        BY <2>1, <2>2, <2>3, MajoritySuffices DEF KeepsLocks
    <2>5. g \in mined
        BY <2>1, <2>4, BuriedAreMined DEF Settled, VInv, HeightsAreSound
    <2>6. g = t
        BY <1>1, <2>2, <2>3, <2>4, <2>5
           DEF IInv, FilterStillHolds, NoBlockConflictsWithLock, LockedByOther
    <2> QED  BY <2>4, <2>5, <2>6
<1> HIDE DEF Kept
<1> QED  BY <1>1, VoteInvariance, PTL DEF Spec, LocksReleasedOnlyWhenDone, Kept

-----------------------------------------------------------------------------
(* Refinement.                                                             *)

\* The votes signed and heard are never forgotten.
LEMMA HistoriesGrow ==
    ASSUME [Next]_vars
    PROVE  heard \subseteq heard' /\ cast \subseteq cast'
BY DEF Next, RecvLockRequest, RecvTx, SendLockRequest, RelayWalletTransaction, Evict,
       AcceptLockRequest, RejectLockRequest, RecvVote, CleanUp, AcceptBlock,
       ConnectTip, NotifyTip, DisconnectTip, Tick, Restart, vars, env

\* InstantLocks counts as FiniteSets does.
LEMMA SameCardinality == \A S : Node!Cardinality(S) = Cardinality(S)
BY DEF Node!Cardinality, Cardinality

\* A transaction that holds a lock has a quorum of the votes heard.
LEMMA HolderHasQuorum ==
    ASSUME NEW s, NEW H, s.counted \in SUBSET Votes, CountedAreHeard(s, H),
           H \in SUBSET Votes, NEW t \in Txs, Backed(s, t)
    PROVE  Node!HasQuorum(H, t)
<1>0. [u \in Txs |-> Inputs(u)][t] = Inputs(t)
    OBVIOUS
<1> SUFFICES ASSUME NEW o \in Inputs(t)
             PROVE  Cardinality(Node!Voters(H, t, o)) >= SIGNATURES_REQUIRED
    BY <1>0, SameCardinality, SMT DEF Node!HasQuorum
<1>1. PICK Q \in SUBSET H :
         /\ Q \in SUBSET Votes /\ Cardinality(Q) >= SIGNATURES_REQUIRED
         /\ \A v \in Q : v.tx = t /\ v.out = o /\ v.mn \in Quorum[o]
    BY VotesBehind, SMT
<1>2. /\ Cardinality(Q) \in Nat /\ IsFiniteSet(Signers(Q))
      /\ Cardinality(Signers(Q)) = Cardinality(Q)
    BY <1>1, SignersCount
<1>3. Signers(Q) \subseteq Node!Voters(H, t, o)
    <2> SUFFICES ASSUME NEW v \in Q  PROVE v.mn \in Node!Voters(H, t, o)
        BY DEF Signers
    <2>1. v \in [tx : Txs, out : Outpoints, mn : Masternodes]
        BY <1>1 DEF Votes
    <2>2. v = [tx |-> t, out |-> o, mn |-> v.mn]
        BY <1>1, <2>1, SMT
    <2> QED  BY <1>1, <2>2 DEF Node!Voters
<1>4. IsFiniteSet(Node!Voters(H, t, o))
    <2>1. o \in Outpoints
        BY InputsType
    <2>2. Node!Voters(H, t, o) \subseteq Masternodes
        BY <2>1, ConstantsAssumption DEF Node!Voters
    <2> QED  BY <2>2, ConstantsAssumption, FS_Subset
<1>5. Cardinality(Signers(Q)) <= Cardinality(Node!Voters(H, t, o))
    BY <1>3, <1>4, FS_Subset
<1>6. Cardinality(Node!Voters(H, t, o)) \in Nat
    BY <1>4, FS_CardinalityType
<1> QED  BY <1>1, <1>2, <1>5, <1>6, ConstantsAssumption, SMT

\* CInstantSend implements InstantLocks until a restart: masternodes sign, the
\* node hears, and mapLockedOutpoints changes only by completing a lock on a
\* quorum of votes heard, over no other lock, or by releasing some.
THEOREM MapsImplementInstantLocks ==
    ASSUME MajorityQuorums
    PROVE  Spec /\ [](restarts = 0 /\ Shallow) => ImplementsInstantLocks
<1> DEFINE s == instantsend
           Quiet == restarts = 0 /\ Shallow
<1>0. \A t \in Txs : [u \in Txs |-> Inputs(u)][t] = Inputs(t)
    OBVIOUS
<1>1. PeerVotes \subseteq Votes /\ \A v \in PeerVotes : v.mn # Self
    BY PeerVotesType
<1>2. Votes \subseteq Node!Votes
    BY DEF Votes, Node!Votes
<1>3. Init => Node!Init
    <2> SUFFICES ASSUME Init  PROVE Node!Init
        OBVIOUS
    <2>1. cast = {} /\ heard = {} /\ instantsend.locked = [o \in Outpoints |-> NoTx]
        BY DEF Init, Fresh
    <2>2. PeerVotes \cup cast = PeerVotes
        BY <2>1
    <2>3. PeerVotes \subseteq Node!Votes /\ Node!VotesOnce(PeerVotes, Self)
        BY <1>1, <1>2 DEF Node!VotesOnce
    <2> QED  BY <2>1, <2>2, <2>3 DEF Node!Init
<1>4. ASSUME IInv, IInv', SInv', Quiet', [Next]_vars
      PROVE  Node!Next
    <2>1. Settled'
        BY <1>4 DEF SInv
    <2>2. cast' \in SUBSET Votes /\ heard' \in SUBSET Votes
        BY <1>4 DEF IInv, Types
    <2>3. Node!Sign
        <3>1. /\ PeerVotes \cup cast \subseteq PeerVotes \cup cast'
              /\ PeerVotes \cup cast' \subseteq Node!Votes
            BY <1>1, <1>2, <1>4, <2>2, HistoriesGrow
        <3>2. \A v, w \in cast' : v.out = w.out => v.tx = w.tx
            BY <1>4, <2>1, MajoritySuffices DEF Settled, CastOnce
        <3>3. \A v, w \in PeerVotes \cup cast' :
                 v.mn = Self /\ w.mn = Self /\ v.out = w.out => v.tx = w.tx
            BY <1>1, <3>2
        <3> QED  BY <3>1, <3>3 DEF Node!Sign, Node!VotesOnce
    <2>4. Node!Hear
        BY <1>4, <2>1, HistoriesGrow DEF Settled, CastOnce, Node!Hear
    <2>5. s.locked \in [Outpoints -> Txs \cup {NoTx}] /\ s'.locked \in [Outpoints -> Txs \cup {NoTx}]
        BY <1>4 DEF IInv, RInv, Records
    <2>6. PICK t : LockStep(s, s', t)
        BY <1>4, NextIInv DEF LockMoves
    <2>7. CASE \A o \in Outpoints : s'.locked[o] \in {s.locked[o], NoTx}
        <3> DEFINE O == {o \in Outpoints : s'.locked[o] = NoTx}
        <3>1. s'.locked = [o \in Outpoints |-> IF o \in O THEN NoTx ELSE s.locked[o]]
            BY <2>5, <2>7, SMT
        <3>2. O \in SUBSET Outpoints
            OBVIOUS
        <3> HIDE DEF O
        <3>3. Node!Release
            BY <3>1, <3>2 DEF Node!Release
        <3> QED  BY <2>3, <2>4, <3>3 DEF Node!Next
    <2>8. CASE t \in Txs /\ Completes(s, s', t)
        <3>1. PICK o \in Inputs(t) : o \in Outpoints
            BY <2>8, InputsType
        <3>2. /\ \A p \in Inputs(t) : s.locked[p] \in {NoTx, t}
              /\ s'.locked = [p \in Outpoints |-> IF p \in Inputs(t) THEN t ELSE s.locked[p]]
            BY <2>8 DEF Completes
        <3>3. s'.locked[o] = t /\ t # NoTx
            BY <2>8, <3>1, <3>2, ConstantsAssumption
        <3>4. /\ Backed(s', t) /\ CountedAreHeard(s', heard')
              /\ s'.counted \in SUBSET Votes
            <4>1. s'.counted \in SUBSET Votes
                BY <1>4 DEF IInv, RInv, Records
            <4>2. CountedAreHeard(s', heard')
                BY <1>4 DEF IInv, RInv, CountedAreHeard
            <4>3. Backed(s', t)
                BY <1>4, <3>1, <3>3 DEF IInv, RInv, LocksAreBacked, Backed
            <4> QED  BY <4>1, <4>2, <4>3
        <3>5. Node!HasQuorum(heard', t)
            BY <2>2, <2>8, <3>4, HolderHasQuorum
        <3>6. Node!Complete(t)
            BY <1>0, <2>8, <3>2, <3>5 DEF Node!Complete
        <3> QED  BY <2>3, <2>4, <2>8, <3>6 DEF Node!Next
    <2> QED  BY <2>6, <2>7, <2>8 DEF LockStep
<1> HIDE DEF Quiet
<1> QED  BY <1>3, <1>4, VoteInvariance, PTL
            DEF Spec, ImplementsInstantLocks, Node!Spec, Quiet
=============================================================================

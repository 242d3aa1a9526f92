--------------------------- MODULE InstantSendProofs ---------------------------
(***************************************************************************)
(* What holds of a node's InstantSend state in every reachable state, for  *)
(* all transactions, masternodes, quorums, votes, timeouts and bounds.     *)
(***************************************************************************)
EXTENDS InstantSend, TLAPS

USE Zenon

\* The maps of CInstantSend with their types.
Records ==
    [ cands : SUBSET Txs, requested : SUBSET Txs, outlocks : SUBSET Txs,
      candTime : [Txs -> Int], candHeight : [Txs -> Int],
      counted : SUBSET Votes, attacked : SUBSET (Txs \X Outpoints),
      accepted : SUBSET Txs, rejected : SUBSET Txs,
      votes : SUBSET Votes, blank : SUBSET Votes,
      voteTime : [Votes -> Int], voteHeight : [Votes -> Int],
      orphans : SUBSET Votes, orphanTime : [Votes -> Int],
      voted : [Outpoints -> SUBSET Txs], locked : [Outpoints -> Txs \cup {NoTx}],
      cached : Int, banned : SUBSET Masternodes ]

\* The candidates that CheckAndRemove erases, and the outpoints it frees.
Gone(s) == {t \in s.cands : Expired(s, s.candHeight[t])}
Freed(s) == UNION {Inputs(t) : t \in Gone(s) \cap s.outlocks}

-----------------------------------------------------------------------------
(* The procedures of CInstantSend keep the types of the maps.              *)

\* The inputs of a transaction are outpoints, at least one.
LEMMA InputsType ==
    ASSUME NEW t \in Txs
    PROVE  Inputs(t) \subseteq Outpoints /\ Inputs(t) # {}
<1>1. vin[t] \in Seq(Outpoints) /\ Len(vin[t]) > 0 /\ Len(vin[t]) \in Nat
    BY ConstantsAssumption, SMT
<1>2. vin[t][1] \in Inputs(t)
    BY <1>1, SMT DEF Inputs
<1>3. \A i \in 1..Len(vin[t]) : vin[t][i] \in Outpoints
    BY <1>1, SMT
<1> QED  BY <1>2, <1>3 DEF Inputs

\* The peers' votes are no votes of this node's.
LEMMA PeerVotesType == PeerVotes \subseteq Votes /\ \A v \in PeerVotes : v.mn # Self
<1>1. \A v \in PeerVotes : /\ v \in [tx : Txs, out : Outpoints, mn : Masternodes]
                            /\ v.mn # Self
    BY ConstantsAssumption, SMT
<1> QED  BY <1>1 DEF Votes

LEMMA FreshType == Fresh \in Records
BY ConstantsAssumption, SMT DEF Fresh, Records

LEMMA RemoveType ==
    ASSUME NEW s \in Records
    PROVE  CheckAndRemove(s) \in Records
<1> DEFINE s0 == ForgetOutpoints(s, Freed(s))
           s1 == [s0 EXCEPT !.cands      = @ \ Gone(s),
                            !.requested  = @ \ Gone(s),
                            !.outlocks   = @ \ Gone(s),
                            !.candTime   = Clear(@, Gone(s), 0),
                            !.candHeight = Clear(@, Gone(s), -1),
                            !.counted    = {v \in @ : v.tx \notin Gone(s)},
                            !.attacked   = {a \in @ : a[1] \notin Gone(s)},
                            !.accepted   = @ \ (Gone(s) \cap s.requested),
                            !.rejected   = @ \ (Gone(s) \cap s.requested)]
           late == {v \in s.orphans : TimedOut(s.orphanTime[v])}
           dead == late \cup {v \in s.votes : \/ Expired(s, s.voteHeight[v])
                                              \/ IsFailed(s, v, s1)}
<1>1. s0 \in Records
    BY DEF Records, ForgetOutpoints, Clear
<1>2. s1 \in Records
    <2>1. /\ s0.cands \ Gone(s) \in SUBSET Txs /\ s0.requested \ Gone(s) \in SUBSET Txs
          /\ s0.outlocks \ Gone(s) \in SUBSET Txs
          /\ s0.accepted \ (Gone(s) \cap s.requested) \in SUBSET Txs
          /\ s0.rejected \ (Gone(s) \cap s.requested) \in SUBSET Txs
        BY <1>1 DEF Records
    <2>2. /\ Clear(s0.candTime, Gone(s), 0) \in [Txs -> Int]
          /\ Clear(s0.candHeight, Gone(s), -1) \in [Txs -> Int]
        <3>1. s0.candTime \in [Txs -> Int] /\ s0.candHeight \in [Txs -> Int]
            BY <1>1 DEF Records
        <3> QED  BY <3>1, SMT DEF Clear
    <2>3. /\ {v \in s0.counted : v.tx \notin Gone(s)} \in SUBSET Votes
          /\ {a \in s0.attacked : a[1] \notin Gone(s)} \in SUBSET (Txs \X Outpoints)
        BY <1>1 DEF Records
    <2> HIDE DEF s0
    <2> QED  BY <1>1, <2>1, <2>2, <2>3, ZenonT(30) DEF Records
<1> DEFINE Pruned(a, b, c, f, g, h) ==
              [s1 EXCEPT !.votes = a, !.blank = b, !.voteTime = f,
                         !.voteHeight = g, !.orphans = c, !.orphanTime = h]
<1>3. CheckAndRemove(s) =
        Pruned(s1.votes \ dead, s1.blank \ dead, s1.orphans \ late,
               Clear(s1.voteTime, dead, 0), Clear(s1.voteHeight, dead, -1),
               Clear(s1.orphanTime, late, 0))
    BY DEF CheckAndRemove, Gone, Freed
<1> HIDE DEF s1, late, dead
<1>4. /\ s1.votes \ dead \in SUBSET Votes /\ s1.blank \ dead \in SUBSET Votes
      /\ s1.orphans \ late \in SUBSET Votes
    BY <1>2 DEF Records
<1>5. /\ Clear(s1.voteTime, dead, 0) \in [Votes -> Int]
      /\ Clear(s1.voteHeight, dead, -1) \in [Votes -> Int]
      /\ Clear(s1.orphanTime, late, 0) \in [Votes -> Int]
    <2>1. /\ s1.voteTime \in [Votes -> Int] /\ s1.voteHeight \in [Votes -> Int]
          /\ s1.orphanTime \in [Votes -> Int]
        BY <1>2 DEF Records
    <2> QED  BY <2>1, SMT DEF Clear
<1>6. ASSUME NEW a \in SUBSET Votes, NEW b \in SUBSET Votes, NEW c \in SUBSET Votes,
             NEW f \in [Votes -> Int], NEW g \in [Votes -> Int], NEW h \in [Votes -> Int]
      PROVE  Pruned(a, b, c, f, g, h) \in Records
    BY <1>2 DEF Records
<1> HIDE DEF Pruned
<1> QED  BY <1>3, <1>4, <1>5, <1>6, SMT

LEMMA RemoveFields ==
    ASSUME NEW s \in Records
    PROVE  LET r == CheckAndRemove(s)
           IN  /\ r.cands = s.cands \ Gone(s)
               /\ r.requested = s.requested \ Gone(s)
               /\ r.outlocks = s.outlocks \ Gone(s)
               /\ r.candTime = Clear(s.candTime, Gone(s), 0)
               /\ r.candHeight = Clear(s.candHeight, Gone(s), -1)
               /\ r.counted = {v \in s.counted : v.tx \notin Gone(s)}
               /\ r.attacked = {a \in s.attacked : a[1] \notin Gone(s)}
               /\ r.rejected = s.rejected \ (Gone(s) \cap s.requested)
               /\ r.voted = Clear(s.voted, Freed(s), {})
               /\ r.locked = Clear(s.locked, Freed(s), NoTx)
               /\ r.cached = s.cached
               /\ r.banned = s.banned
<1> DEFINE r == CheckAndRemove(s)
<1>1. /\ r.cands = s.cands \ Gone(s)
      /\ r.requested = s.requested \ Gone(s)
      /\ r.outlocks = s.outlocks \ Gone(s)
      /\ r.candTime = Clear(s.candTime, Gone(s), 0)
      /\ r.candHeight = Clear(s.candHeight, Gone(s), -1)
    BY ZenonT(30) DEF CheckAndRemove, Records, ForgetOutpoints, Gone, Freed
<1>2. /\ r.counted = {v \in s.counted : v.tx \notin Gone(s)}
      /\ r.attacked = {a \in s.attacked : a[1] \notin Gone(s)}
      /\ r.rejected = s.rejected \ (Gone(s) \cap s.requested)
    BY ZenonT(30) DEF CheckAndRemove, Records, ForgetOutpoints, Gone, Freed
<1>3. /\ r.voted = Clear(s.voted, Freed(s), {})
      /\ r.locked = Clear(s.locked, Freed(s), NoTx)
    BY DEF CheckAndRemove, Records, ForgetOutpoints, Gone, Freed
<1>4. r.cached = s.cached
    BY SMT DEF CheckAndRemove, Records, ForgetOutpoints, Gone, Freed
<1>5. r.banned = s.banned
    BY SMT DEF CheckAndRemove, Records, ForgetOutpoints, Gone, Freed
<1> QED  BY <1>1, <1>2, <1>3, <1>4, <1>5

\* The fields that matter below, apart from candHeight, accepted and rejected.
Same(s, r) ==
    /\ r.cands = s.cands /\ r.requested = s.requested /\ r.outlocks = s.outlocks
    /\ r.candTime = s.candTime /\ r.counted = s.counted /\ r.attacked = s.attacked
    /\ r.voted = s.voted /\ r.locked = s.locked
    /\ r.cached = s.cached /\ r.banned = s.banned

\* StoreVotes only writes mapTxLockVotes.
LEMMA StoreFields ==
    ASSUME NEW s \in Records, NEW V \in SUBSET Votes, now \in Int
    PROVE  LET r == StoreVotes(s, V)
           IN  /\ r \in Records /\ Same(s, r)
               /\ r.candHeight = s.candHeight
               /\ r.accepted = s.accepted /\ r.rejected = s.rejected
               /\ r.votes = s.votes \cup V
               /\ r.orphans = s.orphans /\ r.orphanTime = s.orphanTime
<1>1. StoreVotes(s, V) \in Records
    BY DEF StoreVotes, Records
<1>2. Same(s, StoreVotes(s, V))
    BY DEF StoreVotes, Records, Same
<1> QED  BY <1>1, <1>2, ZenonT(30) DEF StoreVotes, Records

\* SyncTransaction writes confirmed heights and default votes for orphans.
LEMMA SyncFields ==
    ASSUME NEW s \in Records, NEW T \in SUBSET Txs, NEW h \in Int, now \in Int
    PROVE  LET r == SyncTransactions(s, T, h)
           IN  /\ r \in Records /\ Same(s, r)
               /\ r.candHeight = Clear(s.candHeight, T \cap s.cands, h)
               /\ r.accepted = s.accepted /\ r.rejected = s.rejected
<1> DEFINE mine == {v \in s.counted \cap s.votes : v.tx \in T}
           orph == {v \in s.orphans : v.tx \in T}
           s1 == StoreVotes(s, orph)
           r == SyncTransactions(s, T, h)
<1>1. orph \in SUBSET Votes
    BY DEF Records
<1>2. /\ s1 \in Records /\ Same(s, s1) /\ s1.candHeight = s.candHeight
      /\ s1.accepted = s.accepted /\ s1.rejected = s.rejected
    BY <1>1, StoreFields
<1>3. r = [s1 EXCEPT !.candHeight = Clear(@, T \cap s.cands, h),
                     !.blank = @ \cup (orph \ s.votes),
                     !.voteHeight = Clear(@, mine \cup orph, h)]
    BY DEF SyncTransactions
<1> HIDE DEF s1, mine
<1>4. /\ Clear(s1.candHeight, T \cap s.cands, h) \in [Txs -> Int]
      /\ Clear(s1.voteHeight, mine \cup orph, h) \in [Votes -> Int]
    BY <1>2 DEF Records, Clear
<1>5. s1.blank \cup (orph \ s.votes) \in SUBSET Votes
    BY <1>1, <1>2 DEF Records
<1> HIDE DEF orph
<1>6. r \in Records
    <2> DEFINE Updated(a, b, c) ==
                  [s1 EXCEPT !.candHeight = a, !.blank = b, !.voteHeight = c]
    <2>1. ASSUME NEW a \in [Txs -> Int], NEW b \in SUBSET Votes, NEW c \in [Votes -> Int]
          PROVE  Updated(a, b, c) \in Records
        BY <1>2 DEF Records
    <2>2. r = Updated(Clear(s1.candHeight, T \cap s.cands, h),
                      s1.blank \cup (orph \ s.votes),
                      Clear(s1.voteHeight, mine \cup orph, h))
        BY <1>3
    <2> HIDE DEF Updated, r
    <2> QED  BY <1>4, <1>5, <2>1, <2>2
<1>7. Same(s1, r)
    BY <1>2, <1>3, ZenonT(30) DEF Records, Same
<1>8. /\ r.candHeight = Clear(s1.candHeight, T \cap s.cands, h)
      /\ r.accepted = s1.accepted /\ r.rejected = s1.rejected
    BY <1>2, <1>3 DEF Records
<1> HIDE DEF r
<1>9. Same(s, r)
    BY <1>2, <1>7 DEF Same
<1> QED  BY <1>2, <1>6, <1>8, <1>9 DEF r

-----------------------------------------------------------------------------
(* The part of the inductive invariant that is about one record s of maps, *)
(* for the set H of votes heard so far.                                    *)

\* Every input of candidate t has enough votes that are counted.  Stated with a
\* set Q of votes, so that more votes never make a lock less backed.
Backed(s, t) ==
    /\ t \in s.outlocks
    /\ \A p \in Inputs(t) : \E Q \in SUBSET VotesFor(s.counted, t, p) :
          Cardinality(Q) >= SIGNATURES_REQUIRED

\* A candidate has outpoint locks only with a request, and a request without
\* them is one that came too late.
CandidateStages(s) ==
    /\ s.outlocks \subseteq s.requested /\ s.requested \subseteq s.cands
    /\ \A t \in s.requested \ s.outlocks : TimedOut(s.candTime[t])

\* A counted vote was heard, comes from the quorum, and belongs to a candidate
\* with outpoint locks that spends the outpoint.
CountedAreHeard(s, H) ==
    \A v \in s.counted : /\ v \in H /\ v.mn \in Quorum[v.out]
                         /\ v.tx \in s.outlocks /\ v.out \in Inputs(v.tx)

\* A hash in mapVotedOutpoints whose transaction spends the outpoint is a
\* candidate whose expiry would erase the entry.
VotedAreCandidates(s) ==
    \A o \in Outpoints : \A t \in s.voted[o] : o \in Inputs(t) => t \in s.outlocks

\* So is the holder of a lock, and its votes are still there.
LocksAreBacked(s) ==
    \A o \in Outpoints :
        s.locked[o] # NoTx => o \in Inputs(s.locked[o]) /\ Backed(s, s.locked[o])

BansAreEarned(s, H) ==
    \A m \in s.banned : \E v, w \in H :
        v.mn = m /\ w.mn = m /\ v.out = w.out /\ v.tx # w.tx

RInv(s, H) ==
    /\ s \in Records
    /\ CandidateStages(s)
    /\ CountedAreHeard(s, H)
    /\ VotedAreCandidates(s)
    /\ LocksAreBacked(s)
    /\ BansAreEarned(s, H)

LEMMA BackedGrows ==
    ASSUME NEW s, NEW r, NEW t, Backed(s, t), t \in r.outlocks,
           \A v \in s.counted : v.tx = t => v \in r.counted
    PROVE  Backed(r, t)
<1> SUFFICES ASSUME NEW p \in Inputs(t)
             PROVE  \E Q \in SUBSET VotesFor(r.counted, t, p) :
                        Cardinality(Q) >= SIGNATURES_REQUIRED
    BY DEF Backed
<1>1. PICK Q \in SUBSET VotesFor(s.counted, t, p) : Cardinality(Q) >= SIGNATURES_REQUIRED
    BY DEF Backed
<1>2. Q \in SUBSET VotesFor(r.counted, t, p)
    BY DEF VotesFor
<1> QED  BY <1>1, <1>2

\* The invariant does not look at the other fields, nor at how many more votes
\* have been heard.
LEMMA SameKeeps ==
    ASSUME NEW H, NEW G, H \subseteq G, NEW s, RInv(s, H),
           NEW r \in Records, Same(s, r)
    PROVE  RInv(r, G)
<1>1. \A t : Backed(s, t) => Backed(r, t)
    BY DEF Same, Backed
<1>2. CandidateStages(r) /\ CountedAreHeard(r, G) /\ VotedAreCandidates(r)
    BY DEF RInv, Same, CandidateStages, CountedAreHeard, VotedAreCandidates
<1>3. LocksAreBacked(r)
    BY <1>1 DEF RInv, Same, LocksAreBacked
<1>4. BansAreEarned(r, G)
    BY SMT DEF RInv, Same, BansAreEarned
<1> QED  BY <1>2, <1>3, <1>4 DEF RInv

-----------------------------------------------------------------------------
(* The procedures keep it.                                                 *)

\* Clean-up: an expired candidate takes its votes, its hashes in
\* mapVotedOutpoints and the locks it holds with it.
LEMMA RemoveKeeps ==
    ASSUME NEW H, NEW s, RInv(s, H)
    PROVE  LET r == CheckAndRemove(s)
           IN  /\ RInv(r, H)
               /\ \A o \in Outpoints : r.locked[o] \in {s.locked[o], NoTx}
<1> DEFINE r == CheckAndRemove(s)
<1>1. s \in Records
    BY DEF RInv
<1>2. r \in Records
    BY <1>1, RemoveType
<1>3. /\ r.cands = s.cands \ Gone(s)
      /\ r.requested = s.requested \ Gone(s)
      /\ r.outlocks = s.outlocks \ Gone(s)
      /\ r.candTime = Clear(s.candTime, Gone(s), 0)
      /\ r.counted = {v \in s.counted : v.tx \notin Gone(s)}
      /\ r.voted = Clear(s.voted, Freed(s), {})
      /\ r.locked = Clear(s.locked, Freed(s), NoTx)
      /\ r.banned = s.banned
    BY <1>1, RemoveFields
<1> HIDE DEF r
<1>4. \A o \in Outpoints : /\ r.voted[o] = IF o \in Freed(s) THEN {} ELSE s.voted[o]
                           /\ r.locked[o] = IF o \in Freed(s) THEN NoTx ELSE s.locked[o]
    BY <1>1, <1>3 DEF Records, Clear
<1>5. \A t \in Txs \ Gone(s) : r.candTime[t] = s.candTime[t]
    BY <1>1, <1>3 DEF Records, Clear
<1>6. ASSUME NEW t \in s.outlocks \cap Gone(s), NEW o \in Inputs(t)
      PROVE  o \in Freed(s)
    BY DEF Freed
<1>7. CandidateStages(r)
    BY <1>1, <1>3, <1>5 DEF RInv, CandidateStages, Records
<1>8. CountedAreHeard(r, H)
    BY <1>3 DEF RInv, CountedAreHeard
<1>9. VotedAreCandidates(r)
    BY <1>3, <1>4, <1>6 DEF RInv, VotedAreCandidates
<1>10. LocksAreBacked(r)
    <2> SUFFICES ASSUME NEW o \in Outpoints, r.locked[o] # NoTx
                 PROVE  o \in Inputs(r.locked[o]) /\ Backed(r, r.locked[o])
        BY DEF LocksAreBacked
    <2> DEFINE t == s.locked[o]
    <2>1. r.locked[o] = t /\ o \notin Freed(s) /\ t # NoTx
        BY <1>4
    <2>2. o \in Inputs(t) /\ Backed(s, t)
        BY <2>1 DEF RInv, LocksAreBacked
    <2>3. t \in s.outlocks /\ t \notin Gone(s) /\ t \in Txs
        BY <2>1, <2>2, <1>1, <1>6 DEF Backed, Records
    <2>4. \A v \in s.counted : v.tx = t => v \in r.counted
        BY <2>3, <1>3
    <2>5. Backed(r, t)
        BY <1>1, <1>2, <1>3, <2>2, <2>3, <2>4, BackedGrows
    <2> QED  BY <2>1, <2>2, <2>5
<1>11. BansAreEarned(r, H)
    BY <1>3, SMT DEF RInv, BansAreEarned
<1> QED  BY <1>2, <1>4, <1>7, <1>8, <1>9, <1>10, <1>11 DEF RInv, r

\* What a procedure may do to mapLockedOutpoints: release locks, or complete one
\* on a transaction that is mined or spendable, none of whose inputs is held by
\* another lock or spent in the memory pool.
Completes(s, r, t) ==
    /\ t \in mined \/ AllUnspent(t)
    /\ \A o \in Inputs(t) : s.locked[o] \in {NoTx, t} /\ ~SpentInMempool(t, o)
    /\ r.locked = [o \in Outpoints |-> IF o \in Inputs(t) THEN t ELSE s.locked[o]]

LockStep(s, r, t) ==
    \/ \A o \in Outpoints : r.locked[o] \in {s.locked[o], NoTx}
    \/ t \in Txs /\ Completes(s, r, t)

\* Writing nConfirmedHeight, mapLockRequestAccepted or mapLockRequestRejected.
LEMMA WriteFields ==
    ASSUME NEW s \in Records
    PROVE  /\ \A f \in [Txs -> Int] :
                LET r == [s EXCEPT !.candHeight = f]
                IN  r \in Records /\ Same(s, r) /\ r.candHeight = f /\ r.rejected = s.rejected
           /\ \A S \in SUBSET Txs :
                LET r == [s EXCEPT !.rejected = S]
                IN  r \in Records /\ Same(s, r) /\ r.candHeight = s.candHeight /\ r.rejected = S
           /\ \A S \in SUBSET Txs :
                LET r == [s EXCEPT !.accepted = S]
                IN  r \in Records /\ Same(s, r) /\ r.candHeight = s.candHeight /\ r.rejected = s.rejected
<1>1. ASSUME NEW f \in [Txs -> Int]
      PROVE  LET r == [s EXCEPT !.candHeight = f]
             IN  r \in Records /\ Same(s, r) /\ r.candHeight = f /\ r.rejected = s.rejected
    BY DEF Records, Same
<1>2. ASSUME NEW S \in SUBSET Txs
      PROVE  LET r == [s EXCEPT !.rejected = S]
             IN  r \in Records /\ Same(s, r) /\ r.candHeight = s.candHeight /\ r.rejected = S
    BY DEF Records, Same
<1>3. ASSUME NEW S \in SUBSET Txs
      PROVE  LET r == [s EXCEPT !.accepted = S]
             IN  r \in Records /\ Same(s, r) /\ r.candHeight = s.candHeight /\ r.rejected = s.rejected
    BY DEF Records, Same
<1> QED  BY <1>1, <1>2, <1>3

\* ResolveConflicts, when two conflicting locks have completed.
LEMMA DropKeeps ==
    ASSUME NEW H, NEW s, RInv(s, H), NEW t \in Txs, NEW u \in Txs
    PROVE  LET r == DropBoth(s, t, u)
           IN  /\ RInv(r, H)
               /\ \A o \in Outpoints : r.locked[o] \in {s.locked[o], NoTx}
<1> DEFINE s0 == [s EXCEPT !.candHeight = Clear(@, {t, u}, 0)]
           s1 == CheckAndRemove(s0)
           r == DropBoth(s, t, u)
<1>1. s \in Records
    BY DEF RInv
<1>2. s0 \in Records /\ Same(s, s0)
    <2>1. Clear(s.candHeight, {t, u}, 0) \in [Txs -> Int]
        BY <1>1, SMT DEF Records, Clear
    <2> QED  BY <1>1, <2>1, WriteFields
<1>3. RInv(s0, H)
    <2> HIDE DEF s0
    <2> QED  BY <1>2, SameKeeps
<1>4. RInv(s1, H) /\ \A o \in Outpoints : s1.locked[o] \in {s0.locked[o], NoTx}
    <2> HIDE DEF s0
    <2> QED  BY <1>3, RemoveKeeps
<1>5. r = [s1 EXCEPT !.rejected = @ \cup {t, u}]
    BY DEF DropBoth
<1> HIDE DEF s0, s1, r
<1>6. r \in Records /\ Same(s1, r)
    <2>1. s1 \in Records /\ s1.rejected \cup {t, u} \in SUBSET Txs
        BY <1>4 DEF RInv, Records
    <2> QED  BY <1>5, <2>1, WriteFields
<1>7. RInv(r, H)
    BY <1>4, <1>6, SameKeeps
<1> QED  BY <1>2, <1>4, <1>6, <1>7 DEF Same, r

\* LockTransactionInputs, when no input is locked by another transaction.
LEMMA LockKeeps ==
    ASSUME NEW H, NEW s, RInv(s, H), NEW t \in Txs, IsAllOutPointsReady(s, t),
           \A o \in Inputs(t) : ~LockedByOther(s, t, o)
    PROVE  LET r == LockTransactionInputs(s, t)
           IN  /\ RInv(r, H)
               /\ r.locked = [o \in Outpoints |->
                               IF o \in Inputs(t) THEN t ELSE s.locked[o]]
               /\ r.outlocks = s.outlocks /\ r.counted = s.counted
               /\ r.attacked = s.attacked /\ r.voted = s.voted
               /\ r.candHeight = s.candHeight /\ r.rejected = s.rejected
               /\ r.cached = s.cached /\ r.cands = s.cands
<1> DEFINE r == LockTransactionInputs(s, t)
           f == [o \in Outpoints |-> IF o \in Inputs(t) THEN t ELSE s.locked[o]]
<1>1. s \in Records
    BY DEF RInv
<1>2. f \in [Outpoints -> Txs \cup {NoTx}]
    BY <1>1 DEF Records
<1>3. r = [s EXCEPT !.locked = f]
    <2>1. f = [o \in Outpoints |-> IF o \in Inputs(t) /\ s.locked[o] = NoTx
                                    THEN t ELSE s.locked[o]]
        BY DEF LockedByOther
    <2> HIDE DEF f
    <2> QED  BY <2>1 DEF LockTransactionInputs
<1>4. r \in Records
    <2> HIDE DEF f
    <2> QED  BY <1>1, <1>2, <1>3, ZenonT(30) DEF Records
<1>5. /\ r.cands = s.cands /\ r.requested = s.requested /\ r.outlocks = s.outlocks
      /\ r.candTime = s.candTime /\ r.counted = s.counted /\ r.attacked = s.attacked
      /\ r.voted = s.voted /\ r.banned = s.banned /\ r.locked = f
      /\ r.candHeight = s.candHeight /\ r.rejected = s.rejected /\ r.cached = s.cached
    <2> HIDE DEF f
    <2> QED  BY <1>1, <1>3 DEF Records
<1> HIDE DEF r
<1>6. \A u : Backed(r, u) <=> Backed(s, u)
    BY <1>5 DEF Backed
<1>7. Backed(r, t)
    BY <1>6 DEF Backed, IsAllOutPointsReady, IsReady
<1>8. /\ CandidateStages(r) /\ CountedAreHeard(r, H) /\ VotedAreCandidates(r)
      /\ BansAreEarned(r, H)
    BY <1>5, SMT DEF RInv, CandidateStages, CountedAreHeard, VotedAreCandidates, BansAreEarned
<1>9. LocksAreBacked(r)
    BY <1>5, <1>6, <1>7 DEF RInv, LocksAreBacked
<1> QED  BY <1>4, <1>5, <1>8, <1>9 DEF RInv, r

\* TryToFinalizeLockCandidate does nothing, completes the lock on t, or drops t
\* together with a conflicting candidate u whose lock has completed.
LEMMA TryCases ==
    ASSUME NEW s \in Records, NEW t \in Txs
    PROVE  LET r == TryToFinalize(s, t)
           IN  \/ r = s
               \/ /\ r = LockTransactionInputs(s, t)
                  /\ IsAllOutPointsReady(s, t)
                  /\ t \in mined \/ AllUnspent(t)
                  /\ \A o \in Inputs(t) : ~LockedByOther(s, t, o) /\ ~SpentInMempool(t, o)
               \/ /\ IsAllOutPointsReady(s, t)
                  /\ \E o \in Inputs(t) : /\ LockedByOther(s, t, o)
                                          /\ s.locked[o] \in s.cands
                                          /\ r = DropBoth(s, t, s.locked[o])
<1> DEFINE r == TryToFinalize(s, t)
           clash == {o \in FirstConflict(s, t) :
                        LockedByOther(s, t, o) /\ s.locked[o] \in s.cands}
<1>1. CASE Conflicts(s, t) = {}
    <2>1. \A o \in Inputs(t) : ~LockedByOther(s, t, o) /\ ~SpentInMempool(t, o)
        BY <1>1 DEF Conflicts, Inputs
    <2>2. \/ r = s
          \/ /\ r = LockTransactionInputs(s, t) /\ IsAllOutPointsReady(s, t)
             /\ t \in mined \/ AllUnspent(t)
        BY <1>1 DEF TryToFinalize
    <2> QED  BY <2>1, <2>2
<1>2. CASE Conflicts(s, t) # {} /\ r # s
    <2>1. /\ IsAllOutPointsReady(s, t) /\ clash # {}
          /\ r = DropBoth(s, t, s.locked[CHOOSE o \in clash : TRUE])
        BY <1>2 DEF TryToFinalize
    <2>2. FirstConflict(s, t) \subseteq Inputs(t)
        BY DEF FirstConflict, Conflicts, Inputs
    <2> DEFINE o == CHOOSE o \in clash : TRUE
    <2>3. o \in clash
        BY <2>1
    <2> QED  BY <2>1, <2>2, <2>3
<1> QED  BY <1>1, <1>2

LEMMA TryKeeps ==
    ASSUME NEW H, NEW s, RInv(s, H), NEW t \in Txs
    PROVE  LET r == TryToFinalize(s, t)
           IN  RInv(r, H) /\ LockStep(s, r, t)
<1> DEFINE r == TryToFinalize(s, t)
<1>1. s \in Records
    BY DEF RInv
<1>2. CASE r = s
    BY <1>2 DEF LockStep
<1>3. CASE /\ r = LockTransactionInputs(s, t)
           /\ IsAllOutPointsReady(s, t)
           /\ t \in mined \/ AllUnspent(t)
           /\ \A o \in Inputs(t) : ~LockedByOther(s, t, o) /\ ~SpentInMempool(t, o)
    <2>1. /\ RInv(r, H)
          /\ r.locked = [o \in Outpoints |-> IF o \in Inputs(t) THEN t ELSE s.locked[o]]
        BY <1>3, LockKeeps, SMT
    <2>2. Completes(s, r, t)
        BY <1>3, <2>1 DEF Completes, LockedByOther
    <2> QED  BY <2>1, <2>2 DEF LockStep
<1>4. ASSUME NEW o \in Inputs(t), LockedByOther(s, t, o), s.locked[o] \in s.cands,
             r = DropBoth(s, t, s.locked[o])
      PROVE  RInv(r, H) /\ LockStep(s, r, t)
    <2>1. s.locked[o] \in Txs
        BY <1>1, <1>4 DEF Records
    <2>2. RInv(r, H) /\ \A p \in Outpoints : r.locked[p] \in {s.locked[p], NoTx}
        BY <1>4, <2>1, DropKeeps
    <2> QED  BY <2>2 DEF LockStep
<1> QED  BY <1>1, <1>2, <1>3, <1>4, TryCases

\* CreateTxLockCandidate: a request that comes too late gets no outpoint locks.
LEMMA CreateFields ==
    ASSUME NEW s \in Records, NEW t \in Txs, now \in Int
    PROVE  LET r == CreateTxLockCandidate(s, t)
           IN  /\ r \in Records
               /\ r.counted = s.counted /\ r.attacked = s.attacked
               /\ r.voted = s.voted /\ r.locked = s.locked /\ r.cached = s.cached
               /\ r.banned = s.banned /\ r.candHeight = s.candHeight
               /\ r.accepted = s.accepted /\ r.rejected = s.rejected
               /\ r.votes = s.votes
               /\ \/ r = s
                  \/ /\ t \notin s.requested
                     /\ r.cands = s.cands \cup {t} /\ r.requested = s.requested \cup {t}
                     /\ \A u \in Txs : u # t => r.candTime[u] = s.candTime[u]
                     /\ \/ r.outlocks = s.outlocks \cup {t}
                        \/ r.outlocks = s.outlocks /\ TimedOut(r.candTime[t])
<1> DEFINE r == CreateTxLockCandidate(s, t)
<1>1. CASE ~IsValid(t) \/ t \in s.requested
    <2>1. r = s
        BY <1>1 DEF CreateTxLockCandidate
    <2> QED  BY <2>1
<1>2. CASE ~(~IsValid(t) \/ t \in s.requested) /\ t \notin s.cands
    <2>1. r = [s EXCEPT !.cands = @ \cup {t}, !.requested = @ \cup {t},
                        !.outlocks = @ \cup {t}, !.candTime[t] = now]
        BY <1>2 DEF CreateTxLockCandidate
    <2> HIDE DEF r
    <2>2. r \in Records
        BY <2>1, ZenonT(30) DEF Records
    <2>3. /\ r.counted = s.counted /\ r.attacked = s.attacked
          /\ r.voted = s.voted /\ r.locked = s.locked /\ r.cached = s.cached
          /\ r.banned = s.banned /\ r.candHeight = s.candHeight
          /\ r.accepted = s.accepted /\ r.rejected = s.rejected /\ r.votes = s.votes
        BY <2>1 DEF Records
    <2>4. /\ r.cands = s.cands \cup {t} /\ r.requested = s.requested \cup {t}
          /\ \A u \in Txs : u # t => r.candTime[u] = s.candTime[u]
          /\ r.outlocks = s.outlocks \cup {t}
        BY <2>1 DEF Records
    <2> QED  BY <1>2, <2>2, <2>3, <2>4 DEF r
<1>3. CASE ~(~IsValid(t) \/ t \in s.requested) /\ t \in s.cands
    <2> DEFINE ol == IF TimedOut(s.candTime[t]) THEN s.outlocks ELSE s.outlocks \cup {t}
    <2>1. r = [s EXCEPT !.requested = @ \cup {t}, !.outlocks = ol]
        BY <1>3 DEF CreateTxLockCandidate
    <2>2. ol \in SUBSET Txs
        BY DEF Records
    <2> HIDE DEF r, ol
    <2>3. r \in Records
        BY <2>1, <2>2 DEF Records
    <2>4. /\ r.counted = s.counted /\ r.attacked = s.attacked
          /\ r.voted = s.voted /\ r.locked = s.locked /\ r.cached = s.cached
          /\ r.banned = s.banned /\ r.candHeight = s.candHeight
          /\ r.accepted = s.accepted /\ r.rejected = s.rejected /\ r.votes = s.votes
        BY <2>1 DEF Records
    <2>5. /\ r.cands = s.cands \cup {t} /\ r.requested = s.requested \cup {t}
          /\ r.candTime = s.candTime /\ r.outlocks = ol
        BY <1>3, <2>1 DEF Records
    <2> QED  BY <1>3, <2>3, <2>4, <2>5 DEF r, ol
<1> QED  BY <1>1, <1>2, <1>3

LEMMA CreateKeeps ==
    ASSUME NEW H, NEW s, RInv(s, H), NEW t \in Txs, now \in Int
    PROVE  LET r == CreateTxLockCandidate(s, t)
           IN  RInv(r, H) /\ r.locked = s.locked
<1> DEFINE r == CreateTxLockCandidate(s, t)
<1>1. s \in Records
    BY DEF RInv
<1>2. /\ r \in Records
      /\ r.counted = s.counted /\ r.voted = s.voted /\ r.locked = s.locked
      /\ r.banned = s.banned
      /\ \/ r = s
         \/ /\ r.cands = s.cands \cup {t} /\ r.requested = s.requested \cup {t}
            /\ \A u \in Txs : u # t => r.candTime[u] = s.candTime[u]
            /\ \/ r.outlocks = s.outlocks \cup {t}
               \/ r.outlocks = s.outlocks /\ TimedOut(r.candTime[t])
    BY <1>1, CreateFields
<1> HIDE DEF r
<1>3. s.outlocks \subseteq r.outlocks
    BY <1>2
<1>4. CandidateStages(r)
    BY <1>1, <1>2 DEF RInv, CandidateStages, Records
<1>5. CountedAreHeard(r, H) /\ VotedAreCandidates(r) /\ BansAreEarned(r, H)
    BY <1>2, <1>3, SMT DEF RInv, CountedAreHeard, VotedAreCandidates, BansAreEarned
<1>6. LocksAreBacked(r)
    BY <1>2, <1>3 DEF RInv, LocksAreBacked, Backed
<1> QED  BY <1>2, <1>4, <1>5, <1>6 DEF RInv, r

LEMMA RequestKeeps ==
    ASSUME NEW H, NEW s, RInv(s, H), NEW t \in Txs, now \in Int
    PROVE  LET r == ProcessTxLockRequest(s, t)
           IN  RInv(r, H) /\ LockStep(s, r, t)
<1> DEFINE s1 == CreateTxLockCandidate(s, t)
           r == ProcessTxLockRequest(s, t)
<1>1. RInv(s1, H) /\ s1.locked = s.locked
    BY CreateKeeps
<1>2. r = s1 \/ r = TryToFinalize(s1, t)
    BY DEF ProcessTxLockRequest
<1> HIDE DEF s1, r
<1>3. CASE r = s1
    BY <1>1, <1>3 DEF LockStep, r
<1>4. CASE r = TryToFinalize(s1, t)
    <2>1. RInv(r, H) /\ LockStep(s1, r, t)
        BY <1>1, <1>4, TryKeeps
    <2> QED  BY <1>1, <2>1 DEF LockStep, Completes, r
<1> QED  BY <1>2, <1>3, <1>4

\* Counting more votes for a candidate with outpoint locks.
LEMMA CountKeeps ==
    ASSUME NEW H, NEW G, H \subseteq G, NEW s, RInv(s, H), NEW r \in Records,
           NEW t \in s.outlocks,
           r.cands = s.cands, r.requested = s.requested, r.outlocks = s.outlocks,
           r.candTime = s.candTime, r.locked = s.locked,
           s.counted \subseteq r.counted,
           \A v \in r.counted \ s.counted :
              v \in G /\ v.tx = t /\ v.mn \in Quorum[v.out] /\ v.out \in Inputs(t),
           \A o \in Outpoints : \A u \in r.voted[o] \ s.voted[o] : u = t,
           BansAreEarned(r, G)
    PROVE  RInv(r, G)
<1>1. CandidateStages(r) /\ CountedAreHeard(r, G) /\ VotedAreCandidates(r)
    BY SMT DEF RInv, CandidateStages, CountedAreHeard, VotedAreCandidates
<1>2. LocksAreBacked(r)
    <2> SUFFICES ASSUME NEW o \in Outpoints, s.locked[o] # NoTx
                 PROVE  o \in Inputs(s.locked[o]) /\ Backed(r, s.locked[o])
        BY DEF LocksAreBacked
    <2>1. s \in Records /\ o \in Inputs(s.locked[o]) /\ Backed(s, s.locked[o])
        BY DEF RInv, LocksAreBacked
    <2>2. s.locked[o] \in Txs /\ s.locked[o] \in r.outlocks
        BY <2>1 DEF Records, Backed
    <2>3. Backed(r, s.locked[o])
        BY <2>1, <2>2, BackedGrows
    <2> QED  BY <2>1, <2>3
<1> QED  BY <1>1, <1>2 DEF RInv

\* Vote() makes votes of this masternode on inputs where it ranks, for a
\* candidate with outpoint locks.
LEMMA OwnVotesType ==
    ASSUME NEW s \in Records, NEW t \in Txs, NEW D
    PROVE  /\ OwnVotes(s, t, D) \subseteq Votes
           /\ \A v \in OwnVotes(s, t, D) :
                /\ v.tx = t /\ v.mn = Self /\ v.out \in VotableInputs(s, t, D)
                /\ v.out \in Inputs(t) /\ Self \in Quorum[v.out]
                /\ t \in s.outlocks /\ AllUnspent(t)
<1>1. VotableInputs(s, t, D) \subseteq Inputs(t) /\ Inputs(t) \subseteq Outpoints
    BY InputsType DEF VotableInputs
<1>2. \A o \in VotableInputs(s, t, D) : Self \in Quorum[o]
    BY DEF VotableInputs
<1> QED  BY <1>1, <1>2, SMT DEF OwnVotes, Votes

\* The record that Vote() hands to TryToFinalizeLockCandidate.
Voting(s, t, D) ==
    LET V == OwnVotes(s, t, D)
    IN  [StoreVotes(s, V) EXCEPT
           !.counted = @ \cup V,
           !.voted   = [o \in Outpoints |-> IF \E v \in V \ s.counted : v.out = o
                                           THEN @[o] \cup {t} ELSE @[o]]]

LEMMA VotingFields ==
    ASSUME NEW s \in Records, NEW t \in Txs, NEW D, now \in Int
    PROVE  LET r == Voting(s, t, D)
               V == OwnVotes(s, t, D)
           IN  /\ r \in Records
               /\ r.cands = s.cands /\ r.requested = s.requested /\ r.outlocks = s.outlocks
               /\ r.candTime = s.candTime /\ r.locked = s.locked /\ r.banned = s.banned
               /\ r.attacked = s.attacked /\ r.candHeight = s.candHeight
               /\ r.cached = s.cached /\ r.rejected = s.rejected
               /\ r.counted = s.counted \cup V
               /\ r.voted = [o \in Outpoints |-> IF \E v \in V \ s.counted : v.out = o
                                                THEN s.voted[o] \cup {t} ELSE s.voted[o]]
<1> DEFINE V == OwnVotes(s, t, D)
           s1 == StoreVotes(s, V)
           f == [o \in Outpoints |-> IF \E v \in V \ s.counted : v.out = o
                                     THEN s.voted[o] \cup {t} ELSE s.voted[o]]
           r == Voting(s, t, D)
<1>1. V \in SUBSET Votes
    BY OwnVotesType
<1>2. /\ s1 \in Records /\ Same(s, s1) /\ s1.candHeight = s.candHeight
      /\ s1.rejected = s.rejected
    <2> HIDE DEF V
    <2> QED  BY <1>1, StoreFields
<1>3. f \in [Outpoints -> SUBSET Txs]
    BY DEF Records
<1>4. r = [s1 EXCEPT !.counted = s.counted \cup V, !.voted = f]
    BY <1>2 DEF Voting, Same
<1>5. s.counted \cup V \in SUBSET Votes
    BY <1>1 DEF Records
<1> HIDE DEF V, s1, f, r
<1>6. r \in Records
    BY <1>2, <1>3, <1>4, <1>5 DEF Records
<1>7. /\ r.cands = s1.cands /\ r.requested = s1.requested /\ r.outlocks = s1.outlocks
      /\ r.candTime = s1.candTime /\ r.locked = s1.locked /\ r.banned = s1.banned
      /\ r.attacked = s1.attacked /\ r.candHeight = s1.candHeight
      /\ r.cached = s1.cached /\ r.rejected = s1.rejected
      /\ r.counted = s.counted \cup V /\ r.voted = f
    BY <1>2, <1>4 DEF Records
<1> QED  BY <1>2, <1>6, <1>7 DEF Same, r, f, V

LEMMA VotingKeeps ==
    ASSUME NEW H, NEW G, NEW s, RInv(s, H), NEW t \in Txs, NEW D, now \in Int,
           G = H \cup (OwnVotes(s, t, D) \ s.counted)
    PROVE  RInv(Voting(s, t, D), G) /\ Voting(s, t, D).locked = s.locked
<1> DEFINE V == OwnVotes(s, t, D)
           r == Voting(s, t, D)
<1>1. s \in Records
    BY DEF RInv
<1>2. /\ r \in Records
      /\ r.cands = s.cands /\ r.requested = s.requested /\ r.outlocks = s.outlocks
      /\ r.candTime = s.candTime /\ r.locked = s.locked /\ r.banned = s.banned
      /\ r.attacked = s.attacked /\ r.cached = s.cached
      /\ r.counted = s.counted \cup V
      /\ r.voted = [o \in Outpoints |-> IF \E v \in V \ s.counted : v.out = o
                                       THEN s.voted[o] \cup {t} ELSE s.voted[o]]
    BY <1>1, VotingFields, SMT
<1>3. /\ V \subseteq Votes
      /\ \A v \in V : /\ v.tx = t /\ v.mn \in Quorum[v.out] /\ v.out \in Inputs(t)
                      /\ t \in s.outlocks
    BY <1>1, OwnVotesType, SMT
<1> HIDE DEF V, r
<1>4. BansAreEarned(r, G)
    BY <1>2, SMT DEF RInv, BansAreEarned, V
<1>5. CASE V = {}
    <2>1. Same(s, r)
        BY <1>1, <1>2, <1>5 DEF Same, Records
    <2> QED  BY <1>2, <2>1, SameKeeps DEF V, r
<1>6. CASE V # {}
    <2>1. t \in s.outlocks
        BY <1>3, <1>6
    <2>2. \A o \in Outpoints : \A u \in r.voted[o] \ s.voted[o] : u = t
        BY <1>2, SMT
    <2>3. \A v \in r.counted \ s.counted :
             v \in G /\ v.tx = t /\ v.mn \in Quorum[v.out] /\ v.out \in Inputs(t)
        BY <1>2, <1>3 DEF V
    <2>4. RInv(r, G)
        BY <1>2, <1>4, <2>1, <2>2, <2>3, CountKeeps, SMT
    <2> QED  BY <1>2, <2>4 DEF r
<1> QED  BY <1>5, <1>6

LEMMA VoteCases ==
    \A s, t, D :
        Vote(s, t, D) = IF t \in s.cands THEN TryToFinalize(Voting(s, t, D), t) ELSE s
BY DEF Vote, Voting

LEMMA VoteKeeps ==
    ASSUME NEW H, NEW G, NEW s, RInv(s, H), NEW t \in Txs, NEW D, now \in Int,
           G = H \cup (OwnVotes(s, t, D) \ s.counted)
    PROVE  LET r == Vote(s, t, D)
           IN  RInv(r, G) /\ LockStep(s, r, t)
<1> DEFINE s1 == Voting(s, t, D)
           r == Vote(s, t, D)
<1>1. RInv(s1, G) /\ s1.locked = s.locked
    BY VotingKeeps, SMT
<1>2. r = IF t \in s.cands THEN TryToFinalize(s1, t) ELSE s
    BY VoteCases
<1> HIDE DEF s1, r
<1>3. CASE t \in s.cands
    <2>1. RInv(r, G) /\ LockStep(s1, r, t)
        BY <1>1, <1>2, <1>3, TryKeeps
    <2> QED  BY <1>1, <2>1 DEF LockStep, Completes, r
<1>4. CASE t \notin s.cands
    <2>1. s \in Records /\ r = s
        BY <1>2, <1>4 DEF RInv
    <2>2. RInv(s, G)
        BY <2>1, SameKeeps DEF Same
    <2> QED  BY <2>1, <2>2 DEF LockStep, r
<1> QED  BY <1>3, <1>4

\* An early vote makes an empty candidate, if any, and an orphan vote.
Orphaned(s, v) ==
    [s EXCEPT !.cands = @ \cup {v.tx},
              !.candTime[v.tx] = IF v.tx \in s.cands THEN @ ELSE now,
              !.orphans = @ \cup {v},
              !.orphanTime[v] = now]

LEMMA OrphanedFields ==
    ASSUME NEW s \in Records, NEW v \in Votes, now \in Int
    PROVE  LET r == Orphaned(s, v)
           IN  /\ r \in Records
               /\ r.cands = s.cands \cup {v.tx} /\ r.requested = s.requested
               /\ r.outlocks = s.outlocks /\ r.counted = s.counted
               /\ r.attacked = s.attacked /\ r.voted = s.voted /\ r.locked = s.locked
               /\ r.cached = s.cached /\ r.banned = s.banned
               /\ r.candHeight = s.candHeight /\ r.rejected = s.rejected
               /\ r.accepted = s.accepted
               /\ \A u \in s.cands : r.candTime[u] = s.candTime[u]
<1> DEFINE t == v.tx
           f == [s.candTime EXCEPT ![t] = IF t \in s.cands THEN @ ELSE now]
           g == [s.orphanTime EXCEPT ![v] = now]
           r == Orphaned(s, v)
           Kept(a, b, c, d) == [s EXCEPT !.cands = a, !.candTime = b,
                                         !.orphans = c, !.orphanTime = d]
<1>1. t \in Txs
    BY DEF Votes
<1>2. /\ f \in [Txs -> Int] /\ g \in [Votes -> Int]
      /\ s.cands \cup {t} \in SUBSET Txs /\ s.orphans \cup {v} \in SUBSET Votes
    BY <1>1 DEF Records
<1>3. r = Kept(s.cands \cup {t}, f, s.orphans \cup {v}, g)
    BY DEF Orphaned
<1>4. \A u \in s.cands : f[u] = s.candTime[u]
    BY <1>1 DEF Records
<1>5. ASSUME NEW a \in SUBSET Txs, NEW b \in [Txs -> Int],
             NEW c \in SUBSET Votes, NEW d \in [Votes -> Int]
      PROVE  /\ Kept(a, b, c, d) \in Records
             /\ Kept(a, b, c, d).cands = a /\ Kept(a, b, c, d).candTime = b
    BY DEF Records
<1>6. ASSUME NEW a \in SUBSET Txs, NEW b \in [Txs -> Int],
             NEW c \in SUBSET Votes, NEW d \in [Votes -> Int]
      PROVE  LET q == Kept(a, b, c, d)
             IN  /\ q.requested = s.requested
                 /\ q.outlocks = s.outlocks /\ q.counted = s.counted
                 /\ q.attacked = s.attacked /\ q.voted = s.voted /\ q.locked = s.locked
    BY DEF Records
<1>7. ASSUME NEW a \in SUBSET Txs, NEW b \in [Txs -> Int],
             NEW c \in SUBSET Votes, NEW d \in [Votes -> Int]
      PROVE  LET q == Kept(a, b, c, d)
             IN  /\ q.cached = s.cached /\ q.banned = s.banned
                 /\ q.candHeight = s.candHeight /\ q.rejected = s.rejected
                 /\ q.accepted = s.accepted
    BY DEF Records
<1> HIDE DEF Kept, f, g, t
<1>8. r \in Records /\ r.cands = s.cands \cup {t} /\ r.candTime = f
    BY <1>2, <1>3, <1>5, SMT
<1>9. /\ r.requested = s.requested /\ r.outlocks = s.outlocks /\ r.counted = s.counted
      /\ r.attacked = s.attacked /\ r.voted = s.voted /\ r.locked = s.locked
    BY <1>2, <1>3, <1>6, SMT
<1>10. /\ r.cached = s.cached /\ r.banned = s.banned
       /\ r.candHeight = s.candHeight /\ r.rejected = s.rejected
       /\ r.accepted = s.accepted
    BY <1>2, <1>3, <1>7, SMT
<1> HIDE DEF r
<1> QED  BY <1>4, <1>8, <1>9, <1>10 DEF t, r

LEMMA OrphanedKeeps ==
    ASSUME NEW H, NEW s, RInv(s, H), NEW v \in Votes, now \in Int,
           v.tx \notin s.requested
    PROVE  RInv(Orphaned(s, v), H) /\ Orphaned(s, v).locked = s.locked
<1> DEFINE r == Orphaned(s, v)
<1>1. s \in Records
    BY DEF RInv
<1>2. /\ r \in Records
      /\ r.cands = s.cands \cup {v.tx} /\ r.requested = s.requested
      /\ r.outlocks = s.outlocks /\ r.counted = s.counted
      /\ r.voted = s.voted /\ r.locked = s.locked /\ r.banned = s.banned
      /\ \A u \in s.cands : r.candTime[u] = s.candTime[u]
    BY <1>1, OrphanedFields
<1> HIDE DEF r
<1>3. CandidateStages(r)
    BY <1>2 DEF RInv, CandidateStages
<1>4. CountedAreHeard(r, H) /\ VotedAreCandidates(r) /\ BansAreEarned(r, H)
    BY <1>2, SMT DEF RInv, CountedAreHeard, VotedAreCandidates, BansAreEarned
<1>5. \A u : Backed(s, u) => Backed(r, u)
    BY <1>2 DEF Backed
<1>6. LocksAreBacked(r)
    BY <1>2, <1>5 DEF RInv, LocksAreBacked
<1> QED  BY <1>2, <1>3, <1>4, <1>6 DEF RInv, r

LEMMA OrphanKeeps ==
    ASSUME NEW H, NEW s, RInv(s, H), NEW v \in Votes, now \in Int,
           v.tx \notin s.requested
    PROVE  LET r == ProcessOrphanVote(s, v)
           IN  RInv(r, H) /\ LockStep(s, r, v.tx)
<1> DEFINE s1 == Orphaned(s, v)
           r == ProcessOrphanVote(s, v)
<1>1. v.tx \in Txs
    BY DEF Votes
<1>2. RInv(s1, H) /\ s1.locked = s.locked
    BY OrphanedKeeps
<1>3. r = s \/ r = s1 \/ r = ProcessTxLockRequest(s1, v.tx)
    BY DEF ProcessOrphanVote, Orphaned
<1> HIDE DEF s1, r
<1>4. CASE r = s
    BY <1>4 DEF LockStep, r
<1>5. CASE r = s1
    BY <1>2, <1>5 DEF LockStep, r
<1>6. CASE r = ProcessTxLockRequest(s1, v.tx)
    <2>1. RInv(r, H) /\ LockStep(s1, r, v.tx)
        BY <1>1, <1>2, <1>6, RequestKeeps
    <2> QED  BY <1>2, <2>1 DEF LockStep, Completes, r
<1> QED  BY <1>3, <1>4, <1>5, <1>6

\* A vote for a candidate: the record before the vote itself is counted.
Marked(s, v) ==
    LET hurt == IF Twins(s, v) = {} THEN {} ELSE Twins(s, v) \cup {v.tx}
    IN  [s EXCEPT
           !.attacked = @ \cup {<<u, v.out>> : u \in {w \in hurt \cap s.outlocks :
                                                        v.out \in Inputs(w)}},
           !.banned = IF hurt = {} THEN @ ELSE @ \cup {v.mn},
           !.voted[v.out] = @ \cup {v.tx}]

\* ... and the record after it, unless AddVote finds that the candidate does not
\* spend the outpoint.
Tally(s, v) == IF v.out \in Inputs(v.tx) THEN s.counted \cup {v} ELSE s.counted
Tallied(s, v) == [Marked(s, v) EXCEPT !.counted = Tally(s, v)]

LEMMA TalliedFields ==
    ASSUME NEW s \in Records, NEW v \in Votes
    PROVE  LET r == Tallied(s, v)
           IN  /\ r \in Records /\ r.counted = Tally(s, v)
               /\ r.cands = s.cands /\ r.requested = s.requested
               /\ r.outlocks = s.outlocks /\ r.candTime = s.candTime
               /\ r.candHeight = s.candHeight /\ r.rejected = s.rejected
               /\ r.locked = s.locked /\ r.cached = s.cached
               /\ r.banned = IF Twins(s, v) = {} THEN s.banned ELSE s.banned \cup {v.mn}
               /\ s.attacked \subseteq r.attacked
               /\ \A u \in Twins(s, v) :
                    /\ u \in s.outlocks /\ v.out \in Inputs(u)
                    /\ v.tx \in s.outlocks /\ v.out \in Inputs(v.tx)
                    => {<<u, v.out>>, <<v.tx, v.out>>} \subseteq r.attacked
               /\ r.voted = [s.voted EXCEPT ![v.out] = @ \cup {v.tx}]
<1> DEFINE hurt == IF Twins(s, v) = {} THEN {} ELSE Twins(s, v) \cup {v.tx}
           A == s.attacked \cup {<<u, v.out>> : u \in {w \in hurt \cap s.outlocks :
                                                         v.out \in Inputs(w)}}
           B == IF Twins(s, v) = {} THEN s.banned ELSE s.banned \cup {v.mn}
           f == [s.voted EXCEPT ![v.out] = @ \cup {v.tx}]
           Kept(a, b, c, d) == [[s EXCEPT !.attacked = a, !.banned = b, !.voted = c]
                                  EXCEPT !.counted = d]
           r == Tallied(s, v)
<1>1. v.tx \in Txs /\ v.out \in Outpoints /\ v.mn \in Masternodes
    BY DEF Votes
<1>2. A \in SUBSET (Txs \X Outpoints)
    BY <1>1, SMT DEF Records
<1>3. B \in SUBSET Masternodes /\ f \in [Outpoints -> SUBSET Txs]
    BY <1>1 DEF Records
<1>3a. Tally(s, v) \in SUBSET Votes
    BY DEF Records, Tally
<1>4. r = Kept(A, B, f, Tally(s, v))
    <2>1. hurt = {} <=> Twins(s, v) = {}
        OBVIOUS
    <2> QED  BY <2>1 DEF Tallied, Marked
<1>5. ASSUME NEW a \in SUBSET (Txs \X Outpoints), NEW b \in SUBSET Masternodes,
             NEW c \in [Outpoints -> SUBSET Txs], NEW d \in SUBSET Votes
      PROVE  Kept(a, b, c, d) \in Records
    BY DEF Records
<1>6. ASSUME NEW a, NEW b, NEW c, NEW d
      PROVE  /\ Kept(a, b, c, d).attacked = a /\ Kept(a, b, c, d).banned = b
             /\ Kept(a, b, c, d).voted = c /\ Kept(a, b, c, d).counted = d
    BY DEF Records
<1>7. ASSUME NEW a, NEW b, NEW c, NEW d
      PROVE  LET q == Kept(a, b, c, d)
             IN  /\ q.cands = s.cands /\ q.requested = s.requested
                 /\ q.outlocks = s.outlocks /\ q.candTime = s.candTime
    BY DEF Records
<1>8. ASSUME NEW a, NEW b, NEW c, NEW d
      PROVE  LET q == Kept(a, b, c, d)
             IN  /\ q.candHeight = s.candHeight /\ q.rejected = s.rejected
                 /\ q.locked = s.locked /\ q.cached = s.cached
    BY DEF Records
<1>8a. /\ s.attacked \subseteq A
       /\ \A u \in Twins(s, v) :
            /\ u \in s.outlocks /\ v.out \in Inputs(u)
            /\ v.tx \in s.outlocks /\ v.out \in Inputs(v.tx)
            => {<<u, v.out>>, <<v.tx, v.out>>} \subseteq A
    OBVIOUS
<1> HIDE DEF Kept, A, B, f, r
<1>9. /\ r \in Records /\ r.counted = Tally(s, v)
      /\ r.cands = s.cands /\ r.requested = s.requested
      /\ r.outlocks = s.outlocks /\ r.candTime = s.candTime
      /\ r.candHeight = s.candHeight /\ r.rejected = s.rejected
      /\ r.locked = s.locked /\ r.cached = s.cached
      /\ r.banned = B /\ r.attacked = A /\ r.voted = f
    BY <1>2, <1>3, <1>4, <1>5, <1>6, <1>7, <1>8, <1>3a, SMT
<1> QED  BY <1>8a, <1>9 DEF B, f, r

\* Counting the vote as well, unless it is counted already.
LEMMA CandidateVoteCases ==
    ASSUME NEW s \in Records, NEW v \in Votes, CandidateStages(s), v.tx \in s.requested
    PROVE  LET r == ProcessCandidateVote(s, v)
               s1 == Tallied(s, v)
           IN  \/ r = s
               \/ v.tx \in s.outlocks /\ (r = s1 \/ r = TryToFinalize(s1, v.tx))
<1> DEFINE r == ProcessCandidateVote(s, v)
           s1 == Marked(s, v)
<1>1. s1.counted = s.counted
    BY DEF Marked, Records
<1>2. s1 = [s1 EXCEPT !.counted = s.counted]
    <2>1. SUFFICES s1 = [s1 EXCEPT !.counted = s1.counted]
        BY <1>1
    <2> QED  BY ZenonT(30) DEF Marked, Records
<1>3. CASE TimedOut(s.candTime[v.tx])
    BY <1>3 DEF ProcessCandidateVote
<1>4. CASE ~TimedOut(s.candTime[v.tx])
    <2>1. v.tx \in s.outlocks
        BY <1>4 DEF CandidateStages
    <2>2. r = IF v.out \notin Inputs(v.tx) \/ v \in s.counted THEN s1
              ELSE TryToFinalize([s1 EXCEPT !.counted = @ \cup {v}], v.tx)
        BY <1>4, <2>1, SMT DEF ProcessCandidateVote, Marked
    <2>3. [s1 EXCEPT !.counted = @ \cup {v}] = [s1 EXCEPT !.counted = s.counted \cup {v}]
        BY <1>1
    <2>4. /\ v.out \notin Inputs(v.tx) \/ v \in s.counted => Tally(s, v) = s.counted
          /\ v.out \in Inputs(v.tx) => Tally(s, v) = s.counted \cup {v}
        BY DEF Tally
    <2> HIDE DEF s1
    <2> QED  BY <1>2, <2>1, <2>2, <2>3, <2>4 DEF s1, Tallied
<1> QED  BY <1>3, <1>4

LEMMA TalliedKeeps ==
    ASSUME NEW H, NEW s, RInv(s, H), NEW v \in Votes, v.tx \in s.outlocks,
           v.mn \in Quorum[v.out]
    PROVE  RInv(Tallied(s, v), H \cup {v}) /\ Tallied(s, v).locked = s.locked
<1> DEFINE G == H \cup {v}
           r == Tallied(s, v)
<1>1. s \in Records /\ v.tx \in Txs /\ v.out \in Outpoints
    BY DEF RInv, Votes
<1>2. /\ r \in Records /\ r.counted = Tally(s, v)
      /\ r.cands = s.cands /\ r.requested = s.requested
      /\ r.outlocks = s.outlocks /\ r.candTime = s.candTime
      /\ r.locked = s.locked
      /\ r.banned = IF Twins(s, v) = {} THEN s.banned ELSE s.banned \cup {v.mn}
      /\ r.voted = [s.voted EXCEPT ![v.out] = @ \cup {v.tx}]
    BY <1>1, TalliedFields
<1> HIDE DEF r, G
<1>3. BansAreEarned(r, G)
    <2>1. CASE Twins(s, v) = {}
        BY <1>2, <2>1, SMT DEF RInv, BansAreEarned, G
    <2>2. CASE Twins(s, v) # {}
        <3>1. PICK u \in Twins(s, v) : TRUE
            BY <2>2
        <3> DEFINE w == [tx |-> u, out |-> v.out, mn |-> v.mn]
        <3>2. w \in s.counted /\ u # v.tx
            BY <3>1 DEF Twins, HasVoted
        <3>3. w \in H
            BY <3>2 DEF RInv, CountedAreHeard
        <3>4. w.mn = v.mn /\ w.out = v.out /\ w.tx # v.tx
            BY <3>2
        <3> HIDE DEF w
        <3> QED  BY <1>2, <2>2, <3>3, <3>4, SMT DEF RInv, BansAreEarned, G
    <2> QED  BY <2>1, <2>2
<1>4. \A w \in r.counted \ s.counted :
         w \in G /\ w.tx = v.tx /\ w.mn \in Quorum[w.out] /\ w.out \in Inputs(v.tx)
    BY <1>2 DEF G, Tally
<1>5. \A o \in Outpoints : \A u \in r.voted[o] \ s.voted[o] : u = v.tx
    BY <1>1, <1>2, SMT DEF Records
<1>6. H \subseteq G /\ s.counted \subseteq r.counted
    BY <1>2 DEF G, Tally
<1>7. RInv(r, G)
    BY <1>2, <1>3, <1>4, <1>5, <1>6, CountKeeps
<1> QED  BY <1>2, <1>7 DEF r, G

LEMMA CandidateVoteKeeps ==
    ASSUME NEW H, NEW s, RInv(s, H), NEW v \in Votes, v.tx \in s.requested,
           v.mn \in Quorum[v.out]
    PROVE  LET r == ProcessCandidateVote(s, v)
           IN  RInv(r, H \cup {v}) /\ LockStep(s, r, v.tx)
<1> DEFINE G == H \cup {v}
           s1 == Tallied(s, v)
           r == ProcessCandidateVote(s, v)
<1>1. s \in Records /\ v.tx \in Txs
    BY DEF RInv, Votes
<1>2. \/ r = s
      \/ v.tx \in s.outlocks /\ (r = s1 \/ r = TryToFinalize(s1, v.tx))
    BY <1>1, CandidateVoteCases DEF RInv
<1>3. v.tx \in s.outlocks => RInv(s1, G) /\ s1.locked = s.locked
    BY TalliedKeeps
<1> HIDE DEF s1, r, G
<1>4. CASE r = s
    BY <1>1, <1>4, SameKeeps DEF Same, LockStep, r, G
<1>5. CASE v.tx \in s.outlocks /\ r = s1
    BY <1>3, <1>5 DEF LockStep, r, G
<1>6. CASE v.tx \in s.outlocks /\ r = TryToFinalize(s1, v.tx)
    <2>1. RInv(r, G) /\ LockStep(s1, r, v.tx)
        BY <1>1, <1>3, <1>6, TryKeeps
    <2> QED  BY <1>3, <1>6, <2>1 DEF LockStep, Completes, r, G
<1> QED  BY <1>2, <1>4, <1>5, <1>6

\* A txvote message.
LEMMA VoteMessageKeeps ==
    ASSUME NEW H, NEW G, NEW s, RInv(s, H), NEW v \in Votes, now \in Int,
           G = IF VoteIsValid(v) THEN H \cup {v} ELSE H
    PROVE  LET r == ProcessTxLockVote(s, v)
           IN  RInv(r, G) /\ LockStep(s, r, v.tx)
<1> DEFINE s1 == StoreVotes(s, {v})
           r == ProcessTxLockVote(s, v)
<1>1. s \in Records
    BY DEF RInv
<1>2. s1 \in Records /\ Same(s, s1)
    BY <1>1, StoreFields
<1>3. r = IF v \in s.votes THEN s
          ELSE IF ~VoteIsValid(v) THEN s1
          ELSE IF v.tx \notin s.requested THEN ProcessOrphanVote(s1, v)
          ELSE ProcessCandidateVote(s1, v)
    BY DEF ProcessTxLockVote
<1> HIDE DEF s1, r
<1>4. RInv(s, G) /\ RInv(s1, H) /\ RInv(s1, G)
    BY <1>1, <1>2, SameKeeps DEF Same
<1>5. s1.requested = s.requested /\ s1.locked = s.locked
    BY <1>2 DEF Same
<1>6. CASE v \in s.votes \/ ~VoteIsValid(v)
    BY <1>3, <1>4, <1>5, <1>6 DEF LockStep, r
<1>7. CASE v \notin s.votes /\ VoteIsValid(v) /\ v.tx \notin s.requested
    <2>1. RInv(r, G) /\ LockStep(s1, r, v.tx)
        BY <1>3, <1>4, <1>5, <1>7, OrphanKeeps
    <2> QED  BY <1>5, <2>1 DEF LockStep, Completes, r
<1>8. CASE v \notin s.votes /\ VoteIsValid(v) /\ v.tx \in s.requested
    <2>1. v.mn \in Quorum[v.out]
        BY <1>8 DEF VoteIsValid
    <2>2. RInv(r, H \cup {v}) /\ LockStep(s1, r, v.tx)
        BY <1>3, <1>4, <1>5, <1>8, <2>1, CandidateVoteKeeps
    <2> QED  BY <1>5, <1>8, <2>2 DEF LockStep, Completes, r
<1> QED  BY <1>6, <1>7, <1>8

-----------------------------------------------------------------------------
(* The inductive invariant.                                                *)

Types ==
    /\ now \in Nat /\ evictions \in Nat /\ undone \in Nat /\ restarts \in Nat
    /\ mempool \in SUBSET Txs /\ handling \in Txs \cup {NoTx}
    /\ chain \in Seq(SUBSET Txs)
    /\ blk \in [stage : {"none", "accepted", "connected"},
                txs : SUBSET Txs, dropped : SUBSET Txs]
    /\ heard \in SUBSET Votes /\ cast \in SUBSET Votes /\ told \in SUBSET Txs

\* The chain holds no double spend, and neither will it with the block that has
\* passed CheckBlock.
ChainIsConsistent ==
    /\ \A t, u \in mined : ~Conflict(t, u)
    /\ blk.stage = "accepted" =>
         /\ \A t \in blk.txs : AllUnspent(t)
         /\ \A t, u \in blk.txs : ~Conflict(t, u)

\* When no other thread runs inside ProcessNewBlock, what CheckBlock found still
\* holds when the block is connected.
FilterStillHolds ==
    /\ blk.stage # "none" => handling = NoTx
    /\ blk.stage = "accepted" => PassesLockFilter(blk.txs)
    /\ NoBlockConflictsWithLock

IInv ==
    /\ Types
    /\ RInv(instantsend, heard)
    /\ MempoolRespectsLocks
    /\ ChainIsConsistent
    /\ ~OtherThreads => FilterStillHolds

\* A block's transactions join those of the chain, or leave them.
LEMMA MinedGrows ==
    ASSUME chain \in Seq(SUBSET Txs), NEW S \in SUBSET Txs, chain' = Append(chain, S)
    PROVE  mined' = mined \cup S
<1>1. /\ Len(chain) \in Nat /\ Len(chain') = Len(chain) + 1
      /\ \A i \in 1..Len(chain) : chain'[i] = chain[i]
      /\ chain'[Len(chain) + 1] = S
    BY SMT
<1>2. 1..Len(chain') = 1..Len(chain) \cup {Len(chain) + 1}
    BY <1>1, SMT
<1>3. ASSUME NEW t \in mined'
      PROVE  t \in mined \cup S
    <2>1. PICK i \in 1..Len(chain') : t \in chain'[i]
        BY DEF mined
    <2> QED  BY <1>1, <1>2, <2>1 DEF mined
<1>4. ASSUME NEW t \in mined \cup S
      PROVE  t \in mined'
    <2>1. CASE t \in S
        BY <1>1, <1>2, <2>1 DEF mined
    <2>2. CASE t \in mined
        <3>1. PICK i \in 1..Len(chain) : t \in chain[i]
            BY <2>2 DEF mined
        <3>2. i \in 1..Len(chain') /\ t \in chain'[i]
            BY <1>1, <1>2, <3>1
        <3> QED  BY <3>2 DEF mined
    <2> QED  BY <2>1, <2>2
<1> QED  BY <1>3, <1>4

LEMMA Prefixes ==
    ASSUME NEW S, NEW c \in Seq(S), NEW n \in Nat, n <= Len(c)
    PROVE  /\ SubSeq(c, 1, n) \in Seq(S)
           /\ Len(SubSeq(c, 1, n)) = n
           /\ \A i \in 1..n : SubSeq(c, 1, n)[i] = c[i]
<1>1. \A i \in 1..n : SubSeq(c, 1, n)[i] = c[i]
    BY SMT
<1>2. SubSeq(c, 1, n) \in Seq(S)
    BY SMT
<1>3. Len(SubSeq(c, 1, n)) = n
    <2>1. CASE n = 0
        BY <2>1, SMT
    <2>2. CASE n # 0
        BY <2>2, SMT
    <2> QED  BY <2>1, <2>2
<1> QED  BY <1>1, <1>2, <1>3

LEMMA MinedShrinks ==
    ASSUME chain \in Seq(SUBSET Txs), chain # <<>>,
           chain' = SubSeq(chain, 1, Len(chain) - 1)
    PROVE  /\ chain' \in Seq(SUBSET Txs) /\ mined' \subseteq mined
           /\ Len(chain) \in Nat \ {0} /\ Len(chain') = Len(chain) - 1
           /\ \A i \in 1..(Len(chain) - 1) : chain'[i] = chain[i]
<1>1. Len(chain) \in Nat \ {0}
    BY SMT
<1>2. PICK n \in Nat : n = Len(chain) - 1 /\ n <= Len(chain)
    BY <1>1, SMT
<1>3. /\ chain' \in Seq(SUBSET Txs)
      /\ Len(chain') = Len(chain) - 1
      /\ \A i \in 1..(Len(chain) - 1) : chain'[i] = chain[i]
    BY <1>2, Prefixes
<1>4. ASSUME NEW t \in mined'
      PROVE  t \in mined
    <2>1. PICK i \in 1..Len(chain') : t \in chain'[i]
        BY DEF mined
    <2>2. i \in 1..Len(chain) /\ t \in chain[i]
        BY <1>1, <1>3, <2>1, SMT
    <2> QED  BY <2>2 DEF mined
<1> QED  BY <1>1, <1>3, <1>4

LEMMA MinedType ==
    ASSUME chain \in Seq(SUBSET Txs)
    PROVE  mined \subseteq Txs
<1>1. \A i \in 1..Len(chain) : chain[i] \subseteq Txs
    BY SMT
<1> QED  BY <1>1 DEF mined

\* A procedure that ends in record instantsend' while the clock stands still.
LEMMA RInvCarries ==
    ASSUME RInv(instantsend', heard'), now' = now
    PROVE  RInv(instantsend, heard)'
<1>1. CandidateStages(instantsend)'
    BY DEF RInv, CandidateStages, TimedOut
<1>2. CountedAreHeard(instantsend, heard)' /\ BansAreEarned(instantsend, heard)'
    BY DEF RInv, CountedAreHeard, BansAreEarned
<1>3. VotedAreCandidates(instantsend)' /\ LocksAreBacked(instantsend)'
    BY DEF RInv, VotedAreCandidates, LocksAreBacked, Backed
<1>4. (instantsend \in Records)'
    BY DEF RInv
<1> QED  BY <1>1, <1>2, <1>3, <1>4 DEF RInv

\* A lock that completes respects the memory pool, the chain and the block that
\* is about to be connected.
LEMMA MempoolStillRespects ==
    ASSUME Types, MempoolRespectsLocks, NEW t,
           LockStep(instantsend, instantsend', t),
           \A u \in mempool' : \/ u \in mempool
                               \/ u \in Txs /\ \A o \in Inputs(u) : instantsend'.locked[o] \in {NoTx, u}
    PROVE  MempoolRespectsLocks'
<1> SUFFICES ASSUME NEW u \in mempool', NEW o \in Inputs(u)
             PROVE  instantsend'.locked[o] \in {NoTx, u}
    BY DEF MempoolRespectsLocks, LockedByOther
<1>1. CASE u \in mempool
    <2>1. u \in Txs /\ o \in Outpoints
        BY <1>1, InputsType DEF Types
    <2>2. instantsend.locked[o] \in {NoTx, u}
        BY <1>1 DEF MempoolRespectsLocks, LockedByOther
    <2>3. CASE instantsend'.locked[o] \in {instantsend.locked[o], NoTx}
        BY <2>2, <2>3
    <2>4. CASE Completes(instantsend, instantsend', t)
        BY <1>1, <2>1, <2>2, <2>4 DEF Completes, SpentInMempool
    <2> QED  BY <2>1, <2>3, <2>4 DEF LockStep
<1>2. CASE u \notin mempool
    BY <1>2
<1> QED  BY <1>1, <1>2

LEMMA ChainStillRespects ==
    ASSUME Types, ChainIsConsistent, NoBlockConflictsWithLock, NEW t,
           LockStep(instantsend, instantsend', t), mined' \subseteq mined
    PROVE  NoBlockConflictsWithLock'
<1> SUFFICES ASSUME NEW u \in mined', NEW o \in Inputs(u)
             PROVE  instantsend'.locked[o] \in {NoTx, u}
    BY DEF NoBlockConflictsWithLock, LockedByOther
<1>1. u \in mined /\ u \in Txs /\ o \in Outpoints
    BY MinedType, InputsType DEF Types
<1>2. instantsend.locked[o] \in {NoTx, u}
    BY <1>1 DEF NoBlockConflictsWithLock, LockedByOther
<1>3. CASE instantsend'.locked[o] \in {instantsend.locked[o], NoTx}
    BY <1>2, <1>3
<1>4. CASE Completes(instantsend, instantsend', t)
    <2>1. CASE o \notin Inputs(t)
        BY <1>1, <1>2, <1>4, <2>1 DEF Completes
    <2>2. CASE o \in Inputs(t)
        <3>1. t \in mined
            BY <1>1, <1>4, <2>2 DEF Completes, AllUnspent, Unspent
        <3>2. t = u
            BY <1>1, <2>2, <3>1 DEF ChainIsConsistent, Conflict
        <3> QED  BY <1>1, <1>4, <2>2, <3>2 DEF Completes
    <2> QED  BY <2>1, <2>2
<1> QED  BY <1>1, <1>3, <1>4 DEF LockStep

\* A step releases locks or completes one.
LockMoves == \E t : LockStep(instantsend, instantsend', t)

\* A step that leaves the chain and the block alone.
LEMMA StepKeeps ==
    ASSUME IInv, Types', RInv(instantsend', heard'), now' = now,
           NEW t, LockStep(instantsend, instantsend', t),
           \A u \in mempool' : \/ u \in mempool
                               \/ u \in Txs /\ \A o \in Inputs(u) : instantsend'.locked[o] \in {NoTx, u},
           chain' = chain, blk' = blk,
           ~OtherThreads /\ blk.stage # "none" =>
             /\ handling' = NoTx
             /\ \A o \in Outpoints : instantsend'.locked[o] \in {instantsend.locked[o], NoTx}
    PROVE  IInv' /\ LockMoves
<1>1. RInv(instantsend, heard)'
    BY RInvCarries
<1>2. MempoolRespectsLocks'
    BY MempoolStillRespects DEF IInv
<1>3. mined' = mined
    BY SMT DEF mined
<1>4. ChainIsConsistent'
    BY <1>3 DEF IInv, ChainIsConsistent, AllUnspent, Unspent
<1>5. ASSUME ~OtherThreads
      PROVE  FilterStillHolds'
    <2>1. FilterStillHolds /\ ChainIsConsistent /\ Types
        BY <1>5 DEF IInv
    <2>2. NoBlockConflictsWithLock'
        BY <1>3, <2>1, ChainStillRespects DEF FilterStillHolds
    <2>3. ASSUME blk.stage = "accepted"
          PROVE  PassesLockFilter(blk.txs)'
        <3>1. \A u \in blk.txs : Inputs(u) \subseteq Outpoints
            BY <2>1, InputsType DEF Types
        <3>2. \A u \in blk.txs : \A o \in Inputs(u) : instantsend.locked[o] \in {NoTx, u}
            BY <2>1, <2>3 DEF FilterStillHolds, PassesLockFilter, LockedByOther
        <3>3. \A o \in Outpoints : instantsend'.locked[o] \in {instantsend.locked[o], NoTx}
            BY <1>5, <2>3
        <3>4. \A u \in blk.txs : \A o \in Inputs(u) : instantsend'.locked[o] \in {NoTx, u}
            BY <3>1, <3>2, <3>3
        <3> QED  BY <3>4 DEF PassesLockFilter, LockedByOther
    <2> QED  BY <1>5, <2>2, <2>3 DEF FilterStillHolds
<1> QED  BY <1>1, <1>2, <1>4, <1>5 DEF IInv, LockMoves

\* When the message thread may take a step, the node is between blocks, unless
\* other threads run.
LEMMA NoBlockUnderWay ==
    ASSUME IInv, ~OtherThreads, BetweenBlocks \/ handling # NoTx
    PROVE  blk.stage = "none"
BY DEF IInv, FilterStillHolds, BetweenBlocks

LEMMA NowType == Types => now \in Int
BY SMT DEF Types

\* Telling the listeners about a transaction, and recording it as accepted or
\* rejected, touches no lock.
LEMMA AdmittedFields ==
    ASSUME NEW s \in Records, NEW t \in Txs, now \in Int
    PROVE  LET r == Admitted(s, t)
               q == [r EXCEPT !.accepted = @ \cup {t}]
           IN  /\ r \in Records /\ Same(s, r) /\ q \in Records /\ Same(s, q)
               /\ r.rejected = s.rejected /\ q.rejected = s.rejected
               /\ r.candHeight = Clear(s.candHeight, {t} \cap s.cands, -1)
               /\ q.candHeight = r.candHeight
<1> DEFINE r == Admitted(s, t)
           q == [r EXCEPT !.accepted = @ \cup {t}]
<1>1. {t} \in SUBSET Txs /\ -1 \in Int
    BY SMT
<1>2. /\ r \in Records /\ Same(s, r) /\ r.rejected = s.rejected
      /\ r.candHeight = Clear(s.candHeight, {t} \cap s.cands, -1)
    BY <1>1, SyncFields DEF Admitted
<1>3. r.accepted \cup {t} \in SUBSET Txs
    BY <1>2 DEF Records
<1> HIDE DEF r
<1>4. q \in Records /\ Same(r, q) /\ q.candHeight = r.candHeight /\ q.rejected = r.rejected
    BY <1>2, <1>3, WriteFields
<1>5. Same(s, q)
    BY <1>2, <1>4 DEF Same
<1> QED  BY <1>2, <1>4, <1>5 DEF r

LEMMA TellingType ==
    ASSUME Types, NEW s, Become(s)
    PROVE  told' \in SUBSET Txs
BY DEF Types, Become

LEMMA RecvLockRequestKeeps ==
    ASSUME IInv, NEW t \in Txs, RecvLockRequest(t)
    PROVE  IInv' /\ LockMoves
<1>1. RInv(instantsend', heard) /\ LockStep(instantsend, instantsend', t)
    BY RequestKeeps, NowType DEF IInv, RecvLockRequest, Become
<1>2. Types'
    BY TellingType DEF IInv, Types, RecvLockRequest, env
<1>3. blk' = blk /\ chain' = chain /\ mempool' = mempool /\ now' = now /\ heard' = heard
    BY DEF RecvLockRequest, env
<1>4. BetweenBlocks
    BY DEF RecvLockRequest, MessageThreadFree
<1> QED  BY <1>1, <1>2, <1>3, <1>4, NoBlockUnderWay, StepKeeps

LEMMA AcceptLockRequestKeeps ==
    ASSUME IInv, AcceptLockRequest
    PROVE  IInv' /\ LockMoves
<1> DEFINE t == handling
           s == [Admitted(instantsend, t) EXCEPT !.accepted = @ \cup {t}]
<1>1. t \in Txs /\ now \in Int /\ instantsend \in Records
    BY SMT DEF IInv, Types, AcceptLockRequest, RInv
<1>2. s \in Records /\ Same(instantsend, s)
    BY <1>1, AdmittedFields
<1>3. RInv(s, heard)
    BY <1>2, SameKeeps DEF IInv
<1>4. PICK D \in SUBSET Dangling(s, t) :
         LET V == OwnVotes(s, t, D) \ s.counted
         IN  Become(Vote(s, t, D)) /\ cast' = cast \cup V /\ heard' = heard \cup V
    BY DEF AcceptLockRequest
<1> DEFINE V == OwnVotes(s, t, D) \ s.counted
<1>4a. /\ instantsend' = Vote(s, t, D) /\ heard' = heard \cup V /\ cast' = cast \cup V
       /\ mempool' = mempool \cup {t} /\ handling' = NoTx
       /\ chain' = chain /\ blk' = blk /\ now' = now
       /\ FreeOfConflicts(instantsend, t) /\ Become(Vote(s, t, D))
    BY <1>4 DEF AcceptLockRequest, Become, Admissible, env
<1>5. V \subseteq Votes
    BY <1>1, <1>2, OwnVotesType
<1>6. s.locked = instantsend.locked
    BY <1>2 DEF Same
<1>7. Types'
    <2>1. told' \in SUBSET Txs
        BY <1>4a, TellingType DEF IInv
    <2> HIDE DEF V, s
    <2> QED  BY <1>1, <1>4a, <1>5, <2>1 DEF IInv, Types, AcceptLockRequest, env
<1> HIDE DEF s
<1>8. RInv(instantsend', heard') /\ LockStep(s, instantsend', t)
    BY <1>1, <1>3, <1>4a, VoteKeeps
<1>9. LockStep(instantsend, instantsend', t)
    BY <1>6, <1>8 DEF LockStep, Completes
<1>10. \A o \in Inputs(t) : instantsend'.locked[o] \in {NoTx, t}
    <2>1. Inputs(t) \subseteq Outpoints
        BY <1>1, InputsType
    <2>2. \A o \in Inputs(t) : instantsend.locked[o] \in {NoTx, t}
        BY <1>4a DEF FreeOfConflicts, LockedByOther
    <2> QED  BY <1>9, <2>1, <2>2 DEF LockStep, Completes
<1>11. ~OtherThreads => blk.stage = "none"
    BY NoBlockUnderWay DEF AcceptLockRequest
<1> QED  BY <1>1, <1>4a, <1>7, <1>8, <1>9, <1>10, <1>11, StepKeeps

LEMMA RejectLockRequestKeeps ==
    ASSUME IInv, RejectLockRequest
    PROVE  IInv' /\ LockMoves
<1> DEFINE t == handling
           s == [instantsend EXCEPT !.rejected = @ \cup {t}]
<1>2. t \in Txs /\ instantsend \in Records
    BY DEF IInv, Types, RejectLockRequest, RInv
<1>3. instantsend.rejected \cup {t} \in SUBSET Txs
    BY <1>2 DEF Records
<1>4. s \in Records /\ Same(instantsend, s)
    BY <1>2, <1>3, WriteFields
<1> HIDE DEF s
<1>5. /\ instantsend' \in {instantsend, s} /\ heard' = heard /\ mempool' = mempool
      /\ chain' = chain /\ blk' = blk /\ now' = now
    BY DEF RejectLockRequest, Become, env, s
<1>6. RInv(instantsend', heard') /\ instantsend'.locked = instantsend.locked
    BY <1>4, <1>5, SameKeeps DEF IInv, Same
<1>7. told' \in SUBSET Txs
    BY TellingType DEF IInv, Types, RejectLockRequest
<1>8. Types'
    BY <1>7 DEF IInv, Types, RejectLockRequest, env
<1>9. LockStep(instantsend, instantsend', t)
    BY <1>6 DEF LockStep
<1>10. ~OtherThreads => blk.stage = "none"
    BY NoBlockUnderWay DEF RejectLockRequest
<1> QED  BY <1>5, <1>6, <1>8, <1>9, <1>10, StepKeeps

LEMMA RecvTxKeeps ==
    ASSUME IInv, NEW t \in Txs, RecvTx(t)
    PROVE  IInv' /\ LockMoves
<1> DEFINE s == Admitted(instantsend, t)
<1>1. now \in Int /\ instantsend \in Records
    BY SMT DEF IInv, Types, RInv
<1>2. s \in Records /\ Same(instantsend, s)
    BY <1>1, AdmittedFields
<1>3. /\ instantsend' = s /\ heard' = heard /\ mempool' = mempool \cup {t}
      /\ chain' = chain /\ blk' = blk /\ now' = now
      /\ FreeOfConflicts(instantsend, t) /\ BetweenBlocks
    BY DEF RecvTx, Become, Admissible, MessageThreadFree, env
<1>4. Types'
    BY TellingType DEF IInv, Types, RecvTx, env
<1> HIDE DEF s
<1>5. RInv(instantsend', heard') /\ instantsend'.locked = instantsend.locked
    BY <1>2, <1>3, SameKeeps DEF IInv, Same
<1>6. LockStep(instantsend, instantsend', t)
    BY <1>5 DEF LockStep
<1>7. \A o \in Inputs(t) : instantsend'.locked[o] \in {NoTx, t}
    BY <1>3, <1>5 DEF FreeOfConflicts, LockedByOther
<1> QED  BY <1>3, <1>4, <1>5, <1>6, <1>7, NoBlockUnderWay, StepKeeps

LEMMA SendLockRequestKeeps ==
    ASSUME IInv, NEW t \in Txs, SendLockRequest(t)
    PROVE  IInv' /\ LockMoves
<1> DEFINE s == ProcessTxLockRequest(instantsend, t)
<1>1. now \in Int
    BY SMT DEF IInv, Types
<1>2. RInv(s, heard) /\ LockStep(instantsend, s, t)
    BY <1>1, RequestKeeps DEF IInv
<1>3. s \in Records
    BY <1>2 DEF RInv
<1>4. Admitted(s, t) \in Records /\ Same(s, Admitted(s, t))
    BY <1>1, <1>3, AdmittedFields
<1>5. /\ heard' = heard /\ chain' = chain /\ blk' = blk /\ now' = now /\ BetweenBlocks
      /\ \/ instantsend' = s /\ mempool' = mempool
         \/ /\ instantsend' = Admitted(s, t) /\ mempool' = mempool \cup {t}
            /\ FreeOfConflicts(s, t)
    BY DEF SendLockRequest, Become, Admissible, env
<1>6. Types'
    <2>1. told' \in SUBSET Txs
        BY TellingType DEF IInv, SendLockRequest
    <2> QED  BY <2>1 DEF IInv, Types, SendLockRequest, env
<1> HIDE DEF s
<1>7. RInv(instantsend', heard') /\ instantsend'.locked = s.locked
    BY <1>2, <1>4, <1>5, SameKeeps DEF Same
<1>8. LockStep(instantsend, instantsend', t)
    BY <1>2, <1>7 DEF LockStep, Completes
<1>9. \A u \in mempool' : \/ u \in mempool
                          \/ u \in Txs /\ \A o \in Inputs(u) : instantsend'.locked[o] \in {NoTx, u}
    BY <1>5, <1>7 DEF FreeOfConflicts, LockedByOther
<1> QED  BY <1>5, <1>6, <1>7, <1>8, <1>9, NoBlockUnderWay, StepKeeps

LEMMA RelayWalletTransactionKeeps ==
    ASSUME IInv, NEW t \in Txs, RelayWalletTransaction(t)
    PROVE  IInv' /\ LockMoves
<1>1. RInv(instantsend', heard) /\ LockStep(instantsend, instantsend', t)
    BY RequestKeeps, NowType DEF IInv, RelayWalletTransaction, Become
<1>2. Types'
    BY TellingType DEF IInv, Types, RelayWalletTransaction, env
<1>3. /\ blk' = blk /\ chain' = chain /\ mempool' = mempool /\ now' = now /\ heard' = heard
      /\ BetweenBlocks
    BY DEF RelayWalletTransaction, env
<1> QED  BY <1>1, <1>2, <1>3, NoBlockUnderWay, StepKeeps

LEMMA EvictKeeps ==
    ASSUME IInv, NEW t \in Txs, Evict(t)
    PROVE  IInv' /\ LockMoves
<1>1. Types'
    BY SMT DEF IInv, Types, Evict
<1>2. /\ blk' = blk /\ chain' = chain /\ mempool' \subseteq mempool /\ now' = now
      /\ heard' = heard /\ instantsend' = instantsend /\ handling' = handling
    BY DEF Evict
<1>3. RInv(instantsend', heard') /\ LockStep(instantsend, instantsend', t)
    BY <1>2 DEF IInv, LockStep
<1>4. ~OtherThreads /\ blk.stage # "none" => handling = NoTx
    BY DEF IInv, FilterStillHolds
<1> QED  BY <1>1, <1>2, <1>3, <1>4, StepKeeps

LEMMA RecvVoteKeeps ==
    ASSUME IInv, NEW v \in PeerVotes \cup cast, RecvVote(v)
    PROVE  IInv' /\ LockMoves
<1>1. v \in Votes /\ now \in Int
    BY PeerVotesType, SMT DEF IInv, Types
<1>2. /\ heard' = IF VoteIsValid(v) THEN heard \cup {v} ELSE heard
      /\ instantsend' = ProcessTxLockVote(instantsend, v)
      /\ blk' = blk /\ chain' = chain /\ mempool' = mempool /\ now' = now
      /\ BetweenBlocks
    BY DEF RecvVote, Become, MessageThreadFree, env
<1>3. RInv(instantsend', heard') /\ LockStep(instantsend, instantsend', v.tx)
    BY <1>1, <1>2, VoteMessageKeeps DEF IInv
<1>4. Types'
    <2>1. told' \in SUBSET Txs
        BY TellingType DEF IInv, RecvVote
    <2> QED  BY <1>1, <1>2, <2>1 DEF IInv, Types, RecvVote, env
<1> QED  BY <1>2, <1>3, <1>4, NoBlockUnderWay, StepKeeps

LEMMA CleanUpKeeps ==
    ASSUME IInv, CleanUp
    PROVE  IInv' /\ LockMoves
<1>1. /\ instantsend' = CheckAndRemove(instantsend) /\ heard' = heard
      /\ blk' = blk /\ chain' = chain /\ mempool' = mempool /\ now' = now
      /\ handling' = handling
    BY DEF CleanUp, Become, env
<1>2. /\ RInv(instantsend', heard')
      /\ \A o \in Outpoints : instantsend'.locked[o] \in {instantsend.locked[o], NoTx}
    BY <1>1, RemoveKeeps DEF IInv
<1>3. Types'
    BY TellingType DEF IInv, Types, CleanUp, env
<1>4. LockStep(instantsend, instantsend', NoTx)
    BY <1>2 DEF LockStep
<1>5. ~OtherThreads /\ blk.stage # "none" => handling = NoTx
    BY DEF IInv, FilterStillHolds
<1> QED  BY <1>1, <1>2, <1>3, <1>4, <1>5, StepKeeps

LEMMA AcceptBlockKeeps ==
    ASSUME IInv, NEW S \in SUBSET Txs, AcceptBlock(S)
    PROVE  IInv' /\ LockMoves
<1>1. /\ instantsend' = instantsend /\ heard' = heard /\ chain' = chain
      /\ mempool' = mempool /\ now' = now /\ handling' = handling
      /\ blk' = [stage |-> "accepted", txs |-> S, dropped |-> {}]
      /\ blk'.stage = "accepted" /\ blk'.txs = S
      /\ ~OtherThreads => handling = NoTx
    BY DEF AcceptBlock, env
<1>2. Types'
    BY <1>1, SMT DEF IInv, Types, AcceptBlock, env
<1>3. RInv(instantsend, heard)'
    BY <1>1, RInvCarries DEF IInv
<1>4. MempoolRespectsLocks'
    BY <1>1 DEF IInv, MempoolRespectsLocks, LockedByOther
<1>5. mined' = mined
    BY <1>1 DEF mined
<1>5a. NoBlockConflictsWithLock => NoBlockConflictsWithLock'
    BY <1>1, <1>5 DEF NoBlockConflictsWithLock, LockedByOther
<1>6. ChainIsConsistent'
    BY <1>1, <1>5 DEF IInv, ChainIsConsistent, AcceptBlock, AllUnspent, Unspent
<1>7. PassesLockFilter(blk.txs)'
    BY <1>1 DEF AcceptBlock, PassesLockFilter, LockedByOther
<1>8. ~OtherThreads => FilterStillHolds'
    BY <1>1, <1>4, <1>5a, <1>7 DEF IInv, FilterStillHolds
<1>9. LockMoves
    BY <1>1 DEF LockMoves, LockStep
<1> QED  BY <1>2, <1>3, <1>4, <1>6, <1>8, <1>9 DEF IInv

LEMMA ConnectTipKeeps ==
    ASSUME IInv, ConnectTip
    PROVE  IInv' /\ LockMoves
<1>1. /\ instantsend' = instantsend /\ heard' = heard /\ now' = now
      /\ handling' = handling /\ mempool' \subseteq mempool
      /\ chain' = Append(chain, blk.txs) /\ blk.stage = "accepted"
    BY DEF ConnectTip, env
<1>2. blk.txs \in SUBSET Txs /\ chain \in Seq(SUBSET Txs) /\ blk'.stage = "connected"
    BY DEF IInv, Types, ConnectTip
<1>3. mined' = mined \cup blk.txs
    BY <1>1, <1>2, MinedGrows
<1>4. Types'
    <2>1. chain' \in Seq(SUBSET Txs)
        BY <1>1, <1>2, SMT
    <2>2. blk' \in [stage : {"none", "accepted", "connected"},
                    txs : SUBSET Txs, dropped : SUBSET Txs]
        BY DEF IInv, Types, ConnectTip
    <2> QED  BY <1>1, <2>1, <2>2 DEF IInv, Types, ConnectTip, env
<1>5. RInv(instantsend, heard)'
    BY <1>1, RInvCarries DEF IInv
<1>6. MempoolRespectsLocks'
    BY <1>1 DEF IInv, MempoolRespectsLocks, LockedByOther
<1>7. ChainIsConsistent'
    <2>1. ASSUME NEW t \in mined', NEW u \in mined'
          PROVE  ~Conflict(t, u)
        BY <1>1, <1>3 DEF IInv, ChainIsConsistent, AllUnspent, Unspent, Conflict
    <2> QED  BY <1>2, <2>1 DEF ChainIsConsistent
<1>8. ~OtherThreads => FilterStillHolds'
    <2>1. SUFFICES ASSUME ~OtherThreads PROVE FilterStillHolds'
        OBVIOUS
    <2>2. FilterStillHolds
        BY <2>1 DEF IInv
    <2>3. NoBlockConflictsWithLock'
        BY <1>1, <1>3, <2>2
           DEF FilterStillHolds, PassesLockFilter, NoBlockConflictsWithLock, LockedByOther
    <2> QED  BY <1>1, <1>2, <2>2, <2>3 DEF FilterStillHolds
<1>9. LockMoves
    BY <1>1 DEF LockMoves, LockStep
<1> QED  BY <1>4, <1>5, <1>6, <1>7, <1>8, <1>9 DEF IInv

LEMMA HeightType ==
    ASSUME Types
    PROVE  Height \in Nat /\ Len(chain) \in Nat
BY ConstantsAssumption, SMT DEF Types, Height

\* UpdatedBlockTip writes nCachedBlockHeight.
LEMMA CachedFields ==
    ASSUME NEW s \in Records, NEW h \in Int
    PROVE  LET r == [s EXCEPT !.cached = h]
           IN  /\ r \in Records /\ r.cached = h
               /\ r.cands = s.cands /\ r.requested = s.requested /\ r.outlocks = s.outlocks
               /\ r.candTime = s.candTime /\ r.counted = s.counted /\ r.attacked = s.attacked
               /\ r.voted = s.voted /\ r.locked = s.locked /\ r.banned = s.banned
               /\ r.candHeight = s.candHeight /\ r.rejected = s.rejected
<1> DEFINE r == [s EXCEPT !.cached = h]
<1>1. r \in Records /\ r.cached = h
    BY DEF Records
<1>2. /\ r.cands = s.cands /\ r.requested = s.requested /\ r.outlocks = s.outlocks
      /\ r.candTime = s.candTime /\ r.counted = s.counted /\ r.attacked = s.attacked
    BY DEF Records
<1>3. /\ r.voted = s.voted /\ r.locked = s.locked /\ r.banned = s.banned
      /\ r.candHeight = s.candHeight /\ r.rejected = s.rejected
    BY DEF Records
<1> QED  BY <1>1, <1>2, <1>3

LEMMA CachedKeeps ==
    ASSUME NEW H, NEW s, RInv(s, H), NEW h \in Int
    PROVE  RInv([s EXCEPT !.cached = h], H)
<1> DEFINE r == [s EXCEPT !.cached = h]
<1>1. s \in Records
    BY DEF RInv
<1>2. /\ r \in Records
      /\ r.cands = s.cands /\ r.requested = s.requested /\ r.outlocks = s.outlocks
      /\ r.candTime = s.candTime /\ r.counted = s.counted /\ r.voted = s.voted
      /\ r.locked = s.locked /\ r.banned = s.banned
    BY <1>1, CachedFields
<1> HIDE DEF r
<1>3. \A u : Backed(s, u) => Backed(r, u)
    BY <1>2 DEF Backed
<1>4. CandidateStages(r) /\ CountedAreHeard(r, H) /\ VotedAreCandidates(r)
    BY <1>2 DEF RInv, CandidateStages, CountedAreHeard, VotedAreCandidates
<1>5. LocksAreBacked(r) /\ BansAreEarned(r, H)
    BY <1>2, <1>3, SMT DEF RInv, LocksAreBacked, BansAreEarned
<1>6. RInv(r, H)
    BY <1>2, <1>4, <1>5 DEF RInv
<1> QED  BY <1>6 DEF r

\* The notifications of a new tip, as one record: the transactions D were
\* dropped from the memory pool, the transactions T confirmed at height h.
Notified(s, D, T, h) ==
    [SyncTransactions(SyncTransactions(s, D, -1), T, h) EXCEPT !.cached = h]

LEMMA NotifiedFields ==
    ASSUME NEW s \in Records, NEW D \in SUBSET Txs, NEW T \in SUBSET Txs, NEW h \in Int,
           now \in Int
    PROVE  LET r == Notified(s, D, T, h)
           IN  /\ r \in Records /\ r.cached = h
               /\ r.cands = s.cands /\ r.counted = s.counted /\ r.attacked = s.attacked
               /\ r.voted = s.voted /\ r.locked = s.locked /\ r.rejected = s.rejected
               /\ \A t \in Txs : \/ r.candHeight[t] \in {s.candHeight[t], -1}
                                 \/ r.candHeight[t] = h /\ t \in T /\ t \in s.cands
<1> DEFINE s1 == SyncTransactions(s, D, -1)
           s2 == SyncTransactions(s1, T, h)
           r == Notified(s, D, T, h)
<1>1. -1 \in Int
    BY SMT
<1>2. /\ s1 \in Records /\ Same(s, s1) /\ s1.rejected = s.rejected
      /\ s1.candHeight = Clear(s.candHeight, D \cap s.cands, -1)
    BY <1>1, SyncFields
<1> HIDE DEF s1
<1>3. /\ s2 \in Records /\ Same(s1, s2) /\ s2.rejected = s1.rejected
      /\ s2.candHeight = Clear(s1.candHeight, T \cap s1.cands, h)
    BY <1>2, SyncFields
<1> HIDE DEF s2
<1>4. r = [s2 EXCEPT !.cached = h]
    BY DEF Notified, s1, s2
<1>5. /\ r \in Records /\ r.cached = h
      /\ r.cands = s2.cands /\ r.counted = s2.counted /\ r.attacked = s2.attacked
      /\ r.voted = s2.voted /\ r.locked = s2.locked
      /\ r.candHeight = s2.candHeight /\ r.rejected = s2.rejected
    BY <1>3, <1>4, CachedFields, SMT
<1> HIDE DEF r
<1>6. DOMAIN s.candHeight = Txs /\ DOMAIN s1.candHeight = Txs
    BY <1>2 DEF Records
<1>7. \A t \in Txs : \/ r.candHeight[t] \in {s.candHeight[t], -1}
                     \/ r.candHeight[t] = h /\ t \in T /\ t \in s.cands
    BY <1>2, <1>3, <1>5, <1>6, SMT DEF Clear, Same
<1> QED  BY <1>2, <1>3, <1>5, <1>7 DEF Same, r

LEMMA NotifiedKeeps ==
    ASSUME NEW H, NEW s, RInv(s, H), NEW D \in SUBSET Txs, NEW T \in SUBSET Txs,
           NEW h \in Int, now \in Int
    PROVE  /\ RInv(Notified(s, D, T, h), H)
           /\ Notified(s, D, T, h).locked = s.locked
<1> DEFINE s1 == SyncTransactions(s, D, -1)
           s2 == SyncTransactions(s1, T, h)
<1>1. s \in Records /\ -1 \in Int
    BY SMT DEF RInv
<1>2. s1 \in Records /\ Same(s, s1)
    BY <1>1, SyncFields
<1> HIDE DEF s1
<1>3. RInv(s1, H)
    BY <1>2, SameKeeps
<1>4. s2 \in Records /\ Same(s1, s2)
    BY <1>2, SyncFields
<1> HIDE DEF s2
<1>5. RInv(s2, H)
    BY <1>3, <1>4, SameKeeps
<1>6. RInv(Notified(s, D, T, h), H)
    BY <1>5, CachedKeeps DEF Notified, s1, s2
<1>7. [s2 EXCEPT !.cached = h].locked = s.locked
    BY <1>2, <1>4, CachedFields DEF Same
<1> QED  BY <1>6, <1>7 DEF Notified, s1, s2

LEMMA NotifyTipKeeps ==
    ASSUME IInv, NotifyTip
    PROVE  IInv' /\ LockMoves
<1>1. /\ instantsend' = Notified(instantsend, blk.dropped, blk.txs, Height)
      /\ heard' = heard /\ now' = now /\ chain' = chain /\ mempool' = mempool
      /\ handling' = handling /\ blk'.stage = "none" /\ blk' = NoBlock
    BY DEF NotifyTip, Become, Notified, env, NoBlock
<1>2. /\ blk.txs \in SUBSET Txs /\ blk.dropped \in SUBSET Txs /\ now \in Int
      /\ instantsend \in Records /\ Height \in Int
    BY HeightType, SMT DEF IInv, Types, RInv
<1>3. RInv(instantsend', heard') /\ instantsend'.locked = instantsend.locked
    BY <1>1, <1>2, NotifiedKeeps, ZenonT(30) DEF IInv
<1>4. Types'
    <2>1. told' \in SUBSET Txs
        BY TellingType DEF IInv, NotifyTip
    <2> QED  BY <1>1, <2>1, SMT DEF IInv, Types, NotifyTip, NoBlock, env
<1>5. RInv(instantsend, heard)'
    BY <1>1, <1>3, RInvCarries
<1>6. LockStep(instantsend, instantsend', NoTx)
    BY <1>3 DEF LockStep
<1>7. mined' = mined
    BY <1>1 DEF mined
<1>8. MempoolRespectsLocks'
    BY <1>1, <1>6, MempoolStillRespects DEF IInv
<1>9. ChainIsConsistent'
    BY <1>1, <1>7 DEF IInv, ChainIsConsistent
<1>10. ~OtherThreads => FilterStillHolds'
    BY <1>1, <1>6, <1>7, ChainStillRespects DEF IInv, FilterStillHolds
<1> QED  BY <1>4, <1>5, <1>6, <1>8, <1>9, <1>10 DEF IInv, LockMoves

LEMMA DisconnectTipKeeps ==
    ASSUME IInv, DisconnectTip
    PROVE  IInv' /\ LockMoves
<1> DEFINE S == chain[Len(chain)]
           s == SyncTransactions(instantsend, S, -1)
<1>1. /\ instantsend' = s /\ heard' = heard /\ now' = now /\ blk' = blk
      /\ handling' = handling /\ blk.stage = "none" /\ chain # <<>>
      /\ chain' = SubSeq(chain, 1, Len(chain) - 1)
      /\ \A u \in mempool' : u \in mempool \/ (u \in S /\ FreeOfConflicts(instantsend, u))
    BY DEF DisconnectTip, Become
<1>2. chain \in Seq(SUBSET Txs) /\ instantsend \in Records /\ now \in Int
    BY SMT DEF IInv, Types, RInv
<1>3. /\ chain' \in Seq(SUBSET Txs) /\ mined' \subseteq mined
      /\ Len(chain) \in Nat \ {0}
    BY <1>1, <1>2, MinedShrinks
<1>4. S \in SUBSET Txs /\ -1 \in Int
    BY <1>2, <1>3, SMT
<1>5. s \in Records /\ Same(instantsend, s)
    BY <1>2, <1>4, SyncFields
<1> HIDE DEF s
<1>6. RInv(instantsend', heard') /\ instantsend'.locked = instantsend.locked
    BY <1>1, <1>5, SameKeeps DEF IInv, Same
<1> HIDE DEF S
<1>7. Types'
    <2>1. told' \in SUBSET Txs
        BY TellingType DEF IInv, DisconnectTip
    <2>2. mempool' \in SUBSET Txs
        BY <1>1, <1>4 DEF IInv, Types
    <2> QED  BY <1>1, <1>3, <2>1, <2>2, SMT DEF IInv, Types, DisconnectTip
<1>8. RInv(instantsend, heard)'
    BY <1>1, <1>6, RInvCarries
<1>9. LockStep(instantsend, instantsend', NoTx)
    BY <1>6 DEF LockStep
<1>10. MempoolRespectsLocks'
    <2>1. \A u \in mempool' : \/ u \in mempool
                              \/ u \in Txs /\ \A o \in Inputs(u) : instantsend'.locked[o] \in {NoTx, u}
        BY <1>1, <1>4, <1>6 DEF FreeOfConflicts, LockedByOther
    <2> QED  BY <1>9, <2>1, MempoolStillRespects DEF IInv
<1>11. ChainIsConsistent'
    BY <1>1, <1>3 DEF IInv, ChainIsConsistent
<1>12. ~OtherThreads => FilterStillHolds'
    BY <1>1, <1>3, <1>9, ChainStillRespects DEF IInv, FilterStillHolds
<1> QED  BY <1>7, <1>8, <1>9, <1>10, <1>11, <1>12 DEF IInv, LockMoves

LEMMA TickKeeps ==
    ASSUME IInv, Tick
    PROVE  IInv' /\ LockMoves
<1>1. /\ instantsend' = instantsend /\ heard' = heard /\ chain' = chain
      /\ mempool' = mempool /\ blk' = blk /\ handling' = handling /\ now' = now + 1
    BY DEF Tick
<1>2. Types'
    BY SMT DEF IInv, Types, Tick
<1>3. CandidateStages(instantsend)'
    <2>4. ASSUME NEW t \in instantsend.requested \ instantsend.outlocks
          PROVE  now' - instantsend.candTime[t] > LockTimeout
        <3>1. now - instantsend.candTime[t] > LockTimeout
            BY DEF IInv, RInv, CandidateStages, TimedOut
        <3>2. instantsend.candTime \in [Txs -> Int] /\ t \in Txs
            BY DEF IInv, RInv, Records
        <3>3. now \in Int /\ LockTimeout \in Int /\ instantsend.candTime[t] \in Int
            BY <3>2, ConstantsAssumption, SMT DEF IInv, Types
        <3> QED  BY <1>1, <3>1, <3>3, SMT
    <2>5. /\ instantsend'.outlocks \subseteq instantsend'.requested
          /\ instantsend'.requested \subseteq instantsend'.cands
        BY <1>1 DEF IInv, RInv, CandidateStages
    <2> QED  BY <1>1, <2>4, <2>5 DEF CandidateStages, TimedOut
<1>4. RInv(instantsend, heard)'
    BY <1>1, <1>3, SMT DEF IInv, RInv, CountedAreHeard, BansAreEarned, VotedAreCandidates,
                      LocksAreBacked, Backed
<1>5. mined' = mined
    BY <1>1 DEF mined
<1>6. MempoolRespectsLocks' /\ ChainIsConsistent'
    BY <1>1, <1>5 DEF IInv, MempoolRespectsLocks, ChainIsConsistent, LockedByOther,
                      AllUnspent, Unspent
<1>7. ~OtherThreads => FilterStillHolds'
    BY <1>1, <1>5 DEF IInv, FilterStillHolds, PassesLockFilter, NoBlockConflictsWithLock,
                      LockedByOther
<1>8. LockMoves
    BY <1>1 DEF LockMoves, LockStep
<1> QED  BY <1>2, <1>4, <1>6, <1>7, <1>8 DEF IInv

\* The maps of a node that has just started, with the bans of mncache.dat.
Restarted(h, B) == [Fresh EXCEPT !.cached = h, !.banned = B]

LEMMA RestartedKeeps ==
    ASSUME NEW H, NEW s, RInv(s, H), NEW h \in Int
    PROVE  LET r == Restarted(h, s.banned)
           IN  RInv(r, H) /\ r.locked = [o \in Outpoints |-> NoTx]
<1> DEFINE B == s.banned
           r == Restarted(h, B)
<1>0. B \in SUBSET Masternodes
    BY DEF RInv, Records
<1> HIDE DEF B
<1>1. r \in Records
    BY <1>0, FreshType DEF Records, Restarted
<1>2. /\ r.cands = {} /\ r.requested = {} /\ r.outlocks = {} /\ r.counted = {}
      /\ r.voted = [o \in Outpoints |-> {}] /\ r.locked = [o \in Outpoints |-> NoTx]
      /\ r.banned = B
    BY DEF Restarted, Fresh
<1> HIDE DEF r
<1>3. CandidateStages(r) /\ CountedAreHeard(r, H)
    BY <1>2 DEF CandidateStages, CountedAreHeard
<1>4. VotedAreCandidates(r) /\ LocksAreBacked(r) /\ BansAreEarned(r, H)
    BY <1>2, SMT DEF VotedAreCandidates, LocksAreBacked, RInv, BansAreEarned, B
<1> QED  BY <1>1, <1>2, <1>3, <1>4 DEF RInv, r, B

LEMMA RestartKeeps ==
    ASSUME IInv, Restart
    PROVE  IInv' /\ LockMoves
<1>1. /\ instantsend' = Restarted(Height, instantsend.banned)
      /\ heard' = heard /\ chain' = chain /\ mempool' = {} /\ blk' = blk /\ now' = now
      /\ handling' = NoTx /\ blk.stage = "none"
    BY DEF Restart, Restarted
<1>2. Height \in Int
    BY HeightType, SMT DEF IInv
<1>3. RInv(instantsend', heard') /\ instantsend'.locked = [o \in Outpoints |-> NoTx]
    BY <1>1, <1>2, RestartedKeeps DEF IInv
<1>4. Types'
    BY <1>1, SMT DEF IInv, Types, Restart
<1>5. RInv(instantsend, heard)'
    BY <1>1, <1>3, RInvCarries
<1>6. LockStep(instantsend, instantsend', NoTx)
    BY <1>3 DEF LockStep
<1>7. mined' = mined
    BY <1>1 DEF mined
<1>8. MempoolRespectsLocks'
    BY <1>1 DEF MempoolRespectsLocks
<1>9. ChainIsConsistent'
    BY <1>1, <1>7 DEF IInv, ChainIsConsistent
<1>10. ~OtherThreads => FilterStillHolds'
    BY <1>1, <1>6, <1>7, ChainStillRespects DEF IInv, FilterStillHolds
<1> QED  BY <1>4, <1>5, <1>6, <1>8, <1>9, <1>10 DEF IInv, LockMoves

LEMMA InitIInv == Init => IInv
<1> SUFFICES ASSUME Init  PROVE IInv
    OBVIOUS
<1>1. Types
    BY SMT DEF Init, Types, NoBlock
<1>2. RInv(instantsend, heard)
    <2>1. /\ instantsend \in Records
          /\ instantsend.cands = {} /\ instantsend.requested = {}
          /\ instantsend.outlocks = {} /\ instantsend.counted = {}
          /\ instantsend.voted = [o \in Outpoints |-> {}]
          /\ instantsend.locked = [o \in Outpoints |-> NoTx] /\ instantsend.banned = {}
        BY FreshType DEF Init, Fresh
    <2> QED  BY <2>1 DEF RInv, CandidateStages, CountedAreHeard, VotedAreCandidates,
                         LocksAreBacked, BansAreEarned
<1>3. mined = {}
    BY SMT DEF Init, mined
<1>4. MempoolRespectsLocks /\ ChainIsConsistent
    BY <1>3 DEF Init, MempoolRespectsLocks, ChainIsConsistent, NoBlock
<1>5. FilterStillHolds
    BY <1>3 DEF Init, FilterStillHolds, NoBlockConflictsWithLock, NoBlock
<1> QED  BY <1>1, <1>2, <1>4, <1>5 DEF IInv

LEMMA NextIInv == IInv /\ [Next]_vars => IInv' /\ LockMoves
<1> SUFFICES ASSUME IInv, [Next]_vars  PROVE IInv' /\ LockMoves
    OBVIOUS
<1>1. CASE \E t \in Txs : RecvLockRequest(t)
    BY <1>1, RecvLockRequestKeeps
<1>2. CASE \E t \in Txs : RecvTx(t)
    BY <1>2, RecvTxKeeps
<1>3. CASE \E t \in Txs : SendLockRequest(t)
    BY <1>3, SendLockRequestKeeps
<1>4. CASE \E t \in Txs : RelayWalletTransaction(t)
    BY <1>4, RelayWalletTransactionKeeps
<1>5. CASE \E t \in Txs : Evict(t)
    BY <1>5, EvictKeeps
<1>6. CASE AcceptLockRequest
    BY <1>6, AcceptLockRequestKeeps
<1>7. CASE RejectLockRequest
    BY <1>7, RejectLockRequestKeeps
<1>8. CASE \E v \in PeerVotes \cup cast : RecvVote(v)
    BY <1>8, RecvVoteKeeps
<1>9. CASE CleanUp
    BY <1>9, CleanUpKeeps
<1>10. CASE \E S \in SUBSET Txs : AcceptBlock(S)
    BY <1>10, AcceptBlockKeeps
<1>11. CASE ConnectTip
    BY <1>11, ConnectTipKeeps
<1>12. CASE NotifyTip
    BY <1>12, NotifyTipKeeps
<1>13. CASE DisconnectTip
    BY <1>13, DisconnectTipKeeps
<1>14. CASE Tick
    BY <1>14, TickKeeps
<1>15. CASE Restart
    BY <1>15, RestartKeeps
<1>16. CASE UNCHANGED vars
    <2>1. /\ instantsend' = instantsend /\ heard' = heard /\ chain' = chain /\ now' = now
          /\ mempool' = mempool /\ blk' = blk /\ handling' = handling
        BY <1>16 DEF vars, env
    <2>2. Types'
        BY <1>16 DEF IInv, Types, vars, env
    <2>3. RInv(instantsend', heard') /\ LockStep(instantsend, instantsend', NoTx)
        BY <2>1 DEF IInv, LockStep
    <2>4. ~OtherThreads /\ blk.stage # "none" => handling' = NoTx
        BY <2>1 DEF IInv, FilterStillHolds
    <2> QED  BY <2>1, <2>2, <2>3, <2>4, StepKeeps
<1> QED  BY <1>1, <1>2, <1>3, <1>4, <1>5, <1>6, <1>7, <1>8, <1>9, <1>10, <1>11,
            <1>12, <1>13, <1>14, <1>15, <1>16 DEF Next

THEOREM Invariance == Spec => []IInv
BY InitIInv, NextIInv, PTL DEF Spec

-----------------------------------------------------------------------------
(* The properties of the node, for every value of the constants.           *)

\* The maps of CInstantSend keep their shape whatever the peers, the RPC
\* threads, the miner and the clean-up thread do: candidates with outpoint locks
\* have a request, and counted votes are votes that masternodes signed.
THEOREM Typed == Spec => []TypeOK
<1>1. IInv => TypeOK
    BY DEF IInv, Types, RInv, Records, CandidateStages, TypeOK
<1> QED  BY <1>1, Invariance, PTL

\* No transaction in the memory pool spends an outpoint that another one has
\* locked: admission checks the locks, a lock checks the memory pool, and both
\* happen under cs_main.
THEOREM PoolRespectsLocks == Spec => []MempoolRespectsLocks
BY Invariance, PTL DEF IInv

\* The hashes that mapVotedOutpoints has for an outpoint their transaction spends
\* lead Vote() to a candidate: only a vote for an outpoint that its transaction
\* does not spend can leave it with end().
THEOREM VotedHashesAreCandidates == Spec => []VotedHashesHaveCandidates
<1>1. IInv => VotedHashesHaveCandidates
    BY DEF IInv, RInv, VotedAreCandidates, CandidateStages, VotedHashesHaveCandidates
<1> QED  BY <1>1, Invariance, PTL

\* ProcessTxLockVote bans only masternodes that signed two conflicting votes.
THEOREM OnlyDoubleVotersAreBanned == Spec => []BansAreDeserved
<1>1. IInv => BansAreDeserved
    BY DEF IInv, RInv, BansAreEarned, BansAreDeserved
<1> QED  BY <1>1, Invariance, PTL

\* No block that conflicts with a completed lock is connected, and no lock
\* completes against the chain, as long as no RPC, miner or wallet thread runs
\* between the lock filter of CheckBlock and ConnectTip.
THEOREM BlocksRespectLocks ==
    ASSUME ~OtherThreads
    PROVE  Spec => []NoBlockConflictsWithLock
<1>1. IInv => NoBlockConflictsWithLock
    BY DEF IInv, FilterStillHolds
<1> QED  BY <1>1, Invariance, PTL

-----------------------------------------------------------------------------
(* Votes: what mapVotedOutpoints, fAttacked and the clean-up rules of a    *)
(* node add up to.  VInv is the invariant of its maps, Settled that of the *)
(* whole node, and the handlers and clean-up preserve both.  Settled can   *)
(* only hold as long as a transaction that was buried deeply enough to be  *)
(* forgotten is not disconnected (Shallow).                                *)

\* The votes that count for t on o, and whether a masternode is behind two of
\* any two sets of SIGNATURES_REQUIRED such votes, as it is with 6 of 10.
ValidVotes(t, o) == {v \in Votes : v.tx = t /\ v.out = o /\ v.mn \in Quorum[o]}

QuorumsIntersect ==
    \A o \in Outpoints : \A t, u \in Txs :
        \A P \in SUBSET ValidVotes(t, o), Q \in SUBSET ValidVotes(u, o) :
            Cardinality(P) >= SIGNATURES_REQUIRED /\ Cardinality(Q) >= SIGNATURES_REQUIRED
            => \E v \in P, w \in Q : v.mn = w.mn

-----------------------------------------------------------------------------
(* The part of the invariant about one record s of maps, for the set B of  *)
(* buried transactions.                                                    *)

\* Transactions whose outpoints may have been forgotten: they are buried or,
\* where two conflicting locks can complete, were dropped as rejected.
Excused(s, B) == B \cup (IF QuorumsIntersect THEN {} ELSE s.rejected)

Free(s, B, o) == \E g \in Excused(s, B) : o \in Inputs(g)

\* Only candidates have a confirmed height, and an expired one is buried.
HeightsAreSound(s, B) ==
    /\ s.cached > KeepLock
    /\ \A t \in Txs : s.candHeight[t] # -1 => t \in s.cands
    /\ \A t \in s.cands : Expired(s, s.candHeight[t]) => t \in B

\* mapVotedOutpoints knows of every counted vote.
CountedAreRecorded(s, B) ==
    \A v \in s.counted : v.tx \in s.voted[v.out] \/ Free(s, B, v.out)

\* Counted double votes have spoilt the outpoint in both candidates.
DoublesAreSpoilt(s, B) ==
    \A v, w \in s.counted :
        v.out = w.out /\ v.mn = w.mn /\ v.tx # w.tx
        => \/ <<v.tx, v.out>> \in s.attacked /\ <<w.tx, v.out>> \in s.attacked
           \/ ~QuorumsIntersect /\ Free(s, B, v.out)

\* A lock holds all inputs, unless it conflicts with an excused transaction.
HeldWhole(s, B) ==
    \A o \in Outpoints :
        s.locked[o] # NoTx =>
          \/ \A p \in Inputs(s.locked[o]) : s.locked[p] = s.locked[o]
          \/ \E g \in Excused(s, B) : Conflict(s.locked[o], g)

VInv(s, B) ==
    /\ HeightsAreSound(s, B)
    /\ CountedAreRecorded(s, B)
    /\ DoublesAreSpoilt(s, B)
    /\ HeldWhole(s, B)

-----------------------------------------------------------------------------
(* The procedures keep VInv.  Buried transactions are mined.               *)

\* What a procedure may forget: an outpoint only with an excuse, a lock - where
\* quorums intersect - only because an expired candidate spends the outpoint.
VStep(s, r, B) ==
    /\ Excused(s, B) \subseteq Excused(r, B)
    /\ \A v \in s.counted : v \in r.counted \/ Free(r, B, v.out)
    /\ r.cached = s.cached
    /\ \A t \in Txs : r.candHeight[t] \in {s.candHeight[t], -1}
    /\ QuorumsIntersect =>
         \A o \in Outpoints :
            \/ s.locked[o] = NoTx
            \/ r.locked[o] = s.locked[o]
            \/ \E g \in s.cands : Expired(s, s.candHeight[g]) /\ o \in Inputs(g)

LEMMA FreeGrows ==
    ASSUME NEW s, NEW r, NEW B, Excused(s, B) \subseteq Excused(r, B), NEW o, Free(s, B, o)
    PROVE  Free(r, B, o)
BY DEF Free

LEMMA VStepTrans ==
    ASSUME NEW s, NEW r, NEW q, NEW B, HeightsAreSound(s, B), s.cands \subseteq Txs,
           r.cands \subseteq Txs, VStep(s, r, B), VStep(r, q, B)
    PROVE  VStep(s, q, B)
<1>1. Excused(s, B) \subseteq Excused(q, B) /\ q.cached = s.cached
    BY DEF VStep
<1>2. \A v \in s.counted : v \in q.counted \/ Free(q, B, v.out)
    BY FreeGrows DEF VStep
<1>3. \A t \in Txs : q.candHeight[t] \in {s.candHeight[t], -1}
    BY DEF VStep
<1>4. ASSUME QuorumsIntersect, NEW o \in Outpoints, s.locked[o] # NoTx,
             q.locked[o] # s.locked[o]
      PROVE  \E g \in s.cands : Expired(s, s.candHeight[g]) /\ o \in Inputs(g)
    <2>1. CASE r.locked[o] # s.locked[o]
        BY <1>4, <2>1 DEF VStep
    <2>2. CASE r.locked[o] = s.locked[o]
        <3>1. PICK g \in r.cands : Expired(r, r.candHeight[g]) /\ o \in Inputs(g)
            BY <1>4, <2>2 DEF VStep
        <3>2. g \in Txs /\ r.candHeight[g] # -1
            BY <3>1 DEF Expired
        <3>3. r.candHeight[g] = s.candHeight[g] /\ r.cached = s.cached
            BY <3>2 DEF VStep
        <3>4. g \in s.cands
            BY <3>2, <3>3 DEF HeightsAreSound
        <3>5. Expired(s, s.candHeight[g])
            BY <3>1, <3>3 DEF Expired
        <3> QED  BY <3>1, <3>4, <3>5
    <2> QED  BY <2>1, <2>2
<1> QED  BY <1>1, <1>2, <1>3, <1>4 DEF VStep

\* Writing a height of -1, the accepted and the rejected hashes, the votes.
LEMMA SameVotes ==
    ASSUME NEW B, NEW s \in Records, VInv(s, B), NEW r \in Records, Same(s, r),
           \A t \in Txs : r.candHeight[t] \in {s.candHeight[t], -1},
           s.rejected \subseteq r.rejected
    PROVE  VInv(r, B) /\ VStep(s, r, B)
<1>1. Excused(s, B) \subseteq Excused(r, B)
    BY DEF Excused
<1>2. /\ r.cands = s.cands /\ r.counted = s.counted /\ r.attacked = s.attacked
      /\ r.voted = s.voted /\ r.locked = s.locked /\ r.cached = s.cached
    BY DEF Same
<1>3. HeightsAreSound(r, B)
    <2>1. \A t \in Txs : Expired(r, r.candHeight[t]) => Expired(s, s.candHeight[t])
        BY <1>2 DEF Expired
    <2>2. s.cands \subseteq Txs
        BY DEF Records
    <2> QED  BY <1>2, <2>1, <2>2 DEF VInv, HeightsAreSound
<1>4. CountedAreRecorded(r, B) /\ DoublesAreSpoilt(r, B)
    BY <1>1, <1>2, FreeGrows DEF VInv, CountedAreRecorded, DoublesAreSpoilt
<1>5. HeldWhole(r, B)
    BY <1>1, <1>2 DEF VInv, HeldWhole
<1>6. VStep(s, r, B)
    BY <1>1, <1>2 DEF VStep
<1> QED  BY <1>3, <1>4, <1>5, <1>6 DEF VInv

LEMMA StoreVotesKeeps ==
    ASSUME NEW B, NEW s \in Records, VInv(s, B), NEW V \in SUBSET Votes, now \in Int
    PROVE  VInv(StoreVotes(s, V), B) /\ VStep(s, StoreVotes(s, V), B)
BY StoreFields, SameVotes

\* CheckAndRemove forgets what is buried.
LEMMA RemoveVotes ==
    ASSUME NEW H, NEW B, NEW s, RInv(s, H), VInv(s, B)
    PROVE  LET r == CheckAndRemove(s)
           IN  VInv(r, B) /\ VStep(s, r, B)
<1> DEFINE r == CheckAndRemove(s)
<1>1. s \in Records /\ r \in Records
    BY RemoveType DEF RInv
<1>2. /\ r.cands = s.cands \ Gone(s)
      /\ r.requested = s.requested \ Gone(s)
      /\ r.outlocks = s.outlocks \ Gone(s)
      /\ r.candTime = Clear(s.candTime, Gone(s), 0)
      /\ r.candHeight = Clear(s.candHeight, Gone(s), -1)
      /\ r.counted = {v \in s.counted : v.tx \notin Gone(s)}
      /\ r.attacked = {a \in s.attacked : a[1] \notin Gone(s)}
      /\ r.rejected = s.rejected \ (Gone(s) \cap s.requested)
      /\ r.voted = Clear(s.voted, Freed(s), {})
      /\ r.locked = Clear(s.locked, Freed(s), NoTx)
      /\ r.cached = s.cached
    BY <1>1, RemoveFields
<1> HIDE DEF r
<1>3. Gone(s) \subseteq B /\ Gone(s) \subseteq s.cands
    BY DEF VInv, HeightsAreSound, Gone
<1>4. Excused(s, B) \subseteq Excused(r, B) /\ B \subseteq Excused(r, B)
    BY <1>2, <1>3 DEF Excused
<1>5. /\ \A o \in Outpoints : r.voted[o] = IF o \in Freed(s) THEN {} ELSE s.voted[o]
      /\ \A o \in Outpoints : r.locked[o] = IF o \in Freed(s) THEN NoTx ELSE s.locked[o]
      /\ \A t \in Txs : r.candHeight[t] = IF t \in Gone(s) THEN -1 ELSE s.candHeight[t]
    <2>1. DOMAIN s.voted = Outpoints /\ DOMAIN s.locked = Outpoints /\ DOMAIN s.candHeight = Txs
        BY <1>1 DEF Records
    <2> QED  BY <1>2, <2>1 DEF Clear
<1>6. \A o \in Freed(s) : \E g \in Gone(s) \cap s.outlocks : o \in Inputs(g)
    BY DEF Freed
<1>7. \A o \in Freed(s) : Free(r, B, o)
    BY <1>3, <1>4, <1>6 DEF Free
<1>8. \A v \in s.counted : /\ v \in Votes /\ v.tx \in s.outlocks
                            /\ v.out \in Outpoints /\ v.out \in Inputs(v.tx)
    BY <1>1 DEF RInv, CountedAreHeard, Records, Votes
<1>9. HeightsAreSound(r, B)
    <2>1. \A t \in r.cands : Expired(r, r.candHeight[t]) => Expired(s, s.candHeight[t])
        BY <1>1, <1>2, <1>5 DEF Expired, Records
    <2> QED  BY <1>2, <1>5, <2>1 DEF VInv, HeightsAreSound
<1>10. CountedAreRecorded(r, B)
    BY <1>2, <1>4, <1>5, <1>7, <1>8, FreeGrows DEF VInv, CountedAreRecorded
<1>11. DoublesAreSpoilt(r, B)
    BY <1>2, <1>4, FreeGrows DEF VInv, DoublesAreSpoilt
<1>12. HeldWhole(r, B)
    <2> SUFFICES ASSUME NEW o \in Outpoints, r.locked[o] # NoTx
                 PROVE  \/ \A p \in Inputs(r.locked[o]) : r.locked[p] = r.locked[o]
                        \/ \E g \in Excused(r, B) : Conflict(r.locked[o], g)
        BY DEF HeldWhole
    <2> DEFINE t == s.locked[o]
    <2>1. r.locked[o] = t /\ o \notin Freed(s) /\ t # NoTx
        BY <1>5
    <2>2. t \in Txs /\ o \in Inputs(t) /\ t \in s.outlocks
        BY <1>1, <2>1 DEF RInv, LocksAreBacked, Backed, Records
    <2>3. t \notin Gone(s)
        BY <2>1, <2>2 DEF Freed
    <2>4. Inputs(t) \subseteq Outpoints
        BY <2>2, InputsType
    <2> HIDE DEF t
    <2>5. CASE \E g \in Excused(s, B) : Conflict(t, g)
        BY <1>4, <2>1, <2>5
    <2>6. CASE \A p \in Inputs(t) : s.locked[p] = t
        <3>1. CASE \E p \in Inputs(t) : p \in Freed(s)
            <4>1. PICK g \in Gone(s) : Inputs(t) \cap Inputs(g) # {}
                BY <1>6, <3>1
            <4>2. Conflict(t, g)
                BY <2>3, <4>1 DEF Conflict
            <4> QED  BY <1>3, <1>4, <2>1, <4>2
        <3>2. CASE ~\E p \in Inputs(t) : p \in Freed(s)
            BY <1>5, <2>1, <2>4, <2>6, <3>2
        <3> QED  BY <3>1, <3>2
    <2> QED  BY <2>1, <2>5, <2>6 DEF VInv, HeldWhole, t
<1>13. VStep(s, r, B)
    <2>1. \A v \in s.counted : v \in r.counted \/ Free(r, B, v.out)
        BY <1>2, <1>3, <1>4, <1>8 DEF Free
    <2>2. \A o \in Outpoints : \/ r.locked[o] = s.locked[o]
                               \/ \E g \in s.cands : Expired(s, s.candHeight[g]) /\ o \in Inputs(g)
        BY <1>5, <1>6 DEF Gone
    <2> QED  BY <1>2, <1>4, <1>5, <2>1, <2>2 DEF VStep
<1> QED  BY <1>9, <1>10, <1>11, <1>12, <1>13 DEF VInv, r

\* Dropping two candidates whose locks conflict: they become excuses.
LEMMA DropVotes ==
    ASSUME NEW H, NEW B, NEW s, RInv(s, H), VInv(s, B), ~QuorumsIntersect,
           NEW t \in s.cands, NEW u \in s.cands
    PROVE  LET r == DropBoth(s, t, u)
           IN  VInv(r, B) /\ VStep(s, r, B)
<1> DEFINE C == B \cup {t, u}
           f == Clear(s.candHeight, {t, u}, 0)
           s0 == [s EXCEPT !.candHeight = f]
           s1 == CheckAndRemove(s0)
           r == DropBoth(s, t, u)
<1>1. s \in Records /\ t \in Txs /\ u \in Txs
    BY DEF RInv, Records
<1>2. f \in [Txs -> Int] /\ \A x \in Txs : f[x] = IF x \in {t, u} THEN 0 ELSE s.candHeight[x]
    BY <1>1, SMT DEF Records, Clear
<1> HIDE DEF f
<1>3. s0 \in Records /\ Same(s, s0) /\ s0.candHeight = f /\ s0.rejected = s.rejected
    BY <1>1, <1>2, WriteFields
<1> HIDE DEF s0
<1>4. /\ s0.cands = s.cands /\ s0.counted = s.counted /\ s0.attacked = s.attacked
      /\ s0.voted = s.voted /\ s0.locked = s.locked /\ s0.cached = s.cached
    BY <1>3 DEF Same
<1>5. RInv(s0, H)
    BY <1>3, SameKeeps
<1>6. Excused(s, B) \subseteq Excused(s0, C) /\ \A o : Free(s, B, o) => Free(s0, C, o)
    BY <1>3 DEF Excused, Free
<1>7. VInv(s0, C)
    <2>1. HeightsAreSound(s0, C)
        BY <1>1, <1>2, <1>3, <1>4 DEF VInv, HeightsAreSound, Expired, Records
    <2>2. CountedAreRecorded(s0, C) /\ DoublesAreSpoilt(s0, C)
        BY <1>4, <1>6 DEF VInv, CountedAreRecorded, DoublesAreSpoilt
    <2>3. HeldWhole(s0, C)
        BY <1>4, <1>6 DEF VInv, HeldWhole
    <2> QED  BY <2>1, <2>2, <2>3 DEF VInv
<1>8. t \in Gone(s0) /\ u \in Gone(s0)
    <2>1. s.cached \in Int /\ s.cached > KeepLock /\ KeepLock \in Nat
        BY <1>1, ConstantsAssumption DEF VInv, HeightsAreSound, Records
    <2>2. s0.candHeight[t] = 0 /\ s0.candHeight[u] = 0
        BY <1>1, <1>2, <1>3
    <2> QED  BY <1>4, <2>1, <2>2, SMT DEF Gone, Expired
<1> HIDE DEF C
<1>9. VInv(s1, C) /\ VStep(s0, s1, C)
    BY <1>5, <1>7, RemoveVotes
<1>10. s1 \in Records /\ s1.cands = s0.cands \ Gone(s0)
    BY <1>3, RemoveType, RemoveFields
<1> HIDE DEF s1
<1>11. r = [s1 EXCEPT !.rejected = s1.rejected \cup {t, u}]
    BY DEF DropBoth, s1, s0, f
<1>12. r \in Records /\ Same(s1, r) /\ r.candHeight = s1.candHeight
       /\ r.rejected = s1.rejected \cup {t, u}
    <2>1. s1.rejected \cup {t, u} \in SUBSET Txs
        BY <1>1, <1>10 DEF Records
    <2> QED  BY <1>10, <1>11, <2>1, WriteFields, SMT
<1> HIDE DEF r
<1>13. Excused(r, B) = Excused(s1, C) /\ \A o : Free(r, B, o) <=> Free(s1, C, o)
    BY <1>12 DEF Excused, Free, C
<1>14. /\ r.cands = s1.cands /\ r.counted = s1.counted /\ r.attacked = s1.attacked
       /\ r.voted = s1.voted /\ r.locked = s1.locked /\ r.cached = s1.cached
    BY <1>12 DEF Same
<1>15. VInv(r, B)
    <2>1. HeightsAreSound(r, B)
        <3>1. \A x \in r.cands : Expired(r, r.candHeight[x]) => x \in C
            BY <1>9, <1>12, <1>14 DEF VInv, HeightsAreSound, Expired
        <3>2. t \notin r.cands /\ u \notin r.cands
            BY <1>8, <1>10, <1>14
        <3> QED  BY <1>9, <1>12, <1>14, <3>1, <3>2 DEF VInv, HeightsAreSound, C
    <2>2. CountedAreRecorded(r, B) /\ DoublesAreSpoilt(r, B)
        BY <1>9, <1>13, <1>14 DEF VInv, CountedAreRecorded, DoublesAreSpoilt
    <2>3. HeldWhole(r, B)
        BY <1>9, <1>13, <1>14 DEF VInv, HeldWhole
    <2> QED  BY <2>1, <2>2, <2>3 DEF VInv
<1>16. VStep(s, r, B)
    <2>1. Excused(s, B) \subseteq Excused(r, B)
        BY <1>6, <1>9, <1>13 DEF VStep
    <2>2. \A v \in s.counted : v \in r.counted \/ Free(r, B, v.out)
        BY <1>4, <1>9, <1>13, <1>14 DEF VStep
    <2>3. r.cached = s.cached
        BY <1>4, <1>9, <1>14 DEF VStep
    <2>4. \A x \in Txs : r.candHeight[x] \in {s.candHeight[x], -1}
        <3>1. \A x \in Gone(s0) \cap Txs : s1.candHeight[x] = -1
            <4>1. s1.candHeight = Clear(s0.candHeight, Gone(s0), -1)
                BY <1>3, RemoveFields DEF s1
            <4> QED  BY <1>3, <4>1 DEF Records, Clear
        <3>2. \A x \in Txs : s1.candHeight[x] \in {f[x], -1}
            BY <1>3, <1>9 DEF VStep
        <3> QED  BY <1>1, <1>2, <1>8, <1>12, <3>1, <3>2
    <2> QED  BY <2>1, <2>2, <2>3, <2>4 DEF VStep
<1> QED  BY <1>15, <1>16 DEF r

\* Completing the lock on t.
LEMMA LockVotes ==
    ASSUME NEW H, NEW B, NEW s, RInv(s, H), VInv(s, B), NEW t \in Txs,
           IsAllOutPointsReady(s, t), \A o \in Inputs(t) : ~LockedByOther(s, t, o)
    PROVE  LET r == LockTransactionInputs(s, t)
           IN  VInv(r, B) /\ VStep(s, r, B)
<1> DEFINE r == LockTransactionInputs(s, t)
<1>1. /\ r.locked = [o \in Outpoints |-> IF o \in Inputs(t) THEN t ELSE s.locked[o]]
      /\ r.counted = s.counted /\ r.attacked = s.attacked /\ r.voted = s.voted
      /\ r.candHeight = s.candHeight /\ r.rejected = s.rejected
      /\ r.cached = s.cached /\ r.cands = s.cands
    BY LockKeeps, SMT
<1> HIDE DEF r
<1>2. Excused(r, B) = Excused(s, B) /\ \A o : Free(r, B, o) <=> Free(s, B, o)
    BY <1>1 DEF Excused, Free
<1>3. HeightsAreSound(r, B)
    BY <1>1 DEF VInv, HeightsAreSound, Expired
<1>4. CountedAreRecorded(r, B) /\ DoublesAreSpoilt(r, B)
    BY <1>1, <1>2 DEF VInv, CountedAreRecorded, DoublesAreSpoilt
<1>5. HeldWhole(r, B)
    <2> SUFFICES ASSUME NEW o \in Outpoints, r.locked[o] # NoTx, r.locked[o] # t,
                        NEW p \in Inputs(r.locked[o]), r.locked[p] # r.locked[o]
                 PROVE  \E g \in Excused(r, B) : Conflict(r.locked[o], g)
        <3>1. Inputs(t) \subseteq Outpoints
            BY InputsType
        <3>2. \A p \in Inputs(t) : r.locked[p] = t
            BY <1>1, <3>1
        <3> QED  BY <3>2 DEF HeldWhole
    <2>1. r.locked[o] = s.locked[o] /\ s.locked[o] \in Txs
        BY <1>1 DEF RInv, Records
    <2>2. p \in Outpoints
        BY <2>1, InputsType
    <2>3. p \in Inputs(t) => s.locked[p] \in {NoTx, t}
        BY DEF LockedByOther
    <2>4. s.locked[p] # s.locked[o]
        BY <1>1, <2>1, <2>2, <2>3
    <2> QED  BY <1>2, <2>1, <2>4 DEF VInv, HeldWhole
<1>6. VStep(s, r, B)
    <2>1. \A o \in Outpoints : s.locked[o] = NoTx \/ r.locked[o] = s.locked[o]
        BY <1>1 DEF LockedByOther
    <2> QED  BY <1>1, <1>2, <2>1 DEF VStep
<1> QED  BY <1>3, <1>4, <1>5, <1>6 DEF VInv, r

\* Where quorums intersect, two locks that conflict never both become ready: a
\* masternode that voted for both has spoilt the outpoint.
LEMMA NoConflictingLocks ==
    ASSUME NEW H, NEW B, NEW s, RInv(s, H), VInv(s, B), QuorumsIntersect,
           NEW t \in Txs, IsAllOutPointsReady(s, t), NEW o \in Inputs(t),
           LockedByOther(s, t, o)
    PROVE  FALSE
<1> DEFINE u == s.locked[o]
<1>1. o \in Outpoints /\ s \in Records
    BY InputsType DEF RInv
<1>2. u \in Txs /\ u # t /\ u # NoTx
    BY <1>1 DEF LockedByOther, Records
<1>3. PICK Q \in SUBSET VotesFor(s.counted, u, o) : Cardinality(Q) >= SIGNATURES_REQUIRED
    BY <1>1, <1>2 DEF RInv, LocksAreBacked, Backed
<1>4. Cardinality(VotesFor(s.counted, t, o)) >= SIGNATURES_REQUIRED /\ <<t, o>> \notin s.attacked
    BY DEF IsAllOutPointsReady, IsReady
<1> HIDE DEF u
<1>5. \A x \in Txs : VotesFor(s.counted, x, o) \in SUBSET ValidVotes(x, o)
    BY <1>1, ZenonT(30) DEF RInv, CountedAreHeard, Records, VotesFor, ValidVotes
<1>6. PICK v \in VotesFor(s.counted, t, o), w \in Q : v.mn = w.mn
    BY <1>1, <1>2, <1>3, <1>4, <1>5, SMT DEF QuorumsIntersect
<1>7. v \in s.counted /\ w \in s.counted /\ v.out = w.out /\ v.tx # w.tx /\ v.tx = t /\ v.out = o
    BY <1>2 DEF VotesFor
<1> QED  BY <1>4, <1>6, <1>7 DEF VInv, DoublesAreSpoilt

LEMMA TryVotes ==
    ASSUME NEW H, NEW B, NEW s, RInv(s, H), VInv(s, B), NEW t \in Txs
    PROVE  LET r == TryToFinalize(s, t)
           IN  VInv(r, B) /\ VStep(s, r, B)
<1> DEFINE r == TryToFinalize(s, t)
<1>1. s \in Records
    BY DEF RInv
<1>2. CASE r = s
    BY <1>2 DEF VStep
<1>3. CASE /\ r = LockTransactionInputs(s, t) /\ IsAllOutPointsReady(s, t)
           /\ \A o \in Inputs(t) : ~LockedByOther(s, t, o)
    BY <1>3, LockVotes
<1>4. CASE /\ IsAllOutPointsReady(s, t)
           /\ \E o \in Inputs(t) : /\ LockedByOther(s, t, o) /\ s.locked[o] \in s.cands
                                   /\ r = DropBoth(s, t, s.locked[o])
    <2>1. ~QuorumsIntersect
        BY <1>4, NoConflictingLocks
    <2>2. t \in s.cands
        BY <1>4 DEF IsAllOutPointsReady, RInv, CandidateStages
    <2> QED  BY <1>4, <2>1, <2>2, DropVotes
<1> QED  BY <1>1, <1>2, <1>3, <1>4, TryCases

\* A new candidate has no confirmed height.
LEMMA GrowVotes ==
    ASSUME NEW B, NEW s, VInv(s, B), NEW r, s.cands \subseteq r.cands, r.cands \subseteq Txs,
           r.counted = s.counted, r.attacked = s.attacked, r.voted = s.voted,
           r.locked = s.locked, r.cached = s.cached, r.candHeight = s.candHeight,
           r.rejected = s.rejected
    PROVE  VInv(r, B) /\ VStep(s, r, B)
<1>1. Excused(r, B) = Excused(s, B) /\ \A o : Free(r, B, o) <=> Free(s, B, o)
    BY DEF Excused, Free
<1>2. HeightsAreSound(r, B)
    BY DEF VInv, HeightsAreSound, Expired
<1>3. CountedAreRecorded(r, B) /\ DoublesAreSpoilt(r, B) /\ HeldWhole(r, B)
    BY <1>1 DEF VInv, CountedAreRecorded, DoublesAreSpoilt, HeldWhole
<1>4. VStep(s, r, B)
    BY <1>1 DEF VStep
<1> QED  BY <1>2, <1>3, <1>4 DEF VInv

LEMMA RequestVotes ==
    ASSUME NEW H, NEW B, NEW s, RInv(s, H), VInv(s, B), NEW t \in Txs, now \in Int
    PROVE  LET r == ProcessTxLockRequest(s, t)
           IN  VInv(r, B) /\ VStep(s, r, B)
<1> DEFINE s1 == CreateTxLockCandidate(s, t)
           r == ProcessTxLockRequest(s, t)
<1>1. s \in Records /\ RInv(s1, H)
    BY CreateKeeps DEF RInv
<1>2. /\ s1 \in Records
      /\ s1.counted = s.counted /\ s1.attacked = s.attacked /\ s1.voted = s.voted
      /\ s1.locked = s.locked /\ s1.cached = s.cached /\ s1.candHeight = s.candHeight
      /\ s1.rejected = s.rejected /\ s.cands \subseteq s1.cands
    BY <1>1, CreateFields, SMT
<1>3. r = s1 \/ r = TryToFinalize(s1, t)
    BY DEF ProcessTxLockRequest
<1> HIDE DEF s1, r
<1>4. s.cands \subseteq Txs /\ s1.cands \subseteq Txs
    BY <1>1, <1>2 DEF Records
<1>5. VInv(s1, B) /\ VStep(s, s1, B)
    BY <1>2, <1>4, GrowVotes
<1>6. CASE r = s1
    BY <1>5, <1>6 DEF r
<1>7. CASE r = TryToFinalize(s1, t)
    <2>1. VInv(r, B) /\ VStep(s1, r, B)
        BY <1>1, <1>5, <1>7, TryVotes
    <2> QED  BY <1>4, <1>5, <2>1, VStepTrans DEF VInv, r
<1> QED  BY <1>3, <1>6, <1>7

LEMMA OrphanVotes ==
    ASSUME NEW H, NEW B, NEW s, RInv(s, H), VInv(s, B), NEW v \in Votes, now \in Int,
           v.tx \notin s.requested
    PROVE  LET r == ProcessOrphanVote(s, v)
           IN  VInv(r, B) /\ VStep(s, r, B)
<1> DEFINE s1 == Orphaned(s, v)
           r == ProcessOrphanVote(s, v)
<1>1. s \in Records /\ v.tx \in Txs
    BY DEF RInv, Votes
<1>2. /\ s1 \in Records
      /\ s1.cands = s.cands \cup {v.tx} /\ s1.requested = s.requested
      /\ s1.outlocks = s.outlocks /\ s1.counted = s.counted /\ s1.attacked = s.attacked
      /\ s1.voted = s.voted /\ s1.locked = s.locked /\ s1.cached = s.cached
      /\ s1.candHeight = s.candHeight /\ s1.rejected = s.rejected
    BY <1>1, OrphanedFields
<1>3. r = s \/ r = s1 \/ r = ProcessTxLockRequest(s1, v.tx)
    BY DEF ProcessOrphanVote, Orphaned
<1>4. RInv(s1, H)
    BY OrphanedKeeps
<1> HIDE DEF s1, r
<1>5. s.cands \subseteq Txs /\ s1.cands \subseteq Txs
    BY <1>1, <1>2 DEF Records
<1>6. VInv(s1, B) /\ VStep(s, s1, B)
    BY <1>2, <1>5, GrowVotes
<1>7. CASE r = s
    BY <1>7 DEF VStep, r
<1>8. CASE r = s1
    BY <1>6, <1>8 DEF r
<1>9. CASE r = ProcessTxLockRequest(s1, v.tx)
    <2>1. VInv(r, B) /\ VStep(s1, r, B)
        BY <1>1, <1>4, <1>6, <1>9, RequestVotes
    <2> QED  BY <1>5, <1>6, <2>1, VStepTrans DEF VInv, r
<1> QED  BY <1>3, <1>7, <1>8, <1>9

-----------------------------------------------------------------------------
(* Votes are cast and counted only on outpoints that are unspent.          *)

LEMMA UnspentFree ==
    ASSUME NEW s, NEW B, B \subseteq mined, NEW o, Unspent(o), Free(s, B, o)
    PROVE  ~QuorumsIntersect
BY DEF Free, Excused, Unspent

\* A counted vote of the same masternode for another transaction is one that
\* mapVotedOutpoints knows of, unless the outpoint was freed.
LEMMA RecordedVote ==
    ASSUME NEW s \in Records, NEW B, B \subseteq mined, VInv(s, B),
           NEW o \in Outpoints, Unspent(o), NEW w \in s.counted, w.out = o
    PROVE  \/ w.tx \in s.voted[o] /\ HasVoted(s, w.tx, o, w.mn)
           \/ ~QuorumsIntersect /\ Free(s, B, o)
<1>1. w = [tx |-> w.tx, out |-> o, mn |-> w.mn]
    BY DEF Records, Votes
<1>2. w.tx \in s.voted[o] \/ Free(s, B, o)
    BY DEF VInv, CountedAreRecorded
<1> QED  BY <1>1, <1>2, UnspentFree DEF HasVoted

LEMMA OwnVotesFresh ==
    ASSUME NEW s \in Records, NEW B, B \subseteq mined, VInv(s, B), NEW t \in Txs, NEW D,
           NEW v \in OwnVotes(s, t, D), NEW w \in s.counted,
           w.mn = Self, w.out = v.out, w.tx # t
    PROVE  ~QuorumsIntersect /\ Free(s, B, v.out)
<1>1. v.out \in VotableInputs(s, t, D) /\ v.out \in Inputs(t) /\ AllUnspent(t)
    BY OwnVotesType
<1>2. v.out \in Outpoints /\ Unspent(v.out)
    BY <1>1, InputsType DEF AllUnspent
<1>3. \A u \in s.voted[v.out] : ~HasVoted(s, u, v.out, Self)
    BY <1>1 DEF VotableInputs
<1> QED  BY <1>2, <1>3, RecordedVote

\* More counted votes for t, each known to mapVotedOutpoints.
LEMMA CountVotes ==
    ASSUME NEW B, NEW s \in Records, VInv(s, B), NEW r \in Records,
           r.cands = s.cands, r.locked = s.locked, r.cached = s.cached,
           r.candHeight = s.candHeight, r.rejected = s.rejected,
           s.counted \subseteq r.counted, s.attacked \subseteq r.attacked,
           \A o \in Outpoints : s.voted[o] \subseteq r.voted[o],
           \A v \in r.counted \ s.counted : v.tx \in r.voted[v.out],
           \A v \in r.counted \ s.counted, w \in r.counted :
              v.out = w.out /\ v.mn = w.mn /\ v.tx # w.tx
              => \/ <<v.tx, v.out>> \in r.attacked /\ <<w.tx, v.out>> \in r.attacked
                 \/ ~QuorumsIntersect /\ Free(s, B, v.out)
    PROVE  VInv(r, B) /\ VStep(s, r, B)
<1>1. Excused(r, B) = Excused(s, B) /\ \A o : Free(r, B, o) <=> Free(s, B, o)
    BY DEF Excused, Free
<1>2. HeightsAreSound(r, B)
    BY DEF VInv, HeightsAreSound, Expired
<1>3. CountedAreRecorded(r, B)
    <2>1. \A v \in s.counted : v.out \in Outpoints
        BY DEF Records, Votes
    <2> QED  BY <1>1, <2>1 DEF VInv, CountedAreRecorded
<1>4. DoublesAreSpoilt(r, B)
    BY <1>1 DEF VInv, DoublesAreSpoilt
<1>5. HeldWhole(r, B)
    BY <1>1 DEF VInv, HeldWhole
<1>6. VStep(s, r, B)
    BY <1>1 DEF VStep
<1> QED  BY <1>2, <1>3, <1>4, <1>5, <1>6 DEF VInv

LEMMA VotingVotes ==
    ASSUME NEW H, NEW B, B \subseteq mined, NEW s, RInv(s, H), VInv(s, B),
           NEW t \in Txs, NEW D, now \in Int
    PROVE  VInv(Voting(s, t, D), B) /\ VStep(s, Voting(s, t, D), B)
<1> DEFINE V == OwnVotes(s, t, D)
           r == Voting(s, t, D)
<1>1. s \in Records
    BY DEF RInv
<1>2. /\ r \in Records
      /\ r.cands = s.cands /\ r.locked = s.locked /\ r.attacked = s.attacked
      /\ r.candHeight = s.candHeight /\ r.cached = s.cached /\ r.rejected = s.rejected
      /\ r.counted = s.counted \cup V
      /\ r.voted = [o \in Outpoints |-> IF \E v \in V \ s.counted : v.out = o
                                       THEN s.voted[o] \cup {t} ELSE s.voted[o]]
    BY <1>1, VotingFields, SMT
<1>3. \A v \in V : v.tx = t /\ v.mn = Self /\ v.out \in Outpoints
    BY <1>1, OwnVotesType, InputsType, SMT
<1>4. \A v \in V, w \in s.counted :
         v.out = w.out /\ v.mn = w.mn /\ v.tx # w.tx
         => ~QuorumsIntersect /\ Free(s, B, v.out)
    BY <1>1, <1>3, OwnVotesFresh
<1> HIDE DEF V, r
<1>5. /\ \A o \in Outpoints : s.voted[o] \subseteq r.voted[o]
      /\ \A v \in r.counted \ s.counted : v.tx \in r.voted[v.out]
    BY <1>2, <1>3, SMT
<1>6. \A v \in r.counted \ s.counted, w \in r.counted :
         v.out = w.out /\ v.mn = w.mn /\ v.tx # w.tx
         => ~QuorumsIntersect /\ Free(s, B, v.out)
    BY <1>2, <1>3, <1>4
<1>7. VInv(r, B) /\ VStep(s, r, B)
    BY <1>1, <1>2, <1>5, <1>6, CountVotes, ZenonT(30)
<1> QED  BY <1>7 DEF r

LEMMA VoteVotes ==
    ASSUME NEW H, NEW B, B \subseteq mined, NEW s, RInv(s, H), VInv(s, B),
           NEW t \in Txs, NEW D, now \in Int
    PROVE  LET r == Vote(s, t, D)
           IN  /\ VInv(r, B) /\ VStep(s, r, B)
               /\ \A v \in OwnVotes(s, t, D) : v \in r.counted \/ Free(r, B, v.out)
<1> DEFINE s1 == Voting(s, t, D)
           r == Vote(s, t, D)
           G == H \cup (OwnVotes(s, t, D) \ s.counted)
<1>1. VInv(s1, B) /\ VStep(s, s1, B)
    BY VotingVotes
<1>2. RInv(s1, G)
    BY VotingKeeps
<1>3. OwnVotes(s, t, D) \subseteq s1.counted
    BY VotingFields, ZenonT(30) DEF RInv
<1>4. r = IF t \in s.cands THEN TryToFinalize(s1, t) ELSE s
    BY VoteCases
<1> HIDE DEF s1, r, G
<1>5. s.cands \subseteq Txs /\ s1.cands \subseteq Txs
    BY <1>2 DEF RInv, Records
<1>6. CASE t \in s.cands
    <2>1. VInv(r, B) /\ VStep(s1, r, B)
        BY <1>1, <1>2, <1>4, <1>6, TryVotes
    <2>2. VStep(s, r, B)
        BY <1>1, <1>5, <2>1, VStepTrans DEF VInv
    <2>3. \A v \in OwnVotes(s, t, D) : v \in r.counted \/ Free(r, B, v.out)
        BY <1>3, <2>1, ZenonT(30) DEF VStep
    <2> QED  BY <2>1, <2>2, <2>3, ZenonT(30) DEF r
<1>7. CASE t \notin s.cands
    <2>1. OwnVotes(s, t, D) = {}
        BY <1>7 DEF OwnVotes, RInv, CandidateStages
    <2> QED  BY <1>4, <1>7, <2>1, ZenonT(30) DEF VStep, r
<1> QED  BY <1>6, <1>7

LEMMA TalliedVotes ==
    ASSUME NEW H, NEW B, B \subseteq mined, NEW s, RInv(s, H), VInv(s, B),
           NEW v \in Votes, v.tx \in s.outlocks, VoteIsValid(v)
    PROVE  VInv(Tallied(s, v), B) /\ VStep(s, Tallied(s, v), B)
<1> DEFINE r == Tallied(s, v)
<1>1. s \in Records /\ v.tx \in Txs /\ v.out \in Outpoints
    BY DEF RInv, Votes
<1>2. /\ r \in Records /\ r.counted = Tally(s, v)
      /\ r.cands = s.cands /\ r.candHeight = s.candHeight /\ r.rejected = s.rejected
      /\ r.locked = s.locked /\ r.cached = s.cached
      /\ s.attacked \subseteq r.attacked
      /\ \A u \in Twins(s, v) :
           /\ u \in s.outlocks /\ v.out \in Inputs(u)
           /\ v.tx \in s.outlocks /\ v.out \in Inputs(v.tx)
           => {<<u, v.out>>, <<v.tx, v.out>>} \subseteq r.attacked
      /\ r.voted = [s.voted EXCEPT ![v.out] = @ \cup {v.tx}]
    BY <1>1, TalliedFields
<1> HIDE DEF r
<1>3. /\ \A o \in Outpoints : s.voted[o] \subseteq r.voted[o]
      /\ v.tx \in r.voted[v.out]
    BY <1>1, <1>2, SMT DEF Records
<1>4. ASSUME v.out \in Inputs(v.tx),
             NEW w \in s.counted, w.out = v.out, w.mn = v.mn, w.tx # v.tx
      PROVE  \/ <<v.tx, v.out>> \in r.attacked /\ <<w.tx, v.out>> \in r.attacked
             \/ ~QuorumsIntersect /\ Free(s, B, v.out)
    <2>1. Unspent(v.out)
        BY DEF VoteIsValid
    <2>2. CASE w.tx \in s.voted[v.out] /\ HasVoted(s, w.tx, v.out, v.mn)
        <3>1. w.tx \in Twins(s, v)
            BY <1>4, <2>2, ZenonT(30) DEF Twins
        <3>2. w.tx \in s.outlocks /\ v.out \in Inputs(w.tx)
            BY <1>4 DEF RInv, CountedAreHeard
        <3> QED  BY <1>1, <1>2, <1>4, <3>1, <3>2, ZenonT(30)
    <2>3. CASE ~QuorumsIntersect /\ Free(s, B, v.out)
        BY <2>3
    <2> QED  BY <1>1, <1>4, <2>1, <2>2, <2>3, RecordedVote
<1>5. \A x \in r.counted \ s.counted, w \in r.counted :
         x.out = w.out /\ x.mn = w.mn /\ x.tx # w.tx
         => \/ <<x.tx, x.out>> \in r.attacked /\ <<w.tx, x.out>> \in r.attacked
            \/ ~QuorumsIntersect /\ Free(s, B, x.out)
    <2> SUFFICES ASSUME NEW x \in r.counted \ s.counted, NEW w \in r.counted,
                        x.out = w.out, x.mn = w.mn, x.tx # w.tx
                 PROVE  \/ <<x.tx, x.out>> \in r.attacked /\ <<w.tx, x.out>> \in r.attacked
                        \/ ~QuorumsIntersect /\ Free(s, B, x.out)
        OBVIOUS
    <2>1. x = v /\ v.out \in Inputs(v.tx) /\ (w \in s.counted \/ w = v)
        BY <1>2 DEF Tally
    <2>2. w \in s.counted /\ w.out = v.out /\ w.mn = v.mn /\ w.tx # v.tx
        BY <2>1
    <2> QED  BY <1>4, <2>1, <2>2
<1>6. \A x \in r.counted \ s.counted : x.tx \in r.voted[x.out]
    BY <1>2, <1>3 DEF Tally
<1>6a. s.counted \subseteq r.counted
    BY <1>2 DEF Tally
<1>7. VInv(r, B) /\ VStep(s, r, B)
    BY <1>1, <1>2, <1>3, <1>5, <1>6, <1>6a, CountVotes, ZenonT(30)
<1> QED  BY <1>7 DEF r

LEMMA CandidateVoteVotes ==
    ASSUME NEW H, NEW B, B \subseteq mined, NEW s, RInv(s, H), VInv(s, B),
           NEW v \in Votes, v.tx \in s.requested, VoteIsValid(v)
    PROVE  LET r == ProcessCandidateVote(s, v)
           IN  VInv(r, B) /\ VStep(s, r, B)
<1> DEFINE s1 == Tallied(s, v)
           r == ProcessCandidateVote(s, v)
           G == H \cup {v}
<1>1. s \in Records /\ v.tx \in Txs /\ v.mn \in Quorum[v.out]
    BY ZenonT(30) DEF RInv, Votes, VoteIsValid
<1>2. \/ r = s
      \/ v.tx \in s.outlocks /\ (r = s1 \/ r = TryToFinalize(s1, v.tx))
    BY <1>1, CandidateVoteCases DEF RInv
<1>3. v.tx \in s.outlocks => VInv(s1, B) /\ VStep(s, s1, B)
    BY TalliedVotes
<1>4. v.tx \in s.outlocks => RInv(s1, G)
    BY <1>1, TalliedKeeps
<1> HIDE DEF s1, r, G
<1>5. CASE r = s
    BY <1>5 DEF VStep, r
<1>6. CASE v.tx \in s.outlocks /\ r = s1
    BY <1>3, <1>6 DEF r
<1>7. CASE v.tx \in s.outlocks /\ r = TryToFinalize(s1, v.tx)
    <2>1. VInv(r, B) /\ VStep(s1, r, B)
        BY <1>1, <1>3, <1>4, <1>7, TryVotes, ZenonT(30)
    <2>2. s.cands \subseteq Txs /\ s1.cands \subseteq Txs
        BY <1>1, <1>4, <1>7, ZenonT(30) DEF RInv, Records
    <2> QED  BY <1>3, <1>7, <2>1, <2>2, VStepTrans, ZenonT(30) DEF VInv, r
<1> QED  BY <1>2, <1>5, <1>6, <1>7

LEMMA VoteMessageVotes ==
    ASSUME NEW H, NEW B, B \subseteq mined, NEW s, RInv(s, H), VInv(s, B),
           NEW v \in Votes, now \in Int
    PROVE  LET r == ProcessTxLockVote(s, v)
           IN  VInv(r, B) /\ VStep(s, r, B)
<1> DEFINE s1 == StoreVotes(s, {v})
           r == ProcessTxLockVote(s, v)
<1>1. s \in Records
    BY DEF RInv
<1>2. s1 \in Records /\ Same(s, s1)
    BY <1>1, StoreFields
<1>3. VInv(s1, B) /\ VStep(s, s1, B)
    BY <1>1, StoreVotesKeeps
<1>4. r = IF v \in s.votes THEN s
          ELSE IF ~VoteIsValid(v) THEN s1
          ELSE IF v.tx \notin s.requested THEN ProcessOrphanVote(s1, v)
          ELSE ProcessCandidateVote(s1, v)
    BY DEF ProcessTxLockVote
<1> HIDE DEF s1, r
<1>5. RInv(s1, H) /\ s1.requested = s.requested
    BY <1>2, SameKeeps DEF Same
<1>6. s.cands \subseteq Txs /\ s1.cands \subseteq Txs
    BY <1>1, <1>2 DEF Records
<1>7. CASE v \in s.votes
    BY <1>4, <1>7, ZenonT(30) DEF VStep, r
<1>8. CASE v \notin s.votes /\ ~VoteIsValid(v)
    BY <1>3, <1>4, <1>8, ZenonT(30) DEF r
<1>9. CASE v \notin s.votes /\ VoteIsValid(v)
    <2>1. VInv(r, B) /\ VStep(s1, r, B)
        <3>1. CASE v.tx \notin s.requested
            BY <1>3, <1>4, <1>5, <1>9, <3>1, OrphanVotes
        <3>2. CASE v.tx \in s.requested
            BY <1>3, <1>4, <1>5, <1>9, <3>2, CandidateVoteVotes
        <3> QED  BY <3>1, <3>2
    <2> QED  BY <1>3, <1>6, <2>1, VStepTrans, ZenonT(30) DEF VInv, r
<1> QED  BY <1>7, <1>8, <1>9


\* Mined so long ago that CheckAndRemove may have forgotten it, and no
\* disconnection within Shallow can undo it.
Buried ==
    {g \in Txs : \E i \in 1..Len(chain) :
                    g \in chain[i] /\ i + KeepLock < Len(chain) + undone}

-----------------------------------------------------------------------------
(* The part about the node.                                                *)

HeightsAreMined ==
    /\ instantsend.cached >= BaseHeight
    /\ instantsend.cached <= Height + undone
    /\ \A t \in Txs :
         instantsend.candHeight[t] # -1 =>
           \E i \in 1..Len(chain) :
              t \in chain[i] /\ instantsend.candHeight[t] = BaseHeight + i

BlockIsTip == blk.stage = "connected" => chain # <<>> /\ chain[Len(chain)] = blk.txs

CastOnce ==
    /\ \A v \in cast : v.mn = Self
    /\ heard \subseteq PeerVotes \cup cast
    /\ restarts = 0 =>
         /\ \A v \in cast : v \in instantsend.counted \/ Free(instantsend, Buried, v.out)
         /\ \A v, w \in cast : v.out = w.out /\ v.tx # w.tx =>
              ~QuorumsIntersect /\ Free(instantsend, Buried, v.out)

ToldAreLocked ==
    ~OtherThreads /\ restarts = 0 /\ QuorumsIntersect =>
      \A t \in told : IsLockedInstantSendTransaction(instantsend, t) \/ t \in Buried

ToldAgree ==
    ~OtherThreads /\ restarts = 0 /\ QuorumsIntersect => NeverAnnouncesConflictingLocks

\* All of it, as long as nothing that was buried is disconnected.
Settled ==
    /\ HeightsAreMined
    /\ BlockIsTip
    /\ VInv(instantsend, Buried)
    /\ CastOnce
    /\ ToldAreLocked
    /\ ToldAgree

SInv == Shallow => Settled

-----------------------------------------------------------------------------
(* What is buried.                                                         *)

LEMMA BuriedAreMined == Buried \subseteq mined
BY DEF Buried, mined

LEMMA BuriedStays ==
    ASSUME chain' = chain, undone' = undone
    PROVE  Buried' = Buried /\ mined' = mined /\ Height' = Height
BY DEF Buried, mined, Height

LEMMA BuriedGrows ==
    ASSUME Types, NEW S \in SUBSET Txs, chain' = Append(chain, S), undone' = undone
    PROVE  /\ Buried \subseteq Buried' /\ Height' = Height + 1
           /\ \A t, i : i \in 1..Len(chain) /\ t \in chain[i]
                        => i \in 1..Len(chain') /\ t \in chain'[i]
           /\ chain' # <<>> /\ chain'[Len(chain')] = S
<1>1. /\ chain \in Seq(SUBSET Txs) /\ undone \in Nat /\ KeepLock \in Nat /\ BaseHeight \in Nat
      /\ Len(chain) \in Nat
    BY ConstantsAssumption, SMT DEF Types
<1>2. /\ Len(chain') = Len(chain) + 1 /\ chain' # <<>>
      /\ \A i \in 1..Len(chain) : chain'[i] = chain[i]
      /\ chain'[Len(chain')] = S
    BY <1>1, SMT
<1>3. \A i \in 1..Len(chain) : i \in 1..Len(chain')
    BY <1>1, <1>2, SMT
<1>4. Height' = Height + 1
    BY <1>1, <1>2, SMT DEF Height
<1>5. ASSUME NEW g \in Buried
      PROVE  g \in Buried'
    <2>1. PICK i \in 1..Len(chain) : g \in chain[i] /\ i + KeepLock < Len(chain) + undone
        BY DEF Buried
    <2>2. i \in 1..Len(chain') /\ g \in chain'[i] /\ i + KeepLock < Len(chain') + undone'
        BY <1>1, <1>2, <1>3, <2>1, SMT
    <2> QED  BY <2>2 DEF Buried
<1> QED  BY <1>2, <1>3, <1>4, <1>5

LEMMA BuriedSurvives ==
    ASSUME Types, Len(chain') = Len(chain) - 1,
           \A i \in 1..(Len(chain) - 1) : chain'[i] = chain[i],
           undone' = undone + 1, Shallow'
    PROVE  /\ Buried \subseteq Buried' /\ Height' + undone' = Height + undone
           /\ \A t, i : i \in 1..Len(chain) /\ t \in chain[i] /\ t \notin chain[Len(chain)]
                        => i \in 1..Len(chain') /\ t \in chain'[i]
<1>1. /\ chain \in Seq(SUBSET Txs) /\ undone \in Nat /\ KeepLock \in Nat /\ BaseHeight \in Nat
      /\ Len(chain) \in Nat
    BY ConstantsAssumption, SMT DEF Types
<1>3. Height' + undone' = Height + undone
    BY <1>1, SMT DEF Height
<1>4. ASSUME NEW i \in 1..Len(chain), i # Len(chain)
      PROVE  i \in 1..Len(chain') /\ chain'[i] = chain[i]
    BY <1>1, <1>4, SMT
<1>5. ASSUME NEW g \in Buried
      PROVE  g \in Buried'
    <2>1. PICK i \in 1..Len(chain) : g \in chain[i] /\ i + KeepLock < Len(chain) + undone
        BY DEF Buried
    <2>2. i # Len(chain)
        BY <1>1, <2>1, SMT DEF Shallow
    <2>3. i + KeepLock < Len(chain') + undone'
        BY <1>1, <2>1, SMT
    <2> QED  BY <1>4, <2>1, <2>2, <2>3 DEF Buried
<1> QED  BY <1>3, <1>4, <1>5

\* More transactions buried are more excuses.
LEMMA MoreBuried ==
    ASSUME NEW B, NEW C, B \subseteq C, NEW s
    PROVE  /\ VInv(s, B) => VInv(s, C)
           /\ \A o : Free(s, B, o) => Free(s, C, o)
<1>1. Excused(s, B) \subseteq Excused(s, C)
    BY DEF Excused
<1>2. \A o : Free(s, B, o) => Free(s, C, o)
    BY <1>1 DEF Free
<1>3. HeightsAreSound(s, B) => HeightsAreSound(s, C)
    BY DEF HeightsAreSound
<1>4. CountedAreRecorded(s, B) => CountedAreRecorded(s, C)
    BY <1>2 DEF CountedAreRecorded
<1>5. DoublesAreSpoilt(s, B) => DoublesAreSpoilt(s, C)
    BY <1>2 DEF DoublesAreSpoilt
<1>6. HeldWhole(s, B) => HeldWhole(s, C)
    BY <1>1 DEF HeldWhole
<1> QED  BY <1>2, <1>3, <1>4, <1>5, <1>6 DEF VInv

LEMMA VInvCarries ==
    ASSUME NEW B, VInv(instantsend', B), B \subseteq Buried'
    PROVE  VInv(instantsend, Buried)'
<1>1. VInv(instantsend', Buried')
    BY MoreBuried
<1>2. HeightsAreSound(instantsend, Buried)'
    BY <1>1 DEF VInv, HeightsAreSound, Expired
<1>3. CountedAreRecorded(instantsend, Buried)'
    BY <1>1 DEF VInv, CountedAreRecorded, Free, Excused
<1>4. DoublesAreSpoilt(instantsend, Buried)'
    BY <1>1, ZenonT(30) DEF VInv, DoublesAreSpoilt, Free, Excused
<1>5. HeldWhole(instantsend, Buried)'
    BY <1>1 DEF VInv, HeldWhole, Excused
<1> QED  BY <1>2, <1>3, <1>4, <1>5 DEF VInv

-----------------------------------------------------------------------------
(* What each conjunct needs of a step.                                     *)

LEMMA HeightsStay ==
    ASSUME HeightsAreMined, VStep(instantsend, instantsend', Buried),
           chain' = chain, undone' = undone
    PROVE  HeightsAreMined'
<1>1. /\ instantsend'.cached = instantsend.cached
      /\ \A t \in Txs : instantsend'.candHeight[t] \in {instantsend.candHeight[t], -1}
    BY DEF VStep
<1> QED  BY <1>1 DEF HeightsAreMined, Height

LEMMA FreeCarries ==
    ASSUME Buried \subseteq Buried', NEW o
    PROVE  Free(instantsend', Buried, o) => Free(instantsend, Buried, o)'
BY DEF Free, Excused

LEMMA CastStays ==
    ASSUME CastOnce, cast' = cast, restarts' = restarts, Buried \subseteq Buried',
           heard' \subseteq PeerVotes \cup cast,
           Excused(instantsend, Buried) \subseteq Excused(instantsend', Buried),
           \A v \in instantsend.counted : v \in instantsend'.counted
                                          \/ Free(instantsend', Buried, v.out)
    PROVE  CastOnce'
<1>1. \A o : Free(instantsend, Buried, o) => Free(instantsend', Buried, o)
    BY FreeGrows, ZenonT(30)
<1>2. \A o : Free(instantsend', Buried, o) => Free(instantsend, Buried, o)'
    BY FreeCarries, ZenonT(30)
<1>3. \A o : Free(instantsend, Buried, o) => Free(instantsend, Buried, o)'
    BY <1>1, <1>2
<1>4. ASSUME restarts' = 0, NEW v \in cast
      PROVE  v \in instantsend'.counted \/ Free(instantsend, Buried, v.out)'
    <2>1. v \in instantsend.counted \/ Free(instantsend, Buried, v.out)
        BY <1>4 DEF CastOnce
    <2> QED  BY <1>2, <1>3, <2>1
<1>5. ASSUME restarts' = 0, NEW v \in cast, NEW w \in cast, v.out = w.out, v.tx # w.tx
      PROVE  ~QuorumsIntersect /\ Free(instantsend, Buried, v.out)'
    BY <1>3, <1>5 DEF CastOnce
<1>6. (\A v \in cast : v.mn = Self)' /\ (heard \subseteq PeerVotes \cup cast)'
    BY DEF CastOnce
<1> QED  BY <1>4, <1>5, <1>6, ZenonT(30) DEF CastOnce

\* A lock is announced as it completes, and given up only for a buried
\* transaction that spends the same outpoint: itself.
LEMMA ToldStay ==
    ASSUME IInv, IInv', ToldAreLocked, ToldAgree,
           Buried \subseteq Buried', restarts' = restarts,
           QuorumsIntersect =>
             \A o \in Outpoints :
                \/ instantsend.locked[o] = NoTx
                \/ instantsend'.locked[o] = instantsend.locked[o]
                \/ \E g \in Buried : o \in Inputs(g),
           \A t \in told' : t \in told \/ IsLockedInstantSendTransaction(instantsend', t)
    PROVE  ToldAreLocked' /\ ToldAgree'
<1> SUFFICES ASSUME ~OtherThreads, restarts' = 0, QuorumsIntersect
             PROVE  /\ \A t \in told' : \/ IsLockedInstantSendTransaction(instantsend', t)
                                        \/ t \in Buried'
                    /\ \A t, u \in told' : ~Conflict(t, u)
    BY DEF ToldAreLocked, ToldAgree, NeverAnnouncesConflictingLocks,
           IsLockedInstantSendTransaction
<1>1. NoBlockConflictsWithLock /\ NoBlockConflictsWithLock' /\ told' \subseteq Txs /\ told \subseteq Txs
    BY ZenonT(30) DEF IInv, FilterStillHolds, Types
<1>2. Buried \subseteq mined /\ Buried' \subseteq mined'
    BY BuriedAreMined, ZenonT(30) DEF Buried, mined
<1>3. ASSUME NEW t \in told'
      PROVE  IsLockedInstantSendTransaction(instantsend', t) \/ t \in Buried'
    <2>1. CASE t \notin told
        BY <2>1
    <2>2. CASE t \in told /\ t \in Buried
        BY <2>2
    <2>3. CASE t \in told /\ t \notin Buried
        <3>1. \A o \in Inputs(t) : instantsend.locked[o] = t
            BY <2>3 DEF ToldAreLocked, IsLockedInstantSendTransaction
        <3>2. t \in Txs /\ Inputs(t) \subseteq Outpoints /\ Inputs(t) # {} /\ t # NoTx
            BY <1>1, InputsType, ConstantsAssumption, ZenonT(30)
        <3>3. ASSUME NEW o \in Inputs(t)
              PROVE  instantsend'.locked[o] = t
            <4>1. ASSUME NEW g \in Buried, o \in Inputs(g)
                  PROVE  FALSE
                BY <1>1, <1>2, <2>3, <3>1, <3>2, <4>1, SMT DEF NoBlockConflictsWithLock, LockedByOther
            <4> QED  BY <3>1, <3>2, <4>1
        <3>4. t \in instantsend'.outlocks
            <4>1. LocksAreBacked(instantsend)'
                BY DEF IInv, RInv
            <4> QED  BY <3>2, <3>3, <4>1 DEF LocksAreBacked, Backed
        <3> QED  BY <3>3, <3>4 DEF IsLockedInstantSendTransaction
    <2> QED  BY <2>1, <2>2, <2>3
<1>4. ASSUME NEW t \in told', NEW u \in told', Conflict(t, u), t \notin told
      PROVE  FALSE
    <2>1. PICK o \in Inputs(t) \cap Inputs(u) : t # u
        BY <1>4 DEF Conflict
    <2>2. instantsend'.locked[o] = t /\ t \in Txs /\ t # NoTx
        BY <1>1, <1>4, ConstantsAssumption, SMT DEF IsLockedInstantSendTransaction
    <2>3. CASE IsLockedInstantSendTransaction(instantsend', u)
        BY <2>1, <2>2, <2>3, ZenonT(30) DEF IsLockedInstantSendTransaction
    <2>4. CASE u \in Buried'
        BY <1>1, <1>2, <2>1, <2>2, <2>4, ZenonT(30) DEF NoBlockConflictsWithLock, LockedByOther
    <2> QED  BY <1>3, <2>3, <2>4
<1>5. \A t, u \in told' : ~Conflict(t, u)
    <2>1. \A t, u \in told : ~Conflict(t, u)
        BY DEF ToldAgree, NeverAnnouncesConflictingLocks
    <2>2. \A t, u : Conflict(t, u) => Conflict(u, t)
        BY DEF Conflict
    <2> QED  BY <1>4, <2>1, <2>2, ZenonT(30)
<1> QED  BY <1>3, <1>5

\* Where quorums intersect, a step gives up a lock only on an outpoint that an
\* expired candidate spends.
KeepsLocks ==
    QuorumsIntersect =>
      \A o \in Outpoints :
         \/ instantsend.locked[o] = NoTx
         \/ instantsend'.locked[o] = instantsend.locked[o]
         \/ \E g \in instantsend.cands :
               Expired(instantsend, instantsend.candHeight[g]) /\ o \in Inputs(g)

\* A step within the block chain as it is.
LEMMA SettledStays ==
    ASSUME IInv, IInv', Settled, chain' = chain, undone' = undone, restarts' = restarts,
           VInv(instantsend', Buried), VStep(instantsend, instantsend', Buried),
           \/ blk' = blk
           \/ blk'.stage # "connected",
           CastOnce', Become(instantsend')
    PROVE  Settled' /\ KeepsLocks
<1>1. Buried' = Buried
    BY BuriedStays
<1>2. HeightsAreMined'
    BY HeightsStay DEF Settled
<1>3. BlockIsTip'
    BY DEF Settled, BlockIsTip
<1>4. VInv(instantsend, Buried)'
    BY <1>1, VInvCarries
<1>5. ToldAreLocked' /\ ToldAgree'
    <2>1. \A g \in instantsend.cands : Expired(instantsend, instantsend.candHeight[g]) => g \in Buried
        BY ZenonT(30) DEF Settled, VInv, HeightsAreSound
    <2>2. QuorumsIntersect =>
             \A o \in Outpoints :
                \/ instantsend.locked[o] = NoTx
                \/ instantsend'.locked[o] = instantsend.locked[o]
                \/ \E g \in Buried : o \in Inputs(g)
        BY <2>1 DEF VStep
    <2>3. \A t \in told' : t \in told \/ IsLockedInstantSendTransaction(instantsend', t)
        BY DEF Become
    <2> QED  BY <1>1, <2>2, <2>3, ToldStay DEF Settled
<1>6. KeepsLocks
    BY DEF VStep, KeepsLocks
<1> QED  BY <1>2, <1>3, <1>4, <1>5, <1>6 DEF Settled

LEMMA QuietStep ==
    ASSUME IInv, IInv', Settled, chain' = chain, undone' = undone, restarts' = restarts,
           VInv(instantsend', Buried), VStep(instantsend, instantsend', Buried),
           \/ blk' = blk
           \/ blk'.stage # "connected",
           cast' = cast, heard' \subseteq PeerVotes \cup cast, Become(instantsend')
    PROVE  Settled' /\ KeepsLocks
<1>1. CastOnce'
    BY BuriedStays, CastStays, ZenonT(30) DEF Settled, VStep
<1> QED  BY <1>1, SettledStays

-----------------------------------------------------------------------------
(* Every action keeps it.                                                  *)

LEMMA RecordFacts ==
    ASSUME IInv, Settled
    PROVE  /\ RInv(instantsend, heard) /\ instantsend \in Records /\ now \in Int
           /\ VInv(instantsend, Buried) /\ Buried \subseteq mined
           /\ heard \subseteq PeerVotes \cup cast
           /\ VStep(instantsend, instantsend, Buried)
BY BuriedAreMined, SMT DEF IInv, RInv, Types, Settled, CastOnce, VStep

\* SyncTransaction with height -1, as for a transaction that is in no block.
LEMMA UnsyncVotes ==
    ASSUME NEW B, NEW s \in Records, VInv(s, B), NEW T \in SUBSET Txs, now \in Int
    PROVE  LET r == SyncTransactions(s, T, -1)
           IN  /\ r \in Records /\ VInv(r, B) /\ VStep(s, r, B)
               /\ \A t \in T : r.candHeight[t] = -1
<1> DEFINE r == SyncTransactions(s, T, -1)
<1>1. /\ r \in Records /\ Same(s, r) /\ r.rejected = s.rejected
      /\ r.candHeight = Clear(s.candHeight, T \cap s.cands, -1)
    <2>1. -1 \in Int
        BY SMT
    <2> QED  BY <2>1, SyncFields
<1> HIDE DEF r
<1>2. \A t \in Txs : r.candHeight[t] = IF t \in T \cap s.cands THEN -1 ELSE s.candHeight[t]
    <2>1. DOMAIN s.candHeight = Txs
        BY DEF Records
    <2> QED  BY <1>1, <2>1, ZenonT(30) DEF Clear
<1>3. VInv(r, B) /\ VStep(s, r, B)
    BY <1>1, <1>2, SameVotes, ZenonT(30)
<1>4. \A t \in T : r.candHeight[t] = -1
    BY <1>2 DEF VInv, HeightsAreSound
<1> QED  BY <1>1, <1>3, <1>4 DEF r

LEMMA RecvLockRequestSettles ==
    ASSUME IInv, IInv', Settled, NEW t \in Txs, RecvLockRequest(t)
    PROVE  Settled' /\ KeepsLocks
<1>1. VInv(instantsend', Buried) /\ VStep(instantsend, instantsend', Buried)
    BY RecordFacts, RequestVotes, ZenonT(30) DEF RecvLockRequest, Become
<1>2. /\ chain' = chain /\ undone' = undone /\ restarts' = restarts /\ blk' = blk
      /\ cast' = cast /\ heard' = heard /\ Become(instantsend')
    BY DEF RecvLockRequest, env, Become
<1> QED  BY <1>1, <1>2, RecordFacts, QuietStep, ZenonT(30)

LEMMA RelayWalletTransactionSettles ==
    ASSUME IInv, IInv', Settled, NEW t \in Txs, RelayWalletTransaction(t)
    PROVE  Settled' /\ KeepsLocks
<1>1. VInv(instantsend', Buried) /\ VStep(instantsend, instantsend', Buried)
    BY RecordFacts, RequestVotes DEF RelayWalletTransaction, Become
<1>2. /\ chain' = chain /\ undone' = undone /\ restarts' = restarts /\ blk' = blk
      /\ cast' = cast /\ heard' = heard /\ Become(instantsend')
    BY DEF RelayWalletTransaction, env, Become
<1> QED  BY <1>1, <1>2, RecordFacts, QuietStep

LEMMA RejectLockRequestSettles ==
    ASSUME IInv, IInv', Settled, RejectLockRequest
    PROVE  Settled' /\ KeepsLocks
<1> DEFINE s == [instantsend EXCEPT !.rejected = @ \cup {handling}]
<1>1. instantsend \in Records /\ instantsend.rejected \cup {handling} \in SUBSET Txs
    BY RecordFacts DEF IInv, Types, RejectLockRequest, Records
<1>2. /\ s \in Records /\ Same(instantsend, s) /\ s.candHeight = instantsend.candHeight
      /\ s.rejected = instantsend.rejected \cup {handling}
    BY <1>1, WriteFields
<1> HIDE DEF s
<1>3. VInv(s, Buried) /\ VStep(instantsend, s, Buried)
    BY <1>1, <1>2, RecordFacts, SameVotes
<1>4. /\ instantsend' \in {instantsend, s} /\ Become(instantsend')
      /\ chain' = chain /\ undone' = undone /\ restarts' = restarts /\ blk' = blk
      /\ cast' = cast /\ heard' = heard
    BY DEF RejectLockRequest, Become, env, s
<1> QED  BY <1>3, <1>4, RecordFacts, QuietStep

LEMMA RecvTxSettles ==
    ASSUME IInv, IInv', Settled, NEW t \in Txs, RecvTx(t)
    PROVE  Settled' /\ KeepsLocks
<1>1. VInv(instantsend', Buried) /\ VStep(instantsend, instantsend', Buried)
    BY RecordFacts, UnsyncVotes, ZenonT(30) DEF RecvTx, Become, Admitted
<1>2. /\ chain' = chain /\ undone' = undone /\ restarts' = restarts /\ blk' = blk
      /\ cast' = cast /\ heard' = heard /\ Become(instantsend')
    BY DEF RecvTx, env, Become
<1> QED  BY <1>1, <1>2, RecordFacts, QuietStep

LEMMA SendLockRequestSettles ==
    ASSUME IInv, IInv', Settled, NEW t \in Txs, SendLockRequest(t)
    PROVE  Settled' /\ KeepsLocks
<1> DEFINE s == ProcessTxLockRequest(instantsend, t)
<1>1. VInv(s, Buried) /\ VStep(instantsend, s, Buried)
    BY RecordFacts, RequestVotes
<1>2. RInv(s, heard)
    BY RecordFacts, RequestKeeps
<1>3. s \in Records /\ {t} \in SUBSET Txs /\ now \in Int
    BY <1>2, RecordFacts DEF RInv
<1>4. /\ instantsend' \in {s, Admitted(s, t)} /\ Become(instantsend')
      /\ chain' = chain /\ undone' = undone /\ restarts' = restarts /\ blk' = blk
      /\ cast' = cast /\ heard' = heard
    BY DEF SendLockRequest, Become, env
<1> HIDE DEF s
<1>5. VInv(Admitted(s, t), Buried) /\ VStep(s, Admitted(s, t), Buried)
    BY <1>1, <1>3, UnsyncVotes DEF Admitted
<1>6. VStep(instantsend, Admitted(s, t), Buried)
    <2>1. instantsend.cands \subseteq Txs /\ s.cands \subseteq Txs
        BY <1>3, RecordFacts DEF Records
    <2> QED  BY <1>1, <1>5, <2>1, VStepTrans, RecordFacts, ZenonT(30) DEF VInv
<1> QED  BY <1>1, <1>4, <1>5, <1>6, RecordFacts, QuietStep

LEMMA RecvVoteSettles ==
    ASSUME IInv, IInv', Settled, NEW v \in PeerVotes \cup cast, RecvVote(v)
    PROVE  Settled' /\ KeepsLocks
<1>1. v \in Votes
    BY PeerVotesType DEF IInv, Types
<1>2. VInv(instantsend', Buried) /\ VStep(instantsend, instantsend', Buried)
    BY <1>1, RecordFacts, VoteMessageVotes, ZenonT(30) DEF RecvVote, Become
<1>3. /\ chain' = chain /\ undone' = undone /\ restarts' = restarts /\ blk' = blk
      /\ cast' = cast /\ heard' \subseteq heard \cup {v} /\ Become(instantsend')
    BY DEF RecvVote, env, Become
<1>4. heard' \subseteq PeerVotes \cup cast
    BY <1>3, RecordFacts
<1> QED  BY <1>2, <1>3, <1>4, QuietStep

LEMMA CleanUpSettles ==
    ASSUME IInv, IInv', Settled, CleanUp
    PROVE  Settled' /\ KeepsLocks
<1>1. VInv(instantsend', Buried) /\ VStep(instantsend, instantsend', Buried)
    BY RecordFacts, RemoveVotes DEF CleanUp, Become
<1>2. /\ chain' = chain /\ undone' = undone /\ restarts' = restarts /\ blk' = blk
      /\ cast' = cast /\ heard' = heard /\ Become(instantsend')
    BY DEF CleanUp, env, Become
<1> QED  BY <1>1, <1>2, RecordFacts, QuietStep

\* The steps that do not touch the maps, nor the chain.
LEMMA OtherSettles ==
    ASSUME IInv, IInv', Settled,
           \/ \E t \in Txs : Evict(t)
           \/ \E S \in SUBSET Txs : AcceptBlock(S)
           \/ Tick
           \/ UNCHANGED vars
    PROVE  Settled' /\ KeepsLocks
<1>1. /\ instantsend' = instantsend /\ chain' = chain /\ undone' = undone
      /\ restarts' = restarts /\ cast' = cast /\ heard' = heard /\ told' = told
    BY ZenonT(30) DEF Evict, AcceptBlock, Tick, vars, env
<1>2. blk' = blk \/ blk'.stage # "connected"
    BY SMT DEF Evict, AcceptBlock, Tick, vars
<1>3. Become(instantsend')
    BY <1>1 DEF Become
<1> QED  BY <1>1, <1>2, <1>3, RecordFacts, QuietStep

LEMMA AcceptLockRequestSettles ==
    ASSUME IInv, IInv', Settled, AcceptLockRequest
    PROVE  Settled' /\ KeepsLocks
<1> DEFINE t == handling
           s == [Admitted(instantsend, t) EXCEPT !.accepted = @ \cup {t}]
<1>1. t \in Txs /\ now \in Int /\ instantsend \in Records
    BY RecordFacts DEF IInv, Types, AcceptLockRequest
<1>2. /\ s \in Records /\ Same(instantsend, s) /\ s.rejected = instantsend.rejected
      /\ s.candHeight = Clear(instantsend.candHeight, {t} \cap instantsend.cands, -1)
    BY <1>1, AdmittedFields
<1>2a. PICK D \in SUBSET Dangling(s, t) :
          LET V == OwnVotes(s, t, D) \ s.counted
          IN  Become(Vote(s, t, D)) /\ cast' = cast \cup V /\ heard' = heard \cup V
    BY DEF AcceptLockRequest
<1> DEFINE V == OwnVotes(s, t, D) \ s.counted
<1>3. /\ instantsend' = Vote(s, t, D) /\ heard' = heard \cup V /\ cast' = cast \cup V
      /\ chain' = chain /\ blk' = blk /\ undone' = undone /\ restarts' = restarts
      /\ AllUnspent(t) /\ Become(instantsend')
    BY <1>2a DEF AcceptLockRequest, Become, Admissible, env
<1> HIDE DEF s
<1>4. RInv(s, heard)
    BY <1>2, RecordFacts, SameKeeps, ZenonT(30)
<1>5. VInv(s, Buried) /\ VStep(instantsend, s, Buried)
    <2>1. DOMAIN instantsend.candHeight = Txs
        BY <1>1 DEF Records
    <2>2. \A u \in Txs : s.candHeight[u] \in {instantsend.candHeight[u], -1}
        BY <1>2, <2>1 DEF Clear
    <2> QED  BY <1>1, <1>2, <2>2, RecordFacts, SameVotes
<1>6. /\ VInv(instantsend', Buried) /\ VStep(s, instantsend', Buried)
      /\ \A v \in V : v \in instantsend'.counted \/ Free(instantsend', Buried, v.out)
    BY <1>1, <1>3, <1>4, <1>5, RecordFacts, VoteVotes
<1>7. VStep(instantsend, instantsend', Buried)
    <2>1. instantsend.cands \subseteq Txs /\ s.cands \subseteq Txs
        BY <1>1, <1>2 DEF Records
    <2> QED  BY <1>5, <1>6, <2>1, VStepTrans, RecordFacts, ZenonT(30) DEF VInv
<1>8. \A v \in V : v.tx = t /\ v.mn = Self /\ v.out \in Inputs(t)
    BY <1>1, <1>2, OwnVotesType, SMT
<1>9. ASSUME restarts = 0, NEW v \in V, NEW w \in cast, w.out = v.out, w.tx # t
      PROVE  ~QuorumsIntersect /\ Free(s, Buried, v.out)
    <2>1. w.mn = Self /\ (w \in instantsend.counted \/ Free(instantsend, Buried, w.out))
        BY <1>9, ZenonT(30) DEF Settled, CastOnce
    <2>2. w \in s.counted \/ Free(s, Buried, v.out)
        BY <1>5, <1>9, <2>1, FreeGrows, ZenonT(30) DEF VStep
    <2>3. CASE w \in s.counted
        BY <1>1, <1>2, <1>5, <1>9, <2>1, <2>3, RecordFacts, OwnVotesFresh
    <2>4. CASE Free(s, Buried, v.out)
        <3>1. Unspent(v.out)
            BY <1>3, <1>8 DEF AllUnspent
        <3> QED  BY <2>4, <3>1, RecordFacts, UnspentFree
    <2> QED  BY <2>2, <2>3, <2>4
<1>10. Buried \subseteq Buried'
    BY <1>3, BuriedStays
<1> HIDE DEF V, t
<1>11. \A o : /\ Free(instantsend, Buried, o) => Free(instantsend, Buried, o)'
              /\ Free(s, Buried, o) => Free(instantsend, Buried, o)'
              /\ Free(instantsend', Buried, o) => Free(instantsend, Buried, o)'
    <2>1. \A o : Free(instantsend', Buried, o) => Free(instantsend, Buried, o)'
        BY <1>10, FreeCarries
    <2> QED  BY <1>6, <1>7, <2>1, FreeGrows, ZenonT(30) DEF VStep
<1>12. CastOnce'
    <2>1. \A v \in cast \cup V : v.mn = Self
        BY <1>8 DEF Settled, CastOnce
    <2>2. heard' \subseteq PeerVotes \cup cast'
        BY <1>3, RecordFacts
    <2>3. ASSUME restarts = 0, NEW v \in cast \cup V
          PROVE  v \in instantsend'.counted \/ Free(instantsend, Buried, v.out)'
        <3>1. CASE v \in V
            BY <1>6, <1>11, <3>1, ZenonT(30)
        <3>2. CASE v \in cast
            <4>1. v \in instantsend.counted \/ Free(instantsend, Buried, v.out)
                BY <2>3, <3>2 DEF Settled, CastOnce
            <4> QED  BY <1>7, <1>11, <4>1, ZenonT(30) DEF VStep
        <3> QED  BY <3>1, <3>2
    <2>4. ASSUME restarts = 0, NEW v \in cast \cup V, NEW w \in cast \cup V,
                 v.out = w.out, v.tx # w.tx
          PROVE  ~QuorumsIntersect /\ Free(instantsend, Buried, v.out)'
        <3>1. CASE v \in cast /\ w \in cast
            BY <1>11, <2>4, <3>1, ZenonT(30) DEF Settled, CastOnce
        <3>2. CASE v \in V /\ w \in cast
            BY <1>8, <1>9, <1>11, <2>4, <3>2
        <3>3. CASE v \in cast /\ w \in V
            BY <1>8, <1>9, <1>11, <2>4, <3>3
        <3> QED  BY <1>8, <2>4, <3>1, <3>2, <3>3
    <2> QED  BY <1>3, <2>1, <2>2, <2>3, <2>4 DEF CastOnce
<1> QED  BY <1>3, <1>6, <1>7, <1>12, SettledStays
=============================================================================

----------------------------- MODULE InstantSend -----------------------------
(***************************************************************************)
(* One node's InstantSend state machine: class CInstantSend of             *)
(* src/src/instantx.cpp, with the callers that drive it - the txlreg and   *)
(* tx handlers of net_processing.cpp, sendrawtransaction and the wallet,   *)
(* the mempool admission and block acceptance of validation.cpp, and the   *)
(* clean-up thread.                                                        *)
(*                                                                         *)
(* The maps of CInstantSend are the fields of one record, instantsend, so  *)
(* that an action can be the composition of the calls its handler makes:   *)
(* every procedure is an operator from a record to a record.  cs_main or   *)
(* cs_instantsend is held for the whole of each action.                    *)
(*                                                                         *)
(* The node is synced, sporks 2 and 3 are on, and the masternode list is   *)
(* fixed: Quorum[o] is the set of masternodes whose rank for o is at most  *)
(* SIGNATURES_TOTAL (a PoSe ban does not change a rank).  Signatures       *)
(* are unforgeable: PeerVotes holds the votes that the other masternodes   *)
(* have signed.  Transactions spend only confirmed outputs older than the  *)
(* required age and pay enough fees.                                       *)
(***************************************************************************)
EXTENDS Integers, Sequences, FiniteSets

CONSTANTS
    Txs,              \* transactions that are sent as lock requests
    Outpoints,
    vin,              \* vin[t]: the sequence of outpoints t spends
    Masternodes,
    Quorum,           \* Quorum[o]: the masternodes that may vote on o
    PeerVotes,        \* votes signed by other masternodes
    Self,             \* activeMasternode.outpoint, or NoMasternode
    NoTx,
    SIGNATURES_REQUIRED,
    LockTimeout,      \* INSTANTSEND_LOCK_TIMEOUT_SECONDS
    FailedTimeout,    \* INSTANTSEND_FAILED_TIMEOUT_SECONDS
    KeepLock,         \* nInstantSendKeepLock
    BaseHeight,       \* height of the chain at start
    RareEvents,       \* bound: the combinations <<evictions, undone, restarts, now>>
                      \* of rare events that may come together
    MaxBlocks,        \* bound on the blocks connected
    OtherThreads      \* do RPC, miner and wallet threads run between the critical
                      \* sections of ProcessNewBlock?

Inputs(t) == {vin[t][i] : i \in 1..Len(vin[t])}

\* The votes there can be: the peers', and this node's own, which are for
\* outpoints that the transaction spends.  Nobody checks that of a peer's vote.
Votes == {v \in [tx : Txs, out : Outpoints, mn : Masternodes] :
            (v.mn = Self /\ v.out \in Inputs(v.tx)) \/ v \in PeerVotes}

ASSUME ConstantsAssumption ==
    /\ NoTx \notin Txs
    /\ IsFiniteSet(Masternodes)
    /\ vin \in [Txs -> Seq(Outpoints)]
    /\ \A t \in Txs : Len(vin[t]) > 0
    /\ Quorum \in [Outpoints -> SUBSET Masternodes]
    /\ PeerVotes \subseteq [tx : Txs, out : Outpoints, mn : Masternodes \ {Self}]
    /\ SIGNATURES_REQUIRED \in Nat \ {0}
    /\ LockTimeout \in Nat /\ FailedTimeout \in Nat /\ KeepLock \in Nat
    /\ LockTimeout < FailedTimeout
    /\ BaseHeight \in Nat
    /\ RareEvents \subseteq Nat \X Nat \X Nat \X Nat
    /\ MaxBlocks \in Nat
    /\ OtherThreads \in BOOLEAN

\* The node starts on a chain long enough for a confirmed height of 0, which
\* ResolveConflicts sets to drop a candidate, to count as expired.
ASSUME LongChain == BaseHeight > KeepLock

VARIABLES
    instantsend,      \* the CInstantSend singleton
    mempool,          \* transactions in the memory pool
    chain,            \* the blocks above BaseHeight, as sets of transactions
    blk,              \* the block that ProcessNewBlock is working on
    handling,         \* the txlreg message between its two critical sections
    now,              \* GetTime()
    evictions,        \* how many transactions the memory pool has evicted
    undone,           \* how many blocks have been disconnected
    restarts,         \* how many restarts
    heard,            \* history: valid votes this node has processed
    cast,             \* history: votes this node has signed
    told              \* history: locks announced by NotifyTransactionLock

env == <<evictions, undone, restarts, now>>
vars == <<instantsend, mempool, chain, blk, handling, env, heard, cast, told>>

mined == UNION {chain[i] : i \in 1..Len(chain)}
Height == BaseHeight + Len(chain)

\* GetUTXOCoin and GetUTXOHeight: is o unspent in the active chain?
Unspent(o) == \A t \in mined : o \notin Inputs(t)
AllUnspent(t) == \A o \in Inputs(t) : Unspent(o)

Conflict(t, u) == t # u /\ Inputs(t) \cap Inputs(u) # {}

Clear(f, S, d) == [x \in DOMAIN f |-> IF x \in S THEN d ELSE f[x]]

\* CInstantSend's maps.  A candidate with no request yet (created by an early
\* vote) is in cands but not in requested; mapOutPointLocks is either empty or
\* holds all the inputs (outlocks); counted is the union of the votes in
\* mapMasternodeVotes.
Fresh ==
    [ cands      |-> {},                            \* mapTxLockCandidates
      requested  |-> {},                            \* ... with a txLockRequest
      outlocks   |-> {},                            \* ... with mapOutPointLocks
      candTime   |-> [t \in Txs |-> 0],             \* nTimeCreated
      candHeight |-> [t \in Txs |-> -1],            \* nConfirmedHeight
      counted    |-> {},                            \* mapMasternodeVotes
      attacked   |-> {},                            \* fAttacked
      accepted   |-> {},                            \* mapLockRequestAccepted
      rejected   |-> {},                            \* mapLockRequestRejected
      votes      |-> {},                            \* mapTxLockVotes
      blank      |-> {},                            \* ... default-constructed
      voteTime   |-> [v \in Votes |-> 0],
      voteHeight |-> [v \in Votes |-> -1],
      orphans    |-> {},                            \* mapTxLockVotesOrphan
      orphanTime |-> [v \in Votes |-> 0],
      voted      |-> [o \in Outpoints |-> {}],      \* mapVotedOutpoints
      locked     |-> [o \in Outpoints |-> NoTx],    \* mapLockedOutpoints
      cached     |-> BaseHeight,                    \* nCachedBlockHeight
      banned     |-> {} ]                           \* mnodeman: full nPoSeBanScore

NoBlock == [stage |-> "none", txs |-> {}, dropped |-> {}]

-----------------------------------------------------------------------------
(* Queries.                                                                *)

TimedOut(since) == now - since > LockTimeout
Failed(since) == now - since > FailedTimeout

ExpiredUnconfirmed(s, h) == s.cached - h > KeepLock

\* CTxLockCandidate::IsExpired, CTxLockVote::IsExpired.
Expired(s, h) == h # -1 /\ s.cached - h > KeepLock

\* CTxLockRequest::IsValid.
IsValid(t) == AllUnspent(t)

VotesFor(S, t, o) == {v \in S : v.tx = t /\ v.out = o}

ReadyOneShort(s, t, o) ==
    /\ <<t, o>> \notin s.attacked
    /\ Cardinality(VotesFor(s.counted, t, o)) >= SIGNATURES_REQUIRED - 1

\* COutPointLock::IsReady.
IsReady(s, t, o) ==
    /\ <<t, o>> \notin s.attacked
    /\ Cardinality(VotesFor(s.counted, t, o)) >= SIGNATURES_REQUIRED

IsAllOutPointsReady(s, t) ==
    t \in s.outlocks /\ \A o \in Inputs(t) : IsReady(s, t, o)

IsLockedInstantSendTransaction(s, t) ==
    t \in s.outlocks /\ \A o \in Inputs(t) : s.locked[o] = t

\* HasMasternodeVoted.
HasVoted(s, t, o, mn) == [tx |-> t, out |-> o, mn |-> mn] \in s.counted

AlreadyHave(s, t) == t \in s.accepted \cup s.rejected

\* CTxLockVote::IsValid: the outpoint is unspent and the masternode ranks.
VoteIsValid(v) == Unspent(v.out) /\ v.mn \in Quorum[v.out]

IsEnoughOrphanVotesForTx(s, t) ==
    \A o \in Inputs(t) :
        Cardinality(VotesFor(s.orphans, t, o)) >= SIGNATURES_REQUIRED

-----------------------------------------------------------------------------
(* Procedures of CInstantSend: from the record before to the record after. *)

ForgetLocksOnly(s, outs) == [s EXCEPT !.locked = Clear(@, outs, NoTx)]

\* The outpoints of an expired candidate are free again, whoever holds them.
ForgetOutpoints(s, outs) ==
    [s EXCEPT !.locked = Clear(@, outs, NoTx), !.voted = Clear(@, outs, {})]

FailedByAge(s, v, cleaned) == Failed(s.voteTime[v])

\* CTxLockVote::IsFailed, asked after the candidates were cleaned.
IsFailed(s, v, cleaned) ==
    /\ Failed(s.voteTime[v])
    /\ v \in s.blank \/ ~IsLockedInstantSendTransaction(cleaned, v.tx)

\* Remove what is confirmed KeepLock blocks ago, orphan votes past the lock
\* timeout, and votes for failed lock attempts.  A candidate without a request
\* does not know its own hash, so its accepted and rejected entries stay.
CheckAndRemove(s) ==
    LET gone  == {t \in s.cands : Expired(s, s.candHeight[t])}
        named == gone \cap s.requested
        outs  == UNION {Inputs(t) : t \in gone \cap s.outlocks}
        s1    == [ForgetOutpoints(s, outs) EXCEPT
                    !.cands      = @ \ gone,
                    !.requested  = @ \ gone,
                    !.outlocks   = @ \ gone,
                    !.candTime   = Clear(@, gone, 0),
                    !.candHeight = Clear(@, gone, -1),
                    !.counted    = {v \in @ : v.tx \notin gone},
                    !.attacked   = {a \in @ : a[1] \notin gone},
                    !.accepted   = @ \ named,
                    !.rejected   = @ \ named]
        late  == {v \in s.orphans : TimedOut(s.orphanTime[v])}
        dead  == late \cup
                 {v \in s.votes :
                    Expired(s, s.voteHeight[v]) \/ IsFailed(s, v, s1)}
    IN  [s1 EXCEPT
           !.votes      = @ \ dead,
           !.blank      = @ \ dead,
           !.voteTime   = Clear(@, dead, 0),
           !.voteHeight = Clear(@, dead, -1),
           !.orphans    = @ \ late,
           !.orphanTime = Clear(@, late, 0)]

NeverLockedByOther(s, t, o) == FALSE

LockedByOther(s, t, o) == s.locked[o] \notin {NoTx, t}
NeverSpentInMempool(t, o) == FALSE

SpentInMempool(t, o) == \E u \in mempool \ {t} : o \in Inputs(u)

\* ResolveConflicts' first loop stops at the first input that another lock or a
\* transaction in the memory pool holds, if there is one.
Conflicts(s, t) ==
    {i \in 1..Len(vin[t]) : LockedByOther(s, t, vin[t][i]) \/ SpentInMempool(t, vin[t][i])}

FirstConflict(s, t) ==
    {vin[t][i] : i \in {j \in Conflicts(s, t) : \A k \in Conflicts(s, t) : j <= k}}

\* Two completed locks on one outpoint: expire both, remember both as rejected.
DropBoth(s, t, u) ==
    LET s1 == CheckAndRemove([s EXCEPT !.candHeight = Clear(@, {t, u}, 0)])
    IN  [s1 EXCEPT !.rejected = @ \cup {t, u}]

LockTransactionInputs(s, t) ==
    [s EXCEPT !.locked =
        [o \in Outpoints |-> IF o \in Inputs(t) /\ @[o] = NoTx THEN t ELSE @[o]]]

\* TryToFinalizeLockCandidate with ResolveConflicts.
TryToFinalize(s, t) ==
    LET clash == {o \in FirstConflict(s, t) :
                    LockedByOther(s, t, o) /\ s.locked[o] \in s.cands}
    IN  IF ~IsAllOutPointsReady(s, t) \/ IsLockedInstantSendTransaction(s, t) THEN s
        ELSE IF Conflicts(s, t) = {}
             THEN IF t \in mined \/ AllUnspent(t) THEN LockTransactionInputs(s, t) ELSE s
        ELSE IF clash # {}
             THEN DropBoth(s, t, s.locked[CHOOSE o \in clash : TRUE])
        ELSE s

\* CreateTxLockCandidate.  An empty candidate that has timed out keeps the
\* request but gets no outpoint locks, and the caller sees a failure.
CreateFails(s, t) ==
    \/ ~IsValid(t)
    \/ t \in s.cands \ s.requested /\ TimedOut(s.candTime[t])

CreateForgetsRequest(s, t) ==
    IF ~IsValid(t) \/ t \in s.requested THEN s
    ELSE [s EXCEPT !.cands = @ \cup {t}, !.outlocks = @ \cup {t}]

CreateTxLockCandidate(s, t) ==
    IF ~IsValid(t) \/ t \in s.requested THEN s
    ELSE IF t \notin s.cands
         THEN [s EXCEPT !.cands = @ \cup {t}, !.requested = @ \cup {t},
                        !.outlocks = @ \cup {t}, !.candTime[t] = now]
    ELSE [s EXCEPT !.requested = @ \cup {t},
                   !.outlocks = IF TimedOut(s.candTime[t]) THEN @ ELSE @ \cup {t}]

ProcessTxLockRequest(s, t) ==
    LET s1 == CreateTxLockCandidate(s, t)
    IN  IF CreateFails(s, t) THEN s1 ELSE TryToFinalize(s1, t)

VotableAgain(s, t, D) ==
    {o \in Inputs(t) : Self \in Quorum[o] /\ ~HasVoted(s, t, o, Self)}

\* The inputs of t on which Vote() looks up a hash that is no candidate any more.
\* It dereferences end(): the process crashes, which is a Restart, or it reads
\* there that it has voted, or that it has not.
Dangling(s, t) == {o \in Inputs(t) : ~(s.voted[o] \subseteq s.cands)}

\* The inputs of t this masternode votes on in Vote(): its rank is good enough
\* and it has not voted on the outpoint for any transaction it knows of, nor
\* reads so on one of the dangling inputs D.  Vote() runs right after
\* AcceptToMemoryPool, so no input is found spent half-way.
VotableInputs(s, t, D) ==
    {o \in Inputs(t) \ D :
        /\ Self \in Quorum[o]
        /\ \A u \in s.voted[o] : ~HasVoted(s, u, o, Self)}

OwnVotes(s, t, D) ==
    IF Self \in Masternodes /\ t \in s.outlocks \cap s.accepted /\ AllUnspent(t)
    THEN {[tx |-> t, out |-> o, mn |-> Self] : o \in VotableInputs(s, t, D)}
    ELSE {}

StoreVotes(s, V) ==
    [s EXCEPT !.votes = @ \cup V,
              !.voteTime = [v \in Votes |-> IF v \in V \ s.votes THEN now ELSE @[v]]]

\* Vote(txHash), then TryToFinalizeLockCandidate.
Vote(s, t, D) ==
    LET V  == OwnVotes(s, t, D)
        s1 == [StoreVotes(s, V) EXCEPT
                 !.counted = @ \cup V,
                 !.voted   = [o \in Outpoints |->
                                IF \E v \in V \ s.counted : v.out = o
                                THEN @[o] \cup {t} ELSE @[o]]]
    IN  IF t \in s.cands THEN TryToFinalize(s1, t) ELSE s

\* An early vote: start the candidate's timeout, keep the vote as an orphan,
\* and reprocess a known request that the orphan votes alone could complete.
ProcessOrphanVote(s, v) ==
    LET t  == v.tx
        s1 == [s EXCEPT
                 !.cands = @ \cup {t},
                 !.candTime[t] = IF t \in s.cands THEN @ ELSE now,
                 !.orphans = @ \cup {v},
                 !.orphanTime[v] = now]
    IN  IF v \in s.orphans THEN s
        ELSE IF AlreadyHave(s, t) /\ IsEnoughOrphanVotesForTx(s1, t)
             THEN ProcessTxLockRequest(s1, t)
        ELSE s1

NoTwins(s, v) == {}

TwinsOfAnyone(s, v) == s.voted[v.out] \ {v.tx}

\* The other transactions v's masternode has voted for on the same outpoint.
Twins(s, v) ==
    {u \in s.voted[v.out] \ {v.tx} : HasVoted(s, u, v.out, v.mn)}

\* A vote for a known request.  A masternode that voted for two transactions
\* on one outpoint spoils that outpoint in both candidates
\* and is banned (mnodeman.PoSeBan).
ProcessCandidateVote(s, v) ==
    LET t    == v.tx
        o    == v.out
        hurt == IF Twins(s, v) = {} THEN {} ELSE Twins(s, v) \cup {t}
        s1   == [s EXCEPT
                   !.attacked = @ \cup {<<u, o>> : u \in {w \in hurt \cap s.outlocks :
                                                            o \in Inputs(w)}},
                   !.banned = IF hurt = {} THEN @ ELSE @ \cup {v.mn},
                   !.voted[o] = @ \cup {t}]
    IN  IF TimedOut(s.candTime[t]) THEN s
        ELSE IF t \notin s.outlocks \/ o \notin Inputs(t) \/ v \in s.counted THEN s1
        ELSE TryToFinalize([s1 EXCEPT !.counted = @ \cup {v}], t)

\* ProcessMessage(TXLOCKVOTE) and ProcessTxLockVote.
ProcessTxLockVote(s, v) ==
    LET s1 == StoreVotes(s, {v})
    IN  IF v \in s.votes THEN s
        ELSE IF ~VoteIsValid(v) THEN s1
        ELSE IF v.tx \notin s.requested THEN ProcessOrphanVote(s1, v)
        ELSE ProcessCandidateVote(s1, v)

\* SyncTransaction for the transactions T: h is the height of their block, or
\* -1.  The map subscript creates a default vote for an orphan whose entry has
\* been removed.
SyncTransactions(s, T, h) ==
    LET mine == {v \in s.counted \cap s.votes : v.tx \in T}
        orph == {v \in s.orphans : v.tx \in T}
    IN  [StoreVotes(s, orph) EXCEPT
           !.candHeight = Clear(@, T \cap s.cands, h),
           !.blank = @ \cup (orph \ s.votes),
           !.voteHeight = Clear(@, mine \cup orph, h)]

-----------------------------------------------------------------------------
(* The node.                                                               *)

Init ==
    /\ instantsend = Fresh
    /\ mempool = {} /\ chain = <<>>
    /\ blk = NoBlock /\ handling = NoTx
    /\ now = 0 /\ evictions = 0 /\ undone = 0 /\ restarts = 0
    /\ heard = {} /\ cast = {} /\ told = {}

\* UpdateLockedTransaction announces every lock as it completes.
Become(s) ==
    /\ instantsend' = s
    /\ told' = told \cup {t \in Txs :
                            /\ IsLockedInstantSendTransaction(s, t)
                            /\ ~IsLockedInstantSendTransaction(instantsend, t)}

\* A thread that does not work on a block may take a step.
BetweenBlocks == OtherThreads \/ blk.stage = "none"

\* The one ThreadMessageHandler: it is in the middle of a txlreg message, or
\* connecting a block it received.
MessageThreadFree == handling = NoTx /\ BetweenBlocks

\* AcceptToMemoryPool's checks, apart from policy, which may refuse anything.
FreeOfConflicts(s, t) ==
    \A o \in Inputs(t) : ~LockedByOther(s, t, o) /\ ~SpentInMempool(t, o)

Admissible(s, t) == t \notin mempool /\ AllUnspent(t) /\ FreeOfConflicts(s, t)

\* Its last step tells the listeners that t is in no block.
Admitted(s, t) == SyncTransactions(s, {t}, -1)

MissingInputs(s, t) ==
    /\ t \notin mempool /\ ~AllUnspent(t)
    /\ t \notin s.cands /\ FreeOfConflicts(s, t)

\* A txlreg message, up to the release of cs_main.
RecvLockRequest(t) ==
    /\ MessageThreadFree
    /\ Become(ProcessTxLockRequest(instantsend, t))
    /\ handling' = IF CreateFails(instantsend, t) THEN NoTx ELSE t
    /\ UNCHANGED <<mempool, chain, blk, env, heard, cast>>

\* The rest of the txlreg message: accepted, an orphan transaction, or rejected.
AcceptLockRequest ==
    LET t  == handling
        s  == [Admitted(instantsend, t) EXCEPT !.accepted = @ \cup {t}]
    IN  /\ t # NoTx
        /\ ~AlreadyHave(instantsend, t) /\ Admissible(instantsend, t)
        /\ mempool' = mempool \cup {t}
        /\ \E D \in SUBSET Dangling(s, t) :
              LET V == OwnVotes(s, t, D) \ s.counted
              IN  /\ Become(Vote(s, t, D))
                  /\ cast' = cast \cup V
                  /\ heard' = heard \cup V
        /\ handling' = NoTx
        /\ UNCHANGED <<chain, blk, env>>

RejectLockRequest ==
    LET t == handling
    IN  /\ t # NoTx
        /\ handling' = NoTx
        /\ IF AlreadyHave(instantsend, t) \/ MissingInputs(instantsend, t)
           THEN UNCHANGED <<instantsend, told>>
           ELSE Become([instantsend EXCEPT !.rejected = @ \cup {t}])
        /\ UNCHANGED <<mempool, chain, blk, env, heard, cast>>

\* A plain tx message.
RecvTx(t) ==
    /\ MessageThreadFree
    /\ Admissible(instantsend, t)
    /\ mempool' = mempool \cup {t}
    /\ Become(Admitted(instantsend, t))
    /\ UNCHANGED <<chain, blk, handling, env, heard, cast>>

\* sendrawtransaction with instantsend = true, and RelayWalletTransaction: the
\* node does not vote on its own request.
SendLockRequest(t) ==
    /\ BetweenBlocks /\ t \notin mempool \cup mined
    /\ LET s == ProcessTxLockRequest(instantsend, t)
       IN  \/ Become(s) /\ UNCHANGED mempool
           \/ /\ Admissible(s, t) /\ ~CreateFails(instantsend, t)
              /\ Become(Admitted(s, t))
              /\ mempool' = mempool \cup {t}
    /\ UNCHANGED <<chain, blk, handling, env, heard, cast>>

RelayWalletTransaction(t) ==
    /\ BetweenBlocks /\ t \in mempool
    /\ Become(ProcessTxLockRequest(instantsend, t))
    /\ UNCHANGED <<mempool, chain, blk, handling, env, heard, cast>>

\* LimitMempoolSize, called when some other transaction is accepted: t has been
\* in the memory pool for too long, or pays too little for a full one.
Evict(t) ==
    /\ t \in mempool
    /\ mempool' = mempool \ {t}
    /\ evictions' = evictions + 1
    /\ UNCHANGED <<instantsend, chain, blk, handling, undone, restarts, now,
                   heard, cast, told>>
    /\ env' \in RareEvents

\* A txvote message.  The peers also send this node's own votes back.
RecvVote(v) ==
    /\ MessageThreadFree
    /\ Become(ProcessTxLockVote(instantsend, v))
    /\ heard' = IF VoteIsValid(v) THEN heard \cup {v} ELSE heard
    /\ UNCHANGED <<mempool, chain, blk, handling, env, cast>>

\* ThreadCheckPrivateSend, once a minute.
CleanUp ==
    /\ Become(CheckAndRemove(instantsend))
    /\ UNCHANGED <<mempool, chain, blk, handling, env, heard, cast>>

NoLockFilter(S) == TRUE

\* ProcessNewBlock, first critical section: AcceptBlock runs CheckBlock, which
\* refuses a block that conflicts with a completed lock, and remembers in
\* fChecked that it passed.
PassesLockFilter(S) ==
    \A t \in S : \A o \in Inputs(t) : ~LockedByOther(instantsend, t, o)

AcceptBlock(S) ==
    /\ blk.stage = "none" /\ (OtherThreads \/ handling = NoTx)
    /\ Len(chain) < MaxBlocks
    /\ \A t \in S : t \notin mined /\ AllUnspent(t)
    /\ \A t, u \in S : ~Conflict(t, u)
    /\ PassesLockFilter(S)
    /\ blk' = [stage |-> "accepted", txs |-> S, dropped |-> {}]
    /\ UNCHANGED <<instantsend, mempool, chain, handling, env, heard, cast, told>>

\* ActivateBestChain: ConnectTip does not repeat CheckBlock's work, and drops
\* the block's transactions and their conflicts from the memory pool.
ConnectTip ==
    LET out == {u \in mempool : \E t \in blk.txs : Conflict(t, u)}
    IN  /\ blk.stage = "accepted"
        /\ chain' = Append(chain, blk.txs)
        /\ mempool' = mempool \ (blk.txs \cup out)
        /\ blk' = [blk EXCEPT !.stage = "connected", !.dropped = out]
        /\ UNCHANGED <<instantsend, handling, env, heard, cast, told>>

\* ... then, without cs_main, the notifications: SyncTransaction for what was
\* dropped and for what was confirmed, and UpdatedBlockTip.
NotifyTip ==
    /\ blk.stage = "connected"
    /\ LET s1 == SyncTransactions(instantsend, blk.dropped, -1)
           s2 == SyncTransactions(s1, blk.txs, Height)
       IN  Become([s2 EXCEPT !.cached = Height])
    /\ blk' = NoBlock
    /\ UNCHANGED <<mempool, chain, handling, env, heard, cast>>

\* DisconnectTip (a reorganisation, or invalidateblock): the transactions go
\* back to the memory pool where it admits them.
DisconnectTip ==
    /\ blk.stage = "none" /\ chain # <<>>
    /\ LET S == chain[Len(chain)]
           back == {t \in S : FreeOfConflicts(instantsend, t)}
       IN  /\ \E R \in SUBSET back : mempool' = mempool \cup R
           /\ Become(SyncTransactions(instantsend, S, -1))
    /\ chain' = SubSeq(chain, 1, Len(chain) - 1)
    /\ undone' = undone + 1
    /\ UNCHANGED <<blk, handling, evictions, restarts, now, heard, cast>>
    /\ env' \in RareEvents

\* The clock.
Tick ==
    /\ now' = now + 1
    /\ UNCHANGED <<instantsend, mempool, chain, blk, handling, evictions, undone,
                   restarts, heard, cast, told>>
    /\ env' \in RareEvents

\* Nothing of CInstantSend or of the memory pool is written to disk; the ban
\* scores are (mncache.dat).
Restart ==
    /\ blk.stage = "none"
    /\ restarts' = restarts + 1
    /\ instantsend' = [Fresh EXCEPT !.cached = Height, !.banned = instantsend.banned]
    /\ mempool' = {} /\ handling' = NoTx
    /\ UNCHANGED <<chain, blk, evictions, undone, now, heard, cast, told>>
    /\ env' \in RareEvents

Next ==
    \/ \E t \in Txs : \/ RecvLockRequest(t) \/ RecvTx(t)
                     \/ SendLockRequest(t) \/ RelayWalletTransaction(t)
                     \/ Evict(t)
    \/ AcceptLockRequest \/ RejectLockRequest
    \/ \E v \in PeerVotes \cup cast : RecvVote(v)
    \/ CleanUp
    \/ \E S \in SUBSET Txs : AcceptBlock(S)
    \/ ConnectTip \/ NotifyTip \/ DisconnectTip
    \/ Tick \/ Restart

Spec == Init /\ [][Next]_vars

-----------------------------------------------------------------------------

TypeOK ==
    /\ instantsend.cands \subseteq Txs
    /\ instantsend.requested \subseteq instantsend.cands
    /\ instantsend.outlocks \subseteq instantsend.requested
    /\ instantsend.counted \subseteq Votes
    /\ instantsend.locked \in [Outpoints -> Txs \cup {NoTx}]
    /\ instantsend.voted \in [Outpoints -> SUBSET Txs]
    /\ instantsend.banned \subseteq Masternodes
    /\ mempool \subseteq Txs
    /\ handling \in Txs \cup {NoTx}

\* Every completed lock rests on a quorum: if mapLockedOutpoints gives o to t,
\* then t is a candidate with outpoint locks, o is one of its inputs, and
\* SIGNATURES_REQUIRED masternodes of o's quorum have voted for t on each input.
LocksHaveQuorums ==
    \A o \in Outpoints :
        LET t == instantsend.locked[o]
        IN  t # NoTx =>
              /\ t \in instantsend.outlocks /\ o \in Inputs(t)
              /\ \A p \in Inputs(t) :
                    Cardinality({v \in VotesFor(heard, t, p) : v.mn \in Quorum[p]})
                      >= SIGNATURES_REQUIRED

\* No more blocks have been disconnected than a candidate is kept for after its
\* confirmation, so whatever was forgotten because it is buried still is.
Shallow == undone <= KeepLock

\* LockTransactionInputs takes the inputs one insert at a time, ResolveConflicts
\* and CheckAndRemove erase them one by one: a transaction still holds all of
\* its inputs or none, unless a conflicting one was mined or rejected.
LocksAreWhole ==
    Shallow =>
      \A o \in Outpoints :
        LET t == instantsend.locked[o]
        IN  /\ t # NoTx
            /\ \A u \in mined \cup instantsend.rejected : ~Conflict(t, u)
            => \A p \in Inputs(t) : instantsend.locked[p] = t

\* CheckBlock: "We should never accept block which conflicts with completed
\* transaction lock" - no mined transaction spends an outpoint locked by another.
NoBlockConflictsWithLock ==
    \A t \in mined : \A o \in Inputs(t) : ~LockedByOther(instantsend, t, o)

\* No transaction in the memory pool spends an outpoint locked by another.
MempoolRespectsLocks ==
    \A t \in mempool : \A o \in Inputs(t) : ~LockedByOther(instantsend, t, o)

\* Vote: "refuse to vote twice or to include the same outpoint in another tx".
VotesOncePerOutpoint ==
    \A v, w \in cast : v.out = w.out => v.tx = w.tx

\* The same as long as mapVotedOutpoints is not lost with the process: whatever
\* times out, is evicted, mined or disconnected in between, this masternode does
\* not vote for two transactions on one outpoint, unless a transaction that
\* spends it was rejected (two conflicting locks that completed are dropped with
\* the votes) or has been mined since.
VotesOnceUntilRestart ==
    restarts = 0 /\ Shallow =>
      \A v, w \in cast :
        v.out = w.out /\ v.tx # w.tx
        => \E t \in mined \cup instantsend.rejected : v.out \in Inputs(t)

\* A hash in mapVotedOutpoints whose transaction spends the outpoint is a key of
\* mapTxLockCandidates, and its candidate has outpoint locks: so Vote(), which
\* dereferences the iterator it looks up without a test for end() (239-240), can
\* only go wrong over a vote for an outpoint that its transaction does not
\* spend.  Such a vote passes IsValid, is recorded before AddVote refuses it
\* (402-413), and CheckAndRemove erases the hash from the transaction's own
\* outpoints only (662-667).
VotedHashesHaveCandidates ==
    \A o \in Outpoints : \A t \in instantsend.voted[o] :
        o \in Inputs(t) => t \in instantsend.cands \cap instantsend.outlocks

\* UpdateLockedTransaction never announces two locks that conflict: a masternode
\* that votes for both spoils the outpoint (fAttacked) before the second lock is
\* ready, as long as two quorums of an outpoint intersect.
NeverAnnouncesConflictingLocks ==
    \A t, u \in told : ~Conflict(t, u)

\* ProcessTxLockVote: "mark both Lock Candidates as attacked, none of them should
\* complete" - whenever a masternode's votes for two transactions on one outpoint
\* are both counted, the outpoint is spoilt in both candidates.
DoubleVotesSpoilBoth ==
    \A v, w \in instantsend.counted :
        v.out = w.out /\ v.mn = w.mn /\ v.tx # w.tx
        => {<<v.tx, v.out>>, <<w.tx, w.out>>} \subseteq instantsend.attacked

\* Only a masternode that signed votes for two transactions on one outpoint is
\* PoSe-banned.
BansAreDeserved ==
    \A m \in instantsend.banned : \E v, w \in heard :
        v.mn = m /\ w.mn = m /\ v.out = w.out /\ v.tx # w.tx

\* CheckAndRemove never throws away a vote that counts for a completed lock, so
\* that the node can still serve it to a peer that asks for it (getdata,
\* MSG_TXLOCK_VOTE) until the lock itself is gone.  The one exception is a vote
\* that is an orphan as well: this node's own one, sent back to it after a
\* restart before the request came again, goes when the orphan times out.
VotesBehindLocksKept ==
    [][\A v \in (instantsend.counted \cap instantsend.votes) \ instantsend.orphans :
        /\ IsLockedInstantSendTransaction(instantsend, v.tx)
        /\ IsLockedInstantSendTransaction(instantsend', v.tx)
        => v \in instantsend'.votes]_vars

\* A completed lock is released only because its own transaction is buried
\* deeply enough, because a conflicting lock completed too, or by a restart -
\* never because another candidate on the same outpoint was cleaned up.
LocksReleasedOnlyWhenDone ==
    [][\A t \in Txs :
        /\ IsLockedInstantSendTransaction(instantsend, t)
        /\ ~IsLockedInstantSendTransaction(instantsend', t)
        => \/ t \in mined /\ Expired(instantsend, instantsend.candHeight[t])
           \/ t \in instantsend'.rejected
           \/ restarts' # restarts]_vars

-----------------------------------------------------------------------------
(* Refinement.                                                             *)

Node == INSTANCE InstantLocks WITH
            Spends <- [t \in Txs |-> Inputs(t)],
            signed <- PeerVotes \cup cast,
            locked <- instantsend.locked

\* Whatever the order of requests, votes, blocks and clean-ups, the maps of
\* CInstantSend implement InstantLocks: mapLockedOutpoints changes only by
\* completing a lock on a quorum of votes that were received or cast, over
\* outpoints that no other transaction holds, or by releasing locks.
ImplementsInstantLocks == Node!Spec

-----------------------------------------------------------------------------

\* ProcessTxLockVote: early votes are kept and processed "only after the lock
\* request itself has arrived".  So a request whose outpoint locks exist, whose
\* inputs are unspent and free of conflicts and for which the node holds enough
\* valid votes on every input is locked.
EnoughVotesLock ==
    \A t \in instantsend.outlocks :
        /\ FreeOfConflicts(instantsend, t) /\ AllUnspent(t)
        /\ \A o \in Inputs(t) :
              /\ <<t, o>> \notin instantsend.attacked
              /\ Cardinality(VotesFor(instantsend.votes, t, o)) >= SIGNATURES_REQUIRED
        => IsLockedInstantSendTransaction(instantsend, t)
=============================================================================

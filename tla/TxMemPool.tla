------------------------------ MODULE TxMemPool ------------------------------
(***************************************************************************)
(* CTxMemPool of src/src/txmempool.cpp, and the ways validation.cpp        *)
(* changes it: AcceptToMemoryPool, ConnectTip, DisconnectTip, the step of  *)
(* ActivateBestChain that joins them, InvalidateBlock, and the limits on   *)
(* age and memory.  All of it runs under cs_main, so each of these is one  *)
(* action; every procedure is an operator from a pool to a pool.           *)
(*                                                                         *)
(* A pool is a record: tx maps the hashes of mapTx to the entry (with its  *)
(* mapLinks), next is mapNextTx, total is totalTxSize, deltas is the fee   *)
(* part of mapDeltas, minRate and blockSince are rollingMinimumFeeRate and *)
(* blockSinceLastRollingFeeBump.  Two fields are history: failed records   *)
(* an assertion that fired, trimmed the transactions that TrimToSize took  *)
(* out since the last block and that the rolling fee is to keep out.  A    *)
(* transaction is its identity: In, Size, Fee and LockHeight say what it   *)
(* spends, how large it is, what it pays and when it is final.  An         *)
(* outpoint is a pair of a transaction and an index.                       *)
(*                                                                         *)
(* Signatures are valid, every transaction is standard and pays the relay  *)
(* fee (no free-transaction limiter), and none is a lock request (see      *)
(* InstantSend).  DynamicMemoryUsage grows with the number of entries and  *)
(* is abstracted to it.                                                    *)
(***************************************************************************)
EXTENDS Integers, Sequences, FiniteSets, FiniteSetsExt, SequencesExt

CONSTANTS
    Txs, Coinbases,       \* loose transactions; the blocks' coinbases
    In,                   \* In[t]: the outpoints t spends
    Size, Fee, LockHeight,
    Replaceable,          \* BIP125 signallers; {} without -mempoolreplacement
    Blocks,               \* the blocks there are: sequences of transactions
    COINBASE_MATURITY,
    Limits,               \* -limitancestorcount and its three companions
    maxDescendantsToVisit,
    MaxEntries,           \* -maxmempool, in entries
    Expiry,               \* -mempoolexpiry
    minReasonableRelayFee,
    FeeDeltas,            \* calls of PrioritiseTransaction: <<hash, fee delta>>
    HalfLives,            \* half-lives that may pass between two admissions
    MaxTime, MaxHeight

VARIABLES
    mempool,
    chain,                \* the active chain above a common ancestor
    now

vars == <<mempool, chain, now>>

AllTxs == Txs \cup Coinbases
InPool(m) == DOMAIN m.tx

Confirmed(ch) == UNION {Range(ch[i]) : i \in DOMAIN ch}
Spent(ch) == UNION {In[t] : t \in Confirmed(ch)}

\* pcoinsTip->HaveCoin: an unspent output of the chain.
HaveCoin(ch, o) == o[1] \in Confirmed(ch) \cup {"base"} /\ o \notin Spent(ch)

HeightOf(ch, t) == CHOOSE i \in DOMAIN ch : t \in Range(ch[i])

\* CheckFinalTx in a block of height h.
CheckFinalTx(t, h) == LockHeight[t] < h

\* CheckTxInputs: the coin is not of a coinbase too young for a block of height h.
MatureCoin(ch, o, h) ==
    o[1] \in Coinbases \cap Confirmed(ch)
      => h - HeightOf(ch, o[1]) >= COINBASE_MATURITY

Mature(ch, t, h) == \A o \in In[t] : MatureCoin(ch, o, h)

GetSpendsCoinbase(t) == \E o \in In[t] : o[1] \in Coinbases

GetModifiedFee(m, t) == Fee[t] + m.tx[t].delta

EmptyPool ==
    [tx |-> << >>, next |-> << >>, total |-> 0,
     deltas |-> [t \in AllTxs |-> 0],
     minRate |-> 0, blockSince |-> FALSE, failed |-> FALSE, trimmed |-> {}]

-----------------------------------------------------------------------------
(* Links, ancestors and descendants. *)

parents(m, t) == m.tx[t].parents
children(m, t) == m.tx[t].children

RECURSIVE Closure(_, _)
Closure(S, succ) ==
    LET T == S \cup UNION {succ[x] : x \in S}
    IN  IF T = S THEN S ELSE Closure(T, succ)

\* CalculateMemPoolAncestors over mapLinks, from a set of direct parents.
Ancestors(m, P) == Closure(P, [t \in InPool(m) |-> parents(m, t)])

\* CalculateDescendants: the entries themselves included.
CalculateDescendants(m, S) == Closure(S, [t \in InPool(m) |-> children(m, t)])

SumSize(S) == MapThenSumSet(LAMBDA t : Size[t], S)
SumFees(m, S) == MapThenSumSet(LAMBDA t : GetModifiedFee(m, t), S)

\* The limits of CalculateMemPoolAncestors on a new entry with ancestors A.
WithinLimits(m, t, A) ==
    /\ Cardinality(A) + 1 <= Limits.ancestors
    /\ A # {} => SumSize(A) + Size[t] <= Limits.ancestorSize
    /\ \A a \in A : /\ m.tx[a].size + Size[t] <= Limits.descendantSize
                    /\ m.tx[a].count + 1 <= Limits.descendants

IsDirty(e) == e.count = 0

\* UpdateState of the entries in S, with its assertions.
UpdateState(m, S, size, fees, count) ==
    LET clean == {t \in S : ~IsDirty(m.tx[t])}
    IN  [m EXCEPT
           !.tx = [t \in InPool(m) |->
                     IF t \in clean
                     THEN [@[t] EXCEPT !.size = @ + size, !.fees = @ + fees,
                                       !.count = @ + count]
                     ELSE @[t]],
           !.failed = @ \/ \E t \in clean : \/ m.tx[t].size + size <= 0
                                            \/ m.tx[t].count + count <= 0]

SetDirty(m, t) ==
    [m EXCEPT !.tx[t].count = 0, !.tx[t].size = Size[t],
              !.tx[t].fees = GetModifiedFee(m, t)]

\* UpdateParent(t, p, add) and UpdateChild(p, t, add) for every p in P.
Link(m, t, P) ==
    [m EXCEPT !.tx = [u \in InPool(m) |->
        [@[u] EXCEPT !.parents = IF u = t THEN @ \cup P ELSE @,
                     !.children = IF u \in P THEN @ \cup {t} ELSE @]]]

-----------------------------------------------------------------------------
(* Removal. *)

\* UpdateForRemoveFromMempool: every ancestor forgets what is removed, and
\* the links to it go.
UpdateForRemoveFromMempool(m, S) ==
    LET forget(n, t) == UpdateState(n, Ancestors(m, parents(m, t)), -Size[t],
                                    -GetModifiedFee(m, t), -1)
        n == FoldSet(LAMBDA t, a : forget(a, t), m, S)
    IN  [n EXCEPT !.tx = [t \in InPool(n) |->
            [@[t] EXCEPT !.parents = @ \ S, !.children = @ \ S]]]

\* removeUnchecked of every entry of S.
removeUnchecked(m, S) ==
    [m EXCEPT !.tx = [t \in InPool(m) \ S |-> @[t]],
              !.next = [o \in DOMAIN @ \ UNION {In[t] : t \in S} |-> @[o]],
              !.total = @ - SumSize(S)]

RemoveStaged(m, S) == removeUnchecked(UpdateForRemoveFromMempool(m, S), S)

\* The in-pool spenders of t's outputs, from mapNextTx.
Spenders(m, t) == {m.next[o] : o \in {p \in DOMAIN m.next : p[1] = t}}

\* The in-pool spenders of t's inputs.
Conflicting(m, t) == {m.next[o] : o \in In[t] \cap DOMAIN m.next}

\* remove(t, removed, fRecursive).
remove(m, t, fRecursive) ==
    LET S == IF t \in InPool(m) THEN {t}
             ELSE IF fRecursive THEN Spenders(m, t) ELSE {}
    IN  RemoveStaged(m, IF fRecursive THEN CalculateDescendants(m, S) ELSE S)

removeRecursively(m, S) ==
    FoldSet(LAMBDA t, n : IF n.failed THEN n ELSE remove(n, t, TRUE), m, S)

ClearPrioritisation(m, S) ==
    [m EXCEPT !.deltas = [t \in AllTxs |-> IF t \in S THEN 0 ELSE @[t]]]

\* removeConflicts: what spends an input of the confirmed t.
removeConflicts(m, t) ==
    LET S == Conflicting(m, t) \ {t}
    IN  ClearPrioritisation(removeRecursively(m, S), S)

\* removeForBlock.
removeForBlock(m, vtx) ==
    LET one(n, t) ==
            IF n.failed THEN n
            ELSE ClearPrioritisation(removeConflicts(remove(n, t, FALSE), t), {t})
    IN  [FoldLeft(one, m, vtx) EXCEPT !.blockSince = TRUE, !.trimmed = {}]

\* removeForReorg: what the new chain's next block could not contain.  A coin
\* that is gone altogether is an assertion (with -checkmempool).
removeForReorg(m, ch) ==
    LET h == Len(ch) + 1
        nonfinal == {t \in InPool(m) : ~CheckFinalTx(t, h)}
        examined == {t \in InPool(m) \ nonfinal : GetSpendsCoinbase(t)}
        coins(t) == {o \in In[t] : o[1] \notin InPool(m)}
        gone == {t \in examined : \E o \in coins(t) : ~HaveCoin(ch, o)}
        immature == {t \in examined : \E o \in coins(t) : ~MatureCoin(ch, o, h)}
    IN  removeRecursively([m EXCEPT !.failed = @ \/ gone # {}], nonfinal \cup immature)

\* Expire.
ExpireAt(m, time) ==
    RemoveStaged(m, CalculateDescendants(m, {t \in InPool(m) : m.tx[t].time < time}))

-----------------------------------------------------------------------------
(* The memory limit. *)

\* CFeeRate and CFeeRate::GetFee.
FeeRate(fee, size) == (fee * 1000) \div size
GetFee(rate, size) ==
    LET fee == (rate * size) \div 1000
    IN  IF fee = 0 /\ rate > 0 THEN rate ELSE fee

\* The score of CompareTxMemPoolEntryByDescendantScore, as fee and size.
Score(m, t) ==
    LET e == m.tx[t]
    IN  IF e.fees * Size[t] > GetModifiedFee(m, t) * e.size
        THEN <<e.fees, e.size>> ELSE <<GetModifiedFee(m, t), Size[t]>>

\* The first entry in that order: the lowest score, of equal ones the newest.
Before(m, t, u) ==
    LET a == Score(m, t)
        b == Score(m, u)
    IN  \/ a[1] * b[2] < a[2] * b[1]
        \/ a[1] * b[2] = a[2] * b[1] /\ m.tx[t].time >= m.tx[u].time

Worst(m) == CHOOSE t \in InPool(m) : \A u \in InPool(m) : Before(m, t, u)

\* trackPackageRemoved.
trackPackageRemoved(m, rate) ==
    IF rate > m.minRate THEN [m EXCEPT !.minRate = rate, !.blockSince = FALSE] ELSE m

\* The history: t goes and the rolling fee, which does not decay before the next
\* block, is to keep it out.  It does not if t pays more than its package and
\* some of its descendants meet again below it: then t may be first in the
\* order by its own rate, and the fee becomes the package's.
MeetBelow(m, t) ==
    LET D == CalculateDescendants(m, {t})
    IN  \E d \in D : Cardinality(parents(m, d) \cap D) > 1

PaysMoreThanPackage(m, t) ==
    GetModifiedFee(m, t) * m.tx[t].size > m.tx[t].fees * Size[t]

Trimmed(m, t) ==
    IF m.blockSince \/ (MeetBelow(m, t) /\ PaysMoreThanPackage(m, t)) THEN m
    ELSE [m EXCEPT !.trimmed = @ \cup {t}]

\* TrimToSize: the first entry of the order and its descendants go, until the
\* pool fits.  The fee rate of each such package becomes the minimum, plus the
\* relay fee so that nothing of the same rate comes in again.
EqualRate(m, t) == FeeRate(m.tx[t].fees, m.tx[t].size)

RemovedRate(m, t) == FeeRate(m.tx[t].fees, m.tx[t].size) + minReasonableRelayFee

RECURSIVE TrimToSize(_)
TrimToSize(m) ==
    IF m.failed \/ Cardinality(InPool(m)) <= MaxEntries THEN m
    ELSE LET t == Worst(m)
             n == Trimmed(trackPackageRemoved(m, RemovedRate(m, t)), t)
         IN  TrimToSize(RemoveStaged(n, CalculateDescendants(m, {t})))

LimitMempoolSize(m) == TrimToSize(ExpireAt(m, now - Expiry))

\* GetMinFee after so many half-lives, as <<the pool it leaves, the rate>>.
GetMinFee(m, halfLives) ==
    IF ~m.blockSince \/ m.minRate = 0 THEN <<m, m.minRate>>
    ELSE LET rate == m.minRate \div 2 ^ halfLives
             gone == halfLives > 0 /\ rate < minReasonableRelayFee \div 2
         IN  IF gone THEN <<[m EXCEPT !.minRate = 0], 0>>
             ELSE <<[m EXCEPT !.minRate = rate], Max({rate, minReasonableRelayFee})>>

-----------------------------------------------------------------------------
(* Admission. *)

\* addUnchecked: a new entry is assumed to have no children in the pool.
addUnchecked(m, t, A) ==
    LET entry == [count |-> 1, size |-> Size[t], fees |-> Fee[t] + m.deltas[t],
                  delta |-> m.deltas[t], time |-> now,
                  parents |-> {}, children |-> {}]
        n == [m EXCEPT !.tx = [u \in InPool(m) \cup {t} |->
                                  IF u = t THEN entry ELSE @[u]],
                       !.next = [o \in DOMAIN @ \cup In[t] |->
                                  IF o \in In[t] THEN t ELSE @[o]],
                       !.total = @ + Size[t]]
        P == {o[1] : o \in In[t]} \cap InPool(m)
    IN  UpdateState(Link(n, t, P), A, Size[t], entry.fees, 1)

\* The entries a replacement would have to evict ...
AllConflicting(m, t) ==
    CalculateDescendants(m, Conflicting(m, t))

\* ... and the rules it must meet (BIP125 as AcceptToMemoryPoolWorker has it).
MayReplace(m, t, A) ==
    LET C == Conflicting(m, t)
        all == AllConflicting(m, t)
        fee == Fee[t] + m.deltas[t]
        old == UNION {In[c] : c \in C}
    IN  /\ C \subseteq Replaceable
        /\ A \cap C = {}
        /\ \A c \in C : /\ ~IsDirty(m.tx[c])
                        /\ FeeRate(fee, Size[t])
                             > FeeRate(GetModifiedFee(m, c), Size[c])
        /\ MapThenSumSet(LAMBDA c : m.tx[c].count, C) <= maxDescendantsToVisit
        /\ \A o \in In[t] : (\A p \in old : p[1] # o[1]) => o[1] \notin InPool(m)
        /\ fee - SumFees(m, all) >= GetFee(minReasonableRelayFee, Size[t])

\* AcceptToMemoryPoolWorker while the coins are those of ch and the tip's
\* height is height: the pool it leaves, whether it accepts or not.
AcceptToMemoryPool(m, t, ch, height, halfLives, fOverrideMempoolLimit) ==
    LET A == Ancestors(m, {o[1] : o \in In[t]} \cap InPool(m))
        min == GetMinFee(m, halfLives)
        n == min[1]
        admissible == /\ WithinLimits(m, t, A)
                      /\ Conflicting(m, t) # {} => MayReplace(m, t, A)
                      /\ Mature(ch, t, Len(ch) + 1)
        added == addUnchecked(RemoveStaged(n, AllConflicting(n, t)), t, A)
    IN  IF \/ t \in Coinbases \/ t \in InPool(m) \/ ~CheckFinalTx(t, height + 1)
           \/ ~(Conflicting(m, t) \subseteq Replaceable)
           \/ \E o \in In[t] : o[1] \notin InPool(m) /\ ~HaveCoin(ch, o)
        THEN m
        ELSE IF \/ Fee[t] + m.deltas[t] < GetFee(min[2], Size[t])
                \/ ~admissible
             THEN n
             ELSE IF fOverrideMempoolLimit THEN added ELSE LimitMempoolSize(added)

-----------------------------------------------------------------------------
(* Blocks. *)

\* UpdateForDescendants of t, once its links are right: count the descendants
\* outside exclude.  The work is bounded by the number of them that are not
\* children; a dirty descendant or too many of them make t dirty.  (The cache
\* of descendants saves steps of the walk and does not change its result.)
UncountedChildren(m, t, exclude) ==
    LET out == children(m, t) \ exclude
    IN  UpdateState(m, {t}, SumSize(out), SumFees(m, out), Cardinality(out))

UpdateForDescendants(m, t, exclude) ==
    LET D == CalculateDescendants(m, {t}) \ {t}
        out == D \ exclude
    IN  IF \/ \E d \in D : IsDirty(m.tx[d])
           \/ Cardinality(out \ children(m, t)) > maxDescendantsToVisit
        THEN SetDirty(m, t)
        ELSE UpdateState(m, {t}, SumSize(out), SumFees(m, out), Cardinality(out))

\* UpdateTransactionsFromBlock: link the re-added transactions, last first, to
\* the children they have in the pool.
SkipUpdate(m, vHashesToUpdate) == m

UpdateTransactionsFromBlock(m, vHashesToUpdate) ==
    LET included == Range(vHashesToUpdate)
        link(n, t) == FoldSet(LAMBDA c, a : Link(a, c, {t}), n,
                              Spenders(n, t) \ included)
        one(n, t) == IF n.failed \/ t \notin InPool(n) THEN n
                     ELSE UpdateForDescendants(link(n, t), t, included)
    IN  FoldLeft(one, m, Reverse(vHashesToUpdate))

\* DisconnectTip: the block's transactions return to the pool, or what spends
\* them leaves it.  chainActive still has the old height.
DisconnectTip(m, ch) ==
    LET rest == Front(ch)
        resurrect(n, t) ==
            LET a == AcceptToMemoryPool(n, t, rest, Len(ch), 0, TRUE)
            IN  IF n.failed \/ t \in InPool(a) THEN a ELSE remove(a, t, TRUE)
        back == FoldLeft(resurrect, m, Last(ch))
    IN  UpdateTransactionsFromBlock(
            back, SelectSeq(Last(ch), LAMBDA t : t \in InPool(back)))

RECURSIVE DisconnectBlocks(_, _, _)
DisconnectBlocks(m, ch, k) ==
    IF m.failed \/ k = 0 THEN m ELSE DisconnectBlocks(DisconnectTip(m, ch), Front(ch), k - 1)

\* ConnectBlock accepts the block: its transactions spend coins of the chain
\* or of the block, none twice, and none before its time.
ValidOn(ch, b) ==
    /\ Len(ch) < MaxHeight
    /\ Range(b) \cap Confirmed(ch) = {}
    /\ \A i \in DOMAIN b :
          /\ CheckFinalTx(b[i], Len(ch) + 1) /\ Mature(ch, b[i], Len(ch) + 1)
          /\ \A o \in In[b[i]] :
                /\ \/ HaveCoin(ch, o) \/ \E j \in 1 .. i - 1 : b[j] = o[1]
                /\ \A j \in 1 .. i - 1 : o \notin In[b[j]]

-----------------------------------------------------------------------------

Init == mempool = EmptyPool /\ chain = << >> /\ now = 0

Tick == now < MaxTime /\ now' = now + 1 /\ UNCHANGED <<mempool, chain>>

\* A transaction arrives.
Accept(t, halfLives) ==
    /\ mempool' = AcceptToMemoryPool(mempool, t, chain, Len(chain), halfLives, FALSE)
    /\ UNCHANGED <<chain, now>>

\* PrioritiseTransaction.
PrioritiseTransaction(t, nFeeDelta) ==
    LET m == [mempool EXCEPT !.deltas[t] = @ + nFeeDelta, !.trimmed = @ \ {t}]
    IN  /\ mempool.deltas[t] = 0
        /\ mempool' = IF t \notin InPool(m) THEN m
                      ELSE UpdateState([m EXCEPT !.tx[t].delta = @ + nFeeDelta,
                                                 !.tx[t].fees = @ + nFeeDelta],
                                       Ancestors(m, parents(m, t)), 0, nFeeDelta, 0)
        /\ UNCHANGED <<chain, now>>

\* ActivateBestChainStep when the tip is extended.
ConnectTip(b) ==
    /\ ValidOn(chain, b)
    /\ mempool' = removeForBlock(mempool, b)
    /\ chain' = Append(chain, b)
    /\ UNCHANGED now

\* ActivateBestChainStep when the fork is k blocks below the tip: disconnect,
\* connect blocks of the other branch, tidy the pool.  It stops once there is
\* more work than before or a block turns out to be invalid, so any number of
\* blocks, none included, may be connected.
Reorganize(k, bs) ==
    LET base == SubSeq(chain, 1, Len(chain) - k)
        new == base \o bs
        one(n, b) == IF n.failed THEN n ELSE removeForBlock(n, b)
        m == FoldLeft(one, DisconnectBlocks(mempool, chain, k), bs)
    IN  /\ bs # << >> => Head(bs) # chain[Len(base) + 1]
        /\ \A i \in DOMAIN bs : ValidOn(base \o SubSeq(bs, 1, i - 1), bs[i])
        /\ mempool' = LimitMempoolSize(removeForReorg(m, new))
        /\ chain' = new
        /\ UNCHANGED now

\* InvalidateBlock of the k-th block from the tip; ActivateBestChain follows.
InvalidateBlock(k) ==
    LET base == SubSeq(chain, 1, Len(chain) - k)
        m == DisconnectBlocks(mempool, chain, k)
    IN  /\ mempool' = removeForReorg(LimitMempoolSize(m), base)
        /\ chain' = base
        /\ UNCHANGED now

Next ==
    \/ Tick
    \/ \E t \in Txs, halfLives \in HalfLives : Accept(t, halfLives)
    \/ \E d \in FeeDeltas : PrioritiseTransaction(d[1], d[2])
    \/ \E b \in Blocks : ConnectTip(b)
    \/ \E k \in 1 .. Len(chain), bs \in BoundedSeq(Blocks, MaxHeight) : Reorganize(k, bs)
    \/ \E k \in 1 .. Len(chain) : InvalidateBlock(k)

Spec == Init /\ [][Next]_vars

-----------------------------------------------------------------------------

\* What CTxMemPool::check asserts after every change of the chain
\* (txmempool.cpp:761-871): inputs are unspent coins or outputs of other
\* entries, no two entries share one, mapNextTx and the links agree with the
\* transactions, the total is right, and every entry could be mined in the
\* next block.  No assertion of the update code (318-327) has fired either, nor
\* the one of removeForReorg (679): what spends a coinbase that a reorganization
\* took away has left the pool before.
CheckPasses ==
    /\ ~mempool.failed
    /\ DOMAIN mempool.next = UNION {In[t] : t \in InPool(mempool)}
    /\ mempool.total = SumSize(InPool(mempool))
    /\ \A t \in InPool(mempool) :
          /\ \A o \in In[t] : /\ mempool.next[o] = t
                              /\ o[1] \in InPool(mempool) \/ HaveCoin(chain, o)
          /\ parents(mempool, t) = {o[1] : o \in In[t]} \cap InPool(mempool)
          /\ children(mempool, t) = Spenders(mempool, t)
          /\ Mature(chain, t, Len(chain) + 1)
          /\ CheckFinalTx(t, Len(chain) + 1)

\* The descendant state that eviction sorts by is exact unless the entry is
\* marked dirty: count, size and fees are those of the entry and of all its
\* in-pool descendants, also after reorganizations put parents back under
\* children that never left, and a dirty entry stands for itself alone.
DescendantStateExact ==
    \A t \in InPool(mempool) :
        LET e == mempool.tx[t]
            D == IF IsDirty(e) THEN {t} ELSE CalculateDescendants(mempool, {t})
        IN  /\ e.size = SumSize(D)
            /\ e.fees = SumFees(mempool, D)
            /\ ~IsDirty(e) => e.count = Cardinality(D)

\* "This way, we don't allow txn to enter mempool with feerate equal to txn which
\* were removed with no block in between" (txmempool.cpp:1140-1141): a transaction
\* that TrimToSize chose stays out until a block is connected, in spite of the
\* two roundings of its fee rate.  Eviction goes by the better of a transaction's
\* own rate and its package's, the new fee by the package's: the two agree, as
\* the comment takes for granted, whenever the descendants form a tree or the
\* transaction pays no more than its package (see Trimmed for the exception).
TrimmedStaysOut == mempool.trimmed \cap InPool(mempool) = {}
=============================================================================

---------------------------- MODULE ChainState ----------------------------
(***************************************************************************)
(* The chain state of a node: the coin database, the cache pcoinsTip over  *)
(* it, and the temporary view over pcoinsTip in which ConnectTip and       *)
(* DisconnectTip apply or undo one block.  The database, the block index   *)
(* and the undo files survive a crash; everything else is rebuilt from     *)
(* them.  cs_main makes the block in hand the only one; its transactions   *)
(* are steps of their own so that a crash can fall between any two.        *)
(***************************************************************************)
EXTENDS CoinsCache, Sequences

CONSTANTS Outpoints,
          Blocks, Root,     \* the block tree above a block nobody undoes
          Parent, Height,   \* functions of Blocks (pprev, nHeight)
          Chain,            \* Chain[b]: b and its ancestors, Root excluded
          Vtx,              \* Vtx[b]: the transactions of the block, in order
          RootCoins,        \* the unspent outputs at Root
          Null,             \* no undo data
          TransientErrors   \* a database that failed a write accepts the next one

Coins == [Outpoints -> Coin \cup {Spent}]

Tx == [ins : SUBSET Outpoints, outs : SUBSET Outpoints, coinbase : BOOLEAN]

\* The tree: a block's chain is its parent's plus itself, and heights grow.
ASSUME TreeAssumption ==
  /\ Root \in Blocks
  /\ Parent \in [Blocks \ {Root} -> Blocks]
  /\ Height \in [Blocks -> Nat \ {0}]
  /\ Chain \in [Blocks -> SUBSET (Blocks \ {Root})]
  /\ Chain[Root] = {}
  /\ \A b \in Blocks \ {Root} :
       /\ Chain[b] = Chain[Parent[b]] \cup {b}
       /\ \A a \in Chain[Parent[b]] : Height[a] < Height[b]

\* What CheckBlock leaves: a coinbase first and only first, transactions with
\* different ids, and no transaction that spends its own outputs.
ASSUME BodyAssumption ==
  /\ Vtx \in [Blocks -> Seq(Tx)]
  /\ \A b \in Blocks : \A i, j \in 1..Len(Vtx[b]) :
       /\ Vtx[b][i].coinbase <=> i = 1
       /\ Vtx[b][i].coinbase => Vtx[b][i].ins = {}
       /\ Vtx[b][i].ins \cap Vtx[b][i].outs = {}
       /\ i # j => Vtx[b][i].outs \cap Vtx[b][j].outs = {}

ASSUME RootAssumption ==
  /\ RootCoins \in Coins
  /\ Null \notin Coins
  /\ TransientErrors \in BOOLEAN

VARIABLES coinsdb,       \* the chainstate database
          dbBest,        \* DB_BEST_BLOCK
          tip,           \* pcoinsTip->cacheCoins
          tipBest,       \* pcoinsTip->hashBlock
          view,          \* the block's own CCoinsViewCache
          chainActive,   \* chainActive.Tip()
          job,           \* the block in hand and how far it is
          undo,          \* undo data known through mapBlockIndex
          undoOnDisk,    \* undo data known through the index database
          setDirtyBlockIndex

vars == <<coinsdb, dbBest, tip, tipBest, view, chainActive, job, undo,
          undoOnDisk, setDirtyBlockIndex>>

disk == <<coinsdb, dbBest, undoOnDisk>>

NoEntries == [o \in Outpoints |-> Absent]
NoCoins == [o \in Outpoints |-> Spent]

\* op: what holds cs_main.  i: transactions applied.  spent: blockundo.
Job == [op : {"idle", "connect", "disconnect", "settle", "full", "abort", "error"},
        block : Blocks, i : Nat, spent : Coins]

JobAt(op, b, i, s) == [op |-> op, block |-> b, i |-> i, spent |-> s]
Idle == JobAt("idle", Root, 0, NoCoins)

Outs(b) == UNION {Vtx[b][i].outs : i \in 1..Len(Vtx[b])}
Ins(b) == UNION {Vtx[b][i].ins : i \in 1..Len(Vtx[b])}

\* A mistake: coins without the height they were created at.
NoHeight(b, i) == [nHeight |-> 0, fCoinBase |-> Vtx[b][i].coinbase]

\* Coin(tx.vout[i], nHeight, fCoinbase)
CoinOf(b, i) == [nHeight |-> Height[b], fCoinBase |-> Vtx[b][i].coinbase]

TipCoin(o) == Lookup(tip[o], coinsdb[o])
ViewCoin(o) == Lookup(view[o], TipCoin(o))

\* A fetch through the view also leaves a copy in pcoinsTip.
TipFetches(O) ==
  [o \in Outpoints |-> IF o \in O /\ view[o] = Absent
                       THEN FetchCoin(tip[o], coinsdb[o]) ELSE tip[o]]

Fetched(o) == FetchCoin(view[o], TipCoin(o))
----------------------------------------------------------------------------
Init ==
  /\ coinsdb = RootCoins
  /\ dbBest = Root
  /\ tip = NoEntries
  /\ tipBest = Root
  /\ view = NoEntries
  /\ chainActive = Root
  /\ job = Idle
  /\ undo = [b \in Blocks |-> Null]
  /\ undoOnDisk = undo
  /\ setDirtyBlockIndex = {}

\* The mempool looks an output up through pcoinsTip ...
FetchToTip(o) ==
  /\ job = Idle
  /\ tip' = TipFetches({o})
  /\ UNCHANGED <<disk, tipBest, view, chainActive, job, undo, setDirtyBlockIndex>>

\* ... and gives up the copies a rejected or evicted transaction brought in.
UncacheFromTip(o) ==
  /\ job = Idle
  /\ tip' = [tip EXCEPT ![o] = Uncache(@)]
  /\ UNCHANGED <<disk, tipBest, view, chainActive, job, undo, setDirtyBlockIndex>>

\* A mistake: duplicates are let through.
BIP30Off(b) == TRUE

\* No output of the block is already there unspent.
BIP30(b) == \A o \in Outs(b) : TipCoin(o) = Spent

\* ConnectTip creates the view; ConnectBlock runs its checks of the whole block.
BeginConnect(b) ==
  /\ job = Idle
  /\ b # Root /\ Parent[b] = chainActive
  /\ BIP30(b)
  /\ job' = IF Parent[b] = tipBest THEN JobAt("connect", b, 0, NoCoins)
                                   ELSE [Idle EXCEPT !.op = "error"]
  /\ UNCHANGED <<disk, tip, tipBest, view, chainActive, undo, setDirtyBlockIndex>>

\* "bad-txns-BIP30": the output found unspent stays in pcoinsTip.
RejectDuplicate(b) ==
  /\ job = Idle
  /\ b # Root /\ Parent[b] = chainActive
  /\ \E o \in Outs(b) : TipCoin(o) # Spent /\ tip' = TipFetches({o})
  /\ UNCHANGED <<disk, tipBest, view, chainActive, job, undo, setDirtyBlockIndex>>

HaveInputs(tx) == \A o \in tx.ins : ViewCoin(o) # Spent

AddFails(tx) == \E o \in tx.outs : AddThrows(view[o], tx.coinbase)

\* UpdateCoins: spend the inputs, then add the outputs.
UpdatedView(b, i) ==
  [o \in Outpoints |->
     CASE o \in Vtx[b][i].ins  -> SpendCoin(Fetched(o))
       [] o \in Vtx[b][i].outs -> AddCoin(view[o], CoinOf(b, i), Vtx[b][i].coinbase)
       [] OTHER -> view[o]]

ConnectTx ==
  LET b == job.block
      i == job.i + 1
      tx == Vtx[b][i]
  IN /\ job.op = "connect" /\ job.i < Len(Vtx[b])
     /\ HaveInputs(tx)
     /\ tip' = TipFetches(tx.ins)
     /\ view' = UpdatedView(b, i)
     /\ job' = IF AddFails(tx)
               THEN [job EXCEPT !.op = "error"]
               ELSE [job EXCEPT !.i = i,
                       !.spent = [o \in Outpoints |->
                         IF o \in tx.ins THEN ViewCoin(o) ELSE @[o]]]
     /\ UNCHANGED <<disk, tipBest, chainActive, undo, setDirtyBlockIndex>>

\* "bad-txns-inputs-missingorspent": some inputs were fetched before the miss.
RejectMissingInputs ==
  LET tx == Vtx[job.block][job.i + 1]
  IN /\ job.op = "connect" /\ job.i < Len(Vtx[job.block])
     /\ ~HaveInputs(tx)
     /\ \E O \in SUBSET tx.ins : tip' = TipFetches(O)
     /\ view' = NoEntries
     /\ job' = Idle
     /\ UNCHANGED <<disk, tipBest, chainActive, undo, setDirtyBlockIndex>>

\* Any other check fails, or the call was TestBlockValidity (fJustCheck).
AbandonBlock ==
  /\ job.op = "connect"
  /\ view' = NoEntries
  /\ job' = Idle
  /\ UNCHANGED <<disk, tip, tipBest, chainActive, undo, setDirtyBlockIndex>>

\* SetBestBlock and view.Flush().
FlushView(best) ==
  /\ tip' = [o \in Outpoints |-> BatchWrite(tip[o], view[o])]
  /\ tipBest' = best
  /\ view' = NoEntries
  /\ job' = IF \E o \in Outpoints : WriteThrows(tip[o], view[o])
            THEN [job EXCEPT !.op = "error"] ELSE [Idle EXCEPT !.op = "settle"]

\* The end of ConnectBlock: the undo data is written once per block.
FinishConnect ==
  LET b == job.block
  IN /\ job.op = "connect" /\ job.i = Len(Vtx[b])
     /\ IF undo[b] = Null
        THEN /\ undo' = [undo EXCEPT ![b] = job.spent]
             /\ setDirtyBlockIndex' = setDirtyBlockIndex \cup {b}
        ELSE UNCHANGED <<undo, setDirtyBlockIndex>>
     /\ FlushView(b)
     /\ UNCHANGED <<disk, chainActive>>
----------------------------------------------------------------------------
\* DisconnectTip: DisconnectBlock undoes the transactions from the last on.
BeginDisconnect ==
  LET b == chainActive
  IN /\ job = Idle
     /\ b # Root
     /\ job' = IF b = tipBest /\ undo[b] # Null
               THEN JobAt("disconnect", b, Len(Vtx[b]), undo[b])
               ELSE [Idle EXCEPT !.op = "error"]
     /\ UNCHANGED <<disk, tip, tipBest, view, chainActive, undo, setDirtyBlockIndex>>

\* The outputs are the block's own, and no input is there already.
Clean(b, i) ==
  /\ \A o \in Vtx[b][i].outs : ViewCoin(o) = CoinOf(b, i)
  /\ \A o \in Vtx[b][i].ins : ViewCoin(o) = Spent

\* ApplyTxInUndo passes the undo data's fCoinBase as possible_overwrite.
RestoreFails(i) ==
  \E o \in Vtx[job.block][i].ins :
     job.spent[o] = Spent \/ AddThrows(Fetched(o), job.spent[o].fCoinBase)

RevertedView(b, i) ==
  [o \in Outpoints |->
     CASE o \in Vtx[b][i].outs -> SpendCoin(Fetched(o))
       [] o \in Vtx[b][i].ins  ->
            AddCoin(Fetched(o), job.spent[o], job.spent[o].fCoinBase)
       [] OTHER -> view[o]]

DisconnectTx ==
  LET b == job.block
      i == job.i
      tx == Vtx[b][i]
  IN /\ job.op = "disconnect" /\ i > 0
     /\ tip' = TipFetches(tx.ins \cup tx.outs)
     /\ view' = RevertedView(b, i)
     /\ job' = IF Clean(b, i) /\ ~RestoreFails(i)
               THEN [job EXCEPT !.i = i - 1]
               ELSE [job EXCEPT !.op = "error"]
     /\ UNCHANGED <<disk, tipBest, chainActive, undo, setDirtyBlockIndex>>

FinishDisconnect ==
  /\ job.op = "disconnect" /\ job.i = 0
  /\ FlushView(Parent[job.block])
  /\ UNCHANGED <<disk, chainActive, undo, setDirtyBlockIndex>>

UpdateTip ==
  /\ job.op = "settle"
  /\ chainActive' = tipBest
  /\ job' = Idle
  /\ UNCHANGED <<disk, tip, tipBest, view, undo, setDirtyBlockIndex>>
----------------------------------------------------------------------------
\* FlushStateToDisk runs between blocks and before UpdateTip.
MayFlush == job.op \in {"idle", "settle"}

\* A mistake: the coins go to disk and the index does not.
IndexNotFlushed == undoOnDisk

\* WriteBatchSync of the dirty block index entries.
FlushedIndex ==
  [b \in Blocks |-> IF b \in setDirtyBlockIndex THEN undo[b] ELSE undoOnDisk[b]]

\* pcoinsTip->Flush() into CCoinsViewDB::BatchWrite: one atomic batch.
FlushedCoins == [o \in Outpoints |-> DbWrite(coinsdb[o], tip[o])]

IndexWritten ==
  /\ undoOnDisk' = FlushedIndex
  /\ setDirtyBlockIndex' = {}

CoinsWritten ==
  /\ coinsdb' = FlushedCoins
  /\ dbBest' = tipBest
  /\ tip' = NoEntries

\* fPeriodicWrite alone: the index without the coins.
WriteIndex ==
  /\ MayFlush
  /\ setDirtyBlockIndex # {}
  /\ IndexWritten
  /\ UNCHANGED <<coinsdb, dbBest, tip, tipBest, view, chainActive, job, undo>>

FlushStateToDisk ==
  /\ MayFlush
  /\ IndexWritten
  /\ CoinsWritten
  /\ UNCHANGED <<tipBest, view, chainActive, job, undo>>

\* CheckDiskSpace fails before either write: AbortNode, with all caches intact.
LowDiskSpace ==
  /\ MayFlush
  /\ IndexWritten \/ UNCHANGED <<undoOnDisk, setDirtyBlockIndex>>
  /\ job' = [job EXCEPT !.op = "full"]
  /\ UNCHANGED <<coinsdb, dbBest, tip, tipBest, view, chainActive, undo>>

\* The index batch fails, after its entries left setDirtyBlockIndex: AbortNode.
IndexWriteFails ==
  /\ MayFlush
  /\ setDirtyBlockIndex' = {}
  /\ job' = [job EXCEPT !.op = "abort"]
  /\ UNCHANGED <<disk, tip, tipBest, view, chainActive, undo>>

\* The coin batch fails, after its entries left cacheCoins: AbortNode.
CoinsWriteFails ==
  /\ MayFlush
  /\ IndexWritten
  /\ tip' = NoEntries
  /\ job' = [job EXCEPT !.op = "abort"]
  /\ UNCHANGED <<coinsdb, dbBest, tipBest, view, chainActive, undo>>

\* A start-up on the given database: LoadBlockIndexDB.
LoadedFrom(best, undos) ==
  /\ tip' = NoEntries
  /\ tipBest' = best
  /\ view' = NoEntries
  /\ chainActive' = best
  /\ job' = Idle
  /\ undo' = undos
  /\ setDirtyBlockIndex' = {}

\* The process dies, or PrepareShutdown could not write either; it starts again.
Crash ==
  /\ LoadedFrom(dbBest, undoOnDisk)
  /\ UNCHANGED disk

\* PrepareShutdown flushes whatever pcoinsTip holds, after an abort too.
Shutdown ==
  /\ job.op \in {"idle", "full"} \/ (job.op = "abort" /\ TransientErrors)
  /\ undoOnDisk' = FlushedIndex
  /\ coinsdb' = FlushedCoins
  /\ dbBest' = tipBest
  /\ LoadedFrom(tipBest, FlushedIndex)

Next ==
  \/ \E o \in Outpoints : FetchToTip(o) \/ UncacheFromTip(o)
  \/ \E b \in Blocks : BeginConnect(b) \/ RejectDuplicate(b)
  \/ ConnectTx
  \/ RejectMissingInputs
  \/ AbandonBlock
  \/ FinishConnect
  \/ BeginDisconnect
  \/ DisconnectTx
  \/ FinishDisconnect
  \/ UpdateTip
  \/ WriteIndex
  \/ FlushStateToDisk
  \/ LowDiskSpace
  \/ IndexWriteFails
  \/ CoinsWriteFails
  \/ Crash
  \/ Shutdown

Spec == Init /\ [][Next]_vars
----------------------------------------------------------------------------
\* The reference: what is unspent after a block, told from the chain alone.

\* After the first i transactions of b, from the coins s before it.
After(b, i, s) ==
  [o \in Outpoints |->
     IF \E j \in 1..i : o \in Vtx[b][j].ins THEN Spent
     ELSE IF \E j \in 1..i : o \in Vtx[b][j].outs
          THEN CoinOf(b, CHOOSE j \in 1..i : o \in Vtx[b][j].outs)
          ELSE s[o]]

Touching(b, o) == {a \in Chain[b] : o \in Ins(a) \cup Outs(a)}

Last(b, o) ==
  CHOOSE a \in Touching(b, o) : \A c \in Touching(b, o) : Height[c] <= Height[a]

\* The last block of the chain that touches an output decides it.
CoinsAt(b) ==
  [o \in Outpoints |-> IF Touching(b, o) = {} THEN RootCoins[o]
                       ELSE After(Last(b, o), Len(Vtx[Last(b, o)]), NoCoins)[o]]

TypeOK ==
  /\ coinsdb \in Coins
  /\ dbBest \in Blocks /\ tipBest \in Blocks /\ chainActive \in Blocks
  /\ tip \in [Outpoints -> Entry \cup {Absent}]
  /\ view \in [Outpoints -> Entry \cup {Absent}]
  /\ job \in Job
  /\ undo \in [Blocks -> Coins \cup {Null}]
  /\ undoOnDisk \in [Blocks -> Coins \cup {Null}]
  /\ setDirtyBlockIndex \subseteq Blocks

\* No call sequence of ConnectTip and DisconnectTip throws a logic_error of
\* AddCoin or BatchWrite, trips an assertion on the best block, misses its undo
\* data or finds the coins inconsistent with the block (DISCONNECT_UNCLEAN).
NoLogicErrors == job.op # "error"

\* pcoinsTip answers with the coins of the block it names, whatever was fetched,
\* uncached, flushed, abandoned half way or lost in a crash before; after a
\* failed write it may not, and the node only shuts down.
TipMatchesItsBlock ==
  job.op # "abort" => \A o \in Outpoints : TipCoin(o) = CoinsAt(tipBest)[o]

\* The database holds exactly the coins of its DB_BEST_BLOCK at every instant a
\* crash may fall: GetBestBlock is "the block hash whose state this CCoinsView
\* currently represents" (coins.h).
DiskMatchesItsBlock == \A o \in Outpoints : coinsdb[o] = CoinsAt(dbBest)[o]

\* Every block the database could be asked to undo after a restart has its undo
\* data on disk: FlushStateToDisk writes the index before the coins.
UndoDataSurvives == \A b \in Chain[dbBest] : undoOnDisk[b] # Null

\* DIRTY and FRESH mean what coins.h says of them, in both caches: FRESH only
\* over a base without the coin, and an entry that is not DIRTY equals the base.
FlagsAreSound ==
  \A o \in Outpoints : /\ job.op # "abort" => FlagsSound(tip[o], coinsdb[o])
                       /\ FlagsSound(view[o], TipCoin(o))
============================================================================

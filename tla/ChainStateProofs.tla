------------------------- MODULE ChainStateProofs -------------------------
(***************************************************************************)
(* The caches, the database and the undo data agree with the block chain,  *)
(* for every block tree and every sequence of blocks, flushes, failed      *)
(* writes and crashes, provided a database that failed a write accepts no  *)
(* further one before the restart.                                         *)
(***************************************************************************)
EXTENDS ChainState, TLAPS

USE Zenon

MaybeCoin == Coin \cup {Spent}
MaybeEntry == Entry \cup {Absent}

\* FetchCoin changes neither the answer nor the soundness of the flags.
LEMMA FetchKeeps ==
  ASSUME NEW e \in MaybeEntry, NEW base \in MaybeCoin, FlagsSound(e, base)
  PROVE  /\ FetchCoin(e, base) \in MaybeEntry
         /\ Lookup(FetchCoin(e, base), base) = Lookup(e, base)
         /\ FlagsSound(FetchCoin(e, base), base)
<1>1. CASE e # Absent
  BY <1>1 DEF FetchCoin
<1>2. CASE e = Absent /\ base = Spent
  BY <1>2 DEF FetchCoin
<1>3. CASE e = Absent /\ base # Spent
  <2> DEFINE f == [coin |-> base, dirty |-> FALSE, fresh |-> FALSE]
  <2>1. FetchCoin(e, base) = f
    BY <1>3 DEF FetchCoin
  <2>2. f \in Entry
    BY DEF MaybeCoin, Entry
  <2>4. f # Absent
    BY <2>2, Distinct
  <2>3. f.coin = base /\ f.dirty = FALSE /\ f.fresh = FALSE
    OBVIOUS
  <2> QED BY <1>3, <2>1, <2>2, <2>3, <2>4 DEF MaybeEntry, Lookup, FlagsSound
<1> QED BY <1>1, <1>2, <1>3

\* SpendCoin of a fetched entry leaves the output spent.
LEMMA SpendSpends ==
  ASSUME NEW e \in MaybeEntry, NEW base \in MaybeCoin, FlagsSound(e, base)
  PROVE  /\ SpendCoin(FetchCoin(e, base)) \in MaybeEntry
         /\ Lookup(SpendCoin(FetchCoin(e, base)), base) = Spent
         /\ FlagsSound(SpendCoin(FetchCoin(e, base)), base)
<1> DEFINE f == FetchCoin(e, base)
           g == [f EXCEPT !.coin = Spent, !.dirty = TRUE]
<1>1. f \in MaybeEntry /\ FlagsSound(f, base)
  BY FetchKeeps
<1>2. f = Absent => base = Spent
  <2> SUFFICES ASSUME base # Spent
               PROVE  f # Absent
    OBVIOUS
  <2> DEFINE copy == [coin |-> base, dirty |-> FALSE, fresh |-> FALSE]
  <2>1. copy \in Entry
    BY DEF Entry, MaybeCoin
  <2>2. copy # Absent
    BY <2>1, Distinct
  <2>3. CASE e = Absent
    BY <2>2, <2>3 DEF FetchCoin
  <2>4. CASE e # Absent
    BY <2>4 DEF FetchCoin
  <2> QED BY <2>3, <2>4
<1> HIDE DEF f
<1>3. CASE f = Absent \/ (f # Absent /\ f.fresh)
  <2>1. SpendCoin(f) = Absent
    BY <1>3 DEF SpendCoin
  <2>2. base = Spent
    BY <1>1, <1>2, <1>3 DEF FlagsSound
  <2> QED BY <2>1, <2>2 DEF MaybeEntry, Lookup, FlagsSound, f
<1>4. CASE f # Absent /\ ~f.fresh
  <2>1. SpendCoin(f) = g
    BY <1>4 DEF SpendCoin
  <2>2. g \in Entry /\ g.coin = Spent /\ g.dirty = TRUE /\ g.fresh = f.fresh
    BY <1>1, <1>4 DEF MaybeEntry, Entry
  <2>3. g # Absent
    BY <2>2, Distinct
  <2> HIDE DEF g
  <2>4. SpendCoin(f) \in MaybeEntry
    BY <2>1, <2>2 DEF MaybeEntry
  <2>5. Lookup(SpendCoin(f), base) = Spent
    BY <2>1, <2>2, <2>3 DEF Lookup
  <2>6. FlagsSound(SpendCoin(f), base)
    BY <1>4, <2>1, <2>2, <2>3 DEF FlagsSound
  <2> QED BY <2>4, <2>5, <2>6 DEF f
<1> QED BY <1>3, <1>4

\* AddCoin over an output that reads as spent neither throws nor misuses FRESH.
LEMMA AddAdds ==
  ASSUME NEW e \in MaybeEntry, NEW base \in MaybeCoin, FlagsSound(e, base),
         NEW c \in Coin, NEW ow \in BOOLEAN, Lookup(e, base) = Spent
  PROVE  /\ AddCoin(e, c, ow) \in MaybeEntry
         /\ Lookup(AddCoin(e, c, ow), base) = c
         /\ FlagsSound(AddCoin(e, c, ow), base)
         /\ ~AddThrows(e, ow)
<1> DEFINE m == Emplaced(e)
           a == AddCoin(e, c, ow)
<1>1. m \in Entry /\ m.coin = Spent
  BY Distinct DEF Emplaced, NewEntry, Entry, MaybeEntry, Lookup
<1>2. m.fresh \/ ~m.dirty => base = Spent
  BY Distinct DEF Emplaced, NewEntry, Entry, MaybeEntry, Lookup, FlagsSound
<1>3. ~AddThrows(e, ow)
  BY <1>1 DEF AddThrows
<1> HIDE DEF m
<1>4. a = [coin |-> c, dirty |-> TRUE, fresh |-> m.fresh \/ (~ow /\ ~m.dirty)]
  BY DEF AddCoin, m
<1>5. (m.fresh \/ (~ow /\ ~m.dirty)) \in BOOLEAN
  BY <1>1 DEF Entry
<1>6. /\ a \in Entry
      /\ a.coin = c /\ a.dirty = TRUE
      /\ a.fresh = (m.fresh \/ (~ow /\ ~m.dirty))
  BY <1>4, <1>5, SMT DEF Entry
<1> HIDE DEF a
<1>7. a # Absent /\ c # Spent
  BY <1>6, Distinct
<1>8. FlagsSound(a, base)
  BY <1>2, <1>6, <1>7 DEF FlagsSound
<1>9. a \in MaybeEntry /\ Lookup(a, base) = c
  BY <1>6, <1>7 DEF MaybeEntry, Lookup
<1> QED BY <1>3, <1>8, <1>9 DEF a

\* BatchWrite leaves the parent answering what the child answered.
LEMMA WriteMoves ==
  ASSUME NEW us \in MaybeEntry, NEW e \in MaybeEntry, NEW base \in MaybeCoin,
         FlagsSound(us, base), FlagsSound(e, Lookup(us, base))
  PROVE  /\ BatchWrite(us, e) \in MaybeEntry
         /\ Lookup(BatchWrite(us, e), base) = Lookup(e, Lookup(us, base))
         /\ FlagsSound(BatchWrite(us, e), base)
         /\ ~WriteThrows(us, e)
<1> DEFINE w == BatchWrite(us, e)
           m == [us EXCEPT !.coin = e.coin, !.dirty = TRUE]
<1>1. ~WriteThrows(us, e)
  BY DEF WriteThrows, FlagsSound, Lookup
<1>2. CASE e = Absent \/ (e # Absent /\ ~e.dirty)
  <2>1. w = us
    BY <1>2 DEF BatchWrite
  <2>2. Lookup(e, Lookup(us, base)) = Lookup(us, base)
    BY <1>2 DEF Lookup, FlagsSound
  <2> QED BY <1>1, <2>1, <2>2
<1>3. CASE e # Absent /\ e.dirty /\ us = Absent
  <2>1. e.fresh => e.coin # Spent
    BY <1>3 DEF FlagsSound
  <2>2. w = e
    BY <1>3, <2>1 DEF BatchWrite
  <2> QED BY <1>1, <1>3, <2>2 DEF Lookup
<1>4. CASE e # Absent /\ e.dirty /\ us # Absent /\ us.fresh /\ e.coin = Spent
  <2>1. w = Absent
    BY <1>4 DEF BatchWrite
  <2>2. base = Spent
    BY <1>4 DEF FlagsSound
  <2> QED BY <1>1, <1>4, <2>1, <2>2 DEF Lookup, FlagsSound, MaybeEntry
<1>5. CASE e # Absent /\ e.dirty /\ us # Absent /\ ~(us.fresh /\ e.coin = Spent)
  <2>1. w = m
    BY <1>5 DEF BatchWrite
  <2>2. e \in Entry /\ us \in Entry
    BY <1>5 DEF MaybeEntry
  <2>3. m \in Entry /\ m.coin = e.coin /\ m.dirty = TRUE /\ m.fresh = us.fresh
    BY <2>2 DEF Entry
  <2>4. m # Absent
    BY <2>3, Distinct
  <2> HIDE DEF m
  <2>5. FlagsSound(m, base)
    BY <1>5, <2>3, <2>4 DEF FlagsSound
  <2>6. Lookup(m, base) = Lookup(e, Lookup(us, base))
    BY <1>5, <2>3, <2>4 DEF Lookup
  <2> QED BY <1>1, <2>1, <2>3, <2>5, <2>6 DEF MaybeEntry
<1> QED BY <1>2, <1>3, <1>4, <1>5 DEF MaybeEntry

\* The database batch leaves the database answering what the cache answered.
LEMMA DbWriteMoves ==
  ASSUME NEW e \in MaybeEntry, NEW base \in MaybeCoin, FlagsSound(e, base)
  PROVE  DbWrite(base, e) = Lookup(e, base) /\ DbWrite(base, e) \in MaybeCoin
BY DEF DbWrite, Lookup, FlagsSound, MaybeEntry, MaybeCoin, Entry

\* Uncache gives up only what the base still has.
LEMMA UncacheKeeps ==
  ASSUME NEW e \in MaybeEntry, NEW base \in MaybeCoin, FlagsSound(e, base)
  PROVE  /\ Uncache(e) \in MaybeEntry
         /\ Lookup(Uncache(e), base) = Lookup(e, base)
         /\ FlagsSound(Uncache(e), base)
BY DEF Uncache, Lookup, FlagsSound, MaybeEntry

\* What a cache answers is a coin or nothing.
LEMMA LookupType ==
  ASSUME NEW e \in MaybeEntry, NEW base \in MaybeCoin
  PROVE  Lookup(e, base) \in MaybeCoin
BY DEF Lookup, MaybeEntry, MaybeCoin, Entry

\* The inputs of the first n transactions of b are there when they are spent, and
\* no output of b is there before the block.
Valid(b, n) ==
  /\ b # Root
  /\ CoinsAt(Parent[b]) \in Coins
  /\ \A o \in Outs(b) : CoinsAt(Parent[b])[o] = Spent
  /\ \A i \in 1..n : \A o \in Vtx[b][i].ins :
       After(b, i - 1, CoinsAt(Parent[b]))[o] # Spent

\* s has the coins the first n transactions of b spent.
SpentBy(b, n, s) ==
  \A i \in 1..n : \A o \in Vtx[b][i].ins :
     s[o] = After(b, i - 1, CoinsAt(Parent[b]))[o]

UndoOK(b, s) == Valid(b, Len(Vtx[b])) /\ SpentBy(b, Len(Vtx[b]), s)

DiskInv ==
  /\ coinsdb = CoinsAt(dbBest)
  /\ \A b \in Chain[dbBest] : undoOnDisk[b] # Null
  /\ \A b \in Blocks : undoOnDisk[b] # Null => UndoOK(b, undoOnDisk[b])

UndoInv ==
  /\ \A b \in Chain[tipBest] : undo[b] # Null
  /\ \A b \in Blocks : undo[b] # Null => UndoOK(b, undo[b])
  /\ \A b \in Blocks : undoOnDisk[b] # Null => undo[b] # Null
  /\ job.op # "abort" =>
       \A b \in Blocks : undo[b] # Null =>
          b \in setDirtyBlockIndex \/ undoOnDisk[b] # Null
  /\ \A b \in setDirtyBlockIndex : undo[b] # Null

TipInv ==
  job.op # "abort" =>
    \A o \in Outpoints : /\ TipCoin(o) = CoinsAt(tipBest)[o]
                         /\ FlagsSound(tip[o], coinsdb[o])

ViewInv ==
  /\ \A o \in Outpoints : FlagsSound(view[o], TipCoin(o))
  /\ job.op \in {"idle", "settle", "full", "abort"} => view = NoEntries
  /\ job.op = "idle" => job = Idle
  /\ job.op \in {"idle", "connect", "disconnect"} => chainActive = tipBest

ConnectInv ==
  job.op = "connect" =>
    /\ job.i \in 0..Len(Vtx[job.block])
    /\ Valid(job.block, job.i)
    /\ Parent[job.block] = tipBest
    /\ SpentBy(job.block, job.i, job.spent)
    /\ \A o \in Outpoints :
         ViewCoin(o) = After(job.block, job.i, CoinsAt(tipBest))[o]

DisconnectInv ==
  job.op = "disconnect" =>
    /\ job.i \in 0..Len(Vtx[job.block])
    /\ job.block = tipBest
    /\ UndoOK(job.block, job.spent)
    /\ \A o \in Outpoints :
         ViewCoin(o) = After(job.block, job.i, CoinsAt(Parent[job.block]))[o]

\* The inductive invariant.
IInv ==
  /\ TypeOK /\ NoLogicErrors /\ DiskInv /\ UndoInv
  /\ TipInv /\ ViewInv /\ ConnectInv /\ DisconnectInv
----------------------------------------------------------------------------
\* The transactions of a block are well typed, and so are the coins they create.
LEMMA BodyFacts ==
  ASSUME NEW b \in Blocks, NEW i \in 1..Len(Vtx[b])
  PROVE  /\ Vtx[b][i].ins \subseteq Outpoints
         /\ Vtx[b][i].outs \subseteq Outpoints
         /\ Vtx[b][i].coinbase \in BOOLEAN
         /\ CoinOf(b, i) \in Coin
         /\ CoinOf(b, i) # Spent
<1>1. Vtx[b][i] \in Tx
  BY BodyAssumption, SMT
<1>2. CoinOf(b, i) \in Coin
  BY <1>1, TreeAssumption DEF CoinOf, Coin, Tx
<1> QED BY <1>1, <1>2, Distinct DEF Tx

\* At most one transaction of a block creates an output.
LEMMA CreatorIsUnique ==
  ASSUME NEW b \in Blocks, NEW n \in 0..Len(Vtx[b]), NEW k \in 1..n,
         NEW o \in Vtx[b][k].outs
  PROVE  (CHOOSE j \in 1..n : o \in Vtx[b][j].outs) = k
<1>1. Len(Vtx[b]) \in Nat
  BY BodyAssumption, SMT
<1>2. \A j \in 1..n : o \in Vtx[b][j].outs => j = k
  <2> SUFFICES ASSUME NEW j \in 1..n, o \in Vtx[b][j].outs, j # k
               PROVE  FALSE
    OBVIOUS
  <2>1. j \in 1..Len(Vtx[b]) /\ k \in 1..Len(Vtx[b])
    BY <1>1, SMT
  <2>2. Vtx[b][j].outs \cap Vtx[b][k].outs = {}
    BY <2>1, BodyAssumption
  <2> QED BY <2>2
<1> DEFINE P(j) == o \in Vtx[b][j].outs
<1>3. P(k) /\ \A j \in 1..n : P(j) => j = k
  BY <1>2
<1> HIDE DEF P
<1>4. (CHOOSE j \in 1..n : P(j)) = k
  BY <1>3
<1> QED BY <1>4 DEF P

\* The reference evaluated at one output, case by case.
LEMMA AfterCases ==
  ASSUME NEW b \in Blocks, NEW n \in 0..Len(Vtx[b]), NEW s \in Coins,
         NEW o \in Outpoints
  PROVE  /\ \A j \in 1..n : o \in Vtx[b][j].ins => After(b, n, s)[o] = Spent
         /\ \A j \in 1..n :
              o \in Vtx[b][j].outs /\ (\A k \in 1..n : o \notin Vtx[b][k].ins)
              => After(b, n, s)[o] = CoinOf(b, j)
         /\ (\A j \in 1..n : o \notin Vtx[b][j].ins \cup Vtx[b][j].outs)
              => After(b, n, s)[o] = s[o]
<1> DEFINE c == CHOOSE j \in 1..n : o \in Vtx[b][j].outs
<1>1. After(b, n, s)[o] = IF \E j \in 1..n : o \in Vtx[b][j].ins THEN Spent
                          ELSE IF \E j \in 1..n : o \in Vtx[b][j].outs
                               THEN CoinOf(b, c) ELSE s[o]
  BY DEF After
<1>2. \A j \in 1..n : o \in Vtx[b][j].outs => c = j
  BY CreatorIsUnique
<1> HIDE DEF c
<1> QED BY <1>1, <1>2

\* The reference only answers coins or Spent.
LEMMA AfterType ==
  ASSUME NEW b \in Blocks, NEW n \in 0..Len(Vtx[b]), NEW s \in Coins
  PROVE  After(b, n, s) \in Coins
<1>1. Len(Vtx[b]) \in Nat
  BY BodyAssumption, SMT
<1>2. ASSUME NEW o \in Outpoints
      PROVE  After(b, n, s)[o] \in Coin \cup {Spent}
  <2>1. CASE \E j \in 1..n : o \in Vtx[b][j].ins
    BY <2>1, AfterCases, SMT
  <2>2. CASE /\ \A j \in 1..n : o \notin Vtx[b][j].ins
             /\ \E j \in 1..n : o \in Vtx[b][j].outs
    <3>1. PICK j \in 1..n : o \in Vtx[b][j].outs
      BY <2>2
    <3>2. j \in 1..Len(Vtx[b])
      BY <1>1, SMT
    <3> QED BY <2>2, <3>1, <3>2, AfterCases, BodyFacts, SMT
  <2>3. CASE \A j \in 1..n : o \notin Vtx[b][j].ins \cup Vtx[b][j].outs
    BY <2>3, AfterCases, SMT DEF Coins
  <2> QED BY <2>1, <2>2, <2>3
<1>3. After(b, n, s) = [o \in Outpoints |-> After(b, n, s)[o]]
  BY DEF After
<1> QED BY <1>2, <1>3 DEF Coins

\* Before the first transaction the reference is the state before the block.
LEMMA AfterNone ==
  ASSUME NEW b \in Blocks, NEW s \in Coins, NEW o \in Outpoints
  PROVE  After(b, 0, s)[o] = s[o]
<1>1. 0 \in 0..Len(Vtx[b])
  BY BodyAssumption, SMT
<1> QED BY <1>1, AfterCases, SMT

\* One more transaction spends its inputs and creates its outputs, which were not
\* there: the check of BIP30 and HaveInputs together exclude everything else.
LEMMA AfterStep ==
  ASSUME NEW b \in Blocks, NEW n \in 1..Len(Vtx[b]), NEW s \in Coins,
         NEW o \in Outpoints,
         \A x \in Outs(b) : s[x] = Spent,
         \A i \in 1..(n - 1) : \A x \in Vtx[b][i].ins : After(b, i - 1, s)[x] # Spent
  PROVE  /\ o \in Vtx[b][n].ins => After(b, n, s)[o] = Spent
         /\ o \in Vtx[b][n].outs => /\ After(b, n, s)[o] = CoinOf(b, n)
                                   /\ After(b, n - 1, s)[o] = Spent
         /\ o \notin Vtx[b][n].ins \cup Vtx[b][n].outs
              => After(b, n, s)[o] = After(b, n - 1, s)[o]
<1>1. Len(Vtx[b]) \in Nat
  BY BodyAssumption, SMT
<1>2. n \in 0..Len(Vtx[b]) /\ n - 1 \in 0..Len(Vtx[b]) /\ n \in 1..n
  BY <1>1, SMT
<1>3. o \in Vtx[b][n].ins => After(b, n, s)[o] = Spent
  BY <1>2, AfterCases
<1>4. ASSUME o \in Vtx[b][n].outs
      PROVE  After(b, n, s)[o] = CoinOf(b, n) /\ After(b, n - 1, s)[o] = Spent
  <2>1. s[o] = Spent
    BY <1>4 DEF Outs
  <2>2. \A j \in 1..(n - 1) : o \notin Vtx[b][j].outs
    <3> SUFFICES ASSUME NEW j \in 1..(n - 1) PROVE o \notin Vtx[b][j].outs
      OBVIOUS
    <3>1. j \in 1..Len(Vtx[b]) /\ j # n
      BY <1>1, SMT
    <3> QED BY <1>4, <3>1, BodyAssumption
  <2>3. \A j \in 1..(n - 1) : o \notin Vtx[b][j].ins
    <3> SUFFICES ASSUME NEW j \in 1..(n - 1), o \in Vtx[b][j].ins PROVE FALSE
      OBVIOUS
    <3>1. After(b, j - 1, s)[o] # Spent
      OBVIOUS
    <3>2. j - 1 \in 0..Len(Vtx[b]) /\ 1..(j - 1) \subseteq 1..(n - 1)
      BY <1>1, SMT
    <3>3. \A k \in 1..(j - 1) : o \notin Vtx[b][k].outs
      BY <2>2, <3>2
    <3>4. CASE \E k \in 1..(j - 1) : o \in Vtx[b][k].ins
      BY <3>1, <3>2, <3>4, AfterCases
    <3>5. CASE \A k \in 1..(j - 1) : o \notin Vtx[b][k].ins
      <4>1. After(b, j - 1, s)[o] = s[o]
        BY <3>2, <3>3, <3>5, AfterCases, SMT
      <4> QED BY <2>1, <3>1, <4>1
    <3> QED BY <3>4, <3>5
  <2>4. o \notin Vtx[b][n].ins
    BY <1>4, BodyAssumption
  <2>5. \A k \in 1..n : o \notin Vtx[b][k].ins
    <3> SUFFICES ASSUME NEW k \in 1..n PROVE o \notin Vtx[b][k].ins
      OBVIOUS
    <3>1. k = n \/ k \in 1..(n - 1)
      BY <1>1, SMT
    <3> QED BY <2>3, <2>4, <3>1
  <2>6. After(b, n, s)[o] = CoinOf(b, n)
    BY <1>2, <1>4, <2>5, AfterCases
  <2>7. After(b, n - 1, s)[o] = s[o]
    BY <1>2, <2>2, <2>3, AfterCases
  <2> QED BY <2>1, <2>6, <2>7
<1>5. ASSUME o \notin Vtx[b][n].ins \cup Vtx[b][n].outs
      PROVE  After(b, n, s)[o] = After(b, n - 1, s)[o]
  <2>1. \A k \in 1..n : k = n \/ k \in 1..(n - 1)
    BY <1>1, SMT
  <2>2. 1..(n - 1) \subseteq 1..n
    BY <1>1, SMT
  <2>3. CASE \E j \in 1..(n - 1) : o \in Vtx[b][j].ins
    BY <1>2, <2>2, <2>3, AfterCases, SMT
  <2>4. CASE /\ \A j \in 1..(n - 1) : o \notin Vtx[b][j].ins
             /\ \E j \in 1..(n - 1) : o \in Vtx[b][j].outs
    <3>1. PICK j \in 1..(n - 1) : o \in Vtx[b][j].outs
      BY <2>4
    <3>2. \A k \in 1..n : o \notin Vtx[b][k].ins
      BY <1>5, <2>1, <2>4
    <3>3. After(b, n, s)[o] = CoinOf(b, j)
      BY <1>2, <2>2, <3>1, <3>2, AfterCases, SMT
    <3>4. After(b, n - 1, s)[o] = CoinOf(b, j)
      BY <1>2, <2>4, <3>1, AfterCases, SMT
    <3> QED BY <3>3, <3>4
  <2>5. CASE \A j \in 1..(n - 1) : o \notin Vtx[b][j].ins \cup Vtx[b][j].outs
    <3>1. \A k \in 1..n : o \notin Vtx[b][k].ins \cup Vtx[b][k].outs
      BY <1>5, <2>1, <2>5
    <3>2. After(b, n, s)[o] = s[o]
      BY <1>2, <3>1, AfterCases, SMT
    <3>3. After(b, n - 1, s)[o] = s[o]
      BY <1>2, <2>5, AfterCases
    <3> QED BY <3>2, <3>3
  <2> QED BY <2>3, <2>4, <2>5
<1> QED BY <1>3, <1>4, <1>5

\* Connecting a block to its parent's coins gives the coins of the block.
LEMMA CoinsAtStep ==
  ASSUME NEW b \in Blocks \ {Root}, NEW o \in Outpoints,
         CoinsAt(Parent[b]) \in Coins
  PROVE  CoinsAt(b)[o] = After(b, Len(Vtx[b]), CoinsAt(Parent[b]))[o]
<1> DEFINE p == Parent[b]
           n == Len(Vtx[b])
<1>1. p \in Blocks /\ n \in Nat /\ n \in 0..n
  BY TreeAssumption, BodyAssumption, SMT
<1>2. NoCoins \in Coins
  BY DEF NoCoins, Coins
<1>3. Chain[b] = Chain[p] \cup {b}
  BY TreeAssumption
<1>4. CASE o \in Ins(b) \cup Outs(b)
  <2>1. b \in Touching(b, o)
    BY <1>3, <1>4 DEF Touching
  <2>2. \A c \in Touching(b, o) : c = b \/ Height[c] < Height[b]
    BY <1>3, TreeAssumption DEF Touching
  <2>3. \A c \in Touching(b, o) : Height[c] \in Nat
    BY TreeAssumption DEF Touching
  <2>4. Last(b, o) = b
    <3> DEFINE P(a) == \A c \in Touching(b, o) : Height[c] <= Height[a]
    <3>1. P(b)
      BY <2>1, <2>2, <2>3, SMT
    <3>2. \A a \in Touching(b, o) : P(a) => a = b
      BY <2>1, <2>2, <2>3, SMT
    <3> HIDE DEF P
    <3>3. (CHOOSE a \in Touching(b, o) : P(a)) = b
      BY <2>1, <3>1, <3>2
    <3> QED BY <3>3 DEF Last, P
  <2>5. CoinsAt(b)[o] = After(b, n, NoCoins)[o]
    BY <2>1, <2>4 DEF CoinsAt
  <2>6. \E j \in 1..n : o \in Vtx[b][j].ins \cup Vtx[b][j].outs
    BY <1>4 DEF Ins, Outs
  <2>7. CASE \E j \in 1..n : o \in Vtx[b][j].ins
    BY <1>1, <1>2, <2>5, <2>7, AfterCases, SMT
  <2>8. CASE \A j \in 1..n : o \notin Vtx[b][j].ins
    <3>1. PICK j \in 1..n : o \in Vtx[b][j].outs
      BY <2>6, <2>8
    <3>2. After(b, n, NoCoins)[o] = CoinOf(b, j)
      BY <1>1, <1>2, <2>8, <3>1, AfterCases, SMT
    <3>3. After(b, n, CoinsAt(p))[o] = CoinOf(b, j)
      BY <1>1, <2>8, <3>1, AfterCases, SMT
    <3> QED BY <2>5, <3>2, <3>3
  <2> QED BY <2>7, <2>8
<1>5. CASE o \notin Ins(b) \cup Outs(b)
  <2>1. Touching(b, o) = Touching(p, o)
    BY <1>3, <1>5 DEF Touching
  <2>2. Last(b, o) = Last(p, o)
    BY <2>1 DEF Last
  <2>3. CoinsAt(b)[o] = CoinsAt(p)[o]
    BY <2>1, <2>2 DEF CoinsAt
  <2>4. \A j \in 1..n : o \notin Vtx[b][j].ins \cup Vtx[b][j].outs
    BY <1>5 DEF Ins, Outs
  <2>5. After(b, n, CoinsAt(p))[o] = CoinsAt(p)[o]
    BY <1>1, <2>4, AfterCases, SMT
  <2> QED BY <2>3, <2>5
<1> QED BY <1>4, <1>5

\* At the root the reference is the given coin set.
LEMMA CoinsAtRoot == CoinsAt(Root) = RootCoins
<1>1. \A o \in Outpoints : CoinsAt(Root)[o] = RootCoins[o]
  BY TreeAssumption DEF CoinsAt, Touching
<1>2. CoinsAt(Root) = [o \in Outpoints |-> CoinsAt(Root)[o]]
  BY DEF CoinsAt
<1>3. RootCoins = [o \in Outpoints |-> RootCoins[o]]
  BY RootAssumption DEF Coins
<1> QED BY <1>1, <1>2, <1>3
----------------------------------------------------------------------------
\* What the caches answer is a coin or nothing.
LEMMA ReadingsTyped ==
  ASSUME TypeOK, NEW o \in Outpoints
  PROVE  /\ coinsdb[o] \in MaybeCoin
         /\ tip[o] \in MaybeEntry /\ view[o] \in MaybeEntry
         /\ TipCoin(o) \in MaybeCoin /\ ViewCoin(o) \in MaybeCoin
<1>1. coinsdb[o] \in MaybeCoin /\ tip[o] \in MaybeEntry /\ view[o] \in MaybeEntry
  BY DEF TypeOK, Coins, MaybeCoin, MaybeEntry
<1>2. TipCoin(o) \in MaybeCoin
  BY <1>1, LookupType DEF TipCoin
<1>3. ViewCoin(o) \in MaybeCoin
  BY <1>1, <1>2, LookupType DEF ViewCoin
<1> QED BY <1>1, <1>2, <1>3

\* While pcoinsTip is sound its block's coins are well typed.
LEMMA TipCoinsTyped ==
  ASSUME IInv, job.op # "abort"
  PROVE  CoinsAt(tipBest) \in Coins
<1>1. CoinsAt(tipBest) = [o \in Outpoints |-> CoinsAt(tipBest)[o]]
  BY DEF CoinsAt
<1>2. \A o \in Outpoints : CoinsAt(tipBest)[o] \in Coin \cup {Spent}
  BY ReadingsTyped DEF IInv, TipInv, MaybeCoin
<1> QED BY <1>1, <1>2 DEF Coins

\* A lookup that leaves copies in pcoinsTip changes no reading.
LEMMA TipFetchKeeps ==
  ASSUME IInv, job.op # "abort", NEW O \in SUBSET Outpoints,
         tip' = TipFetches(O), coinsdb' = coinsdb
  PROVE  /\ tip' \in [Outpoints -> Entry \cup {Absent}]
         /\ \A o \in Outpoints : TipCoin(o)' = TipCoin(o)
         /\ \A o \in Outpoints : FlagsSound(tip'[o], coinsdb'[o])
<1>1. ASSUME NEW o \in Outpoints
      PROVE  /\ tip'[o] \in MaybeEntry
             /\ Lookup(tip'[o], coinsdb[o]) = Lookup(tip[o], coinsdb[o])
             /\ FlagsSound(tip'[o], coinsdb[o])
  <2>1. FlagsSound(tip[o], coinsdb[o])
    BY DEF IInv, TipInv
  <2>2. coinsdb[o] \in MaybeCoin /\ tip[o] \in MaybeEntry
    BY ReadingsTyped DEF IInv
  <2>3. tip'[o] = FetchCoin(tip[o], coinsdb[o]) \/ tip'[o] = tip[o]
    BY DEF TipFetches
  <2> QED BY <2>1, <2>2, <2>3, FetchKeeps
<1>2. tip' = [o \in Outpoints |-> tip'[o]]
  BY DEF TipFetches
<1>3. tip' \in [Outpoints -> Entry \cup {Absent}]
  BY <1>1, <1>2 DEF MaybeEntry
<1> QED BY <1>1, <1>3 DEF TipCoin

\* The parts of the invariant that only read through pcoinsTip survive any step
\* that changes no reading of it.
LEMMA SameReadings ==
  ASSUME IInv, job.op # "abort", job'.op # "abort",
         UNCHANGED <<disk, tipBest, chainActive, undo, setDirtyBlockIndex>>,
         \A o \in Outpoints : TipCoin(o)' = TipCoin(o),
         \A o \in Outpoints : FlagsSound(tip'[o], coinsdb'[o])
  PROVE  DiskInv' /\ UndoInv' /\ TipInv'
<1>1. DiskInv'
  BY DEF IInv, DiskInv, disk
<1>2. UndoInv'
  BY DEF IInv, UndoInv, disk
<1>3. TipInv'
  BY DEF IInv, TipInv, disk
<1> QED BY <1>1, <1>2, <1>3

\* A step that only touches copies in pcoinsTip between blocks.
LEMMA QuietStep ==
  ASSUME IInv, job = Idle,
         UNCHANGED <<disk, tipBest, view, chainActive, job, undo, setDirtyBlockIndex>>,
         tip' \in [Outpoints -> Entry \cup {Absent}],
         \A o \in Outpoints : TipCoin(o)' = TipCoin(o),
         \A o \in Outpoints : FlagsSound(tip'[o], coinsdb'[o])
  PROVE  IInv'
<1>1. job.op = "idle" /\ job' = job
  BY DEF Idle, JobAt
<1>2. DiskInv' /\ UndoInv' /\ TipInv'
  BY <1>1, SameReadings
<1>3. TypeOK' /\ NoLogicErrors'
  BY DEF IInv, TypeOK, NoLogicErrors, disk
<1>4. ViewInv'
  BY <1>1 DEF IInv, ViewInv
<1>5. ConnectInv' /\ DisconnectInv'
  BY <1>1 DEF ConnectInv, DisconnectInv
<1> QED BY <1>2, <1>3, <1>4, <1>5 DEF IInv

\* A block given up: its view is dropped and pcoinsTip reads as before.
LEMMA DroppedView ==
  ASSUME IInv, job.op = "connect",
         UNCHANGED <<disk, tipBest, chainActive, undo, setDirtyBlockIndex>>,
         view' = NoEntries, job' = Idle,
         tip' \in [Outpoints -> Entry \cup {Absent}],
         \A o \in Outpoints : TipCoin(o)' = TipCoin(o),
         \A o \in Outpoints : FlagsSound(tip'[o], coinsdb'[o])
  PROVE  IInv'
<1>1. job'.op = "idle"
  BY DEF Idle, JobAt
<1>2. DiskInv' /\ UndoInv' /\ TipInv'
  BY <1>1, SameReadings
<1>3. view' \in [Outpoints -> Entry \cup {Absent}] /\ Idle \in Job
  BY TreeAssumption DEF NoEntries, Idle, JobAt, Job, NoCoins, Coins
<1>4. TypeOK' /\ NoLogicErrors'
  BY <1>1, <1>3 DEF IInv, TypeOK, NoLogicErrors, disk
<1>5. ViewInv'
  BY <1>1 DEF IInv, ViewInv, NoEntries, FlagsSound
<1>6. ConnectInv' /\ DisconnectInv'
  BY <1>1 DEF ConnectInv, DisconnectInv
<1> QED BY <1>2, <1>4, <1>5, <1>6 DEF IInv

\* The empty view reads like pcoinsTip, and its flags promise nothing.
LEMMA EmptyView ==
  ASSUME view = NoEntries, NEW o \in Outpoints
  PROVE  ViewCoin(o) = TipCoin(o) /\ FlagsSound(view[o], TipCoin(o))
BY DEF NoEntries, ViewCoin, Lookup, FlagsSound

\* A node that starts from the root satisfies the invariant.
LEMMA InitOK == Init => IInv
<1> SUFFICES ASSUME Init PROVE IInv
  OBVIOUS
<1>1. job.op = "idle" /\ Idle \in Job
  BY TreeAssumption DEF Init, Idle, JobAt, Job, NoCoins, Coins
<1>2. TypeOK /\ NoLogicErrors
  BY <1>1, TreeAssumption, RootAssumption DEF Init, TypeOK, NoLogicErrors, NoEntries
<1>3. DiskInv
  BY CoinsAtRoot, TreeAssumption DEF Init, DiskInv
<1>4. UndoInv
  BY TreeAssumption DEF Init, UndoInv
<1>5. TipInv
  BY CoinsAtRoot DEF Init, TipInv, TipCoin, Lookup, NoEntries, FlagsSound
<1>6. ViewInv
  BY <1>1, EmptyView DEF Init, ViewInv
<1>7. ConnectInv /\ DisconnectInv
  BY <1>1 DEF ConnectInv, DisconnectInv
<1> QED BY <1>2, <1>3, <1>4, <1>5, <1>6, <1>7 DEF IInv

\* The new view reads like pcoinsTip, and BIP30 held of every output.
LEMMA BeginConnectOK ==
  ASSUME IInv, NEW b \in Blocks, BeginConnect(b)
  PROVE  IInv'
<1> USE DEF BeginConnect
<1>1. job.op = "idle" /\ view = NoEntries /\ chainActive = tipBest
  BY DEF Idle, JobAt, IInv, ViewInv
<1>2. job' = JobAt("connect", b, 0, NoCoins)
  BY <1>1
<1>3. /\ job'.op = "connect" /\ job'.block = b /\ job'.i = 0 /\ job'.spent = NoCoins
      /\ job' \in Job
  BY <1>2, SMT DEF JobAt, Job, NoCoins, Coins
<1>4. \A o \in Outpoints : TipCoin(o)' = TipCoin(o) /\ ViewCoin(o)' = ViewCoin(o)
  BY DEF TipCoin, ViewCoin, disk
<1>5. \A o \in Outpoints : FlagsSound(tip'[o], coinsdb'[o])
  BY <1>1 DEF IInv, TipInv, disk
<1>6. DiskInv' /\ UndoInv' /\ TipInv'
  BY <1>1, <1>3, <1>4, <1>5, SameReadings
<1>7. TypeOK' /\ NoLogicErrors'
  BY <1>3 DEF IInv, TypeOK, NoLogicErrors, disk
<1>8. ViewInv'
  BY <1>1, <1>3, <1>4 DEF IInv, ViewInv
<1>9. CoinsAt(tipBest) \in Coins
  BY <1>1, TipCoinsTyped
<1>10. Valid(b, 0)
  <2>1. Outs(b) \subseteq Outpoints
    BY BodyFacts DEF Outs
  <2>2. \A o \in Outs(b) : CoinsAt(tipBest)[o] = Spent
    BY <1>1, <2>1 DEF IInv, TipInv, BIP30
  <2> QED BY <1>1, <1>9, <2>2, SMT DEF Valid
<1>11. ConnectInv'
  <2>1. \A o \in Outpoints : ViewCoin(o) = After(b, 0, CoinsAt(tipBest))[o]
    BY <1>1, <1>9, EmptyView, AfterNone DEF IInv, TipInv
  <2>2. 0 \in 0..Len(Vtx[b])
    BY BodyAssumption, SMT
  <2>3. SpentBy(b, 0, NoCoins)
    BY SMT DEF SpentBy
  <2> QED BY <1>1, <1>3, <1>4, <1>10, <2>1, <2>2, <2>3 DEF ConnectInv
<1>12. DisconnectInv'
  BY <1>3 DEF DisconnectInv
<1> QED BY <1>6, <1>7, <1>8, <1>11, <1>12 DEF IInv

\* UpdateCoins keeps the view at the reference, one transaction further.
LEMMA ConnectTxOK ==
  ASSUME IInv, ConnectTx
  PROVE  IInv'
<1> DEFINE b == job.block
           i == job.i + 1
           tx == Vtx[b][i]
           s == CoinsAt(tipBest)
<1>1. /\ job.op = "connect" /\ job.i < Len(Vtx[b]) /\ HaveInputs(tx)
      /\ tip' = TipFetches(tx.ins) /\ view' = UpdatedView(b, i)
      /\ UNCHANGED <<disk, tipBest, chainActive, undo, setDirtyBlockIndex>>
  BY DEF ConnectTx
<1>2. b \in Blocks /\ job \in Job /\ job.i \in Nat
  BY DEF IInv, TypeOK, Job
<1>3. Len(Vtx[b]) \in Nat /\ i \in 1..Len(Vtx[b]) /\ i - 1 = job.i
  BY <1>1, <1>2, BodyAssumption, SMT
<1>4. /\ Valid(b, job.i) /\ Parent[b] = tipBest /\ SpentBy(b, job.i, job.spent)
      /\ \A o \in Outpoints : ViewCoin(o) = After(b, job.i, s)[o]
  BY <1>1 DEF IInv, ConnectInv
<1>5. s \in Coins
  BY <1>1, TipCoinsTyped
<1>6. /\ tx.ins \subseteq Outpoints /\ tx.outs \subseteq Outpoints
      /\ tx.coinbase \in BOOLEAN /\ CoinOf(b, i) \in Coin
  BY <1>2, <1>3, BodyFacts
<1>7. tx.ins \cap tx.outs = {}
  BY <1>2, <1>3, BodyAssumption, SMT
<1>8. /\ tip' \in [Outpoints -> Entry \cup {Absent}]
      /\ \A o \in Outpoints : TipCoin(o)' = TipCoin(o)
      /\ \A o \in Outpoints : FlagsSound(tip'[o], coinsdb'[o])
  BY <1>1, <1>6, TipFetchKeeps DEF disk
<1>9. Valid(b, i)
  <2> SUFFICES ASSUME NEW k \in 1..i, NEW o \in Vtx[b][k].ins
               PROVE  After(b, k - 1, s)[o] # Spent
    BY <1>4 DEF Valid
  <2>1. CASE k = i
    BY <1>1, <1>3, <1>4, <1>6, <2>1 DEF HaveInputs
  <2>2. CASE k # i
    <3>1. k \in 1..job.i
      BY <1>2, <2>2, SMT
    <3> QED BY <1>4, <3>1 DEF Valid
  <2> QED BY <2>1, <2>2
<1>10. ASSUME NEW o \in Outpoints
       PROVE  /\ o \in tx.ins => After(b, i, s)[o] = Spent
              /\ o \in tx.outs => /\ After(b, i, s)[o] = CoinOf(b, i)
                                  /\ After(b, job.i, s)[o] = Spent
              /\ o \notin tx.ins \cup tx.outs
                   => After(b, i, s)[o] = After(b, job.i, s)[o]
  <2>1. \A x \in Outs(b) : s[x] = Spent
    BY <1>4 DEF Valid
  <2>2. \A k \in 1..(i - 1) : \A x \in Vtx[b][k].ins : After(b, k - 1, s)[x] # Spent
    BY <1>3, <1>4 DEF Valid
  <2> HIDE DEF b, i, s
  <2>3. /\ o \in Vtx[b][i].ins => After(b, i, s)[o] = Spent
        /\ o \in Vtx[b][i].outs => /\ After(b, i, s)[o] = CoinOf(b, i)
                                  /\ After(b, i - 1, s)[o] = Spent
        /\ o \notin Vtx[b][i].ins \cup Vtx[b][i].outs
             => After(b, i, s)[o] = After(b, i - 1, s)[o]
    BY <1>2, <1>3, <1>5, <2>1, <2>2, AfterStep
  <2> QED BY <1>3, <2>3
<1>11. ASSUME NEW o \in Outpoints
       PROVE  /\ view'[o] \in MaybeEntry
              /\ Lookup(view'[o], TipCoin(o)) = After(b, i, s)[o]
              /\ FlagsSound(view'[o], TipCoin(o))
              /\ o \in tx.outs => ~AddThrows(view[o], tx.coinbase)
  <2>1. /\ view[o] \in MaybeEntry /\ TipCoin(o) \in MaybeCoin
        /\ FlagsSound(view[o], TipCoin(o))
        /\ Lookup(view[o], TipCoin(o)) = After(b, job.i, s)[o]
    BY <1>4, ReadingsTyped DEF IInv, ViewInv, ViewCoin
  <2>2. CASE o \in tx.ins
    <3>1. view'[o] = SpendCoin(FetchCoin(view[o], TipCoin(o))) /\ o \notin tx.outs
      BY <1>1, <1>7, <2>2 DEF UpdatedView, Fetched
    <3> QED BY <1>10, <2>1, <2>2, <3>1, SpendSpends
  <2>3. CASE o \in tx.outs
    <3>1. view'[o] = AddCoin(view[o], CoinOf(b, i), tx.coinbase)
      BY <1>1, <1>7, <2>3 DEF UpdatedView
    <3>2. Lookup(view[o], TipCoin(o)) = Spent
      BY <1>10, <2>1, <2>3
    <3>3. /\ CoinOf(b, i) \in Coin /\ tx.coinbase \in BOOLEAN
          /\ After(b, i, s)[o] = CoinOf(b, i)
      BY <1>6, <1>10, <2>3
    <3> HIDE DEF b, i, tx, s
    <3>4. /\ AddCoin(view[o], CoinOf(b, i), tx.coinbase) \in MaybeEntry
          /\ Lookup(AddCoin(view[o], CoinOf(b, i), tx.coinbase), TipCoin(o)) = CoinOf(b, i)
          /\ FlagsSound(AddCoin(view[o], CoinOf(b, i), tx.coinbase), TipCoin(o))
          /\ ~AddThrows(view[o], tx.coinbase)
      BY <2>1, <3>2, <3>3, AddAdds
    <3> QED BY <3>1, <3>3, <3>4
  <2>4. CASE o \notin tx.ins \cup tx.outs
    <3>1. view'[o] = view[o]
      BY <1>1, <2>4 DEF UpdatedView
    <3> QED BY <1>10, <2>1, <2>4, <3>1
  <2> QED BY <2>2, <2>3, <2>4
<1> DEFINE spent == [o \in Outpoints |-> IF o \in tx.ins THEN ViewCoin(o) ELSE job.spent[o]]
<1>12. job' = [job EXCEPT !.i = i, !.spent = spent]
  <2>1. ~AddFails(tx)
    BY <1>6, <1>11 DEF AddFails
  <2> QED BY <2>1 DEF ConnectTx
<1>13. spent \in Coins
  BY <1>2, ReadingsTyped DEF IInv, Coins, Job, MaybeCoin
<1>14. /\ job'.op = "connect" /\ job'.block = b /\ job'.i = i /\ job'.spent = spent
       /\ job' \in Job
  <2>1. i \in Nat
    BY <1>2, SMT
  <2> HIDE DEF spent, i
  <2>2. job' \in Job
    BY <1>2, <1>12, <1>13, <2>1 DEF Job
  <2>3. job'.op = job.op /\ job'.block = job.block /\ job'.i = i /\ job'.spent = spent
    BY <1>2, <1>12 DEF Job
  <2> QED BY <1>1, <2>2, <2>3
<1>15. SpentBy(b, i, spent)
  <2> SUFFICES ASSUME NEW k \in 1..i, NEW o \in Vtx[b][k].ins
               PROVE  spent[o] = After(b, k - 1, s)[o]
    BY <1>4, SMT DEF SpentBy
  <2>0. k \in 1..Len(Vtx[b])
    BY <1>3, SMT
  <2>1. o \in Outpoints
    BY <1>2, <2>0, BodyFacts
  <2>2. CASE k = i
    BY <1>3, <1>4, <2>1, <2>2
  <2>3. CASE k # i
    <3>1. k \in 1..job.i
      BY <1>2, <2>3, SMT
    <3>2. After(b, job.i, s)[o] = Spent
      <4>1. job.i \in 0..Len(Vtx[b])
        BY <1>2, <1>3, SMT
      <4> QED BY <1>2, <1>5, <2>1, <3>1, <4>1, AfterCases
    <3>3. o \notin tx.ins
      BY <1>1, <1>4, <2>1, <3>2 DEF HaveInputs
    <3> QED BY <1>4, <2>1, <3>1, <3>3 DEF SpentBy
  <2> QED BY <2>2, <2>3
<1> HIDE DEF spent
<1>16. DiskInv' /\ UndoInv' /\ TipInv'
  BY <1>1, <1>8, <1>14, SameReadings
<1>17. view' \in [Outpoints -> Entry \cup {Absent}]
  <2>1. view' = [o \in Outpoints |-> view'[o]]
    BY <1>1, SMT DEF UpdatedView
  <2> QED BY <1>11, <2>1 DEF MaybeEntry
<1>18. TypeOK' /\ NoLogicErrors'
  BY <1>1, <1>8, <1>14, <1>17 DEF IInv, TypeOK, NoLogicErrors, disk
<1>19. ViewInv'
  BY <1>1, <1>8, <1>11, <1>14 DEF IInv, ViewInv
<1>20. ConnectInv'
  <2>1. \A o \in Outpoints : ViewCoin(o)' = After(b, i, s)[o]
    BY <1>8, <1>11 DEF ViewCoin
  <2>2. i \in 0..Len(Vtx[b])
    BY <1>3, SMT
  <2> QED BY <1>1, <1>4, <1>9, <1>14, <1>15, <2>1, <2>2 DEF ConnectInv
<1>21. DisconnectInv'
  BY <1>14 DEF DisconnectInv
<1> QED BY <1>16, <1>18, <1>19, <1>20, <1>21 DEF IInv

\* view.Flush() never throws, and pcoinsTip then answers what the view answered.
LEMMA FlushMoves ==
  ASSUME IInv, job.op # "abort", NEW best \in Blocks, FlushView(best),
         coinsdb' = coinsdb
  PROVE  /\ tip' \in [Outpoints -> Entry \cup {Absent}]
         /\ \A o \in Outpoints : TipCoin(o)' = ViewCoin(o)
         /\ \A o \in Outpoints : FlagsSound(tip'[o], coinsdb'[o])
         /\ view' = NoEntries /\ tipBest' = best
         /\ job' \in Job /\ job'.op = "settle"
<1>1. /\ tip' = [o \in Outpoints |-> BatchWrite(tip[o], view[o])]
      /\ view' = NoEntries /\ tipBest' = best
  BY DEF FlushView
<1>2. ASSUME NEW o \in Outpoints
      PROVE  /\ tip'[o] \in MaybeEntry
             /\ Lookup(tip'[o], coinsdb[o]) = ViewCoin(o)
             /\ FlagsSound(tip'[o], coinsdb[o])
             /\ ~WriteThrows(tip[o], view[o])
  <2>1. tip[o] \in MaybeEntry /\ view[o] \in MaybeEntry /\ coinsdb[o] \in MaybeCoin
    BY ReadingsTyped DEF IInv
  <2>2. FlagsSound(tip[o], coinsdb[o])
    BY DEF IInv, TipInv
  <2>3. FlagsSound(view[o], Lookup(tip[o], coinsdb[o]))
    BY DEF IInv, ViewInv, TipCoin
  <2>4. tip'[o] = BatchWrite(tip[o], view[o])
    BY <1>1
  <2> QED BY <2>1, <2>2, <2>3, <2>4, WriteMoves, SMT DEF ViewCoin, TipCoin
<1>3. tip' \in [Outpoints -> Entry \cup {Absent}]
  BY <1>1, <1>2 DEF MaybeEntry
<1>4. job' = [Idle EXCEPT !.op = "settle"]
  BY <1>2 DEF FlushView
<1>5. job' \in Job /\ job'.op = "settle"
  BY <1>4, TreeAssumption DEF Idle, JobAt, Job, NoCoins, Coins
<1> QED BY <1>1, <1>2, <1>3, <1>5 DEF TipCoin

\* The rest of the invariant after a view was flushed.
LEMMA SettledOK ==
  ASSUME job'.op = "settle", view' = NoEntries
  PROVE  ViewInv' /\ ConnectInv' /\ DisconnectInv' /\ NoLogicErrors'
<1>1. \A o \in Outpoints : FlagsSound(view'[o], TipCoin(o)')
  BY DEF NoEntries, FlagsSound
<1> QED BY <1>1 DEF ViewInv, ConnectInv, DisconnectInv, NoLogicErrors

\* After a whole block the view holds the coins of that block.
LEMMA FinishConnectOK ==
  ASSUME IInv, FinishConnect
  PROVE  IInv'
<1> DEFINE b == job.block
<1>1. /\ job.op = "connect" /\ job.i = Len(Vtx[b]) /\ FlushView(b)
      /\ UNCHANGED <<disk, chainActive>>
  BY DEF FinishConnect
<1>2. b \in Blocks /\ job.spent \in Coins
  BY DEF IInv, TypeOK, Job
<1>3. /\ b # Root /\ Valid(b, Len(Vtx[b])) /\ Parent[b] = tipBest
      /\ SpentBy(b, Len(Vtx[b]), job.spent)
      /\ \A o \in Outpoints : ViewCoin(o) = After(b, Len(Vtx[b]), CoinsAt(tipBest))[o]
  BY <1>1 DEF IInv, ConnectInv, Valid
<1>4. /\ tip' \in [Outpoints -> Entry \cup {Absent}]
      /\ \A o \in Outpoints : TipCoin(o)' = ViewCoin(o)
      /\ \A o \in Outpoints : FlagsSound(tip'[o], coinsdb'[o])
      /\ view' = NoEntries /\ tipBest' = b
      /\ job' \in Job /\ job'.op = "settle"
  BY <1>1, <1>2, FlushMoves DEF disk
<1>5. TipInv'
  <2>1. CoinsAt(Parent[b]) \in Coins
    BY <1>3 DEF Valid
  <2>2. \A o \in Outpoints : CoinsAt(b)[o] = After(b, Len(Vtx[b]), CoinsAt(Parent[b]))[o]
    BY <1>2, <1>3, <2>1, CoinsAtStep
  <2>3. \A o \in Outpoints : TipCoin(o)' = CoinsAt(b)[o]
    BY <1>3, <1>4, <2>2
  <2> QED BY <1>4, <2>3 DEF TipInv
<1>6. DiskInv'
  BY <1>1 DEF IInv, DiskInv, disk
<1>7. UndoOK(b, job.spent) /\ job.spent # Null
  BY <1>2, <1>3, RootAssumption DEF UndoOK
<1>8. Chain[b] = Chain[tipBest] \cup {b}
  BY <1>2, <1>3, TreeAssumption
<1>9. UndoInv' /\ undo' \in [Blocks -> Coins \cup {Null}] /\ setDirtyBlockIndex' \subseteq Blocks
  <2>1. CASE undo[b] = Null
    <3>1. /\ undo' = [undo EXCEPT ![b] = job.spent]
          /\ setDirtyBlockIndex' = setDirtyBlockIndex \cup {b}
      BY <2>1 DEF FinishConnect
    <3>2. \A a \in Blocks : undo'[a] = IF a = b THEN job.spent ELSE undo[a]
      BY <3>1 DEF IInv, TypeOK
    <3>3. Chain[tipBest] \subseteq Blocks
      BY TreeAssumption DEF IInv, TypeOK
    <3>4. \A a \in Chain[tipBest'] : undo'[a] # Null
      BY <1>2, <1>4, <1>7, <1>8, <3>2, <3>3 DEF IInv, UndoInv
    <3>5. \A a \in Blocks : undo'[a] # Null => UndoOK(a, undo'[a])
      BY <1>7, <3>2 DEF IInv, UndoInv
    <3>6. UndoInv'
      BY <1>1, <1>2, <1>4, <1>7, <3>1, <3>2, <3>4, <3>5
      DEF IInv, TypeOK, UndoInv, disk
    <3> QED BY <1>2, <3>1, <3>6 DEF IInv, TypeOK
  <2>2. CASE undo[b] # Null
    <3>1. UNCHANGED <<undo, setDirtyBlockIndex>>
      BY <2>2 DEF FinishConnect
    <3> QED BY <1>1, <1>4, <1>8, <2>2, <3>1 DEF IInv, TypeOK, UndoInv, disk
  <2> QED BY <2>1, <2>2
<1>10. TypeOK'
  <2>1. view' \in [Outpoints -> Entry \cup {Absent}]
    BY <1>4 DEF NoEntries
  <2> QED BY <1>1, <1>2, <1>4, <1>9, <2>1 DEF IInv, TypeOK, disk
<1> QED BY <1>4, <1>5, <1>6, <1>9, <1>10, SettledOK DEF IInv
----------------------------------------------------------------------------
\* The block to undo is the one pcoinsTip names, and its undo data is known.
LEMMA BeginDisconnectOK ==
  ASSUME IInv, BeginDisconnect
  PROVE  IInv'
<1> DEFINE b == chainActive
           n == Len(Vtx[b])
<1> USE DEF BeginDisconnect
<1>1. job.op = "idle" /\ view = NoEntries /\ b = tipBest /\ b # Root /\ b \in Blocks
  BY DEF Idle, JobAt, IInv, ViewInv, TypeOK
<1>2. b \in Chain[tipBest]
  BY <1>1, TreeAssumption
<1>3. undo[b] # Null /\ UndoOK(b, undo[b]) /\ undo[b] \in Coins
  BY <1>1, <1>2 DEF IInv, UndoInv, TypeOK
<1>4. job' = JobAt("disconnect", b, n, undo[b])
  BY <1>1, <1>3
<1>5. n \in Nat
  BY <1>1, BodyAssumption, SMT
<1>6. /\ job'.op = "disconnect" /\ job'.block = b /\ job'.i = n /\ job'.spent = undo[b]
      /\ job' \in Job
  BY <1>1, <1>3, <1>4, <1>5, SMT DEF JobAt, Job
<1>7. \A o \in Outpoints : TipCoin(o)' = TipCoin(o) /\ ViewCoin(o)' = ViewCoin(o)
  BY DEF TipCoin, ViewCoin, disk
<1>8. \A o \in Outpoints : FlagsSound(tip'[o], coinsdb'[o])
  BY <1>1 DEF IInv, TipInv, disk
<1>9. DiskInv' /\ UndoInv' /\ TipInv'
  BY <1>1, <1>6, <1>7, <1>8, SameReadings
<1>10. TypeOK' /\ NoLogicErrors'
  BY <1>6 DEF IInv, TypeOK, NoLogicErrors, disk
<1>11. ViewInv'
  BY <1>1, <1>6, <1>7 DEF IInv, ViewInv
<1>12. DisconnectInv'
  <2>1. CoinsAt(Parent[b]) \in Coins
    BY <1>3 DEF UndoOK, Valid
  <2>2. \A o \in Outpoints : ViewCoin(o) = After(b, n, CoinsAt(Parent[b]))[o]
    BY <1>1, <2>1, EmptyView, CoinsAtStep DEF IInv, TipInv
  <2>3. n \in 0..n
    BY <1>5, SMT
  <2> QED BY <1>1, <1>3, <1>6, <1>7, <2>2, <2>3 DEF DisconnectInv
<1>13. ConnectInv'
  BY <1>6 DEF ConnectInv
<1> QED BY <1>9, <1>10, <1>11, <1>12, <1>13 DEF IInv

\* Undoing a transaction is clean and takes the view one transaction back.
LEMMA DisconnectTxOK ==
  ASSUME IInv, DisconnectTx
  PROVE  IInv'
<1> DEFINE b == job.block
           i == job.i
           tx == Vtx[b][i]
           s == CoinsAt(Parent[b])
<1>1. /\ job.op = "disconnect" /\ i > 0
      /\ tip' = TipFetches(tx.ins \cup tx.outs) /\ view' = RevertedView(b, i)
      /\ UNCHANGED <<disk, tipBest, chainActive, undo, setDirtyBlockIndex>>
  BY DEF DisconnectTx
<1>2. b \in Blocks /\ job \in Job /\ i \in Nat
  BY DEF IInv, TypeOK, Job
<1>3. /\ i \in 0..Len(Vtx[b]) /\ b = tipBest /\ UndoOK(b, job.spent)
      /\ \A o \in Outpoints : ViewCoin(o) = After(b, i, s)[o]
  BY <1>1 DEF IInv, DisconnectInv
<1>4. Len(Vtx[b]) \in Nat /\ i \in 1..Len(Vtx[b]) /\ i - 1 \in 0..Len(Vtx[b])
  <2>1. Len(Vtx[b]) \in Nat
    BY <1>2, BodyAssumption, SMT
  <2>2. i > 0 /\ i \in 0..Len(Vtx[b])
    BY <1>1, <1>3
  <2> HIDE DEF b, i
  <2> QED BY <1>2, <2>1, <2>2, SMT
<1>5. /\ s \in Coins
      /\ \A x \in Outs(b) : s[x] = Spent
      /\ \A k \in 1..Len(Vtx[b]) : \A x \in Vtx[b][k].ins :
           /\ After(b, k - 1, s)[x] # Spent
           /\ job.spent[x] = After(b, k - 1, s)[x]
  BY <1>3 DEF UndoOK, Valid, SpentBy
<1>6. /\ tx.ins \subseteq Outpoints /\ tx.outs \subseteq Outpoints
      /\ CoinOf(b, i) \in Coin
  BY <1>2, <1>4, BodyFacts
<1>7. tx.ins \cap tx.outs = {}
  BY <1>2, <1>4, BodyAssumption
<1>8. /\ tip' \in [Outpoints -> Entry \cup {Absent}]
      /\ \A o \in Outpoints : TipCoin(o)' = TipCoin(o)
      /\ \A o \in Outpoints : FlagsSound(tip'[o], coinsdb'[o])
  BY <1>1, <1>6, TipFetchKeeps DEF disk
<1>9. ASSUME NEW o \in Outpoints
      PROVE  /\ o \in tx.ins => After(b, i, s)[o] = Spent
             /\ o \in tx.outs => /\ After(b, i, s)[o] = CoinOf(b, i)
                                 /\ After(b, i - 1, s)[o] = Spent
             /\ o \notin tx.ins \cup tx.outs
                  => After(b, i, s)[o] = After(b, i - 1, s)[o]
  <2>1. \A k \in 1..(i - 1) : \A x \in Vtx[b][k].ins : After(b, k - 1, s)[x] # Spent
    <3> SUFFICES ASSUME NEW k \in 1..(i - 1)
                 PROVE  \A x \in Vtx[b][k].ins : After(b, k - 1, s)[x] # Spent
      OBVIOUS
    <3>1. k \in 1..Len(Vtx[b])
      BY <1>4, SMT
    <3> QED BY <1>5, <3>1
  <2> HIDE DEF b, i, s
  <2> QED BY <1>2, <1>4, <1>5, <2>1, AfterStep
<1>10. ASSUME NEW o \in tx.ins
       PROVE  /\ job.spent[o] = After(b, i - 1, s)[o]
              /\ job.spent[o] \in Coin /\ job.spent[o].fCoinBase \in BOOLEAN
              /\ job.spent[o] # Spent
  <2>1. job.spent[o] = After(b, i - 1, s)[o] /\ job.spent[o] # Spent
    BY <1>4, <1>5
  <2>2. job.spent[o] \in Coin
    BY <1>2, <1>6, <2>1 DEF Job, Coins
  <2>3. job.spent[o].fCoinBase \in BOOLEAN
    BY <2>2 DEF Coin
  <2> QED BY <2>1, <2>2, <2>3
<1>11. ASSUME NEW o \in Outpoints
       PROVE  /\ view'[o] \in MaybeEntry
              /\ Lookup(view'[o], TipCoin(o)) = After(b, i - 1, s)[o]
              /\ FlagsSound(view'[o], TipCoin(o))
              /\ o \in tx.ins => ~AddThrows(Fetched(o), job.spent[o].fCoinBase)
  <2>1. /\ view[o] \in MaybeEntry /\ TipCoin(o) \in MaybeCoin
        /\ FlagsSound(view[o], TipCoin(o))
        /\ Lookup(view[o], TipCoin(o)) = After(b, i, s)[o]
    BY <1>3, ReadingsTyped DEF IInv, ViewInv, ViewCoin
  <2>2. CASE o \in tx.outs
    <3>1. view'[o] = SpendCoin(FetchCoin(view[o], TipCoin(o))) /\ o \notin tx.ins
      BY <1>1, <1>7, <2>2 DEF RevertedView, Fetched
    <3> QED BY <1>9, <2>1, <2>2, <3>1, SpendSpends, ZenonT(30)
  <2>3. CASE o \in tx.ins
    <3>1. view'[o] = AddCoin(Fetched(o), job.spent[o], job.spent[o].fCoinBase)
      BY <1>1, <1>7, <2>3 DEF RevertedView
    <3>2. /\ Fetched(o) \in MaybeEntry /\ FlagsSound(Fetched(o), TipCoin(o))
          /\ Lookup(Fetched(o), TipCoin(o)) = Spent
      BY <1>9, <2>1, <2>3, FetchKeeps DEF Fetched
    <3>3. /\ job.spent[o] = After(b, i - 1, s)[o]
          /\ job.spent[o] \in Coin /\ job.spent[o].fCoinBase \in BOOLEAN
      BY <1>10, <2>3
    <3> DEFINE c == job.spent[o]
               f == Fetched(o)
               ow == job.spent[o].fCoinBase
    <3> HIDE DEF b, i, tx, s, c, f, ow
    <3>4. c \in Coin /\ ow \in BOOLEAN /\ f \in MaybeEntry
      BY <3>2, <3>3 DEF c, f, ow
    <3>5. FlagsSound(f, TipCoin(o)) /\ Lookup(f, TipCoin(o)) = Spent
      BY <3>2 DEF f
    <3>6. /\ AddCoin(f, c, ow) \in MaybeEntry
          /\ Lookup(AddCoin(f, c, ow), TipCoin(o)) = c
          /\ FlagsSound(AddCoin(f, c, ow), TipCoin(o))
          /\ ~AddThrows(f, ow)
      BY <2>1, <3>4, <3>5, AddAdds
    <3>7. view'[o] = AddCoin(f, c, ow) /\ c = After(b, i - 1, s)[o]
      BY <3>1, <3>3 DEF c, f, ow
    <3>8. ~AddThrows(Fetched(o), job.spent[o].fCoinBase)
      BY <3>6 DEF f, ow
    <3> QED BY <3>6, <3>7, <3>8
  <2>4. CASE o \notin tx.ins \cup tx.outs
    <3>1. view'[o] = view[o]
      BY <1>1, <2>4 DEF RevertedView
    <3> QED BY <1>9, <2>1, <2>4, <3>1
  <2> QED BY <2>2, <2>3, <2>4
<1>12. job' = [job EXCEPT !.i = i - 1]
  <2>1. Clean(b, i)
    BY <1>3, <1>6, <1>9 DEF Clean
  <2>2. ~RestoreFails(i)
    BY <1>6, <1>10, <1>11 DEF RestoreFails
  <2> QED BY <2>1, <2>2 DEF DisconnectTx
<1>13. /\ job'.op = "disconnect" /\ job'.block = b /\ job'.i = i - 1
       /\ job'.spent = job.spent /\ job' \in Job
  <2>1. i - 1 \in Nat
    BY <1>1, <1>2, SMT
  <2> DEFINE k == i - 1
  <2>2. job' = [job EXCEPT !.i = k] /\ k \in Nat
    BY <1>12, <2>1
  <2> HIDE DEF k
  <2>3. job' \in Job
    BY <1>2, <2>2 DEF Job
  <2>4. /\ job'.op = job.op /\ job'.block = job.block /\ job'.i = k
        /\ job'.spent = job.spent
    BY <1>2, <2>2 DEF Job
  <2> QED BY <1>1, <2>3, <2>4 DEF k
<1>14. DiskInv' /\ UndoInv' /\ TipInv'
  BY <1>1, <1>8, <1>13, SameReadings
<1>15. view' \in [Outpoints -> Entry \cup {Absent}]
  <2>1. view' = [o \in Outpoints |-> view'[o]]
    BY <1>1, SMT DEF RevertedView
  <2> QED BY <1>11, <2>1 DEF MaybeEntry
<1>16. TypeOK' /\ NoLogicErrors'
  BY <1>1, <1>8, <1>13, <1>15 DEF IInv, TypeOK, NoLogicErrors, disk
<1>17. ViewInv'
  BY <1>1, <1>8, <1>11, <1>13 DEF IInv, ViewInv
<1>18. DisconnectInv'
  <2>1. \A o \in Outpoints : ViewCoin(o)' = After(b, i - 1, s)[o]
    BY <1>8, <1>11 DEF ViewCoin
  <2> QED BY <1>1, <1>3, <1>4, <1>13, <2>1 DEF DisconnectInv
<1>19. ConnectInv'
  BY <1>13 DEF ConnectInv
<1> QED BY <1>14, <1>16, <1>17, <1>18, <1>19 DEF IInv

\* With every transaction undone the view holds the coins of the parent.
LEMMA FinishDisconnectOK ==
  ASSUME IInv, FinishDisconnect
  PROVE  IInv'
<1> DEFINE b == job.block
           p == Parent[b]
<1>1. /\ job.op = "disconnect" /\ job.i = 0 /\ FlushView(p)
      /\ UNCHANGED <<disk, chainActive, undo, setDirtyBlockIndex>>
  BY DEF FinishDisconnect
<1>2. /\ b \in Blocks /\ b = tipBest /\ b # Root /\ CoinsAt(p) \in Coins
      /\ \A o \in Outpoints : ViewCoin(o) = After(b, 0, CoinsAt(p))[o]
  BY <1>1 DEF IInv, DisconnectInv, UndoOK, Valid, TypeOK, Job
<1>3. p \in Blocks /\ Chain[p] \subseteq Chain[b]
  BY <1>2, TreeAssumption
<1>4. /\ tip' \in [Outpoints -> Entry \cup {Absent}]
      /\ \A o \in Outpoints : TipCoin(o)' = ViewCoin(o)
      /\ \A o \in Outpoints : FlagsSound(tip'[o], coinsdb'[o])
      /\ view' = NoEntries /\ tipBest' = p
      /\ job' \in Job /\ job'.op = "settle"
  BY <1>1, <1>3, FlushMoves DEF disk
<1>5. TipInv'
  <2>1. \A o \in Outpoints : TipCoin(o)' = CoinsAt(p)[o]
    BY <1>2, <1>4, AfterNone
  <2> QED BY <1>4, <2>1 DEF TipInv
<1>6. DiskInv'
  BY <1>1 DEF IInv, DiskInv, disk
<1>7. UndoInv'
  BY <1>1, <1>2, <1>3, <1>4 DEF IInv, UndoInv, disk
<1>8. TypeOK'
  <2>1. view' \in [Outpoints -> Entry \cup {Absent}]
    BY <1>4 DEF NoEntries
  <2> QED BY <1>1, <1>3, <1>4, <2>1 DEF IInv, TypeOK, disk
<1> QED BY <1>4, <1>5, <1>6, <1>7, <1>8, SettledOK DEF IInv

\* chainActive catches up with pcoinsTip.
LEMMA UpdateTipOK ==
  ASSUME IInv, UpdateTip
  PROVE  IInv'
<1> USE DEF UpdateTip
<1>1. job.op = "settle" /\ view = NoEntries /\ job' = Idle
  BY DEF IInv, ViewInv
<1>2. job'.op = "idle" /\ Idle \in Job
  BY <1>1, TreeAssumption, SMT DEF Idle, JobAt, Job, NoCoins, Coins
<1>3. TypeOK' /\ NoLogicErrors'
  BY <1>2 DEF IInv, TypeOK, NoLogicErrors, disk
<1>4. DiskInv' /\ UndoInv' /\ TipInv'
  BY <1>1, <1>2 DEF IInv, DiskInv, UndoInv, TipInv, TipCoin, disk
<1>5. ViewInv'
  BY <1>1, <1>2 DEF IInv, ViewInv, TipCoin, disk
<1>6. ConnectInv' /\ DisconnectInv'
  BY <1>2 DEF ConnectInv, DisconnectInv
<1> QED BY <1>3, <1>4, <1>5, <1>6 DEF IInv
----------------------------------------------------------------------------
\* Writing the dirty index entries puts all known undo data on disk.
LEMMA IndexFlush ==
  ASSUME IInv, job.op # "abort"
  PROVE  /\ FlushedIndex \in [Blocks -> Coins \cup {Null}]
         /\ \A b \in Blocks : undo[b] # Null <=> FlushedIndex[b] # Null
         /\ \A b \in Blocks : FlushedIndex[b] # Null => UndoOK(b, FlushedIndex[b])
         /\ \A b \in Chain[tipBest] : FlushedIndex[b] # Null
         /\ \A b \in Chain[dbBest] : FlushedIndex[b] # Null
<1>1. FlushedIndex \in [Blocks -> Coins \cup {Null}]
  BY DEF IInv, TypeOK, FlushedIndex
<1>2. \A b \in Blocks : undo[b] # Null <=> FlushedIndex[b] # Null
  BY DEF IInv, UndoInv, FlushedIndex
<1>3. \A b \in Blocks : FlushedIndex[b] # Null => UndoOK(b, FlushedIndex[b])
  BY DEF IInv, UndoInv, DiskInv, FlushedIndex
<1>4. Chain[tipBest] \subseteq Blocks /\ Chain[dbBest] \subseteq Blocks
  BY TreeAssumption DEF IInv, TypeOK
<1>5. \A b \in Chain[tipBest] : FlushedIndex[b] # Null
  BY <1>2, <1>4 DEF IInv, UndoInv
<1>6. \A b \in Chain[dbBest] : FlushedIndex[b] # Null
  BY <1>2, <1>4 DEF IInv, UndoInv, DiskInv
<1> QED BY <1>1, <1>2, <1>3, <1>5, <1>6

\* Writing the cache makes the database the coins of the cache's block.
LEMMA CoinsFlush ==
  ASSUME IInv, job.op # "abort"
  PROVE  FlushedCoins \in Coins /\ FlushedCoins = CoinsAt(tipBest)
<1>1. ASSUME NEW o \in Outpoints
      PROVE  /\ FlushedCoins[o] = CoinsAt(tipBest)[o]
             /\ FlushedCoins[o] \in Coin \cup {Spent}
  <2>1. tip[o] \in MaybeEntry /\ coinsdb[o] \in MaybeCoin
    BY ReadingsTyped DEF IInv
  <2>2. FlagsSound(tip[o], coinsdb[o]) /\ TipCoin(o) = CoinsAt(tipBest)[o]
    BY DEF IInv, TipInv
  <2>3. FlushedCoins[o] = DbWrite(coinsdb[o], tip[o])
    BY DEF FlushedCoins
  <2> QED BY <2>1, <2>2, <2>3, DbWriteMoves DEF TipCoin, MaybeCoin
<1>2. FlushedCoins = [o \in Outpoints |-> FlushedCoins[o]]
  BY DEF FlushedCoins
<1>3. CoinsAt(tipBest) = [o \in Outpoints |-> CoinsAt(tipBest)[o]]
  BY DEF CoinsAt
<1>4. FlushedCoins = CoinsAt(tipBest)
  BY <1>1, <1>2, <1>3
<1>5. FlushedCoins \in Coins
  BY <1>1, <1>2 DEF Coins
<1> QED BY <1>4, <1>5

\* A periodic write of the index moves undo data to disk and nothing else.
LEMMA WriteIndexOK ==
  ASSUME IInv, WriteIndex
  PROVE  IInv'
<1>1. /\ job.op \in {"idle", "settle"} /\ undoOnDisk' = FlushedIndex
      /\ setDirtyBlockIndex' = {}
      /\ UNCHANGED <<coinsdb, dbBest, tip, tipBest, view, chainActive, job, undo>>
  BY DEF WriteIndex, MayFlush, IndexWritten
<1>2. TypeOK' /\ NoLogicErrors'
  BY <1>1, IndexFlush DEF IInv, TypeOK, NoLogicErrors
<1>3. DiskInv'
  BY <1>1, IndexFlush DEF IInv, DiskInv
<1>4. UndoInv'
  BY <1>1, IndexFlush DEF IInv, UndoInv
<1>5. TipInv' /\ ViewInv'
  BY <1>1 DEF IInv, TipInv, ViewInv, TipCoin
<1>6. ConnectInv' /\ DisconnectInv'
  BY <1>1 DEF ConnectInv, DisconnectInv
<1> QED BY <1>2, <1>3, <1>4, <1>5, <1>6 DEF IInv

\* A full flush makes the disk equal to what pcoinsTip answered.
LEMMA FlushStateToDiskOK ==
  ASSUME IInv, FlushStateToDisk
  PROVE  IInv'
<1>1. /\ job.op \in {"idle", "settle"} /\ undoOnDisk' = FlushedIndex
      /\ setDirtyBlockIndex' = {}
      /\ coinsdb' = FlushedCoins /\ dbBest' = tipBest /\ tip' = NoEntries
      /\ UNCHANGED <<tipBest, view, chainActive, job, undo>>
  BY DEF FlushStateToDisk, MayFlush, IndexWritten, CoinsWritten
<1>2. tip' \in [Outpoints -> Entry \cup {Absent}]
  BY <1>1 DEF NoEntries
<1>3. TypeOK' /\ NoLogicErrors'
  BY <1>1, <1>2, IndexFlush, CoinsFlush DEF IInv, TypeOK, NoLogicErrors
<1>4. DiskInv'
  BY <1>1, IndexFlush, CoinsFlush DEF IInv, DiskInv
<1>5. UndoInv'
  BY <1>1, IndexFlush DEF IInv, UndoInv
<1>6. TipInv'
  <2>1. \A o \in Outpoints : TipCoin(o)' = coinsdb'[o] /\ FlagsSound(tip'[o], coinsdb'[o])
    BY <1>1 DEF TipCoin, Lookup, NoEntries, FlagsSound
  <2> QED BY <1>1, <2>1, CoinsFlush DEF TipInv
<1>7. ViewInv'
  <2>1. view = NoEntries
    BY <1>1 DEF IInv, ViewInv
  <2>2. \A o \in Outpoints : FlagsSound(view'[o], TipCoin(o)')
    BY <1>1, <2>1 DEF NoEntries, FlagsSound
  <2> QED BY <1>1, <2>1, <2>2 DEF IInv, ViewInv
<1>8. ConnectInv' /\ DisconnectInv'
  BY <1>1 DEF ConnectInv, DisconnectInv
<1> QED BY <1>3, <1>4, <1>5, <1>6, <1>7, <1>8 DEF IInv

\* A flush given up for lack of space leaves every cache intact.
LEMMA LowDiskSpaceOK ==
  ASSUME IInv, LowDiskSpace
  PROVE  IInv'
<1>1. /\ job.op \in {"idle", "settle"} /\ job' = [job EXCEPT !.op = "full"]
      /\ \/ undoOnDisk' = FlushedIndex /\ setDirtyBlockIndex' = {}
         \/ UNCHANGED <<undoOnDisk, setDirtyBlockIndex>>
      /\ UNCHANGED <<coinsdb, dbBest, tip, tipBest, view, chainActive, undo>>
  BY DEF LowDiskSpace, MayFlush, IndexWritten
<1>2. job' \in Job /\ job'.op = "full"
  BY <1>1 DEF IInv, TypeOK, Job
<1>3. TypeOK' /\ NoLogicErrors'
  BY <1>1, <1>2, IndexFlush DEF IInv, TypeOK, NoLogicErrors
<1>4. DiskInv'
  BY <1>1, IndexFlush DEF IInv, DiskInv
<1>5. UndoInv'
  BY <1>1, <1>2, IndexFlush DEF IInv, UndoInv
<1>6. TipInv' /\ ViewInv'
  BY <1>1, <1>2 DEF IInv, TipInv, ViewInv, TipCoin
<1>7. ConnectInv' /\ DisconnectInv'
  BY <1>2 DEF ConnectInv, DisconnectInv
<1> QED BY <1>3, <1>4, <1>5, <1>6, <1>7 DEF IInv

\* After a failed write only the shutdown is left; the disk is as it was.
LEMMA WriteFailsOK ==
  ASSUME IInv, IndexWriteFails \/ CoinsWriteFails
  PROVE  IInv'
<1>1. /\ job.op \in {"idle", "settle"} /\ job' = [job EXCEPT !.op = "abort"]
      /\ undoOnDisk' = undoOnDisk \/ undoOnDisk' = FlushedIndex
      /\ setDirtyBlockIndex' = {}
      /\ tip' = tip \/ tip' = NoEntries
      /\ UNCHANGED <<coinsdb, dbBest, tipBest, view, chainActive, undo>>
  BY DEF IndexWriteFails, CoinsWriteFails, MayFlush, IndexWritten, disk
<1>2. job' \in Job /\ job'.op = "abort"
  BY <1>1 DEF IInv, TypeOK, Job
<1>3. tip' \in [Outpoints -> Entry \cup {Absent}]
  BY <1>1 DEF NoEntries, IInv, TypeOK
<1>4. TypeOK' /\ NoLogicErrors'
  BY <1>1, <1>2, <1>3, IndexFlush DEF IInv, TypeOK, NoLogicErrors
<1>5. DiskInv'
  BY <1>1, IndexFlush DEF IInv, DiskInv
<1>6. UndoInv'
  BY <1>1, <1>2, IndexFlush DEF IInv, UndoInv
<1>7. TipInv' /\ ConnectInv' /\ DisconnectInv'
  BY <1>2 DEF TipInv, ConnectInv, DisconnectInv
<1>8. ViewInv'
  <2>1. view = NoEntries
    BY <1>1 DEF IInv, ViewInv
  <2>2. \A o \in Outpoints : FlagsSound(view'[o], TipCoin(o)')
    BY <1>1, <2>1 DEF NoEntries, FlagsSound
  <2> QED BY <1>1, <1>2, <2>1, <2>2 DEF ViewInv
<1> QED BY <1>4, <1>5, <1>6, <1>7, <1>8 DEF IInv

\* A start-up on a database that satisfies the disk's part of the invariant.
LEMMA LoadedOK ==
  ASSUME NEW best \in Blocks, NEW undos \in [Blocks -> Coins \cup {Null}],
         LoadedFrom(best, undos), coinsdb' \in Coins,
         dbBest' = best, undoOnDisk' = undos, DiskInv'
  PROVE  IInv'
<1> USE DEF LoadedFrom
<1>1. job'.op = "idle" /\ Idle \in Job /\ job' = Idle
  BY TreeAssumption DEF Idle, JobAt, Job, NoCoins, Coins
<1>2. NoEntries \in [Outpoints -> Entry \cup {Absent}]
  BY DEF NoEntries
<1>3. TypeOK' /\ NoLogicErrors'
  BY <1>1, <1>2 DEF TypeOK, NoLogicErrors
<1>4. UndoInv'
  BY DEF DiskInv, UndoInv
<1>5. \A o \in Outpoints :
        /\ TipCoin(o)' = coinsdb'[o] /\ FlagsSound(tip'[o], coinsdb'[o])
        /\ FlagsSound(view'[o], TipCoin(o)')
  BY DEF TipCoin, Lookup, NoEntries, FlagsSound
<1>6. TipInv' /\ ViewInv'
  BY <1>1, <1>5 DEF DiskInv, TipInv, ViewInv
<1>7. ConnectInv' /\ DisconnectInv'
  BY <1>1 DEF ConnectInv, DisconnectInv
<1> QED BY <1>3, <1>4, <1>6, <1>7 DEF IInv

\* A crash falls back on the disk, which satisfies its own part.
LEMMA CrashOK ==
  ASSUME IInv, Crash
  PROVE  IInv'
<1>1. LoadedFrom(dbBest, undoOnDisk) /\ UNCHANGED <<coinsdb, dbBest, undoOnDisk>>
  BY DEF Crash, disk
<1>2. /\ dbBest \in Blocks /\ undoOnDisk \in [Blocks -> Coins \cup {Null}]
      /\ coinsdb \in Coins
  BY DEF IInv, TypeOK
<1>3. DiskInv'
  BY <1>1 DEF IInv, DiskInv
<1> QED BY <1>1, <1>2, <1>3, LoadedOK

\* An orderly shutdown is a flush and a start-up.
LEMMA ShutdownOK ==
  ASSUME IInv, ~TransientErrors, Shutdown
  PROVE  IInv'
<1>1. /\ job.op # "abort" /\ undoOnDisk' = FlushedIndex /\ coinsdb' = FlushedCoins
      /\ dbBest' = tipBest /\ LoadedFrom(tipBest, FlushedIndex)
  BY DEF Shutdown
<1>2. tipBest \in Blocks
  BY DEF IInv, TypeOK
<1>3. DiskInv'
  BY <1>1, IndexFlush, CoinsFlush DEF DiskInv
<1> QED BY <1>1, <1>2, <1>3, IndexFlush, CoinsFlush, LoadedOK
----------------------------------------------------------------------------
\* Every step of the node preserves the invariant.
LEMMA NextOK ==
  ASSUME IInv, ~TransientErrors, [Next]_vars
  PROVE  IInv'
<1>1. ASSUME NEW o \in Outpoints, FetchToTip(o)
      PROVE  IInv'
  <2>1. job.op # "abort" /\ {o} \in SUBSET Outpoints
    BY <1>1 DEF FetchToTip, Idle, JobAt
  <2> QED BY <1>1, <2>1, TipFetchKeeps, QuietStep DEF FetchToTip, disk
<1>2. ASSUME NEW o \in Outpoints, UncacheFromTip(o)
      PROVE  IInv'
  <2>1. job.op # "abort" /\ tip' = [tip EXCEPT ![o] = Uncache(@)] /\ coinsdb' = coinsdb
    BY <1>2 DEF UncacheFromTip, Idle, JobAt, disk
  <2>2. ASSUME NEW x \in Outpoints
        PROVE  /\ tip'[x] \in MaybeEntry
               /\ Lookup(tip'[x], coinsdb[x]) = Lookup(tip[x], coinsdb[x])
               /\ FlagsSound(tip'[x], coinsdb[x])
    <3>1. /\ tip[x] \in MaybeEntry /\ coinsdb[x] \in MaybeCoin
          /\ FlagsSound(tip[x], coinsdb[x])
      BY <2>1, ReadingsTyped DEF IInv, TipInv
    <3>2. tip'[x] = Uncache(tip[x]) \/ tip'[x] = tip[x]
      BY <2>1 DEF IInv, TypeOK
    <3> QED BY <3>1, <3>2, UncacheKeeps
  <2>3. tip' \in [Outpoints -> Entry \cup {Absent}]
    <3>1. tip' = [x \in Outpoints |-> tip'[x]]
      BY <2>1 DEF IInv, TypeOK
    <3> QED BY <2>2, <3>1 DEF MaybeEntry
  <2>4. \A x \in Outpoints : TipCoin(x)' = TipCoin(x)
    BY <2>1, <2>2 DEF TipCoin
  <2> QED BY <1>2, <2>1, <2>2, <2>3, <2>4, QuietStep DEF UncacheFromTip
<1>3. ASSUME NEW b \in Blocks, RejectDuplicate(b)
      PROVE  IInv'
  <2>1. PICK o \in Outs(b) : tip' = TipFetches({o})
    BY <1>3 DEF RejectDuplicate
  <2>2. job.op # "abort" /\ {o} \in SUBSET Outpoints
    BY <1>3, BodyFacts DEF RejectDuplicate, Idle, JobAt, Outs
  <2> QED BY <1>3, <2>1, <2>2, TipFetchKeeps, QuietStep DEF RejectDuplicate, disk
<1>4. CASE RejectMissingInputs
  <2>1. PICK O \in SUBSET Vtx[job.block][job.i + 1].ins : tip' = TipFetches(O)
    BY <1>4 DEF RejectMissingInputs
  <2>2. job.op = "connect" /\ job.i < Len(Vtx[job.block])
    BY <1>4 DEF RejectMissingInputs
  <2>3. job.block \in Blocks /\ job.i + 1 \in 1..Len(Vtx[job.block])
    BY <2>2, BodyAssumption, SMT DEF IInv, TypeOK, Job
  <2>4. O \in SUBSET Outpoints
    BY <2>3, BodyFacts
  <2> QED BY <1>4, <2>1, <2>2, <2>4, TipFetchKeeps, DroppedView
          DEF RejectMissingInputs, disk
<1>5. CASE AbandonBlock
  <2>1. /\ tip \in [Outpoints -> Entry \cup {Absent}]
        /\ \A o \in Outpoints : TipCoin(o)' = TipCoin(o)
        /\ \A o \in Outpoints : FlagsSound(tip'[o], coinsdb'[o])
    BY <1>5 DEF AbandonBlock, IInv, TypeOK, TipInv, TipCoin, disk
  <2> QED BY <1>5, <2>1, DroppedView DEF AbandonBlock
<1>6. CASE UNCHANGED vars
  BY <1>6 DEF vars, IInv, TypeOK, NoLogicErrors, DiskInv, UndoInv, TipInv, ViewInv,
              ConnectInv, DisconnectInv, TipCoin, ViewCoin
<1> QED BY <1>1, <1>2, <1>3, <1>4, <1>5, <1>6, BeginConnectOK, ConnectTxOK,
           FinishConnectOK, BeginDisconnectOK, DisconnectTxOK, FinishDisconnectOK,
           UpdateTipOK, WriteIndexOK, FlushStateToDiskOK, LowDiskSpaceOK, WriteFailsOK,
           CrashOK, ShutdownOK DEF Next

\* The invariant holds forever when failed databases stay failed until a restart.
THEOREM Invariance == ASSUME ~TransientErrors PROVE Spec => []IInv
<1>1. Init => IInv
  BY InitOK
<1>2. IInv /\ [Next]_vars => IInv'
  BY NextOK
<1> QED BY <1>1, <1>2, PTL DEF Spec

\* At every instant the database holds exactly the coins of its DB_BEST_BLOCK.
THEOREM CrashConsistency ==
  ASSUME ~TransientErrors PROVE Spec => []DiskMatchesItsBlock
<1>1. IInv => DiskMatchesItsBlock
  BY DEF IInv, DiskInv, DiskMatchesItsBlock
<1> QED BY <1>1, Invariance, PTL

\* pcoinsTip answers with the coins of the block it names.
THEOREM CacheIsTransparent ==
  ASSUME ~TransientErrors PROVE Spec => []TipMatchesItsBlock
<1>1. IInv => TipMatchesItsBlock
  BY DEF IInv, TipInv, TipMatchesItsBlock
<1> QED BY <1>1, Invariance, PTL

\* No logic_error, failed assertion or unclean disconnection ever happens.
THEOREM NoErrors == ASSUME ~TransientErrors PROVE Spec => []NoLogicErrors
<1>1. IInv => NoLogicErrors
  BY DEF IInv
<1> QED BY <1>1, Invariance, PTL

\* DIRTY and FRESH keep their promises in both caches.
THEOREM FlagsStaySound == ASSUME ~TransientErrors PROVE Spec => []FlagsAreSound
<1>1. IInv => FlagsAreSound
  BY DEF IInv, TipInv, ViewInv, FlagsAreSound
<1> QED BY <1>1, Invariance, PTL

\* Undo data for the whole chain of the database survives every crash.
THEOREM UndoSurvives == ASSUME ~TransientErrors PROVE Spec => []UndoDataSurvives
<1>1. IInv => UndoDataSurvives
  BY DEF IInv, DiskInv, UndoDataSurvives
<1> QED BY <1>1, Invariance, PTL

\* The coins, the two caches, the undo data and the job keep their types, so no
\* cache entry and no undo record is ever malformed.
THEOREM Typed == ASSUME ~TransientErrors PROVE Spec => []TypeOK
<1>1. IInv => TypeOK
  BY DEF IInv
<1> QED BY <1>1, Invariance, PTL
=============================================================================

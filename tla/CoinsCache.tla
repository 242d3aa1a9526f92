---------------------------- MODULE CoinsCache ----------------------------
(***************************************************************************)
(* The unspent-output caches of coins.cpp and the database of txdb.cpp,    *)
(* one outpoint at a time: every operation of CCoinsViewCache touches the  *)
(* entries of its outpoints independently, so a cache is a function from   *)
(* outpoints to entries and these operators say what happens to an entry.  *)
(***************************************************************************)
EXTENDS Naturals

CONSTANTS Spent,    \* the null Coin: Coin::IsSpent()
          Absent    \* no entry for the outpoint in cacheCoins

\* An outpoint fixes its CTxOut; the height and the flag depend on the block.
Coin == [nHeight : Nat \ {0}, fCoinBase : BOOLEAN]

Entry == [coin : Coin \cup {Spent}, dirty : BOOLEAN, fresh : BOOLEAN]

ASSUME Distinct == Spent \notin Coin /\ Absent \notin Entry

\* AccessCoin, HaveCoin and GetCoin: the entry's coin, or what the base answers.
Lookup(e, base) == IF e = Absent THEN base ELSE e.coin

\* A mistake: the copy of an unspent coin is marked FRESH.
FetchedFresh(e, base) ==
  CASE e # Absent   -> e
    [] e = Absent /\ base = Spent -> Absent
    [] OTHER        -> [coin |-> base, dirty |-> FALSE, fresh |-> TRUE]

\* A copy of the base's coin.  GetCoin of the base is false for a spent coin, so
\* the branch of FetchCoin that would mark a spent copy FRESH is never taken.
FetchCoin(e, base) ==
  CASE e # Absent   -> e
    [] e = Absent /\ base = Spent -> Absent
    [] OTHER        -> [coin |-> base, dirty |-> FALSE, fresh |-> FALSE]

NewEntry == [coin |-> Spent, dirty |-> FALSE, fresh |-> FALSE]

Emplaced(e) == IF e = Absent THEN NewEntry ELSE e

AddCoin(e, coin, possible_overwrite) ==
  [coin  |-> coin,
   dirty |-> TRUE,
   fresh |-> Emplaced(e).fresh \/ (~possible_overwrite /\ ~Emplaced(e).dirty)]

\* "Adding new coin that replaces non-pruned entry"
AddThrows(e, possible_overwrite) == ~possible_overwrite /\ Emplaced(e).coin # Spent

\* SpendCoin of a fetched entry; it is false only when there is none.
SpendCoin(e) ==
  IF e = Absent \/ (e # Absent /\ e.fresh)
  THEN Absent
  ELSE [e EXCEPT !.coin = Spent, !.dirty = TRUE]

\* A mistake: the child's FRESH flag reaches an entry that hides the grandparent's.
CopiesFresh(us, e) ==
  CASE e = Absent \/ (e # Absent /\ ~e.dirty) -> us
    [] e # Absent /\ e.dirty /\ us = Absent ->
         IF e.fresh /\ e.coin = Spent THEN Absent ELSE e
    [] OTHER ->
         IF us.fresh /\ e.coin = Spent
         THEN Absent
         ELSE [coin |-> e.coin, dirty |-> TRUE, fresh |-> us.fresh \/ e.fresh]

\* CCoinsViewCache::BatchWrite: the entry e of the child reaches the entry us.
BatchWrite(us, e) ==
  CASE e = Absent \/ (e # Absent /\ ~e.dirty) -> us
    [] e # Absent /\ e.dirty /\ us = Absent ->
         IF e.fresh /\ e.coin = Spent THEN Absent ELSE e
    [] OTHER ->
         IF us.fresh /\ e.coin = Spent
         THEN Absent
         ELSE [us EXCEPT !.coin = e.coin, !.dirty = TRUE]

\* "FRESH flag misapplied to cache entry for base transaction ..."
WriteThrows(us, e) ==
  e # Absent /\ e.dirty /\ us # Absent /\ e.fresh /\ us.coin # Spent

\* A mistake: spent outputs are not erased from the database.
SpentNotErased(coin, e) ==
  IF e # Absent /\ e.dirty /\ e.coin # Spent THEN e.coin ELSE coin

\* CCoinsViewDB::BatchWrite
DbWrite(coin, e) == IF e # Absent /\ e.dirty THEN e.coin ELSE coin

Uncache(e) == IF e # Absent /\ ~e.dirty /\ ~e.fresh THEN Absent ELSE e

\* What the flags of an entry promise about the base.
FlagsSound(e, base) ==
  e # Absent => /\ e.fresh => base = Spent /\ e.dirty /\ e.coin # Spent
                /\ ~e.dirty => e.coin = base /\ e.coin # Spent
============================================================================

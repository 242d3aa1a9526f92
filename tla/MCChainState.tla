--------------------------- MODULE MCChainState ---------------------------
(***************************************************************************)
(* A root with a coinbase coin g and a plain coin h; two branches that     *)
(* mine the same transactions at different heights; a block that spends g  *)
(* twice; a block that repeats a coinbase.                                 *)
(*                                                                         *)
(*   Root - a1 (cb1; g -> t) - a2 (cbx; t,h -> u)                          *)
(*        \ b1 (cbx; g -> t; t,h -> u) - b2 (cb1, and g again)             *)
(*                                     \ b3 (cbx again)                    *)
(***************************************************************************)
EXTENDS ChainState

CONSTANTS a1, a2, b1, b2, b3, root, g, h, t, u, cb1, cbx

MCBlocks == {root, a1, a2, b1, b2, b3}
MCOutpoints == {g, h, t, u, cb1, cbx}

MCParent == [b \in MCBlocks \ {root} |->
               CASE b \in {a1, b1} -> root [] b = a2 -> a1 [] OTHER -> b1]
MCHeight == [b \in MCBlocks |->
               CASE b = root -> 1 [] b \in {a1, b1} -> 2 [] OTHER -> 3]
MCChain == [b \in MCBlocks |->
              CASE b = root -> {} [] b \in {a1, b1} -> {b} [] OTHER -> {b, MCParent[b]}]

CoinbaseTx(outs) == [ins |-> {}, outs |-> outs, coinbase |-> TRUE]
PlainTx(ins, outs) == [ins |-> ins, outs |-> outs, coinbase |-> FALSE]

MCVtx ==
  [b \in MCBlocks |->
     CASE b = root -> <<>>
       [] b = a1 -> <<CoinbaseTx({cb1}), PlainTx({g}, {t})>>
       [] b = a2 -> <<CoinbaseTx({cbx}), PlainTx({t, h}, {u})>>
       [] b = b1 -> <<CoinbaseTx({cbx}), PlainTx({g}, {t}), PlainTx({t, h}, {u})>>
       [] b = b2 -> <<CoinbaseTx({cb1}), PlainTx({g}, {})>>
       [] b = b3 -> <<CoinbaseTx({cbx})>>]

MCRootCoins ==
  [o \in MCOutpoints |->
     CASE o = g -> [nHeight |-> 1, fCoinBase |-> TRUE]
       [] o = h -> [nHeight |-> 1, fCoinBase |-> FALSE]
       [] OTHER -> Spent]
============================================================================

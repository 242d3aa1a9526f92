---------------------------- MODULE MCTxMemPool ----------------------------
(* Model-checking instance of TxMemPool.  P has the children C and D, which
   share the child F; E spends F; R conflicts with C.  X and others are
   coinbases, and G spends X.  The rates differ so that P, which pays more than
   its package, can be the first to be evicted; no size divides 1000 * fee.  *)
EXTENDS TxMemPool, TLC

Base(i) == <<"base", i>>

Ins == "P" :> {Base(0)} @@ "C" :> {<<"P", 0>>} @@ "D" :> {<<"P", 1>>}
    @@ "F" :> {<<"C", 0>>, <<"D", 0>>} @@ "E" :> {<<"F", 0>>}
    @@ "R" :> {<<"P", 0>>, Base(1)} @@ "G" :> {<<"X", 0>>}
    @@ [t \in Coinbases |-> {}]

Sizes == "P" :> 202 @@ "C" :> 151 @@ "D" :> 253 @@ "F" :> 131 @@ "E" :> 307
      @@ "R" :> 221 @@ "G" :> 173 @@ [t \in Coinbases |-> 101]
Fees == "P" :> 19 @@ "C" :> 1 @@ "D" :> 2 @@ "F" :> 40 @@ "E" :> 10
     @@ "R" :> 45 @@ "G" :> 30 @@ [t \in Coinbases |-> 0]
LockHeights == [t \in AllTxs |-> IF t = "D" THEN 1 ELSE 0]

BlockSet == {<<"X">>, <<"W">>, <<"Y", "P">>, <<"Z", "C", "D">>}

Priorities == {<<"D", 20>>}

LimitRecord == [ancestors |-> 4, ancestorSize |-> 800,
                descendants |-> 4, descendantSize |-> 800]
=============================================================================

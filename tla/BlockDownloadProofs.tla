------------------------- MODULE BlockDownloadProofs -------------------------
(***************************************************************************)
(* Proofs about BlockDownload for any peers, any block tree and any        *)
(* limits.                                                                 *)
(*                                                                         *)
(* StateInv(s) is what the proofs need of the record that st holds: its    *)
(* type, that mapBlocksInFlight and the queues of the peers agree, and     *)
(* that every counter is the size of the set it counts.  It is a predicate *)
(* on a value, not on the state, because the handlers pass the record      *)
(* through several functions of net_processing.cpp one after the other:    *)
(* each function is shown to keep it once, and an action composes them.    *)
(* The lists of blocks are computed by recursive functions; that these     *)
(* functions exist, and the types of what they return, follows by          *)
(* induction over a set of naturals (Induct).                              *)
(***************************************************************************)
EXTENDS BlockDownload, FiniteSetTheorems, SequenceTheorems, WellFoundedInduction, TLAPS

USE Zenon

-----------------------------------------------------------------------------
(* Naturals and sequences.                                                 *)

\* A non-empty set of naturals has a least member.
LEMMA Least ==
    ASSUME NEW T \in SUBSET Nat, T # {}
    PROVE  \E x \in T : \A y \in T : x <= y
<1> DEFINE R == OpToRel(<, Nat)
<1>1. IsWellFoundedOn(R, Nat)
    BY NatLessThanWellFounded
<1>2. \A y, x \in Nat : y < x => <<y, x>> \in R
    BY DEF OpToRel
<1> HIDE DEF R
<1>3. PICK x \in T : \A y \in T : ~(<<y, x>> \in R)
    BY <1>1, WFMin
<1>4. x \in Nat /\ \A y \in T : y \in Nat /\ ~(y < x)
    BY <1>2, <1>3
<1> QED BY <1>3, <1>4, SMT

\* Induction over the naturals, for a set.
LEMMA Induct ==
    ASSUME NEW S, 0 \in S, \A n \in Nat : n \in S => n + 1 \in S
    PROVE  Nat \subseteq S
<1> SUFFICES ASSUME Nat \ S # {} PROVE FALSE
  OBVIOUS
<1> DEFINE T == Nat \ S
<1>1. PICK x \in T : \A y \in T : x <= y
  BY Least
<1>2. x # 0 /\ x - 1 \in Nat /\ x - 1 \notin T
  BY <1>1, SMT
<1> QED BY <1>2, <1>1, SMT

\* q without its i-th entry.
LEMMA EraseFacts ==
    ASSUME NEW E, NEW q \in Seq(E), NEW i \in 1..Len(q)
    PROVE  LET r == Erase(q, i)
           IN  /\ r \in Seq(E) /\ Len(r) = Len(q) - 1
               /\ \A j \in 1..Len(r) : r[j] = IF j < i THEN q[j] ELSE q[j+1]
<1> DEFINE a == SubSeq(q, 1, i - 1)
           c == SubSeq(q, i + 1, Len(q))
<1>1. Len(q) \in Nat
    BY SMT
<1>2. a \in Seq(E) /\ Len(a) = i - 1 /\ \A j \in 1..Len(a) : a[j] = q[j]
    BY <1>1, SMT
<1>3. c \in Seq(E) /\ Len(c) = Len(q) - i /\ \A j \in 1..Len(c) : c[j] = q[i + j]
    BY <1>1, SMT
<1>4. Erase(q, i) = a \o c
    BY DEF Erase
<1> HIDE DEF a, c
<1>5. /\ a \o c \in Seq(E) /\ Len(a \o c) = Len(q) - 1
      /\ \A j \in 1..Len(a \o c) :
           (a \o c)[j] = IF j <= Len(a) THEN a[j] ELSE c[j - Len(a)]
    <2>1. a \o c \in Seq(E) /\ Len(a \o c) = Len(a) + Len(c)
        BY <1>2, <1>3, ConcatProperties
    <2>2. \A j \in 1..Len(a) + Len(c) :
             (a \o c)[j] = IF j <= Len(a) THEN a[j] ELSE c[j - Len(a)]
        BY <1>2, <1>3, ConcatProperties
    <2> QED  BY <1>1, <1>2, <1>3, <2>1, <2>2, SMT
<1>6. ASSUME NEW j \in 1..Len(a \o c)
      PROVE  (a \o c)[j] = IF j < i THEN q[j] ELSE q[j+1]
    <2>1. (a \o c)[j] = IF j <= Len(a) THEN a[j] ELSE c[j - Len(a)]
        BY <1>5
    <2>2. CASE j < i
        BY <1>1, <1>2, <2>1, <2>2, SMT
    <2>3. CASE ~(j < i)
        <3>1. j - Len(a) \in 1..Len(c) /\ ~(j <= Len(a)) /\ i + (j - Len(a)) = j + 1
            BY <1>1, <1>2, <1>3, <1>5, <2>3, SMT
        <3> QED  BY <1>3, <2>1, <2>3, <3>1
    <2> QED  BY <2>2, <2>3
<1> QED  BY <1>4, <1>5, <1>6

\* The largest of a bounded set of naturals is one of them.
LEMMA MaxIsMember ==
    ASSUME NEW n \in Nat, NEW T \in SUBSET (0..n), T # {}
    PROVE  Max(T) \in T
<1> DEFINE U == {x \in 0..n : n - x \in T}
<1>1. PICK t \in T : TRUE
    OBVIOUS
<1>2. n - t \in U
    BY <1>1, SMT
<1>3. U \in SUBSET Nat /\ U # {}
    BY <1>2, SMT
<1>4. PICK u \in U : \A y \in U : u <= y
    BY <1>3, Least
<1>5. n - u \in T /\ \A y \in T : n - u >= y
    <2>1. \A y \in T : n - y \in U
        BY SMT
    <2> QED  BY <1>4, <2>1, SMT
<1> QED  BY <1>5 DEF Max

-----------------------------------------------------------------------------
(* The types of st.                                                        *)

\* A clock is off (None) or shows an age.
Ages == Int \cup {None}
Entries == [hash : Blocks, fValidatedHeaders : BOOLEAN]
NodeStates ==
    [fPreferredDownload : BOOLEAN, fSyncStarted : BOOLEAN, headers : Ages,
     best : Blocks \cup {None}, unknown : Blocks \cup {None}, common : Blocks \cup {None},
     vBlocksInFlight : Seq(Entries), nBlocksInFlightValidHeaders : Int,
     downloading : Ages, stalling : Ages]

\* The finite maps of the code: functions from some of S to T.
Maps(S, T) == UNION {[D -> T] : D \in SUBSET S}

States ==
    [node : Maps(Peers, NodeStates), inFlight : Maps(Blocks, Peers), nSyncStarted : Int,
     nPreferredDownload : Int, nPeersWithValidatedDownloads : Int]

\* Membership in Maps, both ways.
LEMMA MapsFacts ==
    ASSUME NEW S, NEW T
    PROVE  /\ \A f \in Maps(S, T) : f \in [DOMAIN f -> T] /\ DOMAIN f \in SUBSET S
           /\ \A D \in SUBSET S : \A f \in [D -> T] : f \in Maps(S, T) /\ DOMAIN f = D
BY DEF Maps

\* The blocks in queue q are in flight from p, each queued once.
QueueOK(q, inFlight, p) ==
    \A i, j \in DOMAIN q :
        /\ q[i].hash \in DOMAIN inFlight /\ inFlight[q[i].hash] = p
        /\ i # j => q[i].hash # q[j].hash

\* Block b is in the queue of a peer that still has a CNodeState.
HasOwner(s, b) ==
    /\ s.inFlight[b] \in DOMAIN s.node
    /\ \E e \in Range(s.node[s.inFlight[b]].vBlocksInFlight) : e.hash = b

\* mapBlocksInFlight and the queues agree.
Queued(s) ==
    /\ \A p \in DOMAIN s.node : QueueOK(s.node[p].vBlocksInFlight, s.inFlight, p)
    /\ \A b \in DOMAIN s.inFlight : HasOwner(s, b)

\* The blocks of a queue whose headers are validated.
Validated(n) == {e \in Range(n.vBlocksInFlight) : e.fValidatedHeaders}

\* The fields of r are those of s, apart from the queue of p and the map.
Others(s, r, p) ==
    /\ r \in States
    /\ DOMAIN r.node = DOMAIN s.node
    /\ \A x \in DOMAIN s.node \ {p} : r.node[x] = s.node[x]
    /\ r.node[p].fSyncStarted = s.node[p].fSyncStarted
    /\ r.node[p].fPreferredDownload = s.node[p].fPreferredDownload
    /\ r.nSyncStarted = s.nSyncStarted
    /\ r.nPreferredDownload = s.nPreferredDownload

\* n with another queue, counter and clocks.
NodeWith(n, q, m, d, a) ==
    [n EXCEPT !.vBlocksInFlight = q, !.nBlocksInFlightValidHeaders = m,
              !.downloading = d, !.stalling = a]

\* The fields of NodeWith.
LEMMA NodeUpdate ==
    ASSUME NEW n \in NodeStates, NEW q \in Seq(Entries), NEW m \in Int,
           NEW d \in Ages, NEW a \in Ages
    PROVE  /\ NodeWith(n, q, m, d, a) \in NodeStates
           /\ NodeWith(n, q, m, d, a).fSyncStarted = n.fSyncStarted
           /\ NodeWith(n, q, m, d, a).fPreferredDownload = n.fPreferredDownload
           /\ NodeWith(n, q, m, d, a).vBlocksInFlight = q
           /\ NodeWith(n, q, m, d, a).nBlocksInFlightValidHeaders = m
           /\ NodeWith(n, q, m, d, a).stalling = a
BY DEF NodeStates, NodeWith

\* s with another state of p, counter and map.
StateWith(s, p, N, c, F) ==
    [s EXCEPT !.node[p] = N, !.nPeersWithValidatedDownloads = c, !.inFlight = F]

\* The fields of StateWith.
LEMMA StateUpdate ==
    ASSUME NEW s \in States, NEW p \in DOMAIN s.node, NEW N \in NodeStates, NEW c \in Int,
           NEW F \in Maps(Blocks, Peers)
    PROVE  /\ StateWith(s, p, N, c, F) \in States
           /\ DOMAIN StateWith(s, p, N, c, F).node = DOMAIN s.node
           /\ \A x \in DOMAIN s.node \ {p} : StateWith(s, p, N, c, F).node[x] = s.node[x]
           /\ StateWith(s, p, N, c, F).node[p] = N
           /\ StateWith(s, p, N, c, F).inFlight = F
           /\ StateWith(s, p, N, c, F).nPeersWithValidatedDownloads = c
           /\ StateWith(s, p, N, c, F).nSyncStarted = s.nSyncStarted
           /\ StateWith(s, p, N, c, F).nPreferredDownload = s.nPreferredDownload
<1> DEFINE r == StateWith(s, p, N, c, F)
           f == [s.node EXCEPT ![p] = N]
<1>1. s.node \in [DOMAIN s.node -> NodeStates] /\ DOMAIN s.node \subseteq Peers
    BY MapsFacts DEF States
<1>2. /\ f \in [DOMAIN s.node -> NodeStates] /\ f[p] = N
      /\ \A x \in DOMAIN s.node \ {p} : f[x] = s.node[x]
    BY <1>1
<1>3. f \in Maps(Peers, NodeStates) /\ DOMAIN f = DOMAIN s.node
    BY <1>1, <1>2, MapsFacts, SMT
<1>4. r = [s EXCEPT !.node = f, !.nPeersWithValidatedDownloads = c, !.inFlight = F]
    BY DEF StateWith
<1> HIDE DEF f
<1>5. r \in States /\ r.node = f /\ r.inFlight = F /\ r.nPeersWithValidatedDownloads = c
      /\ r.nSyncStarted = s.nSyncStarted /\ r.nPreferredDownload = s.nPreferredDownload
    BY <1>3, <1>4 DEF States
<1> QED  BY <1>2, <1>3, <1>5

\* What MarkBlockAsReceived does when b is in flight: one entry leaves the
\* queue of the peer that b was asked of, and the counters follow.
LEMMA ReceivedFields ==
    ASSUME NEW s \in States, Queued(s), NEW b \in DOMAIN s.inFlight
    PROVE  LET p == s.inFlight[b]
               q == s.node[p].vBlocksInFlight
               r == MarkBlockAsReceived(s, b)
           IN  /\ Others(s, r, p)
               /\ \E i \in DOMAIN q :
                    LET n == s.node[p].nBlocksInFlightValidHeaders - One(q[i].fValidatedHeaders)
                    IN  /\ q[i].hash = b
                        /\ r.node[p].vBlocksInFlight = Erase(q, i)
                        /\ r.node[p].nBlocksInFlightValidHeaders = n
                        /\ r.nPeersWithValidatedDownloads =
                             s.nPeersWithValidatedDownloads - One(LastValidated(n, q[i]))
               /\ r.node[p].stalling = None
               /\ r.inFlight = [c \in DOMAIN s.inFlight \ {b} |-> s.inFlight[c]]
<1> DEFINE p == s.inFlight[b]
           q == s.node[p].vBlocksInFlight
           i == CHOOSE j \in DOMAIN q : q[j].hash = b
           n == s.node[p].nBlocksInFlightValidHeaders - One(q[i].fValidatedHeaders)
           d == Restarted(i, s.node[p].downloading)
           N == NodeWith(s.node[p], Erase(q, i), n, d, None)
           c == s.nPeersWithValidatedDownloads - One(LastValidated(n, q[i]))
           F == [x \in DOMAIN s.inFlight \ {b} |-> s.inFlight[x]]
           r == MarkBlockAsReceived(s, b)
<1>1. /\ s.node \in [DOMAIN s.node -> NodeStates] /\ DOMAIN s.node \subseteq Peers
      /\ s.inFlight \in [DOMAIN s.inFlight -> Peers] /\ DOMAIN s.inFlight \subseteq Blocks
      /\ s.nPeersWithValidatedDownloads \in Int
    BY MapsFacts DEF States
<1>2. p \in DOMAIN s.node /\ \E e \in Range(s.node[p].vBlocksInFlight) : e.hash = b
    BY DEF Queued, HasOwner
<1> HIDE DEF p
<1>3. s.node[p] \in NodeStates
    BY <1>1, <1>2
<1>4. q \in Seq(Entries) /\ s.node[p].nBlocksInFlightValidHeaders \in Int
    BY <1>3 DEF NodeStates
<1>5. \E j \in DOMAIN q : q[j].hash = b
    BY <1>2 DEF Range
<1> HIDE DEF q
<1>6. i \in DOMAIN q /\ q[i].hash = b
    BY <1>5
<1> HIDE DEF i
<1>7. Erase(q, i) \in Seq(Entries)
    <2>1. i \in 1..Len(q)
        BY <1>4, <1>6, SMT
    <2> QED  BY <1>4, <2>1, EraseFacts
<1>8. n \in Int /\ c \in Int
    BY <1>1, <1>4, SMT DEF One
<1> HIDE DEF n, c
<1>9. /\ N \in NodeStates
      /\ N.fSyncStarted = s.node[p].fSyncStarted
      /\ N.fPreferredDownload = s.node[p].fPreferredDownload
      /\ N.vBlocksInFlight = Erase(q, i)
      /\ N.nBlocksInFlightValidHeaders = n
      /\ N.stalling = None
    <2>1. d \in Ages /\ None \in Ages
        BY <1>3, SMT DEF NodeStates, Ages, Restarted
    <2> DEFINE o == s.node[p]
               w == Erase(q, i)
    <2>2. o \in NodeStates /\ w \in Seq(Entries)
        BY <1>3, <1>7
    <2> HIDE DEF d, o, w
    <2>3. /\ NodeWith(o, w, n, d, None) \in NodeStates
          /\ NodeWith(o, w, n, d, None).fSyncStarted = o.fSyncStarted
          /\ NodeWith(o, w, n, d, None).fPreferredDownload = o.fPreferredDownload
          /\ NodeWith(o, w, n, d, None).vBlocksInFlight = w
          /\ NodeWith(o, w, n, d, None).nBlocksInFlightValidHeaders = n
          /\ NodeWith(o, w, n, d, None).stalling = None
        BY <1>8, <2>1, <2>2, NodeUpdate, SMT
    <2> QED  BY <2>3 DEF o, w
<1>10. F \in Maps(Blocks, Peers)
    <2>1. F \in [DOMAIN s.inFlight \ {b} -> Peers] /\ DOMAIN s.inFlight \ {b} \in SUBSET Blocks
        BY <1>1
    <2> HIDE DEF F
    <2> QED  BY <2>1, MapsFacts
<1>11. r = StateWith(s, p, N, c, F)
    BY DEF MarkBlockAsReceived, StateWith, NodeWith, StallingEnds, Restarted, p, q, i, n, c
<1> HIDE DEF N, r, F
<1>12. /\ r \in States /\ DOMAIN r.node = DOMAIN s.node
       /\ \A x \in DOMAIN s.node \ {p} : r.node[x] = s.node[x]
       /\ r.node[p] = N /\ r.inFlight = F /\ r.nPeersWithValidatedDownloads = c
       /\ r.nSyncStarted = s.nSyncStarted
       /\ r.nPreferredDownload = s.nPreferredDownload
    BY <1>2, <1>8, <1>9, <1>10, <1>11, StateUpdate, SMT
<1>13. Others(s, r, p) /\ r.node[p].stalling = None
       /\ r.inFlight = [x \in DOMAIN s.inFlight \ {b} |-> s.inFlight[x]]
    BY <1>9, <1>12 DEF Others, F
<1>14. \E k \in DOMAIN q :
          LET m == s.node[p].nBlocksInFlightValidHeaders - One(q[k].fValidatedHeaders)
          IN  /\ q[k].hash = b
              /\ r.node[p].vBlocksInFlight = Erase(q, k)
              /\ r.node[p].nBlocksInFlightValidHeaders = m
              /\ r.nPeersWithValidatedDownloads =
                   s.nPeersWithValidatedDownloads - One(LastValidated(m, q[k]))
    BY <1>6, <1>9, <1>12 DEF n, c
<1> QED  BY <1>13, <1>14 DEF p, q, r

-----------------------------------------------------------------------------
(* The queue of one peer as the set of its entries.                        *)

\* A queue has finitely many entries.
LEMMA RangeIsFinite ==
    ASSUME NEW E, NEW q \in Seq(E)
    PROVE  IsFiniteSet(Range(q))
<1>1. Len(q) \in Nat /\ q \in [1..Len(q) -> E] /\ DOMAIN q = 1..Len(q)
    BY LenProperties
<1>2. q \in Surjection(1..Len(q), Range(q))
    BY <1>1 DEF Surjection, Range
<1>3. IsFiniteSet(1..Len(q))
    BY <1>1, FS_Interval, SMT
<1> QED  BY <1>2, <1>3, FS_Surjection

\* Removing an entry that is queued once removes it from the set of entries.
LEMMA RangeOfErase ==
    ASSUME NEW E, NEW q \in Seq(E), NEW i \in DOMAIN q,
           \A j \in DOMAIN q : j # i => q[j] # q[i]
    PROVE  Range(Erase(q, i)) = Range(q) \ {q[i]}
<1> DEFINE r == Erase(q, i)
<1>1. /\ i \in 1..Len(q) /\ DOMAIN q = 1..Len(q) /\ Len(q) \in Nat
    BY LenProperties
<1>2. /\ r \in Seq(E) /\ Len(r) = Len(q) - 1
      /\ \A j \in 1..Len(r) : r[j] = IF j < i THEN q[j] ELSE q[j + 1]
    BY <1>1, EraseFacts
<1>3. DOMAIN r = 1..Len(q) - 1
    BY <1>2, LenProperties
<1> HIDE DEF r
<1>4. ASSUME NEW j \in DOMAIN r PROVE r[j] \in Range(q) \ {q[i]}
    <2>1. j \in DOMAIN q /\ j + 1 \in DOMAIN q /\ r[j] = IF j < i THEN q[j] ELSE q[j + 1]
        BY <1>1, <1>2, <1>3, SMT
    <2> QED  BY <2>1, <1>1, SMT DEF Range
<1>5. ASSUME NEW j \in DOMAIN q, j # i PROVE q[j] \in Range(r)
    <2>1. CASE j < i
        <3>1. j \in DOMAIN r /\ r[j] = q[j]
            BY <1>1, <1>2, <1>3, <2>1, SMT
        <3> QED  BY <3>1 DEF Range
    <2>2. CASE j > i
        <3>1. j - 1 \in DOMAIN r /\ j - 1 \in 1..Len(r) /\ ~(j - 1 < i) /\ (j - 1) + 1 = j
            BY <1>1, <1>2, <1>3, <2>2, SMT
        <3>2. r[j - 1] = q[j]
            BY <1>2, <3>1
        <3> QED  BY <3>1, <3>2 DEF Range
    <2> QED  BY <1>1, <1>5, <2>1, <2>2, SMT
<1> QED  BY <1>4, <1>5 DEF Range, r

\* Appending an entry adds it to the set of entries.
LEMMA RangeOfAppend ==
    ASSUME NEW E, NEW q \in Seq(E), NEW e \in E
    PROVE  /\ Range(Append(q, e)) = Range(q) \cup {e}
           /\ Append(q, e) \in Seq(E)
           /\ DOMAIN Append(q, e) = DOMAIN q \cup {Len(q) + 1} /\ DOMAIN q = 1..Len(q)
           /\ Len(q) \in Nat
           /\ Append(q, e)[Len(q) + 1] = e
           /\ \A i \in DOMAIN q : Append(q, e)[i] = q[i]
<1> DEFINE r == Append(q, e)
<1>1. /\ r \in Seq(E) /\ Len(r) = Len(q) + 1
      /\ \A i \in 1..Len(q) : r[i] = q[i]
      /\ r[Len(q) + 1] = e
    BY AppendProperties, SMT
<1>2. DOMAIN q = 1..Len(q) /\ Len(q) \in Nat /\ DOMAIN r = 1..Len(r)
    BY <1>1, LenProperties
<1> HIDE DEF r
<1>3. DOMAIN r = DOMAIN q \cup {Len(q) + 1}
    BY <1>1, <1>2, SMT
<1>4. Range(r) = Range(q) \cup {e}
    BY <1>1, <1>2, <1>3, SMT DEF Range
<1> QED  BY <1>1, <1>2, <1>3, <1>4 DEF r

-----------------------------------------------------------------------------
(* The inductive invariant of st. *)

\* What the three counters count.
Syncing(s) == {p \in DOMAIN s.node : s.node[p].fSyncStarted}
PreferredNodes(s) == {p \in DOMAIN s.node : s.node[p].fPreferredDownload}
Downloading(s) == {p \in DOMAIN s.node : Validated(s.node[p]) # {}}

\* Each peer's own counter is exact, and a staller owes a block.
NodeOK(n) ==
    /\ n.nBlocksInFlightValidHeaders = Cardinality(Validated(n))
    /\ n.stalling # None => n.vBlocksInFlight # << >>

\* The inductive invariant of the record.
StateInv(s) ==
    /\ s \in States
    /\ Queued(s)
    /\ \A p \in DOMAIN s.node : NodeOK(s.node[p])
    /\ s.nSyncStarted = Cardinality(Syncing(s))
    /\ s.nPreferredDownload = Cardinality(PreferredNodes(s))
    /\ s.nPeersWithValidatedDownloads = Cardinality(Downloading(s))

\* The counters count finite sets of peers.
LEMMA NodesAreFinite ==
    ASSUME NEW s \in States, NEW S \in SUBSET DOMAIN s.node
    PROVE  IsFiniteSet(S) /\ Cardinality(S) \in Nat
<1>1. IsFiniteSet(Peers)
    BY PeersAssumption, RangeIsFinite DEF Peers
<1>2. DOMAIN s.node \in SUBSET Peers
    BY MapsFacts, SMT DEF States
<1>3. IsFiniteSet(S)
    BY <1>1, <1>2, FS_Subset
<1> QED  BY <1>3, FS_CardinalityType

\* A counted set changes by p at most, and its size with it.
LEMMA CountChanges ==
    ASSUME NEW S, NEW T, NEW p, IsFiniteSet(S), S \ {p} = T \ {p}
    PROVE  Cardinality(T) = Cardinality(S) - One(p \in S) + One(p \in T)
<1>1. IsFiniteSet(S \ {p}) /\ Cardinality(S) \in Nat
      /\ Cardinality(S \ {p}) = Cardinality(S) - One(p \in S)
    BY FS_RemoveElement, FS_CardinalityType, SMT DEF One
<1>2. Cardinality((T \ {p}) \cup {p}) = Cardinality(T \ {p}) + 1
    BY <1>1, FS_AddElement
<1>3. CASE p \in T
    <2>1. T = (T \ {p}) \cup {p}
        BY <1>3
    <2> QED  BY <1>1, <1>2, <1>3, <2>1 DEF One
<1>4. CASE p \notin T
    <2>1. T = S \ {p}
        BY <1>4
    <2> QED  BY <1>1, <1>4, <2>1, SMT DEF One
<1> QED  BY <1>3, <1>4

\* StateInv after the queue of one peer has changed, as MarkBlockAsReceived and
\* MarkBlockAsInFlight do.
LEMMA QueueChange ==
    ASSUME NEW s, NEW r, NEW p \in DOMAIN s.node, StateInv(s), Others(s, r, p),
           Queued(r), NodeOK(r.node[p]),
           r.nPeersWithValidatedDownloads =
             s.nPeersWithValidatedDownloads - One(Validated(s.node[p]) # {})
                                            + One(Validated(r.node[p]) # {})
    PROVE  StateInv(r)
<1>1. s \in States /\ r \in States /\ DOMAIN r.node = DOMAIN s.node
      /\ \A x \in DOMAIN s.node \ {p} : r.node[x] = s.node[x]
    BY DEF StateInv, Others
<1>2. \A x \in DOMAIN r.node : NodeOK(r.node[x])
    BY <1>1 DEF StateInv
<1>3. Syncing(r) = Syncing(s) /\ PreferredNodes(r) = PreferredNodes(s)
    BY <1>1 DEF Others, Syncing, PreferredNodes
<1>4. /\ Downloading(s) \ {p} = Downloading(r) \ {p}
      /\ (p \in Downloading(s)) = (Validated(s.node[p]) # {})
      /\ (p \in Downloading(r)) = (Validated(r.node[p]) # {})
    BY <1>1, SMT DEF Downloading
<1>5. IsFiniteSet(Downloading(s))
    <2>1. Downloading(s) \in SUBSET DOMAIN s.node
        BY DEF Downloading
    <2> QED  BY <1>1, <2>1, NodesAreFinite
<1>6. Cardinality(Downloading(r)) =
        Cardinality(Downloading(s)) - One(Validated(s.node[p]) # {})
                                    + One(Validated(r.node[p]) # {})
    BY <1>4, <1>5, CountChanges, SMT
<1> QED  BY <1>1, <1>2, <1>3, <1>6 DEF StateInv, Others

-----------------------------------------------------------------------------
(* MarkBlockAsReceived and MarkBlockAsInFlight.                            *)

\* The types of a CNodeState, and its validated blocks are finitely many.
LEMMA NodeTypes ==
    ASSUME NEW s \in States, NEW p \in DOMAIN s.node
    PROVE  /\ s.node[p] \in NodeStates
           /\ s.node[p].vBlocksInFlight \in Seq(Entries)
           /\ IsFiniteSet(Validated(s.node[p]))
           /\ Cardinality(Validated(s.node[p])) \in Nat
           /\ Cardinality(Validated(s.node[p])) = 0 <=> Validated(s.node[p]) = {}
<1>1. s.node[p] \in NodeStates
    BY MapsFacts, SMT DEF States
<1>2. s.node[p].vBlocksInFlight \in Seq(Entries)
    BY <1>1 DEF NodeStates
<1>3. IsFiniteSet(Range(s.node[p].vBlocksInFlight))
    BY <1>2, RangeIsFinite
<1>4. IsFiniteSet(Validated(s.node[p]))
    BY <1>3, FS_Subset DEF Validated
<1> QED  BY <1>1, <1>2, <1>4, FS_CardinalityType, FS_EmptySet

\* inFlight without b.
Drop(f, b) == [c \in DOMAIN f \ {b} |-> f[c]]

\* A queue without one of its blocks, when the block is not in flight any more.
LEMMA QueueWithout ==
    ASSUME NEW q \in Seq(Entries), NEW f, NEW p, QueueOK(q, f, p), NEW i \in DOMAIN q
    PROVE  /\ QueueOK(Erase(q, i), Drop(f, q[i].hash), p)
           /\ Range(Erase(q, i)) = Range(q) \ {q[i]}
<1> DEFINE u == Erase(q, i)
           g == Drop(f, q[i].hash)
<1>0. DOMAIN g = DOMAIN f \ {q[i].hash} /\ \A c \in DOMAIN g : g[c] = f[c]
    BY DEF Drop
<1> HIDE DEF g
<1>1. DOMAIN q = 1..Len(q) /\ Len(q) \in Nat
    BY LenProperties
<1>2. /\ u \in Seq(Entries) /\ Len(u) = Len(q) - 1
      /\ \A m \in 1..Len(u) : u[m] = IF m < i THEN q[m] ELSE q[m + 1]
    BY <1>1, EraseFacts
<1>3. DOMAIN u = 1..Len(u)
    BY <1>2, LenProperties
<1> HIDE DEF u
<1> DEFINE at(m) == IF m < i THEN m ELSE m + 1
<1>4. \A m \in DOMAIN u : at(m) \in DOMAIN q /\ at(m) # i /\ u[m] = q[at(m)]
    BY <1>1, <1>2, <1>3, SMT
<1>5. \A m, l \in DOMAIN u : m # l => at(m) # at(l)
    BY <1>1, <1>2, <1>3, SMT
<1> HIDE DEF at
<1>6. QueueOK(u, g, p)
    BY <1>0, <1>4, <1>5, SMT DEF QueueOK
<1>7. Range(u) = Range(q) \ {q[i]}
    <2>1. \A j \in DOMAIN q : j # i => q[j] # q[i]
        BY DEF QueueOK
    <2> QED  BY <2>1, RangeOfErase DEF u
<1> QED  BY <1>6, <1>7 DEF u, g

\* A queue none of whose blocks changes.
LEMMA QueueUntouched ==
    ASSUME NEW q, NEW f, NEW p, QueueOK(q, f, p), NEW g, NEW b,
           DOMAIN f \ {b} \subseteq DOMAIN g,
           \A c \in DOMAIN f \ {b} : g[c] = f[c], b \in DOMAIN f => f[b] # p
    PROVE  QueueOK(q, g, p)
BY DEF QueueOK

\* MarkBlockAsReceived keeps StateInv, and b is not in flight afterwards.
LEMMA ReceivedKeeps ==
    ASSUME NEW s, StateInv(s), NEW b
    PROVE  LET r == MarkBlockAsReceived(s, b)
           IN  StateInv(r) /\ b \notin DOMAIN r.inFlight /\ DOMAIN r.node = DOMAIN s.node
<1> DEFINE r == MarkBlockAsReceived(s, b)
           p == s.inFlight[b]
           q == s.node[p].vBlocksInFlight
<1>1. CASE b \notin DOMAIN s.inFlight
    BY <1>1 DEF MarkBlockAsReceived
<1>2. CASE b \in DOMAIN s.inFlight
    <2>1. s \in States /\ Queued(s)
        BY DEF StateInv
    <2>2. /\ Others(s, r, p)
          /\ r.node[p].stalling = None
          /\ r.inFlight = [c \in DOMAIN s.inFlight \ {b} |-> s.inFlight[c]]
        BY <1>2, <2>1, ReceivedFields
    <2>3. PICK i \in DOMAIN q :
             LET n == s.node[p].nBlocksInFlightValidHeaders - One(q[i].fValidatedHeaders)
             IN  /\ q[i].hash = b
                 /\ r.node[p].vBlocksInFlight = Erase(q, i)
                 /\ r.node[p].nBlocksInFlightValidHeaders = n
                 /\ r.nPeersWithValidatedDownloads =
                      s.nPeersWithValidatedDownloads - One(LastValidated(n, q[i]))
        BY <1>2, <2>1, ReceivedFields
    <2>4. p \in DOMAIN s.node
        BY <1>2, <2>1 DEF Queued, HasOwner
    <2> HIDE DEF r, p
    <2>5. QueueOK(q, s.inFlight, p)
        BY <2>1, <2>4 DEF Queued
    <2>6. /\ q \in Seq(Entries) /\ IsFiniteSet(Validated(s.node[p]))
          /\ Cardinality(Validated(s.node[p])) \in Nat
        BY <2>1, <2>4, NodeTypes
    <2>7. /\ DOMAIN r.node = DOMAIN s.node /\ DOMAIN r.inFlight = DOMAIN s.inFlight \ {b}
          /\ \A c \in DOMAIN r.inFlight : r.inFlight[c] = s.inFlight[c]
          /\ \A x \in DOMAIN s.node \ {p} : r.node[x] = s.node[x]
        BY <2>2 DEF Others
    <2>8. /\ QueueOK(r.node[p].vBlocksInFlight, r.inFlight, p)
          /\ Range(r.node[p].vBlocksInFlight) = Range(q) \ {q[i]}
        <3> HIDE DEF q
        <3>1. /\ QueueOK(Erase(q, i), Drop(s.inFlight, q[i].hash), p)
              /\ Range(Erase(q, i)) = Range(q) \ {q[i]}
            BY <2>5, <2>6, QueueWithout
        <3> QED  BY <2>2, <2>3, <3>1 DEF Drop
    <2>9. /\ q[i] \in Range(q)
          /\ Validated(r.node[p]) = Validated(s.node[p]) \ {q[i]}
          /\ q[i] \in Validated(s.node[p]) <=> q[i].fValidatedHeaders
        BY <2>8 DEF Validated, Range
    <2>10. /\ Cardinality(Validated(r.node[p])) =
                Cardinality(Validated(s.node[p])) - One(q[i].fValidatedHeaders)
           /\ IsFiniteSet(Validated(r.node[p]))
        <3> HIDE DEF q
        <3> QED  BY <2>6, <2>9, FS_RemoveElement, SMT DEF One
    <2>11. s.node[p].nBlocksInFlightValidHeaders = Cardinality(Validated(s.node[p]))
        BY <2>4 DEF StateInv, NodeOK
    <2>12. NodeOK(r.node[p])
        BY <2>2, <2>3, <2>10, <2>11 DEF NodeOK
    <2>13. One(LastValidated(r.node[p].nBlocksInFlightValidHeaders, q[i])) =
             One(Validated(s.node[p]) # {}) - One(Validated(r.node[p]) # {})
        <3> HIDE DEF q
        <3>1. r.node[p].nBlocksInFlightValidHeaders = 0 <=> Validated(r.node[p]) = {}
            BY <2>10, <2>12, FS_EmptySet DEF NodeOK
        <3>2. CASE q[i].fValidatedHeaders
            BY <2>9, <3>1, <3>2, SMT DEF One, LastValidated
        <3>3. CASE ~q[i].fValidatedHeaders
            BY <2>9, <3>3, SMT DEF One, LastValidated
        <3> QED  BY <3>2, <3>3
    <2>14. r.nPeersWithValidatedDownloads =
             s.nPeersWithValidatedDownloads - One(Validated(s.node[p]) # {})
                                            + One(Validated(r.node[p]) # {})
        <3>1. s.nPeersWithValidatedDownloads \in Int
            BY <2>1 DEF States
        <3> HIDE DEF q
        <3> QED  BY <2>3, <2>13, <3>1, SMT DEF One
    <2>15. ASSUME NEW x \in DOMAIN r.node
           PROVE  QueueOK(r.node[x].vBlocksInFlight, r.inFlight, x)
        <3>1. CASE x = p
            BY <2>8, <3>1
        <3>2. CASE x # p
            <4>1. QueueOK(s.node[x].vBlocksInFlight, s.inFlight, x) /\ r.node[x] = s.node[x]
                BY <2>1, <2>7, <3>2 DEF Queued
            <4>2. s.inFlight[b] # x
                BY <3>2 DEF p
            <4> QED  BY <2>7, <4>1, <4>2, QueueUntouched
        <3> QED  BY <3>1, <3>2
    <2>16. ASSUME NEW c \in DOMAIN r.inFlight
           PROVE  HasOwner(r, c)
        <3>1. c \in DOMAIN s.inFlight /\ c # b /\ r.inFlight[c] = s.inFlight[c]
            BY <2>7
        <3>2. HasOwner(s, c)
            BY <2>1, <3>1 DEF Queued
        <3>3. CASE s.inFlight[c] # p
            BY <2>7, <3>1, <3>2, <3>3 DEF HasOwner
        <3>4. CASE s.inFlight[c] = p
            BY <2>3, <2>8, <2>7, <3>1, <3>2, <3>4 DEF HasOwner
        <3> QED  BY <3>3, <3>4
    <2>17. StateInv(r)
        BY <2>2, <2>4, <2>12, <2>14, <2>15, <2>16, QueueChange DEF Queued
    <2> QED  BY <2>7, <2>17 DEF r
<1> QED  BY <1>1, <1>2

\* inFlight with b, asked of p.
Put(f, b, p) == [c \in DOMAIN f \cup {b} |-> IF c = b THEN p ELSE f[c]]

\* A queue with one more block, which was not in flight.
LEMMA QueueWith ==
    ASSUME NEW q \in Seq(Entries), NEW f, NEW p, QueueOK(q, f, p),
           NEW e \in Entries, e.hash \notin DOMAIN f
    PROVE  QueueOK(Append(q, e), Put(f, e.hash, p), p)
<1> DEFINE u == Append(q, e)
           g == Put(f, e.hash, p)
<1>1. /\ DOMAIN u = DOMAIN q \cup {Len(q) + 1} /\ u[Len(q) + 1] = e
      /\ \A i \in DOMAIN q : u[i] = q[i]
    BY RangeOfAppend, SMT
<1>2. /\ DOMAIN g = DOMAIN f \cup {e.hash} /\ g[e.hash] = p
      /\ \A c \in DOMAIN f : c # e.hash => g[c] = f[c]
    BY DEF Put
<1> HIDE DEF u, g
<1>3. \A i \in DOMAIN q : q[i].hash \in DOMAIN f /\ q[i].hash # e.hash /\ f[q[i].hash] = p
    BY DEF QueueOK
<1>4. \A i, j \in DOMAIN q : i # j => q[i].hash # q[j].hash
    BY DEF QueueOK
<1>5. \A i \in DOMAIN u : u[i].hash \in DOMAIN g /\ g[u[i].hash] = p
    BY <1>1, <1>2, <1>3
<1>6. \A i, j \in DOMAIN u : i # j => u[i].hash # u[j].hash
    BY <1>1, <1>3, <1>4
<1> QED  BY <1>5, <1>6 DEF QueueOK, u, g

\* The second half of MarkBlockAsInFlight, when b is not in flight.
Ask(s, p, b, v) ==
    StateWith(s, p,
        [s.node[p] EXCEPT
           !.vBlocksInFlight =
               Append(s.node[p].vBlocksInFlight, [hash |-> b, fValidatedHeaders |-> v]),
           !.nBlocksInFlightValidHeaders = s.node[p].nBlocksInFlightValidHeaders + One(v),
           !.downloading = IF s.node[p].vBlocksInFlight = << >> THEN 0
                           ELSE s.node[p].downloading],
        s.nPeersWithValidatedDownloads
            + One(s.node[p].nBlocksInFlightValidHeaders + One(v) = 1 /\ v),
        Put(s.inFlight, b, p))

\* MarkBlockAsInFlight first calls MarkBlockAsReceived.
LEMMA InFlightIsAsk ==
    ASSUME NEW s, NEW p, NEW b, NEW v
    PROVE  MarkBlockAsInFlight(s, p, b, v) = Ask(MarkBlockAsReceived(s, b), p, b, v)
BY DEF MarkBlockAsInFlight, Ask, StateWith, Put

\* The fields of Ask.
LEMMA AskFields ==
    ASSUME NEW s \in States, NEW p \in DOMAIN s.node, NEW b \in Blocks, NEW v \in BOOLEAN
    PROVE  LET r == Ask(s, p, b, v)
               n == s.node[p].nBlocksInFlightValidHeaders + One(v)
           IN  /\ Others(s, r, p)
               /\ r.node[p].vBlocksInFlight =
                    Append(s.node[p].vBlocksInFlight, [hash |-> b, fValidatedHeaders |-> v])
               /\ r.node[p].nBlocksInFlightValidHeaders = n
               /\ r.nPeersWithValidatedDownloads =
                    s.nPeersWithValidatedDownloads + One(n = 1 /\ v)
               /\ r.inFlight = Put(s.inFlight, b, p)
<1> DEFINE q == s.node[p].vBlocksInFlight
           e == [hash |-> b, fValidatedHeaders |-> v]
           n == s.node[p].nBlocksInFlightValidHeaders + One(v)
           d == IF s.node[p].vBlocksInFlight = << >> THEN 0 ELSE s.node[p].downloading
           N == NodeWith(s.node[p], Append(q, e), n, d, s.node[p].stalling)
           c == s.nPeersWithValidatedDownloads + One(n = 1 /\ v)
           F == Put(s.inFlight, b, p)
           r == Ask(s, p, b, v)
<1>1. /\ s.node[p] \in NodeStates /\ p \in Peers
      /\ s.inFlight \in [DOMAIN s.inFlight -> Peers] /\ DOMAIN s.inFlight \subseteq Blocks
      /\ s.nPeersWithValidatedDownloads \in Int
    BY MapsFacts, SMT DEF States
<1>2. /\ q \in Seq(Entries) /\ s.node[p].nBlocksInFlightValidHeaders \in Int
      /\ s.node[p].stalling \in Ages /\ s.node[p].downloading \in Ages /\ 0 \in Ages
    BY <1>1, SMT DEF NodeStates, Ages
<1>3. r = StateWith(s, p, N, c, F)
    BY <1>1 DEF Ask, NodeWith, NodeStates
<1>4. e \in Entries
    BY DEF Entries
<1> HIDE DEF q, e
<1>5. Append(q, e) \in Seq(Entries)
    BY <1>2, <1>4, RangeOfAppend
<1>6. n \in Int /\ c \in Int /\ d \in Ages
    BY <1>1, <1>2, SMT DEF One
<1>7. F \in Maps(Blocks, Peers)
    <2>1. F \in [DOMAIN s.inFlight \cup {b} -> Peers]
          /\ DOMAIN s.inFlight \cup {b} \in SUBSET Blocks
        BY <1>1 DEF Put
    <2> HIDE DEF F
    <2> QED  BY <2>1, MapsFacts
<1> HIDE DEF n, c, d
<1>8. /\ N \in NodeStates
      /\ N.fSyncStarted = s.node[p].fSyncStarted
      /\ N.fPreferredDownload = s.node[p].fPreferredDownload
      /\ N.vBlocksInFlight = Append(q, e)
      /\ N.nBlocksInFlightValidHeaders = n
    <2> DEFINE o == s.node[p]
               u == Append(q, e)
               a == s.node[p].stalling
    <2>1. o \in NodeStates /\ u \in Seq(Entries) /\ a \in Ages /\ N = NodeWith(o, u, n, d, a)
        BY <1>1, <1>2, <1>5
    <2> HIDE DEF o, u, a, N
    <2>2. /\ N \in NodeStates /\ N.fSyncStarted = o.fSyncStarted
          /\ N.fPreferredDownload = o.fPreferredDownload
          /\ N.vBlocksInFlight = u /\ N.nBlocksInFlightValidHeaders = n
        BY <1>6, <2>1, NodeUpdate, SMT
    <2> QED  BY <2>2 DEF o, u
<1> HIDE DEF N, r, F
<1>9. /\ r \in States /\ DOMAIN r.node = DOMAIN s.node
      /\ \A x \in DOMAIN s.node \ {p} : r.node[x] = s.node[x]
      /\ r.node[p] = N /\ r.inFlight = F /\ r.nPeersWithValidatedDownloads = c
      /\ r.nSyncStarted = s.nSyncStarted
      /\ r.nPreferredDownload = s.nPreferredDownload
    BY <1>3, <1>6, <1>7, <1>8, StateUpdate, SMT
<1>10. Others(s, r, p)
    BY <1>8, <1>9 DEF Others
<1> QED  BY <1>8, <1>9, <1>10 DEF q, e, n, c, F, r

\* Asking p for a block that is not in flight keeps StateInv.
LEMMA AskKeeps ==
    ASSUME NEW s, StateInv(s), NEW p \in DOMAIN s.node, NEW b \in Blocks \ DOMAIN s.inFlight,
           NEW v \in BOOLEAN
    PROVE  LET r == Ask(s, p, b, v)
           IN  StateInv(r) /\ DOMAIN r.node = DOMAIN s.node
               /\ r.node[p].vBlocksInFlight # << >>
<1> DEFINE r == Ask(s, p, b, v)
           q == s.node[p].vBlocksInFlight
           e == [hash |-> b, fValidatedHeaders |-> v]
<1>1. s \in States /\ Queued(s)
    BY DEF StateInv
<1>2. /\ q \in Seq(Entries) /\ IsFiniteSet(Validated(s.node[p]))
      /\ Cardinality(Validated(s.node[p])) \in Nat
      /\ Cardinality(Validated(s.node[p])) = 0 <=> Validated(s.node[p]) = {}
    BY <1>1, NodeTypes
<1>3. /\ Others(s, r, p)
      /\ r.node[p].vBlocksInFlight = Append(q, e)
      /\ r.node[p].nBlocksInFlightValidHeaders =
           s.node[p].nBlocksInFlightValidHeaders + One(v)
      /\ r.nPeersWithValidatedDownloads = s.nPeersWithValidatedDownloads
           + One(s.node[p].nBlocksInFlightValidHeaders + One(v) = 1 /\ v)
      /\ r.inFlight = Put(s.inFlight, b, p)
    BY <1>1, AskFields
<1>4. e \in Entries /\ e.hash = b /\ e.fValidatedHeaders = v
    BY DEF Entries
<1> HIDE DEF e, r
<1>5. /\ DOMAIN r.node = DOMAIN s.node
      /\ \A x \in DOMAIN s.node \ {p} : r.node[x] = s.node[x]
      /\ DOMAIN r.inFlight = DOMAIN s.inFlight \cup {b} /\ r.inFlight[b] = p
      /\ \A c \in DOMAIN s.inFlight : r.inFlight[c] = s.inFlight[c]
    BY <1>3 DEF Others, Put
<1>6. QueueOK(q, s.inFlight, p)
    BY <1>1 DEF Queued
<1>7. QueueOK(r.node[p].vBlocksInFlight, r.inFlight, p)
    <2> HIDE DEF q
    <2>1. e.hash \notin DOMAIN s.inFlight
        BY <1>4
    <2>2. QueueOK(Append(q, e), Put(s.inFlight, e.hash, p), p)
        BY <1>2, <1>4, <1>6, <2>1, QueueWith
    <2> QED  BY <1>3, <1>4, <2>2
<1>8. Range(r.node[p].vBlocksInFlight) = Range(q) \cup {e} /\ e \notin Range(q)
    <2>1. Range(Append(q, e)) = Range(q) \cup {e}
        <3> HIDE DEF q
        <3> QED  BY <1>2, <1>4, RangeOfAppend, SMT
    <2>2. e \notin Range(q)
        BY <1>4, <1>6 DEF QueueOK, Range
    <2> QED  BY <1>3, <2>1, <2>2
<1>9. /\ Validated(r.node[p]) = IF v THEN Validated(s.node[p]) \cup {e} ELSE Validated(s.node[p])
      /\ e \notin Validated(s.node[p])
    BY <1>4, <1>8 DEF Validated
<1>10. Cardinality(Validated(r.node[p])) = Cardinality(Validated(s.node[p])) + One(v)
    <2> DEFINE S == Validated(s.node[p])
    <2> HIDE DEF S
    <2>1. IsFiniteSet(S) /\ Cardinality(S) \in Nat /\ e \notin S
        BY <1>2, <1>9 DEF S
    <2>2. Cardinality(S \cup {e}) = Cardinality(S) + 1
        BY <2>1, FS_AddElement
    <2>3. Validated(r.node[p]) = IF v THEN S \cup {e} ELSE S
        BY <1>9 DEF S
    <2>4. Cardinality(Validated(r.node[p])) = Cardinality(S) + One(v)
        BY <2>1, <2>2, <2>3, SMT DEF One
    <2> QED  BY <2>4 DEF S
<1>11. s.node[p].nBlocksInFlightValidHeaders = Cardinality(Validated(s.node[p]))
    BY DEF StateInv, NodeOK
<1>12. r.node[p].vBlocksInFlight # << >>
    <2>1. e \in Range(r.node[p].vBlocksInFlight)
        BY <1>8
    <2> QED  BY <2>1, SMT DEF Range
<1>13. NodeOK(r.node[p])
    BY <1>3, <1>10, <1>11, <1>12 DEF NodeOK
<1>14. r.nPeersWithValidatedDownloads =
         s.nPeersWithValidatedDownloads - One(Validated(s.node[p]) # {})
                                        + One(Validated(r.node[p]) # {})
    <2>1. s.nPeersWithValidatedDownloads \in Int
        BY <1>1 DEF States
    <2>2. One(s.node[p].nBlocksInFlightValidHeaders + One(v) = 1 /\ v) =
            One(Validated(r.node[p]) # {}) - One(Validated(s.node[p]) # {})
        <3>1. CASE v
            BY <1>2, <1>9, <1>11, <3>1, SMT DEF One
        <3>2. CASE ~v
            BY <1>9, <3>2, SMT DEF One
        <3> QED  BY <3>1, <3>2
    <2> QED  BY <1>3, <2>1, <2>2, SMT DEF One
<1>15. ASSUME NEW x \in DOMAIN r.node
       PROVE  QueueOK(r.node[x].vBlocksInFlight, r.inFlight, x)
    <2>1. CASE x = p
        BY <1>7, <2>1
    <2>2. CASE x # p
        <3>1. QueueOK(s.node[x].vBlocksInFlight, s.inFlight, x) /\ r.node[x] = s.node[x]
            BY <1>1, <1>5, <2>2 DEF Queued
        <3>2. b \notin DOMAIN s.inFlight
            OBVIOUS
        <3> QED  BY <1>5, <3>1, <3>2, QueueUntouched
    <2> QED  BY <2>1, <2>2
<1>16. ASSUME NEW c \in DOMAIN r.inFlight
       PROVE  HasOwner(r, c)
    <2>1. CASE c = b
        BY <1>4, <1>5, <1>8, <2>1 DEF HasOwner
    <2>2. CASE c # b
        <3>1. HasOwner(s, c) /\ r.inFlight[c] = s.inFlight[c]
            BY <1>1, <1>5, <2>2 DEF Queued
        <3>2. CASE s.inFlight[c] = p
            BY <1>5, <1>8, <3>1, <3>2 DEF HasOwner
        <3>3. CASE s.inFlight[c] # p
            BY <1>5, <3>1, <3>3 DEF HasOwner
        <3> QED  BY <3>2, <3>3
    <2> QED  BY <2>1, <2>2
<1>17. StateInv(r)
    BY <1>3, <1>13, <1>14, <1>15, <1>16, QueueChange DEF Queued
<1> QED  BY <1>5, <1>12, <1>17 DEF r

\* MarkBlockAsInFlight keeps StateInv, and p owes a block afterwards.
LEMMA InFlightKeeps ==
    ASSUME NEW s, StateInv(s), NEW p \in DOMAIN s.node, NEW b \in Blocks, NEW v \in BOOLEAN
    PROVE  LET r == MarkBlockAsInFlight(s, p, b, v)
           IN  StateInv(r) /\ DOMAIN r.node = DOMAIN s.node
               /\ r.node[p].vBlocksInFlight # << >>
<1> DEFINE t == MarkBlockAsReceived(s, b)
<1>1. StateInv(t) /\ b \notin DOMAIN t.inFlight /\ DOMAIN t.node = DOMAIN s.node
    BY ReceivedKeeps
<1>2. MarkBlockAsInFlight(s, p, b, v) = Ask(t, p, b, v)
    BY InFlightIsAsk
<1> HIDE DEF t
<1> QED  BY <1>1, <1>2, AskKeeps, SMT

\* Request is a run of MarkBlockAsInFlight over the blocks.
Requests(s, p, bs, f) ==
    f = [i \in 0 .. Len(bs) |->
           IF i = 0 THEN s ELSE MarkBlockAsInFlight(f[i - 1], p, bs[i], TRUE)]

\* The recursive function in Request exists.
LEMMA RequestRuns ==
    ASSUME NEW s, NEW p, NEW bs, Len(bs) \in Nat
    PROVE  \E f : Requests(s, p, bs, f) /\ Request(s, p, bs) = f[Len(bs)]
<1> DEFINE R(f, n) == f = [i \in 0 .. n |->
                             IF i = 0 THEN s ELSE MarkBlockAsInFlight(f[i - 1], p, bs[i], TRUE)]
           S == {n \in Nat : \E f : R(f, n)}
<1>1. 0 \in S
    <2>1. R([i \in 0..0 |-> s], 0)
        BY SMT
    <2> QED  BY <2>1
<1>2. ASSUME NEW n \in Nat, n \in S PROVE n + 1 \in S
    <2>1. PICK f : R(f, n)
        BY <1>2
    <2> DEFINE g == [i \in 0..n + 1 |-> IF i = n + 1 THEN MarkBlockAsInFlight(f[n], p, bs[n + 1], TRUE)
                                        ELSE f[i]]
    <2>2. R(g, n + 1)
        <3> SUFFICES ASSUME NEW i \in 0..n + 1
                     PROVE  g[i] = IF i = 0 THEN s
                                   ELSE MarkBlockAsInFlight(g[i - 1], p, bs[i], TRUE)
            OBVIOUS
        <3>1. CASE i = n + 1
            <4>1. i # 0 /\ i - 1 = n /\ n \in 0..n + 1 /\ n # n + 1
                BY <3>1, SMT
            <4>2. g[i - 1] = f[n]
                BY <4>1
            <4> QED  BY <3>1, <4>1, <4>2
        <3>2. CASE i = 0
            BY <2>1, <3>2, SMT
        <3>3. CASE i # 0 /\ i # n + 1
            <4>1. i \in 0..n /\ i - 1 \in 0..n + 1 /\ i - 1 # n + 1
                BY <3>3, SMT
            <4>2. g[i] = f[i] /\ g[i - 1] = f[i - 1]
                BY <3>3, <4>1
            <4>3. f[i] = MarkBlockAsInFlight(f[i - 1], p, bs[i], TRUE)
                BY <2>1, <3>3, <4>1
            <4> QED  BY <3>3, <4>2, <4>3
        <3> QED  BY <3>1, <3>2, <3>3
    <2> HIDE DEF g
    <2> QED  BY <2>2, SMT
<1>3. \E f : R(f, Len(bs))
    <2>1. Nat \subseteq S
        <3> HIDE DEF S
        <3> QED  BY <1>1, <1>2, Induct
    <2> QED  BY <2>1
<1>4. R(CHOOSE f : R(f, Len(bs)), Len(bs))
    BY <1>3
<1> QED  BY <1>4 DEF Request, Requests

\* Requesting any list of blocks from p keeps StateInv.
LEMMA RequestKeeps ==
    ASSUME NEW s, StateInv(s), NEW p \in DOMAIN s.node, NEW bs \in Seq(Blocks)
    PROVE  LET r == Request(s, p, bs)
           IN  /\ StateInv(r) /\ DOMAIN r.node = DOMAIN s.node
               /\ bs # << >> => r.node[p].vBlocksInFlight # << >>
               /\ bs = << >> => r = s
<1>1. Len(bs) \in Nat /\ \A i \in 1..Len(bs) : bs[i] \in Blocks
    BY SMT
<1>2. PICK f : Requests(s, p, bs, f) /\ Request(s, p, bs) = f[Len(bs)]
    BY <1>1, RequestRuns
<1> DEFINE K(n) == /\ StateInv(f[n]) /\ DOMAIN f[n].node = DOMAIN s.node
                   /\ n # 0 => f[n].node[p].vBlocksInFlight # << >>
           S == {n \in Nat : n <= Len(bs) => K(n)}
<1>3. f[0] = s
    BY <1>1, <1>2, SMT DEF Requests
<1>4. 0 \in S
    BY <1>3
<1>5. ASSUME NEW n \in Nat, n \in S PROVE n + 1 \in S
    <2> SUFFICES ASSUME n + 1 <= Len(bs) PROVE K(n + 1)
        BY SMT
    <2>1. n <= Len(bs) /\ n + 1 \in 0..Len(bs) /\ n + 1 # 0 /\ (n + 1) - 1 = n
          /\ n + 1 \in 1..Len(bs)
        BY <1>1, SMT
    <2>2. K(n)
        BY <1>5, <2>1
    <2>3. f[n + 1] = MarkBlockAsInFlight(f[n], p, bs[n + 1], TRUE)
        BY <1>2, <2>1 DEF Requests
    <2>4. bs[n + 1] \in Blocks /\ TRUE \in BOOLEAN
        BY <1>1, <2>1
    <2> DEFINE t == f[n]
               b == bs[n + 1]
    <2>5. StateInv(t) /\ DOMAIN t.node = DOMAIN s.node /\ p \in DOMAIN t.node /\ b \in Blocks
        BY <2>2, <2>4
    <2> HIDE DEF t, b
    <2>6. LET r == MarkBlockAsInFlight(t, p, b, TRUE)
          IN  StateInv(r) /\ DOMAIN r.node = DOMAIN t.node
              /\ r.node[p].vBlocksInFlight # << >>
        BY <2>5, InFlightKeeps
    <2> QED  BY <2>3, <2>5, <2>6 DEF t, b
<1>6. K(Len(bs))
    <2>1. Nat \subseteq S
        <3> HIDE DEF S
        <3> QED  BY <1>4, <1>5, Induct
    <2> QED  BY <1>1, <2>1, SMT
<1>7. (bs = << >>) = (Len(bs) = 0)
    BY EmptySeq
<1> QED  BY <1>2, <1>3, <1>6, <1>7

-----------------------------------------------------------------------------
(* The block tree.                                                         *)

\* The smaller of two integers.
LEMMA MinOfTwo ==
    ASSUME NEW x \in Int, NEW y \in Int
    PROVE  Min({x, y}) = IF x <= y THEN x ELSE y
<1> DEFINE m == IF x <= y THEN x ELSE y
<1>1. m \in {x, y} /\ \A z \in {x, y} : m <= z
    BY SMT
<1>2. \A w \in {x, y} : (\A z \in {x, y} : w <= z) => w = m
    BY SMT
<1> HIDE DEF m
<1>3. Min({x, y}) = m
    BY <1>1, <1>2 DEF Min
<1> QED  BY <1>3 DEF m

\* The h-th block on the way to b has height h.
LEMMA Heights ==
    ASSUME NEW b \in Blocks
    PROVE  /\ PathTo[b] \in Seq(Blocks) /\ Height(b) \in Nat
           /\ \A h \in 0..Height(b) : /\ GetAncestor(b, h) \in Blocks
                                      /\ Height(GetAncestor(b, h)) = h
           /\ \A h \in 1..Height(b) : PathTo[b][h] \in Blocks /\ Height(PathTo[b][h]) = h
<1>1. PathTo[b] \in Seq(Blocks)
    BY TreeAssumption
<1>2. /\ Len(PathTo[b]) \in Nat /\ DOMAIN PathTo[b] = 1..Len(PathTo[b])
      /\ \A h \in 1..Len(PathTo[b]) : PathTo[b][h] \in Blocks
    BY <1>1, LenProperties
<1>3. ASSUME NEW h \in 1..Len(PathTo[b])
      PROVE  Height(PathTo[b][h]) = h
    <2>1. PathTo[PathTo[b][h]] = SubSeq(PathTo[b], 1, h)
        BY <1>2, TreeAssumption
    <2>2. Len(SubSeq(PathTo[b], 1, h)) = h
        BY <1>1, <1>2, SMT
    <2> QED  BY <2>1, <2>2 DEF Height
<1>4. Genesis \in Blocks /\ Height(Genesis) = 0
    BY TreeAssumption DEF Height
<1>5. ASSUME NEW h \in 0..Len(PathTo[b])
      PROVE  GetAncestor(b, h) \in Blocks /\ Height(GetAncestor(b, h)) = h
    <2>1. CASE h = 0
        BY <1>4, <2>1 DEF GetAncestor
    <2>2. CASE h # 0
        <3>1. h \in 1..Len(PathTo[b]) /\ GetAncestor(b, h) = PathTo[b][h]
            BY <1>2, <2>2, SMT DEF GetAncestor
        <3> QED  BY <1>2, <1>3, <3>1
    <2> QED  BY <2>1, <2>2
<1> QED  BY <1>1, <1>2, <1>3, <1>5 DEF Height

\* The fork of two chains is a block of both.
LEMMA Forks ==
    ASSUME NEW a \in Blocks, NEW b \in Blocks
    PROVE  LET c == LastCommonAncestor(a, b)
           IN  /\ c \in Blocks /\ Height(c) \in Nat
               /\ Height(c) <= Height(a) /\ Height(c) <= Height(b)
<1> DEFINE m == Min({Height(a), Height(b)})
           T == {h \in 0..m : GetAncestor(a, h) = GetAncestor(b, h)}
<1>1. Height(a) \in Nat /\ Height(b) \in Nat
    BY Heights
<1>2. m \in Nat /\ m <= Height(a) /\ m <= Height(b)
    BY <1>1, MinOfTwo, SMT
<1> HIDE DEF m
<1>3. 0 \in T
    BY <1>2, SMT DEF GetAncestor
<1>4. Max(T) \in T
    BY <1>2, <1>3, MaxIsMember
<1>5. LastCommonAncestor(a, b) = GetAncestor(a, Max(T))
    BY DEF LastCommonAncestor, m
<1>6. Max(T) \in 0..Height(a) /\ Max(T) <= Height(b)
    BY <1>1, <1>2, <1>4, SMT
<1> HIDE DEF T
<1> QED  BY <1>1, <1>5, <1>6, Heights, SMT

\* Every block but Genesis has a predecessor.
LEMMA PrevIsBlock ==
    ASSUME NEW b \in Blocks, b # Genesis
    PROVE  Prev(b) \in Blocks
<1>1. PathTo[b] # << >> /\ PathTo[b] \in Seq(Blocks)
    BY TreeAssumption
<1>2. Height(b) \in Nat \ {0}
    BY <1>1, EmptySeq DEF Height
<1>3. Height(b) - 1 \in 0..Height(b)
    BY <1>2, SMT
<1> QED  BY <1>3, Heights DEF Prev

\* Part of the way to b.
LEMMA PartOfPath ==
    ASSUME NEW b \in Blocks, NEW m \in Nat \ {0}, NEW n \in Int, n <= Height(b)
    PROVE  SubSeq(PathTo[b], m, n) \in Seq(Blocks)
<1>1. Height(b) \in Nat /\ \A h \in 1..Height(b) : PathTo[b][h] \in Blocks
    BY Heights
<1>2. \A i \in m..n : PathTo[b][i] \in Blocks
    <2>1. m..n \subseteq 1..Height(b)
        BY <1>1, SMT
    <2> QED  BY <1>1, <2>1
<1> QED  BY <1>2, SubSeqProperties, SMT

-----------------------------------------------------------------------------
(* The blocks that a peer is asked for.                                    *)

\* The recursive function in Without exists.
LEMMA WithoutRuns ==
    ASSUME NEW path, NEW B, Len(path) \in Nat
    PROVE  \E f : /\ f = [i \in 0 .. Len(path) |->
                            IF i = 0 THEN << >>
                            ELSE IF path[i] \in B THEN f[i - 1] ELSE Append(f[i - 1], path[i])]
                  /\ Without(path, B) = f[Len(path)]
<1> DEFINE R(f, n) == f = [i \in 0 .. n |->
                             IF i = 0 THEN << >>
                             ELSE IF path[i] \in B THEN f[i - 1] ELSE Append(f[i - 1], path[i])]
           S == {n \in Nat : \E f : R(f, n)}
<1>1. 0 \in S
    <2>1. R([i \in 0..0 |-> << >>], 0)
        BY SMT
    <2> QED  BY <2>1
<1>2. ASSUME NEW n \in Nat, n \in S PROVE n + 1 \in S
    <2>1. PICK f : R(f, n)
        BY <1>2
    <2> DEFINE g == [i \in 0..n + 1 |->
                       IF i = n + 1 THEN IF path[n + 1] \in B THEN f[n]
                                         ELSE Append(f[n], path[n + 1])
                       ELSE f[i]]
    <2>2. R(g, n + 1)
        <3> SUFFICES ASSUME NEW i \in 0..n + 1
                     PROVE  g[i] = IF i = 0 THEN << >>
                                   ELSE IF path[i] \in B THEN g[i - 1]
                                   ELSE Append(g[i - 1], path[i])
            OBVIOUS
        <3>1. CASE i = n + 1
            <4>1. i # 0 /\ i - 1 = n /\ n \in 0..n + 1 /\ n # n + 1
                BY <3>1, SMT
            <4>2. g[i - 1] = f[n]
                BY <4>1
            <4> QED  BY <3>1, <4>1, <4>2
        <3>2. CASE i = 0
            BY <2>1, <3>2, SMT
        <3>3. CASE i # 0 /\ i # n + 1
            <4>1. i \in 0..n /\ i - 1 \in 0..n + 1 /\ i - 1 # n + 1
                BY <3>3, SMT
            <4>2. g[i] = f[i] /\ g[i - 1] = f[i - 1]
                BY <3>3, <4>1
            <4>3. f[i] = IF path[i] \in B THEN f[i - 1] ELSE Append(f[i - 1], path[i])
                BY <2>1, <3>3, <4>1
            <4> QED  BY <3>3, <4>2, <4>3
        <3> QED  BY <3>1, <3>2, <3>3
    <2>3. n + 1 \in Nat
        BY SMT
    <2> HIDE DEF g, R
    <2> QED  BY <2>2, <2>3
<1>3. \E f : R(f, Len(path))
    <2>1. Nat \subseteq S
        <3> HIDE DEF S
        <3> QED  BY <1>1, <1>2, Induct
    <2> QED  BY <2>1
<1>4. R(CHOOSE f : R(f, Len(path)), Len(path))
    BY <1>3
<1> QED  BY <1>4 DEF Without

\* Without returns blocks.
LEMMA WithoutType ==
    ASSUME NEW path \in Seq(Blocks), NEW B
    PROVE  Without(path, B) \in Seq(Blocks)
<1>1. Len(path) \in Nat /\ \A i \in 1..Len(path) : path[i] \in Blocks
    BY SMT
<1>2. PICK f : /\ f = [i \in 0 .. Len(path) |->
                         IF i = 0 THEN << >>
                         ELSE IF path[i] \in B THEN f[i - 1] ELSE Append(f[i - 1], path[i])]
               /\ Without(path, B) = f[Len(path)]
    BY <1>1, WithoutRuns
<1> DEFINE S == {n \in Nat : n <= Len(path) => f[n] \in Seq(Blocks)}
<1>3. 0 \in S
    <2>1. f[0] = << >>
        BY <1>1, <1>2, SMT
    <2> QED  BY <2>1, EmptySeq
<1>4. ASSUME NEW n \in Nat, n \in S PROVE n + 1 \in S
    <2> SUFFICES ASSUME n + 1 <= Len(path) PROVE f[n + 1] \in Seq(Blocks)
        BY SMT
    <2>1. n <= Len(path) /\ n + 1 \in 0..Len(path) /\ n + 1 # 0 /\ (n + 1) - 1 = n
          /\ n + 1 \in 1..Len(path)
        BY <1>1, SMT
    <2>2. f[n] \in Seq(Blocks) /\ path[n + 1] \in Blocks
        BY <1>1, <1>4, <2>1
    <2>3. f[n + 1] = IF path[n + 1] \in B THEN f[n] ELSE Append(f[n], path[n + 1])
        BY <1>2, <2>1
    <2> QED  BY <2>2, <2>3, AppendProperties, SMT
<1>5. Nat \subseteq S
    <2> HIDE DEF S
    <2> QED  BY <1>3, <1>4, Induct
<1> QED  BY <1>1, <1>2, <1>5, SMT

\* The walk of FindNextBlocksToDownload from block c along path.
WalkAlong(s, p, nWindowEnd, c, path) ==
    LET walk[i \in 0 .. Len(path)] ==
            IF i = 0 THEN StartAt(c) ELSE Walk(s, p, nWindowEnd, walk[i - 1], path[i])
    IN  walk[Len(path)]

\* What it finds.
Walks(s) ==
    [common : Blocks \cup {None}, blocks : Seq(Blocks),
     waitingfor : Range(s.inFlight) \cup {None}, staller : Range(s.inFlight) \cup {None},
     done : BOOLEAN]

\* The recursive function in FindNextBlocksToDownload exists.
LEMMA WalkRuns ==
    ASSUME NEW s, NEW p, NEW e, NEW c, NEW path, Len(path) \in Nat
    PROVE  \E f : /\ f = [i \in 0 .. Len(path) |->
                            IF i = 0 THEN StartAt(c) ELSE Walk(s, p, e, f[i - 1], path[i])]
                  /\ WalkAlong(s, p, e, c, path) = f[Len(path)]
<1> DEFINE R(f, n) == f = [i \in 0 .. n |->
                             IF i = 0 THEN StartAt(c) ELSE Walk(s, p, e, f[i - 1], path[i])]
           S == {n \in Nat : \E f : R(f, n)}
<1>1. 0 \in S
    <2>1. R([i \in 0..0 |-> StartAt(c)], 0)
        BY SMT
    <2> QED  BY <2>1
<1>2. ASSUME NEW n \in Nat, n \in S PROVE n + 1 \in S
    <2>1. PICK f : R(f, n)
        BY <1>2
    <2> DEFINE g == [i \in 0..n + 1 |-> IF i = n + 1 THEN Walk(s, p, e, f[n], path[n + 1])
                                        ELSE f[i]]
    <2>2. R(g, n + 1)
        <3> SUFFICES ASSUME NEW i \in 0..n + 1
                     PROVE  g[i] = IF i = 0 THEN StartAt(c)
                                   ELSE Walk(s, p, e, g[i - 1], path[i])
            OBVIOUS
        <3>1. CASE i = n + 1
            <4>1. i # 0 /\ i - 1 = n /\ n \in 0..n + 1 /\ n # n + 1
                BY <3>1, SMT
            <4>2. g[i - 1] = f[n]
                BY <4>1
            <4> QED  BY <3>1, <4>1, <4>2
        <3>2. CASE i = 0
            BY <2>1, <3>2, SMT
        <3>3. CASE i # 0 /\ i # n + 1
            <4>1. i \in 0..n /\ i - 1 \in 0..n + 1 /\ i - 1 # n + 1
                BY <3>3, SMT
            <4>2. g[i] = f[i] /\ g[i - 1] = f[i - 1]
                BY <3>3, <4>1
            <4>3. f[i] = Walk(s, p, e, f[i - 1], path[i])
                BY <2>1, <3>3, <4>1
            <4> QED  BY <3>3, <4>2, <4>3
        <3> QED  BY <3>1, <3>2, <3>3
    <2>3. n + 1 \in Nat
        BY SMT
    <2> HIDE DEF g, R
    <2> QED  BY <2>2, <2>3
<1>3. \E f : R(f, Len(path))
    <2>1. Nat \subseteq S
        <3> HIDE DEF S
        <3> QED  BY <1>1, <1>2, Induct
    <2> QED  BY <2>1
<1>4. R(CHOOSE f : R(f, Len(path)), Len(path))
    BY <1>3
<1> QED  BY <1>4 DEF WalkAlong

\* A step of the walk: the peer it waits for has a block in flight.
LEMMA WalkType ==
    ASSUME NEW s, NEW p, NEW e, NEW w \in Walks(s), NEW b \in Blocks
    PROVE  Walk(s, p, e, w, b) \in Walks(s)
<1>1. /\ w.common \in Blocks \cup {None} /\ w.blocks \in Seq(Blocks)
      /\ w.waitingfor \in Range(s.inFlight) \cup {None}
      /\ w.staller \in Range(s.inFlight) \cup {None} /\ w.done \in BOOLEAN
    BY DEF Walks
<1>2. /\ \A c \in Blocks \cup {None} : [w EXCEPT !.common = c] \in Walks(s)
      /\ \A c \in Range(s.inFlight) \cup {None} : [w EXCEPT !.waitingfor = c] \in Walks(s)
      /\ \A c \in Range(s.inFlight) \cup {None} : [w EXCEPT !.done = TRUE, !.staller = c] \in Walks(s)
      /\ \A c \in Seq(Blocks) : \A d \in BOOLEAN : [w EXCEPT !.blocks = c, !.done = d] \in Walks(s)
    BY DEF Walks
<1>3. Append(w.blocks, b) \in Seq(Blocks)
    BY <1>1, AppendProperties
<1>4. b \in DOMAIN s.inFlight => s.inFlight[b] \in Range(s.inFlight)
    BY DEF Range
<1>5. CASE w.done
    BY <1>5 DEF Walk
<1>6. CASE ~w.done /\ (b \in data \/ IsAncestor(b, tip))
    <2> DEFINE c == IF HaveChainTx(b) THEN b ELSE w.common
    <2>1. c \in Blocks \cup {None} /\ Walk(s, p, e, w, b) = [w EXCEPT !.common = c]
        BY <1>1, <1>6 DEF Walk
    <2> HIDE DEF c
    <2> QED  BY <1>2, <2>1
<1>7. CASE ~w.done /\ ~(b \in data \/ IsAncestor(b, tip)) /\ b \in DOMAIN s.inFlight
    <2> DEFINE c == IF w.waitingfor = None THEN s.inFlight[b] ELSE w.waitingfor
    <2>1. c \in Range(s.inFlight) \cup {None}
        BY <1>1, <1>4, <1>7
    <2>2. Walk(s, p, e, w, b) = [w EXCEPT !.waitingfor = c]
        BY <1>7 DEF Walk
    <2> HIDE DEF c
    <2> QED  BY <1>2, <2>1, <2>2
<1>8. CASE /\ ~w.done /\ ~(b \in data \/ IsAncestor(b, tip)) /\ b \notin DOMAIN s.inFlight
           /\ Height(b) > e
    <2> DEFINE c == IF w.blocks = << >> /\ w.waitingfor # p THEN w.waitingfor ELSE w.staller
    <2>1. c \in Range(s.inFlight) \cup {None}
        BY <1>1
    <2>2. Walk(s, p, e, w, b) = [w EXCEPT !.done = TRUE, !.staller = c]
        BY <1>8 DEF Walk
    <2> HIDE DEF c
    <2> QED  BY <1>2, <2>1, <2>2
<1>9. CASE /\ ~w.done /\ ~(b \in data \/ IsAncestor(b, tip)) /\ b \notin DOMAIN s.inFlight
           /\ ~(Height(b) > e)
    <2> DEFINE d == Len(w.blocks) + 1 = RoomFor(s, p)
               c == Append(w.blocks, b)
    <2>1. Walk(s, p, e, w, b) = [w EXCEPT !.blocks = c, !.done = d]
        BY <1>9 DEF Walk
    <2>2. d \in BOOLEAN /\ c \in Seq(Blocks)
        BY <1>3
    <2> HIDE DEF d, c
    <2> QED  BY <1>2, <2>1, <2>2
<1> QED  BY <1>5, <1>6, <1>7, <1>8, <1>9

\* The walk starts with nothing found.
LEMMA StartType ==
    ASSUME NEW s, NEW c \in Blocks \cup {None}
    PROVE  StartAt(c) \in Walks(s)
<1>1. << >> \in Seq(Blocks)
    BY SMT
<1> QED  BY <1>1 DEF StartAt, Walks

\* The whole walk: a staller is a peer that has a block in flight.
LEMMA WalkAlongType ==
    ASSUME NEW s, NEW p, NEW e, NEW c \in Blocks, NEW path \in Seq(Blocks)
    PROVE  WalkAlong(s, p, e, c, path) \in Walks(s)
<1>1. Len(path) \in Nat /\ \A i \in 1..Len(path) : path[i] \in Blocks
    BY SMT
<1>2. PICK f : /\ f = [i \in 0 .. Len(path) |->
                         IF i = 0 THEN StartAt(c) ELSE Walk(s, p, e, f[i - 1], path[i])]
               /\ WalkAlong(s, p, e, c, path) = f[Len(path)]
    BY <1>1, WalkRuns, SMT
<1> DEFINE S == {n \in Nat : n <= Len(path) => f[n] \in Walks(s)}
<1>3. 0 \in S
    <2>1. f[0] = StartAt(c)
        BY <1>1, <1>2, SMT
    <2> QED  BY <2>1, StartType
<1>4. ASSUME NEW n \in Nat, n \in S PROVE n + 1 \in S
    <2> SUFFICES ASSUME n + 1 <= Len(path) PROVE f[n + 1] \in Walks(s)
        BY SMT
    <2>1. n <= Len(path) /\ n + 1 \in 0..Len(path) /\ n + 1 # 0 /\ (n + 1) - 1 = n
          /\ n + 1 \in 1..Len(path)
        BY <1>1, SMT
    <2>2. f[n] \in Walks(s) /\ path[n + 1] \in Blocks
        BY <1>1, <1>4, <2>1
    <2>3. f[n + 1] = Walk(s, p, e, f[n], path[n + 1])
        BY <1>2, <2>1
    <2> QED  BY <2>2, <2>3, WalkType
<1>5. Nat \subseteq S
    <2> HIDE DEF S
    <2> QED  BY <1>3, <1>4, Induct
<1> QED  BY <1>1, <1>2, <1>5, SMT

\* FindNextBlocksToDownload returns blocks, and a staller that has a block in
\* flight.
LEMMA FindType ==
    ASSUME NEW s \in States, NEW p \in DOMAIN s.node, tip \in Blocks
    PROVE  FindNextBlocksToDownload(s, p) \in Walks(s)
<1> DEFINE n == s.node[p]
           fork == LastCommonBlock(n)
           e == Height(fork) + BLOCK_DOWNLOAD_WINDOW
           to == Min({Height(n.best), e + 1})
           path == SubSeq(PathTo[n.best], Height(fork) + 1, to)
<1>1. n.best \in Blocks \cup {None} /\ n.common \in Blocks \cup {None}
    <2>1. s.node[p] \in NodeStates
        BY NodeTypes
    <2> QED  BY <2>1 DEF NodeStates
<1>2. CASE n.best = None \/ Height(n.best) < Height(tip)
    BY <1>1, <1>2, StartType DEF FindNextBlocksToDownload
<1>3. CASE ~(n.best = None \/ Height(n.best) < Height(tip))
    <2>1. n.best \in Blocks
        BY <1>1, <1>3
    <2>2. FindNextBlocksToDownload(s, p) = WalkAlong(s, p, e, fork, path)
        BY <1>3 DEF FindNextBlocksToDownload, WalkAlong
    <2> HIDE DEF n
    <2>3. fork \in Blocks /\ Height(fork) \in Nat
        <3> DEFINE x == Min({Height(n.best), Height(tip)})
                   a == IF n.common # None THEN n.common ELSE GetAncestor(tip, x)
        <3>1. x \in 0..Height(tip)
            <4>1. Height(n.best) \in Nat /\ Height(tip) \in Nat
                BY <2>1, Heights
            <4> QED  BY <4>1, MinOfTwo, SMT
        <3> HIDE DEF x
        <3>2. GetAncestor(tip, x) \in Blocks
            BY <3>1, Heights
        <3>3. a \in Blocks
            BY <1>1, <3>2
        <3>4. fork = LastCommonAncestor(a, n.best)
            BY DEF LastCommonBlock, x
        <3> HIDE DEF a, fork
        <3> QED  BY <2>1, <3>3, <3>4, Forks
    <2> HIDE DEF fork
    <2>4. Height(fork) + 1 \in Nat \ {0} /\ to \in Int /\ to <= Height(n.best)
        <3>1. Height(n.best) \in Nat /\ BLOCK_DOWNLOAD_WINDOW \in Nat
            BY <2>1, Heights, LimitsAssumption
        <3>2. e + 1 \in Int
            BY <2>3, <3>1, SMT
        <3> HIDE DEF e
        <3> QED  BY <2>3, <3>1, <3>2, MinOfTwo, SMT
    <2> HIDE DEF to
    <2>5. path \in Seq(Blocks)
        BY <2>1, <2>4, PartOfPath
    <2> HIDE DEF path, e
    <2> QED  BY <2>2, <2>3, <2>5, WalkAlongType
<1> QED  BY <1>2, <1>3

\* The direct fetch of the HEADERS handler asks for blocks.
LEMMA DirectFetchType ==
    ASSUME NEW s \in States, NEW p \in DOMAIN s.node, NEW last \in Blocks, tip \in Blocks
    PROVE  DirectFetch(s, p, last) \in Seq(Blocks)
<1> DEFINE fork == LastCommonAncestor(last, tip)
           path == SubSeq(PathTo[last], Height(fork) + 1, Height(last))
           missing == Without(path, data \cup DOMAIN s.inFlight)
           room == Min({RoomFor(s, p), Len(missing)})
<1>1. Height(fork) \in Nat /\ Height(last) \in Nat
    BY Forks, Heights
<1>2. path \in Seq(Blocks)
    <2> HIDE DEF fork
    <2>1. Height(fork) + 1 \in Nat \ {0} /\ Height(last) \in Int /\ Height(last) <= Height(last)
        BY <1>1, SMT
    <2> QED  BY <2>1, PartOfPath
<1>3. missing \in Seq(Blocks)
    <2> HIDE DEF path
    <2> QED  BY <1>2, WithoutType
<1>4. RoomFor(s, p) \in Int
    <2>1. s.node[p].vBlocksInFlight \in Seq(Entries)
        BY NodeTypes
    <2>2. Len(s.node[p].vBlocksInFlight) \in Nat
        BY <2>1, LenProperties
    <2> QED  BY <2>2, LimitsAssumption, SMT DEF RoomFor
<1>5. \/ DirectFetch(s, p, last) = SubSeq(missing, 1, room)
      \/ DirectFetch(s, p, last) = << >>
    BY DEF DirectFetch
<1> HIDE DEF missing
<1>6. room \in Int /\ room <= Len(missing) /\ Len(missing) \in Nat
      /\ \A i \in 1..Len(missing) : missing[i] \in Blocks
    <2>1. Len(missing) \in Nat /\ \A i \in 1..Len(missing) : missing[i] \in Blocks
        BY <1>3, SMT
    <2> QED  BY <1>4, <2>1, MinOfTwo, SMT
<1> HIDE DEF room
<1>7. \A i \in 1..room : missing[i] \in Blocks
    BY <1>6, SMT
<1>8. SubSeq(missing, 1, room) \in Seq(Blocks)
    BY <1>6, <1>7, SubSeqProperties, SMT
<1> QED  BY <1>5, <1>8, EmptySeq
=============================================================================

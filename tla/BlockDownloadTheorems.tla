------------------------ MODULE BlockDownloadTheorems ------------------------
(***************************************************************************)
(* The theorems about BlockDownload.  What remains of the handlers is      *)
(* shown to keep StateInv, every action then keeps the inductive invariant *)
(* IInv, and the properties follow from it.                                *)
(***************************************************************************)
EXTENDS BlockDownloadProofs

USE Zenon

-----------------------------------------------------------------------------
(* The steps that leave the queues alone.                                  *)

\* s with another state of p and other counts of peers.
Touch(s, p, N, a, c) ==
    [s EXCEPT !.node[p] = N, !.nSyncStarted = a, !.nPreferredDownload = c]

\* N has the queue that n has.
SameQueue(n, N) ==
    /\ N \in NodeStates
    /\ N.vBlocksInFlight = n.vBlocksInFlight
    /\ N.nBlocksInFlightValidHeaders = n.nBlocksInFlightValidHeaders
    /\ N.stalling # None => N.vBlocksInFlight # << >>

\* The fields of Touch.
LEMMA TouchFields ==
    ASSUME NEW s \in States, NEW p \in DOMAIN s.node, NEW N \in NodeStates,
           NEW a \in Int, NEW c \in Int
    PROVE  LET r == Touch(s, p, N, a, c)
           IN  /\ r \in States /\ DOMAIN r.node = DOMAIN s.node
               /\ \A x \in DOMAIN s.node \ {p} : r.node[x] = s.node[x]
               /\ r.node[p] = N /\ r.inFlight = s.inFlight
               /\ r.nPeersWithValidatedDownloads = s.nPeersWithValidatedDownloads
               /\ r.nSyncStarted = a /\ r.nPreferredDownload = c
<1> DEFINE r == Touch(s, p, N, a, c)
           f == [s.node EXCEPT ![p] = N]
<1>1. s.node \in [DOMAIN s.node -> NodeStates] /\ DOMAIN s.node \subseteq Peers
    BY MapsFacts DEF States
<1>2. /\ f \in [DOMAIN s.node -> NodeStates] /\ f[p] = N
      /\ \A x \in DOMAIN s.node \ {p} : f[x] = s.node[x]
    BY <1>1
<1>3. f \in Maps(Peers, NodeStates) /\ DOMAIN f = DOMAIN s.node
    BY <1>1, <1>2, MapsFacts, SMT
<1>4. r = [s EXCEPT !.node = f, !.nSyncStarted = a, !.nPreferredDownload = c]
    BY DEF Touch
<1> HIDE DEF f
<1>5. r \in States /\ r.node = f /\ r.inFlight = s.inFlight
      /\ r.nPeersWithValidatedDownloads = s.nPeersWithValidatedDownloads
      /\ r.nSyncStarted = a /\ r.nPreferredDownload = c
    BY <1>3, <1>4 DEF States
<1> QED  BY <1>2, <1>3, <1>5

\* StateInv after fSyncStarted or fPreferredDownload of p has changed and been
\* counted.
LEMMA TouchKeeps ==
    ASSUME NEW s, StateInv(s), NEW p \in DOMAIN s.node, NEW N, SameQueue(s.node[p], N),
           NEW a \in Int, NEW c \in Int,
           a = s.nSyncStarted - One(s.node[p].fSyncStarted) + One(N.fSyncStarted),
           c = s.nPreferredDownload - One(s.node[p].fPreferredDownload)
                                    + One(N.fPreferredDownload)
    PROVE  StateInv(Touch(s, p, N, a, c))
<1> DEFINE r == Touch(s, p, N, a, c)
<1>1. s \in States /\ Queued(s)
    BY DEF StateInv
<1>2. /\ r \in States /\ DOMAIN r.node = DOMAIN s.node
      /\ \A x \in DOMAIN s.node \ {p} : r.node[x] = s.node[x]
      /\ r.node[p] = N /\ r.inFlight = s.inFlight
      /\ r.nPeersWithValidatedDownloads = s.nPeersWithValidatedDownloads
      /\ r.nSyncStarted = a /\ r.nPreferredDownload = c
    <2>1. N \in NodeStates
        BY DEF SameQueue
    <2> QED  BY <1>1, <2>1, TouchFields, SMT
<1> HIDE DEF r
<1>3. \A x \in DOMAIN s.node : r.node[x].vBlocksInFlight = s.node[x].vBlocksInFlight
    BY <1>2 DEF SameQueue
<1>4. \A x \in DOMAIN s.node : Validated(r.node[x]) = Validated(s.node[x])
    BY <1>3 DEF Validated
<1>5. Queued(r)
    BY <1>1, <1>2, <1>3 DEF Queued, HasOwner
<1>6. \A x \in DOMAIN r.node : NodeOK(r.node[x])
    BY <1>2, <1>4 DEF StateInv, NodeOK, SameQueue
<1>7. Downloading(r) = Downloading(s)
    BY <1>2, <1>4 DEF Downloading
<1>8. Cardinality(Syncing(r)) = a
    <2>1. /\ Syncing(s) \ {p} = Syncing(r) \ {p}
          /\ (p \in Syncing(s)) = (s.node[p].fSyncStarted)
          /\ (p \in Syncing(r)) = (N.fSyncStarted)
        <3>1. s.node[p] \in NodeStates /\ N \in NodeStates
            BY <1>1, NodeTypes DEF SameQueue
        <3>2. s.node[p].fSyncStarted \in BOOLEAN /\ N.fSyncStarted \in BOOLEAN
            BY <3>1 DEF NodeStates
        <3> QED  BY <1>2, <3>2, SMT DEF Syncing
    <2>2. Syncing(s) \in SUBSET DOMAIN s.node
        BY DEF Syncing
    <2>3. IsFiniteSet(Syncing(s))
        BY <1>1, <2>2, NodesAreFinite
    <2>4. Cardinality(Syncing(r)) =
            Cardinality(Syncing(s)) - One(p \in Syncing(s)) + One(p \in Syncing(r))
        BY <2>1, <2>3, CountChanges, SMT
    <2> QED  BY <2>1, <2>4 DEF StateInv
<1>9. Cardinality(PreferredNodes(r)) = c
    <2>1. /\ PreferredNodes(s) \ {p} = PreferredNodes(r) \ {p}
          /\ (p \in PreferredNodes(s)) = (s.node[p].fPreferredDownload)
          /\ (p \in PreferredNodes(r)) = (N.fPreferredDownload)
        <3>1. s.node[p] \in NodeStates /\ N \in NodeStates
            BY <1>1, NodeTypes DEF SameQueue
        <3>2. s.node[p].fPreferredDownload \in BOOLEAN /\ N.fPreferredDownload \in BOOLEAN
            BY <3>1 DEF NodeStates
        <3> QED  BY <1>2, <3>2, SMT DEF PreferredNodes
    <2>2. PreferredNodes(s) \in SUBSET DOMAIN s.node
        BY DEF PreferredNodes
    <2>3. IsFiniteSet(PreferredNodes(s))
        BY <1>1, <2>2, NodesAreFinite
    <2>4. Cardinality(PreferredNodes(r)) = Cardinality(PreferredNodes(s))
            - One(p \in PreferredNodes(s)) + One(p \in PreferredNodes(r))
        BY <2>1, <2>3, CountChanges, SMT
    <2> QED  BY <2>1, <2>4 DEF StateInv
<1> QED  BY <1>2, <1>5, <1>6, <1>7, <1>8, <1>9 DEF StateInv, r

\* s with another state of p.
PutNode(s, p, N) == [s EXCEPT !.node[p] = N]

\* StateInv after a field of p that is not counted has changed.
LEMMA PutNodeKeeps ==
    ASSUME NEW s, StateInv(s), NEW p \in DOMAIN s.node, NEW N, SameQueue(s.node[p], N),
           N.fSyncStarted = s.node[p].fSyncStarted,
           N.fPreferredDownload = s.node[p].fPreferredDownload
    PROVE  LET r == PutNode(s, p, N)
           IN  /\ StateInv(r) /\ DOMAIN r.node = DOMAIN s.node /\ r.inFlight = s.inFlight
               /\ \A x \in DOMAIN s.node \ {p} : r.node[x] = s.node[x]
               /\ r.node[p] = N
<1> DEFINE r == PutNode(s, p, N)
           a == s.nSyncStarted
           c == s.nPreferredDownload
<1>1. s \in States /\ N \in NodeStates /\ a \in Int /\ c \in Int
    BY DEF StateInv, States, SameQueue
<1>2. r = Touch(s, p, N, a, c)
    BY <1>1 DEF States, Touch, PutNode
<1>3. /\ a = s.nSyncStarted - One(s.node[p].fSyncStarted) + One(N.fSyncStarted)
      /\ c = s.nPreferredDownload - One(s.node[p].fPreferredDownload)
                                  + One(N.fPreferredDownload)
    BY <1>1, SMT DEF One
<1> HIDE DEF r, a, c
<1>4. StateInv(r)
    BY <1>1, <1>2, <1>3, TouchKeeps
<1>5. /\ DOMAIN r.node = DOMAIN s.node /\ r.inFlight = s.inFlight
      /\ \A x \in DOMAIN s.node \ {p} : r.node[x] = s.node[x]
      /\ r.node[p] = N
    BY <1>1, <1>2, TouchFields, SMT
<1> QED  BY <1>4, <1>5 DEF r

\* What StateInv says of one peer.
LEMMA NodeFacts ==
    ASSUME NEW s, StateInv(s), NEW p \in DOMAIN s.node
    PROVE  /\ s.node[p] \in NodeStates /\ NodeOK(s.node[p])
           /\ SameQueue(s.node[p], s.node[p])
BY NodeTypes DEF StateInv, NodeOK, SameQueue

\* BetterOf returns a block.
LEMMA BetterType ==
    ASSUME NEW a \in Blocks \cup {None}, NEW b \in Blocks
    PROVE  BetterOf(a, b) \in Blocks
BY DEF BetterOf

\* ProcessBlockAvailability keeps StateInv.
LEMMA ProcessKeeps ==
    ASSUME NEW s, StateInv(s), NEW p \in DOMAIN s.node, NEW idx \in SUBSET Blocks
    PROVE  LET r == ProcessBlockAvailability(s, p, idx)
           IN  StateInv(r) /\ DOMAIN r.node = DOMAIN s.node
<1> DEFINE n == s.node[p]
           N == [n EXCEPT !.best = BetterOf(n.best, n.unknown), !.unknown = None]
<1>1. CASE n.unknown \notin idx
    BY <1>1 DEF ProcessBlockAvailability
<1>2. CASE n.unknown \in idx
    <2>1. n \in NodeStates /\ SameQueue(n, n)
        BY NodeFacts
    <2>2. ProcessBlockAvailability(s, p, idx) = PutNode(s, p, N)
        <3>1. s \in States /\ s.node \in [DOMAIN s.node -> NodeStates]
            BY MapsFacts DEF StateInv, States
        <3> QED  BY <1>2, <2>1, <3>1 DEF ProcessBlockAvailability, PutNode, States, NodeStates
    <2> HIDE DEF n
    <2>3. BetterOf(n.best, n.unknown) \in Blocks
        BY <1>2, <2>1, BetterType DEF NodeStates
    <2>4. SameQueue(n, N) /\ N.fSyncStarted = n.fSyncStarted
          /\ N.fPreferredDownload = n.fPreferredDownload
        BY <2>1, <2>3 DEF SameQueue, NodeStates
    <2> HIDE DEF N
    <2> QED  BY <2>2, <2>4, PutNodeKeeps, SMT DEF n
<1> QED  BY <1>1, <1>2

\* UpdateBlockAvailability keeps StateInv.
LEMMA UpdateKeeps ==
    ASSUME NEW s, StateInv(s), NEW p \in DOMAIN s.node, NEW b \in Blocks, NEW idx \in SUBSET Blocks
    PROVE  LET r == UpdateBlockAvailability(s, p, b, idx)
           IN  StateInv(r) /\ DOMAIN r.node = DOMAIN s.node
<1> DEFINE t == ProcessBlockAvailability(s, p, idx)
           n == t.node[p]
           N == IF b \in idx THEN [n EXCEPT !.best = BetterOf(n.best, b)]
                ELSE [n EXCEPT !.unknown = b]
<1>1. StateInv(t) /\ DOMAIN t.node = DOMAIN s.node
    BY ProcessKeeps
<1>2. UpdateBlockAvailability(s, p, b, idx) = PutNode(t, p, N)
    BY DEF UpdateBlockAvailability, PutNode
<1> HIDE DEF t
<1>3. n \in NodeStates /\ SameQueue(n, n)
    BY <1>1, NodeFacts
<1> HIDE DEF n
<1>4. BetterOf(n.best, b) \in Blocks
    BY <1>3, BetterType DEF NodeStates
<1>5. SameQueue(n, N) /\ N.fSyncStarted = n.fSyncStarted
      /\ N.fPreferredDownload = n.fPreferredDownload
    BY <1>3, <1>4 DEF SameQueue, NodeStates
<1> HIDE DEF N
<1> QED  BY <1>1, <1>2, <1>5, PutNodeKeeps, SMT DEF n

\* Starting the headers sync keeps StateInv: p is counted once.
LEMMA StartSyncKeeps ==
    ASSUME NEW s, StateInv(s), NEW p \in DOMAIN s.node
    PROVE  LET r == StartSync(s, p)
           IN  StateInv(r) /\ DOMAIN r.node = DOMAIN s.node
<1> DEFINE n == s.node[p]
           N == [n EXCEPT !.fSyncStarted = TRUE, !.headers = 0]
           a == s.nSyncStarted + 1
           c == s.nPreferredDownload
<1>1. /\ s \in States /\ s.node \in [DOMAIN s.node -> NodeStates] /\ a \in Int /\ c \in Int
      /\ s.nSyncStarted \in Int
    BY MapsFacts, SMT DEF StateInv, States
<1>2. n \in NodeStates /\ SameQueue(n, n)
    BY NodeFacts
<1>3. \/ StartSync(s, p) = s
      \/ ~n.fSyncStarted /\ StartSync(s, p) = Touch(s, p, N, a, c)
    BY <1>1, <1>2 DEF StartSync, Touch, States, NodeStates
<1> HIDE DEF n
<1>4. /\ N \in NodeStates /\ SameQueue(n, N) /\ N.fSyncStarted = TRUE
      /\ N.fPreferredDownload = n.fPreferredDownload
    <2>1. 0 \in Ages
        BY SMT DEF Ages
    <2>2. /\ N \in NodeStates /\ N.vBlocksInFlight = n.vBlocksInFlight
          /\ N.nBlocksInFlightValidHeaders = n.nBlocksInFlightValidHeaders
          /\ N.stalling = n.stalling /\ N.fSyncStarted = TRUE
          /\ N.fPreferredDownload = n.fPreferredDownload
        BY <1>2, <2>1 DEF NodeStates
    <2> HIDE DEF N
    <2> QED  BY <1>2, <2>2 DEF SameQueue
<1>5. CASE ~n.fSyncStarted /\ StartSync(s, p) = Touch(s, p, N, a, c)
    <2> HIDE DEF N
    <2>1. /\ a = s.nSyncStarted - One(n.fSyncStarted) + One(N.fSyncStarted)
          /\ c = s.nPreferredDownload - One(n.fPreferredDownload) + One(N.fPreferredDownload)
        BY <1>1, <1>4, <1>5, SMT DEF One
    <2> HIDE DEF a, c
    <2>2. StateInv(Touch(s, p, N, a, c))
        BY <1>1, <1>4, <2>1, TouchKeeps DEF n
    <2>3. DOMAIN Touch(s, p, N, a, c).node = DOMAIN s.node
        BY <1>1, <1>4, TouchFields, SMT DEF n
    <2> QED  BY <1>5, <2>2, <2>3
<1> QED  BY <1>3, <1>5

\* The headers timeout keeps StateInv: p is counted no more.
LEMMA HeadersTimeoutKeeps ==
    ASSUME NEW s, StateInv(s), NEW p \in DOMAIN s.node
    PROVE  LET r == HeadersSyncTimeout(s, p)
           IN  StateInv(r) /\ DOMAIN r.node = DOMAIN s.node
<1> DEFINE n == s.node[p]
           N == [n EXCEPT !.fSyncStarted = FALSE, !.headers = None]
           M == [n EXCEPT !.headers = None]
           a == s.nSyncStarted - 1
           c == s.nPreferredDownload
<1>1. /\ s \in States /\ s.node \in [DOMAIN s.node -> NodeStates] /\ a \in Int /\ c \in Int
      /\ s.nSyncStarted \in Int
    BY MapsFacts, SMT DEF StateInv, States
<1>2. n \in NodeStates /\ SameQueue(n, n)
    BY NodeFacts
<1>3. \/ HeadersSyncTimeout(s, p) = s
      \/ HeadersSyncTimeout(s, p) = PutNode(s, p, M)
      \/ n.fSyncStarted /\ HeadersSyncTimeout(s, p) = Touch(s, p, N, a, c)
    <2>1. CASE HeadersTimedOut(s, p) /\ p \in Whitelisted
        <3>1. n.fSyncStarted
            BY <2>1 DEF HeadersTimedOut
        <3>2. HeadersSyncTimeout(s, p) = Touch(s, p, N, a, c)
            BY <1>1, <1>2, <2>1 DEF HeadersSyncTimeout, Touch, States, NodeStates
        <3> QED  BY <3>1, <3>2
    <2>2. CASE ~(HeadersTimedOut(s, p) /\ p \in Whitelisted)
        BY <2>2 DEF HeadersSyncTimeout, PutNode
    <2> QED  BY <2>1, <2>2
<1> HIDE DEF n
<1>4. None \in Ages
    BY DEF Ages
<1>5. /\ N \in NodeStates /\ SameQueue(n, N) /\ N.fSyncStarted = FALSE
      /\ N.fPreferredDownload = n.fPreferredDownload
    <2>1. /\ N \in NodeStates /\ N.vBlocksInFlight = n.vBlocksInFlight
          /\ N.nBlocksInFlightValidHeaders = n.nBlocksInFlightValidHeaders
          /\ N.stalling = n.stalling /\ N.fSyncStarted = FALSE
          /\ N.fPreferredDownload = n.fPreferredDownload
        BY <1>2, <1>4 DEF NodeStates
    <2> HIDE DEF N
    <2> QED  BY <1>2, <2>1 DEF SameQueue
<1>6. /\ SameQueue(n, M) /\ M.fSyncStarted = n.fSyncStarted
      /\ M.fPreferredDownload = n.fPreferredDownload
    <2>1. /\ M \in NodeStates /\ M.vBlocksInFlight = n.vBlocksInFlight
          /\ M.nBlocksInFlightValidHeaders = n.nBlocksInFlightValidHeaders
          /\ M.stalling = n.stalling /\ M.fSyncStarted = n.fSyncStarted
          /\ M.fPreferredDownload = n.fPreferredDownload
        BY <1>2, <1>4 DEF NodeStates
    <2> HIDE DEF M
    <2> QED  BY <1>2, <2>1 DEF SameQueue
<1> HIDE DEF N, M
<1>7. CASE n.fSyncStarted /\ HeadersSyncTimeout(s, p) = Touch(s, p, N, a, c)
    <2>1. /\ a = s.nSyncStarted - One(n.fSyncStarted) + One(N.fSyncStarted)
          /\ c = s.nPreferredDownload - One(n.fPreferredDownload) + One(N.fPreferredDownload)
        BY <1>1, <1>5, <1>7, SMT DEF One
    <2> HIDE DEF a, c
    <2>2. StateInv(Touch(s, p, N, a, c))
        BY <1>1, <1>5, <2>1, TouchKeeps DEF n
    <2>3. DOMAIN Touch(s, p, N, a, c).node = DOMAIN s.node
        BY <1>1, <1>5, TouchFields, SMT DEF n
    <2> QED  BY <1>7, <2>2, <2>3
<1>8. CASE HeadersSyncTimeout(s, p) = PutNode(s, p, M)
    BY <1>6, <1>8, PutNodeKeeps, SMT DEF n
<1> QED  BY <1>3, <1>7, <1>8

\* "getdata (blocks)" keeps StateInv: if a stalling clock is started then p got
\* no block, so the queues are as the walk saw them and the staller owes one.
LEMMA FetchKeeps ==
    ASSUME NEW s, StateInv(s), NEW p \in DOMAIN s.node, NEW found \in Walks(s)
    PROVE  LET r == FetchBlocks(s, p, found)
           IN  StateInv(r) /\ DOMAIN r.node = DOMAIN s.node
<1> DEFINE n == s.node[p]
           M == [n EXCEPT !.common = found.common]
           t == PutNode(s, p, M)
           r == Request(t, p, found.blocks)
           w == found.staller
           N == [r.node[w] EXCEPT !.stalling = 0]
<1>1. /\ found.common \in Blocks \cup {None} /\ found.blocks \in Seq(Blocks)
      /\ w \in Range(s.inFlight) \cup {None}
    BY DEF Walks
<1>2. n \in NodeStates /\ SameQueue(n, n)
    BY NodeFacts
<1>3. FetchBlocks(s, p, found) =
        IF r.node[p].vBlocksInFlight = << >> /\ w # None /\ r.node[w].stalling = None
        THEN PutNode(r, w, N) ELSE r
    BY DEF FetchBlocks, PutNode
<1> HIDE DEF n
<1>4. /\ SameQueue(n, M) /\ M.fSyncStarted = n.fSyncStarted
      /\ M.fPreferredDownload = n.fPreferredDownload
    <2>1. /\ M \in NodeStates /\ M.vBlocksInFlight = n.vBlocksInFlight
          /\ M.nBlocksInFlightValidHeaders = n.nBlocksInFlightValidHeaders
          /\ M.stalling = n.stalling /\ M.fSyncStarted = n.fSyncStarted
          /\ M.fPreferredDownload = n.fPreferredDownload
        BY <1>1, <1>2 DEF NodeStates
    <2> HIDE DEF M
    <2> QED  BY <1>2, <2>1 DEF SameQueue
<1> HIDE DEF M
<1>5. StateInv(t) /\ DOMAIN t.node = DOMAIN s.node /\ t.inFlight = s.inFlight
    BY <1>4, PutNodeKeeps, SMT DEF n
<1> HIDE DEF t
<1>6. /\ StateInv(r) /\ DOMAIN r.node = DOMAIN s.node
      /\ found.blocks # << >> => r.node[p].vBlocksInFlight # << >>
      /\ found.blocks = << >> => r = t
    BY <1>1, <1>5, RequestKeeps
<1> HIDE DEF r
<1>7. CASE r.node[p].vBlocksInFlight = << >> /\ w # None /\ r.node[w].stalling = None
    <2>1. r = t /\ w \in Range(t.inFlight)
        BY <1>1, <1>5, <1>6, <1>7
    <2> HIDE DEF w
    <2>2. w \in DOMAIN r.node /\ r.node[w].vBlocksInFlight # << >>
        <3>1. PICK b \in DOMAIN t.inFlight : t.inFlight[b] = w
            BY <2>1 DEF Range
        <3>2. HasOwner(t, b)
            BY <1>5, <3>1 DEF StateInv, Queued
        <3> QED  BY <2>1, <3>1, <3>2, SMT DEF HasOwner, Range
    <2> DEFINE m == r.node[w]
    <2>3. m \in NodeStates /\ m.vBlocksInFlight # << >>
        BY <1>6, <2>2, NodeFacts
    <2> HIDE DEF m
    <2>4. N = [m EXCEPT !.stalling = 0]
        BY DEF m
    <2> HIDE DEF N
    <2>5. /\ SameQueue(m, N) /\ N.fSyncStarted = m.fSyncStarted
          /\ N.fPreferredDownload = m.fPreferredDownload
        <3>1. 0 \in Ages
            BY SMT DEF Ages
        <3>2. /\ N \in NodeStates /\ N.vBlocksInFlight = m.vBlocksInFlight
              /\ N.nBlocksInFlightValidHeaders = m.nBlocksInFlightValidHeaders
              /\ N.fSyncStarted = m.fSyncStarted
              /\ N.fPreferredDownload = m.fPreferredDownload
            BY <2>3, <2>4, <3>1 DEF NodeStates
        <3> QED  BY <2>3, <3>2 DEF SameQueue
    <2>6. StateInv(PutNode(r, w, N)) /\ DOMAIN PutNode(r, w, N).node = DOMAIN r.node
        BY <1>6, <2>2, <2>5, PutNodeKeeps, SMT DEF m
    <2> QED  BY <1>3, <1>6, <1>7, <2>6 DEF w
<1> QED  BY <1>3, <1>6, <1>7

\* InitializeNode.
Extend(s, p) ==
    [s EXCEPT !.node = [q \in DOMAIN s.node \cup {p} |->
                          IF q = p THEN CNodeState ELSE s.node[q]]]

\* InitializeNode keeps StateInv.
LEMMA ExtendKeeps ==
    ASSUME NEW s, StateInv(s), NEW p \in Peers \ DOMAIN s.node
    PROVE  LET r == Extend(s, p)
           IN  StateInv(r) /\ DOMAIN r.node = DOMAIN s.node \cup {p}
<1> DEFINE r == Extend(s, p)
           f == [q \in DOMAIN s.node \cup {p} |-> IF q = p THEN CNodeState ELSE s.node[q]]
<1>1. s \in States /\ Queued(s)
    BY DEF StateInv
<1>2. s.node \in [DOMAIN s.node -> NodeStates] /\ DOMAIN s.node \subseteq Peers
    BY <1>1, MapsFacts DEF States
<1>3. /\ CNodeState \in NodeStates /\ CNodeState.vBlocksInFlight = << >>
      /\ CNodeState.fSyncStarted = FALSE /\ CNodeState.fPreferredDownload = FALSE
      /\ CNodeState.nBlocksInFlightValidHeaders = 0 /\ CNodeState.stalling = None
    <2>1. << >> \in Seq(Entries) /\ None \in Ages /\ 0 \in Ages
        BY SMT DEF Ages
    <2> QED  BY <2>1, SMT DEF NodeStates, CNodeState
<1>4. f \in [DOMAIN s.node \cup {p} -> NodeStates]
    BY <1>2, <1>3
<1>5. f \in Maps(Peers, NodeStates)
    <2>1. DOMAIN s.node \cup {p} \in SUBSET Peers
        BY <1>2
    <2> HIDE DEF f
    <2> QED  BY <1>4, <2>1, MapsFacts
<1>6. /\ DOMAIN f = DOMAIN s.node \cup {p} /\ f[p] = CNodeState
      /\ \A x \in DOMAIN s.node : f[x] = s.node[x]
    OBVIOUS
<1>7. r = [s EXCEPT !.node = f]
    BY DEF Extend
<1> HIDE DEF f, r
<1>8. /\ r \in States /\ r.node = f /\ r.inFlight = s.inFlight
      /\ r.nPeersWithValidatedDownloads = s.nPeersWithValidatedDownloads
      /\ r.nSyncStarted = s.nSyncStarted /\ r.nPreferredDownload = s.nPreferredDownload
    BY <1>1, <1>5, <1>7 DEF States
<1>9. Range(<< >>) = {}
    BY SMT DEF Range
<1>10. Validated(r.node[p]) = {}
    BY <1>3, <1>6, <1>8, <1>9 DEF Validated
<1>11. NodeOK(r.node[p])
    BY <1>3, <1>6, <1>8, <1>10, FS_EmptySet DEF NodeOK
<1>12. \A x \in DOMAIN r.node : NodeOK(r.node[x])
    BY <1>6, <1>8, <1>11 DEF StateInv
<1>13. Queued(r)
    <2>1. ASSUME NEW x \in DOMAIN r.node
          PROVE  QueueOK(r.node[x].vBlocksInFlight, r.inFlight, x)
        <3>1. CASE x = p
            <4>1. r.node[x].vBlocksInFlight = << >>
                BY <1>3, <1>6, <1>8, <3>1
            <4>2. QueueOK(<< >>, r.inFlight, x)
                BY SMT DEF QueueOK
            <4> QED  BY <4>1, <4>2
        <3>2. CASE x # p
            BY <1>1, <1>6, <1>8, <3>2 DEF Queued
        <3> QED  BY <3>1, <3>2
    <2>2. ASSUME NEW b \in DOMAIN r.inFlight PROVE HasOwner(r, b)
        <3>1. HasOwner(s, b)
            BY <1>1, <1>8 DEF Queued
        <3> QED  BY <1>6, <1>8, <3>1 DEF HasOwner
    <2> QED  BY <2>1, <2>2 DEF Queued
<1>14. Syncing(r) = Syncing(s) /\ PreferredNodes(r) = PreferredNodes(s)
    BY <1>3, <1>6, <1>8 DEF Syncing, PreferredNodes
<1>15. Downloading(r) = Downloading(s)
    BY <1>6, <1>8, <1>10 DEF Downloading
<1> QED  BY <1>6, <1>8, <1>12, <1>13, <1>14, <1>15 DEF StateInv, r

\* FinalizeNode keeps StateInv: it erases exactly the blocks in flight from p.
LEMMA WithoutKeeps ==
    ASSUME StateInv(st), NEW p \in DOMAIN st.node
    PROVE  StateInv(WithoutNode(p)) /\ DOMAIN WithoutNode(p).node = DOMAIN st.node \ {p}
<1> DEFINE r == WithoutNode(p)
           f == [q \in DOMAIN st.node \ {p} |-> st.node[q]]
           F == [b \in DOMAIN st.inFlight \ Erased(p) |-> st.inFlight[b]]
           a == st.nSyncStarted - One(st.node[p].fSyncStarted)
           c == st.nPreferredDownload - One(st.node[p].fPreferredDownload)
           d == st.nPeersWithValidatedDownloads
                  - One(st.node[p].nBlocksInFlightValidHeaders # 0)
<1>1. st \in States /\ Queued(st)
    BY DEF StateInv
<1>2. /\ st.node \in [DOMAIN st.node -> NodeStates] /\ DOMAIN st.node \subseteq Peers
      /\ st.inFlight \in [DOMAIN st.inFlight -> Peers] /\ DOMAIN st.inFlight \subseteq Blocks
    BY <1>1, MapsFacts DEF States
<1>3. f \in Maps(Peers, NodeStates) /\ F \in Maps(Blocks, Peers)
    <2>1. f \in [DOMAIN st.node \ {p} -> NodeStates] /\ DOMAIN st.node \ {p} \in SUBSET Peers
        BY <1>2
    <2>2. F \in [DOMAIN st.inFlight \ Erased(p) -> Peers]
          /\ DOMAIN st.inFlight \ Erased(p) \in SUBSET Blocks
        BY <1>2
    <2> HIDE DEF f, F
    <2> QED  BY <2>1, <2>2, MapsFacts
<1>4. /\ DOMAIN f = DOMAIN st.node \ {p} /\ \A x \in DOMAIN f : f[x] = st.node[x]
      /\ DOMAIN F = DOMAIN st.inFlight \ Erased(p) /\ \A b \in DOMAIN F : F[b] = st.inFlight[b]
    OBVIOUS
<1>5. a \in Int /\ c \in Int /\ d \in Int
    BY <1>1, SMT DEF States, One
<1>6. r = [st EXCEPT !.node = f, !.inFlight = F, !.nSyncStarted = a, !.nPreferredDownload = c,
                     !.nPeersWithValidatedDownloads = d]
    BY DEF WithoutNode
<1> HIDE DEF f, F, a, c, d, r
<1>7. /\ r \in States /\ r.node = f /\ r.inFlight = F /\ r.nSyncStarted = a
      /\ r.nPreferredDownload = c /\ r.nPeersWithValidatedDownloads = d
    BY <1>1, <1>3, <1>5, <1>6 DEF States
<1>8. ASSUME NEW x \in DOMAIN r.node
      PROVE  NodeOK(r.node[x]) /\ QueueOK(r.node[x].vBlocksInFlight, r.inFlight, x)
    <2> DEFINE q == st.node[x].vBlocksInFlight
    <2>1. x \in DOMAIN st.node /\ x # p /\ r.node[x] = st.node[x]
        BY <1>4, <1>7
    <2>2. QueueOK(q, st.inFlight, x) /\ NodeOK(st.node[x])
        BY <1>1, <2>1 DEF Queued, StateInv
    <2>3. QueueOK(st.node[p].vBlocksInFlight, st.inFlight, p)
        BY <1>1 DEF Queued
    <2>4. \A b \in Erased(p) : st.inFlight[b] = p
        BY <2>3 DEF Erased, QueueOK, Range
    <2> HIDE DEF q
    <2>5. QueueOK(q, F, x)
        BY <1>4, <2>1, <2>2, <2>4, SMT DEF QueueOK
    <2> QED  BY <1>7, <2>1, <2>2, <2>5 DEF q
<1>9. ASSUME NEW b \in DOMAIN r.inFlight
      PROVE  HasOwner(r, b)
    <2>1. b \in DOMAIN st.inFlight /\ b \notin Erased(p) /\ r.inFlight[b] = st.inFlight[b]
        BY <1>4, <1>7
    <2>2. HasOwner(st, b)
        BY <1>1, <2>1 DEF Queued
    <2>3. st.inFlight[b] # p
        BY <2>1, <2>2 DEF HasOwner, Erased
    <2> QED  BY <1>4, <1>7, <2>1, <2>2, <2>3 DEF HasOwner
<1>10. Cardinality(Syncing(r)) = a
    <2>1. /\ Syncing(st) \ {p} = Syncing(r) \ {p} /\ p \notin Syncing(r)
          /\ (p \in Syncing(st)) = (st.node[p].fSyncStarted)
        <3>1. st.node[p].fSyncStarted \in BOOLEAN
            BY <1>2 DEF NodeStates
        <3> QED  BY <1>4, <1>7, <3>1, SMT DEF Syncing
    <2>2. Syncing(st) \in SUBSET DOMAIN st.node
        BY DEF Syncing
    <2>3. IsFiniteSet(Syncing(st)) /\ Cardinality(Syncing(st)) \in Nat
        BY <1>1, <2>2, NodesAreFinite
    <2>4. Cardinality(Syncing(r)) =
            Cardinality(Syncing(st)) - One(p \in Syncing(st)) + One(p \in Syncing(r))
        BY <2>1, <2>3, CountChanges
    <2>5. st.nSyncStarted = Cardinality(Syncing(st))
        BY DEF StateInv
    <2>6. One(p \in Syncing(r)) = 0 /\ One(p \in Syncing(st)) = One(st.node[p].fSyncStarted)
        BY <2>1 DEF One
    <2>7. One(p \in Syncing(st)) \in Int
        BY SMT DEF One
    <2> QED  BY <2>3, <2>4, <2>5, <2>6, <2>7, SMT DEF a
<1>11. Cardinality(PreferredNodes(r)) = c
    <2>1. /\ PreferredNodes(st) \ {p} = PreferredNodes(r) \ {p} /\ p \notin PreferredNodes(r)
          /\ (p \in PreferredNodes(st)) = (st.node[p].fPreferredDownload)
        <3>1. st.node[p].fPreferredDownload \in BOOLEAN
            BY <1>2 DEF NodeStates
        <3> QED  BY <1>4, <1>7, <3>1, SMT DEF PreferredNodes
    <2>2. PreferredNodes(st) \in SUBSET DOMAIN st.node
        BY DEF PreferredNodes
    <2>3. IsFiniteSet(PreferredNodes(st)) /\ Cardinality(PreferredNodes(st)) \in Nat
        BY <1>1, <2>2, NodesAreFinite
    <2>4. Cardinality(PreferredNodes(r)) = Cardinality(PreferredNodes(st))
            - One(p \in PreferredNodes(st)) + One(p \in PreferredNodes(r))
        BY <2>1, <2>3, CountChanges
    <2>5. st.nPreferredDownload = Cardinality(PreferredNodes(st))
        BY DEF StateInv
    <2>6. One(p \in PreferredNodes(r)) = 0 /\ One(p \in PreferredNodes(st)) = One(st.node[p].fPreferredDownload)
        BY <2>1 DEF One
    <2>7. One(p \in PreferredNodes(st)) \in Int
        BY SMT DEF One
    <2> QED  BY <2>3, <2>4, <2>5, <2>6, <2>7, SMT DEF c
<1>12. Cardinality(Downloading(r)) = d
    <2>1. /\ Downloading(st) \ {p} = Downloading(r) \ {p} /\ p \notin Downloading(r)
          /\ (p \in Downloading(st)) = (Validated(st.node[p]) # {})
        BY <1>4, <1>7, SMT DEF Downloading
    <2>2. Downloading(st) \in SUBSET DOMAIN st.node
        BY DEF Downloading
    <2>3. IsFiniteSet(Downloading(st)) /\ Cardinality(Downloading(st)) \in Nat
        BY <1>1, <2>2, NodesAreFinite
    <2>4. Cardinality(Downloading(r)) = Cardinality(Downloading(st))
            - One(p \in Downloading(st)) + One(p \in Downloading(r))
        BY <2>1, <2>3, CountChanges
    <2>5. (st.node[p].nBlocksInFlightValidHeaders # 0) = (Validated(st.node[p]) # {})
        BY <1>1, NodeTypes DEF StateInv, NodeOK
    <2> QED  BY <2>1, <2>3, <2>4, <2>5, SMT DEF StateInv, One, d
<1>13. StateInv(r)
    BY <1>7, <1>8, <1>9, <1>10, <1>11, <1>12 DEF StateInv, Queued
<1> QED  BY <1>4, <1>7, <1>13 DEF r

\* UpdatePreferredDownload keeps StateInv.
LEMMA VersionKeeps ==
    ASSUME StateInv(st), NEW p \in DOMAIN st.node, NEW v \in BOOLEAN
    PROVE  LET r == [st EXCEPT !.node[p].fPreferredDownload = v,
                               !.nPreferredDownload =
                                   @ - One(st.node[p].fPreferredDownload) + One(v)]
           IN  StateInv(r) /\ DOMAIN r.node = DOMAIN st.node
<1> DEFINE n == st.node[p]
           N == [n EXCEPT !.fPreferredDownload = v]
           a == st.nSyncStarted
           c == st.nPreferredDownload - One(n.fPreferredDownload) + One(v)
           r == [st EXCEPT !.node[p].fPreferredDownload = v, !.nPreferredDownload = c]
<1>1. /\ st \in States /\ st.node \in [DOMAIN st.node -> NodeStates] /\ a \in Int
      /\ st.nPreferredDownload \in Int
    BY MapsFacts DEF StateInv, States
<1>2. c \in Int
    BY <1>1, SMT DEF One
<1>3. n \in NodeStates /\ SameQueue(n, n)
    BY NodeFacts
<1>4. r = Touch(st, p, N, a, c)
    BY <1>1, <1>3 DEF Touch, States, NodeStates
<1> HIDE DEF n
<1>5. /\ N \in NodeStates /\ SameQueue(n, N) /\ N.fSyncStarted = n.fSyncStarted
      /\ N.fPreferredDownload = v
    <2>1. /\ N \in NodeStates /\ N.vBlocksInFlight = n.vBlocksInFlight
          /\ N.nBlocksInFlightValidHeaders = n.nBlocksInFlightValidHeaders
          /\ N.stalling = n.stalling /\ N.fSyncStarted = n.fSyncStarted
          /\ N.fPreferredDownload = v
        BY <1>3 DEF NodeStates
    <2> HIDE DEF N
    <2> QED  BY <1>3, <2>1 DEF SameQueue
<1> HIDE DEF N
<1>6. /\ a = st.nSyncStarted - One(n.fSyncStarted) + One(N.fSyncStarted)
      /\ c = st.nPreferredDownload - One(n.fPreferredDownload) + One(N.fPreferredDownload)
    BY <1>1, <1>5, SMT DEF One
<1> HIDE DEF a, c
<1>7. StateInv(Touch(st, p, N, a, c))
    BY <1>1, <1>2, <1>5, <1>6, TouchKeeps DEF n
<1>8. DOMAIN Touch(st, p, N, a, c).node = DOMAIN st.node
    BY <1>1, <1>2, <1>5, TouchFields, SMT DEF n
<1> QED  BY <1>4, <1>7, <1>8 DEF n, c

\* A clock that is off stays off.
LEMMA OlderType ==
    ASSUME NEW age \in Ages, NEW timeout \in Int
    PROVE  Older(age, timeout) \in Ages /\ Older(None, timeout) = None
<1>1. Older(None, timeout) = None
    BY DEF Older
<1>2. CASE age = None
    BY <1>1, <1>2 DEF Ages
<1>3. CASE age # None
    <2>1. age \in Int
        BY <1>3 DEF Ages
    <2>2. Min({age, timeout}) \in Int
        BY <2>1, MinOfTwo
    <2> QED  BY <1>1, <1>3, <2>2, SMT DEF Older, Ages
<1> QED  BY <1>2, <1>3

\* What the clock does to a CNodeState.
Aged(n) ==
    [n EXCEPT !.stalling = Older(n.stalling, BLOCK_STALLING_TIMEOUT),
              !.headers = Older(n.headers, HEADERS_DOWNLOAD_TIMEOUT),
              !.downloading =
                  IF n.vBlocksInFlight = << >> THEN 0
                  ELSE Older(n.downloading, BLOCK_DOWNLOAD_TIMEOUT_BASE
                         + BLOCK_DOWNLOAD_TIMEOUT_PER_PEER * (Cardinality(Peers) - 1))]

\* The clock leaves the queues alone.
LEMMA AgedKeeps ==
    ASSUME NEW n \in NodeStates, SameQueue(n, n)
    PROVE  /\ SameQueue(n, Aged(n)) /\ Aged(n).fSyncStarted = n.fSyncStarted
           /\ Aged(n).fPreferredDownload = n.fPreferredDownload
<1> DEFINE c == BLOCK_DOWNLOAD_TIMEOUT_BASE
                  + BLOCK_DOWNLOAD_TIMEOUT_PER_PEER * (Cardinality(Peers) - 1)
           x == Older(n.stalling, BLOCK_STALLING_TIMEOUT)
           y == Older(n.headers, HEADERS_DOWNLOAD_TIMEOUT)
           z == IF n.vBlocksInFlight = << >> THEN 0 ELSE Older(n.downloading, c)
           N == Aged(n)
<1>1. c \in Int
    <2>1. Cardinality(Peers) \in Nat
        BY PeersAssumption, RangeIsFinite, FS_CardinalityType DEF Peers
    <2> QED  BY <2>1, LimitsAssumption, SMT
<1>2. N = [n EXCEPT !.stalling = x, !.headers = y, !.downloading = z]
    BY DEF Aged
<1> HIDE DEF c, N
<1>3. n.stalling \in Ages /\ n.headers \in Ages /\ n.downloading \in Ages /\ 0 \in Ages
    BY SMT DEF NodeStates, Ages
<1>4. /\ x \in Ages /\ y \in Ages /\ z \in Ages
      /\ n.stalling = None => x = None
    BY <1>1, <1>3, OlderType, LimitsAssumption, SMT
<1> HIDE DEF x, y, z
<1>5. /\ N \in NodeStates /\ N.vBlocksInFlight = n.vBlocksInFlight
      /\ N.nBlocksInFlightValidHeaders = n.nBlocksInFlightValidHeaders
      /\ N.stalling = x /\ N.fSyncStarted = n.fSyncStarted
      /\ N.fPreferredDownload = n.fPreferredDownload
    BY <1>2, <1>4 DEF NodeStates
<1>6. SameQueue(n, N)
    BY <1>4, <1>5 DEF SameQueue
<1> QED  BY <1>5, <1>6 DEF N

\* The clock keeps StateInv.
LEMMA TickKeeps ==
    ASSUME StateInv(st)
    PROVE  LET r == [st EXCEPT !.node = [p \in DOMAIN st.node |-> Aged(st.node[p])]]
           IN  StateInv(r) /\ DOMAIN r.node = DOMAIN st.node
<1> DEFINE f == [p \in DOMAIN st.node |-> Aged(st.node[p])]
           r == [st EXCEPT !.node = f]
<1>1. st \in States /\ Queued(st)
    BY DEF StateInv
<1>2. st.node \in [DOMAIN st.node -> NodeStates] /\ DOMAIN st.node \in SUBSET Peers
    BY <1>1, MapsFacts, SMT DEF States
<1>3. ASSUME NEW p \in DOMAIN st.node
      PROVE  /\ SameQueue(st.node[p], f[p]) /\ f[p].fSyncStarted = st.node[p].fSyncStarted
             /\ f[p].fPreferredDownload = st.node[p].fPreferredDownload
    BY NodeFacts, AgedKeeps
<1>4. DOMAIN f = DOMAIN st.node
    OBVIOUS
<1>5. f \in Maps(Peers, NodeStates)
    <2>1. \A p \in DOMAIN st.node : f[p] \in NodeStates
        BY <1>3 DEF SameQueue
    <2>2. f \in [DOMAIN st.node -> NodeStates]
        BY <2>1
    <2> HIDE DEF f
    <2> QED  BY <1>2, <2>2, MapsFacts
<1> HIDE DEF f
<1>6. /\ r \in States /\ r.node = f /\ r.inFlight = st.inFlight
      /\ r.nPeersWithValidatedDownloads = st.nPeersWithValidatedDownloads
      /\ r.nSyncStarted = st.nSyncStarted /\ r.nPreferredDownload = st.nPreferredDownload
    BY <1>1, <1>5 DEF States
<1> HIDE DEF r
<1>7. \A x \in DOMAIN st.node : f[x].vBlocksInFlight = st.node[x].vBlocksInFlight
    BY <1>3 DEF SameQueue
<1>8. \A x \in DOMAIN st.node : Validated(f[x]) = Validated(st.node[x])
    BY <1>7 DEF Validated
<1>9. Queued(r)
    BY <1>1, <1>4, <1>6, <1>7 DEF Queued, HasOwner
<1>10. \A x \in DOMAIN r.node : NodeOK(r.node[x])
    BY <1>3, <1>4, <1>6, <1>8 DEF StateInv, NodeOK, SameQueue
<1>11. Downloading(r) = Downloading(st)
    BY <1>4, <1>6, <1>8 DEF Downloading
<1>12. Syncing(r) = Syncing(st) /\ PreferredNodes(r) = PreferredNodes(st)
    BY <1>3, <1>4, <1>6 DEF Syncing, PreferredNodes
<1> QED  BY <1>4, <1>6, <1>9, <1>10, <1>11, <1>12 DEF StateInv, r, f

-----------------------------------------------------------------------------
(* The actions.                                                            *)

Phases == {"none", "init", "version", "up", "closing", "gone"}
Locators == [start : Blocks, stop : Blocks \cup {None}]

\* The connections that have a CNodeState.
Connected ==
    /\ phase \in [Peers -> Phases]
    /\ \A p \in Peers : p \in DOMAIN st.node <=> phase[p] \notin {"none", "gone"}

ChainTypes ==
    index \in SUBSET Blocks /\ pindexBestHeader \in Blocks /\ data \in SUBSET Blocks /\ tip \in Blocks

RequestTypes ==
    /\ getheaders \in [Peers -> Seq(Locators)] /\ getdata \in [Peers -> Seq(Blocks)]
    /\ fromINV \in [Peers -> Seq(Blocks)] /\ turn \in Peers

\* The inductive invariant.
IInv == StateInv(st) /\ Connected /\ ChainTypes /\ RequestTypes

\* Init satisfies the invariant.
LEMMA InitIInv == Init => IInv
<1> SUFFICES ASSUME Init PROVE IInv
    OBVIOUS
<1>1. Len(vNodes) \in Nat \ {0} /\ 1 \in DOMAIN vNodes
    BY PeersAssumption, EmptySeq, LenProperties, SMT
<1>2. turn \in Peers
    BY <1>1 DEF Init, Peers, Range
<1>3. ChainTypes
    BY TreeAssumption DEF Init, ChainTypes
<1>4. << >> \in Seq(Locators) /\ << >> \in Seq(Blocks)
    BY SMT
<1>5. RequestTypes
    BY <1>2, <1>4 DEF Init, RequestTypes
<1>6. /\ st.node = << >> /\ st.inFlight = << >> /\ st.nSyncStarted = 0
      /\ st.nPreferredDownload = 0 /\ st.nPeersWithValidatedDownloads = 0
      /\ DOMAIN st = {"node", "inFlight", "nSyncStarted", "nPreferredDownload",
                      "nPeersWithValidatedDownloads"}
    BY DEF Init
<1>7. DOMAIN << >> = {}
    BY SMT
<1>8. << >> \in Maps(Peers, NodeStates) /\ << >> \in Maps(Blocks, Peers)
    <2>1. /\ {} \in SUBSET Peers /\ {} \in SUBSET Blocks
          /\ << >> \in [{} -> NodeStates] /\ << >> \in [{} -> Peers]
        BY SMT
    <2> QED  BY <2>1, MapsFacts
<1>9. st \in States
    BY <1>8, SMT DEF Init, States
<1>10. Connected
    BY <1>6, <1>7 DEF Init, Connected, Phases
<1>11. Queued(st) /\ \A p \in DOMAIN st.node : NodeOK(st.node[p])
    BY <1>6, <1>7 DEF Queued
<1>12. Syncing(st) = {} /\ PreferredNodes(st) = {} /\ Downloading(st) = {}
    BY <1>6, <1>7 DEF Syncing, PreferredNodes, Downloading
<1>13. StateInv(st)
    BY <1>6, <1>9, <1>11, <1>12, FS_EmptySet DEF StateInv
<1> QED  BY <1>3, <1>5, <1>10, <1>13 DEF IInv

\* A step of st that neither connects nor finalizes.
LEMMA StaysConnected ==
    ASSUME Connected, NEW p \in Peers, phase[p] \notin {"none", "gone"},
           DOMAIN st'.node = DOMAIN st.node,
           phase' = phase \/ \E x \in Phases \ {"none", "gone"} : phase' = [phase EXCEPT ![p] = x]
    PROVE  Connected'
<1>1. CASE phase' = phase
    BY <1>1 DEF Connected
<1>2. CASE \E x \in Phases \ {"none", "gone"} : phase' = [phase EXCEPT ![p] = x]
    BY <1>2 DEF Connected
<1> QED  BY <1>1, <1>2

\* InitializeNode keeps the invariant.
LEMMA InitializeNodeStep ==
    ASSUME IInv, NEW p \in Peers, InitializeNode(p)
    PROVE  IInv'
<1>1. p \notin DOMAIN st.node
    BY DEF IInv, Connected, InitializeNode
<1>2. st' = Extend(st, p)
    BY DEF InitializeNode, Extend
<1>3. StateInv(st') /\ DOMAIN st'.node = DOMAIN st.node \cup {p}
    BY <1>1, <1>2, ExtendKeeps DEF IInv
<1>4. Connected'
    BY <1>3 DEF IInv, Connected, Phases, InitializeNode
<1>5. ChainTypes' /\ RequestTypes'
    BY DEF IInv, InitializeNode, ChainTypes, RequestTypes, chainVars, requests
<1> QED  BY <1>3, <1>4, <1>5 DEF IInv

\* The VERSION message keeps the invariant.
LEMMA VersionStep ==
    ASSUME IInv, NEW p \in Peers, Version(p)
    PROVE  IInv'
<1>1. p \in DOMAIN st.node /\ phase[p] \notin {"none", "gone"}
    BY DEF IInv, Connected, Version
<1> DEFINE v == p \in Preferred
<1>2. v \in BOOLEAN
    BY SMT
<1>3. st' = [st EXCEPT !.node[p].fPreferredDownload = v,
                       !.nPreferredDownload = @ - One(st.node[p].fPreferredDownload) + One(v)]
    BY DEF Version
<1> HIDE DEF v
<1>4. StateInv(st') /\ DOMAIN st'.node = DOMAIN st.node
    BY <1>1, <1>2, <1>3, VersionKeeps DEF IInv
<1>5. Connected'
    BY <1>1, <1>4, StaysConnected DEF IInv, Version, Phases
<1>6. ChainTypes' /\ RequestTypes'
    BY DEF IInv, Version, ChainTypes, RequestTypes, chainVars, requests
<1> QED  BY <1>4, <1>5, <1>6 DEF IInv

\* The VERACK message keeps the invariant.
LEMMA VerackStep ==
    ASSUME IInv, NEW p \in Peers, Verack(p)
    PROVE  IInv'
<1>1. phase[p] \notin {"none", "gone"} /\ st' = st
    BY DEF Verack
<1>2. Connected'
    BY <1>1, StaysConnected DEF IInv, Verack, Phases
<1>3. ChainTypes' /\ RequestTypes'
    BY DEF IInv, Verack, ChainTypes, RequestTypes, chainVars, requests
<1> QED  BY <1>1, <1>2, <1>3 DEF IInv

\* A disconnection keeps the invariant.
LEMMA DisconnectStep ==
    ASSUME IInv, NEW p \in Peers, Disconnect(p)
    PROVE  IInv'
<1>1. phase[p] \notin {"none", "gone"} /\ st' = st
    BY DEF Disconnect
<1>2. Connected'
    BY <1>1, StaysConnected DEF IInv, Disconnect, Phases
<1>3. ChainTypes' /\ RequestTypes'
    BY DEF IInv, Disconnect, ChainTypes, RequestTypes, chainVars, requests
<1> QED  BY <1>1, <1>2, <1>3 DEF IInv

\* FinalizeNode keeps the invariant.
LEMMA FinalizeNodeStep ==
    ASSUME IInv, NEW p \in Peers, FinalizeNode(p)
    PROVE  IInv'
<1>1. p \in DOMAIN st.node
    BY DEF IInv, Connected, FinalizeNode
<1>2. StateInv(st') /\ DOMAIN st'.node = DOMAIN st.node \ {p}
    BY <1>1, WithoutKeeps DEF IInv, FinalizeNode
<1>3. Connected'
    BY <1>2 DEF IInv, Connected, Phases, FinalizeNode
<1>4. << >> \in Seq(Locators) /\ << >> \in Seq(Blocks)
    BY SMT
<1>5. ChainTypes' /\ RequestTypes'
    BY <1>4 DEF IInv, FinalizeNode, ChainTypes, RequestTypes, chainVars
<1> QED  BY <1>2, <1>3, <1>5 DEF IInv

\* The clock keeps the invariant.
LEMMA TickStep ==
    ASSUME IInv, Tick
    PROVE  IInv'
<1>1. st' = [st EXCEPT !.node = [p \in DOMAIN st.node |-> Aged(st.node[p])]]
    BY DEF Tick, Aged
<1>2. StateInv(st') /\ DOMAIN st'.node = DOMAIN st.node
    BY <1>1, TickKeeps DEF IInv
<1>3. Connected' /\ ChainTypes' /\ RequestTypes'
    BY <1>2 DEF IInv, Tick, Connected, ChainTypes, RequestTypes, chainVars, requests
<1> QED  BY <1>2, <1>3 DEF IInv

\* An INV keeps the invariant.
LEMMA InvStep ==
    ASSUME IInv, NEW p \in Peers, NEW b \in Blocks, Inv(p, b)
    PROVE  IInv'
<1> DEFINE s == UpdateBlockAvailability(st, p, b, index)
<1>1. p \in DOMAIN st.node /\ phase[p] \notin {"none", "gone"}
    BY DEF IInv, Connected, Inv, AfterVersion
<1>2. StateInv(s) /\ DOMAIN s.node = DOMAIN st.node
    BY <1>1, UpdateKeeps, SMT DEF IInv, ChainTypes
<1>3. st' = s \/ st' = MarkBlockAsInFlight(s, p, b, FALSE)
    BY DEF Inv
<1> HIDE DEF s
<1>4. StateInv(st') /\ DOMAIN st'.node = DOMAIN st.node
    <2>1. CASE st' = s
        BY <1>2, <2>1
    <2>2. CASE st' = MarkBlockAsInFlight(s, p, b, FALSE)
        <3>1. p \in DOMAIN s.node /\ FALSE \in BOOLEAN
            BY <1>1, <1>2
        <3> QED  BY <1>2, <2>2, <3>1, InFlightKeeps
    <2> QED  BY <1>3, <2>1, <2>2
<1>5. phase' = phase
    BY DEF Inv
<1>6. Connected'
    BY <1>1, <1>4, <1>5, StaysConnected DEF IInv
<1>7. ChainTypes'
    BY DEF IInv, Inv, ChainTypes, chainVars
<1>8. RequestTypes'
    <2>1. /\ getheaders \in [Peers -> Seq(Locators)] /\ getdata \in [Peers -> Seq(Blocks)]
          /\ fromINV \in [Peers -> Seq(Blocks)] /\ turn \in Peers /\ turn' = turn
        BY DEF IInv, RequestTypes, Inv
    <2> DEFINE l == [start |-> pindexBestHeader, stop |-> b]
    <2>2. l \in Locators
        BY DEF IInv, ChainTypes, Locators
    <2> HIDE DEF l
    <2>3. Append(fromINV[p], b) \in Seq(Blocks) /\ Append(getheaders[p], l) \in Seq(Locators)
        BY <2>1, <2>2, AppendProperties
    <2>4. fromINV' \in [Peers -> Seq(Blocks)]
        <3>1. fromINV' = fromINV \/ fromINV' = [fromINV EXCEPT ![p] = Append(fromINV[p], b)]
            BY DEF Inv
        <3> QED  BY <2>1, <2>3, <3>1
    <2>5. getheaders' \in [Peers -> Seq(Locators)]
        <3>1. \/ getheaders' = getheaders
              \/ getheaders' = [getheaders EXCEPT ![p] = Append(getheaders[p], l)]
            BY DEF Inv, l
        <3> QED  BY <2>1, <2>3, <3>1
    <2>6. getdata' \in [Peers -> Seq(Blocks)]
        <3>1. getdata' = getdata \/ getdata' = [getdata EXCEPT ![p] = Append(getdata[p], b)]
            BY DEF Inv
        <3>2. Append(getdata[p], b) \in Seq(Blocks)
            BY <2>1, AppendProperties
        <3> QED  BY <2>1, <3>1, <3>2
    <2> QED  BY <2>1, <2>4, <2>5, <2>6 DEF RequestTypes
<1> QED  BY <1>4, <1>6, <1>7, <1>8 DEF IInv

\* AddToBlockIndex of known headers.
LEMMA AddedTypes ==
    ASSUME NEW hs \in Seq(Blocks), index \in SUBSET Blocks, pindexBestHeader \in Blocks,
           AddToBlockIndex(hs)
    PROVE  index' \in SUBSET Blocks /\ pindexBestHeader' \in Blocks
<1>1. \A i \in DOMAIN hs : hs[i] \in Blocks
    BY LenProperties
<1>2. Range(hs) \subseteq Blocks
    BY <1>1 DEF Range
<1>3. hs # << >> => hs[Len(hs)] \in Blocks
    <2>1. hs # << >> => Len(hs) \in DOMAIN hs
        BY EmptySeq, LenProperties, SMT
    <2> QED  BY <1>1, <2>1
<1> QED  BY <1>2, <1>3 DEF AddToBlockIndex

\* A HEADERS message with any headers keeps the invariant.
LEMMA HeadersStep ==
    ASSUME IInv, NEW p \in Peers, AfterVersion(p), NEW hs \in Seq(Blocks),
           NEW pending \in Seq(Locators), Headers(p, hs, pending)
    PROVE  IInv'
<1> DEFINE last == hs[Len(hs)]
           idx == index \cup Range(hs)
           s == IF hs = << >> THEN st ELSE UpdateBlockAvailability(st, p, last, idx)
           full == Len(hs) = MAX_HEADERS_RESULTS
           bad == ~full /\ pindexBestHeader' \notin Recent
           fetch == IF bad \/ hs = << >> THEN << >> ELSE DirectFetch(s, p, last)
<1>1. p \in DOMAIN st.node /\ phase[p] \notin {"none", "gone"}
    BY DEF IInv, Connected, AfterVersion
<1>2. /\ getheaders \in [Peers -> Seq(Locators)] /\ getdata \in [Peers -> Seq(Blocks)]
      /\ fromINV \in [Peers -> Seq(Blocks)] /\ turn \in Peers
      /\ index \in SUBSET Blocks /\ pindexBestHeader \in Blocks /\ data \in SUBSET Blocks
      /\ tip \in Blocks /\ StateInv(st)
    BY DEF IInv, RequestTypes, ChainTypes
<1>3. CASE hs # << >> /\ Prev(hs[1]) \notin index
    <2>1. /\ getheaders' = [getheaders EXCEPT ![p] = pending]
          /\ UNCHANGED <<st, phase, chainVars, getdata, fromINV, turn>>
        BY <1>3 DEF Headers
    <2>2. RequestTypes'
        BY <1>2, <2>1 DEF RequestTypes
    <2> QED  BY <2>1, <2>2 DEF IInv, Connected, ChainTypes, chainVars
<1>4. CASE ~(hs # << >> /\ Prev(hs[1]) \notin index)
    <2>1. /\ AddToBlockIndex(hs)
          /\ phase' = IF bad THEN [phase EXCEPT ![p] = "closing"] ELSE phase
          /\ st' = Request(s, p, fetch)
          /\ getheaders' = [getheaders EXCEPT ![p] =
                 IF full THEN Append(pending, [start |-> last, stop |-> None]) ELSE pending]
          /\ getdata' = [getdata EXCEPT ![p] = getdata[p] \o fetch]
          /\ UNCHANGED <<data, tip, lockIBDState, fromINV, turn>>
        BY <1>4 DEF Headers
    <2>2. hs # << >> => last \in Blocks
        <3>1. hs # << >> => Len(hs) \in DOMAIN hs
            BY EmptySeq, LenProperties, SMT
        <3> QED  BY <3>1, LenProperties
    <2>3. idx \in SUBSET Blocks
        <3>1. \A i \in DOMAIN hs : hs[i] \in Blocks
            BY LenProperties
        <3> QED  BY <1>2, <3>1 DEF Range
    <2> HIDE DEF last, idx, bad
    <2>4. StateInv(s) /\ DOMAIN s.node = DOMAIN st.node
        BY <1>1, <1>2, <2>2, <2>3, UpdateKeeps, SMT
    <2> HIDE DEF s
    <2>5. fetch \in Seq(Blocks)
        <3>1. s \in States /\ p \in DOMAIN s.node
            BY <1>1, <2>4 DEF StateInv
        <3>2. hs # << >> => DirectFetch(s, p, last) \in Seq(Blocks)
            BY <1>2, <2>2, <3>1, DirectFetchType
        <3> QED  BY <3>2, EmptySeq
    <2> HIDE DEF fetch
    <2>6. StateInv(st') /\ DOMAIN st'.node = DOMAIN st.node
        BY <1>1, <2>1, <2>4, <2>5, RequestKeeps
    <2>7. Connected'
        <3>1. phase' = phase \/ \E x \in Phases \ {"none", "gone"} : phase' = [phase EXCEPT ![p] = x]
            BY <2>1 DEF Phases
        <3> QED  BY <1>1, <2>6, <3>1, StaysConnected DEF IInv
    <2>8. ChainTypes'
        BY <1>2, <2>1, AddedTypes DEF ChainTypes
    <2>9. RequestTypes'
        <3> DEFINE l == [start |-> last, stop |-> None]
        <3>1. full => hs # << >>
            BY LimitsAssumption, EmptySeq
        <3>2. full => l \in Locators
            BY <2>2, <3>1 DEF Locators
        <3> HIDE DEF l
        <3>3. full => Append(pending, l) \in Seq(Locators)
            BY <3>2, AppendProperties
        <3>4. getheaders' \in [Peers -> Seq(Locators)]
            <4> DEFINE g == IF full THEN Append(pending, l) ELSE pending
            <4>1. g \in Seq(Locators)
                BY <3>3
            <4>2. getheaders' = [getheaders EXCEPT ![p] = g]
                BY <2>1 DEF l
            <4> HIDE DEF g
            <4> QED  BY <1>2, <4>1, <4>2
        <3>5. getdata' \in [Peers -> Seq(Blocks)]
            <4>1. getdata[p] \o fetch \in Seq(Blocks)
                BY <1>2, <2>5, ConcatProperties
            <4> QED  BY <1>2, <2>1, <4>1
        <3> QED  BY <1>2, <2>1, <3>4, <3>5 DEF RequestTypes
    <2> QED  BY <2>6, <2>7, <2>8, <2>9 DEF IInv
<1> QED  BY <1>3, <1>4

\* A peer answers GETHEADERS with blocks.
LEMMA ResponseType ==
    ASSUME NEW p \in Peers, NEW m \in Locators
    PROVE  Response(p, m) \in Seq(Blocks)
<1> DEFINE t == PeerTip[p]
           path == PathTo[t]
           from == Height(LastCommonAncestor(m.start, t)) + 1
           to == IF m.stop \in Range(SubSeq(path, from, Len(path))) THEN Height(m.stop)
                 ELSE Len(path)
           end == Min({to, from + MAX_HEADERS_RESULTS - 1})
<1>1. t \in Blocks /\ m.start \in Blocks
    BY PeersAssumption DEF Locators
<1>2. Response(p, m) = SubSeq(path, from, end)
    BY DEF Response
<1> HIDE DEF t
<1>3. from \in Nat \ {0}
    BY <1>1, Forks, SMT
<1> HIDE DEF from
<1>4. /\ Height(t) \in Nat /\ Len(path) = Height(t)
      /\ \A h \in 1..Height(t) : path[h] \in Blocks /\ Height(path[h]) = h
    BY <1>1, Heights DEF Height
<1> HIDE DEF path
<1>5. to \in Int /\ to <= Height(t)
    <2>1. CASE m.stop \in Range(SubSeq(path, from, Len(path)))
        <3> DEFINE u == SubSeq(path, from, Len(path))
        <3>1. \A i \in from..Len(path) : path[i] \in Blocks
            BY <1>3, <1>4, SMT
        <3>2. /\ Len(u) = IF from <= Len(path) THEN Len(path) - from + 1 ELSE 0
              /\ u \in Seq(Blocks)
              /\ \A i \in 1..Len(path) - from + 1 : u[i] = path[from + i - 1]
            BY <1>3, <1>4, <3>1, SubSeqProperties, SMT
        <3>3. PICK i \in DOMAIN u : m.stop = u[i]
            BY <2>1 DEF Range
        <3>4. DOMAIN u = 1..Len(u)
            BY <3>2, LenProperties
        <3> HIDE DEF u
        <3>5. /\ i \in 1..Len(path) - from + 1 /\ from + i - 1 \in 1..Height(t)
            BY <1>3, <1>4, <3>2, <3>3, <3>4, SMT
        <3>6. Height(m.stop) = from + i - 1
            BY <1>4, <3>2, <3>3, <3>5
        <3> QED  BY <1>4, <2>1, <3>5, <3>6, SMT
    <2>2. CASE ~(m.stop \in Range(SubSeq(path, from, Len(path))))
        BY <1>4, <2>2, SMT
    <2> QED  BY <2>1, <2>2
<1> HIDE DEF to
<1>6. end \in Int /\ end <= Height(t)
    <2>1. from + MAX_HEADERS_RESULTS - 1 \in Int
        BY <1>3, LimitsAssumption, SMT
    <2> QED  BY <1>4, <1>5, <2>1, MinOfTwo, SMT
<1> HIDE DEF end
<1> QED  BY <1>1, <1>2, <1>3, <1>6, PartOfPath DEF path

\* A HEADERS message that was asked for keeps the invariant.
LEMMA AnswerGetHeadersStep ==
    ASSUME IInv, NEW p \in Peers, AnswerGetHeaders(p)
    PROVE  IInv'
<1> DEFINE hs == Response(p, Head(getheaders[p]))
           pending == Tail(getheaders[p])
<1>1. getheaders[p] \in Seq(Locators) /\ getheaders[p] # << >>
    BY DEF IInv, RequestTypes, AnswerGetHeaders
<1>2. Head(getheaders[p]) \in Locators /\ pending \in Seq(Locators)
    BY <1>1, HeadTailProperties
<1>3. hs \in Seq(Blocks)
    BY <1>2, ResponseType
<1>4. AfterVersion(p) /\ Headers(p, hs, pending)
    BY DEF AnswerGetHeaders
<1> HIDE DEF hs, pending
<1> QED  BY <1>2, <1>3, <1>4, HeadersStep

\* A HEADERS message that announces a block keeps the invariant.
LEMMA AnnounceStep ==
    ASSUME IInv, NEW p \in Peers, NEW b \in Blocks, Announce(p, b)
    PROVE  IInv'
<1> DEFINE hs == <<b>>
           pending == getheaders[p]
<1>1. pending \in Seq(Locators)
    BY DEF IInv, RequestTypes
<1>2. hs \in Seq(Blocks)
    BY SMT
<1>3. AfterVersion(p) /\ Headers(p, hs, pending)
    BY DEF Announce
<1> HIDE DEF hs, pending
<1> QED  BY <1>1, <1>2, <1>3, HeadersStep

\* A BLOCK message keeps the invariant.
LEMMA BlockStep ==
    ASSUME IInv, NEW p \in Peers, NEW b \in Blocks, Block(p, b)
    PROVE  IInv'
<1>1. p \in DOMAIN st.node /\ phase[p] \notin {"none", "gone"}
    BY DEF IInv, Connected, Block, AfterVersion
<1>2. /\ st' = MarkBlockAsReceived(st, b)
      /\ getdata' = [getdata EXCEPT ![p] = Without(getdata[p], {b})]
      /\ UNCHANGED <<phase, getheaders, fromINV, turn>>
    BY DEF Block
<1>3. StateInv(st') /\ DOMAIN st'.node = DOMAIN st.node
    BY <1>2, ReceivedKeeps DEF IInv
<1>4. Connected'
    BY <1>1, <1>2, <1>3, StaysConnected DEF IInv
<1>5. RequestTypes'
    <2>1. Without(getdata[p], {b}) \in Seq(Blocks)
        BY WithoutType DEF IInv, RequestTypes
    <2> QED  BY <1>2, <2>1 DEF IInv, RequestTypes
<1>6. ChainTypes'
    <2>1. /\ index \in SUBSET Blocks /\ pindexBestHeader \in Blocks /\ data \in SUBSET Blocks
          /\ tip \in Blocks
        BY DEF IInv, ChainTypes
    <2>2. CASE Prev(b) \notin index
        BY <2>1, <2>2 DEF Block, ChainTypes, chainVars
    <2>3. CASE Prev(b) \in index
        <3>1. AddToBlockIndex(<<b>>) /\ (data' = data \/ data' = data \cup {b})
              /\ ActivateBestChain(data')
            BY <2>3 DEF Block
        <3>2. data' \in SUBSET Blocks
            BY <2>1, <3>1
        <3>3. tip' \in data' \cup {tip}
            BY <3>1 DEF ActivateBestChain
        <3>4. <<b>> \in Seq(Blocks)
            BY SMT
        <3>5. index' \in SUBSET Blocks /\ pindexBestHeader' \in Blocks
            BY <2>1, <3>1, <3>4, AddedTypes
        <3> QED  BY <2>1, <3>2, <3>3, <3>5 DEF ChainTypes
    <2> QED  BY <2>2, <2>3
<1> QED  BY <1>3, <1>4, <1>5, <1>6 DEF IInv

\* SendMessages asks for headers from a known block.
LEMMA NewGetHeadersType ==
    ASSUME NEW s, NEW p \in Peers, IInv
    PROVE  NewGetHeaders(s, p) \in Seq(Locators)
<1> DEFINE start == IF pindexBestHeader = Genesis THEN Genesis ELSE Prev(pindexBestHeader)
           l == [start |-> start, stop |-> None]
           initial == IF s.node[p].fSyncStarted /\ ~st.node[p].fSyncStarted
                      THEN <<l>> ELSE << >>
           delayed == IF pindexBestHeader \in Recent THEN fromINV[p] ELSE << >>
           later == [i \in DOMAIN delayed |-> [start |-> pindexBestHeader, stop |-> delayed[i]]]
<1>1. pindexBestHeader \in Blocks /\ fromINV[p] \in Seq(Blocks)
    BY DEF IInv, ChainTypes, RequestTypes
<1>2. start \in Blocks
    BY <1>1, PrevIsBlock, TreeAssumption
<1> HIDE DEF start
<1>3. l \in Locators
    BY <1>2 DEF Locators
<1> HIDE DEF l
<1>4. initial \in Seq(Locators)
    BY <1>3, SMT
<1>5. delayed \in Seq(Blocks)
    BY <1>1, EmptySeq
<1> HIDE DEF delayed
<1>6. later \in Seq(Locators)
    <2>1. DOMAIN delayed = 1..Len(delayed) /\ Len(delayed) \in Nat
          /\ \A i \in DOMAIN delayed : delayed[i] \in Blocks
        BY <1>5, LenProperties
    <2>2. \A i \in DOMAIN delayed : later[i] \in Locators
        BY <1>1, <2>1 DEF Locators
    <2>3. later \in [1..Len(delayed) -> Locators]
        BY <2>1, <2>2
    <2> HIDE DEF later
    <2> QED  BY <2>1, <2>3, SMT
<1>7. NewGetHeaders(s, p) = initial \o later
    BY DEF NewGetHeaders, start, l, delayed
<1> HIDE DEF initial, later
<1> QED  BY <1>4, <1>6, <1>7, ConcatProperties

\* SendMessages keeps the invariant.
LEMMA SendMessagesStep ==
    ASSUME IInv, NEW p \in Peers, phase[p] = "up", SendMessages(p), turn' \in Peers,
           UNCHANGED chainVars
    PROVE  IInv'
<1> DEFINE s0 == StartSync(st, p)
           s1 == ProcessBlockAvailability(s0, p, index)
           s2 == HeadersSyncTimeout(s1, p)
           found == FindNextBlocksToDownload(s2, p)
           new == NewGetHeaders(s1, p)
<1>1. p \in DOMAIN st.node /\ phase[p] \notin {"none", "gone"}
    BY DEF IInv, Connected
<1>2. /\ phase' = phase \/ phase' = [phase EXCEPT ![p] = "closing"]
      /\ st' = s2 \/ st' = FetchBlocks(s2, p, found)
      /\ getheaders' = [getheaders EXCEPT ![p] = getheaders[p] \o new]
      /\ fromINV' = fromINV \/ fromINV' = [fromINV EXCEPT ![p] = << >>]
      /\ getdata' = getdata \/ getdata' = [getdata EXCEPT ![p] = getdata[p] \o found.blocks]
    BY DEF SendMessages
<1>3. StateInv(s0) /\ DOMAIN s0.node = DOMAIN st.node
    BY <1>1, StartSyncKeeps DEF IInv
<1> HIDE DEF s0
<1>4. StateInv(s1) /\ DOMAIN s1.node = DOMAIN st.node
    <2>1. p \in DOMAIN s0.node /\ index \in SUBSET Blocks
        BY <1>1, <1>3 DEF IInv, ChainTypes
    <2> QED  BY <1>3, <2>1, ProcessKeeps
<1>5. new \in Seq(Locators)
    <2> HIDE DEF s1
    <2> QED  BY NewGetHeadersType
<1> HIDE DEF s1, new
<1>6. StateInv(s2) /\ DOMAIN s2.node = DOMAIN st.node
    BY <1>1, <1>4, HeadersTimeoutKeeps
<1> HIDE DEF s2
<1>7. found \in Walks(s2)
    <2>1. s2 \in States /\ p \in DOMAIN s2.node /\ tip \in Blocks
        BY <1>1, <1>6 DEF StateInv, IInv, ChainTypes
    <2> QED  BY <2>1, FindType
<1> HIDE DEF found
<1>8. StateInv(st') /\ DOMAIN st'.node = DOMAIN st.node
    <2>1. StateInv(FetchBlocks(s2, p, found)) /\ DOMAIN FetchBlocks(s2, p, found).node = DOMAIN s2.node
        BY <1>1, <1>6, <1>7, FetchKeeps
    <2> QED  BY <1>2, <1>6, <2>1
<1>9. Connected'
    <2>1. phase' = phase \/ \E x \in Phases \ {"none", "gone"} : phase' = [phase EXCEPT ![p] = x]
        BY <1>2 DEF Phases
    <2> QED  BY <1>1, <1>8, <2>1, StaysConnected DEF IInv
<1>10. ChainTypes'
    BY DEF IInv, ChainTypes, chainVars
<1>11. RequestTypes'
    <2>1. /\ getheaders \in [Peers -> Seq(Locators)] /\ getdata \in [Peers -> Seq(Blocks)]
          /\ fromINV \in [Peers -> Seq(Blocks)]
        BY DEF IInv, RequestTypes
    <2>2. getheaders' \in [Peers -> Seq(Locators)]
        <3>1. getheaders[p] \o new \in Seq(Locators)
            BY <1>5, <2>1, ConcatProperties
        <3> QED  BY <1>2, <2>1, <3>1
    <2>3. getdata' \in [Peers -> Seq(Blocks)]
        <3> DEFINE bs == found.blocks
        <3>1. bs \in Seq(Blocks)
            BY <1>7 DEF Walks
        <3> HIDE DEF bs
        <3>2. getdata[p] \o bs \in Seq(Blocks)
            BY <2>1, <3>1, ConcatProperties
        <3> QED  BY <1>2, <2>1, <3>2 DEF bs
    <2>4. fromINV' \in [Peers -> Seq(Blocks)]
        <3>1. << >> \in Seq(Blocks)
            BY SMT
        <3> QED  BY <1>2, <2>1, <3>1
    <2> QED  BY <2>2, <2>3, <2>4 DEF RequestTypes
<1> QED  BY <1>8, <1>9, <1>10, <1>11 DEF IInv

\* A turn of ThreadMessageHandler keeps the invariant.
LEMMA ThreadMessageHandlerStep ==
    ASSUME IInv, ThreadMessageHandler
    PROVE  IInv'
<1> DEFINE n == Len(vNodes)
           i == CHOOSE j \in DOMAIN vNodes : vNodes[j] = turn
<1>1. n \in Nat \ {0} /\ DOMAIN vNodes = 1..n
    BY PeersAssumption, EmptySeq, LenProperties
<1>2. turn \in Peers
    BY DEF IInv, RequestTypes
<1>3. i \in DOMAIN vNodes
    BY <1>2 DEF Peers, Range
<1>4. turn' = vNodes[(i % n) + 1] /\ UNCHANGED chainVars
    BY DEF ThreadMessageHandler, Serve, PassOver, NextTurn
<1> HIDE DEF i, n
<1>5. (i % n) + 1 \in 1..n
    BY <1>1, <1>3, SMT
<1>6. turn' \in Peers
    BY <1>1, <1>4, <1>5 DEF Peers, Range
<1>7. ASSUME NEW p \in Peers, Serve(p) PROVE IInv'
    BY <1>4, <1>6, <1>7, SendMessagesStep DEF Serve
<1>8. ASSUME NEW p \in Peers, PassOver(p) PROVE IInv'
    <2>1. UNCHANGED <<st, phase, requests, chainVars>>
        BY <1>8 DEF PassOver
    <2> QED  BY <1>6, <2>1 DEF IInv, Connected, ChainTypes, RequestTypes, chainVars, requests
<1> QED  BY <1>7, <1>8 DEF ThreadMessageHandler

\* Every step keeps the invariant.
LEMMA NextIInv == IInv /\ [Next]_vars => IInv'
<1> SUFFICES ASSUME IInv, [Next]_vars PROVE IInv'
    OBVIOUS
<1>1. CASE Tick
    BY <1>1, TickStep
<1>2. CASE ThreadMessageHandler
    BY <1>2, ThreadMessageHandlerStep
<1>3. ASSUME NEW p \in Peers, InitializeNode(p) PROVE IInv'
    BY <1>3, InitializeNodeStep
<1>4. ASSUME NEW p \in Peers, Version(p) PROVE IInv'
    BY <1>4, VersionStep
<1>5. ASSUME NEW p \in Peers, Verack(p) PROVE IInv'
    BY <1>5, VerackStep
<1>6. ASSUME NEW p \in Peers, Disconnect(p) PROVE IInv'
    BY <1>6, DisconnectStep
<1>7. ASSUME NEW p \in Peers, FinalizeNode(p) PROVE IInv'
    BY <1>7, FinalizeNodeStep
<1>8. ASSUME NEW p \in Peers, AnswerGetHeaders(p) PROVE IInv'
    BY <1>8, AnswerGetHeadersStep
<1>9. ASSUME NEW p \in Peers, NEW b \in Announced[p], Announce(p, b) \/ Inv(p, b) PROVE IInv'
    <2>1. b \in Blocks
        BY PeersAssumption
    <2> QED  BY <1>9, <2>1, AnnounceStep, InvStep
<1>10. ASSUME NEW p \in Peers, NEW b \in Delivered(p) \cup Pushed[p], Block(p, b) PROVE IInv'
    <2>1. getdata[p] \in Seq(Blocks)
        BY DEF IInv, RequestTypes
    <2>2. Delivered(p) \subseteq Range(getdata[p])
        BY DEF Delivered, Range
    <2>3. \A i \in DOMAIN getdata[p] : getdata[p][i] \in Blocks
        BY <2>1, LenProperties
    <2>4. b \in Blocks
        BY <2>2, <2>3, PeersAssumption DEF Range
    <2> QED  BY <1>10, <2>4, BlockStep
<1>11. CASE UNCHANGED vars
    BY <1>11 DEF vars, IInv, Connected, ChainTypes, RequestTypes
<1> QED  BY <1>1, <1>2, <1>3, <1>4, <1>5, <1>6, <1>7, <1>8, <1>9, <1>10, <1>11 DEF Next

\* IInv is an inductive invariant of the download: mapBlocksInFlight and the
\* queues agree, the counters of CNodeState and of the file are exact, and a
\* CNodeState exists exactly from InitializeNode to FinalizeNode.
THEOREM Invariance == Spec => []IInv
BY InitIInv, NextIInv, PTL DEF Spec

\* Every block in flight is queued once, at the peer it was asked of, and that
\* peer has a CNodeState: MarkBlockAsReceived and the stalling code never
\* dereference a state that FinalizeNode has erased.
THEOREM InFlightQueued == Spec => []InFlightIsQueued
<1>1. IInv => InFlightIsQueued
    BY DEF IInv, StateInv, Queued, QueueOK, HasOwner, InFlightIsQueued
<1> QED  BY <1>1, Invariance, PTL

\* nSyncStarted, nPreferredDownload and nPeersWithValidatedDownloads count what
\* they say, so the assertions at the end of FinalizeNode hold.
THEOREM CountersAreExact == Spec => []CountersExact
<1>1. IInv => CountersExact
    <2> SUFFICES ASSUME IInv PROVE CountersExact
        OBVIOUS
    <2>1. \A p \in DOMAIN st.node :
            Validated(st.node[p]) # {} <=>
              \E e \in Range(st.node[p].vBlocksInFlight) : e.fValidatedHeaders
        BY DEF Validated
    <2>2. Downloading(st) = {p \in DOMAIN st.node :
              \E e \in Range(st.node[p].vBlocksInFlight) : e.fValidatedHeaders}
        BY <2>1 DEF Downloading
    <2> QED  BY <2>2 DEF IInv, StateInv, CountersExact, Syncing, PreferredNodes
<1> QED  BY <1>1, Invariance, PTL

\* Only a peer that owes a block has its stalling clock running, so SendMessages
\* disconnects no other as a staller.
THEOREM StallersOwe == Spec => []StallersOweBlocks
<1>1. IInv => StallersOweBlocks
    BY DEF IInv, StateInv, NodeOK, StallersOweBlocks
<1> QED  BY <1>1, Invariance, PTL
=============================================================================

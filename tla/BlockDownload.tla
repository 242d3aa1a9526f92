---------------------------- MODULE BlockDownload ----------------------------
(***************************************************************************)
(* Headers synchronisation and block download, from                        *)
(* src/src/net_processing.cpp: which peer is asked for which block, and    *)
(* how peers that do not answer are found and dropped.                     *)
(*                                                                         *)
(* st holds what that file keeps under cs_main: mapNodeState (node),       *)
(* mapBlocksInFlight (inFlight) and its three counters.  One thread,       *)
(* ThreadMessageHandler, runs ProcessMessages and SendMessages for every   *)
(* peer in turn; FinalizeNode runs in the socket thread.  Each handler is  *)
(* one action.                                                             *)
(*                                                                         *)
(* Blocks form a tree below Genesis, all valid and of the same work, so    *)
(* the work of a chain is its height.  Times are kept as ages, in ticks of *)
(* the clock: 0 is now.  A block or header is recent or old: the code's    *)
(* limits on its time (20 block spacings, 6 hours, 24 hours, MaxTipAge)    *)
(* are not told apart.  A peer is a NodeId, so it connects once; it serves *)
(* the chain that ends in PeerTip.  Honest peers answer within a tick and  *)
(* stay; the others may do so late, or never.  Ban scores, rejects and     *)
(* the relay of blocks to peers are left out.                              *)
(***************************************************************************)
EXTENDS Integers, Sequences, FiniteSets, FiniteSetsExt, Functions

CONSTANTS
    vNodes,               \* the peers, in the order they are served
    Honest,
    Preferred,            \* outbound or whitelisted peers
    Whitelisted,
    PeerTip,
    Announced, Pushed,    \* the blocks p announces, and those it sends unasked
    Genesis,
    PathTo,               \* PathTo[b]: the chain of blocks after Genesis that ends in b
    Recent,               \* the blocks with a recent time stamp
    None,
    MAX_HEADERS_RESULTS,
    MAX_BLOCKS_IN_TRANSIT_PER_PEER,
    BLOCK_DOWNLOAD_WINDOW,
    BLOCK_STALLING_TIMEOUT,
    BLOCK_DOWNLOAD_TIMEOUT_BASE, BLOCK_DOWNLOAD_TIMEOUT_PER_PEER,
    HEADERS_DOWNLOAD_TIMEOUT

Peers == Range(vNodes)
Blocks == DOMAIN PathTo

ASSUME TreeAssumption ==
    /\ Genesis \in Blocks /\ None \notin Blocks
    /\ PathTo \in [Blocks -> Seq(Blocks)] /\ PathTo[Genesis] = << >>
    /\ \A b \in Blocks \ {Genesis} : PathTo[b] # << >> /\ PathTo[b][Len(PathTo[b])] = b
    /\ \A b \in Blocks : \A i \in DOMAIN PathTo[b] :
          PathTo[PathTo[b][i]] = SubSeq(PathTo[b], 1, i)

ASSUME PeersAssumption ==
    /\ vNodes \in Seq(Peers) /\ vNodes # << >>
    /\ Honest \subseteq Peers /\ PeerTip \in [Peers -> Blocks]
    /\ Announced \in [Peers -> SUBSET Blocks] /\ Pushed \in [Peers -> SUBSET Blocks]

ASSUME LimitsAssumption ==
    /\ MAX_HEADERS_RESULTS \in Nat \ {0} /\ MAX_BLOCKS_IN_TRANSIT_PER_PEER \in Nat
    /\ BLOCK_DOWNLOAD_WINDOW \in Nat /\ BLOCK_STALLING_TIMEOUT \in Nat
    /\ BLOCK_DOWNLOAD_TIMEOUT_BASE \in Nat /\ BLOCK_DOWNLOAD_TIMEOUT_PER_PEER \in Nat
    /\ HEADERS_DOWNLOAD_TIMEOUT \in Nat

VARIABLES
    st,
    phase,                \* of a connection: none, init, version, up, closing, gone
    index,                \* mapBlockIndex
    pindexBestHeader,
    data,                 \* the blocks with BLOCK_HAVE_DATA
    tip,                  \* chainActive.Tip()
    lockIBDState,         \* initial block download is over for good
    getheaders, getdata,  \* requests a peer has not answered
    fromINV,              \* vBlockHashesFromINV
    turn,                 \* the peer ThreadMessageHandler serves next
    late                  \* honest peers that sent no block since the last tick

vars == <<st, phase, index, pindexBestHeader, data, tip, lockIBDState,
          getheaders, getdata, fromINV, turn, late>>

chainVars == <<index, pindexBestHeader, data, tip, lockIBDState>>
requests == <<getheaders, getdata, fromINV>>

-----------------------------------------------------------------------------
(* The block tree. *)

Height(b) == Len(PathTo[b])
GetAncestor(b, h) == IF h = 0 THEN Genesis ELSE PathTo[b][h]
Prev(b) == GetAncestor(b, Height(b) - 1)
IsAncestor(a, b) == Height(a) <= Height(b) /\ GetAncestor(b, Height(a)) = a

LastCommonAncestor(a, b) ==
    GetAncestor(a, Max({h \in 0 .. Min({Height(a), Height(b)}) :
                          GetAncestor(a, h) = GetAncestor(b, h)}))

\* pindex->nChainTx: the block and all its ancestors have been received.
HaveChainTx(b) == Range(PathTo[b]) \subseteq data

-----------------------------------------------------------------------------
(* Requests for blocks. *)

\* CNodeState.  downloading and stalling are the ages of nDownloadingSince and
\* nStallingSince (None: 0), headers that of nHeadersSyncTimeout (None: the
\* timeout is off).
CNodeState ==
    [fPreferredDownload |-> FALSE, fSyncStarted |-> FALSE, headers |-> None,
     best |-> None, unknown |-> None, common |-> None,
     vBlocksInFlight |-> << >>, nBlocksInFlightValidHeaders |-> 0,
     downloading |-> 0, stalling |-> None]

One(b) == IF b THEN 1 ELSE 0

\* MarkBlockAsReceived: the last validated block of the peer's queue went, so
\* it is not counted any more; and it stalls nobody any more.
AnyLast(n, e) == n = 0

LastValidated(n, e) == n = 0 /\ e.fValidatedHeaders

KeepStalling(age) == age

StallingEnds(age) == None

\* The download clock, of this age, when the i-th block of the queue arrives: the
\* next block is now the first.
KeepsRunning(i, age) == age

Restarted(i, age) == IF i = 1 THEN 0 ELSE age

\* list::erase of the i-th entry of a queue.
Erase(q, i) == SubSeq(q, 1, i - 1) \o SubSeq(q, i + 1, Len(q))

MarkBlockAsReceived(s, b) ==
    IF b \notin DOMAIN s.inFlight THEN s
    ELSE LET p == s.inFlight[b]
             state == s.node[p]
             q == state.vBlocksInFlight
             i == CHOOSE j \in DOMAIN q : q[j].hash = b
             n == state.nBlocksInFlightValidHeaders - One(q[i].fValidatedHeaders)
         IN  [s EXCEPT
                !.node[p] =
                    [state EXCEPT !.vBlocksInFlight = Erase(q, i),
                                  !.nBlocksInFlightValidHeaders = n,
                                  !.downloading = Restarted(i, state.downloading),
                                  !.stalling = StallingEnds(state.stalling)],
                !.nPeersWithValidatedDownloads = @ - One(LastValidated(n, q[i])),
                !.inFlight = [c \in DOMAIN @ \ {b} |-> @[c]]]

\* MarkBlockAsInFlight.
MarkBlockAsInFlight(s, p, b, fValidatedHeaders) ==
    LET r == MarkBlockAsReceived(s, b)
        state == r.node[p]
        q == state.vBlocksInFlight
        n == state.nBlocksInFlightValidHeaders + One(fValidatedHeaders)
    IN  [r EXCEPT
           !.node[p] =
               [state EXCEPT
                  !.vBlocksInFlight =
                      Append(q, [hash |-> b, fValidatedHeaders |-> fValidatedHeaders]),
                  !.nBlocksInFlightValidHeaders = n,
                  !.downloading = IF q = << >> THEN 0 ELSE state.downloading],
           !.nPeersWithValidatedDownloads = @ + One(n = 1 /\ fValidatedHeaders),
           !.inFlight = [c \in DOMAIN @ \cup {b} |-> IF c = b THEN p ELSE @[c]]]

\* ProcessBlockAvailability and UpdateBlockAvailability, when mapBlockIndex is idx.
BetterOf(known, b) ==
    IF known = None THEN b ELSE IF Height(b) >= Height(known) THEN b ELSE known

ProcessBlockAvailability(s, p, idx) ==
    IF s.node[p].unknown \in idx
    THEN [s EXCEPT !.node[p].best = BetterOf(@, s.node[p].unknown),
                   !.node[p].unknown = None]
    ELSE s

UpdateBlockAvailability(s, p, b, idx) ==
    LET r == ProcessBlockAvailability(s, p, idx)
    IN  IF b \in idx THEN [r EXCEPT !.node[p].best = BetterOf(@, b)]
        ELSE [r EXCEPT !.node[p].unknown = b]

\* How many more blocks p may be asked for.
RoomFor(s, p) == MAX_BLOCKS_IN_TRANSIT_PER_PEER - Len(s.node[p].vBlocksInFlight)

\* FindNextBlocksToDownload: w holds the blocks to ask p for, the new
\* pindexLastCommonBlock and the peer that holds up the window, as far as the
\* walk along p's chain has come; b is the next block.
Walk(s, p, nWindowEnd, w, b) ==
    IF w.done THEN w
    ELSE IF b \in data \/ IsAncestor(b, tip)
    THEN [w EXCEPT !.common = IF HaveChainTx(b) THEN b ELSE @]
    ELSE IF b \in DOMAIN s.inFlight
    THEN [w EXCEPT !.waitingfor = IF @ = None THEN s.inFlight[b] ELSE @]
    ELSE IF Height(b) > nWindowEnd
    THEN [w EXCEPT !.done = TRUE,
                   !.staller = IF w.blocks = << >> /\ w.waitingfor # p
                               THEN w.waitingfor ELSE @]
    ELSE [w EXCEPT !.blocks = Append(@, b),
                   !.done = Len(w.blocks) + 1 = RoomFor(s, p)]

\* Where the walk starts: at the last block that p and the active chain share.
LastCommonBlock(n) ==
    LastCommonAncestor(IF n.common # None THEN n.common
                       ELSE GetAncestor(tip, Min({Height(n.best), Height(tip)})), n.best)

StartAt(c) == [common |-> c, blocks |-> << >>, waitingfor |-> None,
               staller |-> None, done |-> FALSE]

FindNextBlocksToDownload(s, p) ==
    LET n == s.node[p]
        fork == LastCommonBlock(n)
        nWindowEnd == Height(fork) + BLOCK_DOWNLOAD_WINDOW
        path == SubSeq(PathTo[n.best], Height(fork) + 1,
                       Min({Height(n.best), nWindowEnd + 1}))
        walk[i \in 0 .. Len(path)] ==
            IF i = 0 THEN StartAt(fork) ELSE Walk(s, p, nWindowEnd, walk[i - 1], path[i])
    IN  IF n.best = None \/ Height(n.best) < Height(tip) THEN StartAt(n.common)
        ELSE walk[Len(path)]

-----------------------------------------------------------------------------
(* Connections. *)

Init ==
    /\ st = [node |-> << >>, inFlight |-> << >>, nSyncStarted |-> 0,
             nPreferredDownload |-> 0, nPeersWithValidatedDownloads |-> 0]
    /\ phase = [p \in Peers |-> "none"]
    /\ index = {Genesis} /\ pindexBestHeader = Genesis
    /\ data = {} /\ tip = Genesis /\ lockIBDState = FALSE
    /\ getheaders = [p \in Peers |-> << >>]
    /\ getdata = [p \in Peers |-> << >>]
    /\ fromINV = [p \in Peers |-> << >>]
    /\ turn = vNodes[1] /\ late = {}

InitializeNode(p) ==
    /\ phase[p] = "none"
    /\ phase' = [phase EXCEPT ![p] = "init"]
    /\ st' = [st EXCEPT !.node = [q \in DOMAIN @ \cup {p} |->
                                    IF q = p THEN CNodeState ELSE @[q]]]
    /\ UNCHANGED <<chainVars, requests, turn, late>>

\* The VERSION message: UpdatePreferredDownload.
Version(p) ==
    /\ phase[p] = "init"
    /\ phase' = [phase EXCEPT ![p] = "version"]
    /\ st' = [st EXCEPT !.node[p].fPreferredDownload = p \in Preferred,
                        !.nPreferredDownload =
                            @ - One(st.node[p].fPreferredDownload) + One(p \in Preferred)]
    /\ UNCHANGED <<chainVars, requests, turn, late>>

\* The VERACK message.
Verack(p) ==
    /\ phase[p] = "version"
    /\ phase' = [phase EXCEPT ![p] = "up"]
    /\ UNCHANGED <<st, chainVars, requests, turn, late>>

\* A peer that is not honest, or the network, closes the connection.
Disconnect(p) ==
    /\ p \notin Honest
    /\ phase[p] \in {"init", "version", "up"}
    /\ phase' = [phase EXCEPT ![p] = "closing"]
    /\ UNCHANGED <<st, chainVars, requests, turn, late>>

\* FinalizeNode: the blocks it forgets, and the state it leaves.
NoneErased(p) == {}

Erased(p) == {e.hash : e \in Range(st.node[p].vBlocksInFlight)}

WithoutNode(p) ==
    [st EXCEPT !.node = [q \in DOMAIN @ \ {p} |-> @[q]],
               !.inFlight = [b \in DOMAIN @ \ Erased(p) |-> @[b]],
               !.nSyncStarted = @ - One(st.node[p].fSyncStarted),
               !.nPreferredDownload = @ - One(st.node[p].fPreferredDownload),
               !.nPeersWithValidatedDownloads =
                   @ - One(st.node[p].nBlocksInFlightValidHeaders # 0)]

FinalizeNode(p) ==
    /\ phase[p] = "closing"
    /\ phase' = [phase EXCEPT ![p] = "gone"]
    /\ st' = WithoutNode(p)
    /\ getheaders' = [getheaders EXCEPT ![p] = << >>]
    /\ getdata' = [getdata EXCEPT ![p] = << >>]
    /\ fromINV' = [fromINV EXCEPT ![p] = << >>]
    /\ UNCHANGED <<chainVars, turn, late>>

-----------------------------------------------------------------------------
(* ProcessMessage.  The handlers want no more than a VERSION message. *)

AfterVersion(p) == phase[p] \in {"version", "up"}

\* AddToBlockIndex of headers that follow each other.
AddToBlockIndex(hs) ==
    /\ index' = index \cup Range(hs)
    /\ pindexBestHeader' = IF hs = << >> \/ Height(hs[Len(hs)]) <= Height(pindexBestHeader)
                           THEN pindexBestHeader ELSE hs[Len(hs)]

\* An INV with a block (bound: not again while the
\* GETHEADERS that the first one caused is open).
Inv(p, b) ==
    LET s == UpdateBlockAvailability(st, p, b, index)
        ask == b \notin index /\ b \notin DOMAIN st.inFlight
        delay == pindexBestHeader \notin Recent
        direct == /\ tip \in Recent
                  /\ RoomFor(s, p) > 0
    IN  /\ AfterVersion(p)
        /\ b \notin Range(fromINV[p]) \cup {m.stop : m \in Range(getheaders[p])}
        /\ st' = IF ask /\ ~delay /\ direct
                 THEN MarkBlockAsInFlight(s, p, b, FALSE) ELSE s
        /\ fromINV' = IF ask /\ delay THEN [fromINV EXCEPT ![p] = Append(@, b)]
                      ELSE fromINV
        /\ getheaders' = IF ask /\ ~delay
                         THEN [getheaders EXCEPT ![p] =
                                 Append(@, [start |-> pindexBestHeader, stop |-> b])]
                         ELSE getheaders
        /\ getdata' = IF ask /\ ~delay /\ direct
                      THEN [getdata EXCEPT ![p] = Append(@, b)] ELSE getdata
        /\ UNCHANGED <<phase, chainVars, turn, late>>

\* The blocks of path that are not in B, in their order.
Without(path, B) ==
    LET rest[i \in 0 .. Len(path)] ==
            IF i = 0 THEN << >>
            ELSE IF path[i] \in B THEN rest[i - 1] ELSE Append(rest[i - 1], path[i])
    IN  rest[Len(path)]

\* The direct fetch at the end of the HEADERS handler: the blocks to ask for
\* on the way to last.
DirectFetch(s, p, last) ==
    LET fork == LastCommonAncestor(last, tip)
        path == SubSeq(PathTo[last], Height(fork) + 1, Height(last))
        missing == Without(path, data \cup DOMAIN s.inFlight)
        reached == \/ Len(missing) <= MAX_BLOCKS_IN_TRANSIT_PER_PEER
                   \/ /\ Len(missing) = MAX_BLOCKS_IN_TRANSIT_PER_PEER + 1
                      /\ missing[1] = path[1]
    IN  IF tip \in Recent /\ Height(tip) <= Height(last) /\ reached
        THEN SubSeq(missing, 1, Min({RoomFor(s, p), Len(missing)})) ELSE << >>

\* MarkBlockAsInFlight of every block of bs, and the GETDATA for them.
Request(s, p, bs) ==
    LET asked[i \in 0 .. Len(bs)] ==
            IF i = 0 THEN s ELSE MarkBlockAsInFlight(asked[i - 1], p, bs[i], TRUE)
    IN  asked[Len(bs)]

\* A HEADERS message, after which the requests pending are still open.
Headers(p, hs, pending) ==
    LET last == hs[Len(hs)]
        idx == index \cup Range(hs)
        s == IF hs = << >> THEN st ELSE UpdateBlockAvailability(st, p, last, idx)
        full == Len(hs) = MAX_HEADERS_RESULTS
        bad == ~full /\ pindexBestHeader' \notin Recent
        fetch == IF bad \/ hs = << >> THEN << >> ELSE DirectFetch(s, p, last)
    IN  IF hs # << >> /\ Prev(hs[1]) \notin index
        THEN /\ getheaders' = [getheaders EXCEPT ![p] = pending]
             /\ UNCHANGED <<st, phase, chainVars, getdata, fromINV, turn, late>>
        ELSE /\ AddToBlockIndex(hs)
             /\ phase' = IF bad THEN [phase EXCEPT ![p] = "closing"] ELSE phase
             /\ st' = Request(s, p, fetch)
             /\ getheaders' = [getheaders EXCEPT ![p] =
                    IF full THEN Append(pending, [start |-> last, stop |-> None])
                    ELSE pending]
             /\ getdata' = [getdata EXCEPT ![p] = @ \o fetch]
             /\ UNCHANGED <<data, tip, lockIBDState, fromINV, turn, late>>

\* What p answers to a GETHEADERS: external, as this program would.
Response(p, m) ==
    LET path == PathTo[PeerTip[p]]
        from == Height(LastCommonAncestor(m.start, PeerTip[p])) + 1
        to == IF m.stop \in Range(SubSeq(path, from, Len(path)))
              THEN Height(m.stop) ELSE Len(path)
    IN  SubSeq(path, from, Min({to, from + MAX_HEADERS_RESULTS - 1}))

AnswerGetHeaders(p) ==
    /\ AfterVersion(p)
    /\ getheaders[p] # << >>
    /\ Headers(p, Response(p, Head(getheaders[p])), Tail(getheaders[p]))

\* The announcement of a block with a HEADERS message.
Announce(p, b) ==
    /\ AfterVersion(p)
    /\ Headers(p, <<b>>, getheaders[p])

\* ActivateBestChain, with the blocks received in d: the tip moves to a chain
\* of more work.
ActivateBestChain(d) ==
    LET complete == {b \in d : Range(PathTo[b]) \subseteq d} \cup {tip}
        most == Max({Height(b) : b \in complete})
    IN  /\ tip' \in IF Height(tip) = most THEN {tip}
                    ELSE {b \in complete : Height(b) = most}
        /\ lockIBDState' = (lockIBDState \/ tip' \in Recent)

\* A BLOCK message, and AcceptBlock.
Block(p, b) ==
    LET requested == b \in DOMAIN st.inFlight \/ (p \in Whitelisted /\ lockIBDState)
        store == b \notin data /\ (requested \/ Height(b) > Height(tip))
    IN  /\ AfterVersion(p)
        /\ st' = MarkBlockAsReceived(st, b)
        /\ getdata' = [getdata EXCEPT ![p] = Without(@, {b})]
        /\ late' = IF b \in Range(getdata[p]) THEN late \ {p} ELSE late
        /\ IF Prev(b) \notin index THEN UNCHANGED chainVars
           ELSE /\ AddToBlockIndex(<<b>>)
                /\ data' = IF store THEN data \cup {b} ELSE data
                /\ ActivateBestChain(data')
        /\ UNCHANGED <<phase, getheaders, fromINV, turn>>

\* What p may send of the blocks it was asked for: an honest peer keeps to the
\* order of the requests.
Delivered(p) ==
    IF p \in Honest THEN {getdata[p][i] : i \in DOMAIN getdata[p] \cap {1}}
    ELSE Range(getdata[p])

-----------------------------------------------------------------------------
(* SendMessages. *)

\* "Start block sync": ask one peer for headers, or all once nearly synced.
StartSync(s, p) ==
    LET fFetch == s.node[p].fPreferredDownload \/ s.nPreferredDownload = 0
    IN  IF /\ ~s.node[p].fSyncStarted
           /\ (s.nSyncStarted = 0 /\ fFetch) \/ pindexBestHeader \in Recent
        THEN [s EXCEPT !.node[p].fSyncStarted = TRUE, !.node[p].headers = 0,
                       !.nSyncStarted = @ + 1]
        ELSE s

\* The GETHEADERS of SendMessages: the initial one, from the block before the
\* best header, then those that INVs had to wait for.
NewGetHeaders(s, p) ==
    LET start == IF pindexBestHeader = Genesis THEN Genesis ELSE Prev(pindexBestHeader)
        initial == IF s.node[p].fSyncStarted /\ ~st.node[p].fSyncStarted
                   THEN <<[start |-> start, stop |-> None]>> ELSE << >>
        delayed == IF pindexBestHeader \in Recent THEN fromINV[p] ELSE << >>
    IN  initial \o [i \in DOMAIN delayed |->
                      [start |-> pindexBestHeader, stop |-> delayed[i]]]

\* The peer holds up the window of all others, or its first block in flight
\* takes too long, with allowance for the other peers we download from.
Stalls(s, p) == s.node[p].stalling # None /\ s.node[p].stalling > BLOCK_STALLING_TIMEOUT

NoTimeout(s, p) == FALSE

DownloadTimedOut(s, p) ==
    LET n == s.node[p]
        others == s.nPeersWithValidatedDownloads - One(n.nBlocksInFlightValidHeaders > 0)
    IN  /\ n.vBlocksInFlight # << >>
        /\ n.downloading > BLOCK_DOWNLOAD_TIMEOUT_BASE
                             + BLOCK_DOWNLOAD_TIMEOUT_PER_PEER * others

\* The only peer we sync headers with takes too long and there are others.
HeadersTimedOut(s, p) ==
    /\ s.node[p].fSyncStarted /\ s.node[p].headers # None
    /\ pindexBestHeader \notin Recent
    /\ s.node[p].headers > HEADERS_DOWNLOAD_TIMEOUT
    /\ s.nSyncStarted = 1
    /\ s.nPreferredDownload - One(s.node[p].fPreferredDownload) >= 1

\* A whitelisted peer is not dropped: headers may be asked for elsewhere.
HeadersSyncTimeout(s, p) ==
    IF HeadersTimedOut(s, p) /\ p \in Whitelisted
    THEN [s EXCEPT !.node[p].fSyncStarted = FALSE, !.node[p].headers = None,
                   !.nSyncStarted = @ - 1]
    ELSE IF s.node[p].fSyncStarted /\ pindexBestHeader \in Recent
    THEN [s EXCEPT !.node[p].headers = None]
    ELSE s

\* "getdata (blocks)": the state with the blocks requested and, if p gets
\* none because of another peer, with that peer's stalling clock started.
FetchBlocks(s, p, found) ==
    LET r == Request([s EXCEPT !.node[p].common = found.common], p, found.blocks)
        w == found.staller
    IN  IF /\ r.node[p].vBlocksInFlight = << >> /\ w # None
           /\ r.node[w].stalling = None
        THEN [r EXCEPT !.node[w].stalling = 0] ELSE r

SendMessages(p) ==
    LET s1 == ProcessBlockAvailability(StartSync(st, p), p, index)
        s2 == HeadersSyncTimeout(s1, p)
        drop == \/ Stalls(s1, p) \/ DownloadTimedOut(s1, p)
                \/ HeadersTimedOut(s1, p) /\ p \notin Whitelisted
        fFetch == s1.node[p].fPreferredDownload \/ s1.nPreferredDownload = 0
        fetch == ~drop /\ (fFetch \/ lockIBDState) /\ RoomFor(s2, p) > 0
        found == FindNextBlocksToDownload(s2, p)
    IN  /\ phase' = IF drop THEN [phase EXCEPT ![p] = "closing"] ELSE phase
        /\ st' = IF fetch THEN FetchBlocks(s2, p, found) ELSE s2
        /\ getheaders' = [getheaders EXCEPT ![p] = @ \o NewGetHeaders(s1, p)]
        /\ fromINV' = IF pindexBestHeader \in Recent
                      THEN [fromINV EXCEPT ![p] = << >>] ELSE fromINV
        /\ getdata' = IF fetch THEN [getdata EXCEPT ![p] = @ \o found.blocks]
                      ELSE getdata

NextTurn ==
    LET i == CHOOSE j \in DOMAIN vNodes : vNodes[j] = turn
    IN  turn' = vNodes[(i % Len(vNodes)) + 1]

\* ThreadMessageHandler comes to p, the next peer of the round: SendMessages, if
\* the handshake is complete ...
Serve(p) ==
    /\ turn = p /\ phase[p] = "up"
    /\ SendMessages(p)
    /\ NextTurn
    /\ UNCHANGED <<chainVars, late>>

\* ... or nothing, if it is not, or if another thread holds cs_vSend or cs_main.
PassOver(p) ==
    /\ turn = p
    /\ NextTurn
    /\ UNCHANGED <<st, phase, chainVars, requests, late>>

ThreadMessageHandler == \E p \in Peers : Serve(p) \/ PassOver(p)

\* The clock.  Honest peers send headers at once, and a block that they were
\* asked for in every tick; ages are capped where they make no more difference.
Older(age, timeout) == IF age = None THEN None ELSE Min({age, timeout}) + 1

\* p owes us no answer.
Answered(p) == AfterVersion(p) => getheaders[p] = << >> /\ getdata[p] = << >>

Tick ==
    /\ \A h \in Honest : getheaders[h] = << >> /\ (Answered(h) \/ h \notin late)
    /\ st' = [st EXCEPT !.node = [p \in DOMAIN st.node |->
                [st.node[p] EXCEPT
                   !.stalling = Older(@, BLOCK_STALLING_TIMEOUT),
                   !.headers = Older(@, HEADERS_DOWNLOAD_TIMEOUT),
                   !.downloading =
                       IF st.node[p].vBlocksInFlight = << >> THEN 0
                       ELSE Older(@, BLOCK_DOWNLOAD_TIMEOUT_BASE
                              + BLOCK_DOWNLOAD_TIMEOUT_PER_PEER * (Cardinality(Peers) - 1))]]]
    /\ late' = {h \in Honest : ~Answered(h)}
    /\ UNCHANGED <<phase, chainVars, requests, turn>>

-----------------------------------------------------------------------------

Next ==
    \/ Tick
    \/ ThreadMessageHandler
    \/ \E p \in Peers :
          \/ InitializeNode(p)
          \/ Version(p)
          \/ Verack(p)
          \/ Disconnect(p)
          \/ FinalizeNode(p)
          \/ AnswerGetHeaders(p)
          \/ \E b \in Announced[p] : Announce(p, b) \/ Inv(p, b)
          \/ \E b \in Delivered(p) \cup Pushed[p] : Block(p, b)

Spec == Init /\ [][Next]_vars

\* The message handler comes to every peer again and again, and does not find
\* the locks of SendMessages taken each time; the socket thread finalizes closed
\* connections, time passes, honest peers connect, and again and again they
\* have answered all that they were asked.
Fairness ==
    /\ WF_vars(Tick)
    /\ \A p \in Peers :
          /\ []<>(turn = p)
          /\ []<>(phase[p] = "up") => []<><<Serve(p)>>_vars
          /\ WF_vars(FinalizeNode(p))
    /\ \A h \in Honest :
          /\ WF_vars(InitializeNode(h)) /\ WF_vars(Version(h)) /\ WF_vars(Verack(h))
          /\ []<>Answered(h)

FairSpec == Spec /\ Fairness

-----------------------------------------------------------------------------

\* mapBlocksInFlight and the queues of the peers agree: every block in flight
\* is queued once, at the peer it was asked of, and that peer still has a
\* CNodeState.  MarkBlockAsReceived (272-292) and the stalling code (2688)
\* dereference State() of that peer without a check.
InFlightIsQueued ==
    /\ \A p \in DOMAIN st.node : \A i, j \in DOMAIN st.node[p].vBlocksInFlight :
          LET q == st.node[p].vBlocksInFlight
          IN  /\ q[i].hash \in DOMAIN st.inFlight /\ st.inFlight[q[i].hash] = p
              /\ i # j => q[i].hash # q[j].hash
    /\ \A b \in DOMAIN st.inFlight :
          /\ st.inFlight[b] \in DOMAIN st.node
          /\ \E e \in Range(st.node[st.inFlight[b]].vBlocksInFlight) : e.hash = b

\* The three counters that steer the download count what they say, whatever
\* the order of requests, answers and disconnections; so the assertions of
\* FinalizeNode (258, 262-267) hold.
CountersExact ==
    LET count(P(_)) == Cardinality({p \in DOMAIN st.node : P(st.node[p])})
    IN  /\ st.nSyncStarted = count(LAMBDA n : n.fSyncStarted)
        /\ st.nPreferredDownload = count(LAMBDA n : n.fPreferredDownload)
        /\ st.nPeersWithValidatedDownloads =
               count(LAMBDA n : \E e \in Range(n.vBlocksInFlight) : e.fValidatedHeaders)

\* A peer whose stalling clock runs owes us a block, so only such a peer is
\* disconnected as a staller (2619-2625).
StallersOweBlocks ==
    \A p \in DOMAIN st.node :
        st.node[p].stalling # None => st.node[p].vBlocksInFlight # << >>

\* An honest peer is never dropped: no timeout of SendMessages, and neither
\* the HEADERS handler, mistakes it for one that does not answer.
HonestPeersStay == \A h \in Honest : phase[h] \notin {"closing", "gone"}

\* The chain of an honest peer is downloaded in the end, though other peers
\* answer late, take requests and never answer, or leave: their requests time
\* out and are given to someone else.  The exception is a peer that has sent
\* VERSION but never sends VERACK.  Its announcements are handled and it is asked
\* for blocks, but SendMessages, which holds every timeout of a request, returns
\* at once for it (2320), and net.cpp (1371-1393) drops only a silent connection:
\* what such a peer is asked for it may hold for as long as it goes on talking.
HoldsWithoutVerack(p) ==
    phase[p] = "version" /\ st.node[p].vBlocksInFlight # << >>

SyncCompletes ==
    \/ <>(\A h \in Honest : Height(tip) >= Height(PeerTip[h]))
    \/ \E p \in Peers : <>[]HoldsWithoutVerack(p)
=============================================================================

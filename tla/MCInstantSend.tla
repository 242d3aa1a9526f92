---------------------------- MODULE MCInstantSend ----------------------------
(* Model-checking instances of InstantSend. *)
EXTENDS InstantSend, TLC

CONSTANTS A, B, o1, o2, m1, m2, m3

V(t, o, m) == [tx |-> t, out |-> o, mn |-> m]

\* A and B both spend o1; B also spends o2.
TwoVin == A :> <<o1>> @@ B :> <<o2, o1>>
AllRank == [o \in Outpoints |-> Masternodes]

\* m2 votes for A on o1 and for B on o2; m3 votes for both on o1, and for A on
\* o2, which A does not spend.
SplitVotes == {V(A, o1, m2), V(B, o2, m2), V(A, o1, m3), V(B, o1, m3), V(A, o2, m3)}

\* m1 may vote on o1 only, and m3 votes for B: where one signature suffices,
\* both A and B can be locked.
SomeRank == o1 :> {m1, m3} @@ o2 :> {m3}
RivalVotes == {V(B, o1, m3), V(B, o2, m3)}

\* No rare event, one restart, or up to two rare events.  A restart forgets every
\* height and time that was noted: it comes alone or with an eviction.
None == {}
OneRestart == {<<0, 0, 1, 0>>}
Two == {<<e, u, r, n>> \in (0..2) \X (0..2) \X (0..1) \X (0..2) :
          e + u + r + n <= 2 /\ (r = 0 \/ u + n = 0)}

\* Both spend o1 only.
OneVin == A :> <<o1>> @@ B :> <<o1>>
RaceVotes == {V(A, o1, m2), V(A, o1, m3), V(B, o1, m3)}
=============================================================================

-------------------------- MODULE MCBlockDownload --------------------------
(* Model-checking instance of BlockDownload: an honest peer h and a peer f
   that may do anything the protocol allows.  h has b1, b2, b3; f has a branch
   of its own from b1.  *)
EXTENDS BlockDownload, TLC

CONSTANTS h, f, g, b1, b2, b3, c2

Order == <<h, f>>
Tree == g :> << >> @@ b1 :> <<b1>> @@ b2 :> <<b1, b2>> @@ b3 :> <<b1, b2, b3>>
          @@ c2 :> <<b1, c2>>
Tips == h :> b3 @@ f :> c2
Announcements == h :> {} @@ f :> {b3}
=============================================================================

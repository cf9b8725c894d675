---------------------------- MODULE MCShimChild ----------------------------
(* Two clients of ShimChild and the ids they may have chosen.              *)
EXTENDS ShimChild, TLC

CONSTANTS r1, r2, id1, id2

MCRequests == {r1, r2}

DistinctIds     == r1 :> id1 @@ r2 :> id2
NullAndOwnId    == r1 :> NullId @@ r2 :> id2
NullAndNoId     == r1 :> NullId @@ r2 :> NoId
SameId          == r1 :> id1 @@ r2 :> id1
OneUsesOne      == r1 :> HandshakeId @@ r2 :> id2
=============================================================================

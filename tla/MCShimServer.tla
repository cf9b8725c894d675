---------------------------- MODULE MCShimServer ----------------------------
(* Clients of ShimServer that send any of a set of requests.               *)
EXTENDS ShimServer

CONSTANTS r1, r2

Clean == [faults : {{}}, kind : Kinds]

\* Two faults each, so that the order of the gates shows.
Faulty == [faults : {{"auth", "json"}, {"size", "json"}, {"path", "method"}},
           kind : {"call"}]

AnyShape == Clean \cup Faulty
Notifications == {[faults |-> {}, kind |-> "notification"]}
=============================================================================

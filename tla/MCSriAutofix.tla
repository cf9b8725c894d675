---------------------------- MODULE MCSriAutofix ----------------------------
(* Checks of a site with one or two CDN packages: by one client, with outages, *)
(* releases, other builds and a crash, or by two at once with failing writes.  *)
EXTENDS SriAutofix, TLC

CONSTANTS c1, c2, p1, p2

CheckersAlike == Permutations({c1, c2})

FourVersions == {<<1, 0>>, <<1, 1>>, <<1, 2>>, <<2, 0>>}

Site(packages) == [p \in packages |-> <<1, 0>>]

OneClient(c) ==
    [installed |-> Site({p1, p2}), latest |-> {<<1, 0>>, <<1, 1>>, <<2, 0>>},
     happens |-> {"outages", "buildsFail", "rebuilds"},
     clients |-> {c}, crashes |-> 1, releases |-> 1]

TwoClients ==
    [installed |-> Site({p1}), latest |-> {<<1, 1>>, <<2, 0>>},
     happens |-> {"writesFail", "buildsFail"},
     clients |-> {c1, c2}, crashes |-> 0, releases |-> 0]

OneOrTwo == {TwoClients} \cup {OneClient(c) : c \in {c1, c2}}
=============================================================================

---------------------------- MODULE SriContract -----------------------------
(***************************************************************************)
(* What an autofix promises about the two data files of a site: the        *)
(* version file and the hash file change together, in one step, or not at  *)
(* all; a package only moves forward within its major version, and its     *)
(* hash moves along with it.                                               *)
(***************************************************************************)
LOCAL INSTANCE Naturals

CONSTANTS Packages, Versions  \* a version is <<major, minor>>

VARIABLES cdn,  \* package |-> version
          sri   \* <<package, version>> |-> "good" or "bad"

Upgrade(v, w) == v[1] = w[1] /\ v[2] < w[2]

Init == /\ DOMAIN cdn \subseteq Packages
        /\ \A u \in DOMAIN sri : u \in Packages \X Versions

\* The hashes once the packages of `to` have moved to the versions it gives:
\* a moved entry holds the hash of what the new address serves.
Moved(to) ==
    LET stale == {u \in DOMAIN sri : u[1] \in DOMAIN to /\ u[2] = cdn[u[1]]}
        fresh == {<<u[1], to[u[1]]>> : u \in stale}
    IN  [u \in fresh \cup (DOMAIN sri \ stale) |-> IF u \in fresh THEN "good" ELSE sri[u]]

Fix == \E moved \in (SUBSET DOMAIN cdn) \ {{}} : \E to \in [moved -> Versions] :
           /\ \A p \in moved : Upgrade(cdn[p], to[p])
           /\ cdn' = [p \in DOMAIN cdn |-> IF p \in moved THEN to[p] ELSE cdn[p]]
           /\ sri' = Moved(to)

Spec == Init /\ [][Fix]_<<cdn, sri>>
=============================================================================

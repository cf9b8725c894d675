---------------------------- MODULE PageContract ----------------------------
(***************************************************************************)
(* What the mutation tools promise about the files of a page and the       *)
(* assets beside it, without temporary files: a call that succeeds changes *)
(* one file in a single step, from absent to whole, from whole to whole or *)
(* from whole to absent; a call that fails or is lost changes nothing.     *)
(***************************************************************************)
CONSTANTS Callers, Names,
          Contents,  \* what a whole file may hold
          Absent

VARIABLES dir,    \* what is visible under each name
          status  \* how each call ended

End(c, how) == status[c] = "none" /\ status' = [status EXCEPT ![c] = how]

Put(n) == \E v \in Contents : dir' = [dir EXCEPT ![n] = v]

Init == /\ dir \in [Names -> Contents \cup {Absent}]
        /\ status = [c \in Callers |-> "none"]

\* Never over a file that exists.
Create(c) == /\ End(c, "created")
             /\ \E n \in Names : dir[n] = Absent /\ Put(n)

\* The file was there when the call looked.
Replace(c) == End(c, "updated") /\ \E n \in Names : Put(n)

Remove(c) == /\ End(c, "deleted")
             /\ \E n \in Names : /\ dir[n] # Absent
                                 /\ dir' = [dir EXCEPT ![n] = Absent]

Fail(c) == End(c, "error") /\ UNCHANGED dir

Lose == /\ status' \in [Callers -> {"none", "created", "updated", "deleted",
                                    "error", "lost"}]
        /\ \A c \in Callers : status'[c] # status[c] =>
                                status[c] = "none" /\ status'[c] = "lost"
        /\ UNCHANGED dir

Next == Lose \/ \E c \in Callers : Create(c) \/ Replace(c) \/ Remove(c) \/ Fail(c)

Spec == Init /\ [][Next]_<<dir, status>>
=============================================================================

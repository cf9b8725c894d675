-------------------------- MODULE PageStoreProofs ---------------------------
(* Proofs about PageStore, for any number of callers, any calls and any    *)
(* files found at the start.                                               *)
EXTENDS PageStore, TLAPS

(* A call has an outcome exactly when it has ended.                        *)
Outcome(c) == status[c] = "none" <=> pc[c] # "end"

(* What a call is going to write is whole, and what it renames is what it   *)
(* has written in full.                                                    *)
Prepared(c) == /\ pc[c] \in {"check", "temp", "write"} => page[c] \in Whole
               /\ pc[c] = "rename" => tmp[c] \in Whole

\* Only delete_page looks at a page that may be torn.
Deleting(c) == pc[c] \in {"backup", "open", "save", "unlink"} => op[c].tool = "delete_page"

(* The files of a call that are not in the content tree.                   *)
OwnFiles(c) ==
    /\ tmp[c] # Absent => pc[c] \in {"write", "rename"} \/ status[c] = "lost"
    /\ backup[c] # Absent =>
         pc[c] \in {"open", "save", "unlink"} \/ status[c] \in {"deleted", "lost"}

(* The backup is a copy of something that was visible under its name.      *)
Copied(c) == /\ pc[c] = "save" => <<target[c], page[c]>> \in versions
             /\ pc[c] = "unlink" => <<target[c], backup[c]>> \in versions
             /\ status[c] = "deleted" => <<target[c], backup[c]>> \in versions

Recorded == \A n \in Names : dir[n] # Absent => <<n, dir[n]>> \in versions

Good(c) == Outcome(c) /\ Prepared(c) /\ Deleting(c) /\ OwnFiles(c) /\ Copied(c)

Working == \A c \in Callers : Good(c)

Inv == TypeOK /\ Working /\ Recorded

-----------------------------------------------------------------------------
LEMMA Distinct == Absent \notin Whole /\ Torn \notin Whole /\ Absent # Torn
BY PageAssumption

LEMMA WrittenIsWhole ==
    /\ \A c \in Callers \cup {Origin} : New(c) \in Whole
    /\ \A content \in Whole \cup {Torn} : Parsed(content) \in Whole
    /\ \A c \in Callers, old \in Whole : Merge(c, old) \in Whole
<1>1. \A c \in Callers \cup {Origin} : New(c) \in Whole
    BY DEF New, Whole, Author
<1>2. \A content \in Whole \cup {Torn} : Parsed(content) \in Whole
    BY DEF Parsed, Whole, Author
<1>3. \A c \in Callers, old \in Whole : Merge(c, old) \in Whole
    BY DEF Merge, Whole, Author
<1>. QED
    BY <1>1, <1>2, <1>3

LEMMA InvInit == Init => Inv
<1> SUFFICES ASSUME Init PROVE Inv
    OBVIOUS
<1>1. TypeOK
    BY PageAssumption, WrittenIsWhole DEF Init, TypeOK, PCs, Names, Langs
<1>2. Working
    BY DEF Init, Working, Good, Outcome, Prepared, Deleting, OwnFiles, Copied
<1>3. Recorded
    BY DEF Init, Recorded
<1>. QED
    BY <1>1, <1>2, <1>3 DEF Inv

(* What a call asks names a file.                                          *)
LEMMA Asked == TypeOK => \A c \in Callers : op[c].lang \in Names
BY PageAssumption DEF TypeOK, Names, Langs

(* A step of one call changes nothing that the others rely on.             *)
LEMMA OthersStay ==
    ASSUME Working, NEW c \in Callers, Good(c)', op' = op, versions \subseteq versions',
           \A d \in Callers \ {c} :
               /\ pc'[d] = pc[d] /\ status'[d] = status[d] /\ target'[d] = target[d]
               /\ page'[d] = page[d] /\ tmp'[d] = tmp[d] /\ backup'[d] = backup[d]
    PROVE  Working'
<1> SUFFICES ASSUME NEW d \in Callers, d # c PROVE Good(d)'
    BY DEF Working
<1>. QED
    BY DEF Working, Good, Outcome, Prepared, Deleting, OwnFiles, Copied

LEMMA InvStep == Inv /\ [Next]_vars => Inv'
<1> SUFFICES ASSUME Inv, [Next]_vars PROVE Inv'
    OBVIOUS
<1>0. TypeOK /\ Working /\ Recorded /\ \A c \in Callers : Good(c)
    BY DEF Inv, Working
<1> USE <1>0, Distinct DEF Goto, End, fsVars, historyVars
<1>1. ASSUME NEW c \in Callers, BeginCreate(c) PROVE Inv'
  <2>1. TypeOK'
    BY <1>1, Asked, WrittenIsWhole
       DEF BeginCreate, TypeOK, PCs, Names, Deleting, Prepared, Good
  <2>2. Good(c)'
    BY <1>1, WrittenIsWhole
       DEF BeginCreate, TypeOK, Good, Outcome, Prepared, Deleting, OwnFiles, Copied,
           Recorded
  <2>3. Working'
    BY <1>1, <2>2, OthersStay DEF BeginCreate, TypeOK
  <2>4. Recorded'
    BY <1>1 DEF BeginCreate, TypeOK, Recorded
  <2>. QED
    BY <2>1, <2>3, <2>4 DEF Inv
<1>2. ASSUME NEW c \in Callers, BeginUpload(c) PROVE Inv'
  <2>1. TypeOK'
    BY <1>2, Asked, WrittenIsWhole
       DEF BeginUpload, TypeOK, PCs, Names, Deleting, Prepared, Good
  <2>2. Good(c)'
    BY <1>2, WrittenIsWhole
       DEF BeginUpload, TypeOK, Good, Outcome, Prepared, Deleting, OwnFiles, Copied,
           Recorded
  <2>3. Working'
    BY <1>2, <2>2, OthersStay DEF BeginUpload, TypeOK
  <2>4. Recorded'
    BY <1>2 DEF BeginUpload, TypeOK, Recorded
  <2>. QED
    BY <2>1, <2>3, <2>4 DEF Inv
<1>3. ASSUME NEW c \in Callers, BeginChange(c) PROVE Inv'
  <2>1. TypeOK'
    BY <1>3, Asked, WrittenIsWhole
       DEF BeginChange, TypeOK, PCs, Names, Deleting, Prepared, Good
  <2>2. Good(c)'
    BY <1>3, WrittenIsWhole
       DEF BeginChange, TypeOK, Good, Outcome, Prepared, Deleting, OwnFiles, Copied,
           Recorded
  <2>3. Working'
    BY <1>3, <2>2, OthersStay DEF BeginChange, TypeOK
  <2>4. Recorded'
    BY <1>3 DEF BeginChange, TypeOK, Recorded
  <2>. QED
    BY <2>1, <2>3, <2>4 DEF Inv
<1>4. ASSUME NEW c \in Callers, Find(c) PROVE Inv'
  <2>1. TypeOK'
    BY <1>4, Asked, WrittenIsWhole
       DEF Find, Candidates, TypeOK, PCs, Names, Deleting, Prepared, Good
  <2>2. Good(c)'
    BY <1>4, WrittenIsWhole
       DEF Find, Candidates, TypeOK, Good, Outcome, Prepared, Deleting, OwnFiles,
           Copied, Recorded
  <2>3. Working'
    BY <1>4, <2>2, OthersStay DEF Find, Candidates, TypeOK
  <2>4. Recorded'
    BY <1>4 DEF Find, Candidates, TypeOK, Recorded
  <2>. QED
    BY <2>1, <2>3, <2>4 DEF Inv
<1>5. ASSUME NEW c \in Callers, Read(c) PROVE Inv'
  <2>0. dir[target[c]] # Absent => Parsed(dir[target[c]]) \in Whole
    BY WrittenIsWhole DEF TypeOK
  <2>1. TypeOK'
    BY <1>5, <2>0, Asked, WrittenIsWhole
       DEF Read, TypeOK, PCs, Names, Deleting, Prepared, Good
  <2>2. Good(c)'
    BY <1>5, <2>0, WrittenIsWhole, ZenonT(60)
       DEF Read, TypeOK, Good, Outcome, Prepared, Deleting, OwnFiles, Copied,
           Recorded
  <2>3. Working'
    BY <1>5, <2>2, OthersStay DEF Read, TypeOK
  <2>4. Recorded'
    BY <1>5 DEF Read, TypeOK, Recorded
  <2>. QED
    BY <2>1, <2>3, <2>4 DEF Inv
<1>6. ASSUME NEW c \in Callers, Check(c) PROVE Inv'
  <2>0. pc[c] = "check" => Merge(c, page[c]) \in Whole
    BY WrittenIsWhole DEF Good, Prepared
  <2>1. TypeOK'
    BY <1>6, <2>0, Asked, WrittenIsWhole
       DEF Check, TypeOK, PCs, Names, Deleting, Prepared, Good
  <2>2. Good(c)'
    BY <1>6, <2>0, WrittenIsWhole
       DEF Check, TypeOK, Good, Outcome, Prepared, Deleting, OwnFiles, Copied,
           Recorded
  <2>3. Working'
    BY <1>6, <2>2, OthersStay DEF Check, TypeOK
  <2>4. Recorded'
    BY <1>6 DEF Check, TypeOK, Recorded
  <2>. QED
    BY <2>1, <2>3, <2>4 DEF Inv
<1>7. ASSUME NEW c \in Callers, MakeTemp(c) PROVE Inv'
  <2>1. TypeOK'
    BY <1>7, Asked, WrittenIsWhole
       DEF MakeTemp, NewFile, TypeOK, PCs, Names, Deleting, Prepared, Good
  <2>2. Good(c)'
    BY <1>7, WrittenIsWhole
       DEF MakeTemp, NewFile, TypeOK, Good, Outcome, Prepared, Deleting, OwnFiles,
           Copied, Recorded
  <2>3. Working'
    BY <1>7, <2>2, OthersStay DEF MakeTemp, NewFile, TypeOK
  <2>4. Recorded'
    BY <1>7 DEF MakeTemp, NewFile, TypeOK, Recorded
  <2>. QED
    BY <2>1, <2>3, <2>4 DEF Inv
<1>8. ASSUME NEW c \in Callers, WriteTemp(c) PROVE Inv'
  <2>1. TypeOK'
    BY <1>8, Asked, WrittenIsWhole
       DEF WriteTemp, ShortWrite, CleanTemp, TypeOK, PCs, Names, Deleting, Prepared,
           Good
  <2>2. Good(c)'
    BY <1>8, WrittenIsWhole
       DEF WriteTemp, ShortWrite, CleanTemp, TypeOK, Good, Outcome, Prepared,
           Deleting, OwnFiles, Copied, Recorded
  <2>3. Working'
    BY <1>8, <2>2, OthersStay DEF WriteTemp, ShortWrite, CleanTemp, TypeOK
  <2>4. Recorded'
    BY <1>8 DEF WriteTemp, ShortWrite, CleanTemp, TypeOK, Recorded
  <2>. QED
    BY <2>1, <2>3, <2>4 DEF Inv
<1>9. ASSUME NEW c \in Callers, Rename(c) PROVE Inv'
  <2>1. TypeOK'
    BY <1>9, Asked, WrittenIsWhole
       DEF Rename, Show, CleanTemp, TypeOK, PCs, Names, Deleting, Prepared, Good
  <2>2. Good(c)'
    BY <1>9, WrittenIsWhole
       DEF Rename, Show, CleanTemp, TypeOK, Good, Outcome, Prepared, Deleting,
           OwnFiles, Copied, Recorded
  <2>3. Working'
    BY <1>9, <2>2, OthersStay DEF Rename, Show, CleanTemp, TypeOK
  <2>4. Recorded'
    BY <1>9 DEF Rename, Show, CleanTemp, TypeOK, Recorded
  <2>. QED
    BY <2>1, <2>3, <2>4 DEF Inv
<1>10. ASSUME NEW c \in Callers, MakeBackup(c) PROVE Inv'
  <2>1. TypeOK'
    BY <1>10, Asked, WrittenIsWhole
       DEF MakeBackup, NewFile, TypeOK, PCs, Names, Deleting, Prepared, Good
  <2>2. Good(c)'
    BY <1>10, WrittenIsWhole
       DEF MakeBackup, NewFile, TypeOK, Good, Outcome, Prepared, Deleting, OwnFiles,
           Copied, Recorded
  <2>3. Working'
    BY <1>10, <2>2, OthersStay DEF MakeBackup, NewFile, TypeOK
  <2>4. Recorded'
    BY <1>10 DEF MakeBackup, NewFile, TypeOK, Recorded
  <2>. QED
    BY <2>1, <2>3, <2>4 DEF Inv
<1>11. ASSUME NEW c \in Callers, OpenPage(c) PROVE Inv'
  <2>1. TypeOK'
    BY <1>11, Asked, WrittenIsWhole
       DEF OpenPage, Exists, CleanBackup, TypeOK, PCs, Names, Deleting, Prepared,
           Good
  <2>0. ASSUME Exists(target[c]) PROVE Good(c)'
    <3>1. <<target[c], dir[target[c]]>> \in versions
      BY <1>11, <2>0 DEF Exists, Recorded, TypeOK
    <3>2. page'[c] = dir[target[c]] /\ pc'[c] = "save" /\ status' = status
      BY <1>11, <2>0 DEF OpenPage, TypeOK
    <3>. QED
      BY <1>11, <2>0, <3>1, <3>2
         DEF OpenPage, TypeOK, Good, Outcome, Prepared, Deleting, OwnFiles, Copied
  <2>2. Good(c)'
    BY <1>11, <2>0
       DEF OpenPage, CleanBackup, TypeOK, Good, Outcome, Prepared, Deleting, OwnFiles, Copied
  <2>3. Working'
    BY <1>11, <2>2, OthersStay DEF OpenPage, Exists, CleanBackup, TypeOK
  <2>4. Recorded'
    BY <1>11 DEF OpenPage, Exists, CleanBackup, TypeOK, Recorded
  <2>. QED
    BY <2>1, <2>3, <2>4 DEF Inv
<1>12. ASSUME NEW c \in Callers, SaveBackup(c) PROVE Inv'
  <2>1. TypeOK'
    BY <1>12, Asked, WrittenIsWhole
       DEF SaveBackup, Saved, CleanBackup, TypeOK, PCs, Names, Deleting, Prepared,
           Good
  <2>2. Good(c)'
    BY <1>12, WrittenIsWhole
       DEF SaveBackup, Saved, CleanBackup, TypeOK, Good, Outcome, Prepared,
           Deleting, OwnFiles, Copied, Recorded
  <2>3. Working'
    BY <1>12, <2>2, OthersStay DEF SaveBackup, Saved, CleanBackup, TypeOK
  <2>4. Recorded'
    BY <1>12 DEF SaveBackup, Saved, CleanBackup, TypeOK, Recorded
  <2>. QED
    BY <2>1, <2>3, <2>4 DEF Inv
<1>13. ASSUME NEW c \in Callers, Unlink(c) PROVE Inv'
  <2>1. TypeOK'
    BY <1>13, Asked, WrittenIsWhole
       DEF Unlink, CleanBackup, TypeOK, PCs, Names, Deleting, Prepared, Good
  <2>2. Good(c)'
    BY <1>13, WrittenIsWhole
       DEF Unlink, CleanBackup, TypeOK, Good, Outcome, Prepared, Deleting, OwnFiles,
           Copied, Recorded
  <2>3. Working'
    BY <1>13, <2>2, OthersStay DEF Unlink, CleanBackup, TypeOK
  <2>4. Recorded'
    BY <1>13 DEF Unlink, CleanBackup, TypeOK, Recorded
  <2>. QED
    BY <2>1, <2>3, <2>4 DEF Inv
<1>14. CASE WriteBack
    BY <1>14 DEF WriteBack, localVars, Inv, TypeOK, Working, Good, Outcome, Prepared,
                 Deleting, OwnFiles, Copied, Recorded
<1>15. ASSUME LoseCalls, UNCHANGED <<tmp, backup, removed, before, op>>,
              versions \subseteq versions'
       PROVE  Working'
  <2> SUFFICES ASSUME NEW c \in Callers PROVE Good(c)'
    BY DEF Working
  <2>. QED
    BY <1>15 DEF LoseCalls, TypeOK, Good, Outcome, Prepared, Deleting, OwnFiles, Copied
<1>16. CASE Crash
  <2>1. TypeOK' /\ Recorded'
    BY <1>16 DEF Crash, LoseCalls, TypeOK, PCs, Recorded
  <2>. QED
    BY <1>15, <1>16, <2>1 DEF Crash, Inv
<1>17. CASE PowerFailure
  <2>1. TypeOK'
    BY <1>17 DEF PowerFailure, LoseCalls, TypeOK, PCs
  <2>2. Working'
    BY <1>15, <1>17 DEF PowerFailure
  <2>3. Recorded'
    BY <1>17 DEF PowerFailure, TypeOK, Recorded
  <2>. QED
    BY <2>1, <2>2, <2>3 DEF Inv
<1>18. CASE UNCHANGED vars
  <2>1. \A c \in Callers : Good(c)'
    BY <1>18 DEF vars, localVars, Good, Outcome, Prepared, Deleting, OwnFiles, Copied
  <2>. QED
    BY <1>18, <2>1 DEF vars, localVars, Inv, TypeOK, Working, Recorded
<1>. QED
    BY <1>1, <1>2, <1>3, <1>4, <1>5, <1>6, <1>7, <1>8, <1>9, <1>10, <1>11, <1>12, <1>13,
       <1>14, <1>16, <1>17, <1>18 DEF Next, Step, Quiet

LEMMA InvHolds == Spec => []Inv
BY InvInit, InvStep, PTL DEF Spec

(* Every variable of the page store keeps its type; what a call carries     *)
(* torn is only ever copied into the backup of a delete.                   *)
THEOREM TypeCorrect == Spec => []TypeOK
BY InvHolds, PTL DEF Inv

(* writeBytesAt, Delete: no call that ended leaves a temporary file, and no *)
(* failed one a backup, whatever interleaves, fails or crashes.            *)
THEOREM NothingLeftBehindHolds == Spec => []NothingLeftBehind
<1>1. Inv => NothingLeftBehind
    BY DEF Inv, Working, Good, OwnFiles, Outcome, NothingLeftBehind
<1>. QED
    BY <1>1, InvHolds, PTL

(* Delete: what a successful delete has put aside was visible under the     *)
(* name it removed.                                                        *)
THEOREM BackupWasVisibleHolds == Spec => []BackupWasVisible
<1>1. Inv => BackupWasVisible
    BY DEF Inv, Working, Good, Copied, BackupWasVisible
<1>. QED
    BY <1>1, InvHolds, PTL
-----------------------------------------------------------------------------
LEMMA ContractInit == Init => Contract!Init
BY WrittenIsWhole DEF Init, Contract!Init

(* One step of a call is a step of the contract, or changes neither what is *)
(* visible nor how a call has ended.                                       *)
LEMMA ContractStep ==
    Inv /\ [Next]_vars => [Contract!Next \/ PowerFailure]_<<dir, status>>
<1> SUFFICES ASSUME Inv, [Next]_vars
             PROVE  Contract!Next \/ PowerFailure \/ UNCHANGED <<dir, status>>
    OBVIOUS
<1>0. TypeOK /\ \A c \in Callers : Good(c)
    BY DEF Inv, Working
<1> USE <1>0
<1>1. ASSUME NEW c \in Callers, End(c, "error"), UNCHANGED dir, pc[c] # "end"
      PROVE  Contract!Next
    BY <1>1 DEF End, Good, Outcome, Contract!Next, Contract!Fail, Contract!End
<1>2. ASSUME NEW c \in Callers, Rename(c) PROVE Contract!Next
  <2>1. CASE End(c, "error") /\ UNCHANGED dir
    BY <1>1, <1>2, <2>1 DEF Rename
  <2>2. CASE MayRename(c) /\ Show(target[c], tmp[c])
             /\ End(c, IF Creates(c) THEN "created" ELSE "updated")
    <3>1. status[c] = "none" /\ tmp[c] \in Whole /\ target[c] \in Names
      BY <1>2 DEF Rename, Good, Outcome, Prepared, TypeOK
    <3>2. dir' = [dir EXCEPT ![target[c]] = tmp[c]]
      BY <2>2 DEF Show
    <3>3. CASE Creates(c)
      <4>1. dir[target[c]] = Absent
        BY <2>2, <3>3 DEF MayRename, Exists
      <4>2. Contract!Create(c)
        BY <2>2, <3>1, <3>2, <3>3, <4>1
           DEF End, Contract!Create, Contract!End, Contract!Put
      <4>. QED
        BY <4>2 DEF Contract!Next
    <3>4. CASE ~Creates(c)
      <4>1. Contract!Replace(c)
        BY <2>2, <3>1, <3>2, <3>4 DEF End, Contract!Replace, Contract!End, Contract!Put
      <4>. QED
        BY <4>1 DEF Contract!Next
    <3>. QED
      BY <3>3, <3>4
  <2>. QED
    BY <1>2, <2>1, <2>2 DEF Rename
<1>3. ASSUME NEW c \in Callers, Unlink(c) PROVE Contract!Next
  <2>1. CASE End(c, "error") /\ UNCHANGED dir
    BY <1>1, <1>3, <2>1 DEF Unlink
  <2>2. CASE dir[target[c]] # Absent /\ dir' = [dir EXCEPT ![target[c]] = Absent]
             /\ End(c, "deleted")
    <3>1. status[c] = "none" /\ target[c] \in Names
      BY <1>3 DEF Unlink, Good, Outcome, TypeOK
    <3>2. Contract!Remove(c)
      BY <2>2, <3>1 DEF End, Contract!Remove, Contract!End
    <3>. QED
      BY <3>2 DEF Contract!Next
  <2>. QED
    BY <1>3, <2>1, <2>2 DEF Unlink
<1>4. ASSUME LoseCalls, UNCHANGED dir PROVE Contract!Next
  <2>1. status' \in [Callers -> {"none", "created", "updated", "deleted", "error", "lost"}]
    BY <1>4 DEF LoseCalls, TypeOK
  <2>2. \A c \in Callers : status'[c] # status[c] =>
                              status[c] = "none" /\ status'[c] = "lost"
    BY <1>4 DEF LoseCalls, Good, Outcome, TypeOK
  <2>. QED
    BY <1>4, <2>1, <2>2 DEF Contract!Next, Contract!Lose
<1>5. ASSUME NEW c \in Callers, Step(c), ~Rename(c), ~Unlink(c)
      PROVE  Contract!Next \/ UNCHANGED <<dir, status>>
  <2>1. UNCHANGED dir /\ pc[c] # "end" /\ (UNCHANGED status \/ End(c, "error"))
    BY <1>5
       DEF Step, BeginCreate, BeginUpload, BeginChange, Find, Read, Check, MakeTemp,
                WriteTemp, ShortWrite, MakeBackup, OpenPage, SaveBackup, Goto, fsVars
  <2>. QED
    BY <1>1, <2>1
<1>. QED
    BY <1>2, <1>3, <1>4, <1>5 DEF Next, Crash, Quiet, WriteBack, vars, fsVars, localVars

(* Create, Update, Delete, UploadAsset: for any number of calls, any        *)
(* interleaving, failures and crashes, readers only ever see whole files, a *)
(* new file never replaces one, and a failed call has no effect; only a    *)
(* power failure shows more.                                               *)
THEOREM ImplementsContractHolds == Spec => ImplementsContract
<1>1. Init => Contract!Init
    BY ContractInit
<1>. QED
    BY <1>1, ContractStep, InvHolds, PTL DEF Spec, ImplementsContract

-----------------------------------------------------------------------------
(* An update on its way: which tool reaches which step, and what its page   *)
(* holds from the merge on.                                                 *)
Merged(c) == pc[c] \in {"temp", "write", "rename"} \/ status[c] = "updated"

Updating(c) ==
    /\ pc[c] \in {"find", "read"} => ~Creates(c)
    /\ pc[c] = "check" => op[c].tool = "update_page"
    /\ pc[c] \in {"temp", "write", "rename"} => op[c].tool # "delete_page"
    /\ status[c] = "updated" => op[c].tool = "update_page"
    /\ pc[c] = "rename" => tmp[c] = page[c]
    /\ op[c].tool = "update_page" /\ Merged(c) =>
           page[c] \in Whole /\ \A f \in op[c].sets : page[c][f] = c

(* before[c] names other calls that had ended when c read its page.         *)
Earlier(c) ==
    /\ before[c] # {} => pc[c] \notin {"idle", "find", "read"}
    /\ \A d \in before[c] : pc[d] = "end" /\ d # c

UpdateInv == \A c \in Callers : Updating(c) /\ Earlier(c)

LEMMA OpFields ==
    ASSUME TypeOK, NEW c \in Callers
    PROVE  /\ op[c].sets \subseteq {"title", "body"} /\ op[c].sets \subseteq Fields
           /\ op[c].tool \in Tools
BY PageAssumption DEF TypeOK, Fields

LEMMA MergeSets ==
    ASSUME TypeOK, NEW c \in Callers, NEW old
    PROVE  /\ \A f \in op[c].sets : Merge(c, old)[f] = c
           /\ \A f \in {"title", "body"} \ (op[c].sets \cup op[c].drops) :
                  Merge(c, old)[f] = old[f]
BY OpFields DEF Merge, Fields

(* A step of one call, as the others and the history see it.                *)
LEMMA UpdateFrame ==
    ASSUME TypeOK, UpdateInv, NEW c \in Callers, Updating(c)', Earlier(c)',
           op' = op, pc[c] # "end",
           \A d \in Callers \ {c} :
               /\ pc'[d] = pc[d] /\ status'[d] = status[d] /\ page'[d] = page[d]
               /\ tmp'[d] = tmp[d] /\ before'[d] = before[d]
    PROVE  UpdateInv'
<1> SUFFICES ASSUME NEW d \in Callers, d # c PROVE Updating(d)' /\ Earlier(d)'
    BY DEF UpdateInv
<1>1. Updating(d)'
    BY DEF UpdateInv, Updating, Merged, Creates
<1>2. Earlier(d)'
    BY DEF UpdateInv, Earlier, TypeOK
<1>. QED
    BY <1>1, <1>2

(* Every step of a call, as far as updates are concerned.                   *)
LEMMA OneCallMoves ==
    ASSUME TypeOK, NEW c \in Callers, Step(c)
    PROVE  /\ op' = op /\ pc[c] \notin {"end"} /\ pc'[c] # "idle"
           /\ \A d \in Callers \ {c} :
                  /\ pc'[d] = pc[d] /\ status'[d] = status[d] /\ page'[d] = page[d]
                  /\ tmp'[d] = tmp[d] /\ before'[d] = before[d] /\ target'[d] = target[d]
<1> USE DEF TypeOK, Goto, End, fsVars, historyVars
<1>1. CASE BeginCreate(c) \/ BeginUpload(c) \/ BeginChange(c)
    BY <1>1 DEF BeginCreate, BeginUpload, BeginChange
<1>2. CASE Find(c) \/ Read(c) \/ Check(c)
    BY <1>2 DEF Find, Read, Check
<1>3. CASE MakeTemp(c) \/ WriteTemp(c)
    BY <1>3 DEF MakeTemp, WriteTemp, ShortWrite, CleanTemp, NewFile
<1>4. CASE Rename(c)
    BY <1>4 DEF Rename, CleanTemp
<1>5. CASE MakeBackup(c) \/ OpenPage(c) \/ SaveBackup(c) \/ Unlink(c)
    BY <1>5 DEF MakeBackup, OpenPage, SaveBackup, Unlink
<1>. QED
    BY <1>1, <1>2, <1>3, <1>4, <1>5 DEF Step

LEMMA UpdateStep == Inv /\ UpdateInv /\ [Next]_vars => UpdateInv'
<1> SUFFICES ASSUME Inv, UpdateInv, [Next]_vars PROVE UpdateInv'
    OBVIOUS
<1>0. TypeOK /\ \A c \in Callers : Good(c) /\ Updating(c) /\ Earlier(c)
    BY DEF Inv, Working, UpdateInv
<1> USE <1>0 DEF Goto, End, fsVars, historyVars
<1>1. ASSUME NEW c \in Callers, Step(c), Updating(c)', Earlier(c)' PROVE UpdateInv'
    BY <1>1, OneCallMoves, UpdateFrame
<1>2. ASSUME NEW c \in Callers, Step(c), ~Read(c) PROVE Earlier(c)'
  <2>1. UNCHANGED before /\ (pc[c] \notin {"idle", "find", "read"} =>
                                pc'[c] \notin {"idle", "find", "read"})
    BY <1>2 DEF Step, BeginCreate, BeginUpload, BeginChange, Find, Check, MakeTemp, WriteTemp,
                ShortWrite, Rename, MakeBackup, OpenPage, SaveBackup, Unlink, TypeOK
  <2>2. \A d \in Callers : pc[d] = "end" => pc'[d] = "end"
    BY <1>2, OneCallMoves
  <2>. QED
    BY <2>1, <2>2 DEF Earlier, TypeOK
<1>3. ASSUME NEW c \in Callers, BeginCreate(c) \/ BeginUpload(c) \/ BeginChange(c)
      PROVE  Updating(c)'
    BY <1>3, OpFields
       DEF BeginCreate, BeginUpload, BeginChange, TypeOK, Updating, Merged, Creates, Tools,
           Good, Outcome
<1>4. ASSUME NEW c \in Callers, Find(c) PROVE Updating(c)'
    BY <1>4 DEF Find, TypeOK, Updating, Merged, Creates, Good, Outcome
<1>5. ASSUME NEW c \in Callers, Read(c) PROVE Updating(c)' /\ Earlier(c)'
    BY <1>5, OpFields
       DEF Read, TypeOK, Updating, Earlier, Merged, Creates, Tools, Good, Outcome
<1>6. ASSUME NEW c \in Callers, Check(c) PROVE Updating(c)'
  <2>1. pc[c] = "check" => Merge(c, page[c]) \in Whole
    BY WrittenIsWhole DEF Good, Prepared
  <2>. QED
    BY <1>6, <2>1, MergeSets DEF Check, TypeOK, Updating, Merged, Creates, Good, Outcome
<1>7. ASSUME NEW c \in Callers, MakeTemp(c) \/ WriteTemp(c) PROVE Updating(c)'
    BY <1>7 DEF MakeTemp, WriteTemp, ShortWrite, CleanTemp, NewFile, TypeOK, Updating, Merged,
                Creates, Good, Outcome
<1>8. ASSUME NEW c \in Callers, Rename(c) PROVE Updating(c)'
    BY <1>8, OpFields
       DEF Rename, CleanTemp, TypeOK, Updating, Merged, Creates, Tools, Good, Outcome
<1>9. ASSUME NEW c \in Callers, MakeBackup(c) \/ OpenPage(c) \/ SaveBackup(c) \/ Unlink(c)
      PROVE  Updating(c)'
    BY <1>9 DEF MakeBackup, OpenPage, SaveBackup, Unlink, TypeOK, Updating, Merged, Creates,
                Good, Outcome, Deleting
<1>10. ASSUME LoseCalls, UNCHANGED <<tmp, before, op>> PROVE UpdateInv'
  <2> SUFFICES ASSUME NEW c \in Callers PROVE Updating(c)' /\ Earlier(c)'
    BY DEF UpdateInv
  <2>. QED
    BY <1>10 DEF LoseCalls, TypeOK, Updating, Earlier, Merged, Creates
<1>11. ASSUME NEW c \in Callers, Step(c) PROVE UpdateInv'
    BY <1>1, <1>2, <1>3, <1>4, <1>5, <1>6, <1>7, <1>8, <1>9, <1>11 DEF Step
<1>12. CASE WriteBack \/ UNCHANGED vars
    BY <1>12 DEF WriteBack, vars, localVars, UpdateInv, Updating, Earlier, Merged, Creates
<1>. QED
    BY <1>10, <1>11, <1>12 DEF Next, Crash, PowerFailure, Quiet

(* Two updates with no third call near: d has returned, and c is an update  *)
(* that has not read the page yet, or read it after d had ended.            *)
Unread(c) == pc[c] \in {"idle", "find", "read"}

Near(c, d) == /\ c # d /\ \A e \in Callers \ {c, d} : pc[e] = "idle"
              /\ op[c].tool = "update_page" /\ status[d] = "updated"

Pair(c, d) ==
    /\ Unread(c) \/ (d \in before[c] /\ pc[c] # "end") => dir[target[d]] = page[d]
    /\ d \in before[c] /\ target[c] = target[d] /\ pc[c] = "check" => page[c] = page[d]
    /\ d \in before[c] /\ target[c] = target[d] /\ Merged(c) =>
           \A f \in op[d].sets \ (op[c].sets \cup op[c].drops) : page[c][f] = d
    /\ d \in before[c] /\ status[c] = "updated" => dir[target[c]] = page[c]

PairInv == \A c, d \in Callers : Near(c, d) => Pair(c, d)

LEMMA PairStep == Inv /\ UpdateInv /\ PairInv /\ [Next]_vars => PairInv'
<1> SUFFICES ASSUME Inv, UpdateInv, PairInv, [Next]_vars,
                    NEW c \in Callers, NEW d \in Callers, Near(c, d)'
             PROVE  Pair(c, d)'
    BY DEF PairInv
<1>0. TypeOK /\ \A e \in Callers : Good(e) /\ Updating(e) /\ Earlier(e)
    BY DEF Inv, Working, UpdateInv
<1> USE <1>0 DEF Goto, End, fsVars, historyVars
<1>1. ASSUME LoseCalls, UNCHANGED <<before, op>> PROVE Pair(c, d)'
  <2>1. status[d] = "updated" /\ pc[d] = "end"
    BY <1>1 DEF LoseCalls, TypeOK, Near, Good, Outcome
  <2>2. \A e \in Callers \ {c, d} : pc[e] = "idle"
    BY <1>1 DEF LoseCalls, Near
  <2>3. pc[c] \notin {"idle", "end"}
    BY <1>1, <2>1, <2>2 DEF LoseCalls
  <2>4. pc'[c] = "end" /\ status'[c] = "lost"
    BY <1>1, <2>3 DEF LoseCalls
  <2>. QED
    BY <2>4 DEF Pair, Unread, Merged
<1>2. CASE WriteBack \/ UNCHANGED vars
  <2>1. UNCHANGED <<dir, op, pc, status, target, page, before>>
    BY <1>2 DEF WriteBack, vars, localVars
  <2>2. Near(c, d) /\ Pair(c, d)
    BY <2>1 DEF Near, PairInv
  <2>. QED
    BY <2>1, <2>2 DEF Pair, Unread, Merged
<1>3. ASSUME NEW e \in Callers \ {c, d}, Step(e) PROVE FALSE
    BY <1>3, OneCallMoves DEF Near
<1>4. ASSUME Step(d) PROVE Pair(c, d)'
  <2>1. /\ op' = op /\ pc[d] # "end"
        /\ pc'[c] = pc[c] /\ status'[c] = status[c] /\ page'[c] = page[c]
        /\ target'[c] = target[c] /\ before'[c] = before[c]
    BY <1>4, OneCallMoves DEF Near
  <2>2. status[d] # "updated" /\ status'[d] = "updated"
    BY <2>1 DEF Near, Good, Outcome
  <2>3. Rename(d)
    BY <1>4, <2>2
       DEF Step, BeginCreate, BeginUpload, BeginChange, Find, Read, Check, MakeTemp, WriteTemp,
           ShortWrite, MakeBackup, OpenPage, SaveBackup, Unlink, TypeOK
  <2>4. dir'[target'[d]] = page'[d]
    BY <2>2, <2>3 DEF Rename, Show, TypeOK, Updating
  <2>5. d \notin before'[c]
    BY <2>1 DEF Earlier
  <2>. QED
    BY <2>4, <2>5 DEF Pair
<1>5. ASSUME Step(c) PROVE Pair(c, d)'
  <2>1. /\ op' = op /\ pc[c] # "end"
        /\ pc'[d] = pc[d] /\ status'[d] = status[d] /\ page'[d] = page[d]
        /\ target'[d] = target[d]
        /\ \A e \in Callers \ {c, d} : pc'[e] = pc[e]
    BY <1>5, OneCallMoves DEF Near
  <2>2. Near(c, d) /\ Pair(c, d)
    BY <2>1 DEF Near, PairInv
  <2>3. /\ pc[d] = "end" /\ op[c].tool = "update_page" /\ status[c] = "none"
        /\ page[d] \in Whole /\ op[d].tool = "update_page"
        /\ \A f \in op[d].sets : page[d][f] = d
    BY <2>1, <2>2 DEF Near, Good, Outcome, Updating, Merged
  <2>4. CASE BeginChange(c)
    BY <2>1, <2>2, <2>3, <2>4 DEF BeginChange, Pair, Unread, Merged, Earlier, TypeOK
  <2>5. CASE Find(c)
    BY <2>1, <2>2, <2>3, <2>5 DEF Find, Pair, Unread, Merged, Earlier, TypeOK
  <2>6. CASE Read(c)
    <3>1. dir[target[d]] = page[d]
      BY <2>2, <2>6 DEF Read, Pair, Unread
    <3>2. target[c] = target[d] => Parsed(dir[target[c]]) = page[d]
      BY <2>3, <3>1, Distinct DEF Parsed
    <3>. QED
      BY <2>1, <2>3, <2>6, <3>1, <3>2 DEF Read, Pair, Unread, Merged, TypeOK
  <2>7. CASE Check(c)
    <3>1. d \in before[c] /\ target[c] = target[d] =>
              \A f \in op[d].sets \ (op[c].sets \cup op[c].drops) : Merge(c, page[c])[f] = d
      BY <2>2, <2>3, <2>7, OpFields, MergeSets DEF Check, Pair
    <3>. QED
      BY <2>1, <2>2, <2>3, <2>7, <3>1 DEF Check, Pair, Unread, Merged, TypeOK
  <2>8. CASE MakeTemp(c) \/ WriteTemp(c)
    BY <2>1, <2>2, <2>3, <2>8
       DEF MakeTemp, WriteTemp, ShortWrite, Pair, Unread, Merged, TypeOK
  <2>9. CASE Rename(c)
    <3>1. /\ UNCHANGED <<target, page, before>> /\ pc[c] = "rename" /\ pc'[c] = "end"
          /\ status'[c] = "updated" => dir'[target[c]] = tmp[c]
      BY <2>3, <2>9 DEF Rename, Show, TypeOK
    <3>2. tmp[c] = page[c]
      BY <3>1 DEF Updating
    <3>. QED
      BY <2>1, <2>2, <3>1, <3>2 DEF Pair, Unread, Merged
  <2>10. CASE BeginCreate(c) \/ BeginUpload(c)
    BY <2>3, <2>10 DEF BeginCreate, BeginUpload
  <2>11. CASE MakeBackup(c) \/ OpenPage(c) \/ SaveBackup(c) \/ Unlink(c)
    BY <2>3, <2>11 DEF MakeBackup, OpenPage, SaveBackup, Unlink, Good, Deleting
  <2>. QED
    BY <1>5, <2>4, <2>5, <2>6, <2>7, <2>8, <2>9, <2>10, <2>11 DEF Step
<1>6. CASE Crash \/ PowerFailure
    BY <1>1, <1>6 DEF Crash, PowerFailure
<1>. QED
    BY <1>2, <1>3, <1>4, <1>5, <1>6 DEF Next, Quiet

(* Update: when no third call has begun, an update that read the page after *)
(* another one had returned keeps every field that one set and it does not  *)
(* name, and the page shows what it wrote.                                 *)
THEOREM LaterUpdateKeepsFieldsHolds == Spec => []LaterUpdateKeepsFields
<1>1. Init => UpdateInv /\ PairInv
    BY DEF Init, UpdateInv, Updating, Earlier, Merged, PairInv, Near
<1>2. Inv /\ UpdateInv /\ PairInv => LaterUpdateKeepsFields
  <2> SUFFICES ASSUME Inv, UpdateInv, PairInv, NEW c \in Callers, NEW d \in Callers,
                      status[c] = "updated", status[d] = "updated",
                      target[c] = target[d], d \in before[c],
                      \A e \in Callers \ {c, d} : pc[e] = "idle"
               PROVE  /\ \A f \in op[d].sets \ (op[c].sets \cup op[c].drops) : page[c][f] = d
                      /\ dir[target[c]] = page[c]
    BY DEF LaterUpdateKeepsFields
  <2>1. op[c].tool = "update_page"
    BY DEF UpdateInv, Updating
  <2>2. c # d
    BY DEF UpdateInv, Earlier
  <2>. QED
    BY <2>1, <2>2 DEF PairInv, Near, Pair, Merged
<1>. QED
    BY <1>1, <1>2, InvHolds, UpdateStep, PairStep, PTL DEF Spec

=============================================================================

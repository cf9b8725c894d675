----------------------------- MODULE PageStore ------------------------------
(***************************************************************************)
(* The mutation tools on the files of one page and one asset:              *)
(* internal/hugo/mutations (Create, Update, Delete, UploadAsset,           *)
(* writeBytesAt) on top of pages.Get and pathguard's openat calls.  Calls  *)
(* take no lock, so their system calls interleave; any of them may fail;   *)
(* the process may crash, which loses every call, and the machine may lose *)
(* power, which also loses data that was never synced.                     *)
(*                                                                         *)
(* A page is a function from fields to the call that wrote the field last. *)
(***************************************************************************)
EXTENDS Naturals, FiniteSets

CONSTANTS Callers,
          Mixes,          \* the calls that may run together: each gives what
                          \* every caller asks, [tool, lang, sets, drops, valid]
          Origin,         \* the author of the pages found at start
          Unset,          \* a field that is not there
          Absent,         \* no file
          Torn,           \* a file that holds a part of what was written
          Starts,         \* the sets of files that may be found at start
          PowerMayFail

Langs  == {"fr", "en"}
Names  == Langs \cup {"plain", "logo"}     \* index.<lang>.md, index.md, the asset
Fields == {"title", "body", "lastmod"}
Author == Callers \cup {Origin, Unset}
Whole  == [Fields -> Author]
Tools  == {"create_page", "update_page", "delete_page", "upload_asset"}

ASSUME PageAssumption ==
    /\ Mixes \subseteq [Callers -> [tool : Tools, lang : Langs \cup {"plain"},
                                   sets : SUBSET {"title", "body"},
                                   drops : SUBSET {"title", "body"}, valid : BOOLEAN]]
    /\ Starts \subseteq SUBSET Names
    /\ Absent \notin Whole /\ Torn \notin Whole /\ Absent # Torn
    /\ Origin \notin Callers /\ Unset \notin Callers
    /\ PowerMayFail \in BOOLEAN

VARIABLES
    op,        \* what each caller asks
    dir,       \* what each name shows: a page, Torn or Absent
    dirty,     \* names whose data has not reached the disk
    tmp,       \* the ".tmp-" file of each call
    backup,    \* the "delete-" file of each call in work/
    pc, status,
    target,    \* the name each call works on
    page,      \* what it has read, then what it is going to write
    versions,  \* (history) every <<name, content>> that was ever visible
    removed,   \* (history) what each delete has unlinked
    before     \* (history) calls that had ended when each call read its page

fsVars      == <<dir, dirty, tmp, backup>>
localVars   == <<pc, status, target, page>>
historyVars == <<versions, removed, before>>
vars == <<op, fsVars, localVars, historyVars>>

Contract == INSTANCE PageContract WITH Contents <- Whole

(* A file that someone has written anew.                                   *)
New(author) == [f \in Fields |-> author]

PCs == {"idle", "find", "read", "check", "temp", "write", "rename", "backup",
        "open", "save", "unlink", "end"}

Init ==
    /\ op \in Mixes
    /\ \E found \in Starts :
           dir = [n \in Names |-> IF n \in found THEN New(Origin) ELSE Absent]
    /\ dirty = {}
    /\ tmp = [c \in Callers |-> Absent] /\ backup = [c \in Callers |-> Absent]
    /\ pc = [c \in Callers |-> "idle"] /\ status = [c \in Callers |-> "none"]
    /\ target = [c \in Callers |-> "plain"]
    /\ page = [c \in Callers |-> Absent]
    /\ versions = {<<n, dir[n]>> : n \in {m \in Names : dir[m] # Absent}}
    /\ removed = [c \in Callers |-> Absent] /\ before = [c \in Callers |-> {}]

-----------------------------------------------------------------------------
(* Helpers *)

Goto(c, place) == pc' = [pc EXCEPT ![c] = place] /\ UNCHANGED status

End(c, how) == /\ pc' = [pc EXCEPT ![c] = "end"]
               /\ status' = [status EXCEPT ![c] = how]

\* Mutant of CleanTemp: the error path forgets its temporary file.
KeepTemp(c) == UNCHANGED tmp

(* The error paths of writeBytesAt and Delete unlink what they made.        *)
CleanTemp(c) == tmp' = [tmp EXCEPT ![c] = Absent]

CleanBackup(c) == backup' = [backup EXCEPT ![c] = Absent]

\* CreateTempFile: a new name, so never a file of another call.
NewFile(files, c) == [files EXCEPT ![c] = Torn]

\* OpenExistingFile finds something to open.
Exists(n) == dir[n] # Absent

\* ResolveNewTargetPath: the target is not there yet.
Free(n) == ~Exists(n)

Show(n, content) == /\ dir' = [dir EXCEPT ![n] = content]
                    /\ versions' = versions \cup {<<n, content>>}

\* Mutant of Merge: fields the call does not name are dropped.
Overwrite(c, old) == [f \in Fields |-> IF f \in op[c].sets \cup {"lastmod"} THEN c
                                       ELSE Unset]

(* Update: what the call names replaces what was read, null deletes, and    *)
(* lastmod is always set.                                                  *)
Merge(c, old) == [f \in Fields |-> IF f \in op[c].sets \cup {"lastmod"} THEN c
                                   ELSE IF f \in op[c].drops THEN Unset ELSE old[f]]

-----------------------------------------------------------------------------
(* The checks on the input decide whether a call gets to write.            *)
BeginCreate(c) ==
    /\ pc[c] = "idle" /\ op[c].tool = "create_page"
    /\ target' = [target EXCEPT ![c] = op[c].lang]
    /\ page' = [page EXCEPT ![c] = New(c)]
    /\ IF op[c].valid THEN Goto(c, "temp") ELSE End(c, "error")
    /\ UNCHANGED <<fsVars, historyVars, op>>

(* ResolveNewTargetPath also refuses an asset that exists already.         *)
BeginUpload(c) ==
    /\ pc[c] = "idle" /\ op[c].tool = "upload_asset"
    /\ target' = [target EXCEPT ![c] = "logo"]
    /\ page' = [page EXCEPT ![c] = New(c)]
    /\ IF op[c].valid /\ Free("logo") THEN Goto(c, "temp") ELSE End(c, "error")
    /\ UNCHANGED <<fsVars, historyVars, op>>

(* update_page and delete_page look for the page first.                    *)
BeginChange(c) ==
    /\ pc[c] = "idle" /\ op[c].tool \in {"update_page", "delete_page"}
    /\ Goto(c, "find")
    /\ UNCHANGED <<fsVars, target, page, historyVars, op>>

(* findPage: the page in its language, or else index.md.                   *)
Candidates(c) == IF dir[op[c].lang] # Absent THEN {op[c].lang}
                 ELSE {n \in {"plain"} : dir[n] # Absent}

Find(c) ==
    /\ pc[c] = "find"
    /\ \/ \E n \in Candidates(c) : target' = [target EXCEPT ![c] = n] /\ Goto(c, "read")
       \/ Candidates(c) = {} /\ End(c, "error") /\ UNCHANGED target
    /\ UNCHANGED <<fsVars, page, historyVars, op>>

\* Mutant of Parsed: what does not parse is carried on as it is.
Unparsed(content) == content

(* ParseFile takes anything: what has no frontmatter is a page without any. *)
Parsed(content) == IF content = Torn THEN [f \in Fields |-> Unset] ELSE content

(* Get parses the file it has found, if it is still there.                 *)
Read(c) ==
    /\ pc[c] = "read"
    /\ IF dir[target[c]] # Absent
       THEN /\ page' = [page EXCEPT ![c] = Parsed(dir[target[c]])]
            /\ before' = [before EXCEPT ![c] = {d \in Callers : pc[d] = "end"}]
            /\ Goto(c, IF op[c].tool = "delete_page" THEN "backup" ELSE "check")
       ELSE End(c, "error") /\ UNCHANGED <<page, before>>
    /\ UNCHANGED <<fsVars, target, versions, removed, op>>

(* Update validates and merges, and makes sure that the file exists.       *)
Check(c) ==
    /\ pc[c] = "check"
    /\ IF op[c].valid /\ Exists(target[c])
       THEN page' = [page EXCEPT ![c] = Merge(c, @)] /\ Goto(c, "temp")
       ELSE End(c, "error") /\ UNCHANGED page
    /\ UNCHANGED <<fsVars, target, historyVars, op>>

-----------------------------------------------------------------------------
(* writeBytesAt                                                            *)
MakeTemp(c) ==
    /\ pc[c] = "temp"
    /\ \/ tmp' = NewFile(tmp, c) /\ Goto(c, "write")
       \/ End(c, "error") /\ UNCHANGED tmp
    /\ UNCHANGED <<dir, dirty, backup, target, page, historyVars, op>>

\* Mutant of ShortWrite: the error of Write is dropped.
IgnoreShortWrite(c) == Goto(c, "rename") /\ UNCHANGED tmp

(* Write or Close fails, the disk being full for instance.                  *)
ShortWrite(c) == CleanTemp(c) /\ End(c, "error")

WriteTemp(c) ==
    /\ pc[c] = "write"
    /\ \/ tmp' = [tmp EXCEPT ![c] = page[c]] /\ Goto(c, "rename")
       \/ ShortWrite(c)
    /\ UNCHANGED <<dir, dirty, backup, target, page, historyVars, op>>

Creates(c) == op[c].tool \in {"create_page", "upload_asset"}

(* renameat2 with RENAME_NOREPLACE for a new file, renameat otherwise.     *)
MayRename(c) == Creates(c) => ~Exists(target[c])

Rename(c) ==
    /\ pc[c] = "rename"
    /\ \/ /\ MayRename(c)
          /\ Show(target[c], tmp[c])
          /\ tmp' = [tmp EXCEPT ![c] = Absent]
          /\ dirty' = dirty \cup {target[c]}
          /\ End(c, IF Creates(c) THEN "created" ELSE "updated")
       \/ /\ CleanTemp(c)
          /\ End(c, "error")
          /\ UNCHANGED <<dir, dirty, versions>>
    /\ UNCHANGED <<backup, target, page, removed, before, op>>

-----------------------------------------------------------------------------
(* Delete                                                                  *)
MakeBackup(c) ==
    /\ pc[c] = "backup"
    /\ \/ backup' = NewFile(backup, c) /\ Goto(c, "open")
       \/ End(c, "error") /\ UNCHANGED backup
    /\ UNCHANGED <<dir, dirty, tmp, target, page, historyVars, op>>

OpenPage(c) ==
    /\ pc[c] = "open"
    /\ IF Exists(target[c])
       THEN /\ page' = [page EXCEPT ![c] = dir[target[c]]]
            /\ Goto(c, "save")
            /\ UNCHANGED backup
       ELSE CleanBackup(c) /\ End(c, "error") /\ UNCHANGED page
    /\ UNCHANGED <<dir, dirty, tmp, target, historyVars, op>>

\* Mutant of Saved: the backup is created and never filled.
SavedNothing(c) == UNCHANGED backup

Saved(c) == backup' = [backup EXCEPT ![c] = page[c]]

SaveBackup(c) ==
    /\ pc[c] = "save"
    /\ \/ Saved(c) /\ Goto(c, "unlink")
       \/ CleanBackup(c) /\ End(c, "error")
    /\ UNCHANGED <<dir, dirty, tmp, target, page, historyVars, op>>

Unlink(c) ==
    /\ pc[c] = "unlink"
    /\ \/ /\ dir[target[c]] # Absent
          /\ dir' = [dir EXCEPT ![target[c]] = Absent]
          /\ removed' = [removed EXCEPT ![c] = dir[target[c]]]
          /\ dirty' = dirty \ {target[c]}
          /\ End(c, "deleted") /\ UNCHANGED backup
       \/ CleanBackup(c) /\ End(c, "error") /\ UNCHANGED <<dir, dirty, removed>>
    /\ UNCHANGED <<tmp, target, page, versions, before, op>>

-----------------------------------------------------------------------------
(* The kernel writes back what it holds; the code never calls fsync.       *)
WriteBack ==
    /\ PowerMayFail
    /\ \E n \in dirty : dirty' = dirty \ {n}
    /\ UNCHANGED <<dir, tmp, backup, localVars, historyVars, op>>

\* Every call that has begun and not ended.
LoseCalls ==
    /\ \E c \in Callers : pc[c] \notin {"idle", "end"}
    /\ pc' = [c \in Callers |-> IF pc[c] = "idle" THEN "idle" ELSE "end"]
    /\ status' = [c \in Callers |-> IF pc[c] \in {"idle", "end"} THEN status[c]
                                    ELSE "lost"]
    /\ UNCHANGED <<target, page>>

(* The process dies; what it wrote stays, temporary files included.        *)
Crash == LoseCalls /\ UNCHANGED <<fsVars, historyVars, op>>

(* A renamed file whose data was not on disk comes back incomplete.        *)
PowerFailure ==
    /\ PowerMayFail /\ LoseCalls
    /\ \E lost \in SUBSET dirty :
           /\ dir' = [n \in Names |-> IF n \in lost THEN Torn ELSE dir[n]]
           /\ versions' = versions \cup {<<n, Torn>> : n \in lost}
    /\ dirty' = {}
    /\ UNCHANGED <<tmp, backup, removed, before, op>>

Step(c) == \/ BeginCreate(c) \/ BeginUpload(c) \/ BeginChange(c)
           \/ Find(c) \/ Read(c) \/ Check(c)
           \/ MakeTemp(c) \/ WriteTemp(c) \/ Rename(c)
           \/ MakeBackup(c) \/ OpenPage(c) \/ SaveBackup(c) \/ Unlink(c)

Quiet == (\A c \in Callers : pc[c] = "end") /\ UNCHANGED vars

Next == (\E c \in Callers : Step(c)) \/ WriteBack \/ Crash \/ PowerFailure \/ Quiet

Spec == Init /\ [][Next]_vars

-----------------------------------------------------------------------------
(* Properties *)

TypeOK ==
    /\ op \in Mixes
    /\ dir \in [Names -> Whole \cup {Torn, Absent}]
    /\ dirty \subseteq Names
    /\ tmp \in [Callers -> Whole \cup {Torn, Absent}]
    /\ backup \in [Callers -> Whole \cup {Torn, Absent}]
    /\ pc \in [Callers -> PCs]
    /\ status \in [Callers -> {"none", "created", "updated", "deleted", "error", "lost"}]
    /\ target \in [Callers -> Names]
    /\ page \in [Callers -> Whole \cup {Torn, Absent}]
    /\ before \in [Callers -> SUBSET Callers]
    /\ \A c \in Callers : page[c] = Torn => op[c].tool = "delete_page"

(* Create, Update, Delete, UploadAsset: readers only ever see whole files, *)
(* a new file never replaces one, and a failed call has no effect.  Only a *)
(* power failure shows more, for the code never calls fsync.               *)
ImplementsContract ==
    Contract!Init /\ [][Contract!Next \/ PowerFailure]_<<dir, status>>

(* The error paths of writeBytesAt and Delete: a call that returned an     *)
(* error leaves neither a temporary file nor a backup behind; one that     *)
(* succeeded leaves no temporary file.                                     *)
NothingLeftBehind ==
    \A c \in Callers :
        /\ status[c] \in {"created", "updated", "deleted", "error"} => tmp[c] = Absent
        /\ status[c] \in {"created", "updated", "error"} => backup[c] = Absent

(* Delete: the backup of a deleted page is something that page has shown,  *)
(* whatever else failed or ran at the same time.                           *)
BackupWasVisible ==
    \A c \in Callers : status[c] = "deleted" => <<target[c], backup[c]>> \in versions

(* Update: a call that read the page after another update had returned     *)
(* keeps what that one wrote, fields it names itself apart, and what it    *)
(* wrote is what the page shows, as long as no third call has begun.        *)
LaterUpdateKeepsFields ==
    \A c, d \in Callers :
        /\ status[c] = "updated" /\ status[d] = "updated"
        /\ target[c] = target[d] /\ d \in before[c]
        /\ \A e \in Callers \ {c, d} : pc[e] = "idle"
        => /\ \A f \in op[d].sets \ (op[c].sets \cup op[c].drops) : page[c][f] = d
           /\ dir[target[c]] = page[c]

(* What the documents say and the code does not do.                        *)

(* PHASE2_STAGING_MODEL.md:49, "move the file to a rollback location":     *)
(* what a delete removed is what its backup holds.                         *)
DeletedIsBackedUp ==
    \A c \in Callers : status[c] = "deleted" => backup[c] = removed[c]

(* PHASE2_REPORT.md:72, "deep-merges frontmatter": updates of different    *)
(* fields that both succeeded are both in the page.                        *)
UpdatesAreMerged ==
    \A c, d \in Callers :
        /\ c # d /\ status[c] = "updated" /\ status[d] = "updated"
        /\ op[c].sets \cap op[d].sets = {} /\ target[c] = target[d]
        => \A f \in op[c].sets : dir[target[c]][f] = c

(* PHASE2_REPORT.md:81, "removes the content file": a deleted page stays   *)
(* deleted when nobody creates it.                                         *)
DeletedStaysDeleted ==
    (\A d \in Callers : ~Creates(d) \/ status[d] # "created") =>
        \A c \in Callers : status[c] = "deleted" => dir[target[c]] = Absent

(* HUGO_MCP_GO_REPO_PLAN.md:197, "non-existent page errors": of two        *)
(* deletes of one page, one tried again for instance, one fails.           *)
SecondDeleteFails ==
    \A c, d \in Callers :
        /\ c # d /\ op[c] = op[d] /\ op[c].tool = "delete_page"
        => ~(status[c] = "deleted" /\ status[d] = "deleted")

(* PHASE2_STAGING_MODEL.md:42, "fsync and atomically rename": a page is    *)
(* whole even after a power failure.                                       *)
PagesAreWhole == \A n \in Names : dir[n] # Torn
=============================================================================

--------------------------- MODULE AtomicReplace ---------------------------
(***************************************************************************)
(* Replacement and removal of one component file: write_bytes_atomic of    *)
(* atomic_json.rs (temporary sibling, write, sync, replace, sync of the    *)
(* directory) and remove_if_exists of persistence.rs, step by step, for    *)
(* several threads or processes that share the path, with a crash of the   *)
(* process or a power loss between any two steps.                          *)
(***************************************************************************)
EXTENDS FileContents

CONSTANTS Writers,         \* threads or processes that use the path
          Torn,            \* bytes of a file whose data never reached the disk
          WriteThrough     \* TRUE: MoveFileExW with write-through (Windows)

ASSUME TornAssumption == Torn \notin Contents /\ WriteThrough \in BOOLEAN

VARIABLES pc,              \* where each writer is in the call
          val,             \* what the call is to leave at the path
          temp,            \* the caller's temporary file
          result,          \* what the last call of each writer returned
          visible,         \* what the path resolves to
          landing,         \* what the visible file's bytes may be once the
                           \* directory is on disk and power was lost
          survivors,       \* what the path may hold after a power loss
          committer        \* history: the call that last changed the path

replaceVars == <<pc, val, temp, result, visible, landing, survivors, committer>>

Steps == {"idle", "create", "write", "sync", "replace", "syncdir", "unlink"}
Results == {"none", "ok", "notCommitted", "uncertain"}

ReplaceTypeOK ==
  /\ pc \in [Writers -> Steps]
  /\ val \in [Writers -> Contents]
  /\ temp \in [Writers -> {"none", "empty", "written", "synced"}]
  /\ result \in [Writers -> Results]
  /\ visible \in Contents \cup {Torn}
  /\ landing \subseteq Contents \cup {Torn}
  /\ survivors \subseteq Contents \cup {Torn}
  /\ committer \in [Writers -> BOOLEAN]

ReplaceInit ==
  /\ pc = [w \in Writers |-> "idle"]
  /\ val = [w \in Writers |-> Absent]
  /\ temp = [w \in Writers |-> "none"]
  /\ result = [w \in Writers |-> "none"]
  /\ visible \in Contents
  /\ landing = {visible}
  /\ survivors = {visible}
  /\ committer = [w \in Writers |-> FALSE]

-----------------------------------------------------------------------------
Goto(w, step) == pc' = [pc EXCEPT ![w] = step]

Return(w, r) == /\ Goto(w, "idle")
                /\ result' = [result EXCEPT ![w] = r]

\* The path now resolves to what w put there; w alone is its author.
Install(w, c, bytes) ==
  /\ visible' = c
  /\ landing' = bytes
  /\ committer' = [x \in Writers |-> x = w]

BeginWrite(w, v) ==
  /\ pc[w] = "idle"
  /\ Goto(w, "create")
  /\ val' = [val EXCEPT ![w] = v]
  /\ result' = [result EXCEPT ![w] = "none"]
  /\ committer' = [committer EXCEPT ![w] = FALSE]
  /\ UNCHANGED <<temp, visible, landing, survivors>>

\* create_dir_all and create_temp_file: a name no other writer uses.
CreateTemp(w) ==
  /\ pc[w] = "create"
  /\ Goto(w, "write")
  /\ temp' = [temp EXCEPT ![w] = "empty"]
  /\ UNCHANGED <<val, result, visible, landing, survivors, committer>>

WriteAll(w) ==
  /\ pc[w] = "write"
  /\ Goto(w, "sync")
  /\ temp' = [temp EXCEPT ![w] = "written"]
  /\ UNCHANGED <<val, result, visible, landing, survivors, committer>>

SyncFileSkipped(w) ==
  /\ pc[w] = "sync"
  /\ Goto(w, "replace")
  /\ UNCHANGED <<val, temp, result, visible, landing, survivors, committer>>

SyncFile(w) ==
  /\ pc[w] = "sync"
  /\ Goto(w, "replace")
  /\ temp' = [temp EXCEPT ![w] = "synced"]
  /\ UNCHANGED <<val, result, visible, landing, survivors, committer>>

\* The bytes of w's temporary file that a power loss may leave.
DurableBytes(w) == IF temp[w] = "synced" THEN {val[w]} ELSE {val[w], Torn}

ReplaceWithoutDirectorySync(w) ==
  /\ pc[w] = "replace"
  /\ Install(w, val[w], DurableBytes(w))
  /\ temp' = [temp EXCEPT ![w] = "none"]
  /\ survivors' = survivors \cup DurableBytes(w)
  /\ Return(w, "ok")
  /\ UNCHANGED val

\* replace_file: the Windows move is durable when it returns, the Unix rename
\* only after the directory is synced.
Replace(w) ==
  /\ pc[w] = "replace"
  /\ Install(w, val[w], DurableBytes(w))
  /\ temp' = [temp EXCEPT ![w] = "none"]
  /\ IF WriteThrough
     THEN /\ survivors' = DurableBytes(w)
          /\ Return(w, "ok")
     ELSE /\ survivors' = survivors \cup DurableBytes(w)
          /\ Goto(w, "syncdir")
          /\ UNCHANGED result
  /\ UNCHANGED val

\* sync_all of the parent directory: whatever is visible stays.
SyncDirectory(w) ==
  /\ pc[w] = "syncdir"
  /\ survivors' = landing
  /\ Return(w, "ok")
  /\ UNCHANGED <<val, temp, visible, landing, committer>>

\* Any step before the replacement fails: the temporary file is removed and
\* the destination is left alone.
FailBeforeCommit(w) ==
  /\ pc[w] \in {"create", "write", "sync", "replace", "unlink"}
  /\ temp' = [temp EXCEPT ![w] = "none"]
  /\ Return(w, "notCommitted")
  /\ UNCHANGED <<val, visible, landing, survivors, committer>>

\* The rename or unlink happened and syncing the directory failed.
FailDirectorySync(w) ==
  /\ pc[w] = "syncdir"
  /\ Return(w, "uncertain")
  /\ UNCHANGED <<val, temp, visible, landing, survivors, committer>>

BeginRemove(w) ==
  /\ pc[w] = "idle"
  /\ Goto(w, "unlink")
  /\ val' = [val EXCEPT ![w] = Absent]
  /\ result' = [result EXCEPT ![w] = "none"]
  /\ committer' = [committer EXCEPT ![w] = FALSE]
  /\ UNCHANGED <<temp, visible, landing, survivors>>

\* remove_if_exists: a name that is already gone is success without a sync;
\* on Windows nothing is synced at all.
Unlink(w) ==
  /\ pc[w] = "unlink"
  /\ IF visible = Absent
     THEN /\ Return(w, "ok")
          /\ UNCHANGED <<visible, landing, survivors, committer>>
     ELSE /\ Install(w, Absent, {Absent})
          /\ survivors' = survivors \cup {Absent}
          /\ IF WriteThrough
             THEN Return(w, "ok")
             ELSE Goto(w, "syncdir") /\ UNCHANGED result
  /\ UNCHANGED <<val, temp>>

\* The process dies: its temporary file is left behind under a name nobody
\* reuses, the path stays as it is.
ProcessCrash(w) ==
  /\ pc[w] # "idle"
  /\ Goto(w, "idle")
  /\ temp' = [temp EXCEPT ![w] = "none"]
  /\ UNCHANGED <<val, result, visible, landing, survivors, committer>>

PowerLoss ==
  /\ visible' \in survivors
  /\ landing' = {visible'}
  /\ survivors' = {visible'}
  /\ pc' = [w \in Writers |-> "idle"]
  /\ temp' = [w \in Writers |-> "none"]
  /\ result' = [w \in Writers |-> "none"]
  /\ committer' = [w \in Writers |-> FALSE]
  /\ UNCHANGED val

ReplaceNext ==
  \/ \E w \in Writers :
       \/ \E v \in Values : BeginWrite(w, v)
       \/ CreateTemp(w)
       \/ WriteAll(w)
       \/ SyncFile(w)
       \/ Replace(w)
       \/ SyncDirectory(w)
       \/ FailBeforeCommit(w)
       \/ FailDirectorySync(w)
       \/ BeginRemove(w)
       \/ Unlink(w)
       \/ ProcessCrash(w)
  \/ PowerLoss

ReplaceSpec == ReplaceInit /\ [][ReplaceNext]_replaceVars

-----------------------------------------------------------------------------
\* A call whose Ok means durable: every write, and a removal on Unix.
Settles(w) == val[w] # Absent \/ ~WriteThrough

\* What a caller is told is true of the disk, whatever the other writers did
\* in between: after Ok, if nobody replaced the file since, no power loss can
\* undo the call; after NotCommitted the call changed nothing.
ResultIsTruthful ==
  \A w \in Writers :
    /\ result[w] = "ok" /\ committer[w] /\ Settles(w) => survivors = {val[w]}
    /\ result[w] = "notCommitted" => ~committer[w]

\* The step-by-step replacement implements the cell that holds whole values:
\* no crash or power loss at any point shows a reader torn bytes, or a value
\* that was never committed or that a later settled one replaced.
Cell == INSTANCE DurableCell WITH Contents <- Contents, visible <- visible, survivors <- survivors
ImplementsCell == Cell!CellSpec

\* The inductive invariant: only a synced temporary file is ever renamed, a
\* call under way has not returned, and the visible file is whole and carries
\* the value of its author.
ReplaceInv ==
  /\ ReplaceTypeOK
  /\ \A w \in Writers : pc[w] = "replace" => temp[w] = "synced"
  /\ \A w \in Writers : pc[w] \in {"create", "write", "sync", "replace"} => ~committer[w]
  /\ \A w \in Writers : pc[w] = "unlink" => ~committer[w] /\ val[w] = Absent
  /\ \A w \in Writers : pc[w] # "idle" => result[w] = "none"
  /\ \A w \in Writers : committer[w] => visible = val[w]
  /\ \A w, x \in Writers : committer[w] /\ committer[x] => w = x
  /\ visible \in Contents
  /\ landing = {visible}
  /\ survivors \subseteq Contents
  /\ ResultIsTruthful
=============================================================================

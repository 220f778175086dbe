-------------------------- MODULE LocalFileSystem ---------------------------
(***************************************************************************)
(* internal/fs: the operations behind the eight tools, one system call per *)
(* step, run by several processes on one root.  A server is a single       *)
(* goroutine, so each process has one operation at a time; the others are  *)
(* further servers (or anything else) that work on the same root.          *)
(*                                                                         *)
(* PathGuard.Resolve* is one step: without links below the root it is an   *)
(* existence check (links are the subject of PathGuard.tla).  WalkDir,     *)
(* ReadDir, ReadFile, io.Copy and MkdirAll are one step each as well;      *)
(* RemoveAll, and the loop over the entries of a listing, are not.         *)
(***************************************************************************)
EXTENDS FileTree

CONSTANTS Procs,             \* processes that share the root
          Requests,          \* the operations a process may be asked for
          MaxOps,            \* bound: operations per process
          InitialTrees,      \* [tree, inode] records the root may start with
          MaxWriteBytes, MaxCopyBytes, MaxListEntries, MaxDeleteEntries,
          DiskMayFail        \* a write may fail after the file was opened

ASSUME LimitsAssumption ==
    /\ {MaxWriteBytes, MaxCopyBytes, MaxListEntries, MaxDeleteEntries} \subseteq Nat \ {0}
    /\ DiskMayFail \in BOOLEAN

\* The eight tools; a read asks for at least one byte (tool_read_file.go).
ASSUME RequestsAssumption ==
    \A r \in Requests : /\ r.kind \in {"read", "stat", "list", "write", "copy", "mkdir", "delete", "move"}
                        /\ r.path \in Paths /\ r.target \in Paths
                        /\ r.content \in Seq(Bytes)
                        /\ r.max \in Nat /\ (r.kind = "read" => r.max > 0)
                        /\ r.overwrite \in BOOLEAN /\ r.recursive \in BOOLEAN

ASSUME TreesAssumption ==
    \A t \in InitialTrees :
       /\ t.inode \in Seq(Node) /\ t.tree \in [Paths -> 0..Len(t.inode)]
       /\ \A i \in 1..Len(t.inode) : t.inode[i].kind = "dir" => t.inode[i] = Dir
       /\ \A q, a \in Paths : t.tree[q] # 0 =>
            /\ t.tree[q] = t.tree[a] => q = a
            /\ Under(q, a) => t.tree[a] # 0 /\ t.inode[t.tree[a]].kind = "dir"

VARIABLES op,      \* the request a process is working on, or worked on last
          pc,      \* the system call it makes next; "idle" between operations
          loc,     \* what it remembers between two calls
          result,  \* what its last operation returned
          used,    \* operations it has started
          ghost    \* history, read by the properties only

procVars == <<op, pc, loc, result, used>>
vars == <<fsVars, procVars, ghost>>

-----------------------------------------------------------------------------
(* Errors and results *)

\* classifyFilesystemError: the category the client is told.
Category(e) ==
    CASE e \in {"ErrOutsideRoot", "ErrSamePath", "ErrMoveIntoSelf", "ErrMovePathChanged"} -> "invalid_path"
      [] e \in {"ErrNotFound", "ENOENT"} -> "not_found"
      [] e \in {"ErrFileExists", "EEXIST", "ENOTEMPTY"} -> "already_exists"
      [] e \in {"ErrPathIsDirectory", "ErrPathIsNotDirectory", "ErrCopyDirectoryUnsupported",
                "ErrMoveTypeMismatch", "ErrDirectoryNotEmpty"} -> "unsupported_path_type"
      [] e \in {"ErrFileTooLarge", "ErrLimitExceeded"} -> "limit_exceeded"
      [] OTHER -> "io_error"

\* mapFilesystemError: the JSON-RPC code.
ErrorCode(e) == IF Category(e) = "io_error" THEN "InternalError" ELSE "InvalidParams"

NoResult == [err |-> "none", data |-> <<>>, created |-> FALSE, names |-> {}, kind |-> "none"]
Ok == [NoResult EXCEPT !.err = "ok"]
Failed(e) == [NoResult EXCEPT !.err = e]

NoLocals == [src |-> 0, dst |-> 0, entries |-> {}, names |-> {}]
NoOp == [kind |-> "none", path |-> Root, target |-> Root, content |-> <<>>,
         overwrite |-> FALSE, recursive |-> FALSE, max |-> 0]

Init ==
    /\ \E t \in InitialTrees : tree = t.tree /\ inode = t.inode
    /\ op = [p \in Procs |-> NoOp]
    /\ pc = [p \in Procs |-> "idle"]
    /\ loc = [p \in Procs |-> NoLocals]
    /\ result = [p \in Procs |-> NoResult]
    /\ used = [p \in Procs |-> 0]
    /\ ghost = [p \in Procs |-> [before |-> <<tree, inode>>, disturbed |-> FALSE,
                                 late |-> {}, touched |-> FALSE, made |-> {}]]

-----------------------------------------------------------------------------
(* Steps *)

\* What a step of revalidateMoveState settles.
Settled(label) == CASE label = "revalidatesource" -> {"src"}
                    [] label = "revalidatetarget" -> {"dst"}
                    [] OTHER -> {}

\* History of a step of p: every other process is disturbed by a change.
Record(p) ==
    LET changed == tree' # tree \/ inode' # inode
    IN ghost' = [q \in Procs |->
         IF q = p
         THEN [ghost[p] EXCEPT !.touched = @ \/ changed,
                               !.late = @ \ Settled(pc[p]),
                               !.made = @ \cup (Len(inode) + 1)..Len(inode')]
         ELSE [ghost[q] EXCEPT !.disturbed = @ \/ changed,
                               !.late = IF changed THEN {"src", "dst"} ELSE @]]

At(p, kind, label) == op[p].kind = kind /\ pc[p] = label

Goto(p, label) == pc' = [pc EXCEPT ![p] = label] /\ UNCHANGED result
Return(p, r) == /\ pc' = [pc EXCEPT ![p] = "idle"]
                /\ result' = [result EXCEPT ![p] = r]
Looks == UNCHANGED fsVars   \* the step only looks at the file system
Keeps == UNCHANGED loc
Remember(p, field, value) == loc' = [loc EXCEPT ![p][field] = value]

\* A call that answers e: fail with it, or go on.
Checked(p, e, label) == IF e = "ok" THEN Goto(p, label) ELSE Return(p, Failed(e))

Start(p, r) ==
    /\ pc[p] = "idle" /\ used[p] < MaxOps
    /\ op' = [op EXCEPT ![p] = r]
    /\ pc' = [pc EXCEPT ![p] = "resolve"]
    /\ loc' = [loc EXCEPT ![p] = NoLocals]
    /\ result' = [result EXCEPT ![p] = NoResult]
    /\ used' = [used EXCEPT ![p] = @ + 1]
    /\ ghost' = [ghost EXCEPT ![p] = [before |-> <<tree, inode>>, disturbed |-> FALSE,
                                      late |-> {"src", "dst"}, touched |-> FALSE, made |-> {}]]
    /\ Looks

-----------------------------------------------------------------------------
(* PathGuard on a tree without links *)

ResolveExisting(q) == Lookup(q)

ResolveForCreate(q) ==
    IF Lookup(q) # "ENOENT" THEN Lookup(q)
    ELSE IF \E a \in Paths : Under(q, a) /\ Exists(a) THEN "ok" ELSE "ErrOutsideRoot"

\* Move and Stat turn a missing source into ErrNotFound.
NotFound(e) == IF e = "ENOENT" THEN "ErrNotFound" ELSE e

ResolveError(r) ==
    CASE r.kind \in {"list", "read", "delete"} -> ResolveExisting(r.path)
      [] r.kind = "stat" -> NotFound(ResolveExisting(r.path))
      [] r.kind \in {"write", "mkdir"} -> ResolveForCreate(r.path)
      [] r.kind = "copy" -> IF ResolveExisting(r.path) # "ok" THEN ResolveExisting(r.path)
                            ELSE ResolveForCreate(r.target)
      [] r.kind = "move" -> IF ResolveExisting(r.path) # "ok" THEN NotFound(ResolveExisting(r.path))
                            ELSE IF ResolveForCreate(r.target) # "ok" THEN ResolveForCreate(r.target)
                            ELSE IF r.path = r.target THEN "ErrSamePath" ELSE "ok"

\* The first step of every operation, with the checks that need no call.
Resolve(p) ==
    /\ pc[p] = "resolve"
    /\ LET r == op[p]
           e == ResolveError(r)
       IN IF e = "ok" /\ r.kind = "write" /\ Len(r.content) > MaxWriteBytes
          THEN Return(p, Failed("ErrLimitExceeded"))
          ELSE IF e = "ok" /\ r.kind = "mkdir" /\ r.path = Root
          THEN Return(p, Ok)
          ELSE Checked(p, e, CASE r.kind = "mkdir" -> "mkdirall"
                               [] r.kind = "list" -> "readdir"
                               [] OTHER -> "stat")
    /\ Looks /\ Keeps

-----------------------------------------------------------------------------
(* Read, Stat, List *)

ReadStat(p) ==
    /\ At(p, "read", "stat")
    /\ LET r == op[p]
       IN IF ~Exists(r.path) THEN Return(p, Failed(Lookup(r.path)))
          ELSE IF IsDir(r.path) THEN Return(p, Failed("ErrPathIsDirectory"))
          ELSE IF r.max = 0 \/ Len(inode[tree[r.path]].data) > r.max THEN Return(p, Failed("ErrFileTooLarge"))
          ELSE Goto(p, "readfile")
    /\ Looks /\ Keeps

ReadFile(p) ==
    /\ At(p, "read", "readfile")
    /\ LET q == op[p].path
       IN IF ~Exists(q) THEN Return(p, Failed(Lookup(q)))
          ELSE IF IsDir(q) THEN Return(p, Failed("EISDIR"))
          ELSE Return(p, [Ok EXCEPT !.data = inode[tree[q]].data])
    /\ Looks /\ Keeps

Stat(p) ==
    /\ At(p, "stat", "stat")
    /\ LET q == op[p].path
       IN IF Exists(q)
          THEN Return(p, [Ok EXCEPT !.kind = inode[tree[q]].kind, !.data = inode[tree[q]].data])
          ELSE Return(p, Failed(NotFound(Lookup(q))))
    /\ Looks /\ Keeps

Children(q) == {c \in Below(q) : Len(c) = Len(q) + 1}

ListReadDir(p) ==
    /\ At(p, "list", "readdir")
    /\ LET q == op[p].path
       IN IF IsDir(q) THEN /\ Goto(p, "entries")
                           /\ Remember(p, "entries", Children(q))
          ELSE /\ Return(p, Failed(IF Exists(q) THEN "ENOTDIR" ELSE Lookup(q)))
               /\ Keeps
    /\ Looks

\* One entry: AllowListEntry, the limit, Info.  An entry that is gone by now
\* fails the whole listing.
ListEntry(p) ==
    /\ At(p, "list", "entries")
    /\ \/ /\ loc[p].entries = {}
          /\ Return(p, [Ok EXCEPT !.names = loc[p].names])
          /\ Keeps
       \/ \E c \in loc[p].entries :
             IF ~Exists(c) THEN Return(p, Failed(Lookup(c))) /\ Keeps
             ELSE IF Cardinality(loc[p].names) >= MaxListEntries
             THEN Return(p, Failed("ErrLimitExceeded")) /\ Keeps
             ELSE /\ loc' = [loc EXCEPT ![p].entries = @ \ {c}, ![p].names = @ \cup {c}]
                  /\ UNCHANGED <<pc, result>>
    /\ Looks

-----------------------------------------------------------------------------
(* Write and Copy *)

\* Write's own check and Copy's ensureTargetPolicy, which differ in order.
TargetPolicy(q, overwrite, dirFirst) ==
    IF ~Exists(q) THEN IF Lookup(q) = "ENOENT" THEN "ok" ELSE Lookup(q)
    ELSE IF IsDir(q) /\ (dirFirst \/ overwrite) THEN "ErrPathIsDirectory"
    ELSE IF ~overwrite THEN "ErrFileExists"
    ELSE "ok"

WriteStat(p) ==
    /\ At(p, "write", "stat")
    /\ Checked(p, TargetPolicy(op[p].path, op[p].overwrite, TRUE), "open")
    /\ Looks /\ Keeps

CopyStat(p) ==
    /\ At(p, "copy", "stat")
    /\ LET q == op[p].path
       IN IF ~Exists(q) THEN Return(p, Failed(Lookup(q)))
          ELSE IF IsDir(q) THEN Return(p, Failed("ErrCopyDirectoryUnsupported"))
          ELSE IF Len(inode[tree[q]].data) > MaxCopyBytes THEN Return(p, Failed("ErrLimitExceeded"))
          ELSE Goto(p, "target")
    /\ Looks /\ Keeps

CopyTarget(p) ==
    /\ At(p, "copy", "target")
    /\ Checked(p, TargetPolicy(op[p].target, op[p].overwrite, FALSE), "opensource")
    /\ Looks /\ Keeps

\* Opening a directory for reading succeeds; io.Copy then fails.
CopyOpenSource(p) ==
    /\ At(p, "copy", "opensource")
    /\ Checked(p, Lookup(op[p].path), "open")
    /\ Remember(p, "src", tree[op[p].path])
    /\ Looks

\* Mutant: O_EXCL is forgotten.
OpenWithoutExcl(p) ==
    /\ pc[p] = "open"
    /\ LET q == IF op[p].kind = "copy" THEN op[p].target ELSE op[p].path
           e == OpenError(q, TRUE)
       IN IF e = "ok"
          THEN /\ OpenTruncate(q)
               /\ Remember(p, "dst", tree'[q])
               /\ Goto(p, "transfer")
          ELSE Return(p, Failed(e)) /\ Looks /\ Keeps

\* os.OpenFile with O_EXCL or O_TRUNC; EEXIST is reported as ErrFileExists.
Open(p) ==
    /\ pc[p] = "open"
    /\ LET q == IF op[p].kind = "copy" THEN op[p].target ELSE op[p].path
           e == OpenError(q, op[p].overwrite)
       IN IF e = "ok"
          THEN /\ OpenTruncate(q)
               /\ Remember(p, "dst", tree'[q])
               /\ Goto(p, "transfer")
          ELSE /\ Return(p, Failed(IF e = "EEXIST" THEN "ErrFileExists" ELSE e))
               /\ Looks /\ Keeps

\* file.Write, or io.Copy, on the open handles; both may hit a full disk.
Transfer(p) ==
    /\ pc[p] = "transfer"
    /\ LET l == loc[p]
           fromDir == op[p].kind = "copy" /\ inode[l.src].kind = "dir"
           bytes == IF op[p].kind = "copy" THEN inode[l.src].data ELSE op[p].content
       IN \/ /\ ~fromDir
             /\ WriteAt(l.dst, bytes)
             /\ tree' = tree
             /\ Return(p, Ok)
          \/ /\ fromDir
             /\ Return(p, Failed("EISDIR")) /\ Looks
          \/ /\ DiskMayFail
             /\ Return(p, Failed("EIO")) /\ Looks
    /\ Keeps

-----------------------------------------------------------------------------
(* Mkdir *)

MkdirParents(p) ==
    /\ At(p, "mkdir", "mkdirall")
    /\ LET parent == Parent(op[p].path)
       IN /\ Checked(p, MkdirAllError(parent), "mkdir")
          /\ IF MkdirAllError(parent) = "ok" THEN MkdirAll(parent) ELSE Looks
    /\ Keeps

MkdirLeaf(p) ==
    /\ At(p, "mkdir", "mkdir")
    /\ LET q == op[p].path
           e == MkdirError(q)
       IN \/ /\ e = "ok"
             /\ Create(q, Dir)
             /\ Return(p, [Ok EXCEPT !.created = TRUE])
          \/ /\ e = "EEXIST"
             /\ Goto(p, "mkstat") /\ Looks
          \/ /\ e \notin {"ok", "EEXIST"}
             /\ Return(p, Failed(e)) /\ Looks
    /\ Keeps

MkdirStat(p) ==
    /\ At(p, "mkdir", "mkstat")
    /\ LET q == op[p].path
       IN Return(p, IF ~Exists(q) THEN Failed(Lookup(q))
                    ELSE IF IsFile(q) THEN Failed("ErrPathIsNotDirectory") ELSE Ok)
    /\ Looks /\ Keeps

-----------------------------------------------------------------------------
(* Delete *)

DeleteStat(p) ==
    /\ At(p, "delete", "stat")
    /\ LET q == op[p].path
       IN Checked(p, Lookup(q), IF IsFile(q) THEN "remove"
                                ELSE IF op[p].recursive THEN "count" ELSE "delreaddir")
    /\ Looks /\ Keeps

\* Mutant: the limit is off by one.
DeleteCountOffByOne(p) ==
    /\ At(p, "delete", "count")
    /\ LET q == op[p].path
       IN Checked(p, IF ~Exists(q) THEN Lookup(q)
                     ELSE IF Cardinality(Below(q)) >= MaxDeleteEntries THEN "ErrLimitExceeded"
                     ELSE "ok", "removeall")
    /\ Looks /\ Keeps

\* ensureRecursiveDeleteWithinLimit
DeleteCount(p) ==
    /\ At(p, "delete", "count")
    /\ LET q == op[p].path
       IN Checked(p, IF ~Exists(q) THEN Lookup(q)
                     ELSE IF Cardinality(Below(q)) > MaxDeleteEntries THEN "ErrLimitExceeded"
                     ELSE "ok", "removeall")
    /\ Looks /\ Keeps

DeleteReadDir(p) ==
    /\ At(p, "delete", "delreaddir")
    /\ LET q == op[p].path
       IN Checked(p, IF ~Exists(q) THEN Lookup(q)
                     ELSE IF IsFile(q) THEN "ENOTDIR"
                     ELSE IF Below(q) # {} THEN "ErrDirectoryNotEmpty"
                     ELSE "ok", "remove")
    /\ Looks /\ Keeps

DeleteRemove(p) ==
    /\ At(p, "delete", "remove")
    /\ LET q == op[p].path
           e == RemoveError(q)
       IN /\ Return(p, IF e = "ok" THEN Ok ELSE Failed(e))
          /\ IF e = "ok" THEN Unlink(q) ELSE Looks
    /\ Keeps

\* Mutant: the walk does not expect others to remove the path first.
DeleteRemoveAllStuck(p) ==
    /\ At(p, "delete", "removeall")
    /\ LET q == op[p].path
       IN \/ /\ Exists(q) /\ Below(q) = {}
             /\ Unlink(q)
             /\ Return(p, Ok)
             /\ Keeps
          \/ \E c \in Below(q) :
                /\ Below(c) = {}
                /\ Unlink(c)
                /\ Keeps /\ UNCHANGED <<pc, result>>

\* One call of os.RemoveAll's walk; a path that is gone is its success.  It may
\* come back to a directory that others have filled meanwhile, and gives up.
DeleteRemoveAll(p) ==
    /\ At(p, "delete", "removeall")
    /\ LET q == op[p].path
       IN \/ /\ ~Exists(q)
             /\ Return(p, IF Lookup(q) = "ENOENT" THEN Ok ELSE Failed(Lookup(q)))
             /\ Looks /\ Keeps
          \/ /\ Exists(q) /\ Below(q) = {}
             /\ Unlink(q)
             /\ Return(p, Ok)
             /\ Keeps
          \/ /\ Below(q) # {} /\ ghost[p].disturbed
             /\ Return(p, Failed("ENOTEMPTY"))
             /\ Looks /\ Keeps
          \/ \E c \in Below(q) :
                /\ Below(c) = {}
                /\ Unlink(c)
                /\ Keeps /\ UNCHANGED <<pc, result>>

-----------------------------------------------------------------------------
(* Move *)

MoveStatSource(p) ==
    /\ At(p, "move", "stat")
    /\ Checked(p, NotFound(Lookup(op[p].path)), "stattarget")
    /\ Remember(p, "src", tree[op[p].path])
    /\ Looks

MoveStatTarget(p) ==
    /\ At(p, "move", "stattarget")
    /\ LET q == op[p].target
       IN Checked(p, IF Lookup(q) = "ENOTDIR" THEN "ENOTDIR"
                     ELSE IF tree[q] = loc[p].src THEN "ErrSamePath"
                     ELSE "ok", "check")
    /\ Remember(p, "dst", tree[op[p].target])
    /\ Looks

\* Effective paths, subtree and volume checks, then overwrite and types as
\* the two Stat calls have seen them.
MoveCheck(p) ==
    /\ At(p, "move", "check")
    /\ LET r == op[p]
           dir(i) == inode[i].kind = "dir"
           exists == loc[p].dst # 0
       IN Checked(p, IF ~Exists(r.path) THEN Lookup(r.path)
                     ELSE IF Lookup(r.target) = "ENOTDIR" THEN "ENOTDIR"
                     ELSE IF dir(loc[p].src) /\ Under(r.target, r.path) THEN "ErrMoveIntoSelf"
                     ELSE IF exists /\ ~r.overwrite THEN "ErrFileExists"
                     ELSE IF exists /\ (dir(loc[p].src) \/ dir(loc[p].dst)) THEN "ErrMoveTypeMismatch"
                     ELSE "ok", "revalidatesource")
    /\ Looks /\ Keeps

\* revalidateMoveState, source half and target half.
MoveRevalidateSource(p) ==
    /\ At(p, "move", "revalidatesource")
    /\ LET q == op[p].path
       IN Checked(p, IF ~Exists(q) THEN NotFound(Lookup(q))
                     ELSE IF tree[q] # loc[p].src THEN "ErrMovePathChanged"
                     ELSE "ok", "revalidatetarget")
    /\ Looks /\ Keeps

\* Mutant: the target is not looked at again.
MoveTargetUnchecked(p) ==
    /\ At(p, "move", "revalidatetarget")
    /\ Goto(p, "lstat")
    /\ Looks /\ Keeps

MoveRevalidateTarget(p) ==
    /\ At(p, "move", "revalidatetarget")
    /\ LET q == op[p].target
       IN Checked(p, IF Lookup(q) = "ENOTDIR" THEN "ENOTDIR"
                     ELSE IF tree[q] # loc[p].dst THEN "ErrMovePathChanged"
                     ELSE "ok", "lstat")
    /\ Looks /\ Keeps

\* os.Rename refuses a directory as its target before it renames.
MoveLstat(p) ==
    /\ At(p, "move", "lstat")
    /\ Checked(p, IF IsDir(op[p].target)
                  THEN IF Exists(op[p].path) THEN "EEXIST" ELSE Lookup(op[p].path)
                  ELSE "ok", "rename")
    /\ Looks /\ Keeps

\* Mutant: the target is removed before the rename.
MoveRemovesFirst(p) ==
    /\ At(p, "move", "rename")
    /\ LET r == op[p]
           e == RenameError(r.path, r.target)
       IN /\ Return(p, IF e = "ok" THEN Ok ELSE Failed(e))
          /\ IF e = "ok" THEN Rename(r.path, r.target)
             ELSE IF IsFile(r.target) THEN Unlink(r.target) ELSE Looks
    /\ Keeps

\* Mutant: the new name is linked and the old one stays.
MoveLinks(p) ==
    /\ At(p, "move", "rename")
    /\ LET r == op[p]
           e == RenameError(r.path, r.target)
       IN /\ Return(p, IF e = "ok" THEN Ok ELSE Failed(e))
          /\ IF e = "ok" THEN tree' = [tree EXCEPT ![r.target] = tree[r.path]] /\ inode' = inode
             ELSE Looks
    /\ Keeps

MoveRename(p) ==
    /\ At(p, "move", "rename")
    /\ LET r == op[p]
           e == RenameError(r.path, r.target)
       IN /\ e = "ok" => RenameFits(r.path, r.target)
          /\ Return(p, IF e = "ok" THEN Ok ELSE Failed(e))
          /\ IF e = "ok" THEN Rename(r.path, r.target) ELSE Looks
    /\ Keeps

-----------------------------------------------------------------------------

Step(p) ==
    /\ \/ Resolve(p)
       \/ ReadStat(p) \/ ReadFile(p) \/ Stat(p) \/ ListReadDir(p) \/ ListEntry(p)
       \/ WriteStat(p) \/ CopyStat(p) \/ CopyTarget(p) \/ CopyOpenSource(p)
       \/ Open(p) \/ Transfer(p)
       \/ MkdirParents(p) \/ MkdirLeaf(p) \/ MkdirStat(p)
       \/ DeleteStat(p) \/ DeleteCount(p) \/ DeleteReadDir(p) \/ DeleteRemove(p) \/ DeleteRemoveAll(p)
       \/ MoveStatSource(p) \/ MoveStatTarget(p) \/ MoveCheck(p) \/ MoveRevalidateSource(p)
       \/ MoveRevalidateTarget(p) \/ MoveLstat(p) \/ MoveRename(p)
    /\ Record(p)
    /\ UNCHANGED <<op, used>>

Next == \E p \in Procs : Step(p) \/ \E r \in Requests : Start(p, r)

\* A process keeps making the calls of the operation it has begun.
Spec == Init /\ [][Next]_vars /\ \A p \in Procs : WF_vars(Step(p))

-----------------------------------------------------------------------------
(* Properties *)

TypeOK ==
    /\ TreeTypeOK
    /\ op \in [Procs -> Requests \cup {NoOp}]
    /\ \A p \in Procs : loc[p].src \in 0..Len(inode) /\ loc[p].dst \in 0..Len(inode)

Contract == INSTANCE FileSystemContract

View(t, n) == [q \in Paths |-> IF t[q] = 0 THEN Contract!Absent ELSE n[t[q]]]
Before(p)  == View(ghost[p].before[1], ghost[p].before[2])
Now        == View(tree, inode)
Done(p)    == pc[p] = "idle" /\ used[p] > 0
Acts(p)    == pc'[p] # pc[p]

\* An operation that no other process disturbs does what docs/tools.md says
\* of its tool: it succeeds exactly when it should, reports the truth, leaves
\* exactly the promised tree, and leaves the tree alone when it fails, with
\* the code of an expected failure (docs/tools.md:197; a file where the path
\* needs a directory is an io_error in this code, and left out).  A copy of a
\* file onto itself is left to CopyKeepsSource.  The root is what NewPathGuard
\* has checked it to be, or gone: a race between processes that delete the
\* root and write to it can leave a file there.
SequentialContract ==
    \A p \in Procs :
       LET r == op[p]
       IN Done(p) /\ ~ghost[p].disturbed /\ result[p].err # "EIO"
          /\ ~(r.kind = "copy" /\ r.path = r.target) /\ ~Contract!HasFile(Before(p), Root) =>
             IF Contract!Allowed(Before(p), r)
             THEN /\ result[p].err = "ok"
                  /\ Now = Contract!After(Before(p), r)
                  /\ Contract!Reports(Before(p), r, result[p])
             ELSE /\ result[p].err # "ok" /\ Now = Before(p)
                  /\ result[p].err # "ENOTDIR" => ErrorCode(result[p].err) = "InvalidParams"

\* "Existing files are only overwritten when overwrite is true" (write.go:9),
\* whatever other processes create between the check and the open: without
\* overwrite, Write and Copy change no bytes but those of a file they made.
NoSilentOverwrite ==
    [][\A p \in Procs : Acts(p) /\ ~op[p].overwrite /\ pc[p] # "idle" =>
          \A i \in 1..Len(inode) : inode'[i] # inode[i] => i \in ghost[p].made]_vars

\* "The source and target identities are revalidated immediately before the
\* operating-system rename" (docs/tools.md:193): a rename moves the file that
\* was validated unless the source changed after its revalidation, and
\* replaces nothing but the file that overwrite allowed unless the target
\* changed after its own.
MoveActsOnValidated ==
    [][\A p \in Procs : At(p, "move", "rename") /\ Acts(p) /\ tree' # tree =>
          /\ "src" \notin ghost[p].late => tree[op[p].path] = loc[p].src
          /\ "dst" \notin ghost[p].late =>
                LET old == tree[op[p].target]
                IN old # 0 => op[p].overwrite /\ old = loc[p].dst /\ IsFile(op[p].target)]_vars

\* Of several processes that create the same path exclusively at once - Write
\* and Copy without overwrite, Mkdir that reports created:true - one succeeds.
Creates(p) ==
    /\ Done(p) /\ result[p].err = "ok"
    /\ \/ op[p].kind \in {"write", "copy"} /\ ~op[p].overwrite
       \/ op[p].kind = "mkdir" /\ result[p].created
CreatedPath(p) == IF op[p].kind = "copy" THEN op[p].target ELSE op[p].path
OneCreator ==
    MaxOps = 1 /\ (\A p \in Procs : op[p].kind \notin {"delete", "move"}) =>
       \A p, q \in Procs : p # q /\ Creates(p) /\ Creates(q) => CreatedPath(p) # CreatedPath(q)

\* A call that reports an error has changed nothing, also when others worked
\* on the same paths meanwhile.  Exempt are the steps that are several calls
\* themselves (create_directory's parents, a recursive delete), a disk that
\* fails under an open file, and a source that became a directory.
FailureLeavesNoTrace ==
    \A p \in Procs :
       /\ Done(p) /\ result[p].err \notin {"ok", "EIO"}
       /\ op[p].kind # "mkdir" /\ ~op[p].recursive
       /\ ~(op[p].kind = "copy" /\ result[p].err = "EISDIR" /\ loc[p].dst # 0)
       => ~ghost[p].touched

\* Every call returns, also a recursive delete whose directory others fill.
CallReturns == \A p \in Procs : pc[p] # "idle" ~> pc[p] = "idle"

-----------------------------------------------------------------------------
(* What the documentation says and the code does not do *)

\* "Copy copies a file" (copy.go:9): the source still has its bytes.
CopyKeepsSource ==
    \A p \in Procs :
       Done(p) /\ op[p].kind = "copy" /\ result[p].err = "ok" /\ ~ghost[p].disturbed
          => Now[op[p].path] = Before(p)[op[p].path]

\* "The remaining race is limited to a concurrent change at the already
\* authorized target path after final revalidation" (docs/tools.md:193): what
\* is moved is always the validated source.
MoveRaceAtTargetOnly ==
    [][\A p \in Procs : At(p, "move", "rename") /\ Acts(p) /\ tree' # tree =>
          tree[op[p].path] = loc[p].src]_vars
=============================================================================

------------------------- MODULE GuardedOperations --------------------------
(***************************************************************************)
(* internal/fs over internal/security: one operation of the server on a    *)
(* file system with symbolic links.  It asks the guard first and then goes *)
(* to the file system by the path the guard returned, call by call, while  *)
(* another process may exchange an entry between any two calls.            *)
(*                                                                         *)
(* LocalFileSystem.tla has the same operations without links, with their   *)
(* contents, limits and errors; here the question is where in the tree     *)
(* they act.  A size or count above a limit may end an operation anywhere  *)
(* the code compares one.                                                  *)
(***************************************************************************)
EXTENDS PathGuard, TLC

CONSTANTS Calls,        \* operations clients ask for: [op, source, target, force]
          Entries,      \* entries another process may exchange
          Nodes,        \* what it may put there
          MaxExchanges  \* bound: how many it exchanges during one operation

ASSUME OperationsAssumption == MaxExchanges \in Nat

VARIABLES call,       \* the operation
          at,         \* the next system call, or "idle", "done"
          src, dst,   \* the SafePaths the guard returned
          seen,       \* what Move has found: [src, dst], see Info
          touched,    \* places read or changed: [effect, place]
          result,     \* "ok", or "error"
          before,     \* the file system when the operation began
          exchanged,  \* entries exchanged since
          crossed,    \* one of them was on the way of a path already resolved
          loose       \* a path was resolved through a link to nothing

opVars == <<call, at, src, dst, seen, touched, result, before, exchanged, crossed, loose>>
allVars == <<vars, opVars>>

-----------------------------------------------------------------------------
(* External: system calls that follow links, and those that do not *)

Kind(place) == Node(place).kind
Stat(p) == EvalSymlinks(p)
IsDir(s) == s.err = "ok" /\ Kind(s.path) = "dir"

\* The entry a path names: only the links before it are followed.
Entry(p) ==
    LET dir == EvalSymlinks(Front(p))
    IN IF dir.err # "ok" THEN dir
       ELSE IF Kind(dir.path) # "dir" THEN Error("ENOTDIR") ELSE Found(Append(dir.path, Last(p)))

\* open(O_CREAT) follows a link to nothing and creates what it names.
RECURSIVE CreateAt(_, _)
CreateAt(p, links) ==
    LET e == Entry(p)
    IN IF e.err # "ok" \/ Kind(e.path) # "link" THEN e
       ELSE IF links = MaxLinks THEN Error("too many links")
       ELSE CreateAt(Node(e.path).to, links + 1)

Names(place) == {Last(q) : q \in {r \in DOMAIN world : Len(r) = Len(place) + 1
                                    /\ IsPrefix(place, r) /\ Kind(r) # "none"}}
Put(place, node) == (place :> node) @@ world
Gone(place) == [q \in DOMAIN world |-> IF IsPrefix(place, q) THEN None ELSE world[q]]

\* Every entry a path visits, up to the first that is missing.
RECURSIVE WayFrom(_, _, _)
WayFrom(done, rest, links) ==
    IF rest = <<>> THEN {}
    ELSE LET next == Append(done, Head(rest))
         IN {next} \cup
            CASE Kind(next) = "link" /\ links < MaxLinks ->
                   WayFrom(<<>>, Node(next).to \o Tail(rest), links + 1)
              [] Kind(next) = "dir" -> WayFrom(next, Tail(rest), links)
              [] OTHER -> {}
Way(p) == WayFrom(<<>>, p, 0)

-----------------------------------------------------------------------------

NoCall == [op |-> "none"]
NoPath == <<"no path">>
NoInfo == [place |-> NoPath, new |-> FALSE]

OpInit ==
    /\ Init
    /\ call = NoCall /\ at = "idle" /\ src = NoPath /\ dst = NoPath
    /\ seen = [src |-> NoInfo, dst |-> NoInfo] /\ touched = {} /\ result = "none"
    /\ before = world /\ exchanged = {} /\ crossed = FALSE /\ loose = FALSE

TwoPaths == {"copy", "move"}
Creating == {"write", "mkdir"}

Begin(c) ==
    /\ at = "idle" /\ guard.err = "ok"
    /\ call' = c /\ at' = "resolve" /\ before' = world
    /\ UNCHANGED <<vars, src, dst, seen, touched, result, exchanged, crossed, loose>>

\* Another process replaces an entry, with all that is below it.
Exchange(e, node) ==
    /\ at \notin {"idle", "done"}
    /\ Cardinality(exchanged) < MaxExchanges /\ e \notin exchanged
    /\ Kind(Front(e)) = "dir" /\ Node(e) # node
    /\ world' = (e :> node) @@ Gone(e)
    /\ exchanged' = exchanged \cup {e}
    /\ crossed' = (crossed \/ \E p \in {src, dst} \ {NoPath} : e \in Way(p))
    /\ UNCHANGED <<policy, guard, query, answer, call, at, src, dst, seen, touched, result, before, loose>>

\* How a step ends: on to the next call, or back to the tool.
To(next) == at' = next /\ UNCHANGED result
Done(r) == at' = "done" /\ result' = r
Looks == UNCHANGED <<vars, call, src, dst, seen, touched, before, exchanged, crossed, loose>>
Touches(effect, place) ==
    /\ touched' = touched \cup {[effect |-> effect, place |-> place]}
    /\ UNCHANGED <<policy, guard, query, answer, call, src, dst, seen, before, exchanged, crossed, loose>>

FirstCall == CASE call.op = "read" -> "stat" [] call.op = "info" -> "stat"
               [] call.op = "list" -> "readdir" [] call.op = "write" -> "stat"
               [] call.op = "mkdir" -> "mkdirall" [] call.op = "delete" -> "stat"
               [] call.op = "copy" -> "stat" [] call.op = "move" -> "check"

ThroughNothing(p) == \E q \in Ancestors(p) : Dangling(q)

\* The guard's answer becomes the SafePath.  Mkdir of the root is done then.
Resolve ==
    /\ at = "resolve"
    /\ LET r == IF call.op \in Creating THEN ResolveForCreate(call.source) ELSE ResolveExisting(call.source)
       IN IF r.err # "ok" THEN Done("error") /\ UNCHANGED <<src, loose>>
          ELSE /\ src' = r.path /\ loose' = ThroughNothing(r.path)
               /\ IF call.op \in TwoPaths THEN To("resolvetarget")
                  ELSE IF call.op = "mkdir" /\ r.path = guard.root THEN Done("ok")
                  ELSE To(FirstCall)
    /\ UNCHANGED <<vars, call, dst, seen, touched, before, exchanged, crossed>>

ResolveTarget ==
    /\ at = "resolvetarget"
    /\ LET r == ResolveForCreate(call.target)
       IN IF r.err # "ok" THEN Done("error") /\ UNCHANGED <<dst, loose>>
          ELSE /\ dst' = r.path /\ loose' = (loose \/ ThroughNothing(r.path))
               /\ IF call.op = "move" /\ src = r.path THEN Done("error") ELSE To(FirstCall)
    /\ UNCHANGED <<vars, call, src, seen, touched, before, exchanged, crossed>>

StatInfo ==
    /\ at = "stat" /\ call.op = "info"
    /\ LET s == Stat(src)
       IN IF s.err = "ok" THEN Done("ok") /\ Touches("read", s.path) /\ UNCHANGED world
          ELSE Done("error") /\ Looks

\* os.Stat of the path, in Read, Write, Delete and Copy.
StatSource ==
    /\ at = "stat"
    /\ LET s == Stat(src)
           file == s.err = "ok" /\ Kind(s.path) = "file"
       IN \/ call.op = "read" /\ IF file THEN To("readfile") \/ Done("error") ELSE Done("error")
          \/ call.op = "write" /\ IF (file /\ call.force) \/ s.err = "ErrNotExist"
                                  THEN To("open") \/ Done("error") ELSE Done("error")
          \/ call.op = "delete" /\ IF s.err # "ok" THEN Done("error")
                                   ELSE IF file THEN To("remove")
                                   ELSE To(IF call.force THEN "count" ELSE "empty")
          \/ call.op = "copy" /\ IF file THEN To("targetpolicy") \/ Done("error") ELSE Done("error")
    /\ Looks

ReadFile ==
    /\ at = "readfile"
    /\ LET s == Stat(src)
       IN IF s.err = "ok" /\ Kind(s.path) = "file"
          THEN Done("ok") /\ Touches("read", s.path) /\ UNCHANGED world
          ELSE Done("error") /\ Looks

\* List: the entries, and for each one the guard's AllowListEntry and an
\* lstat; the first entry that fails, or is one too many, fails the listing.
ReadDir ==
    /\ at = "readdir"
    /\ LET s == Stat(src)
           verdicts == {AllowListEntry(src, n) : n \in Names(s.path)}
       IN IF IsDir(s)
          THEN /\ \/ verdicts \subseteq {"listed", "filtered"} /\ Done("ok")
                  \/ ~(verdicts \subseteq {"filtered"}) /\ Done("error")
               /\ Touches("read", s.path) /\ UNCHANGED world
          ELSE Done("error") /\ Looks

\* os.OpenFile of Write and Copy: O_TRUNC with overwrite, O_EXCL without.  The
\* transfer behind it may fail.
OpenCreate(p) ==
    LET e == IF call.force THEN CreateAt(p, 0) ELSE Entry(p)
    IN IF e.err = "ok" /\ Kind(e.path) \in (IF call.force THEN {"none", "file"} ELSE {"none"})
       THEN /\ Done("ok") \/ Done("error")
            /\ Touches("write", e.path)
            /\ world' = Put(e.path, [kind |-> "file"])
       ELSE Done("error") /\ Looks

WriteOpen == at = "open" /\ OpenCreate(src)

CopyTargetPolicy ==
    /\ at = "targetpolicy"
    /\ LET s == Stat(dst)
       IN IF s.err = "ErrNotExist" \/ (s.err = "ok" /\ call.force /\ ~IsDir(s))
          THEN To("opensource") ELSE Done("error")
    /\ Looks

CopyOpenSource ==
    /\ at = "opensource"
    /\ LET s == Stat(src)
       IN IF s.err = "ok" THEN To("opentarget") /\ Touches("read", s.path) /\ UNCHANGED world
          ELSE Done("error") /\ Looks

CopyOpenTarget == at = "opentarget" /\ OpenCreate(dst)

-----------------------------------------------------------------------------
(* Mkdir *)

\* os.MkdirAll of the parent: the directories that are missing, from the top.
\* An entry in the way that is no directory, a link to one aside, ends it.
MkdirAll ==
    /\ at = "mkdirall"
    /\ LET dir == Front(src)
           known == CHOOSE i \in 0..Len(dir) :
                       /\ Stat(SubSeq(dir, 1, i)).err = "ok"
                       /\ \A j \in (i + 1)..Len(dir) : Stat(SubSeq(dir, 1, j)).err # "ok"
           from == Stat(SubSeq(dir, 1, known)).path
           missing == {from \o SubSeq(dir, known + 1, i) : i \in (known + 1)..Len(dir)}
       IN IF Kind(from) = "dir" /\ (missing # {} => Kind(Append(from, dir[known + 1])) = "none")
          THEN /\ To("mkdir")
               /\ world' = [q \in missing |-> [kind |-> "dir"]] @@ world
               /\ touched' = touched \cup {[effect |-> "mkdir", place |-> q] : q \in missing}
               /\ UNCHANGED <<policy, guard, query, answer, call, src, dst, seen, before, exchanged, crossed, loose>>
          ELSE Done("error") /\ Looks

\* os.Mkdir; something that exists is fine if it is a directory.
Mkdir ==
    /\ at = "mkdir"
    /\ LET e == Entry(src)
       IN IF e.err # "ok" THEN Done("error") /\ Looks
          ELSE IF Kind(e.path) # "none" THEN To("mkdirstat") /\ Looks
          ELSE /\ Done("ok") /\ Touches("mkdir", e.path)
               /\ world' = Put(e.path, [kind |-> "dir"])

MkdirStat ==
    /\ at = "mkdirstat"
    /\ Done(IF IsDir(Stat(src)) THEN "ok" ELSE "error")
    /\ Looks

-----------------------------------------------------------------------------
(* Delete *)

\* filepath.WalkDir does not enter a link, not even at its root.
DeleteCount ==
    /\ at = "count"
    /\ LET e == Entry(src)
       IN \/ e.err = "ok" /\ Kind(e.path) # "none" /\ To("removeall")
          \/ (e.err # "ok" \/ Kind(e.path) = "none" \/ Names(e.path) # {}) /\ Done("error")
    /\ Looks

DeleteReadDir ==
    /\ at = "empty"
    /\ LET s == Stat(src)
       IN IF IsDir(s) /\ Names(s.path) = {} THEN To("remove") ELSE Done("error")
    /\ Looks

\* Mutant: what the path leads to is removed.
RemoveAllFollows ==
    /\ at = "removeall"
    /\ LET e == Stat(src)
       IN /\ Done("ok") /\ Touches("remove", e.path)
          /\ world' = Gone(e.path)

\* os.RemoveAll: the entry and what is below it; nothing there is success.
DeleteRemoveAll ==
    /\ at = "removeall"
    /\ LET e == Entry(src)
       IN IF e.err = "ok"
          THEN /\ Done("ok") /\ Touches("remove", e.path)
               /\ world' = Gone(e.path)
          ELSE Done(IF e.err = "ErrNotExist" THEN "ok" ELSE "error") /\ Looks

\* os.Remove: a file, a link, or a directory that is empty.
DeleteRemove ==
    /\ at = "remove"
    /\ LET e == Entry(src)
       IN IF e.err = "ok" /\ Kind(e.path) # "none" /\ (Kind(e.path) = "dir" => Names(e.path) = {})
          THEN /\ Done("ok") /\ Touches("remove", e.path)
               /\ world' = Gone(e.path)
          ELSE Done("error") /\ Looks

-----------------------------------------------------------------------------
(* Move *)

\* os.FileInfo for os.SameFile: where the file is, and whether it is the one
\* that was there when the operation began.
Info(p) == LET s == Stat(p)
           IN IF s.err # "ok" THEN NoInfo ELSE [place |-> s.path, new |-> s.path \in exchanged]

\* effectivePathForComparison: links followed as far as the path exists.
Effective(p) ==
    LET i == CHOOSE k \in 0..Len(p) :
                /\ Stat(SubSeq(p, 1, k)).err # "ErrNotExist"
                /\ \A j \in (k + 1)..Len(p) : Stat(SubSeq(p, 1, j)).err = "ErrNotExist"
        s == Stat(SubSeq(p, 1, i))
    IN IF s.err # "ok" THEN s ELSE Found(s.path \o SubSeq(p, i + 1, Len(p)))

\* The two stats and the comparisons between them, in one step: what another
\* process changes in between is what MoveRevalidate looks for.
MoveCheck ==
    /\ at = "check"
    /\ LET s == Stat(src)
           t == Stat(dst)
           exists == t.err = "ok"
           eff == Effective(dst)
       IN IF /\ s.err = "ok" /\ t.err \in {"ok", "ErrNotExist"} /\ eff.err = "ok"
             /\ s.path # eff.path
             /\ ~(IsDir(s) /\ IsPrefix(s.path, eff.path))
             /\ exists => call.force /\ ~IsDir(s) /\ ~IsDir(t)
          THEN To("revalidate") /\ seen' = [src |-> Info(src), dst |-> Info(dst)]
          ELSE Done("error") /\ seen' = seen
    /\ UNCHANGED <<vars, call, src, dst, touched, before, exchanged, crossed, loose>>

MoveRevalidate ==
    /\ at = "revalidate"
    /\ IF /\ Info(src) = seen.src /\ Info(dst) = seen.dst
          /\ seen.dst = NoInfo => Stat(dst).err = "ErrNotExist"
       THEN To("rename") ELSE Done("error")
    /\ Looks

\* os.Rename: entry to entry; a directory is never replaced, nor moved below itself.
MoveRename ==
    /\ at = "rename"
    /\ LET e == Entry(src)
           t == Entry(dst)
       IN IF /\ e.err = "ok" /\ t.err = "ok" /\ Kind(e.path) # "none"
             /\ e.path # t.path => /\ Kind(t.path) # "dir" /\ ~IsPrefix(e.path, t.path)
                                   /\ Kind(e.path) = "dir" => Kind(t.path) = "none"
          THEN /\ Done("ok")
               /\ touched' = touched \cup {[effect |-> "remove", place |-> e.path],
                                           [effect |-> "write", place |-> t.path]}
               /\ world' = LET moved == {t.path \o SubSeq(q, Len(e.path) + 1, Len(q)) :
                                            q \in {r \in DOMAIN world : IsPrefix(e.path, r)}}
                           IN [q \in moved |-> Node(e.path \o SubSeq(q, Len(t.path) + 1, Len(q)))] @@ Gone(e.path)
               /\ UNCHANGED <<policy, guard, query, answer, call, src, dst, seen, before, exchanged, crossed, loose>>
          ELSE Done("error") /\ Looks

Operation == \/ Resolve \/ ResolveTarget \/ StatInfo \/ StatSource \/ ReadFile \/ ReadDir \/ WriteOpen
             \/ CopyTargetPolicy \/ CopyOpenSource \/ CopyOpenTarget
             \/ MkdirAll \/ Mkdir \/ MkdirStat
             \/ DeleteCount \/ DeleteReadDir \/ DeleteRemoveAll \/ DeleteRemove
             \/ MoveCheck \/ MoveRevalidate \/ MoveRename

OpNext == \/ at = "idle" /\ \E c \in Calls : Begin(c)
          \/ Operation
          \/ \E e \in Entries, n \in Nodes : Exchange(e, n)

-----------------------------------------------------------------------------
(* Properties *)

\* Where a path of the client is, when no link is on its way.
Spelled(p) == guard.effective \o SubSeq(p, Len(guard.root) + 1, Len(p))

\* The resolved path is used after the question (path.go:160): between the
\* two, only an exchange of an entry the path itself goes through matters.
\* Without one, everything the operation reads, creates, replaces or removes
\* is below the root the guard has fixed at start-up (or the root itself),
\* whatever else changes; and when links are denied it is just the place the
\* client has spelled.  A link to nothing is taken for a missing name, as in
\* CreateExact; such paths are left to EffectivePathInside.
StaysUnlessCrossed ==
    ~crossed /\ ~loose =>
       \A t \in touched :
          /\ IsPrefix(guard.effective, t.place) \/ t.place = guard.root
          /\ policy.follow \/ \E p \in {src, dst} \ {NoPath} : IsPrefix(t.place, Spelled(p))

Old(q) == IF q \in DOMAIN before THEN before[q] ELSE None

\* Delete and Move look through links (os.Stat, IsDir, the entries) and act on
\* entries (os.RemoveAll, os.Remove, os.Rename): undisturbed, a link is removed
\* or moved itself, what it leads to stays with all its entries, and an
\* operation that fails has changed nothing (delete.go:13, move.go:29).
ActsOnEntries ==
    at = "done" /\ exchanged = {} /\ call.op \in {"delete", "move"} =>
       IF result = "error" THEN world = before
       ELSE LET e == Entry(src).path
                t == IF call.op = "move" THEN Entry(dst).path ELSE e
            IN /\ Kind(e) = "none"
               /\ call.op = "move" => Node(t) = Old(e)
               /\ \A q \in DOMAIN world : ~IsPrefix(e, q) /\ ~IsPrefix(t, q) => world[q] = Old(q)

-----------------------------------------------------------------------------
(* What the documentation says and the code does not do *)

\* "Even after cleaning and resolving a path, the final effective path must
\* remain inside the configured sandbox root" (docs/security.md:109): what an
\* operation reads or changes while nobody exchanges an entry is below the
\* effective root, or is the root.  ResolveForCreate takes a link to nothing
\* for a missing name (path.go:187), and the open with overwrite follows it.
EffectivePathInside ==
    exchanged = {} =>
       \A t \in touched : IsPrefix(guard.effective, t.place) \/ t.place = guard.root
=============================================================================

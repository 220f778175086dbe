----------------------------- MODULE PathGuard ------------------------------
(***************************************************************************)
(* internal/security/path.go (with policy_unix.go): whether a path of a    *)
(* client may be used, on a file system with symbolic links.               *)
(*                                                                         *)
(* A client's path is [abs, parts]: absolute or not, and its components as *)
(* written, "." and ".." among them.  The file system maps every absolute  *)
(* path (a sequence of names) to nothing, a file, a directory, or a link   *)
(* to an absolute path.  MCP_ROOT is written like a client's path.         *)
(***************************************************************************)
EXTENDS Integers, Sequences, FiniteSets, SequencesExt

CONSTANTS Worlds,           \* file systems: functions from paths to nodes
          RootPaths,        \* values of MCP_ROOT
          WorkingDirectory, \* where a relative one begins
          UserPaths,        \* paths clients send
          HiddenNames,      \* names that begin with a dot
          UNCNames,         \* names that begin with two backslashes
          MaxLinks          \* links EvalSymlinks follows before it gives up

ASSUME GuardAssumption == MaxLinks \in Nat /\ HiddenNames \cap UNCNames = {}

VARIABLES world,   \* the file system
          policy,  \* Policy: [hidden, unc, follow]
          guard,   \* what NewPathGuardWithPolicy returned
          query,   \* the last call to the guard
          answer   \* and what it returned

vars == <<world, policy, guard, query, answer>>

-----------------------------------------------------------------------------
(* External: the file system and path/filepath *)

None == [kind |-> "none"]
Link(target) == [kind |-> "link", to |-> target]
Node(p) == IF p = <<>> THEN [kind |-> "dir"]
           ELSE IF p \in DOMAIN world THEN world[p] ELSE None

Found(p) == [err |-> "ok", path |-> p]
Error(e) == [err |-> e, path |-> <<>>]

\* filepath.EvalSymlinks: the path without links, or an error.
RECURSIVE Walk(_, _, _)
Walk(done, rest, links) ==
    IF rest = <<>> THEN Found(done)
    ELSE LET next == Append(done, Head(rest))
         IN CASE Node(next).kind = "none" -> Error("ErrNotExist")
              [] Node(next).kind = "file" /\ Len(rest) > 1 -> Error("ENOTDIR")
              [] Node(next).kind = "link" ->
                   IF links = MaxLinks THEN Error("too many links")
                   ELSE Walk(<<>>, Node(next).to \o Tail(rest), links + 1)
              [] OTHER -> Walk(next, Tail(rest), links)
EvalSymlinks(p) == Walk(<<>>, p, 0)

\* os.Lstat: links are followed, except at the last component.
EntryKind(dir, name) ==
    IF dir.err # "ok" THEN dir.err
    ELSE IF Node(dir.path).kind = "file" THEN "ENOTDIR"
    ELSE LET kind == Node(Append(dir.path, name)).kind
         IN IF kind = "none" THEN "ErrNotExist" ELSE kind
Lstat(p) == IF p = <<>> THEN "dir" ELSE EntryKind(EvalSymlinks(Front(p)), Last(p))

\* filepath.Clean: "." and what is empty go, ".." takes the name before it along.
Clean(u) ==
    FoldLeft(LAMBDA kept, c :
                IF c \in {"", "."} THEN kept
                ELSE IF c # ".." THEN Append(kept, c)
                ELSE IF kept # <<>> /\ Last(kept) # ".." THEN Front(kept)
                ELSE IF u.abs THEN kept ELSE Append(kept, c),
             <<>>, u.parts)

\* filepath.Abs
Absolute(u) == [abs |-> TRUE, parts |-> IF u.abs THEN Clean(u)
                                        ELSE Clean([abs |-> TRUE, parts |-> WorkingDirectory \o u.parts])]

-----------------------------------------------------------------------------
(* Helpers of the guard *)

isHiddenName(n) == n \in HiddenNames
isInsideRoot(root, p) == IsPrefix(root, p)
hasHiddenPathComponent(parts) == \E i \in DOMAIN parts : isHiddenName(parts[i])
isTraversalPath(parts) == parts # <<>> /\ parts[1] = ".."

\* Two backslashes, or two slashes: an absolute path whose first part is empty.
isUNCPath(u, parts) == parts # <<>> /\ parts[1] \in (IF u.abs THEN {""} ELSE UNCNames)

\* What Lstat found, under the policy.
\* Mutant: a link is taken for what it leads to.
MetadataFollowsLinks(kind) == IF kind \notin {"file", "dir", "link"} THEN kind ELSE "ok"

Metadata(kind) ==
    IF kind \notin {"file", "dir", "link"} THEN kind
    ELSE IF ~policy.follow /\ kind = "link" THEN "ErrSymlinkDenied" ELSE "ok"
validatePathMetadata(p) == Metadata(Lstat(p))

\* resolveLexical: normalizeUserPath, then the checks in order.
resolveLexical(u) ==
    LET parts == Clean(u)
    IN IF ~policy.unc /\ isUNCPath(u, parts) THEN Error("ErrUNCPathDenied")
       ELSE IF u.abs THEN Error("ErrAbsolutePath")
       ELSE IF isTraversalPath(parts) THEN Error("ErrPathTraversal")
       ELSE IF ~policy.hidden /\ hasHiddenPathComponent(parts) THEN Error("ErrHiddenPathDenied")
       ELSE Found(guard.root \o parts)

\* The first verdict that is not fine decides.
FirstError(verdicts) ==
    LET failing == {i \in DOMAIN verdicts : verdicts[i] # "ok"}
    IN IF failing = {} THEN "ok" ELSE verdicts[Min(failing)]

\* validateExistingPathPolicy: every component below the root, from the top,
\* or the root itself.
validateExistingPathPolicy(p) ==
    IF p = guard.root THEN validatePathMetadata(p)
    ELSE FirstError([i \in (Len(guard.root) + 1)..Len(p) |->
            IF ~policy.hidden /\ isHiddenName(p[i]) THEN "ErrHiddenPathDenied"
            ELSE validatePathMetadata(SubSeq(p, 1, i))])

\* The early returns of the guard: an error of the policy, an error of
\* EvalSymlinks, a place outside the root; otherwise the lexical path.
Unless(e, r) == IF e # "ok" THEN Error(e) ELSE r
Confined(effective, p) ==
    IF effective.err # "ok" THEN effective
    ELSE IF ~isInsideRoot(guard.effective, effective.path) THEN Error("ErrOutsideRoot") ELSE p

\* resolveExistingParent: upwards to the nearest ancestor that exists.
Nearest(verdicts) ==
    LET settled == {i \in DOMAIN verdicts : verdicts[i].err # "ErrNotExist"}
    IN IF settled = {} THEN Error("ErrOutsideRoot") ELSE verdicts[Max(settled)]
resolveExistingParent(p) ==
    Nearest([i \in Len(guard.root)..(Len(p) - 1) |->
        Unless(validateExistingPathPolicy(SubSeq(p, 1, i)), EvalSymlinks(SubSeq(p, 1, i)))])

-----------------------------------------------------------------------------
(* The operations *)

\* NewPathGuardWithPolicy
NewPathGuard(u) ==
    LET absolute == Absolute(u)
        root == absolute.parts
        effective == EvalSymlinks(root)
        e == validatePathMetadata(root)
    IN IF ~u.abs /\ u.parts = <<>> THEN [err |-> "ErrEmptyRoot"]
       ELSE IF ~policy.unc /\ (isUNCPath(u, u.parts) \/ isUNCPath(absolute, root))
       THEN [err |-> "ErrUNCPathDenied"]
       ELSE IF e # "ok" THEN [err |-> e]
       ELSE IF effective.err # "ok" THEN [err |-> effective.err]
       ELSE IF Node(effective.path).kind # "dir" THEN [err |-> "ErrRootNotDirectory"]
       ELSE [err |-> "ok", root |-> root, effective |-> effective.path]

ExistingAt(p) ==
    IF p.err # "ok" THEN p
    ELSE Unless(validateExistingPathPolicy(p.path), Confined(EvalSymlinks(p.path), p))
ResolveExisting(u) == ExistingAt(resolveLexical(u))

\* Mutant: a missing path is accepted for its name alone.
CreateByName(p, effective) ==
    IF p.err # "ok" THEN p
    ELSE IF effective.err = "ok"
    THEN Unless(validateExistingPathPolicy(p.path), Confined(effective, p))
    ELSE IF effective.err # "ErrNotExist" THEN effective ELSE p

\* What exists is treated like any existing path; for a missing path the
\* nearest existing ancestor decides.
CreateFor(p, effective) ==
    IF p.err # "ok" THEN p
    ELSE IF effective.err = "ok"
    THEN Unless(validateExistingPathPolicy(p.path), Confined(effective, p))
    ELSE IF effective.err # "ErrNotExist" THEN effective
    ELSE Confined(resolveExistingParent(p.path), p)
CreateFrom(p) == CreateFor(p, EvalSymlinks(p.path))
ResolveForCreate(u) == CreateFrom(resolveLexical(u))

\* Mutant: an entry that leads out of the root is listed.
EntryUnconfined(metadata, effective) ==
    IF metadata = "ErrSymlinkDenied" THEN "filtered"
    ELSE IF metadata # "ok" THEN metadata
    ELSE IF effective.err # "ok" THEN effective.err ELSE "listed"

EntryVerdict(metadata, effective) ==
    IF metadata = "ErrSymlinkDenied" THEN "filtered"
    ELSE IF metadata # "ok" THEN metadata
    ELSE IF effective.err # "ok" THEN effective.err
    ELSE IF ~isInsideRoot(guard.effective, effective.path) THEN "filtered" ELSE "listed"

\* AllowListEntry: listed, filtered, or the error that fails the listing.
AllowListEntry(p, name) ==
    IF ~policy.hidden /\ isHiddenName(name) THEN "filtered"
    ELSE EntryVerdict(validatePathMetadata(Append(p, name)), EvalSymlinks(Append(p, name)))

-----------------------------------------------------------------------------
(* One guard on one file system, asked about one path after another *)

NoQuery == [op |-> "none", path |-> [abs |-> FALSE, parts |-> <<>>]]

Init ==
    /\ world \in Worlds
    /\ policy \in [hidden : BOOLEAN, unc : BOOLEAN, follow : BOOLEAN]
    /\ guard \in {NewPathGuard(u) : u \in RootPaths}
    /\ query = NoQuery
    /\ answer = Error("none")

Ask(op, u, result) ==
    /\ guard.err = "ok"
    /\ query' = [op |-> op, path |-> u]
    /\ answer' = result
    /\ UNCHANGED <<world, policy, guard>>

AskExisting(u) == Ask("existing", u, ResolveExisting(u))
AskCreate(u)   == Ask("create", u, ResolveForCreate(u))

\* list_directory resolves the directory and asks about every entry.
AskEntry(u) ==
    /\ guard.err = "ok"
    /\ u.parts # <<>> /\ Last(u.parts) \notin {".", ".."}
    /\ LET dir == ResolveExisting([u EXCEPT !.parts = Front(@)])
       IN /\ dir.err = "ok"
          /\ Node(EvalSymlinks(dir.path).path).kind = "dir"
          /\ Node(Append(EvalSymlinks(dir.path).path, Last(u.parts))).kind # "none"
          /\ Ask("entry", u, Error(AllowListEntry(dir.path, Last(u.parts))))

Next == query = NoQuery /\ \E u \in UserPaths : AskExisting(u) \/ AskCreate(u) \/ AskEntry(u)

Spec == Init /\ [][Next]_vars

-----------------------------------------------------------------------------
(* Properties *)

\* What a path means, without cleaning it: how deep it has come after k
\* components, and which of its names are still part of it at the end.
Depth(u, k) == Cardinality({i \in 1..k : u.parts[i] \notin {".", ".."}})
                 - Cardinality({i \in 1..k : u.parts[i] = ".."})
Climbs(u) == \E k \in DOMAIN u.parts : Depth(u, k) < 0
Kept(u) == {i \in DOMAIN u.parts : /\ u.parts[i] \notin {".", ".."}
                                   /\ \A k \in i..Len(u.parts) : Depth(u, k) >= Depth(u, i)}
LexicallyFine(u) ==
    /\ ~u.abs
    /\ ~Climbs(u)
    /\ policy.hidden \/ \A i \in Kept(u) : u.parts[i] \notin HiddenNames
    /\ policy.unc \/ ~\E i \in Kept(u) : /\ u.parts[i] \in UNCNames
                                         /\ \A j \in Kept(u) : i <= j
Named(u) ==
    LET kept == SetToSortSeq(Kept(u), <)
    IN guard.root \o [k \in DOMAIN kept |-> u.parts[kept[k]]]

\* The prefixes of p that a client may choose: those below the root.
Ancestors(p) == {SubSeq(p, 1, i) : i \in Len(guard.root)..Len(p)}
WithoutLinks(p) == \A q \in Ancestors(p) \ {guard.root} : Lstat(q) # "link"
Inside(p) == EvalSymlinks(p).err = "ok" /\ IsPrefix(guard.effective, EvalSymlinks(p).path)
Usable(p) == Inside(p) /\ (policy.follow \/ WithoutLinks(p))

\* Tools that need an existing path get exactly the paths that exist, are
\* spelled below the root without a denied name, cross no link unless links
\* are followed, and lead to a place below the effective root.
ExistingExact ==
    query.op = "existing" =>
       LET u == query.path
       IN answer = IF LexicallyFine(u) /\ Usable(Named(u)) THEN Found(Named(u)) ELSE Error(answer.err)

\* Tools that create get exactly the paths whose existing part is usable in
\* that sense and is followed by nothing that exists.  Paths through a link
\* to nothing are left out: the code takes such a link for a missing entry
\* (EffectivePathInside in GuardedOperations.tla is about them).
Dangling(q) == Lstat(q) = "link" /\ EvalSymlinks(q).err = "ErrNotExist"
Existing(p) == CHOOSE q \in Ancestors(p) :
                  /\ EvalSymlinks(q).err = "ok"
                  /\ \A r \in Ancestors(p) : EvalSymlinks(r).err = "ok" => Len(r) <= Len(q)
CreateExact ==
    query.op = "create" /\ LexicallyFine(query.path)
    /\ (\A q \in Ancestors(Named(query.path)) : ~Dangling(q)) =>
       LET p == Named(query.path)
           q == Existing(p)
           next == SubSeq(p, 1, Len(q) + 1)
       IN answer.err = "ok" <=> /\ Usable(q)
                                /\ p # q => Lstat(next) = "ErrNotExist"

\* list_directory shows an entry exactly when the other tools accept the
\* path it is listed under (names that look like UNC paths aside).
ListingConsistent ==
    query.op = "entry" /\ Last(query.path.parts) \notin UNCNames =>
       (answer.err = "listed" <=> ResolveExisting(query.path).err = "ok")
=============================================================================

------------------------ MODULE FileSystemContract --------------------------
(***************************************************************************)
(* What docs/tools.md promises of one filesystem tool call that nothing    *)
(* interferes with, written on the contents of the tree alone: when the    *)
(* call is to succeed, and what the tree looks like afterwards.            *)
(*                                                                         *)
(* A view maps each path to Absent, a directory, or a file with its bytes. *)
(***************************************************************************)
EXTENDS Naturals, Sequences, FiniteSets

CONSTANTS Paths, MaxWriteBytes, MaxCopyBytes, MaxListEntries, MaxDeleteEntries

Absent == [kind |-> "absent", data |-> <<>>]
ADir == [kind |-> "dir", data |-> <<>>]
AFile(bytes) == [kind |-> "file", data |-> bytes]

Inside(q, p) == Len(q) > Len(p) /\ SubSeq(q, 1, Len(p)) = p
At(q, p) == q = p \/ Inside(q, p)
Above(q) == SubSeq(q, 1, Len(q) - 1)

Has(v, q) == v[q].kind # "absent"
HasDir(v, q) == v[q].kind = "dir"
HasFile(v, q) == v[q].kind = "file"
Content(v, p) == {q \in Paths : Inside(q, p) /\ Has(v, q)}

\* A file may be put at q: into an existing directory, over nothing or, with
\* overwrite, over a file.
MayPut(v, q, overwrite) ==
    /\ q # <<>> /\ HasDir(v, Above(q))
    /\ ~Has(v, q) \/ (overwrite /\ HasFile(v, q))

Allowed(v, r) ==
    CASE r.kind = "read" -> HasFile(v, r.path) /\ Len(v[r.path].data) <= r.max
      [] r.kind = "stat" -> Has(v, r.path)
      [] r.kind = "list" -> /\ HasDir(v, r.path)
                            /\ Cardinality({q \in Content(v, r.path) : Above(q) = r.path}) <= MaxListEntries
      [] r.kind = "write" -> Len(r.content) <= MaxWriteBytes /\ MayPut(v, r.path, r.overwrite)
      [] r.kind = "copy" -> /\ HasFile(v, r.path) /\ Len(v[r.path].data) <= MaxCopyBytes
                            /\ MayPut(v, r.target, r.overwrite)
      [] r.kind = "mkdir" -> Has(v, <<>>) /\ \A q \in Paths : At(r.path, q) => ~HasFile(v, q)
      [] r.kind = "delete" -> /\ Has(v, r.path)
                              /\ HasDir(v, r.path) =>
                                    \/ Content(v, r.path) = {}
                                    \/ r.recursive /\ Cardinality(Content(v, r.path)) <= MaxDeleteEntries
      [] r.kind = "move" -> /\ Has(v, r.path)
                            /\ ~At(r.target, r.path)
                            /\ MayPut(v, r.target, r.overwrite)
                            /\ Has(v, r.target) => HasFile(v, r.path)

\* The tree after an allowed call.
After(v, r) ==
    CASE r.kind = "write" -> [v EXCEPT ![r.path] = AFile(r.content)]
      [] r.kind = "copy" -> [v EXCEPT ![r.target] = v[r.path]]
      [] r.kind = "mkdir" -> [q \in Paths |-> IF At(r.path, q) THEN ADir ELSE v[q]]
      [] r.kind = "delete" -> [q \in Paths |-> IF At(q, r.path) THEN Absent ELSE v[q]]
      [] r.kind = "move" -> [q \in Paths |->
            IF At(q, r.path) THEN Absent
            ELSE IF At(q, r.target) THEN LET o == r.path \o SubSeq(q, Len(r.target) + 1, Len(q))
                                         IN IF o \in Paths THEN v[o] ELSE Absent
            ELSE v[q]]
      [] OTHER -> v

\* What an allowed call reports.
Reports(v, r, result) ==
    CASE r.kind = "read" -> result.data = v[r.path].data
      [] r.kind = "stat" -> result.kind = v[r.path].kind /\ result.data = v[r.path].data
      [] r.kind = "list" -> result.names = {q \in Content(v, r.path) : Above(q) = r.path}
      [] r.kind = "mkdir" -> result.created = ~Has(v, r.path)
      [] OTHER -> TRUE
=============================================================================

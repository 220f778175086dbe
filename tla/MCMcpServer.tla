---------------------------- MODULE MCMcpServer -----------------------------
(* Lines chosen so that every verdict of the validation, every kind of     *)
(* handler and every relation to the message limit occurs.                 *)
EXTENDS McpServer

CONSTANTS A, B  \* request ids

Call == [bytes |-> 1, json |-> "object", version |-> TRUE, id |-> A,
         method |-> "tools/call", params |-> "object", field |-> TRUE,
         argBytes |-> 1, arguments |-> "object", tool |-> "read_file",
         args |-> [name \in {"path"} |-> "text"]]

PipelineMessages ==
    { Call,
      [Call EXCEPT !.id = "absent"],
      [Call EXCEPT !.bytes = MaxReadBytes],
      [Call EXCEPT !.bytes = MaxReadBytes + 1, !.id = B],
      [Call EXCEPT !.id = B, !.tool = "write_file"],
      [Call EXCEPT !.bytes = MaxReadBytes + 2],
      [Call EXCEPT !.bytes = 0, !.json = "malformed"] }

\* Argument objects with up to two fields: those the tool knows, another
\* spelling of one, and one it does not know.
Values == {"text", "blank", "empty", "bool", "int", "zero", "wide", "null", "other"}
Names(t) == InputSchema(t).properties \cup {"unknown"}
              \cup IF "path" \in InputSchema(t).properties THEN {"Path"} ELSE {}
Objects(t) == UNION {[d -> Values] : d \in {x \in SUBSET Names(t) :
                        Cardinality(x) <= 2 /\ ~{"path", "Path"} \subseteq x}}

\* Every shape a line can have as far as the validation looks at it.
Plain == [Call EXCEPT !.bytes = 0, !.method = "ping", !.params = "absent"]
ShapeMessages ==
    {[Plain EXCEPT !.json = j] : j \in {"malformed", "nonobject"}}
    \cup {[Plain EXCEPT !.version = v, !.id = i, !.method = f] :
             v \in BOOLEAN, i \in {"absent", "bad", NullId, A},
             f \in {"blank", "ping", "tools/call"}}
    \cup {[Plain EXCEPT !.method = f, !.id = i, !.params = p, !.field = b] :
             f \in {"initialize", "tools/list"}, i \in {"absent", A}, p \in Kinds, b \in BOOLEAN}
    \cup {[Plain EXCEPT !.method = "tools/call", !.params = p, !.field = b,
                        !.argBytes = n, !.arguments = g, !.tool = t] :
             p \in {"nonobject", "object"}, b \in BOOLEAN, n \in {1, 2}, g \in Kinds,
             t \in {"list_directory", "read_file", "search"}}
    \cup UNION {{[Plain EXCEPT !.method = "tools/call", !.params = "object", !.tool = t, !.args = a] :
                    a \in Objects(t)} : t \in ReadTools \cup WriteTools}

MCTailBytes == {0, 1, MaxReadBytes + 1}
=============================================================================

--------------------------- MODULE ToolArguments ----------------------------
(***************************************************************************)
(* internal/mcp/tools: which arguments the Execute methods accept, and     *)
(* which the input schemas published by tools/list describe.  The two are  *)
(* separate tables in the code (a Go struct with checks behind it, and a   *)
(* JSON schema); McpServer compares them call by call.                     *)
(*                                                                         *)
(* An argument object is a function from field names to values:            *)
(*   "text"    a string with something in it   "bool"   true or false      *)
(*   "blank"   a string of spaces              "int"    an integer from 1  *)
(*   "empty"   the empty string                "zero"   0 or less          *)
(*   "null"    JSON null                       "wide"   1.0, or beyond     *)
(*   "other"   anything else                            int64              *)
(* encoding/json matches field names without regard to case: "Path" stands *)
(* for every other spelling of "path".                                     *)
(***************************************************************************)

NoArguments == [name \in {} |-> "text"]

Strings == {"text", "blank", "empty"}
Type(f) == CASE f \in {"path", "source", "target", "content"} -> Strings
             [] f \in {"overwrite", "recursive"} -> {"bool"}
             [] f = "maxBytes" -> {"int", "zero"}

\* The field a name is decoded into.
Field(name) == IF name = "Path" THEN "path" ELSE name

\* The decoded value; a field that is not there has its zero value.
Given(a, f) == \E name \in DOMAIN a : Field(name) = f
Value(a, f) == IF Given(a, f) THEN a[CHOOSE name \in DOMAIN a : Field(name) = f] ELSE "empty"

\* Mutant: fields the tool does not know are ignored.
decodeLenient(a, fields) ==
    \A name \in DOMAIN a : Field(name) \in fields => a[name] \in Type(Field(name))

\* No null, no unknown field, no value of a wrong type.
decodeStrictArguments(a, fields) ==
    \A name \in DOMAIN a : Field(name) \in fields /\ a[name] \in Type(Field(name))

isNonBlank(v) == v = "text"

-----------------------------------------------------------------------------
(* Execute: the arguments with which the file system is called *)

ListDirectory(a)   == /\ decodeStrictArguments(a, {"path"})
                      /\ Given(a, "path") => isNonBlank(Value(a, "path"))
ReadFileArgs(a)    == /\ decodeStrictArguments(a, {"path", "maxBytes"})
                      /\ isNonBlank(Value(a, "path"))
                      /\ Given(a, "maxBytes") => Value(a, "maxBytes") # "zero"
GetPathInfo(a)     == decodeStrictArguments(a, {"path"}) /\ isNonBlank(Value(a, "path"))
WriteFile(a)       == /\ decodeStrictArguments(a, {"path", "content", "overwrite"})
                      /\ isNonBlank(Value(a, "path"))
CreateDirectory(a) == decodeStrictArguments(a, {"path"}) /\ isNonBlank(Value(a, "path"))
DeletePath(a)      == /\ decodeStrictArguments(a, {"path", "recursive"})
                      /\ isNonBlank(Value(a, "path"))
CopyPath(a)        == /\ decodeStrictArguments(a, {"source", "target", "overwrite"})
                      /\ isNonBlank(Value(a, "source")) /\ isNonBlank(Value(a, "target"))
MovePath(a)        == /\ decodeStrictArguments(a, {"source", "target", "overwrite"})
                      /\ isNonBlank(Value(a, "source")) /\ isNonBlank(Value(a, "target"))

Accepts(tool, a) ==
    CASE tool = "list_directory"   -> ListDirectory(a)
      [] tool = "read_file"        -> ReadFileArgs(a)
      [] tool = "get_path_info"    -> GetPathInfo(a)
      [] tool = "write_file"       -> WriteFile(a)
      [] tool = "create_directory" -> CreateDirectory(a)
      [] tool = "delete_path"      -> DeletePath(a)
      [] tool = "copy_path"        -> CopyPath(a)
      [] tool = "move_path"        -> MovePath(a)

-----------------------------------------------------------------------------
(* InputSchema: what tools/list tells the client *)

ListDirectorySchema   == [required |-> {}, properties |-> {"path"}]
ReadFileSchema        == [required |-> {"path"}, properties |-> {"path", "maxBytes"}]
GetPathInfoSchema     == [required |-> {"path"}, properties |-> {"path"}]
WriteFileSchema       == [required |-> {"path"}, properties |-> {"path", "content", "overwrite"}]
CreateDirectorySchema == [required |-> {"path"}, properties |-> {"path"}]
DeletePathSchema      == [required |-> {"path"}, properties |-> {"path", "recursive"}]
CopyPathSchema        == [required |-> {"source", "target"}, properties |-> {"source", "target", "overwrite"}]
MovePathSchema        == [required |-> {"source", "target"}, properties |-> {"source", "target", "overwrite"}]

InputSchema(tool) ==
    CASE tool = "list_directory"   -> ListDirectorySchema
      [] tool = "read_file"        -> ReadFileSchema
      [] tool = "get_path_info"    -> GetPathInfoSchema
      [] tool = "write_file"       -> WriteFileSchema
      [] tool = "create_directory" -> CreateDirectorySchema
      [] tool = "delete_path"      -> DeletePathSchema
      [] tool = "copy_path"        -> CopyPathSchema
      [] tool = "move_path"        -> MovePathSchema

\* JSON Schema: additionalProperties false, the types, minLength 1 of every
\* path and minimum 1 of maxBytes.
Described(tool, a) ==
    /\ InputSchema(tool).required \subseteq DOMAIN a
    /\ \A name \in DOMAIN a :
          /\ name \in InputSchema(tool).properties
          /\ a[name] \in CASE name \in {"path", "source", "target"} -> {"text", "blank"}
                           [] name = "maxBytes" -> {"int", "wide"}
                           [] OTHER -> Type(name)
=============================================================================

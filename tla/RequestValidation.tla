-------------------------- MODULE RequestValidation -------------------------
(***************************************************************************)
(* internal/mcp/server/request_validation.go: what a complete line is to   *)
(* the server - a rejection, a notification, or a request to dispatch.     *)
(*                                                                         *)
(* A line is a record of the facts the code asks about, in the order it    *)
(* can ask about them:                                                     *)
(*   bytes      length of the content, newline excluded                    *)
(*   json       "malformed", "nonobject" or "object"                       *)
(*   version    the jsonrpc field is the string "2.0"                      *)
(*   id         "absent", "bad" (neither string, number nor null),         *)
(*              NullId, or an identifier                                   *)
(*   method     "blank" (missing, no string, only spaces) or the name      *)
(*   params     "absent", "null", "nonobject" or "object"                  *)
(*   field      params.protocolVersion is a nonempty string (initialize),  *)
(*              params.name is a nonblank string (tools/call)              *)
(*   argBytes   trimmed length of params                                   *)
(*   arguments  "absent", "null", "nonobject" or "object"                  *)
(*   tool       params.name                                                *)
(*   args       the fields of the arguments object (ToolArguments.tla)     *)
(* The arguments are part of params, so the second size check of the code  *)
(* (line 144) never fails after the first (line 115) has passed.           *)
(***************************************************************************)
EXTENDS Naturals

CONSTANTS MaxArgumentBytes,  \* Server.maxArgumentBytes; 0 means no limit
          NullId             \* JSON null as an id

Kinds == {"absent", "null", "nonobject", "object"}

JSONRPCErrors == {"ParseError", "InvalidRequest", "MethodNotFound",
                  "InvalidParams", "InternalError"}

\* requestID: present and of an allowed type.
HasID(m)     == m.id # "absent"
IsValidID(m) == m.id # "bad"

\* Mutant: an id of a wrong type is echoed.
requestIDUnchecked(m) == IF HasID(m) THEN m.id ELSE NullId

requestIDOrNull(m) == IF HasID(m) /\ IsValidID(m) THEN m.id ELSE NullId

exceedsLimit(n) == MaxArgumentBytes > 0 /\ n > MaxArgumentBytes

validateToolsCallParams(m) ==
    /\ m.params = "object"
    /\ ~exceedsLimit(m.argBytes)
    /\ m.field
    /\ m.arguments \in {"absent", "null", "object"}

validateMethodParams(m) ==
    CASE m.method = "initialize" -> m.params = "object" /\ m.field
      [] m.method = "tools/list" -> m.params \in {"absent", "null", "object"}
      [] m.method = "tools/call" -> validateToolsCallParams(m)
      [] OTHER -> TRUE

Rejected(id, code) == [verdict |-> "error", id |-> id, code |-> code]
Notification       == [verdict |-> "notification"]
Request(id)        == [verdict |-> "request", id |-> id]

\* Mutant: a message without id is dispatched like a request.
validateWithoutNotifications(m) ==
    IF m.json = "malformed" THEN Rejected(NullId, "ParseError")
    ELSE IF m.json = "nonobject" \/ ~m.version \/ ~IsValidID(m) \/ m.method = "blank"
    THEN Rejected(NullId, "InvalidRequest")
    ELSE IF ~validateMethodParams(m) THEN Rejected(requestIDOrNull(m), "InvalidParams")
    ELSE Request(m.id)

\* Mutant: a batch is taken for malformed JSON.
validateBatchAsParseError(m) ==
    IF m.json # "object" THEN Rejected(NullId, "ParseError")
    ELSE IF ~m.version \/ ~IsValidID(m) \/ m.method = "blank"
    THEN Rejected(requestIDOrNull(m), "InvalidRequest")
    ELSE IF ~HasID(m) THEN Notification
    ELSE IF ~validateMethodParams(m) THEN Rejected(m.id, "InvalidParams")
    ELSE Request(m.id)

\* validateRequestMessageWithLimits, with its early returns in order.
validateRequestMessage(m) ==
    IF m.json = "malformed" THEN Rejected(NullId, "ParseError")
    ELSE IF m.json = "nonobject" THEN Rejected(NullId, "InvalidRequest")
    ELSE IF ~m.version THEN Rejected(requestIDOrNull(m), "InvalidRequest")
    ELSE IF ~IsValidID(m) THEN Rejected(NullId, "InvalidRequest")
    ELSE IF m.method = "blank" THEN Rejected(requestIDOrNull(m), "InvalidRequest")
    ELSE IF ~HasID(m) THEN Notification
    ELSE IF ~validateMethodParams(m) THEN Rejected(m.id, "InvalidParams")
    ELSE Request(m.id)
=============================================================================

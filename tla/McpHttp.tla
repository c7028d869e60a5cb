------------------------------ MODULE McpHttp ------------------------------
(***************************************************************************)
(* POST /mcp: origin check, bearer token, body limits, the mirror headers  *)
(* of the modern protocol era, JSON-RPC envelope and dispatch, the tool    *)
(* call, and the shape and status of the answer. Every part of a request   *)
(* is chosen when the handler first reads it.                              *)
(***************************************************************************)
EXTENDS Naturals

CONSTANT McpHandlers

VARIABLES
    post,       \* the handlers
    toolRuns    \* per handler: what the backend did for the current request

mcpVars == <<post, toolRuns>>

Eras == {"legacy", "modern"}
Methods == {"initialize", "notifications/initialized", "notifications/cancelled", "ping",
            "server/discover", "tools/list", "tools/call", "other"}
Quiet == [pc |-> "accept", era |-> "none", method |-> "none", id |-> FALSE, named |-> "none",
          elicits |-> FALSE, mirror |-> "none", status |-> 0, body |-> "none"]

McpInit ==
    /\ post = [h \in McpHandlers |-> Quiet]
    /\ toolRuns = [h \in McpHandlers |-> "none"]

Reply(h, status, body) ==
    post' = [post EXCEPT ![h].pc = "replied", ![h].status = status, ![h].body = body]

(* error_response: the HTTP status of an error's category.                 *)
StatusOf(category) ==
    CASE category = "unauthorized" -> 401
      [] category \in {"permission", "security"} -> 403
      [] category = "not_found" -> 404
      [] category = "validation" -> 400
      [] category = "conflict" -> 409
      [] OTHER -> 500

(* modern_http_status: a legacy answer is always 200.                      *)
RpcStatus(era, error) ==
    IF era = "legacy" THEN 200
    ELSE IF error = "method_not_found" THEN 404
    ELSE IF error \in {"invalid_params", "header_mismatch", "missing_capability", "unsupported_version"} THEN 400
    ELSE 200

(* origin_allowed: no Origin header, a loopback page, or a listed origin.  *)
OriginAllowed(origin) == origin \in {"absent", "loopback", "listed"}

(* mcp up to the principal; the body is not read before the token is good. *)
Admit(h, origin, token) ==
    /\ post[h].pc = "accept"
    /\ IF ~OriginAllowed(origin) THEN Reply(h, StatusOf("permission"), "http_error")
       ELSE IF token # "valid" THEN Reply(h, StatusOf("unauthorized"), "http_error")
       ELSE post' = [post EXCEPT ![h].pc = "read"]
    /\ UNCHANGED toolRuns

Parsed(h, era, m, i, n) ==
    [post[h] EXCEPT !.pc = "mirror", !.method = m, !.id = i, !.named = n, !.era = era]

(* read_json_object: content type, declared length at most 1 MiB, the real *)
(* length too, one JSON object.                                            *)
ReadBody(h, contentType, declared, actual, json) ==
    /\ post[h].pc = "read"
    /\ IF contentType # "json" \/ declared \notin {"small"} \/ actual # "small" \/ json # "object"
       THEN Reply(h, StatusOf("validation"), "http_error")
       ELSE \E era \in Eras, m \in Methods, i \in BOOLEAN, n \in {"none", "known", "unknown"} :
             post' = [post EXCEPT ![h] = Parsed(h, IF m = "initialize" THEN "legacy" ELSE era, m, i, n)]
    /\ UNCHANGED toolRuns

(* decode_mirror_header: a base64 sentinel whose prefix and suffix overlap *)
(* makes the slice end before it starts, and the handler panics.           *)
Decoded(name, actual) ==
    CASE name = "absent" -> "missing"
      [] name = "overlapping" -> "panic"
      [] name = "undecodable" -> "error"
      [] name = "same" -> actual
      [] OTHER -> "different"

ModernMirrorUnnamed(h, version, method, name) == version = "modern" /\ method = "same"

(* The modern era's mirror headers agree with the body.                    *)
ModernMirror(h, version, method, name) ==
    /\ version = "modern" /\ method = "same"
    /\ post[h].method = "tools/call" => Decoded(name, post[h].named) = post[h].named

(* duplicate_mirror_header and validate_http_mirror_headers.               *)
CheckMirror(h, envelope, meta, duplicate, version, method, name) ==
    /\ post[h].pc = "mirror"
    /\ LET modern == post[h].era = "modern"
           fail(error) == Reply(h, RpcStatus(post[h].era, error), error)
       IN IF modern /\ duplicate THEN Reply(h, 400, "header_mismatch")
          ELSE IF envelope # "ok" THEN fail("invalid_request")
          ELSE IF ~modern
          THEN IF version = "modern" THEN fail("header_mismatch")
               ELSE IF version = "unsupported" THEN fail("invalid_request")
               ELSE post' = [post EXCEPT ![h].pc = "dispatch"]
          ELSE IF meta # "ok" THEN fail(IF meta = "version" THEN "unsupported_version" ELSE "invalid_params")
          ELSE IF post[h].method = "tools/call" /\ version = "modern" /\ method = "same"
                  /\ Decoded(name, post[h].named) = "panic"
          THEN post' = [post EXCEPT ![h].pc = "panicked"]
          ELSE IF ~ModernMirror(h, version, method, name) THEN fail("header_mismatch")
          ELSE post' = [post EXCEPT ![h].pc = "dispatch", ![h].mirror = Decoded(name, post[h].named)]
    /\ UNCHANGED toolRuns

(* A request without an id gets no body, whatever its dispatch returned.   *)
Deliver(h, error) ==
    IF ~post[h].id THEN Reply(h, 202, "empty")
    ELSE Reply(h, RpcStatus(post[h].era, error), error)

Unanswered(m, era) ==
    m = "notifications/cancelled" \/ (m = "notifications/initialized" /\ era = "legacy")

(* dispatch_modern and dispatch_legacy, and call_tool up to the backend.   *)
Dispatch(h, round, arguments) ==
    /\ post[h].pc = "dispatch"
    /\ LET m == post[h].method
           known == IF post[h].era = "modern"
                    THEN m \in {"server/discover", "notifications/cancelled", "ping", "tools/list", "tools/call"}
                    ELSE m \in {"initialize", "notifications/initialized", "notifications/cancelled",
                                "ping", "tools/list", "tools/call"}
       IN IF post[h].era = "modern" /\ round = "malformed" THEN Deliver(h, "invalid_params")
          ELSE IF ~known THEN Deliver(h, "method_not_found")
          ELSE IF Unanswered(m, post[h].era) THEN Reply(h, 202, "empty")
          ELSE IF m # "tools/call" THEN Deliver(h, "result")
          ELSE IF post[h].named # "known" \/ arguments # "valid" THEN Deliver(h, "invalid_params")
          ELSE \E e \in IF post[h].era = "modern" THEN BOOLEAN ELSE {FALSE} :
                post' = [post EXCEPT ![h].pc = "call", ![h].elicits = e]
    /\ UNCHANGED toolRuns

Resolve(h, outcome) ==
    IF outcome = "error" THEN "internal"
    ELSE IF outcome = "input_required" /\ ~post[h].elicits THEN "missing_capability"
    ELSE outcome

CallBackend(h, outcome) ==
    /\ post[h].pc = "call"
    /\ toolRuns' = [toolRuns EXCEPT ![h] = outcome]
    /\ Deliver(h, Resolve(h, outcome))

Settle(h) ==
    /\ post[h].pc \in {"replied", "panicked"}
    /\ post' = [post EXCEPT ![h] = Quiet]
    /\ toolRuns' = [toolRuns EXCEPT ![h] = "none"]

McpNext ==
    \E h \in McpHandlers :
        \/ \E o \in {"absent", "loopback", "listed", "foreign"}, t \in {"valid", "invalid"} : Admit(h, o, t)
        \/ \E c \in {"json", "other"}, d \in {"small", "absent", "huge"}, a \in {"small", "huge"},
              j \in {"object", "other"} : ReadBody(h, c, d, a, j)
        \/ \E e \in {"ok", "bad"}, m \in {"ok", "version", "capabilities"}, d \in BOOLEAN,
              v \in {"absent", "modern", "legacy", "unsupported"}, w \in {"absent", "same", "other"},
              n \in {"absent", "same", "other", "undecodable", "overlapping"} : CheckMirror(h, e, m, d, v, w, n)
        \/ \E r \in {"ok", "malformed"}, a \in {"valid", "invalid"} : Dispatch(h, r, a)
        \/ \E b \in {"complete", "input_required", "error"} : CallBackend(h, b)
        \/ Settle(h)

McpSpec == McpInit /\ [][McpNext]_mcpVars

-----------------------------------------------------------------------------
(* A client that is told 4xx may repeat its request: no tool has run, or   *)
(* the tool only asked a question the client cannot be shown.              *)
RefusalRanNothing ==
    \A h \in McpHandlers : post[h].pc = "replied" /\ post[h].status >= 400 =>
        toolRuns[h] \in {"none", "input_required"}

(* What stands between client and server routes on the headers: a modern   *)
(* call runs the tool its Mcp-Name header names, and no other.             *)
RunsWhatIsMirrored ==
    \A h \in McpHandlers : toolRuns[h] # "none" /\ post[h].era = "modern" =>
        post[h].mirror = post[h].named

(* An input round is offered only to a modern client that declared form    *)
(* elicitation; everybody else gets an error instead of a question.        *)
QuestionsAnswerable ==
    \A h \in McpHandlers : post[h].pc = "replied" /\ post[h].body = "input_required" =>
        post[h].era = "modern" /\ post[h].elicits

(* What a request ran agrees with what its sender and those in between can *)
(* see of it: the status, the headers and the body (handle_post).          *)
RepliesSound ==
    /\ RefusalRanNothing
    /\ RunsWhatIsMirrored
    /\ QuestionsAnswerable
=============================================================================

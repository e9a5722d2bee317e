------------------------------ MODULE MCLspServer -----------------------------
(* Payloads for model checking LspServer.                                      *)
EXTENDS LspServer

jsonrpc == Member("jsonrpc", 0, "string", "2.0")
method(name) == Member("method", 0, "string", name)
id(value) == Member("id", 0, "raw", value)

MCPayloads == {
    <<jsonrpc, id("1"), method("initialize")>>,
    <<method("shutdown"), Member("id", 0, "string", "s"), jsonrpc>>,
    <<jsonrpc, method("exit")>>,
    <<jsonrpc, id("1"), method("exit")>>,
    <<jsonrpc, method("shutdown")>>,
    <<jsonrpc, method("hover"), id("null"), Member("id", 1, "raw", "9")>>,
    <<jsonrpc, method("initialized")>>,
    <<jsonrpc, Member("method", 0, "raw", "7"), id("1")>>,
    <<Member("jsonrpc", 0, "string", "1.0"), method("exit")>>,
    <<jsonrpc, id("1"), method("id"), Text("id"), Member(Other, 0, "raw", "{")>>,
    <<method("jsonrpc"), Text("jsonrpc")>> }

\* Notifications: $/cancelRequest, whose params name the request to cancel; one of
\* the method "id", before or behind its version; an exit with an "id" in its params.
MCNested == MCPayloads \cup {
    <<jsonrpc, method("$/cancelRequest"), Member("id", 1, "raw", "1")>>,
    <<method("id"), Text("id"), jsonrpc>>,
    <<jsonrpc, method("id"), Text("id")>>,
    <<jsonrpc, method("exit"), Text("id"), Member(Other, 0, "raw", "7")>> }
===============================================================================

------------------------------ MODULE LspHandlers -----------------------------
(* The language server's handlers (src/lsp/server.cpp): what one payload does   *)
(* to the server's members and to the output stream.  Modules that say where   *)
(* payloads come from extend this one.                                         *)
EXTENDS LspMessage, Integers

VARIABLES
    shutdown_received,   \* Server::shutdown_received_
    exit_requested,      \* Server::exit_requested_
    exit_code,           \* Server::exit_code_
    result,              \* what run() returned, or Running
    out                  \* every reply written so far, in order

handler_vars == <<shutdown_received, exit_requested, exit_code, result, out>>

\* run() has not returned.
Running == -1

\* A reply as the client sees it, with the number of the message that caused it.
Reply(msg, id, body) == [msg |-> msg, id |-> id, body |-> body]

Bodies == {"capabilities", "null", "parse error", "method not implemented"}

HandlersInit ==
    /\ shutdown_received = FALSE
    /\ exit_requested = FALSE
    /\ exit_code = 0
    /\ result = Running
    /\ out = <<>>

-------------------------------------------------------------------------------
(* One action per way a payload is dealt with.  msg numbers the payload among  *)
(* those the reader delivered.                                                 *)

send(msg, id, body) == out' = Append(out, Reply(msg, id, body))

\* parse_message refused the payload: run() answers and goes on reading.
ParseError(msg, payload) ==
    /\ ~parse_message(payload).valid
    /\ send(msg, NullId, "parse error")
    /\ UNCHANGED <<shutdown_received, exit_requested, exit_code, result>>

\* handle_request is reached for every message in which an id was found.
Requests(payload, method) ==
    LET message == parse_message(payload)
    IN  message.valid /\ message.has_id /\ message.method = method

Initialize(msg, payload) ==
    /\ Requests(payload, "initialize")
    /\ send(msg, parse_message(payload).id, "capabilities")
    /\ UNCHANGED <<shutdown_received, exit_requested, exit_code, result>>

\* Mutant: the request is answered but not remembered.
Shutdown_NotRemembered(msg, payload) ==
    /\ Requests(payload, "shutdown")
    /\ send(msg, parse_message(payload).id, "null")
    /\ UNCHANGED <<shutdown_received, exit_requested, exit_code, result>>

Shutdown(msg, payload) ==
    /\ Requests(payload, "shutdown")
    /\ shutdown_received' = TRUE
    /\ send(msg, parse_message(payload).id, "null")
    /\ UNCHANGED <<exit_requested, exit_code, result>>

MethodNotImplemented(msg, payload) ==
    /\ parse_message(payload).valid /\ parse_message(payload).has_id
    /\ parse_message(payload).method \notin {"initialize", "shutdown"}
    /\ send(msg, parse_message(payload).id, "method not implemented")
    /\ UNCHANGED <<shutdown_received, exit_requested, exit_code, result>>

\* handle_notification is reached for the others.
Notifies(payload) == parse_message(payload).valid /\ ~parse_message(payload).has_id

\* Mutant: run()'s loop does not look at exit_requested_ after a notification.
Exit_ReadsOn(payload) ==
    /\ Notifies(payload) /\ parse_message(payload).method = "exit"
    /\ exit_requested' = TRUE
    /\ exit_code' = IF shutdown_received THEN 0 ELSE 1
    /\ UNCHANGED <<shutdown_received, result, out>>

\* The exit notification: run() returns as soon as it is handled.
Exit(payload) ==
    /\ Notifies(payload) /\ parse_message(payload).method = "exit"
    /\ exit_requested' = TRUE
    /\ exit_code' = IF shutdown_received THEN 0 ELSE 1
    /\ result' = exit_code'
    /\ UNCHANGED <<shutdown_received, out>>

IgnoreNotification(payload) ==
    /\ Notifies(payload) /\ parse_message(payload).method # "exit"
    /\ UNCHANGED handler_vars

HandlePayload(msg, payload) ==
    \/ ParseError(msg, payload)
    \/ Initialize(msg, payload)
    \/ Shutdown(msg, payload)
    \/ MethodNotImplemented(msg, payload)
    \/ Exit(payload)
    \/ IgnoreNotification(payload)

\* Mutant: a lost connection has a status of its own.
EndSession_OwnStatus ==
    /\ result' = IF exit_requested THEN exit_code ELSE 2
    /\ UNCHANGED <<shutdown_received, exit_requested, exit_code, out>>

\* read_message returned false: run() ends, with status 0 whatever was received.
EndSession ==
    /\ result' = IF exit_requested THEN exit_code ELSE 0
    /\ UNCHANGED <<shutdown_received, exit_requested, exit_code, out>>

HandlersTypeOK ==
    /\ shutdown_received \in BOOLEAN
    /\ exit_requested \in BOOLEAN
    /\ exit_code \in {0, 1}
    /\ result \in {Running, 0, 1}
    /\ out \in Seq([msg : Nat, id : [value : STRING, is_string : BOOLEAN], body : Bodies])
===============================================================================

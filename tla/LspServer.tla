------------------------------- MODULE LspServer ------------------------------
(* What the language server promises an editor, the transport abstracted away:  *)
(* Server::run (src/lsp/server.cpp) takes the payloads the client sent one by   *)
(* one, in order, and hands each to its handler.  LspTransport refines this     *)
(* module with the framing of src/lsp/message_io.cpp.                           *)
EXTENDS LspHandlers

CONSTANTS
    Payloads,      \* the payloads the client may send
    MaxMessages    \* bound: how many it sends in a session

ASSUME PayloadsAreMembers == Payloads \subseteq Seq(MemberType)
ASSUME TextsAreListed == \A p \in Payloads : TextsStand(p)
ASSUME MaxMessagesIsNat == MaxMessages \in Nat

VARIABLES
    log,           \* every payload the client has sent; an immutable record
    next,          \* how many of them the server has taken
    closed         \* the client has closed its end of the stream

server_vars == <<handler_vars, log, next, closed>>

Init ==
    /\ HandlersInit
    /\ log = <<>>
    /\ next = 0
    /\ closed = FALSE

ClientSend(payload) ==
    /\ ~closed /\ Len(log) < MaxMessages
    /\ log' = Append(log, payload)
    /\ UNCHANGED <<handler_vars, next, closed>>

ClientClose ==
    /\ ~closed
    /\ closed' = TRUE
    /\ UNCHANGED <<handler_vars, log, next>>

\* One turn of run()'s loop.
Serve ==
    /\ result = Running
    /\ next < Len(log)
    /\ next' = next + 1
    /\ HandlePayload(next + 1, log[next + 1])
    /\ UNCHANGED <<log, closed>>

\* Mutant: the end of the stream is noticed before what it still holds is read.
EndOfInput_DropsRest ==
    /\ result = Running
    /\ closed
    /\ EndSession
    /\ UNCHANGED <<log, next, closed>>

EndOfInput ==
    /\ result = Running
    /\ closed /\ next = Len(log)
    /\ EndSession
    /\ UNCHANGED <<log, next, closed>>

Next ==
    \/ \E payload \in Payloads : ClientSend(payload)
    \/ ClientClose
    \/ Serve
    \/ EndOfInput

Safety == Init /\ [][Next]_server_vars

\* The server is one thread that reads whenever there is something to read; the
\* client owes nothing.
Spec == Safety /\ WF_server_vars(Serve) /\ WF_server_vars(EndOfInput)

-------------------------------------------------------------------------------

TypeOK ==
    /\ HandlersTypeOK
    /\ log \in Seq(Payloads)
    /\ next \in 0..Len(log)
    /\ closed \in BOOLEAN

\* Message i asks the server to stop, by JSON-RPC's reading of it.
IsExit(i)     == IsNotification(log[i]) /\ MethodOf(log[i]) = "exit"
IsShutdown(i) == IsRequest(log[i]) /\ MethodOf(log[i]) = "shutdown"

\* What the server owes the client for message i, by JSON-RPC's reading of it.
Owes(i) == ~IsNotification(log[i])
OwedReply(i) ==
    IF IsRequest(log[i])
    THEN Reply(i, IdOf(log[i]),
               CASE MethodOf(log[i]) = "initialize" -> "capabilities"
                 [] MethodOf(log[i]) = "shutdown"   -> "null"
                 [] OTHER -> "method not implemented")
    ELSE Reply(i, NullId, "parse error")

\* Replies come in the order of the messages, exactly one for each message taken
\* that is not a notification, none for notifications, each with that message's
\* own id and body (send_response, send_error against handle_request).
RepliesMatch ==
    /\ \A k \in 2..Len(out) : out[k - 1].msg < out[k].msg
    /\ \A k \in 1..Len(out) :
          /\ out[k].msg \in 1..next
          /\ Owes(out[k].msg) /\ out[k] = OwedReply(out[k].msg)
    /\ \A i \in 1..next : Owes(i) => \E k \in 1..Len(out) : out[k].msg = i

\* run() "returns the exit code dictated by the LSP spec": 1 when the client's
\* exit was not preceded by a shutdown request, 0 otherwise.  It takes nothing
\* after an exit.
ExitCodeContract ==
    /\ \A i \in 1..next : IsExit(i) => i = next /\ result # Running
    /\ result = 1 <=>
          \E i \in 1..next : IsExit(i) /\ \A j \in 1..(i - 1) : ~IsShutdown(j)

\* A notification never causes a reply (the comment in handle_notification).
\* Payloads with a nested "id", and those with a string "id", break this: see
\* the runs on nested and on spelled payloads.
NotificationsAreIgnored ==
    \A k \in 1..Len(out) : ~IsNotification(log[out[k].msg])

\* Every message that is owed a reply gets one, unless an exit came before it.
EventuallyAnswered ==
    \A i \in 1..MaxMessages :
        (i <= Len(log) /\ Owes(i))
            ~> (\/ \E k \in 1..Len(out) : out[k].msg = i
                \/ \E j \in 1..(i - 1) : j <= Len(log) /\ IsExit(j))

\* run() returns once the client has closed the stream or sent an exit.
EventuallyReturns ==
    (closed \/ \E i \in 1..Len(log) : IsExit(i)) ~> (result # Running)
===============================================================================

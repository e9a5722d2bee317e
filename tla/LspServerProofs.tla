--------------------------- MODULE LspServerProofs ----------------------------
(* What holds of the language server for every set of payloads and any number  *)
(* of messages.                                                                *)
EXTENDS LspServer, LspHandlersProofs

(* Each payload the client has sent is a sequence of members.                   *)
LEMMA LogTyped ==
    ASSUME TypeOK, NEW i \in 1..Len(log)
    PROVE  log[i] \in Payloads /\ log[i] \in Seq(MemberType) /\ TextsStand(log[i])
<1>1. log[i] \in Payloads
  BY DEF TypeOK
<1> QED
  BY <1>1, PayloadsAreMembers, TextsAreListed DEF PayloadsAreMembers, TextsAreListed

(* A server that has just been constructed has members of their types.          *)
LEMMA InitTyped == Init => TypeOK
<1> SUFFICES ASSUME Init
             PROVE  TypeOK
  OBVIOUS
<1>1. HandlersTypeOK
  <2>1. out \in Seq([msg : Nat, id : [value : STRING, is_string : BOOLEAN], body : Bodies])
    BY DEF Init, HandlersInit
  <2> QED
    BY <2>1 DEF Init, HandlersInit, HandlersTypeOK
<1>2. log = <<>> /\ next = 0 /\ closed = FALSE
  BY DEF Init
<1>3. log \in Seq(Payloads) /\ next \in 0..Len(log)
  BY <1>2
<1> QED
  BY <1>1, <1>2, <1>3 DEF TypeOK

(* Neither the editor nor one turn of run()'s loop disturbs the types.            *)
LEMMA StepTyped == TypeOK /\ [Next]_server_vars => TypeOK'
<1> SUFFICES ASSUME TypeOK, [Next]_server_vars
             PROVE  TypeOK'
  OBVIOUS
<1>1. ASSUME NEW payload \in Payloads, ClientSend(payload)
      PROVE  TypeOK'
  <2>1. log' \in Seq(Payloads) /\ Len(log') = Len(log) + 1
    BY <1>1, AppendProperties DEF ClientSend, TypeOK
  <2> QED
    BY <1>1, <2>1 DEF ClientSend, handler_vars, TypeOK, HandlersTypeOK
<1>2. CASE ClientClose
  BY <1>2 DEF ClientClose, handler_vars, TypeOK, HandlersTypeOK
<1>3. CASE Serve
  <2>1. next + 1 \in 1..Len(log)
    BY <1>3 DEF Serve, TypeOK
  <2>2. HandlersTypeOK'
    <3>1. log[next + 1] \in Seq(MemberType) /\ \A member \in MemberType : member.value \in STRING
      BY <2>1, LogTyped DEF MemberType
    <3> QED
      BY <1>3, <2>1, <3>1, HandlersTyped DEF Serve, TypeOK
  <2> QED
    BY <1>3, <2>1, <2>2 DEF Serve, TypeOK
<1>4. CASE EndOfInput
  BY <1>4 DEF EndOfInput, EndSession, TypeOK, HandlersTypeOK
<1>5. CASE UNCHANGED server_vars
  BY <1>5 DEF server_vars, handler_vars, TypeOK, HandlersTypeOK
<1> QED
  BY <1>1, <1>2, <1>3, <1>4, <1>5 DEF Next

(* The server's members, its output and the session's record keep their types,   *)
(* and the server never takes a message that was not sent.                       *)
THEOREM TypeCorrect == Spec => []TypeOK
BY InitTyped, StepTyped, PTL DEF Spec, Safety

-------------------------------------------------------------------------------
(* From here on every payload reads as JSON-RPC does.  Without that the server   *)
(* answers notifications and mistakes ids: see the runs on nested members and on *)
(* strings spelled like a key.                                                  *)
PlainPayloads == \A p \in Payloads : IsPlain(p)

(* What a handler does with message i, said in JSON-RPC's terms.                 *)
LEMMA HandledAsOwed ==
    ASSUME TypeOK, PlainPayloads, NEW i \in 1..Len(log), HandlePayload(i, log[i])
    PROVE  /\ IF Owes(i)
              THEN /\ Len(out') = Len(out) + 1
                   /\ \A k \in 1..Len(out) : out'[k] = out[k]
                   /\ out'[Len(out) + 1] = OwedReply(i)
              ELSE out' = out
           /\ shutdown_received' <=> shutdown_received \/ IsShutdown(i)
           /\ IF IsExit(i)
              THEN result' = IF shutdown_received THEN 0 ELSE 1
              ELSE result' = result /\ exit_requested' = exit_requested
<1> DEFINE p == log[i]
           m == parse_message(p)
<1>1. p \in Seq(MemberType) /\ TextsStand(p) /\ IsPlain(p)
  BY LogTyped DEF PlainPayloads
<1>2. /\ m.valid <=> IsWellFormed(p)
      /\ IsWellFormed(p) => m.method = MethodOf(p)
      /\ IsWellFormed(p) => (m.has_id <=> Has(p, "id"))
      /\ IsRequest(p) => m.id = IdOf(p)
      /\ m.id \in IdType
  <2>1. \A member \in MemberType : member.value \in STRING
    BY DEF MemberType
  <2> QED
    BY <1>1, <2>1, ParsePlain, ParseTyped
<1>3. shutdown_received \in BOOLEAN /\ exit_requested \in BOOLEAN
  BY DEF TypeOK, HandlersTypeOK
<1>0. i \in Nat
  OBVIOUS
<1> HIDE DEF p
<1>4. CASE ParseError(i, p)
  <2>1. ~IsWellFormed(p) /\ send(i, NullId, "parse error")
    BY <1>2, <1>4 DEF ParseError
  <2>2. OwedReply(i) = Reply(i, NullId, "parse error") /\ Owes(i) /\ ~IsExit(i) /\ ~IsShutdown(i)
    BY <2>1 DEF OwedReply, Owes, IsExit, IsShutdown, IsRequest, IsNotification, p
  <2>3. /\ Len(out') = Len(out) + 1
        /\ \A k \in 1..Len(out) : out'[k] = out[k]
        /\ out'[Len(out) + 1] = Reply(i, NullId, "parse error")
    BY <1>0, <2>1, SendTyped, NullIdTyped DEF TypeOK, Bodies
  <2> QED
    BY <1>3, <1>4, <2>2, <2>3 DEF ParseError
<1>5. CASE Initialize(i, p)
  <2>1. /\ IsRequest(p) /\ MethodOf(p) = "initialize"
        /\ send(i, IdOf(p), "capabilities") /\ IdOf(p) \in IdType
    BY <1>2, <1>5 DEF Initialize, Requests, IsRequest
  <2>2. /\ OwedReply(i) = Reply(i, IdOf(p), "capabilities")
        /\ Owes(i) /\ ~IsExit(i) /\ ~IsShutdown(i)
    BY <2>1 DEF OwedReply, Owes, IsExit, IsShutdown, IsRequest, IsNotification, p
  <2>3. /\ Len(out') = Len(out) + 1
        /\ \A k \in 1..Len(out) : out'[k] = out[k]
        /\ out'[Len(out) + 1] = Reply(i, IdOf(p), "capabilities")
    BY <1>0, <2>1, SendTyped DEF TypeOK, Bodies
  <2> QED
    BY <1>3, <1>5, <2>2, <2>3 DEF Initialize
<1>6. CASE Shutdown(i, p)
  <2>1. /\ IsRequest(p) /\ MethodOf(p) = "shutdown"
        /\ send(i, IdOf(p), "null") /\ IdOf(p) \in IdType
    BY <1>2, <1>6 DEF Shutdown, Requests, IsRequest
  <2>2. /\ OwedReply(i) = Reply(i, IdOf(p), "null")
        /\ Owes(i) /\ ~IsExit(i) /\ IsShutdown(i)
    BY <2>1 DEF OwedReply, Owes, IsExit, IsShutdown, IsRequest, IsNotification, p
  <2>3. /\ Len(out') = Len(out) + 1
        /\ \A k \in 1..Len(out) : out'[k] = out[k]
        /\ out'[Len(out) + 1] = Reply(i, IdOf(p), "null")
    BY <1>0, <2>1, SendTyped DEF TypeOK, Bodies
  <2> QED
    BY <1>3, <1>6, <2>2, <2>3 DEF Shutdown
<1>7. CASE MethodNotImplemented(i, p)
  <2>1. /\ IsRequest(p) /\ MethodOf(p) \notin {"initialize", "shutdown"}
        /\ send(i, IdOf(p), "method not implemented") /\ IdOf(p) \in IdType
    BY <1>2, <1>7 DEF MethodNotImplemented, IsRequest
  <2>2. /\ OwedReply(i) = Reply(i, IdOf(p), "method not implemented")
        /\ Owes(i) /\ ~IsExit(i) /\ ~IsShutdown(i)
    BY <2>1 DEF OwedReply, Owes, IsExit, IsShutdown, IsRequest, IsNotification, p
  <2>3. /\ Len(out') = Len(out) + 1
        /\ \A k \in 1..Len(out) : out'[k] = out[k]
        /\ out'[Len(out) + 1] = Reply(i, IdOf(p), "method not implemented")
    BY <1>0, <2>1, SendTyped DEF TypeOK, Bodies
  <2> QED
    BY <1>3, <1>7, <2>2, <2>3 DEF MethodNotImplemented
<1>8. CASE Exit(p)
  <2>1. ~Owes(i) /\ IsExit(i) /\ ~IsShutdown(i)
    BY <1>2, <1>8 DEF Exit, Notifies, Owes, IsExit, IsShutdown, IsRequest, IsNotification, p
  <2> QED
    BY <1>3, <1>8, <2>1 DEF Exit
<1>9. CASE IgnoreNotification(p)
  <2>1. ~Owes(i) /\ ~IsExit(i) /\ ~IsShutdown(i)
    BY <1>2, <1>9
       DEF IgnoreNotification, Notifies, Owes, IsExit, IsShutdown, IsRequest, IsNotification, p
  <2> QED
    BY <1>3, <1>9, <2>1 DEF IgnoreNotification, handler_vars
<1> QED
  BY <1>4, <1>5, <1>6, <1>7, <1>8, <1>9 DEF HandlePayload, p

(* What the server remembers of the messages it has taken.                       *)
ShutdownIsRecorded ==
    shutdown_received <=> \E i \in 1..next : IsShutdown(i)
ReadsUntilExit == result = Running => ~exit_requested

SessionInv ==
    /\ TypeOK
    /\ RepliesMatch
    /\ ExitCodeContract
    /\ ShutdownIsRecorded
    /\ ReadsUntilExit

(* What a message is does not change while it stays in the log.                  *)
LEMMA SameMessage ==
    ASSUME NEW i, log'[i] = log[i]
    PROVE  /\ IsExit(i)' <=> IsExit(i)
           /\ IsShutdown(i)' <=> IsShutdown(i)
           /\ Owes(i)' <=> Owes(i)
           /\ OwedReply(i)' = OwedReply(i)
BY DEF IsExit, IsShutdown, Owes, OwedReply

(* A step that neither takes a message nor ends the session, and only adds to    *)
(* the log, leaves the invariant alone.                                          *)
LEMMA IdleStep ==
    ASSUME SessionInv, TypeOK', UNCHANGED <<handler_vars, next>>,
           \A i \in 1..next : log'[i] = log[i]
    PROVE  SessionInv'
<1>1. /\ next' = next /\ out' = out /\ result' = result
      /\ shutdown_received' = shutdown_received /\ exit_requested' = exit_requested
  BY DEF handler_vars
<1>2. \A i \in 1..next : /\ IsExit(i)' <=> IsExit(i)
                         /\ IsShutdown(i)' <=> IsShutdown(i)
                         /\ Owes(i)' <=> Owes(i)
                         /\ OwedReply(i)' = OwedReply(i)
  BY SameMessage
<1>3. next \in Nat
  BY DEF SessionInv, TypeOK
<1>4. RepliesMatch'
  BY <1>1, <1>2 DEF SessionInv, RepliesMatch
<1>5. ExitCodeContract'
  BY <1>1, <1>2, <1>3 DEF SessionInv, ExitCodeContract, Running
<1>6. ShutdownIsRecorded' /\ ReadsUntilExit'
  BY <1>1, <1>2 DEF SessionInv, ShutdownIsRecorded, ReadsUntilExit, Running
<1> QED
  BY <1>4, <1>5, <1>6 DEF SessionInv

(* One turn of run()'s loop keeps what the session invariant says of the replies, *)
(* the flags and the exit status.                                                *)
LEMMA ServeStep ==
    ASSUME SessionInv, TypeOK', PlainPayloads, Serve
    PROVE  SessionInv'
<1> DEFINE i == next + 1
<1>1. /\ next \in Nat /\ Len(out) \in Nat /\ i \in 1..Len(log) /\ i \in Nat /\ i > next
      /\ result = Running /\ next' = i /\ log' = log /\ TypeOK
  BY LenProperties DEF SessionInv, TypeOK, HandlersTypeOK, Serve
<1>2. HandlePayload(i, log[i])
  BY DEF Serve
<1>3. /\ IF Owes(i)
         THEN /\ Len(out') = Len(out) + 1
              /\ \A k \in 1..Len(out) : out'[k] = out[k]
              /\ out'[Len(out) + 1] = OwedReply(i)
         ELSE out' = out
      /\ shutdown_received' <=> shutdown_received \/ IsShutdown(i)
      /\ IF IsExit(i)
         THEN result' = IF shutdown_received THEN 0 ELSE 1
         ELSE result' = result /\ exit_requested' = exit_requested
  BY <1>1, <1>2, HandledAsOwed
<1>4. \A j : /\ IsExit(j)' <=> IsExit(j)
             /\ IsShutdown(j)' <=> IsShutdown(j)
             /\ Owes(j)' <=> Owes(j)
             /\ OwedReply(j)' = OwedReply(j)
  BY <1>1, SameMessage
<1>5. OwedReply(i).msg = i
  BY DEF OwedReply, Reply
<1>6. \A j \in 1..i : j \in 1..next \/ j = i
  BY <1>1
<1> HIDE DEF i
<1>7. RepliesMatch'
  <2>1. CASE Owes(i)
    <3>1. /\ Len(out') = Len(out) + 1
          /\ \A k \in 1..Len(out) : out'[k] = out[k]
          /\ out'[Len(out) + 1] = OwedReply(i)
      BY <1>3, <2>1
    <3>2. \A k \in 2..Len(out') : out'[k - 1].msg < out'[k].msg
      <4> SUFFICES ASSUME NEW k \in 2..Len(out')
                   PROVE  out'[k - 1].msg < out'[k].msg
        OBVIOUS
      <4>1. CASE k = Len(out) + 1
        <5>1. out'[k - 1] = out[k - 1] /\ out[k - 1].msg \in 1..next
          BY <1>1, <3>1, <4>1 DEF SessionInv, RepliesMatch
        <5> QED
          BY <1>1, <1>5, <3>1, <4>1, <5>1
      <4>2. CASE k # Len(out) + 1
        <5>1. k \in 2..Len(out) /\ k \in 1..Len(out) /\ k - 1 \in 1..Len(out)
          BY <1>1, <3>1, <4>2
        <5>2. out[k - 1].msg < out[k].msg
          BY <5>1 DEF SessionInv, RepliesMatch
        <5> QED
          BY <3>1, <5>1, <5>2
      <4> QED
        BY <4>1, <4>2
    <3>3. \A k \in 1..Len(out') :
             /\ out'[k].msg \in 1..i
             /\ Owes(out'[k].msg) /\ out'[k] = OwedReply(out'[k].msg)
      <4> SUFFICES ASSUME NEW k \in 1..Len(out')
                   PROVE  /\ out'[k].msg \in 1..i
                          /\ Owes(out'[k].msg) /\ out'[k] = OwedReply(out'[k].msg)
        OBVIOUS
      <4>1. CASE k = Len(out) + 1
        BY <1>1, <1>5, <2>1, <3>1, <4>1
      <4>2. CASE k # Len(out) + 1
        <5>1. k \in 1..Len(out) /\ out'[k] = out[k]
          BY <1>1, <3>1, <4>2
        <5>2. out[k].msg \in 1..next /\ Owes(out[k].msg) /\ out[k] = OwedReply(out[k].msg)
          BY <5>1 DEF SessionInv, RepliesMatch
        <5> QED
          BY <1>1, <5>1, <5>2
      <4> QED
        BY <4>1, <4>2
    <3>4. \A j \in 1..i : Owes(j) => \E k \in 1..Len(out') : out'[k].msg = j
      <4> SUFFICES ASSUME NEW j \in 1..i, Owes(j)
                   PROVE  \E k \in 1..Len(out') : out'[k].msg = j
        OBVIOUS
      <4>1. CASE j = i
        <5>1. Len(out) + 1 \in 1..Len(out')
          BY <1>1, <3>1
        <5> QED
          BY <1>5, <3>1, <4>1, <5>1
      <4>2. CASE j \in 1..next
        <5>1. PICK k \in 1..Len(out) : out[k].msg = j
          BY <4>2 DEF SessionInv, RepliesMatch
        <5>2. k \in 1..Len(out') /\ out'[k].msg = j
          BY <1>1, <3>1, <5>1
        <5> QED
          BY <5>2
      <4> QED
        BY <1>6, <4>1, <4>2
    <3> QED
      BY <1>1, <1>4, <3>2, <3>3, <3>4 DEF RepliesMatch
  <2>2. CASE ~Owes(i)
    <3>1. out' = out
      BY <1>3, <2>2
    <3>2. \A j \in 1..next : j \in 1..i
      BY <1>1
    <3> QED
      BY <1>1, <1>4, <1>6, <2>2, <3>1, <3>2 DEF SessionInv, RepliesMatch
  <2> QED
    BY <2>1, <2>2
<1>8. \A j \in 1..next : ~IsExit(j)
  BY <1>1 DEF SessionInv, ExitCodeContract
<1>9. ExitCodeContract'
  <2>1. \A j \in 1..i : IsExit(j) => j = i /\ result' # Running
    BY <1>3, <1>6, <1>8 DEF Running
  <2>2. shutdown_received <=> \E j \in 1..(i - 1) : IsShutdown(j)
    <3>1. i - 1 = next
      BY <1>1 DEF i
    <3> QED
      BY <3>1 DEF SessionInv, ShutdownIsRecorded
  <2>3. CASE IsExit(i)
    <3>1. result' = IF shutdown_received THEN 0 ELSE 1
      BY <1>3, <2>3
    <3>2. i \in 1..i
      BY <1>1
    <3> QED
      BY <1>1, <1>4, <2>1, <2>2, <2>3, <3>1, <3>2 DEF ExitCodeContract, Running
  <2>4. CASE ~IsExit(i)
    <3>1. result' = Running
      BY <1>1, <1>3, <2>4
    <3> QED
      BY <1>1, <1>4, <1>6, <1>8, <2>4, <3>1 DEF ExitCodeContract, Running
  <2> QED
    BY <2>3, <2>4
<1>10. ShutdownIsRecorded'
  <2>1. shutdown_received' <=> \E j \in 1..i : IsShutdown(j)
    <3>1. i \in 1..i /\ \A j \in 1..next : j \in 1..i
      BY <1>1
    <3> QED
      BY <1>3, <1>6, <3>1 DEF SessionInv, ShutdownIsRecorded
  <2> QED
    BY <1>1, <1>4, <2>1 DEF ShutdownIsRecorded
<1>11. ReadsUntilExit'
  BY <1>1, <1>3 DEF SessionInv, ReadsUntilExit, Running
<1> QED
  BY <1>7, <1>9, <1>10, <1>11 DEF SessionInv

(* So does the end of the stream, which leaves the loop with status 0.            *)
LEMMA EndOfInputStep ==
    ASSUME SessionInv, TypeOK', EndOfInput
    PROVE  SessionInv'
<1>1. /\ next' = next /\ log' = log /\ out' = out /\ result = Running /\ result' = 0
      /\ shutdown_received' = shutdown_received /\ exit_requested' = exit_requested
  BY DEF EndOfInput, EndSession, SessionInv, ReadsUntilExit
<1>2. \A j : /\ IsExit(j)' <=> IsExit(j)
             /\ IsShutdown(j)' <=> IsShutdown(j)
             /\ Owes(j)' <=> Owes(j)
             /\ OwedReply(j)' = OwedReply(j)
  BY <1>1, SameMessage
<1>3. \A j \in 1..next : ~IsExit(j)
  BY <1>1 DEF SessionInv, ExitCodeContract
<1>4. RepliesMatch'
  BY <1>1, <1>2 DEF SessionInv, RepliesMatch
<1>5. ExitCodeContract'
  BY <1>1, <1>2, <1>3 DEF ExitCodeContract, Running
<1>6. ShutdownIsRecorded' /\ ReadsUntilExit'
  BY <1>1, <1>2 DEF SessionInv, ShutdownIsRecorded, ReadsUntilExit, Running
<1> QED
  BY <1>4, <1>5, <1>6 DEF SessionInv

(* A session begins with the invariant ...                                      *)
LEMMA SessionInit == Init => SessionInv
<1> SUFFICES ASSUME Init
             PROVE  SessionInv
  OBVIOUS
<1>1. TypeOK
  BY InitTyped
<1>2. /\ log = <<>> /\ out = <<>> /\ Len(out) = 0 /\ next = 0 /\ result = Running
      /\ shutdown_received = FALSE /\ exit_requested = FALSE
  BY DEF Init, HandlersInit
<1> QED
  BY <1>1, <1>2 DEF SessionInv, RepliesMatch, ExitCodeContract, ShutdownIsRecorded,
                    ReadsUntilExit, Running

(* ... and every step keeps it.                                                 *)
LEMMA SessionStep ==
    ASSUME PlainPayloads, SessionInv, [Next]_server_vars
    PROVE  SessionInv'
<1>1. TypeOK'
  BY StepTyped DEF SessionInv
<1>2. log \in Seq(Payloads) /\ next \in 0..Len(log) /\ Len(log) \in Nat
  BY DEF SessionInv, TypeOK
<1>3. ASSUME NEW payload \in Payloads, ClientSend(payload)
      PROVE  SessionInv'
  <2>1. \A i \in 1..next : log'[i] = log[i]
    BY <1>2, <1>3, AppendProperties DEF ClientSend
  <2> QED
    BY <1>1, <1>3, <2>1, IdleStep DEF ClientSend
<1>4. CASE ClientClose
  BY <1>1, <1>4, IdleStep DEF ClientClose
<1>5. CASE Serve
  BY <1>1, <1>5, ServeStep
<1>6. CASE EndOfInput
  BY <1>1, <1>6, EndOfInputStep
<1>7. CASE UNCHANGED server_vars
  BY <1>1, <1>7, IdleStep DEF server_vars
<1> QED
  BY <1>3, <1>4, <1>5, <1>6, <1>7 DEF Next

(* The session invariant holds throughout: the replies so far are those owed for *)
(* the messages taken, the flags tell which of them were taken, and run() stops  *)
(* at an exit.                                                                   *)
THEOREM SessionInvariant ==
    ASSUME PlainPayloads
    PROVE  Spec => []SessionInv
<1>1. SessionInv /\ [Next]_server_vars => SessionInv'
  BY SessionStep
<1> QED
  BY <1>1, SessionInit, PTL DEF Spec, Safety

(* Each message taken is answered exactly as JSON-RPC asks, in order, once, under *)
(* its own id, and notifications are not answered.                                *)
THEOREM RepliesCorrect ==
    ASSUME PlainPayloads
    PROVE  Spec => []RepliesMatch
<1>1. SessionInv => RepliesMatch
  BY DEF SessionInv
<1> QED
  BY <1>1, SessionInvariant, PTL

(* run() returns 1 exactly when an exit came without a shutdown request before it *)
(* and takes no message after an exit.                                            *)
THEOREM ExitCodeCorrect ==
    ASSUME PlainPayloads
    PROVE  Spec => []ExitCodeContract
<1>1. SessionInv => ExitCodeContract
  BY DEF SessionInv
<1> QED
  BY <1>1, SessionInvariant, PTL
===============================================================================

----------------------------- MODULE LspTransport -----------------------------
(* The language server behind its transport: the editor writes frames piece by *)
(* piece into the server's standard input, and MessageReader::read_message     *)
(* (src/lsp/message_io.cpp) cuts payloads out of that stream for Server::run.  *)
(*                                                                             *)
(* The stream is a sequence of units.  One unit stands for a run of bytes the  *)
(* properties do not look into: a header's text up to its line end, a line     *)
(* end, or the text of one place of a payload (LspMessage).  Lengths count     *)
(* units.                                                                      *)
EXTENDS LspHandlers, FiniteSets

CONSTANTS
    Frames,            \* the frames the editor may write
    MaxMessages,       \* bound: how many it writes in a session
    AwaitInitialize    \* the editor writes nothing after its first frame until
                       \* it has the reply, as LSP demands around initialize

Kinds == {"length",    \* Content-Length: n
          "badlength", \* Content-Length with a value std::stoul refuses
          "header",    \* any other header, or a line without a colon
          "crlf", "lf",
          "body"}      \* one place of a payload: a member, or a string spelled like a key

NoMember == Member("", 0, "raw", "")
Unit(kind)       == [kind |-> kind, n |-> 0, member |-> NoMember]
Length(n)        == [kind |-> "length", n |-> n, member |-> NoMember]
BodyUnit(member) == [kind |-> "body", n |-> 0, member |-> member]

Units == [kind : Kinds, n : Nat, member : MemberType \cup {NoMember}]
HeaderUnits == [kind : {"length", "badlength", "header"}, n : Nat, member : {NoMember}]

\* A Content-Length such as -1, which std::stoul turns into a size no string has.
Huge == 1000

\* A frame: header lines and their line end, the payload, and what follows it.
FrameOf(headers, eol, body, trailer) ==
    [headers |-> headers, eol |-> eol, payload |-> body, trailer |-> trailer]

UnitsOf(f) ==
    LET lines == [i \in 1..(2 * Len(f.headers)) |->
                    IF i % 2 = 1 THEN f.headers[(i + 1) \div 2] ELSE Unit(f.eol)]
    IN  lines \o <<Unit(f.eol)>>
              \o [i \in DOMAIN f.payload |-> BodyUnit(f.payload[i])] \o f.trailer

ASSUME FramesAreTyped ==
    Frames \subseteq [headers : Seq(HeaderUnits), eol : {"crlf", "lf"},
                      payload : Seq(MemberType) \ {<<>>}, trailer : Seq(Units)]
ASSUME TextsAreListed == \A f \in Frames : TextsStand(f.payload)
ASSUME PayloadsFit == \A f \in Frames : Len(f.payload) < Huge
ASSUME MaxMessagesIsNat == MaxMessages \in Nat
ASSUME AwaitInitializeIsBoolean == AwaitInitialize \in BOOLEAN

VARIABLES
    pending,           \* what the editor has still to write of its current frame
    current,           \* that frame's payload
    wire,              \* what it has written and the reader has not taken
    closed,            \* the editor has closed the stream, or died
    log,               \* history: the payloads whose bodies are all written
    faulty,            \* history: how many ill-formed frames it has begun
    phase,             \* where read_message is
    content_length,    \* its local of that name
    payload,           \* its out parameter
    delivered          \* history: the payloads it has returned

reader_vars == <<phase, content_length, payload, delivered>>
vars == <<handler_vars, pending, current, wire, closed, log, faulty, reader_vars>>

\* A frame read_message can cut out of the stream: its last Content-Length
\* counts the payload, and at most a line end follows.
WellFormed(f) ==
    /\ \A i \in DOMAIN f.headers : f.headers[i].kind # "badlength"
    /\ \E i \in DOMAIN f.headers :
          /\ f.headers[i] = Length(Len(f.payload))
          /\ \A j \in DOMAIN f.headers : i < j => f.headers[j].kind # "length"
    /\ f.trailer \in {<<>>, <<Unit("crlf")>>}

Init ==
    /\ HandlersInit
    /\ pending = <<>> /\ current = <<>> /\ wire = <<>> /\ closed = FALSE
    /\ log = <<>> /\ faulty = 0
    /\ phase = "headers" /\ content_length = 0 /\ payload = <<>> /\ delivered = <<>>

-------------------------------------------------------------------------------
(* The editor.                                                                 *)

BeginFrame(f) ==
    /\ ~closed /\ pending = <<>> /\ Len(log) < MaxMessages
    /\ AwaitInitialize /\ Len(log) > 0 => out # <<>>
    /\ pending' = UnitsOf(f)
    /\ current' = f.payload
    /\ faulty' = faulty + (IF WellFormed(f) THEN 0 ELSE 1)
    /\ UNCHANGED <<handler_vars, wire, closed, log, reader_vars>>

WriteUnit ==
    /\ ~closed /\ pending # <<>>
    /\ wire' = Append(wire, Head(pending))
    /\ pending' = Tail(pending)
    /\ log' = IF /\ Head(pending).kind = "body"
                 /\ \A i \in DOMAIN pending' : pending'[i].kind # "body"
              THEN Append(log, current)
              ELSE log
    /\ UNCHANGED <<handler_vars, current, closed, faulty, reader_vars>>

\* Between two units as well: the editor may die while it writes a frame.
Close ==
    /\ ~closed
    /\ closed' = TRUE
    /\ UNCHANGED <<handler_vars, pending, current, wire, log, faulty, reader_vars>>

client_vars == <<pending, current, closed, log, faulty>>

-------------------------------------------------------------------------------
(* read_message, called in a loop by run().  An action is enabled when the     *)
(* blocking read it stands for can return: the bytes are there, or no more     *)
(* will come.                                                                  *)

IsEol(unit) == unit.kind \in {"crlf", "lf"}
HasLine == \E i \in DOMAIN wire : IsEol(wire[i])
\* What std::getline would return, and what it would leave.
Eol == CHOOSE i \in DOMAIN wire : IsEol(wire[i]) /\ \A j \in 1..(i - 1) : ~IsEol(wire[j])
Line == SubSeq(wire, 1, Eol - 1)
DropLine == wire' = SubSeq(wire, Eol + 1, Len(wire))

InHeaders == result = Running /\ phase = "headers" /\ HasLine

\* A line is read by what it begins with: text left over from a payload hides
\* the header glued to it.
Begins(kind) == Line # <<>> /\ Head(Line).kind = kind

\* Mutant: the first Content-Length of a frame counts, not the last.
ReadContentLength_First ==
    /\ InHeaders /\ Begins("length")
    /\ content_length' = IF content_length = 0 THEN Head(Line).n ELSE content_length
    /\ DropLine
    /\ UNCHANGED <<handler_vars, client_vars, phase, payload, delivered>>

ReadContentLength ==
    /\ InHeaders /\ Begins("length")
    /\ content_length' = Head(Line).n
    /\ DropLine
    /\ UNCHANGED <<handler_vars, client_vars, phase, payload, delivered>>

ReadOtherHeader ==
    /\ InHeaders /\ (Begins("header") \/ Begins("body"))
    /\ DropLine
    /\ UNCHANGED <<handler_vars, client_vars, reader_vars>>

ReadBadContentLength ==
    /\ InHeaders /\ Begins("badlength")
    /\ DropLine
    /\ EndSession
    /\ UNCHANGED <<client_vars, reader_vars>>

\* Mutant: content_length <= 1 for content_length == 0.
EndHeaders_OffByOne ==
    /\ InHeaders /\ Line = <<>>
    /\ DropLine
    /\ IF content_length <= 1
       THEN EndSession /\ UNCHANGED phase
       ELSE phase' = "body" /\ UNCHANGED handler_vars
    /\ UNCHANGED <<client_vars, content_length, payload, delivered>>

\* The blank line: without a Content-Length before it the session ends.
EndHeaders ==
    /\ InHeaders /\ Line = <<>>
    /\ DropLine
    /\ IF content_length = 0
       THEN EndSession /\ UNCHANGED phase
       ELSE phase' = "body" /\ UNCHANGED handler_vars
    /\ UNCHANGED <<client_vars, content_length, payload, delivered>>

\* Mutant: a failed getline is tried again.
HeadersCutShort_Retries ==
    /\ result = Running /\ phase = "headers" /\ ~HasLine /\ closed
    /\ wire' = <<>>
    /\ UNCHANGED <<handler_vars, client_vars, reader_vars>>

\* std::getline hands over what is left of a line, too: a header in it counts.
LastBegins(kind) == wire # <<>> /\ Head(wire).kind = kind
LastLength == IF LastBegins("length") THEN Head(wire).n ELSE content_length

\* The stream ends inside a header block: no body follows, but the length read so
\* far is used all the same, and out.resize throws when no string has it.
HeadersCutShort ==
    /\ result = Running /\ phase = "headers" /\ ~HasLine /\ closed
    /\ wire' = <<>>
    /\ IF LastLength = Huge /\ ~LastBegins("badlength")
       THEN phase' = "aborted" /\ UNCHANGED handler_vars
       ELSE EndSession /\ UNCHANGED phase
    /\ UNCHANGED <<client_vars, content_length, payload, delivered>>

\* Mutant: one byte too few is read.
ReadBody_OneShort ==
    /\ result = Running /\ phase = "body"
    /\ Len(wire) >= content_length
    /\ payload' = [i \in 1..(content_length - 1) |-> wire[i].member]
    /\ wire' = SubSeq(wire, content_length, Len(wire))
    /\ phase' = "trailer"
    /\ UNCHANGED <<handler_vars, client_vars, content_length, delivered>>

ReadBody ==
    /\ result = Running /\ phase = "body"
    /\ Len(wire) >= content_length
    /\ payload' = [i \in 1..content_length |-> wire[i].member]
    /\ wire' = SubSeq(wire, content_length + 1, Len(wire))
    /\ phase' = "trailer"
    /\ UNCHANGED <<handler_vars, client_vars, content_length, delivered>>

\* Mutant: gcount() is not compared with the length.
BodyCutShort_HandsOver ==
    /\ result = Running /\ phase = "body"
    /\ Len(wire) < content_length /\ closed /\ content_length # Huge
    /\ payload' = [i \in DOMAIN wire |-> wire[i].member]
    /\ wire' = <<>>
    /\ phase' = "trailer"
    /\ UNCHANGED <<handler_vars, client_vars, content_length, delivered>>

BodyCutShort ==
    /\ result = Running /\ phase = "body"
    /\ Len(wire) < content_length /\ closed /\ content_length # Huge
    /\ wire' = <<>>
    /\ EndSession
    /\ UNCHANGED <<client_vars, reader_vars>>

\* out.resize throws and nothing up to main catches it.
Abort ==
    /\ result = Running /\ phase = "body" /\ content_length = Huge
    /\ phase' = "aborted"
    /\ UNCHANGED <<handler_vars, client_vars, wire, content_length, payload, delivered>>

\* in.peek() looks for a line end after the body before the payload is handed
\* over: it waits for the next unit or for the end of the stream.  Then run()
\* parses the payload and handles it.
Deliver ==
    /\ result = Running /\ phase = "trailer"
    /\ wire # <<>> \/ closed
    /\ wire' = IF wire # <<>> /\ Head(wire).kind = "crlf" THEN Tail(wire) ELSE wire
    /\ delivered' = Append(delivered, payload)
    /\ HandlePayload(Len(delivered) + 1, payload)
    /\ phase' = "headers" /\ content_length' = 0 /\ payload' = <<>>
    /\ UNCHANGED client_vars

Read ==
    \/ ReadContentLength
    \/ ReadOtherHeader
    \/ ReadBadContentLength
    \/ EndHeaders
    \/ HeadersCutShort
    \/ ReadBody
    \/ BodyCutShort
    \/ Abort
    \/ Deliver

Next ==
    \/ \E f \in Frames : BeginFrame(f)
    \/ WriteUnit
    \/ Close
    \/ Read

\* The server is one thread, blocked only in its reads.
Spec == Init /\ [][Next]_vars /\ WF_vars(Read)

\* An editor that sooner or later finishes the frame it has begun ...
FinishingSpec == Spec /\ WF_vars(WriteUnit)
\* ... or that sooner or later closes the stream.
ClosingSpec == Spec /\ WF_vars(Close)

-------------------------------------------------------------------------------

TypeOK ==
    /\ HandlersTypeOK
    /\ phase \in {"headers", "body", "trailer", "aborted"}
    /\ content_length \in Nat /\ faulty \in 0..MaxMessages
    /\ closed \in BOOLEAN
    /\ wire \in Seq(Units)
    /\ Len(log) <= MaxMessages

Server == INSTANCE LspServer WITH
    Payloads <- {f.payload : f \in Frames}, next <- Len(delivered)

\* As long as the frames are well-formed, however they are cut into reads and
\* wherever the editor dies, framing is invisible: the server behaves as if it took
\* whole payloads from an inbox.  The first ill-formed frame ends that promise.
ImplementsServer ==
    Server!Init /\ [][faulty' = 0 => Server!Next \/ UNCHANGED Server!server_vars]_vars

\* The payloads delivered before an ill-formed frame are those written, in order,
\* none twice.
DeliveredIsPrefix ==
    faulty = 0 =>
        /\ Len(delivered) <= Len(log)
        /\ \A i \in 1..Len(delivered) : delivered[i] = log[i]

\* Every message owed a reply gets it, in whatever well-formed frames, when the
\* editor pipelines its messages and closes the stream in the end.
EventuallyAnswered == [](faulty = 0) => Server!EventuallyAnswered

\* run() returns once the stream is closed, whatever frames it held and wherever
\* it was cut, but for a length that kills the process.
EventuallyReturns == closed ~> (result # Running \/ phase = "aborted")

\* A frame with a wrong length spoils at most one payload: what is delivered
\* after it is again what the editor wrote, or nothing.
FaultsAreContained ==
    Cardinality({i \in DOMAIN delivered : \A j \in DOMAIN log : log[j] # delivered[i]})
        <= faulty

\* "Editors can connect immediately" (ADR 0002): the first message, initialize,
\* is answered once it is written.
InitializeAnswered == (Len(log) >= 1) ~> (out # <<>>)

\* read_message returns "false on EOF or malformed headers" (message_io.h): a
\* malformed Content-Length ends the session, it does not kill the process.
MalformedHeadersEndSession == phase # "aborted"
===============================================================================

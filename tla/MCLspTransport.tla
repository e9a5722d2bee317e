---------------------------- MODULE MCLspTransport ----------------------------
(* Frames for model checking LspTransport.                                     *)
EXTENDS LspTransport

jsonrpc == Member("jsonrpc", 0, "string", "2.0")
method(name) == Member("method", 0, "string", name)
id(value) == Member("id", 0, "raw", value)

initialize == <<jsonrpc, id("1"), method("initialize")>>
shutdown   == <<jsonrpc, id("2"), method("shutdown")>>
exit       == <<jsonrpc, method("exit")>>
broken     == <<method("exit")>>

Plain(body) == FrameOf(<<Length(Len(body))>>, "crlf", body, <<>>)

\* Every message in its plain frame, and the variations the reader allows:
\* other headers, bare line feeds, a repeated length (the first of them one that no
\* string has), a line end after the body.
MCFrames == {
    Plain(initialize), Plain(exit),
    FrameOf(<<Unit("header"), Length(Huge), Length(3)>>, "lf", shutdown, <<Unit("crlf")>>),
    FrameOf(<<Length(7), Length(1)>>, "crlf", broken, <<Unit("crlf")>>) }

\* Lengths too short, too long, without a number, none at all or no string's.
MCFaulty == {
    FrameOf(<<Length(2)>>, "crlf", initialize, <<>>),
    FrameOf(<<Length(5)>>, "crlf", initialize, <<>>),
    FrameOf(<<Length(3)>>, "crlf", exit, <<>>),
    FrameOf(<<Unit("header")>>, "crlf", shutdown, <<>>),
    FrameOf(<<Length(Huge)>>, "crlf", exit, <<>>),
    FrameOf(<<Unit("badlength")>>, "crlf", shutdown, <<Unit("lf")>>) }

MCAnyFrames == MCFrames \cup MCFaulty

MCPlain == { Plain(initialize) }

MCHuge == { Plain(initialize), FrameOf(<<Length(Huge)>>, "crlf", exit, <<>>) }
===============================================================================

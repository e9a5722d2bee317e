------------------------------ MODULE LspMessage ------------------------------
(* The "lightweight parsing" of JSON-RPC payloads in src/lsp/server.cpp.        *)
(*                                                                             *)
(* A payload is the sequence, in textual order, of the places a search in its  *)
(* text can stop at: its members, at whatever depth of nesting they stand, and *)
(* the strings that are no member's name but end like one of the three keys in *)
(* its quotes, such as a value "id".  Members with other keys matter only for  *)
(* their colons, and only behind such a string; they are left out elsewhere,   *)
(* and one stands for any other colon there, within a string as well.          *)
(*                                                                             *)
(* A member's form is what extract_property makes of its value: a string       *)
(* literal it can decode, a string literal with an escape it does not know     *)
(* (\u....), or any other text up to the next comma, brace or line end.  A      *)
(* string without a colon of its own has the form "text".                      *)
EXTENDS Naturals, Sequences

Keys  == {"jsonrpc", "method", "id"}
Other == "other"
Forms == {"string", "badstring", "raw", "text"}

\* The outermost object's members are at depth 0.
Member(key, depth, form, value) ==
    [key |-> key, depth |-> depth, form |-> form, value |-> value]
Text(key) == Member(key, 1, "text", "")
MemberType == [key : Keys \cup {Other}, depth : Nat, form : Forms, value : STRING]

\* A string value spelled like a key stands in the text, too.
TextsStand(payload) ==
    /\ \A i \in DOMAIN payload :
          payload[i].form = "text" => payload[i] \in {Text(key) : key \in Keys}
    /\ \A i \in DOMAIN payload :
          payload[i].form = "string" /\ payload[i].value \in Keys =>
              i + 1 \in DOMAIN payload /\ payload[i + 1] = Text(payload[i].value)

Id(value, is_string) == [value |-> value, is_string |-> is_string]

\* What send_error writes when it is given no id; a client that sends the raw
\* token null as its id gets the same text back.
NullId == Id("null", FALSE)

\* The two texts of its own that the server may give a type to are strings.
ASSUME OwnTextsAreStrings == {"", "null"} \subseteq STRING

-------------------------------------------------------------------------------
(* The code's reading of a payload.                                            *)

NotFound == [found |-> FALSE, is_string |-> FALSE, value |-> ""]

\* Mutant: payload.rfind instead of payload.find.
Colons_OfLast(payload, key) ==
    {i \in DOMAIN payload :
        /\ payload[i].form # "text"
        /\ \E k \in 1..i : /\ payload[k].key = key
                          /\ \A j \in DOMAIN payload : payload[j].key = key => j <= k}

\* The colons behind the first place where payload.find("\"key\"") finds the key,
\* nested or not, as a member's name or not.
Colons(payload, key) ==
    {i \in DOMAIN payload :
        payload[i].form # "text" /\ \E k \in 1..i : payload[k].key = key}

\* payload.find(':') finds the first of them.
ColonAt(payload, key) ==
    CHOOSE i \in Colons(payload, key) : \A j \in Colons(payload, key) : i <= j

\* The value is what stands behind that colon, whosever it is.
extract_property(payload, key) ==
    IF Colons(payload, key) = {}
    THEN NotFound
    ELSE LET hit == payload[ColonAt(payload, key)]
         IN  IF hit.form = "badstring"
             THEN NotFound
             ELSE [found |-> TRUE, is_string |-> hit.form = "string", value |-> hit.value]

Invalid == [valid |-> FALSE, method |-> "", has_id |-> FALSE, id |-> NullId]

parse_message(payload) ==
    LET jsonrpc == extract_property(payload, "jsonrpc")
        method  == extract_property(payload, "method")
        id      == extract_property(payload, "id")
    IN  IF jsonrpc.is_string /\ jsonrpc.value = "2.0" /\ method.is_string
        THEN [valid  |-> TRUE,
              method |-> method.value,
              has_id |-> id.found,
              id     |-> IF id.found THEN Id(id.value, id.is_string) ELSE NullId]
        ELSE Invalid

-------------------------------------------------------------------------------
(* The reference reading, JSON-RPC's own: only the members of the payload's    *)
(* outermost object count.                                                     *)

\* The outermost member of payload with this key.
TopAt(payload, key) ==
    CHOOSE i \in DOMAIN payload : payload[i].key = key /\ payload[i].depth = 0

Has(payload, key) ==
    \E i \in DOMAIN payload : payload[i].key = key /\ payload[i].depth = 0

IsWellFormed(payload) ==
    /\ Has(payload, "jsonrpc") /\ Has(payload, "method")
    /\ payload[TopAt(payload, "jsonrpc")].value = "2.0"
    /\ \A key \in {"jsonrpc", "method"} : payload[TopAt(payload, key)].form # "raw"

IsRequest(payload)      == IsWellFormed(payload) /\ Has(payload, "id")
IsNotification(payload) == IsWellFormed(payload) /\ ~Has(payload, "id")
MethodOf(payload)       == payload[TopAt(payload, "method")].value
IdOf(payload) ==
    LET top == payload[TopAt(payload, "id")] IN Id(top.value, top.form # "raw")

\* The payloads whose text the code reads as JSON-RPC does: each key it looks
\* for stands at most once in the outermost object, stands there before any
\* other occurrence, nested or as a string, and has a value it can decode.
IsPlain(payload) ==
    \A i \in {i \in DOMAIN payload : payload[i].key \in Keys} :
        /\ \E j \in 1..i : payload[j].key = payload[i].key /\ payload[j].depth = 0
        /\ payload[i].depth = 0 =>
              /\ payload[i].form # "badstring"
              /\ \A j \in DOMAIN payload :
                    payload[j].key = payload[i].key /\ payload[j].depth = 0 => j = i
===============================================================================

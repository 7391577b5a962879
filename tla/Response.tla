------------------------------ MODULE Response ------------------------------
(***************************************************************************)
(* What becomes of a reply of Redis on its way to the client (response.go):*)
(* executeCommand and executeMultiExec turn it into a result, respond      *)
(* encodes the result as the request's headers ask, and the client decodes *)
(* what it gets.  Operators only.                                          *)
(*                                                                         *)
(* A reply may hold lists in lists to any depth.  It is a function from    *)
(* places to nodes: <<>> is the reply itself, <<2, 1>> the first element   *)
(* of its second one.  What the recursive functions do is the same at      *)
(* every node.  A text is the bytes it started from and how often base64   *)
(* was applied to them.                                                    *)
(***************************************************************************)
EXTENDS Integers, Sequences

CONSTANTS
  Reply,  \* what Redis may reply to a command
  Batch   \* its replies to the commands of a pipeline or a transaction

Text(raw) == [raw |-> raw, layers |-> 0]
Value(kind, x) == [kind |-> kind, of |-> x]

OK     == Text("OK")
Binary == Text("binary")  \* not UTF-8

Encoded(t) == [t EXCEPT !.layers = @ + 1]
Decoded(t) == [t EXCEPT !.layers = @ - 1]

\* What the headers Upstash-Encoding and Upstash-Response-Format ask for.
Formats == {"json", "base64", "resp2", "both"}
wantsBase64(format) == format \in {"base64", "both"}
wantsResp2(format)  == format \in {"resp2", "both"}

Kinds == {"nil", "int", "string", "bytes", "error", "list"}
Texts == {"string", "bytes", "error"}
Top(v) == v[<<>>]

\* The places of a reply are those of its elements, and only lists have any.
IsReply(v) ==
  /\ <<>> \in DOMAIN v /\ v = [p \in DOMAIN v |-> v[p]]
  /\ \A p \in DOMAIN v :
       /\ v[p].kind \in Kinds /\ v[p] = Value(v[p].kind, Text(v[p].of.raw))
       /\ p \in Seq(Nat)
       /\ \A n \in 0..Len(p) - 1 :
            SubSeq(p, 1, n) \in DOMAIN v /\ v[SubSeq(p, 1, n)].kind = "list"

ASSUME ReplyAssumption == (\A v \in Reply : IsReply(v)) /\ Batch \subseteq Seq(Reply)

\* A handler of one thing does the same to each in a list of them.
Each(d, F(_)) ==
  IF d.kind = "list" THEN Value("list", [i \in DOMAIN d.of |-> F(d.of[i])]) ELSE F(d)

-----------------------------------------------------------------------------
(* Results                                                                 *)

convertRedisResult(v, base64) ==
  [p \in DOMAIN v |->
     CASE v[p].kind = "bytes" -> Value("string", IF base64 THEN Encoded(v[p].of) ELSE v[p].of)
       [] v[p].kind = "error" -> Value("string", v[p].of)
       [] OTHER               -> v[p]]

\* Regression: each layer encodes ("Garbled or base64-encoded values" in
\* docs/troubleshooting/common-issues.mdx).
ResultEncoded(reply) ==
  IF Top(reply).kind = "error" THEN Value("failure", Top(reply).of)
                               ELSE Value("success", convertRedisResult(reply, TRUE))

\* An error is an errorResult, at the top of a reply; below, it is a text.
Result(reply) ==
  IF Top(reply).kind = "error" THEN Value("failure", Top(reply).of)
                               ELSE Value("success", convertRedisResult(reply, FALSE))

-----------------------------------------------------------------------------
(* respond                                                                 *)

convertValue(v, base64) ==
  [p \in DOMAIN v |->
     IF v[p].kind \in {"bytes", "string"}
     THEN Value("string", IF base64 /\ v[p].of # OK THEN Encoded(v[p].of) ELSE v[p].of)
     ELSE v[p]]

EncodeOne(d, base64) == IF d.kind = "success" THEN Value("success", convertValue(d.of, base64)) ELSE d
encodeResponseData(data, base64) == Each(data, LAMBDA d : EncodeOne(d, base64))

\* json.Marshal: bytes that are not UTF-8 become U+FFFD.
Valid(t) == IF t = Binary THEN Text("replaced") ELSE t
MarshalOne(d) ==
  IF d.kind = "failure" THEN Value("failure", Valid(d.of))
  ELSE Value("success", [p \in DOMAIN d.of |->
         IF d.of[p].kind = "string" THEN Value("string", Valid(d.of[p].of)) ELSE d.of[p]])
Marshal(data) == Each(data, MarshalOne)

\* The first byte says how the rest is read; "$" announces its length, and %v
\* runs the elements of a list together.
formatResp2(v) ==
  CASE v.kind = "bytes"  -> Value("+", v.of)
    [] v.kind = "string" -> Value(IF v.of = OK THEN "+" ELSE "$", v.of)
    [] v.kind = "nil"    -> Value("$-1", v.of)
    [] v.kind = "int"    -> Value(":", v.of)
    [] OTHER             -> Value("+", Text("[...]"))

respondResp2(d, base64) ==
  IF base64 THEN Value("failure", Text("ERR Upstash-Encoding"))
  ELSE CASE d.kind = "success" -> formatResp2(Top(d.of))
         [] d.kind = "failure" -> Value("-", d.of)
         [] OTHER              -> Marshal(d)

respond(d, format) ==
  IF wantsResp2(format) THEN respondResp2(d, wantsBase64(format))
                        ELSE Marshal(encodeResponseData(d, wantsBase64(format)))

-----------------------------------------------------------------------------
(* The client                                                              *)

\* The SDKs' decoding: strings from base64, but "OK"; errors and numbers as they
\* are.  Base64 is never two characters long, so "OK" is no code for anything.
ReadOne(d, base64) ==
  IF d.kind = "failure" THEN d
  ELSE Value("success", [p \in DOMAIN d.of |->
         IF base64 /\ d.of[p].kind = "string" /\ d.of[p].of # OK
         THEN Value("string", Decoded(d.of[p].of)) ELSE d.of[p]])
Read(data, base64) == Each(data, LAMBDA d : ReadOne(d, base64))

\* A RESP2 parser, which JSON is nothing for.
Scalar(kind, x) == Value("success", [p \in {<<>>} |-> Value(kind, x)])
Parse(f) ==
  CASE f.kind \in {"+", "$"} -> Scalar("string", f.of)
    [] f.kind = "$-1"        -> Scalar("nil", f.of)
    [] f.kind = ":"          -> Scalar("int", f.of)
    [] f.kind = "-"          -> Value("failure", f.of)
    [] OTHER                 -> Value("unparsed", f)

\* What a client makes of an answer in the format it asked for.
Understood(answer, format) ==
  IF wantsResp2(format) THEN Parse(answer) ELSE Read(answer, wantsBase64(format))

\* What Redis said, with one kind of text: errors are told from it at the top.
Meaning(v) ==
  [p \in DOMAIN v |-> IF v[p].kind \in {"bytes", "error"} THEN Value("string", v[p].of) ELSE v[p]]
Said(reply) ==
  IF Top(reply).kind = "error" THEN Value("failure", Top(reply).of) ELSE Value("success", Meaning(reply))

\* What a format can carry.  JSON: text that is UTF-8.  Base64: any other too, but
\* for that of an error, which is never encoded.  RESP2: what is no list.  Both at
\* once: nothing, the answer is an error.
Carried(reply, format) ==
  CASE format = "json"   -> \A p \in DOMAIN reply : reply[p].kind \in Texts => reply[p].of # Binary
    [] format = "base64" -> Top(reply).kind = "error" => Top(reply).of # Binary
    [] format = "resp2"  -> Top(reply).kind # "list"
    [] format = "both"   -> FALSE

\* The replies to a pipeline or a transaction are a list, which is sent as JSON even
\* where RESP2 is asked for.
CarriedMany(s, format) == ~wantsResp2(format) /\ \A i \in DOMAIN s : Carried(s[i], format)

\* The formats in which the client of one command decodes what Redis replied
\* exactly if they can carry it: a text is encoded once, for all the layers it
\* goes through, "OK" as a status and "OK" as a value come out alike.
OneInverts ==
  {format \in Formats : \A v \in Reply :
     Understood(respond(Result(v), format), format) = Said(v) <=> Carried(v, format)}

\* Those in which so does that of a pipeline or a transaction, errors apart from
\* results.
ManyInvert ==
  {format \in Formats : \A s \in Batch :
     Understood(respond(Value("list", [i \in DOMAIN s |-> Result(s[i])]), format), format)
       = Value("list", [i \in DOMAIN s |-> Said(s[i])])
     <=> CarriedMany(s, format)}
=============================================================================

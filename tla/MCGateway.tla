------------------------------ MODULE MCGateway ------------------------------
(***************************************************************************)
(* Instances of Gateway for TLC: which jobs the requests may have, and     *)
(* what Redis may reply.                                                   *)
(***************************************************************************)
EXTENDS Gateway

CONSTANTS u1, u2

Ask(token, kind, script) ==
  [token |-> token, kind |-> kind, script |-> script, user |-> u1, format |-> "json"]

\* Every kind of request, class of command and format, tokens of two ACL users,
\* and requests that mint them.
Jobs ==
  { Ask("api", "single", <<"resttoken">>),
    [Ask("api", "single", <<"resttoken">>) EXCEPT !.user = u2, !.format = "resp2"],
    Ask(u1, "pipeline", <<"write", "fail">>),
    Ask(u2, "multi", <<"write", "script">>),
    [Ask("readonly", "pipeline", <<"write", "auth">>) EXCEPT !.user = u2, !.format = "base64"],
    Ask("api", "pipeline", <<"empty", "resttoken", "banned">>),
    [Ask("api", "multi", <<"read", "unknown">>) EXCEPT !.format = "both"],
    Ask("api", "multi", <<"write", "exec", "fail">>) }

\* Transactions that leave their block alone and that don't, alone on a connection.
ControlJobs ==
  {Ask("api", "multi", script) : script \in {<<"write", "exec", "read">>, <<"write", "unknown">>,
                                               <<"write", "fail">>, <<"write", "discard", "multi", "read">>}}

\* Replies by their nodes: one, or those of the elements below that of the list.
Leaf(kind, t) == [p \in {<<>>} |-> Value(kind, t)]
List(s) ==
  [p \in {<<>>} \cup UNION {{<<i>> \o q : q \in DOMAIN s[i]} : i \in DOMAIN s} |->
     IF p = <<>> THEN Value("list", Text("")) ELSE s[Head(p)][Tail(p)]]
Lists(S) == {List(s) : s \in UNION {[1..n -> S] : n \in 0..2}}

Leaves == {Leaf("nil", Text("")), Leaf("int", Text("7")), Leaf("string", OK), Leaf("string", Text("PONG")),
           Leaf("error", Text("ERR")), Leaf("error", Binary)}
          \cup {Leaf("bytes", t) : t \in {OK, Binary, Text("text")}}
\* Two elements in a list, lists in lists in lists.
SmallReplies ==
  Leaves \cup Lists(Leaves)
  \cup Lists({Leaf("bytes", OK), Leaf("error", Text("ERR"))}
             \cup Lists({Leaf("nil", Text(""))} \cup Lists({Leaf("bytes", Binary)})))
Pairs == Leaves \X Leaves

\* Redis works off one command after another: whether a block is open, what is in
\* its queue, whether EXEC will refuse it, what took effect, whether an error was
\* replied, and the results of the last EXEC.
Idle == [open |-> FALSE, queue |-> <<>>, bad |-> FALSE, effect |-> {}, error |-> FALSE, results |-> <<>>]
Closed(t) == [t EXCEPT !.open = FALSE, !.queue = <<>>, !.bad = FALSE]
Error(t)  == [t EXCEPT !.error = TRUE]
Effect(t, s, S) == [t EXCEPT !.effect = @ \cup {i \in S : s[i] \in Effective}]
Work(s, t, i) ==
  CASE s[i] = "reset"   -> Effect(Closed(t), s, {i})
    [] s[i] = "multi"   -> IF t.open THEN Error(t) ELSE Effect([t EXCEPT !.open = TRUE], s, {i})
    [] s[i] = "discard" -> IF t.open THEN Closed(t) ELSE Error(t)
    [] s[i] = "exec"    -> IF ~t.open THEN Error(t)
                           ELSE IF t.bad THEN Error(Closed(t))
                           ELSE Effect([Closed(t) EXCEPT !.results = [k \in DOMAIN t.queue |-> s[t.queue[k]]]],
                                       s, {t.queue[k] : k \in DOMAIN t.queue})
    [] OTHER            -> IF t.open /\ s[i] \in Unqueued THEN Error([t EXCEPT !.bad = TRUE])
                           ELSE IF t.open THEN [t EXCEPT !.queue = Append(@, i)]
                           ELSE Effect(IF s[i] \in Succeeds THEN t ELSE Error(t), s, {i})
Worked(s) == FoldLeftDomain(LAMBDA t, i : Work(s, t, i), Idle, s)

\* The definitions of Transaction, which speak of the whole sequence at once, say
\* of every beginning of every transaction of up to four commands what this does.
ASSUME OneAfterAnother ==
  \A script \in UNION {[1..n -> {"write", "fail", "script", "unknown"} \cup Control] : n \in 0..4} :
    \A n \in 0..Len(Sent(script)) :
      LET s == SubSeq(Sent(script), 1, n) IN
      /\ TakesEffect(s) = Worked(s).effect
      /\ Complains(s) = Worked(s).error
      /\ n = Len(Sent(script)) /\ ~Complains(s) => LastBlock(s) = Worked(s).results
=============================================================================

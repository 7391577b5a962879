------------------------------- MODULE Gateway -------------------------------
(***************************************************************************)
(* The request path: requestHandler (rest.go) admits and authenticates a   *)
(* request and hands it to executeCommand, once or in a loop, or to        *)
(* executeMultiExec (commands.go), which borrow connections from a redigo  *)
(* pool that all requests share (main.go, createRedisPool).  Redis keeps   *)
(* the user of a connection; the pool hands connections on as they are.    *)
(* One action per step at which another request may come between: the      *)
(* recorder's lock, the pool, and each round trip to Redis, whose outcomes *)
(* are those of QStash.tla.                                                *)
(*                                                                         *)
(* A command is one of its classes:                                        *)
(*   "read", "write"  what writeCommands (auth.go) says;                   *)
(*   "fail"           one Redis refuses when it runs it (a wrong type);    *)
(*   "script"         EVAL of a script that writes and then fails;         *)
(*   "unknown"        one Redis refuses at once, and in a MULTI queue: no  *)
(*                    such command, or not permitted to the user;          *)
(*   "multi", "exec", "discard", "reset"  as Redis has them;               *)
(*   "auth"           AUTH u pwd, accepted, the u being in the job;        *)
(*   "banned"         one the security settings block (security.go), as    *)
(*                    strict mode does the four;                           *)
(*   "resttoken"      ACL RESTTOKEN u pwd, the u being in the job;         *)
(*   "empty"          a command array of no elements.                      *)
(***************************************************************************)
EXTENDS Response, Transaction, SequencesExt

CONSTANTS
  Request,  \* requests, each with its goroutine
  Job,      \* what a request may ask: its token, kind, script, ACL user and format
  Conn,     \* connection slots of the pool: MaxActive of them
  User,     \* Redis ACL users
  Default,  \* the user the pool's connections are dialled with, and RESET leaves
  Nil,      \* no connection
  Faults    \* outcomes of a round trip other than "ok"

Commands ==
  {"read", "write", "fail", "script", "unknown", "auth", "banned", "resttoken", "empty"} \cup Control

\* ACL RESTTOKEN names a user and a password: with neither it would mint a token
\* that sends no AUTH, and with no password one that sends AUTH u (auth.go:91-97).
ASSUME JobAssumption ==
  \A j \in Job :
    /\ j.token \in User \cup {"api", "readonly", "none"}
    /\ j.kind \in {"single", "pipeline", "multi"}
    /\ j.script \in Seq(Commands)
    /\ j.kind = "single" => Len(j.script) = 1
    /\ j.format \in Formats
    /\ j.user \in User
ASSUME NamesAssumption ==
  /\ {Default, "api", "readonly", "none"} \cap User = {}
  /\ Nil \notin Conn
  /\ Faults \subseteq {"error", "lost", "broken"}

VARIABLES
  job,       \* what the request asks (never changes)
  pc,        \* where its goroutine is
  pos,       \* index of the command it works on
  holds,     \* the connection it borrowed
  replies,   \* the results for respond so far, one per command done; "unknown" is
             \* an error the handler cannot tell from a refusal: the reply was lost
  status,    \* the HTTP status it was answered with, 0 before
  link,      \* a slot is "closed", "idle" or "busy"
  user,      \* the user Redis runs a connection's commands as
  minted,    \* users with a REST token in Server.credentials
  counted,   \* Metrics: calls of Record
  recorded,  \* the recorder's file: the positions of a request's lines in it
  executed,  \* history: how often Redis executed each command of a request
  ranAs      \* history: the users it executed them as

conns == <<link, user>>
logs  == <<minted, counted, recorded>>
ran   == <<executed, ranAs>>
vars  == <<job, pc, pos, holds, replies, status, conns, logs, ran>>

TypeOK ==
  /\ job \in [Request -> Job]
  /\ pc \in [Request -> {"new", "check", "record", "borrow", "auth", "run", "done"}]
  /\ pos \in [Request -> Nat]
  /\ holds \in [Request -> Conn \cup {Nil}]
  /\ replies \in [Request -> Seq({"ok", "error", "unknown"})]
  /\ status \in [Request -> {0, 200, 400, 401, 429, 500, 503}]
  /\ link \in [Conn -> {"closed", "idle", "busy"}]
  /\ user \in [Conn -> User \cup {Default}]
  /\ minted \subseteq User
  /\ counted \in Nat
  /\ recorded \in [Request -> Seq(Nat)]
  /\ DOMAIN executed = Request
  /\ \A r \in Request : executed[r] \in [DOMAIN job[r].script -> Nat]
  /\ ranAs \in [Request -> SUBSET (User \cup {Default})]

-----------------------------------------------------------------------------
Applied(o) == o \in {"ok", "lost"}
Alive(o)   == o \in {"ok", "error"}
Outcome    == {"ok"} \cup Faults

Script(r)  == job[r].script
Command(r) == Script(r)[pos[r]]
Multi(r)   == job[r].kind = "multi"
Minting(r) == ~Multi(r) /\ Command(r) = "resttoken"

\* authenticate: the three kinds of token.
Authentic(token) == token \in {"api", "readonly"} \cup minted

\* isCommandAllowed, isDangerousCommandBlocked, and the check for no elements.
Refused(r, c) ==
  \/ c \in {"banned", "empty"}
  \/ job[r].token = "readonly" /\ c \in {"write", "multi", "exec", "discard"}

\* Regressions: helpers as a change to the code could leave them.
CredentialsOnce(r) ==
  IF Minting(r) THEN job[r].user
  ELSE IF job[r].token \in User /\ user[holds[r]] = Default THEN job[r].token
  ELSE Default
CredentialsRaw(r) == IF Minting(r) THEN job[r].user ELSE job[r].token
ReleaseAliveOnly(r, alive) ==
  /\ link' = [link EXCEPT ![holds[r]] = IF alive THEN "idle" ELSE @]
  /\ holds' = [holds EXCEPT ![r] = Nil]
AnswerAgain(r, results, code) ==
  /\ replies' = [replies EXCEPT ![r] = @ \o results]
  /\ IF results = <<"error">> /\ Len(replies[r]) = 0
     THEN pc' = [pc EXCEPT ![r] = "check"] /\ UNCHANGED <<pos, status>>
     ELSE /\ pc' = [pc EXCEPT ![r] = "done"]
          /\ status' = [status EXCEPT ![r] = code]
          /\ UNCHANGED pos
RecordUnlocked(r) ==
  /\ pc[r] = "record"
  /\ recorded' = IF \E q \in Request \ {r} : pc[q] = "record" THEN recorded
                 ELSE [recorded EXCEPT ![r] = Append(@, pos[r])]
  /\ pc' = [pc EXCEPT ![r] = "borrow"]
  /\ UNCHANGED <<job, pos, holds, replies, status, conns, minted, counted, ran>>

\* The user authRedisConn authenticates the connection as, Default for none.
Credentials(r) ==
  IF Minting(r) THEN job[r].user
  ELSE IF job[r].token \in User THEN job[r].token ELSE Default

\* The deferred conn.Close: back to the pool, or closed if it is broken.
Release(r, alive) ==
  /\ link' = [link EXCEPT ![holds[r]] = IF alive THEN "idle" ELSE "closed"]
  /\ holds' = [holds EXCEPT ![r] = Nil]

\* respond has no RESP2 with base64 in it: whatever it should send, it sends an error.
Code(r, code) == IF job[r].format = "both" THEN 400 ELSE code

\* Its commands are done: the pipeline goes on, or the request is answered.
Answer(r, results, code) ==
  /\ replies' = [replies EXCEPT ![r] = @ \o results]
  /\ IF job[r].kind = "pipeline" /\ pos[r] < Len(Script(r))
     THEN /\ pos' = [pos EXCEPT ![r] = @ + 1]
          /\ pc' = [pc EXCEPT ![r] = "check"]
          /\ UNCHANGED status
     ELSE /\ pc' = [pc EXCEPT ![r] = "done"]
          /\ status' = [status EXCEPT ![r] =
                          Code(r, IF job[r].kind = "pipeline" THEN 200 ELSE code)]
          /\ UNCHANGED pos

-----------------------------------------------------------------------------
(* requestHandler                                                          *)

\* What the limiter and the dice of maybeError may say; its latency shows in no
\* step, since steps may be as far apart as they like.
Verdict == {"pass", "limited", "chaos"}

\* RateLimiter.Allow, authenticate, Chaos.maybeError and an empty body, in this
\* order.
Receive(r, verdict) ==
  /\ pc[r] = "new"
  /\ LET code == IF verdict = "limited" THEN 429
                 ELSE IF ~Authentic(job[r].token) THEN 401
                 ELSE IF verdict = "chaos" THEN 500
                 ELSE IF Script(r) = <<>> THEN 400 ELSE 0
     IN /\ status' = [status EXCEPT ![r] = IF code = 0 THEN 0 ELSE Code(r, code)]
        /\ pc' = [pc EXCEPT ![r] = IF code = 0 THEN "check" ELSE "done"]
  /\ pos' = [pos EXCEPT ![r] = 1]
  /\ UNCHANGED <<job, holds, replies, conns, logs, ran>>

\* executeCommand and executeMultiExec up to the metrics: what is refused here
\* is neither counted nor recorded, and ACL RESTTOKEN isn't either.
Check(r) ==
  /\ pc[r] = "check"
  /\ IF \E i \in IF Multi(r) THEN DOMAIN Script(r) ELSE {pos[r]} :
          Refused(r, Script(r)[i])
     THEN Answer(r, <<"error">>, 400) /\ UNCHANGED counted
     ELSE /\ pc' = [pc EXCEPT ![r] = IF Multi(r) \/ Minting(r) THEN "borrow"
                                                              ELSE "record"]
          /\ counted' = IF Minting(r) THEN counted ELSE counted + 1
          /\ UNCHANGED <<pos, replies, status>>
  /\ UNCHANGED <<job, holds, conns, minted, recorded, ran>>

\* Recorder.Record
Record(r) ==
  /\ pc[r] = "record"
  /\ recorded' = [recorded EXCEPT ![r] = Append(@, pos[r])]
  /\ pc' = [pc EXCEPT ![r] = "borrow"]
  /\ UNCHANGED <<job, pos, holds, replies, status, conns, minted, counted, ran>>

\* RedisPool.Get: an idle connection as it is, or a new one in a free slot;
\* Wait makes the caller wait for either.
Borrow(r, c) ==
  /\ pc[r] = "borrow" /\ link[c] # "busy"
  /\ link[c] = "closed" => \A d \in Conn : link[d] # "idle"
  /\ link' = [link EXCEPT ![c] = "busy"]
  /\ user' = [user EXCEPT ![c] = IF link[c] = "idle" THEN @ ELSE Default]
  /\ holds' = [holds EXCEPT ![r] = c]
  /\ pc' = [pc EXCEPT ![r] = "auth"]
  /\ UNCHANGED <<job, pos, replies, status, logs, ran>>

\* RedisPool.Get dials, and fails.
DialFails(r) ==
  /\ pc[r] = "borrow" /\ "broken" \in Faults
  /\ \A c \in Conn : link[c] # "idle"
  /\ \E c \in Conn : link[c] = "closed"
  /\ Answer(r, <<"error">>, IF Minting(r) THEN 400 ELSE 503)
  /\ UNCHANGED <<job, holds, conns, logs, ran>>

\* authRedisConn sends nothing when the token has no credentials.
NoAuth(r) ==
  /\ pc[r] = "auth" /\ Credentials(r) = Default
  /\ pc' = [pc EXCEPT ![r] = "run"]
  /\ UNCHANGED <<job, pos, holds, replies, status, conns, logs, ran>>

\* AUTH for a minted token; for ACL RESTTOKEN it is all there is to run.
Auth(r, o) ==
  /\ pc[r] = "auth" /\ Credentials(r) # Default
  /\ user' = IF Applied(o) THEN [user EXCEPT ![holds[r]] = Credentials(r)] ELSE user
  /\ minted' = IF o = "ok" /\ Minting(r) THEN minted \cup {job[r].user} ELSE minted
  /\ IF o = "ok" /\ ~Minting(r)
     THEN /\ pc' = [pc EXCEPT ![r] = "run"]
          /\ UNCHANGED <<pos, holds, replies, status, link>>
     ELSE /\ Release(r, Alive(o))
          /\ Answer(r, IF o = "ok" THEN <<"ok">> ELSE <<"error">>,
                       IF o = "ok" THEN 200 ELSE 400)
  /\ UNCHANGED <<job, counted, recorded, ran>>

\* The user a connection is left with when those of S before command i took effect.
UserAt(r, S, i) ==
  LET switches == {k \in S : k < i /\ Script(r)[k] \in {"auth", "reset"}}
  IN IF switches = {} THEN user[holds[r]]
     ELSE IF Script(r)[Max(switches)] = "auth" THEN job[r].user ELSE Default

\* The commands in S take effect.
Ran(r, S) ==
  /\ executed' = [executed EXCEPT ![r] =
                     [i \in DOMAIN Script(r) |-> IF i \in S THEN @[i] + 1 ELSE @[i]]]
  /\ ranAs' = [ranAs EXCEPT ![r] = @ \cup {UserAt(r, S, i) : i \in S}]
  /\ user' = [user EXCEPT ![holds[r]] = UserAt(r, S, Len(Script(r)) + 1)]

Failed(o) == IF o = "lost" THEN <<"unknown">> ELSE <<"error">>
ResultOf(c) == IF c \in Succeeds THEN "ok" ELSE "error"

\* executeCommand: conn.Do.  A MULTI is undone when the pool gets the connection
\* back, which sends DISCARD.
Run(r, o) ==
  /\ pc[r] = "run" /\ ~Multi(r)
  /\ Ran(r, IF Applied(o) /\ Command(r) \in Effective THEN {pos[r]} ELSE {})
  /\ Release(r, Alive(o))
  /\ IF o = "ok" /\ Command(r) \in Succeeds THEN Answer(r, <<"ok">>, 200)
                                            ELSE Answer(r, Failed(o), 400)
  /\ UNCHANGED <<job, logs>>

\* Redis reads what executeMultiExec sent up to command n: all of it, nothing, or
\* as much as came through before the connection broke.
Reads(o, n, s) ==
  /\ Applied(o) => n = Len(s)
  /\ o = "error" => n = 0
  /\ o = "broken" => n < Len(s)

\* executeMultiExec: MULTI, the commands and EXEC are sent and answered together.
\* One that fails when EXEC runs it is a result like any other; any other error
\* is the answer to all.
RunMulti(r, o) ==
  /\ pc[r] = "run" /\ Multi(r)
  /\ \E n \in 0..Len(Sent(Script(r))) :
       /\ Reads(o, n, Sent(Script(r)))
       /\ LET s == SubSeq(Sent(Script(r)), 1, n)
          IN /\ Ran(r, {i \in DOMAIN Script(r) : i + 1 \in TakesEffect(s)})
             /\ IF o = "ok" /\ ~Complains(s)
                THEN Answer(r, [k \in DOMAIN LastBlock(s) |-> ResultOf(LastBlock(s)[k])], 200)
                ELSE Answer(r, Failed(o), 400)
  /\ Release(r, Alive(o))
  /\ UNCHANGED <<job, logs>>

\* The pool closes a connection that was idle for five minutes.
IdleTimeout(c) ==
  /\ link[c] = "idle"
  /\ link' = [link EXCEPT ![c] = "closed"]
  /\ UNCHANGED <<job, pc, pos, holds, replies, status, user, logs, ran>>

-----------------------------------------------------------------------------
Init ==
  /\ job \in [Request -> Job]
  /\ pc = [r \in Request |-> "new"]
  /\ pos = [r \in Request |-> 0]
  /\ holds = [r \in Request |-> Nil]
  /\ replies = [r \in Request |-> <<>>]
  /\ status = [r \in Request |-> 0]
  /\ link = [c \in Conn |-> "closed"]
  /\ user = [c \in Conn |-> Default]
  /\ minted = {}
  /\ counted = 0
  /\ recorded = [r \in Request |-> <<>>]
  /\ executed = [r \in Request |-> [i \in DOMAIN job[r].script |-> 0]]
  /\ ranAs = [r \in Request |-> {}]

Step(r) ==
  \/ Check(r)
  \/ Record(r)
  \/ \E c \in Conn : Borrow(r, c)
  \/ DialFails(r)
  \/ NoAuth(r)
  \/ \E o \in Outcome : Auth(r, o) \/ Run(r, o) \/ RunMulti(r, o)

Next ==
  \/ \E r \in Request :
       \/ \E verdict \in Verdict : Receive(r, verdict)
       \/ Step(r)
  \/ \E c \in Conn : IdleTimeout(c)

Spec == Init /\ [][Next]_vars

\* A goroutine runs on; the read timeout (5 s) ends every round trip.
Fairness == \A r \in Request : WF_vars(Step(r))

FairSpec == Spec /\ Fairness

-----------------------------------------------------------------------------
(* Properties                                                              *)

\* A borrowed connection belongs to one request and every other one is free to
\* be borrowed: no path through the handlers keeps one or returns it twice
\* (the deferred Close of commands.go:35, 77 and auth.go:109).
PoolConsistent ==
  \A c \in Conn :
    LET holders == {r \in Request : holds[r] = c}
    IN Cardinality(holders) = IF link[c] = "busy" THEN 1 ELSE 0

\* A request with a minted token runs as its own ACL user, whatever was done on
\* the connection before (authRedisConn in commands.go:42-46, 82-86): the pool
\* does not undo AUTH or RESET.  A transaction can still change its own user.
OwnUser ==
  \A r \in Request :
    /\ job[r].token \in User
    /\ ~(Multi(r) /\ \E i \in DOMAIN Script(r) : Script(r)[i] \in {"auth", "reset"})
    => ranAs[r] \subseteq {job[r].token}

\* The answer is about the request's own commands: its client can read it, and
\* its script leaves alone the block it is sent in.
Plain(r) ==
  /\ job[r].format # "both"
  /\ Multi(r) => \A i \in DOMAIN Script(r) : Script(r)[i] \notin Control

\* No command of a request runs twice.  In a plain one a command that was answered
\* with a result ran; one that was answered with an error, the reply not being
\* lost, did not, unless it is a script that failed halfway; and a transaction
\* that failed as a whole had no effect at all, nor had one that was refused
\* before it was sent (commands.go:48-52, 88-117, response.go:123-126).
RepliesHonest ==
  \A r \in Request :
    /\ \A i \in DOMAIN Script(r) : executed[r][i] <= 1
    /\ Plain(r) => \A i \in DOMAIN Script(r) \cap DOMAIN replies[r] : Script(r)[i] # "resttoken" =>
         /\ replies[r][i] = "ok" => executed[r][i] = 1
         /\ replies[r][i] = "error" /\ Script(r)[i] # "script" => executed[r][i] = 0
    /\ Plain(r) /\ Multi(r) /\ pc[r] = "done" /\ status[r] # 200 /\ replies[r] # <<"unknown">> =>
         \A i \in DOMAIN Script(r) : executed[r][i] = 0

\* "if the transaction cannot be committed, none of the commands take effect"
\* (docs/api/pipeline.mdx:75): an error for the whole transaction, not for want of
\* a reply, means that nothing ran.
NoneTakeEffect ==
  \A r \in Request :
    Multi(r) /\ job[r].format # "both" /\ status[r] = 400 /\ replies[r] # <<"unknown">> =>
      \A i \in DOMAIN Script(r) : executed[r][i] = 0

\* What Redis ran outside a transaction is in the recorder's file, once, and the
\* file has the commands of a request in order (commands.go:30-32).
ExecutedIsRecorded ==
  \A r \in Request :
    /\ ~Multi(r) => \A i \in DOMAIN Script(r) : executed[r][i] > 0 =>
         Cardinality({k \in DOMAIN recorded[r] : recorded[r][k] = i}) = 1
    /\ \A k, l \in DOMAIN recorded[r] : k < l => recorded[r][k] < recorded[r][l]

\* A client decodes from the answer what Redis replied to the commands of its
\* request exactly if the format it asked for can carry that (response.go:29-163,
\* commands.go:48-52, 109-116): Carried and CarriedMany say which formats can't.
AnswersDecode ==
  \A r \in Request : pc[r] = "done" =>
    job[r].format \in IF job[r].kind = "single" THEN OneInverts ELSE ManyInvert

\* Every admitted request is answered, with fewer connections than requests: no
\* handler waits for a connection while it holds one (Wait in main.go:352).
AllAnswered == \A r \in Request : pc[r] = "check" ~> pc[r] = "done"
=============================================================================

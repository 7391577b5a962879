-------------------------------- MODULE Tool --------------------------------
(***************************************************************************)
(* What the command line tool (cmd/upstash-local) and ImportData           *)
(* (dashboard.go) carry from one server to another: a dump that export     *)
(* takes of a keyspace, and the session the first server's recorder wrote. *)
(* The tool works through the REST interface, one action per request or    *)
(* command; every request may be refused (a token, a quota, an injected    *)
(* error) or lost.  While it runs, clients of the first server go on.      *)
(* Values and arguments pass through encoding/json on their way, which     *)
(* puts U+FFFD for bytes that are not UTF-8.  Keys are UTF-8 here, and     *)
(* commands ones whose effect depends on what their key holds only.        *)
(***************************************************************************)
EXTENDS Integers, FiniteSets, SequencesExt

CONSTANTS
  Key,
  Client,      \* REST clients of the first server
  Command,     \* their commands, of which each changes one key: [op, key, text]
  Targets,     \* what the second server may hold at first
  Text,        \* what a string or a field, its name and value, may be
  Marshalled,  \* what json.Marshal makes of a text: others in the place of bytes that
               \* are not UTF-8 (two fields of a hash stay two)
  Gone,        \* no such key
  None,        \* no command, no file
  Path,        \* what GET /GET/<key> asks for once the URL is parsed: a key, or
               \* "bad" (not a GET of one key, or not a URL at all)
  Seeds,       \* the commands seed sends
  Faults,      \* ways a request of the tool fails
  MaxCommands  \* bound: commands of the clients

NilText == "<nil>"  \* fmt.Sprint(nil)
Printed == "[...]"  \* fmt.Sprint of a list

\* A value is a set: of one text for a string, of fields for a hash.  In a dump
\* the empty set is JSON's null.
Entry(type, value, ttl) == [type |-> type, value |-> value, ttl |-> ttl]
Type    == {"string", "hash", "list"}
NoTTL   == -1        \* what TTL answers for a key without expiry;
SomeTTL == 1         \* this stands for any other
Single(v) == \E t \in Text : v = {t}
Content == {c \in [type : Type, value : SUBSET Text, ttl : {NoTTL, SomeTTL}] :
             c.value # {} /\ (c.type = "string" => Single(c.value))}
Keyspace == [Key -> Content \cup {Gone}]

Request == [op : {"set", "hset", "expire", "del"}, key : Key, text : Text]
Item == {it \in [key : Key, type : Type, value : SUBSET Text, ttl : {NoTTL, SomeTTL}] :
          IF it.type = "string" THEN it.value = {} \/ Single(it.value) ELSE it.value # {}}

ASSUME ToolAssumption ==
  /\ IsFiniteSet(Key)
  /\ {NilText, Printed} \subseteq Text
  /\ Marshalled \in [Text -> Text] /\ \A t \in Text : Marshalled[Marshalled[t]] = Marshalled[t]
  /\ Gone \notin Content
  /\ Targets \subseteq Keyspace
  /\ Command \subseteq Request /\ None \notin Command
  /\ Seeds \in Seq(Request)
  /\ MaxCommands \in Nat
  /\ Key \subseteq DOMAIN Path
  /\ Faults \subseteq {"refused", "lost"}

VARIABLES
  source,   \* the keyspace of the first server
  session,  \* its recorder's file
  pending,  \* the command of a client that is recorded and has not run
  issued,   \* commands issued
  clean,    \* history: the session is what ran, in an equivalent order
  target,   \* the keyspace of the second server
  start,    \* history: what it was at first
  loaded,   \* history: keys an import has written there
  pc,       \* what the tool is doing
  todo,     \* the keys, items or commands it still has to do
  used,     \* history: the jobs it was given
  smooth,   \* history: none of its requests was refused or lost
  dump,     \* dump.json, None if there is no such file
  taken,    \* history: the source when the export or the replay began
  fresh     \* history: keys whose answer arrived, unchanged until then

first  == <<source, session, pending, issued, clean>>
second == <<target, loaded>>
file   == <<dump, taken, fresh>>
vars   == <<first, second, start, pc, todo, used, smooth, file>>

Exports == {"export", "exportData"}
Loads   == {"import", "restore", "replay", "seed"}

TypeOK ==
  /\ {source, target, start, taken} \subseteq Keyspace
  /\ session \in Seq(Request)
  /\ pending \in [Client -> Command \cup {None}]
  /\ issued \in 0..MaxCommands
  /\ clean \in BOOLEAN /\ smooth \in BOOLEAN
  /\ pc \in {"idle", "get", "import", "restore", "expire", "replay"}
  /\ pc = "idle" <=> todo = <<>>
  /\ pc = "get" => todo \in Seq(Key)
  /\ pc \in {"import", "replay"} => todo \in Seq(Request)
  /\ pc \in {"restore", "expire"} => todo \in Seq(Item)
  /\ dump # None => dump \in Seq(Item)
  /\ fresh \subseteq Key /\ loaded \subseteq Key /\ used \subseteq Exports \cup Loads

-----------------------------------------------------------------------------
(* Redis                                                                   *)

Is(type, c) == c # Gone /\ c.type = type

SetTo(db, k, text) == [db EXCEPT ![k] = Entry("string", {text}, NoTTL)]

\* HSET adds to the fields that are there, and is refused for another type.
Refuses(db, k) == db[k] # Gone /\ ~Is("hash", db[k])
HSetTo(db, k, fields) ==
  IF db[k] = Gone THEN [db EXCEPT ![k] = Entry("hash", fields, NoTTL)]
                  ELSE [db EXCEPT ![k].value = @ \cup fields]

Expiring(db, k) == [db EXCEPT ![k].ttl = SomeTTL]

Apply(db, c) ==
  CASE c.op = "set"    -> SetTo(db, c.key, c.text)
    [] c.op = "hset"   -> IF Refuses(db, c.key) THEN db ELSE HSetTo(db, c.key, {c.text})
    [] c.op = "expire" -> IF db[c.key] = Gone THEN db ELSE Expiring(db, c.key)
    [] c.op = "del"    -> [db EXCEPT ![c.key] = Gone]

-----------------------------------------------------------------------------
(* encoding/json                                                           *)

Replaced(value) == {Marshalled[t] : t \in value}
Passed(c)  == IF c = Gone THEN Gone ELSE Entry(c.type, Replaced(c.value), c.ttl)
PassedAll(db) == [k \in Key |-> Passed(db[k])]
Line(cmd)  == [cmd EXCEPT !.text = Marshalled[@]]

-----------------------------------------------------------------------------
(* The clients of the first server                                         *)

\* Bound: commands of the clients, none of them once an import or replay has
\* begun, which reads nothing of the first server any more.
Issue ==
  /\ issued < MaxCommands /\ used \cap Loads = {}
  /\ issued' = issued + 1

\* Regression: Recorder.Record without its lock.
AppendedOver(cmd) ==
  IF \E c \in Client : pending[c] # None THEN [session EXCEPT ![Len(session)] = Line(cmd)]
                                         ELSE Append(session, Line(cmd))

\* The line, marshalled, is appended under the recorder's lock.
Appended(cmd) == Append(session, Line(cmd))

\* executeCommand writes the command to the file and only then runs it.
Record(c, cmd) ==
  /\ pending[c] = None /\ Issue
  /\ session' = Appended(cmd)
  /\ pending' = [pending EXCEPT ![c] = cmd]
  /\ clean' = (clean /\ \A d \in Client : pending[d] = None \/ pending[d].key # cmd.key)
  /\ UNCHANGED <<source, second, start, pc, todo, used, smooth, file>>

Execute(cmd) ==
  /\ source' = Apply(source, cmd)
  /\ fresh' = IF pc = "get" /\ cmd.key \in ToSet(todo) THEN fresh \ {cmd.key} ELSE fresh
  /\ UNCHANGED <<second, start, pc, todo, used, smooth, dump, taken>>

\* conn.Do.
Run(c) ==
  /\ pending[c] # None /\ Execute(pending[c])
  /\ pending' = [pending EXCEPT ![c] = None]
  /\ UNCHANGED <<session, issued, clean>>

\* Without a connection, or when the ACL forbids it to the user of the request
\* (the tool's may be another), a command does not run, but stays recorded.
RunFails(c) ==
  /\ pending[c] # None
  /\ pending' = [pending EXCEPT ![c] = None]
  /\ clean' = FALSE
  /\ UNCHANGED <<source, session, issued, second, start, pc, todo, used, smooth, file>>

\* executeMultiExec, and clients that go to Redis directly, are not recorded; nor
\* is a command whose line cannot be written.
RunUnrecorded(cmd) ==
  /\ Issue /\ Execute(cmd)
  /\ clean' = FALSE
  /\ UNCHANGED <<session, pending>>

-----------------------------------------------------------------------------
(* The tool                                                                *)

\* Bound: at most one export, and then at most one of the other jobs.
Begin(job, o) ==
  /\ pc = "idle" /\ used \cap Loads = {}
  /\ job \in Loads \/ used = {}
  /\ used' = used \cup {job}
  /\ smooth' = (o = "ok" /\ smooth)

\* What is to be done, at p while there is something.
Then(p, jobs) == todo' = jobs /\ pc' = IF jobs = <<>> THEN "idle" ELSE p

\* Regressions: helpers as a change to the code could leave them.
AdvanceEarly(p, o) ==
  /\ todo' = Tail(todo) /\ pc' = IF Len(todo) <= 2 THEN "idle" ELSE p
  /\ smooth' = (o = "ok" /\ smooth) /\ UNCHANGED <<start, used>>
WrittenPlain(it) == SetTo(target, it.key, NilText)

Advance(p, o) ==
  /\ Then(p, Tail(todo))
  /\ smooth' = (o = "ok" /\ smooth) /\ UNCHANGED <<start, used>>

\* export, KEYS: an answer that is no list of keys counts as an empty one.
Export(o, keys) ==
  /\ Begin("export", o)
  /\ IF o = "lost" THEN UNCHANGED <<pc, todo, file>>
     ELSE /\ Then("get", IF o = "ok" THEN keys ELSE <<>>)
          /\ dump' = <<>> /\ taken' = source /\ fresh' = ToSet(todo')
  /\ UNCHANGED <<first, second, start>>

\* The value in the answer, which is JSON without base64: null for an error and
\* for no key.
Got(k) == IF Path[k] \in Key /\ Is("string", source[Path[k]]) THEN Replaced(source[Path[k]].value) ELSE {}

\* export, one GET: all it notes of a key is a value, as a string without expiry.
\* (Nobody reads the file before the export has ended.)
ExportKey(o) ==
  LET k == Head(todo) IN
  /\ pc = "get" /\ Advance("get", o)
  /\ dump' = IF o = "lost" THEN dump
             ELSE Append(dump, [key |-> k, type |-> "string", ttl |-> NoTTL,
                                value |-> IF o = "ok" THEN Got(k) ELSE {}])
  /\ fresh' = IF o = "ok" THEN fresh ELSE fresh \ {k}
  /\ UNCHANGED <<first, second, taken>>

\* http.NewRequest returns no request for what is not a URL, and the tool panics
\* before it has written a file.
ExportCrash ==
  /\ pc = "get" /\ Path[Head(todo)] = "bad"
  /\ Then("idle", <<>>) /\ dump' = None
  /\ UNCHANGED <<first, second, start, used, smooth, taken, fresh>>

\* ExportData on the server, with nobody in between (Browse.tla has who may be),
\* and its dump put into JSON: ImportData expects the numbers JSON leaves.
ExportData ==
  /\ Begin("exportData", "ok")
  /\ LET keys == SetToSeq({k \in Key : source[k] # Gone})
     IN /\ dump' = [i \in DOMAIN keys |-> LET c == Passed(source[keys[i]])
                     IN [key |-> keys[i], type |-> c.type, value |-> c.value, ttl |-> c.ttl]]
        /\ fresh' = ToSet(keys)
  /\ taken' = source
  /\ UNCHANGED <<first, second, start, pc, todo>>

\* fmt.Sprint of an item's value.
Sprint(it) ==
  IF it.value = {} THEN NilText
  ELSE IF it.type = "string" THEN CHOOSE t \in it.value : TRUE ELSE Printed

\* import and seed: one pipeline of SETs, which the server works through
\* (handlePipelineExecute) whatever becomes of the tool.
Send(job, cmds, o) ==
  /\ Begin(job, o)
  /\ Then("import", IF o = "ok" THEN cmds ELSE <<>>)
  /\ UNCHANGED <<first, second, start, file>>

Import(o) ==
  /\ dump # None
  /\ Send("import", [i \in DOMAIN dump |->
                      [op |-> "set", key |-> dump[i].key, text |-> Sprint(dump[i])]], o)

Seed(o) == Send("seed", Seeds, o)

\* A SET of the pipeline that is refused leaves its error among the results; one
\* whose answer is lost may have run.
ImportSet(o) ==
  /\ pc = "import" /\ Advance("import", o)
  /\ \/ /\ o # "refused"
        /\ target' = Apply(target, Head(todo)) /\ loaded' = loaded \cup {Head(todo).key}
     \/ o # "ok" /\ UNCHANGED second
  /\ UNCHANGED <<first, file>>

\* ImportData, on the second server.
Restore ==
  /\ dump # None /\ Begin("restore", "ok")
  /\ Then("restore", dump)
  /\ UNCHANGED <<first, second, start, file>>

\* writeKeyValue: null is the text NilText in a string, and nothing otherwise.
Written(it) ==
  CASE it.type = "string" -> SetTo(target, it.key, Sprint(it))
    [] it.type = "hash"   -> HSetTo(target, it.key, it.value)
    [] OTHER -> IF it.value = {} THEN target ELSE SetTo(target, it.key, Sprint(it))

Unfit(it) == it.type = "hash" /\ Refuses(target, it.key)

RestoreItem ==
  LET it == Head(todo) IN
  /\ pc = "restore" /\ ~Unfit(it)
  /\ target' = Written(it) /\ loaded' = loaded \cup {it.key}
  /\ IF it.ttl > 0 THEN pc' = "expire" /\ UNCHANGED <<start, todo, used, smooth>>
               ELSE Advance("restore", "ok")
  /\ UNCHANGED <<first, file>>

\* The first item whose write returns an error ends the import; it may have run.
RestoreStops(o) ==
  LET it == Head(todo) IN
  /\ pc = "restore" /\ (o = "ok" => Unfit(it))
  /\ \/ o = "lost" /\ ~Unfit(it) /\ target' = Written(it) /\ loaded' = loaded \cup {it.key}
     \/ UNCHANGED second
  /\ Then("idle", <<>>) /\ smooth' = (o = "ok" /\ smooth)
  /\ UNCHANGED <<first, start, used, file>>

\* EXPIRE, whose error is ignored.
RestoreExpire(o) ==
  /\ pc = "expire" /\ Advance("restore", o)
  /\ target' = IF o = "ok" THEN Expiring(target, Head(todo).key) ELSE target
  /\ UNCHANGED <<first, loaded, file>>

\* replay reads the whole file at once.
Replay ==
  /\ Begin("replay", "ok")
  /\ Then("replay", session)
  /\ taken' = source
  /\ clean' = (clean /\ \A c \in Client : pending[c] = None)
  /\ UNCHANGED <<source, session, pending, issued, second, start, dump, fresh>>

\* One line, one request; one that is lost may have run or not, and the next
\* line follows whatever came of it.
ReplayLine(o) ==
  /\ pc = "replay" /\ Advance("replay", o)
  /\ \/ o # "refused" /\ target' = Apply(target, Head(todo))
     \/ o # "ok" /\ UNCHANGED target
  /\ UNCHANGED <<first, loaded, file>>

-----------------------------------------------------------------------------
Init ==
  /\ source = [k \in Key |-> Gone] /\ taken = source
  /\ session = <<>> /\ pending = [c \in Client |-> None] /\ issued = 0 /\ clean = TRUE
  /\ target \in Targets /\ start = target /\ loaded = {}
  /\ pc = "idle" /\ todo = <<>> /\ used = {} /\ smooth = TRUE
  /\ dump = None /\ fresh = {}

Clients ==
  \/ \E c \in Client : Run(c) \/ RunFails(c) \/ \E cmd \in Command : Record(c, cmd)
  \/ \E cmd \in Command : RunUnrecorded(cmd)

Jobs ==
  \/ \E o \in {"ok"} \cup Faults :
       \/ \E keys \in SetToSeqs({k \in Key : source[k] # Gone}) : Export(o, keys)
       \/ ExportKey(o) \/ Import(o) \/ Seed(o) \/ ImportSet(o)
       \/ RestoreStops(o) \/ RestoreExpire(o) \/ ReplayLine(o)
  \/ ExportCrash \/ ExportData \/ Restore \/ RestoreItem \/ Replay

Next == Clients \/ Jobs

Spec == Init /\ [][Next]_vars

-----------------------------------------------------------------------------
(* Properties                                                              *)

Done(jobs) == pc = "idle" /\ used \cap jobs # {}

\* A string that was not changed before its GET keeps type and value through a
\* dump, whether or not requests for other keys fail, and with ExportData and
\* ImportData its expiry too; so does a hash that meets no other value.  What is
\* kept of a text is what JSON leaves of it: bytes that are not UTF-8 come back
\* replaced.  An import that stops has left the rest alone (main.go:226-291 of
\* cmd/upstash-local, response.go:66, dashboard.go:105-173).
RoundTrip ==
  Done({"import", "restore"}) =>
    /\ \A k \in fresh \cap loaded :
         /\ (Is("string", taken[k]) /\ Path[k] = k) =>
              (Is("string", target[k]) /\ target[k].value = Replaced(taken[k].value))
         /\ ({"exportData", "restore"} \subseteq used /\ smooth /\ ~Is("list", taken[k])) =>
              (target[k] = Passed(taken[k]) \/ (Is("hash", taken[k]) /\ start[k] # Gone))
    /\ \A k \in Key \ loaded : target[k] = start[k]

\* A recorded session whose commands for a key did not overlap, that all ran,
\* and no other beside them, takes an empty server to the same state, but for
\* bytes that are not UTF-8, which the recorder replaces.  A command Redis refused
\* for what its key held has run; one that the ACL forbade, or that met no
\* connection, has not, and such a session is not meant (recorder.go:25-41,
\* commands.go:30-48, replay in main.go:99-127 of cmd/upstash-local).
ReplayAgrees ==
  (Done({"replay"}) /\ clean /\ smooth /\ \A k \in Key : start[k] = Gone) =>
    target = PassedAll(taken)
=============================================================================

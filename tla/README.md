# A TLA+ development of upstash-redis-local

This directory holds a formal model of `upstash-redis-local`: a Go server that
offers the Upstash REST interface over a local Redis, with a rate limit
simulation, a dashboard, a session recorder and an emulator of the QStash message
queue, and a command line tool for it. The modules are written from the source, at
one action per step at which something else may come between. TLC checks them on
small instances, and TLAPS proves the safety properties they check for all values of the
constants.

## The system

| Part | Source | State | Operations | Interacts with |
| --- | --- | --- | --- | --- |
| QStash | `internal/qstash.go` | Redis: a record per message, a sorted set of due times, a list of dead letters; in the process: one goroutine with the ids of its scan and the record at hand | publish, scan, claim, deliver, retry, fail, list; Start, Stop | Redis through the shared pool, destinations by HTTP, other server processes through Redis |
| Backoff | `qstash.go:163-168`, `main.go:395-399` | none | two formulas in 64-bit nanoseconds | QStash, start-up |
| Rate limiter | `internal/ratelimit.go` | a quota counter and a window, each with its lock | `Allow` | called once per request |
| Metrics | `internal/metrics.go` | counters, the day they are for | `Record`, `Snapshot` | called per command; read by the dashboard |
| Gateway | `internal/rest.go`, `commands.go`, `auth.go`, `security.go` | tokens minted at run time | single command, pipeline, transaction, `ACL RESTTOKEN` | limiter, chaos, metrics, recorder, pool |
| Connection pool | `main.go:347-403`, redigo | connections; Redis keeps a user and a database for each | borrow, release, dial, idle timeout | every handler and QStash |
| Recorder | `internal/recorder.go` | an append-only file | `Record`, `Close` | gateway; replayed by the command line tool |
| Chaos | `internal/chaos.go` | none | latency, random error | gateway |
| SSE streams | `internal/sse.go`, `server.go` | a connection per stream | subscribe, monitor, publish | Redis pub/sub |
| Life cycle | `main.go`, `rest.go:18-39` | the process | dial with retries, serve, shut down, deferred closes | everything |
| Dashboard, key browser, export and import | `internal/dashboard.go` | none | SCAN loops, reads, writes | Redis; the dump file |
| Response encoding | `internal/response.go` | none | JSON, base64, RESP2 | gateway |
| Security configuration | `internal/security.go` | configuration | blocked commands, listen address, CORS | gateway |
| Command line tool | `cmd/upstash-local/main.go` | `.env.local`, dump files | use, seed, export, import, replay | the REST interface, the recorder's file |

What is hard in it:

* **QStash** ignores the error of every Redis command but the scan, the load and
  the publisher's ZADD; a reply may be lost after the command ran; a process may
  end between any two round trips; two processes may share one Redis. A worker
  keeps the ids of a scan through POSTs that take up to ten seconds each.
* **The pool** hands connections on with whatever user and database the last
  request left on them.
* **Shutdown**: the HTTP library's `ListenAndServe` returns when its listener is
  closed, not when the requests are done, so `main` runs its deferred closes under
  the handlers and the delivery goroutine.
* **Streams** hold a connection with a read timeout for a client that may be gone.
* **The recorder and the metrics** act before the command runs, outside any lock
  that covers both, and the metrics read the calendar before they take the lock.
* **Listings and dumps** read a keyspace in many round trips while it changes, and
  ignore most of their errors.
* **Replies** go through three conversions, each of which could encode or replace
  what the one before has.
* **Numbers**: the backoff is a 64-bit product that wraps, the rate window is
  fixed and not sliding.

What makes each part correct:

| Part | Properties |
| --- | --- |
| QStash | a message has one owner; none is lost, dead-lettered twice, buried early, delivered before its delay or after an acknowledgement; the listing is true; every accepted message settles |
| Rate limiter | the quota is exact, a burst is bounded, nobody is rejected while there is room |
| Metrics | totals, counts by command and daily count agree |
| Gateway, pool, recorder | connections are neither shared nor leaked; a token runs as its own user; what ran is recorded; an answer says what ran, unless a script ends the transaction it is in; every request is answered |
| Response encoding | a client decodes what Redis replied exactly if the format it asked for can carry it |
| Life cycle | start-up ends; a signal ends the process; the recorder is there as long as it is needed; requests are drained |
| Streams | a fed client misses nothing; connections come back |
| Key browser, listings | every key that is there throughout is listed; an entry shows what its key held |
| Export, import, replay | a dump restores the strings it was taken from, a recorded session replays to the state it led to, but for bytes that are not UTF-8 |

`PROJECT.json` lists every hazard at its line, with the properties about it.

## The modules

| Module | Models | Runs |
| --- | --- | --- |
| `QStash` | publish handler, delivery goroutine, process ends and restarts | `QStash*` |
| `DeliveryContract` | what the emulator promises for one message; the abstract specification of `QStash` | `QStashFaults` |
| `Backoff` | the arithmetic of both backoffs | `Lifecycle`; gives `QStash` its waiting times |
| `RateLimiter`, `Metrics` | `Allow`; `Record` and what `Snapshot` reads | through `Admission` |
| `Admission` | the two composed on the path of a request | `Admission`, `MetricsMidnight` |
| `Gateway` | a request from admission to answer, the pool, the recorder | `Gateway`, `GatewayEscape` |
| `Transaction` | how Redis works off MULTI, a script and EXEC; operators only, which `Gateway` extends | as `Gateway` |
| `Response` | what becomes of a reply on its way to the client; operators only, which `Gateway` extends | as `Gateway` |
| `Lifecycle` | start-up with its dials, the signal goroutine, shutdown, deferred closes, requests in their handlers | `Lifecycle*` |
| `Streams` | the subscribe and monitor streams | `Streams` |
| `Browse` | the four readers that list a keyspace which others change | `Browse` |
| `Tool` | dumps and recorded sessions carried from one server to another | `Tool` |
| `MCQStash`, `MCAdmission`, `MCGateway`, `MCLifecycle`, `MCBrowse`, `MCTool` | instances for TLC | |
| `QStashProofs`, `QStashContractProofs`, `AdmissionProofs`, `GatewayProofs`, `LifecycleProofs`, `StreamsProofs`, `BrowseProofs`, `ToolProofs` | theorems | |

### QStash

| Go | TLA+ |
| --- | --- |
| `qstash:msg:<id>`, and whether it has a TTL | `store[m]` (state and retries), `volatile` |
| `qstash:queue`: member and score | `queued`, `wait[m]`: seconds until the score, or `NeverDue` for a score below 0 |
| `qstash:dlq` | `dlq[m]`: how often the id is in the list |
| `Upstash-Retries`, `Upstash-Delay`, the destination | `req[m]`; `valid` is false for a URL `http.NewRequest` rejects |
| `handleQStashPublish` | `PublishSave` (SET), `PublishEnqueue` (ZADD and the answer) |
| `loop`, `processDue` | `Scan` (ZRANGEBYSCORE), `Claim` (ZREM), `LoopReturn` |
| `deliver` | `Load` (GET), `PostInvalid`, `PostAcked`, `PostFailed` |
| `saveMessage` in `deliver`, `retry`, `fail` | `Save`, followed by `Requeue` (ZADD), `Bury` (LPUSH) and `Expire` (EXPIRE) |
| SIGTERM and `Stop`; the end of the process; a new one | `Stop`, `Exit`, `Start` |
| the clock, Redis key expiry | `Tick`, `Evict` |

One action is one round trip. The argument `o` of an action is how the round trip
ended: `ok`; `error`, Redis refused the command; `lost`, the command ran and the
reply did not arrive in the 5 s the connection waits; `broken`, the connection was
dead. redigo answers every further `Do` on a connection in one of the last two
cases with an error and sends nothing, which is why a worker keeps `conn[s]` from
the scan to the end of its batch.

`PostFailed` stands for every failure of a delivery, a 2xx that is lost or late
included: the worker cannot tell. `attempts` and `acked` are history variables.

The record keeps of a message what its fate depends on: state and retry counter.
Body, headers, `lastError` and the time stamps of the record are left out; the
time that counts is the score. A scan returns the due ids in score order, the
model takes them in any order. An id that a failed LPUSH or a failed scan leaves
behind is left behind in the model too.

### Backoff

The product `2^r * 10^9` is `2^(r+9) * 1953125`; modulo 2^64 its sign is that of
1953125 wrapped to the `55-r` bits that are left. `MCLifecycle` holds the product
in four 16-bit limbs, shifts it as the processor does at each failed dial, and
compares after each shift. `QStash` uses `RetrySeconds`, with a clock that reads
2026.

### Lifecycle

| Go | TLA+ |
| --- | --- |
| `dialWithRetry`, `testRedisConnection` from `main` | `Dial`, `DialAgain`, `DialGivesUp`, `Ping` |
| `NewRecorder`, the start of `Serve` | `Open` |
| `ListenAndServe`, and its return | `Listen`, `ServeReturns` |
| the signal goroutine | `Notify`, `Shutdown`, `Drained` |
| the deferred `recorder.Close`, `pool.Close`; the end of `main` | `CloseRecorder`, `ClosePool`, `Return` |
| `log.Fatalf`, `Logger.Fatal` | `Fatal` |
| a request: `requestHandler`, `Record`, `RedisPool.Get`, `conn.Do` | `Arrive`, `Record`, `Borrow`, `Run` |

`fasthttp` is modelled from its documented behaviour in v1.51: `Shutdown` closes
the listeners there are and then waits, `ListenAndServe` does not. The start-up
loop is modelled with its attempts and sleeps; a dial of the pool for a request is
one step, since only its end matters to the others.

### Streams

| Go | TLA+ |
| --- | --- |
| `streamConn`, `authRedisConn` | `Connect` |
| `psc.Subscribe`, `conn.Send("MONITOR")` | `Ask` |
| the first event | `Open` |
| `Receive` with a result; with an error | `Receive`; `ReceiveFails` |
| `Fprintf` and `Flush` of an item | `Write` |
| the deferred closes | `Close` |

redigo's `Send` writes to a buffer, `Flush` empties it, `Receive` does neither: so
`asked` is `flushed` after a SUBSCRIBE and stays `buffered` after a MONITOR. A
write to a client that has left may succeed, since the HTTP library buffers it; so may
the SUBSCRIBE on a connection that is broken already (`Ask`).

### RateLimiter, Metrics, Admission

One action per critical section, one for what is done between them. The limiter's
clock has `Second` ticks to the second; the metrics' clock is the calendar day.
`Admission` extends `RateLimiter` and instantiates `Metrics`: a goroutine goes
through `Allow` once (`Arrive`, `Admit`), and if it was admitted through `Record`
for each command it comes to run (`Count`), none for a request that is rejected
later, several for a pipeline. Both clocks are moved by `Pass`.

### Gateway

| Go | TLA+ |
| --- | --- |
| `requestHandler`: limiter, token, chaos, empty body | `Receive`, for every `Verdict` of limiter and chaos |
| checks and metrics of `executeCommand`, `executeMultiExec` | `Check` |
| `Recorder.Record` | `Record` |
| `RedisPool.Get`, waiting or dialling | `Borrow`, `DialFails` |
| `authRedisConn`, `aclRestToken` | `NoAuth`, `Auth` |
| `conn.Do`; `MULTI` to `EXEC` | `Run`, `RunMulti` |
| the deferred `conn.Close` | `Release`, in the action that ends the command |
| the loop of a pipeline, the answer | `Answer` |
| `IdleTimeout` of the pool | `IdleTimeout` |

A command is one of its classes: `read` and `write` as `writeCommands` has them; `fail`,
which Redis refuses when it runs it; `script`, an EVAL that writes and then fails;
`unknown`, which Redis refuses at once and which spoils a transaction (no such command,
or one the ACL forbids); `multi`, `exec`, `discard` and `reset`; `auth`; `banned`, what
the security settings block, which includes transaction control in strict mode;
`resttoken`; `empty`. `executed[r]` is what Redis ran for a request, `ranAs[r]` the users
it ran as; `recorded[r]` are the positions of its commands in the recorder's file. A
reply `unknown` is an error sent because the reply of Redis was lost.

`executeMultiExec` sends a script as it is between a MULTI and an EXEC of its own, so the
script may end that transaction, and begin another. `Transaction` says which commands of
such a sequence take effect, whether Redis complains about one (redigo's `Do("EXEC")`
then returns that error, and nothing else) and which results the last EXEC has.
It says so of the sequence as a whole. `MCGateway` works it off one command after another,
as Redis does, and TLC compares the two for every beginning of every script of up to four
commands (`OneAfterAnother`).

What is assumed of the jobs, and left out:

* ACL RESTTOKEN comes with a user and a password (`JobAssumption`). With an empty
  password the token it mints sends `AUTH <user>` alone, with neither no AUTH at all
  (`auth.go:91-97`).
* The pool's connections are dialled as one user, `Default`, and RESET leaves that one, as
  on a Redis without a password. redigo undoes a MULTI that a single command left open: its
  pool sends DISCARD.
* WATCH, SELECT, QUIT, CLIENT REPLY and SUBSCRIBE as commands of a request have no class.
* EVAL is not among `writeCommands`, so a read-only token may run `script`.
* A transaction with AUTH or RESET in it changes its own user in its midst; `OwnUser` is about
  all others.

### Response

| Go | TLA+ |
| --- | --- |
| `convertRedisResult`; `successResult`, `errorResult` | `convertRedisResult`, `Result` |
| `encodeResponseData`: for a result; for a list of them | `EncodeOne`; `Each` |
| `convertValue`, `json.Marshal` | `convertValue`, `Marshal` |
| `respond`, `respondResp2`, `formatResp2` | the same names |
| the SDK's decoding; a RESP2 parser | `Read`; `Parse` |

A text is the bytes it started from and how often base64 was applied to them, so
that encoding twice, or not at all, is visible; `Binary` is one that JSON cannot
carry, and `OK` the one value the base64 layer leaves alone. The functions of the code
call themselves for the elements of a list and do the same to each of them, whatever
is around it; so a reply, which may hold lists in lists to any depth, is here a function
from places to nodes, and each operator a function of the node (`Value`) at every
place.

No format carries everything. `Carried` says what each does for the reply to one command,
`CarriedMany` for those to a pipeline or a transaction:

| Format | One command | Several |
| --- | --- | --- |
| JSON | text that is UTF-8 | the same |
| base64 | every reply but an error whose text is not UTF-8: an error is never encoded | the same |
| RESP2 | every reply but a list | nothing: JSON is sent |
| base64 and RESP2 | nothing: the answer is a 400, though the command has run | the same |

`OneInverts` and `ManyInvert` are the formats in which a client decodes what Redis replied
exactly if `Carried` or `CarriedMany` holds, and `AnswersDecode` says of every answered
request that its format is one of them: beyond the exceptions of the table there are none.

### Browse

| Go | TLA+ |
| --- | --- |
| `scanKeys` | `Scan`, `Cut`, `Enough` |
| LRANGE of `handleQStashDLQ` | `ListIds` |
| TYPE, TTL and `readKeyValue` for a key | `ReadType`, `ReadTTL`, `ReadValue` |
| `loadMessage` | `ReadRecord` |
| the 400 of a listing that could not begin | `ListFails` |
| other clients; a connection that dies | `Change`; `Break` |

`view` is the reader: `handleDashboardKeys` (cut at 1000 keys), `ExportData`,
`handleQStashList` and `handleQStashDLQ`. SCAN may return any keys there are, some
of them again; it is over only when it has returned all that were there throughout.
`item.lived` is a history variable, what the key held while its entry was built.

### Tool

| Go | TLA+ |
| --- | --- |
| `export`: KEYS, then a GET per key, then the file | `Export`, `ExportKey`, `ExportCrash` |
| `importData`, `seed`: one pipeline of SETs | `Import`, `Seed`; each SET is `ImportSet` |
| `ExportData`, `ImportData` of the server | `ExportData`; `Restore`, `RestoreItem`, `RestoreExpire`, `RestoreStops` |
| `replay`: the file, line by line | `Replay`, `ReplayLine` |
| `Recorder.Record`, then `conn.Do` | `Record`; `Run`, `RunFails` |
| transactions and clients that go to Redis directly | `RunUnrecorded` |

There are two servers: a session or a dump of the first is carried to the second.
A value is a set, of one text for a string and of the fields for a hash, which is
what the conversions tell apart: `fmt.Sprint` of a list is one text, and of null
another. `Text` are the texts there may be, the two that `Sprint` makes among them;
`Marshalled` is what `json.Marshal` leaves of each, which replaces bytes that are not UTF-8.
A value goes through it in the answer to a GET of `export`, which does not ask for base64
(`Got`), and in a dump of `ExportData`; an argument in its line of the recorder's file
(`Line`). Keys are names in UTF-8, and a command changes one key, as a function of what that
key holds. `ExportData` and `ImportData` have no caller in the repository; they are modelled
as what they would do for one that keeps the dump as JSON. A command the ACL forbids to the
user of a request is recorded and does not run, and `replay` runs it under its own token:
`RunFails` is that case too. Of an
expiry the dump says only whether there is one: `TTL` answers `NoTTL` or `SomeTTL`. Every
request of the tool may be refused or lost.

## The runs

`tlc -config X.cfg M.tla` for each row; none takes more than about two minutes.

| Run | Checks | Instance and why it is enough |
| --- | --- | --- |
| `QStashLive` | `TypeOK`, `Accounted`, `ListingAgrees`, `AcceptedSettles` | 2 processes, 2 messages, 1 retry, no faults: two workers with overlapping scans and a message each, one of which ends anywhere and is restarted |
| `QStashFaults` | `AttemptsBounded`, `BuriedExhausted`, `ClaimExclusive`, `DlqOnce`, `DelayKept`, `ImplementsContract`, `NoPostAfterAck` | 2 processes, 1 message, up to 2 retries, delays with a score below zero among them, lost replies and dead connections, 2 ends of processes |
| `Admission` | `CountersOK`, `QuotaExact`, `BurstBounded`, `RejectedWhenFull`, `TotalsAgree`, `NoOvercount` | 2 goroutines, 6 calls, windows of 3 ticks, 5 ticks: a seam between two windows; 4 records, pipelines of 2, 2 midnights |
| `Gateway` | `TypeOK`, `PoolConsistent`, `OwnUser`, `ExecutedIsRecorded`, `RepliesHonest`, `AnswersDecode`, `AllAnswered` | 3 requests for 1 connection, 8 kinds of job in the 4 formats, a script that ends its own transaction among them, all faults, 2 ACL users and the static one: each connection serves requests of every user in every order; lists of at most 2 elements, three of them in one another, every kind of element |
| `Lifecycle` | `TypeOK`, `StartSettles`, `SignalEnds`, `DialPatience`, `RecordedUntilClosed`, `BackoffAgrees` | 70 dials: after 55 failures the register is 0; 2 requests, Redis goes down or up twice |
| `Streams` | `TypeOK`, `Conserved`, `Released` | 2 streams of either kind, 2 items, a read timeout of 2 ticks |
| `Browse` | `TypeOK`, `Complete`, `Faithful` | each reader over 2 keys, 4 contents, 2 changes, 3 SCANs, a page of 1 and a limit of 2: a value longer than its page, a listing cut in a batch, a type that changes between TYPE and the read |
| `Tool` | `TypeOK`, `RoundTrip`, `ReplayAgrees` | 2 clients, 3 commands on 2 keys, one of which GET cannot name; every job, alone or after an export; a text that is not UTF-8; a second server that is empty or holds a list where a key is to go |

What the properties say of the code is at their definitions. Those that take most
to see:

* `Accounted`, `ListingAgrees`: between ZREM and ZADD, LPUSH or EXPIRE a message is
  in nobody's place but a worker's hands, and the listing is allowed to be behind
  only for so long. A process that ends there takes one message with it, never the
  rest of its scan: the properties count what is lost or listed wrongly and compare
  it with the number of ends, so that without one they say that nothing is.
* `DelayKept`: only a first claim; a retry's backoff is not safe from a second
  process, see below.
* `AttemptsBounded` needs that a record is written before its id is queued again.
* `Released`: on a silent feed no write can notice that the client has left, and the
  read timeout is all that gives the connection back.
* `RejectedWhenFull` looks a second back from the rejection, `BurstBounded` a second
  back from anywhere: the first says that the window does not punish, the second
  that it lets at most twice the limit through.
* `Complete` says nothing of a listing that reached its limit or whose connection
  died; `Faithful` says of those that what they do show is true.
* `RoundTrip` is stated for each key: what else failed in the same dump or import
  must not matter to it; what is restored is what JSON leaves of the value. `ReplayAgrees`
  needs `clean`, that no two commands for a key overlapped, that all that were recorded ran,
  and none went past the recorder. It is about all the others, those included that Redis
  refused for what their key held.
* `RepliesHonest` is about requests whose answer their client can read and whose script
  leaves its transaction alone (`Plain`): without that an error does not mean that
  nothing ran, see `GatewayEscape` below. A script that failed halfway is excepted. The
  answer of a dead connection is told apart from a lost one in the model; the handlers
  send the same error for both.
* `AnswersDecode` is an equivalence: it fails when a format carries less than `Carried` says,
  and when it carries more.

The bounds are named constants: `MaxExits` and `MaxAttempts` (QStash), `MaxTime`,
`MaxRequests`, `MaxRecords`, `MaxDay`, `MaxFlips`, `MaxItems`, `MaxBatches`,
`MaxChanges`, `MaxCommands`; the replies of `MCGateway` are bounded where they are
defined (`SmallReplies`, `Pairs`).
Goroutines of `Admission` and clients of `Tool` are symmetric. `MaxAttempts` is
above what the code allows wherever `AttemptsBounded` is checked, so that it cuts
nothing off.

Deadlock is not checked: every instance comes to rest. A queue with nothing in it
waits for a publisher, all requests are answered in the end, a process that ended
stays ended, and the clocks stop at their bounds.

`QStashFaults` has no error replies of Redis, under which `AttemptsBounded` and
`BuriedExhausted` do not hold (see below), nor, with them, the contract.
`ClaimExclusive`, `DlqOnce` and `NoPostAfterAck` do: they are proved for every set of
faults.

### Fairness

`QStash!Fairness` is weak fairness of the clock, of a publish under way, of each
worker, of key expiry, of the end of a process that is stopping and of the start
of one that ended: the ticker keeps ticking, each round trip ends by its timeout
(5 s to Redis, 10 s to a destination), `main` returns after `Serve`. It makes no
client publish, no process end and no Redis fail. `Gateway!Fairness` is weak
fairness of each request's goroutine. It assumes nothing of the pool's queue:
a borrowed connection comes back because its holder's goroutine runs on.
`Lifecycle!Fairness` is weak fairness of `main`, of the signal goroutine and of each
handler, `Streams!Fairness` of each handler and the clock; no signal, client, feed
or fault has to come, and Redis need not answer a SUBSCRIBE.

## Where the code and its documentation disagree

Each of these is a run whose one property is a sentence of the repository, and
which TLC refutes with a behaviour of the code. `PROJECT.json` quotes the sentences.

| Run | What happens |
| --- | --- |
| `QStashOverflow` | late retries wrap the backoff to a score below zero, which no scan returns: the message waits for ever |
| `LifecycleDrain` | requests in their handlers are cut off by a SIGTERM: nothing waits for `Shutdown` |
| `MetricsMidnight` | a stale day turns the daily window back and clears the new count |
| `GatewayEscape` | a transaction whose script has an EXEC of its own commits what is before it and runs what is after it; redigo returns the error of the last EXEC, and the request is answered 400 |

These were met while modelling, and can be read off the models; no run is kept for
them.

* A process that ends between ZREM and the ZADD or LPUSH that follows loses the
  message: nothing queues it again (`Claim`, `Exit`).
* A 2xx that is lost or later than 10 s leads to a second delivery, while
  `guides/qstash.mdx:105` says "delivered exactly once" (`PostFailed`).
* A destination `http.NewRequest` rejects is dead-lettered without an attempt,
  while `guides/qstash.mdx:85` says "messages that exhausted their retries"
  (`PostInvalid`).
* With two processes on one Redis, an id in the stale scan of one is claimed during
  the backoff the other has set: ZREM does not look at the score (`Claim`).
* When Redis refuses the SET in `retry`, the counter stays behind and there are more
  attempts than `Upstash-Retries` (`Save`, `Requeue`).
* A publish whose ZADD fails leaves its record, listed as queued for ever
  (`PublishSave`, `PublishEnqueue`).
* MONITOR is sent to redigo's buffer and never flushed: the monitor shows its first event
  and ends with the read timeout, while `api/pubsub.mdx:108` says it "streams a live log of
  every Redis command" (`Ask`, `Receive`: a monitor's `asked` stays `buffered`).
* A subscription without a message for 5 s is ended by the server, while
  `api/pubsub.mdx:36` says "The server keeps the connection open" (`ReceiveFails`).
* The subscribe event is sent before Redis has handled SUBSCRIBE, while
  `api/pubsub.mdx:64` says it "Confirms that your subscription is active" (`Open`,
  `Feed`).
* A signal between `signal.Notify` and `ListenAndServe` is taken by a `Shutdown` that
  finds no listener; the server then runs with nobody to take another (`Shutdown`).
* A command recorded between `recorder.Close` and the end of the process is not in
  the file although it is executed (`CloseRecorder`).
* The rate window is fixed, while `guides/rate-limit-simulation.mdx:33` says
  "sliding": a second that straddles two windows has up to twice the limit, the
  bound `BurstBounded` states.
* From midnight to the first command `Snapshot` subtracts yesterday's requests.
* A request with a static token runs as the ACL user the connection was last
  authenticated as, while `concepts/authentication.mdx:129` calls it "a per-request
  credential" (`NoAuth`). A SELECT stays on the connection in the same way,
  for QStash's commands too.
* Transactions are not recorded (`RunMulti`), and two requests may be recorded in
  one order and executed in the other (`Record`, `Run`). A command that then found
  no connection is recorded too, and replayed (`RunFails` of `Tool`).
* `export` notes every key as a string without expiry, and null for what GET does not
  read, which `import` writes as the text `<nil>`; `cli/commands.mdx:111` says it
  "preserves each key's type, value, and TTL" (`ExportKey`, `Sprint`). `ImportData`
  writes a list, set or sorted set as one text (`Written`).
* The errors of the reads of a listing are ignored: when its connection dies the
  answer is a 200 with blank entries, or fewer messages (`ReadType`, `ReadRecord`). A
  key that SCAN returns twice is listed twice (`Scan`).
* `json.Marshal` replaces what is not UTF-8 in an error text, also under
  `Upstash-Encoding: base64`, which encodes results only (`EncodeOne`).
* `json.Marshal` replaces such bytes in the recorder's lines and in what `export` reads, too:
  `replay` and `import` write other values than the ones there were (`Line`, `Got`).
* In RESP2 format a list is a simple string such as `+[a b]` (`formatResp2`), and pipelines
  and transactions are answered in JSON (`respondResp2`), while
  `concepts/how-it-works.mdx:147` offers "the raw RESP2 wire format".
* A request for base64 and RESP2 at once is answered 400 after its commands have run
  (`Code`).
* A transaction that Redis aborts is answered 400, while `api/pipeline.mdx:107` says "HTTP
  500" (`RunMulti`).
* A command the ACL forbids is recorded, and `replay` runs it as the user of its own token
  (`RunFails` of `Tool`).
* A request body with `Upstash-Encoding: base64` is not decoded, while
  `concepts/how-it-works.mdx:131` says that values "must be base64-encoded strings".
* A command that fails inside EXEC leaves the others applied, while
  `api/pipeline.mdx:7` says "either all commands succeed or none take effect", `:116`
  "all-or-nothing" and `:117` "Any error aborts the whole transaction"; and a lost reply to EXEC is answered
  with an error although the transaction ran (`RunMulti`).

## The proofs

Each theorem holds for every value of the constants that the named ASSUMEs of its
module allow: any number of servers, messages, goroutines, requests, connections and
streams, any jobs and scripts, any limits, timeouts and bounds. Finite are, as they are
in the program, the keyspace that is browsed or dumped, without which SCAN could not end,
and the goroutines and command names whose counts are added up. `QStashContractProofs` has
theorems with a further hypothesis, which they state: that Redis answers no error, or, the
last three, that there are no faults at all.

| Module | Theorem | Statement |
| --- | --- | --- |
| `QStashProofs` | `Inductive` | `Spec => []IInv` |
| | `TypeCorrect`, `ClaimsAreExclusive`, `DeadLetteredOnce` | `TypeOK`, `ClaimExclusive`, `DlqOnce` |
| | `AckedIsFinal`, `DelaysAreKept` | `NoPostAfterAck`, `DelayKept`, action properties |
| `QStashContractProofs` | `CountsInductive` | `Spec => []CountInv`, if `"error" \notin Faults` |
| | `AttemptsAreBounded`, `OnlyExhaustedAreBuried` | `AttemptsBounded`, `BuriedExhausted`, under the same condition |
| | `ContractKept` | `Spec => ImplementsContract`, under the same condition |
| | `SteadyInductive` | `Spec => []SteadyInv`, if `Faults = {}` |
| | `OnlyExitsLose`, `ListingTellsTruth` | `Accounted`, `ListingAgrees`, if `Faults = {}` |
| `AdmissionProofs` | `AdmissionInductive` | `AdmissionSpec => []AInv` |
| | `CountersTyped`, `QuotaIsExact`, `NoDayOvercounted` | `CountersOK`, `QuotaExact`, `NoOvercount` |
| | `WindowInductive` | `AdmissionSpec => []WindowInv` |
| | `BurstsAreBounded` | `BurstBounded` |
| | `RejectedOnlyWhenFull` | `RejectedWhenFull`, an action property |
| | `TotalsInductive`, `TotalsDoAgree` | `AdmissionSpec => []TotalsInv`, `TotalsAgree` |
| `GatewayProofs` | `GatewayInductive` | `Spec => []GInv` |
| | `GatewayTyped`, `NeitherLeakedNorShared` | `TypeOK`, `PoolConsistent` |
| | `RunsAsItself`, `RepliesAreHonest` | `OwnUser`, `RepliesHonest` |
| | `RunsAreRecorded` | `ExecutedIsRecorded` |
| | `RepliesDecode` | for every reply and batch, decoding gives back what Redis said exactly if `Carried` or `CarriedMany` |
| | `AnswersAreDecoded` | `AnswersDecode` |
| `LifecycleProofs` | `DialInductive` | `Spec => []DialInv` |
| | `LifecycleTypeCorrect`, `DialIsPatient` | `TypeOK`, `DialPatience` |
| | `ExecutedWasRecorded` | `RecordedUntilClosed` |
| | `RegisterInductive`, `BackoffIsTheRegister` | `MCSpec => []RegisterInv`, `BackoffAgrees` |
| `StreamsProofs` | `StreamsInductive` | `Spec => []SInv` |
| | `StreamsTypeCorrect`, `ItemsConserved` | `TypeOK`, `Conserved` |
| `BrowseProofs` | `BrowseInductive` | `Spec => []BInv` |
| | `BrowseTypeCorrect` | `TypeOK` |
| | `ListingComplete`, `EntriesFaithful` | `Complete`, `Faithful` |
| `ToolProofs` | `ToolBase`, `ToolTypeCorrect` | `Spec => []BaseInv`, `TypeOK` |
| | `SessionsReplay` | `ReplayAgrees` |
| | `DumpsRoundTrip` | `RoundTrip` |

### QStash

Even `TypeOK` is not inductive alone: `Requeue` looks up `RetryWait[msg.retries]`,
and that `retries` is in range there is a matter of what `retry` decided two steps
before. `IInv` adds

* `WorkerOK`: what a worker has at each point of `deliver`, `retry`, `fail`;
* `EnteredFirst`: only a message whose ZADD ran is queued or held, so that the
  publisher of a message cannot queue it under a worker's hands;
* `ClaimExclusive` itself;
* `FinalOK`: an acknowledged message is queued nowhere, is in no dead letter and
  is held only by a worker about to record it; a buried one only by a worker about
  to set its TTL.

`DlqOnce` then follows because LPUSH is done by the one holder of a message that
is in no other place. There is one lemma for each group of parts (`TypeStep`,
`WorkerStep`, `ClaimStep`, `FinalStep`), one step per action.

How often a message is POSTed is decided by the counter in its record, which `retry`
writes with a SET whose error it ignores. `CountInv` says why that is enough as long
as Redis answers no error. The counter agrees with the POSTs whenever the message
can be claimed (`Fresh`); between a POST and the ZADD it may be behind, but a worker
whose SET failed has a dead connection, and redigo sends no ZADD over it: the message
is then in no queue, and its stale counter is never read. With an error reply the
connection lives on, which is the behaviour listed above.

`ContractKept` maps a message to its `Life`: new, waiting, claimed, delivered or
dead. `Places` says which of these a message is in by where it is queued and held,
and `ContractStep` goes through the actions of `QStash`: ZADD of a publisher is
`Publish`, ZREM that returned 1 is `Claim`, a POST is `Attempt`, ZADD of a worker is
`Retry`, LPUSH is `Bury`, and everything else leaves the contract's state alone, the
end of a process included. The guards of `Retry` and `Bury` are what `CountInv` is
for.

`DelayKept` is about scans that are out of date. `BatchDue` says of every id a scan has
returned that it was due if it has never been POSTed: a score that was passed stays
passed, and ids enter the queue with a new score only from a publisher, who is not done
with them before, or from a worker that reschedules them, which has POSTed them first
(`RetriedPosted`). A claim is of an id of such a scan. No fault matters to this.

`Accounted` and `ListingAgrees` count messages and compare the counts with the number of
ends of processes, so it is not enough that each step keeps each message right. `Steady`
says what record, queue and worker hold for one message as long as every round trip
succeeds. Each action of a publisher or a worker is about one message: it leaves the others
as they were (`About`, `AboutStep`), and adds nothing to the set of the lost (`Lost`) or to
that of the wrongly listed (`Misled`). Only `Exit` does, at most the one message its worker
holds (`ExitTakes`), and then `exits` grows by one too (`FewStep`, by the theorems about
cardinalities).

### Admission

Two counters stand behind the quota: the one the code keeps and how many calls have
passed. `QuotaCounted` says that the second is the first, cut at the limit, whatever
happens between the two critical sections of `Allow`. The daily count never exceeds
what was recorded for the day it is for, since a goroutine that turns the window back
also clears the count: `NoOvercount` is inductive with the types.

What a window admits is a sum over the ticks in it. The code keeps only when the window
began and a counter that goes on for the calls it rejects; `WindowInv` (`Fits`) says what
these two mean. The calls admitted since the window began are the counter, cut at the
limit. Those of any span of less than a second before it are at most the limit, since such
a span meets one window only. None was admitted a second after it began or later, since
that call would have begun another. A second anywhere is then such a span and a part of
the window (`Straddles`), which gives `BurstBounded`; and a call that is rejected finds the
counter beyond the limit in a window younger than a second, which gives `RejectedWhenFull`.
`WindowCheck` goes through the cases of the critical section: no limit, an expired window,
room, none.

`TotalsInv` adds up the counts by command. `Begin` counts a request in the total and puts
its goroutine among those under way, `Count` takes it off there and adds to its command.

The sums are folds of the community modules, which take elements off a set in an order
nobody knows. `Smaller` is induction over the subsets of a finite set, from the library's
theorem that strict inclusion is well founded there. With it `SumsExist` builds a
function that may take elements off in any order, and `TotalSums` shows that the fold agrees
with it. What the proofs use of a sum follows: that it splits (`TotalSplits`), grows by one
(`TotalGrows`) and does not change where its terms do not (`TotalSame`).

### Gateway

`GInv` has three parts beside the properties. `PoolInv`: a request holds a connection
exactly between `RedisPool.Get` and the deferred `Close`, that connection is busy, and
no two hold the same; `PoolConsistent` is this as a count of holders. `ProgressInv`:
a request that is under way has one reply per command before `pos`, and no command
from there on has run; this is why a command that runs now has not run before.
`UserInv`: past AUTH the connection of a minted token is its user's, and nobody else
can change that while it is held, by `PoolInv`. There is one lemma for each action.

What a transaction runs is in `Transaction`. A script that leaves its block alone is queued
whole when its EXEC comes, so that nothing has taken effect before, and then all of it does
or, if Redis complained, none (`PlainBlock`, `AllOrNothing`). With that `RunMulti` keeps
`RepliesHonest`, which is why `Plain` is among its conditions. That no command runs twice
holds for every script.

`RecInv` is about the recorder's file: it has a request's commands in ascending order, none
beyond `pos`, that at `pos` from `Record` on, and all that ran. That one ran at `pos` follows
from `ProgressInv`; that its line is unique, from the order.

`RepliesDecode` is about replies of any depth, batches of any length and all four formats, and
needs no induction: what the layers do is done at each place alone. `NodeDecodes` goes through
the layers for one node (`Wire`, `Decode`): a text that base64 was applied to is neither `OK`
nor replaced by JSON, and one that it was not comes back exactly if it is UTF-8.
`ResultDecodes` puts the nodes of a reply together, `OneDecodes` and `ManyDecode` one result
and a list of them. `Resp2Decodes` reads the one node of a scalar, and a list as something
else; a RESP2 parser makes nothing of JSON, nor of the error for base64 (`NotDecoded`).
`AnswersAreDecoded` then follows, since a request is answered in the format of its job.
`ReplyAssumption` is what Redis replies: only
lists have elements.

### Lifecycle

`DialPatience` is arithmetic more than protocol. `DialSleepAt` evaluates the backoff in 64
bits for every attempt: `2^i` seconds up to 16 s, then 30 s up to the attempt at which the
product wraps, and at most 30 s from there on. It rests on `WrapKeeps`: the odd factor
1953125 fits in the bits that are left before that. The rest is that no step but `DialAgain`
leads back to dialling.

`BackoffAgrees` says that `Backoff` is the processor's arithmetic. `RegisterInv` is what the
limbs of `MCLifecycle` hold after any number of shifts: the limbs of `10^9 * 2^attempt`, which
TLC could not compute. `ShiftDoubles` follows the carries of a shift, `ProductDoubles` says
that the next product is the double of this one, but for the multiple of 2^64 that the 55th
shift cuts off. Up to 33 shifts the product is below 2^63 and the limbs are compared
with the caps as the numbers they stand for (`BelowCompares`). From 34 to 54 the lower 43
bits are 0 (`UpperLimbs`), and the upper 21 hold `2^(attempt-34)` times what `55-attempt`
bits leave of 1953125 (`FactorOfRemainder`). The powers of two come from a table,
since there is no induction over the exponent.

`RecorderInv` follows the file and the handlers: `recorder` is open from `NewRecorder` until
`main` closes it, no handler exists before it is, and a handler that is past `Record` is
in the file unless it was closed by then.

### Streams

`Conserved` says that what the client got, what the handler holds and what the connection
has, one after the other, carry each item since the subscription once and in order: the
replies that are no items are skipped. `FeedInv` says why: Redis feeds a connection only
when the SUBSCRIBE was flushed, and before that nothing was read or copied. Each step either
takes a reply from the front of one sequence to the end of the one before it (`Taken`,
`Copy`), adds an item at the end (`CarriesMore`), or drops a reply that is none
(`CarriesWithout`); the other streams stay as they are (`Elsewhere`).

### Browse

`ListingInv` is what the SCAN loop leaves: unless it was cut, the collected keys include all
that were there throughout; `ProgressInv` that those behind the position are in the answer.
`EntryInv` follows an entry through its round trips: what the key holds now is among what it
has held since the entry began, and so, if that is one value only, type and expiry that were
read are that value's. No value of another type than `string` is ever under an id of the queue
(`RecordsInv`), which is why a record is always whole.

### Tool

`ReplayAgrees` compares the keyspace the clients' commands led to with the one their lines
lead to, although two clients' lines and commands may be in different orders. A command
changes its own key only, and that as a function of what the key holds (`ApplyLocal`,
`ApplyAgrees`), so commands for different keys commute, and `clean` excludes overlaps on one
key. What is in the file is a command whose text has gone through JSON, and that does to what
JSON leaves of the key what the command did to the key (`PassedApply`), since what JSON has
replaced once it leaves alone: so the second server is compared with what is left of the
first (`PassedAll`). `PlayInv` says that there is a sequence `h`, the keyspaces the lines of the session lead
to one after the other (`Played`); as long as nothing is replayed, the last of them is the
source but for the keys of commands that are recorded and have not run (`Ahead`); and
during a replay the second server has the one before the lines still to come (`Replayed`,
`Reached`). Stating that there is such a sequence, instead of computing it, spares the proof
an induction.

`RoundTrip` is about values that go through JSON, a file and a list of requests while their
keys may change. `Sent` is what JSON leaves of a key. `fresh` are the keys that have not
changed since the export began, up to the answer. `FileInv` says what the items of a dump have
to do with such a key, `ListInv` the same of the requests an import or a restore has yet to
send, `TargetInv` what the second server has of the keys that were written: a key that was not
is as it was, a string of `import` has its text, and one of `ImportData` is whole, unless it is
a hash that was merged into another or its EXPIRE is the next to be sent (`Timeless`).

### Only model-checked

* Liveness: `AcceptedSettles`, `AllAnswered`, `StartSettles`, `SignalEnds`, `Released`.
  They need fairness and ENABLED, which the provers do not treat.

## Not modelled

* The tool's `use`, `status` and `generate-token` (one file or one text), and `ping`.
* The HTML of the dashboard, CORS headers, start-up warnings, listen address, flags
  and environment: text and configuration without state. What the flags set are the
  CONSTANTS of the modules.
* The parsing of the publish headers: its results are the requests of `QStash`. A
  delay so long or so negative that its score is below zero is `NeverDue`, and such a
  message waits for ever. The arithmetic of `parseDelay` that leads there is not.
* How long things take beyond the timeouts named: a destination that hangs holds the
  delivery goroutine for 10 s, while the model's POST ends at once, and a dial of the pool
  takes any time that is finite.
* In the listing of messages, a GET that Redis refuses on a live connection
  (`loadMessage`); the ones that fail with the connection are.
* The database a SELECT leaves on a pooled connection, and QStash on the pool: the
  delivery goroutine's commands go wherever the last request left the connection,
  with which nothing about the queue could be stated.
* MaxIdle and TestOnBorrow of the pool: a slot that is closed is all either leads to.

## Plan

1. Done: `Backoff`, `QStash` with its contract, `RateLimiter` and `Metrics` composed
   in `Admission`, `Gateway`, `Response`, `Lifecycle`, `Streams`, `Browse`, `Tool`.
2. Done: the inductive invariants of `QStash`, `Admission` and `Gateway`, the counts
   of `QStash`, and that it implements `DeliveryContract`.
3. Done: `Browse`, `Lifecycle`, `Streams`; `DelayKept`, `Accounted` and `ListingAgrees` of
   `QStash`; `ExecutedIsRecorded` of `Gateway`.
4. Done: `ReplayAgrees` and `RoundTrip` of `Tool`; the sums of `Admission`.
5. Done: `AnswersDecode`, with `Response` written without recursion; `BackoffAgrees`, with the
   register's value as an invariant of the dials. Liveness stays with TLC.
6. Done: `Transaction`, for scripts that end their own block; what each format carries; what
   JSON replaces on the way through dumps and sessions.

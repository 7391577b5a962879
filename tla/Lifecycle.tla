----------------------------- MODULE Lifecycle -----------------------------
(***************************************************************************)
(* The life of the server process: main (main.go) dials Redis with         *)
(* retries, pings it, opens the recorder and calls Serve (rest.go), which  *)
(* listens while a goroutine waits for SIGTERM; Serve returns when the     *)
(* listener is closed, main runs its deferred calls and the process ends,  *)
(* with requests still in their handlers.                                  *)
(*                                                                         *)
(* fasthttp v1.51 is external: Shutdown closes the listeners, if there are *)
(* any yet, and waits until no connection is open; ListenAndServe returns  *)
(* as soon as its listener is closed.                                      *)
(***************************************************************************)
EXTENDS Backoff, FiniteSets

CONSTANTS
  Request,     \* requests, each on its own HTTP connection
  maxRetries,  \* --max-retries (with --retry-delay 1000, and --record set)
  MaxFlips     \* bound: times Redis goes down or comes up

ASSUME LifecycleAssumption == maxRetries \in Nat /\ MaxFlips \in Nat

VARIABLES
  main,      \* where main is; an Ended process has lost all its goroutines
  attempt,   \* dialWithRetry's i
  slept,     \* seconds it has slept
  watcher,   \* the signal goroutine of Serve
  pending,   \* a signal nobody has taken is in sigCh
  listener,  \* the HTTP listener
  recorder,  \* the recorder's file
  pool,      \* the Redis pool
  req,       \* where a request is in its handler
  recorded,  \* requests whose command is in the recorder's file
  executed,  \* history: requests whose command Redis ran
  redisUp,   \* Redis accepts connections
  flips      \* history

startup == <<attempt, slept>>
serving == <<watcher, pending, listener, recorder, pool>>
handled == <<req, recorded, executed>>
redis   == <<redisUp, flips>>
vars    == <<main, startup, serving, handled, redis>>

Ended    == {"returned", "fatal", "killed"}
Handling == {"record", "borrow", "run"}

TypeOK ==
  /\ main \in {"dial", "ping", "open", "listen", "serve", "closeRecorder",
               "closePool"} \cup Ended
  /\ attempt \in 0..maxRetries
  /\ slept \in Nat
  /\ watcher \in {"none", "born", "waiting", "draining", "done"}
  /\ pending \in BOOLEAN
  /\ listener \in {"none", "open", "closed"}
  /\ recorder \in {"none", "open", "closed"}
  /\ pool \in {"open", "closed"}
  /\ req \in [Request -> {"none", "answered", "refused", "cut"} \cup Handling]
  /\ recorded \subseteq Request /\ executed \subseteq Request
  /\ redisUp \in BOOLEAN /\ flips \in 0..MaxFlips

-----------------------------------------------------------------------------
(* Regressions: helpers as a change to the code could leave them.          *)

ExhaustedLate == attempt > maxRetries
StoppedNever == listener
OpenedAndUp == recorder = "open" /\ redisUp
OpenRetried(ok) ==
  /\ main = "open"
  /\ main' = IF ok THEN "listen" ELSE "dial"
  /\ recorder' = IF ok THEN "open" ELSE recorder
  /\ watcher' = IF ok THEN "born" ELSE watcher
  /\ UNCHANGED <<startup, pending, listener, pool, handled, redis>>

-----------------------------------------------------------------------------
\* The process ends at m: handlers are cut off wherever they are.
EndAt(m) ==
  /\ main' = m
  /\ req' = [r \in Request |-> IF req[r] \in Handling THEN "cut" ELSE req[r]]

\* log.Fatalf and Logger.Fatal exit without main's deferred calls.
Fatal == EndAt("fatal") /\ UNCHANGED <<startup, serving, recorded, executed, redis>>

-----------------------------------------------------------------------------
(* dialWithRetry, testRedisConnection, NewRecorder, Serve                  *)

\* The loop condition is false.
Exhausted == attempt >= maxRetries

Dial ==
  /\ main = "dial" /\ ~Exhausted /\ redisUp
  /\ main' = "ping"
  /\ UNCHANGED <<startup, serving, handled, redis>>

DialAgain ==
  /\ main = "dial" /\ ~Exhausted /\ ~redisUp
  /\ attempt' = attempt + 1
  /\ slept' = slept + DialSleep(attempt)
  /\ UNCHANGED <<main, serving, handled, redis>>

DialGivesUp == main = "dial" /\ Exhausted /\ Fatal

Ping(ok) ==
  /\ main = "ping" /\ (ok => redisUp)
  /\ IF ok THEN /\ main' = "open" /\ attempt' = 0 /\ slept' = 0
                /\ UNCHANGED <<serving, handled, redis>>
     ELSE ~redisUp /\ Fatal

\* NewRecorder may fail; Serve starts the goroutine that waits for the signal.
Open(ok) ==
  /\ main = "open"
  /\ IF ok THEN /\ main' = "listen"
                /\ recorder' = "open" /\ watcher' = "born"
                /\ UNCHANGED <<startup, pending, listener, pool, handled, redis>>
     ELSE Fatal

\* ListenAndServe; the address may be in use.
Listen(ok) ==
  /\ main = "listen"
  /\ IF ok THEN /\ main' = "serve" /\ listener' = "open"
                /\ UNCHANGED <<startup, watcher, pending, recorder, pool, handled, redis>>
     ELSE Fatal

-----------------------------------------------------------------------------
(* The signal goroutine, and what main does when Serve returns             *)

\* signal.Notify
Notify ==
  /\ watcher = "born" /\ main \notin Ended
  /\ watcher' = "waiting"
  /\ UNCHANGED <<main, startup, pending, listener, recorder, pool, handled, redis>>

\* SIGINT or SIGTERM: the default action until Notify, then into the channel,
\* which holds one.
Signal ==
  /\ main \notin Ended /\ ~pending
  /\ IF watcher \in {"none", "born"}
     THEN EndAt("killed") /\ UNCHANGED pending
     ELSE pending' = TRUE /\ UNCHANGED <<main, req>>
  /\ UNCHANGED <<startup, watcher, listener, recorder, pool, recorded, executed, redis>>

Stopped == IF listener = "open" THEN "closed" ELSE listener

\* <-sigCh, and the first half of Shutdown.
Shutdown ==
  /\ watcher = "waiting" /\ pending /\ main \notin Ended
  /\ pending' = FALSE
  /\ listener' = Stopped
  /\ watcher' = IF listener = "open" THEN "draining" ELSE "done"
  /\ UNCHANGED <<main, startup, recorder, pool, handled, redis>>

\* Shutdown returns: no connection is open any more.
Drained ==
  /\ watcher = "draining" /\ main \notin Ended
  /\ \A r \in Request : req[r] \notin Handling
  /\ watcher' = "done"
  /\ UNCHANGED <<main, startup, pending, listener, recorder, pool, handled, redis>>

\* ListenAndServe returns nil, and Serve with it; QStash.Stop comes first of the
\* deferred calls (see QStash.tla).
ServeReturns ==
  /\ main = "serve" /\ listener = "closed"
  /\ main' = "closeRecorder"
  /\ UNCHANGED <<startup, serving, handled, redis>>

CloseRecorder ==
  /\ main = "closeRecorder"
  /\ recorder' = "closed"
  /\ main' = "closePool"
  /\ UNCHANGED <<startup, watcher, pending, listener, pool, handled, redis>>

\* pool.Close, the last deferred call that is not a log flush, and main returns.
ClosePool ==
  /\ main = "closePool" /\ pool = "open"
  /\ pool' = "closed"
  /\ UNCHANGED <<main, startup, watcher, pending, listener, recorder, handled, redis>>

Return ==
  /\ main = "closePool" /\ pool = "closed"
  /\ EndAt("returned")
  /\ UNCHANGED <<startup, serving, recorded, executed, redis>>

-----------------------------------------------------------------------------
(* A request: requestHandler and executeCommand                            *)

Arrive(r) ==
  /\ main = "serve" /\ listener = "open" /\ req[r] = "none"
  /\ req' = [req EXCEPT ![r] = "record"]
  /\ UNCHANGED <<main, startup, serving, recorded, executed, redis>>

\* The recorder can be written to.
Opened == recorder = "open"

\* Recorder.Record ignores the error of a write to a closed file.
Record(r) ==
  /\ main \notin Ended /\ req[r] = "record"
  /\ recorded' = IF Opened THEN recorded \cup {r} ELSE recorded
  /\ req' = [req EXCEPT ![r] = "borrow"]
  /\ UNCHANGED <<main, startup, serving, executed, redis>>

\* RedisPool.Get: an idle or a new connection; none from a closed pool, or when
\* the dial gives up.  Borrowed connections outlive pool.Close.
Borrow(r, ok) ==
  /\ main \notin Ended /\ req[r] = "borrow"
  /\ IF ok THEN pool = "open" ELSE pool = "closed" \/ ~redisUp
  /\ req' = [req EXCEPT ![r] = IF ok THEN "run" ELSE "refused"]
  /\ UNCHANGED <<main, startup, serving, recorded, executed, redis>>

\* conn.Do, and the answer.
Run(r) ==
  /\ main \notin Ended /\ req[r] = "run"
  /\ executed' = IF redisUp THEN executed \cup {r} ELSE executed
  /\ req' = [req EXCEPT ![r] = IF redisUp THEN "answered" ELSE "refused"]
  /\ UNCHANGED <<main, startup, serving, recorded, redis>>

RedisFlips ==
  /\ flips < MaxFlips
  /\ redisUp' = ~redisUp /\ flips' = flips + 1
  /\ UNCHANGED <<main, startup, serving, handled>>

-----------------------------------------------------------------------------
Init ==
  /\ main = "dial" /\ attempt = 0 /\ slept = 0
  /\ watcher = "none" /\ pending = FALSE
  /\ listener = "none" /\ recorder = "none" /\ pool = "open"
  /\ req = [r \in Request |-> "none"]
  /\ recorded = {} /\ executed = {}
  /\ redisUp \in BOOLEAN /\ flips = 0

Main ==
  \/ Dial \/ DialAgain \/ DialGivesUp
  \/ \E ok \in BOOLEAN : Ping(ok) \/ Open(ok) \/ Listen(ok)
  \/ ServeReturns \/ CloseRecorder \/ ClosePool \/ Return

Watcher == Notify \/ Shutdown \/ Drained

Handler(r) == Record(r) \/ Run(r) \/ \E ok \in BOOLEAN : Borrow(r, ok)

Next ==
  \/ Main \/ Watcher \/ Signal \/ RedisFlips
  \/ \E r \in Request : Arrive(r) \/ Handler(r)

Spec == Init /\ [][Next]_vars

\* The goroutines run on: dials, sleeps and reads end by their timeouts.
\* Nothing sends a signal, a request or Redis up or down.
Fairness ==
  WF_vars(Main) /\ WF_vars(Watcher) /\ \A r \in Request : WF_vars(Handler(r))

FairSpec == Spec /\ Fairness

-----------------------------------------------------------------------------
(* Properties                                                              *)

\* Whatever Redis does meanwhile, startup ends: the server listens, or the
\* process is gone (dialWithRetry and main, main.go:380-403, 199-204).
StartSettles == main = "dial" ~> main = "serve" \/ main \in Ended

\* A signal that finds the listener open ends the process, however long the
\* requests under way take: main never waits for them (rest.go:25-34).
SignalEnds ==
  watcher = "waiting" /\ pending /\ listener = "open" ~> main \in Ended

\* dialWithRetry waits at least as long as its backoff promises: n failures take
\* 2^n-1 seconds, and 30 each from the sixth on, until the 64-bit delay wraps and
\* is no delay at all (main.go:395-399).
DialPatience ==
  main = "dial" =>
    /\ attempt <= 5 => slept = 2^attempt - 1
    /\ attempt \in 6..34 => slept = 31 + 30 * (attempt - 5)
    /\ slept <= 31 + 30 * attempt

\* What Redis ran is in the recorder's file until main closes it, which it does
\* under the handlers that are still running (main.go:241, commands.go:30-52).
RecordedUntilClosed == recorder # "closed" => executed \subseteq recorded

-----------------------------------------------------------------------------
(* What the documentation says and the code does not keep                  *)

\* rest.go:28 "draining connections", readme.md:26 "graceful shutdown": a request
\* that was accepted is answered before main returns (main.go:263-265).
DrainsFirst == main = "returned" => \A r \in Request : req[r] # "cut"
=============================================================================

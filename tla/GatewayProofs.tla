---------------------------- MODULE GatewayProofs ----------------------------
(***************************************************************************)
(* Theorems about Gateway, for any requests, jobs, connections, users and  *)
(* outcomes of the round trips: connections are neither leaked nor shared, *)
(* a minted token's commands run as its own user, the replies to a plain   *)
(* request say what Redis did, and clients decode what a format can carry. *)
(***************************************************************************)
EXTENDS Gateway, FiniteSetTheorems, SequenceTheorems, TLAPS

Holding(r) == pc[r] \in {"auth", "run"}
Started(r) == pc[r] \notin {"new", "done"}

\* A request holds a connection exactly in the steps between Get and Close, a
\* busy slot is somebody's, and nobody else's.
PoolInv ==
  /\ \A r \in Request : holds[r] # Nil <=> Holding(r)
  /\ \A r \in Request : holds[r] # Nil => link[holds[r]] = "busy"
  /\ \A r, q \in Request : holds[r] # Nil /\ holds[q] = holds[r] => q = r
  /\ \A c \in Conn : link[c] = "busy" => \E r \in Request : holds[r] = c

\* The replies are those of the commands before pos, and nothing from there on
\* has run.
ProgressInv ==
  /\ \A r \in Request : Started(r) =>
       pos[r] \in DOMAIN Script(r) /\ Len(replies[r]) = pos[r] - 1 /\ (Multi(r) => pos[r] = 1)
  /\ \A r \in Request : pc[r] = "new" => pos[r] = 0 /\ replies[r] = <<>>
  /\ \A r \in Request : pc[r] # "done" =>
       \A i \in DOMAIN Script(r) : i >= pos[r] => executed[r][i] = 0

\* Past AUTH, the connection of a minted token is its user's.
UserInv ==
  \A r \in Request : pc[r] = "run" /\ job[r].token \in User => user[holds[r]] = job[r].token

\* What RepliesHonest says of one request.
HonestAt(r) ==
  /\ \A i \in DOMAIN Script(r) : executed[r][i] <= 1
  /\ Plain(r) => \A i \in DOMAIN Script(r) \cap DOMAIN replies[r] : Script(r)[i] # "resttoken" =>
       /\ replies[r][i] = "ok" => executed[r][i] = 1
       /\ replies[r][i] = "error" /\ Script(r)[i] # "script" => executed[r][i] = 0
  /\ Plain(r) /\ Multi(r) /\ pc[r] = "done" /\ status[r] # 200 /\ replies[r] # <<"unknown">> =>
       \A i \in DOMAIN Script(r) : executed[r][i] = 0

GInv == TypeOK /\ PoolInv /\ ProgressInv /\ RepliesHonest /\ UserInv /\ OwnUser

LEMMA JobFacts ==
  ASSUME TypeOK, NEW r \in Request
  PROVE  /\ job[r] \in Job /\ job[r].user \in User /\ job[r].user # Default
         /\ job[r].kind \in {"single", "pipeline", "multi"}
         /\ Script(r) \in Seq(Commands)
         /\ Default \notin User
  BY JobAssumption, NamesAssumption DEF TypeOK, Script

\* What Answer does, whatever the answer.
LEMMA AnswerStep ==
  ASSUME TypeOK, ProgressInv, NEW r \in Request, Started(r),
         NEW results \in Seq({"ok", "error", "unknown"}),
         NEW code \in {0, 200, 400, 401, 429, 500, 503},
         Answer(r, results, code)
  PROVE  /\ pos' \in [Request -> Nat]
         /\ pc' \in [Request -> {"new", "check", "record", "borrow", "auth", "run", "done"}]
         /\ replies' \in [Request -> Seq({"ok", "error", "unknown"})]
         /\ status' \in [Request -> {0, 200, 400, 401, 429, 500, 503}]
         /\ pc'[r] \in {"check", "done"}
         /\ \A q \in Request \ {r} :
              pc'[q] = pc[q] /\ pos'[q] = pos[q] /\ replies'[q] = replies[q]
         /\ replies'[r] = replies[r] \o results
         /\ \A q \in Request \ {r} : status'[q] = status[q]
         /\ Multi(r) /\ Plain(r) => status'[r] = code
         /\ pc'[r] = "check" =>
              pos'[r] = pos[r] + 1 /\ pos'[r] \in DOMAIN Script(r) /\ ~Multi(r)
<1> USE DEF TypeOK, Started
<1>1. Script(r) \in Seq(Commands) /\ pos[r] \in DOMAIN Script(r)
  BY JobFacts DEF ProgressInv
<1>2. replies[r] \o results \in Seq({"ok", "error", "unknown"})
  OBVIOUS
<1>3. /\ replies' \in [Request -> Seq({"ok", "error", "unknown"})]
      /\ replies'[r] = replies[r] \o results
      /\ \A q \in Request \ {r} : replies'[q] = replies[q]
  <2>1. replies' = [replies EXCEPT ![r] = replies[r] \o results]
    <3> HIDE DEF TypeOK
    <3> QED
      BY DEF Answer
  <2> HIDE DEF TypeOK
  <2>2. replies \in [Request -> Seq({"ok", "error", "unknown"})]
    BY DEF TypeOK
  <2>3. DOMAIN replies = Request
    BY <2>2
  <2>4. /\ replies'[r] = replies[r] \o results
        /\ \A q \in Request \ {r} : replies'[q] = replies[q]
    BY <2>1, <2>3
  <2> QED
    BY <1>2, <2>1, <2>2, <2>4
<1>4. CASE job[r].kind = "pipeline" /\ pos[r] < Len(Script(r))
  <2>1. /\ pos' = [pos EXCEPT ![r] = @ + 1] /\ pc' = [pc EXCEPT ![r] = "check"]
        /\ UNCHANGED status
    BY <1>4 DEF Answer
  <2>2. ~Multi(r) /\ pos[r] + 1 \in DOMAIN Script(r)
    BY <1>1, <1>4 DEF Multi
  <2> QED
    BY <1>3, <2>1, <2>2
<1>5. CASE ~(job[r].kind = "pipeline" /\ pos[r] < Len(Script(r)))
  <2>1. PICK c : c = Code(r, IF job[r].kind = "pipeline" THEN 200 ELSE code)
    OBVIOUS
  <2>2. /\ c \in {0, 200, 400, 401, 429, 500, 503}
        /\ Multi(r) /\ Plain(r) => c = code
    BY <2>1 DEF Code, Multi, Plain
  <2>3. pc' = [pc EXCEPT ![r] = "done"] /\ status' = [status EXCEPT ![r] = c] /\ UNCHANGED pos
    BY <1>5, <2>1 DEF Answer
  <2> QED
    BY <1>3, <2>2, <2>3
<1> HIDE DEF TypeOK, Started
<1> QED
  BY <1>4, <1>5

\* Releasing the connection keeps the pool's part of the invariant.
LEMMA ReleaseStep ==
  ASSUME TypeOK, PoolInv, NEW r \in Request, Holding(r), NEW alive \in BOOLEAN,
         Release(r, alive), pc'[r] \in {"check", "done"},
         \A q \in Request \ {r} : pc'[q] = pc[q]
  PROVE  /\ PoolInv'
         /\ holds' \in [Request -> Conn \cup {Nil}]
         /\ link' \in [Conn -> {"closed", "idle", "busy"}]
         /\ \A q \in Request \ {r} : holds'[q] = holds[q]
<1> USE NamesAssumption DEF TypeOK, PoolInv, Holding
<1>1. holds[r] \in Conn
  OBVIOUS
<1>2. /\ holds' = [holds EXCEPT ![r] = Nil]
      /\ link' = [link EXCEPT ![holds[r]] = IF alive THEN "idle" ELSE "closed"]
  BY DEF Release
<1>3. \A q \in Request \ {r} : holds'[q] = holds[q] /\ holds[q] # holds[r]
  BY <1>1, <1>2
<1>4. holds'[r] = Nil
  BY <1>2
<1>5. \A c \in Conn \ {holds[r]} : link'[c] = link[c]
  BY <1>1, <1>2
<1>6. link'[holds[r]] # "busy"
  BY <1>1, <1>2
<1> QED
  BY <1>1, <1>2, <1>3, <1>4, <1>5, <1>6

LEMMA Honest ==
  /\ RepliesHonest <=> \A r \in Request : HonestAt(r)
  /\ RepliesHonest' <=> \A r \in Request : HonestAt(r)'
<1>1. RepliesHonest <=> \A r \in Request : HonestAt(r)
  BY DEF RepliesHonest, HonestAt
<1>2. RepliesHonest' <=> \A r \in Request : HonestAt(r)'
  BY DEF RepliesHonest, HonestAt
<1> QED
  BY <1>1, <1>2

\* A request that is not answered in a step stays honest.
LEMMA StaysHonest ==
  ASSUME NEW r \in Request, HonestAt(r), UNCHANGED job,
         executed'[r] = executed[r], replies'[r] = replies[r],
         pc'[r] # "done" \/ (pc'[r] = pc[r] /\ status'[r] = status[r])
  PROVE  HonestAt(r)'
BY DEF HonestAt, Plain, Multi, Script

LEMMA InitGInv == Init => GInv
<1> SUFFICES ASSUME Init PROVE GInv
  OBVIOUS
<1>1. TypeOK
  BY NamesAssumption DEF Init, TypeOK
<1>2. PoolInv /\ ProgressInv /\ RepliesHonest /\ UserInv /\ OwnUser
  BY <1>1, JobFacts, NamesAssumption DEF Init, PoolInv, Holding, ProgressInv, Started, RepliesHonest, UserInv,
         OwnUser, Script, Plain
<1> QED
  BY <1>1, <1>2 DEF GInv

\* A step in which no command runs and nobody answers: the request goes on to
\* a later stage of the same command, and the connections are as they were.
LEMMA GoOn ==
  ASSUME GInv, NEW r \in Request, Started(r),
         NEW stage \in {"record", "borrow"}, pc[r] \notin {"auth", "run"},
         pc' = [pc EXCEPT ![r] = stage],
         UNCHANGED <<job, pos, replies, status, ran, conns, holds>>
  PROVE  PoolInv' /\ ProgressInv' /\ RepliesHonest' /\ UserInv' /\ OwnUser'
<1> USE DEF GInv, TypeOK, ran, conns, Started
<1>1. PoolInv'
  BY DEF PoolInv, Holding
<1>2. ProgressInv'
  BY DEF ProgressInv, Script, Multi
<1>3. UserInv'
  BY DEF UserInv
<1>5. OwnUser'
  BY DEF OwnUser, Multi, Script
<1>4. RepliesHonest'
  <2>1. \A q \in Request : pc'[q] # "done" \/ pc'[q] = pc[q]
    OBVIOUS
  <2>2. \A q \in Request : HonestAt(q)
    BY Honest
  <2> QED
    BY <2>1, <2>2, StaysHonest, Honest
<1> QED
  BY <1>1, <1>2, <1>3, <1>4, <1>5

\* The elements of two sequences in a row, the first one ending before p.
Joins(a, b, c, p) ==
  /\ Len(c) = p - 1 + Len(b)
  /\ \A i \in DOMAIN a : c[i] = a[i]
  /\ \A i \in DOMAIN c \ DOMAIN a : i - p + 1 \in DOMAIN b /\ c[i] = b[i - p + 1]

LEMMA Concatenation ==
  ASSUME NEW S, NEW a \in Seq(S), NEW b \in Seq(S), NEW c, c = a \o b,
         NEW p \in Nat, Len(a) = p - 1
  PROVE  Joins(a, b, c, p)
<1>1. DOMAIN a = 1..(p - 1) /\ DOMAIN b = 1..Len(b) /\ Len(b) \in Nat
  OBVIOUS
<1>2. Len(c) = p - 1 + Len(b) /\ DOMAIN c = 1..(p - 1 + Len(b))
  <2>1. c \in Seq(S) /\ Len(c) = Len(a) + Len(b)
    BY ConcatProperties, Zenon
  <2>2. DOMAIN c = 1..Len(c)
    BY <2>1
  <2> QED
    BY <2>1, <2>2, Zenon
<1>3. \A i \in 1..(p - 1 + Len(b)) :
        c[i] = IF i <= p - 1 THEN a[i] ELSE b[i - (p - 1)]
  <2>1. \A i \in 1..(Len(a) + Len(b)) :
          c[i] = IF i <= Len(a) THEN a[i] ELSE b[i - Len(a)]
    BY ConcatProperties, Zenon
  <2> QED
    BY <2>1, Zenon
<1>4. \A i \in DOMAIN a : c[i] = a[i]
  BY <1>1, <1>3
<1>5. ASSUME NEW i \in DOMAIN c \ DOMAIN a
      PROVE  i - p + 1 \in DOMAIN b /\ c[i] = b[i - p + 1]
  <2>1. i \in 1..(p - 1 + Len(b)) /\ ~(i <= p - 1) /\ i - (p - 1) = i - p + 1
    BY <1>1, <1>2, <1>5
  <2> QED
    BY <1>1, <1>3, <2>1
<1> QED
  BY <1>2, <1>4, <1>5 DEF Joins

LEMMA RepliesJoin ==
  ASSUME GInv, NEW r \in Request, Started(r), NEW results \in Seq({"ok", "error", "unknown"}),
         NEW code \in {0, 200, 400, 401, 429, 500, 503}, Answer(r, results, code)
  PROVE  Joins(replies[r], results, replies'[r], pos[r])
<1>1. /\ Len(replies[r]) = pos[r] - 1 /\ pos[r] \in Nat
      /\ replies[r] \in Seq({"ok", "error", "unknown"})
  BY DEF GInv, TypeOK, ProgressInv
<1>4. replies'[r] = replies[r] \o results
  BY AnswerStep DEF GInv
<1>2. PICK S : S = {"ok", "error", "unknown"}
  OBVIOUS
<1>3. PICK a, b, c, p : a = replies[r] /\ b = results /\ c = replies'[r] /\ p = pos[r]
  OBVIOUS
<1>5. a \in Seq(S) /\ b \in Seq(S) /\ c = a \o b /\ p \in Nat /\ Len(a) = p - 1
  BY <1>1, <1>2, <1>3, <1>4
<1>6. Joins(a, b, c, p)
  BY <1>5, Concatenation
<1> QED
  BY <1>3, <1>6

\* An answer that says what ran keeps the replies honest.
LEMMA AnswerHonest ==
  ASSUME GInv, NEW r \in Request, Started(r), UNCHANGED job,
         NEW results \in Seq({"ok", "error", "unknown"}),
         NEW code \in {0, 200, 400, 401, 429, 500, 503},
         Answer(r, results, code),
         pc'[r] = "check" => Len(results) = 1,
         \A q \in Request \ {r} : executed'[q] = executed[q],
         \A i \in DOMAIN Script(r) :
           /\ i < pos[r] \/ (pc'[r] = "check" /\ i > pos[r]) => executed'[r][i] = executed[r][i]
           /\ i >= pos[r] => executed'[r][i] \in {0, 1},
         Plain(r) => \A n \in DOMAIN results :
           pos[r] - 1 + n \in DOMAIN Script(r) /\ Script(r)[pos[r] - 1 + n] # "resttoken" =>
             /\ results[n] = "ok" => executed'[r][pos[r] - 1 + n] = 1
             /\ results[n] = "error" /\ Script(r)[pos[r] - 1 + n] # "script" =>
                  executed'[r][pos[r] - 1 + n] = 0,
         Plain(r) /\ Multi(r) /\ code # 200 /\ results # <<"unknown">> =>
           \A i \in DOMAIN Script(r) : executed'[r][i] = 0
  PROVE  ProgressInv' /\ RepliesHonest'
<1> USE DEF GInv
<1>1. /\ pc'[r] \in {"check", "done"}
      /\ \A q \in Request \ {r} :
           pc'[q] = pc[q] /\ pos'[q] = pos[q] /\ replies'[q] = replies[q]
      /\ replies'[r] = replies[r] \o results
      /\ pc'[r] = "check" =>
           pos'[r] = pos[r] + 1 /\ pos'[r] \in DOMAIN Script(r) /\ ~Multi(r)
  BY AnswerStep
<1>2. \A q \in Request : Script(q)' = Script(q) /\ (Multi(q)' <=> Multi(q))
  BY DEF Script, Multi
<1>3. /\ pos[r] \in DOMAIN Script(r) /\ Len(replies[r]) = pos[r] - 1 /\ pos[r] \in Nat
      /\ replies[r] \in Seq({"ok", "error", "unknown"}) /\ Script(r) \in Seq(Commands)
  BY JobFacts DEF TypeOK, ProgressInv
<1>4. /\ Len(replies'[r]) = pos[r] - 1 + Len(results)
      /\ \A i \in DOMAIN replies[r] : replies'[r][i] = replies[r][i]
      /\ \A i \in DOMAIN replies'[r] \ DOMAIN replies[r] :
           i - pos[r] + 1 \in DOMAIN results /\ replies'[r][i] = results[i - pos[r] + 1]
  <2>1. Joins(replies[r], results, replies'[r], pos[r])
    <3> HIDE DEF GInv
    <3> QED
      BY RepliesJoin
  <2> QED
    BY <2>1 DEF Joins
<1>6. ProgressInv'
  <2>1. \A q \in Request \ {r} :
          /\ Started(q)' => pos'[q] \in DOMAIN Script(q)' /\ Len(replies'[q]) = pos'[q] - 1
                              /\ (Multi(q)' => pos'[q] = 1)
          /\ pc'[q] = "new" => pos'[q] = 0 /\ replies'[q] = <<>>
          /\ pc'[q] # "done" =>
               \A i \in DOMAIN Script(q)' : i >= pos'[q] => executed'[q][i] = 0
    <3>1. ProgressInv
      OBVIOUS
    <3> HIDE DEF GInv
    <3> TAKE q \in Request \ {r}
    <3>2. /\ pc'[q] = pc[q] /\ pos'[q] = pos[q] /\ replies'[q] = replies[q]
          /\ executed'[q] = executed[q] /\ Script(q)' = Script(q) /\ (Multi(q)' <=> Multi(q))
      BY <1>1, <1>2
    <3> QED
      BY <3>1, <3>2 DEF ProgressInv, Started
  <2>2. CASE pc'[r] = "check"
    <3>1. ASSUME NEW i \in DOMAIN Script(r), i >= pos'[r]
          PROVE  executed'[r][i] = 0
      <4>1. i \in Nat /\ i > pos[r] /\ i >= pos[r]
        BY <1>1, <1>3, <2>2, <3>1
      <4>2. executed'[r][i] = executed[r][i]
        BY <2>2, <4>1
      <4> QED
        BY <4>1, <4>2 DEF ProgressInv, Started
    <3>2. pos'[r] \in DOMAIN Script(r) /\ Len(replies'[r]) = pos'[r] - 1 /\ ~Multi(r)
      <4>1. pos'[r] = pos[r] + 1 /\ pos'[r] \in DOMAIN Script(r) /\ ~Multi(r) /\ Len(results) = 1
        BY <1>1, <2>2
      <4>2. Len(replies'[r]) = pos[r] - 1 + 1
        BY <1>4, <4>1
      <4>3. pos[r] - 1 + 1 = pos'[r] - 1
        BY <1>3, <4>1
      <4> QED
        BY <4>1, <4>2, <4>3
    <3>3. \A q \in Request :
            /\ Started(q)' => pos'[q] \in DOMAIN Script(q)' /\ Len(replies'[q]) = pos'[q] - 1
                                /\ (Multi(q)' => pos'[q] = 1)
            /\ pc'[q] = "new" => pos'[q] = 0 /\ replies'[q] = <<>>
            /\ pc'[q] # "done" =>
                 \A i \in DOMAIN Script(q)' : i >= pos'[q] => executed'[q][i] = 0
      <4>1. /\ Script(r)' = Script(r) /\ (Multi(r)' <=> Multi(r)) /\ pc'[r] # "new"
            /\ \A i \in DOMAIN Script(r)' : i >= pos'[r] => executed'[r][i] = 0
        BY <1>2, <2>2, <3>1
      <4> QED
        BY <2>1, <3>2, <4>1
    <3> QED
      BY <3>3 DEF ProgressInv
  <2>3. CASE pc'[r] = "done"
    BY <2>1, <2>3 DEF ProgressInv, Started
  <2> QED
    BY <1>1, <2>2, <2>3
<1>7. RepliesHonest'
  <2>1. ASSUME NEW q \in Request \ {r} PROVE HonestAt(q)'
    <3>1. HonestAt(q)
      BY Honest
    <3>2. pc'[q] = pc[q] /\ replies'[q] = replies[q] /\ status'[q] = status[q] /\ executed'[q] = executed[q]
      BY <1>1, AnswerStep
    <3> QED
      BY <3>1, <3>2, StaysHonest
  <2>2. Plain(r)' <=> Plain(r)
    BY <1>2 DEF Plain
  <2>3. HonestAt(r)
    BY Honest
  <2>4. ASSUME NEW i \in DOMAIN Script(r)
        PROVE  /\ executed'[r][i] <= 1
               /\ Plain(r) /\ i \in DOMAIN replies'[r] /\ Script(r)[i] # "resttoken" =>
                    /\ replies'[r][i] = "ok" => executed'[r][i] = 1
                    /\ replies'[r][i] = "error" /\ Script(r)[i] # "script" => executed'[r][i] = 0
    <3>0. i \in Nat \ {0}
      BY <1>3
    <3>1. CASE i < pos[r]
      <4>1. i \in DOMAIN replies[r]
        BY <1>3, <3>0, <3>1
      <4>2. replies'[r][i] = replies[r][i] /\ executed'[r][i] = executed[r][i]
        BY <1>4, <3>1, <4>1
      <4> QED
        BY <2>3, <4>1, <4>2 DEF HonestAt
    <3>2. CASE i >= pos[r]
      <4>1. i \notin DOMAIN replies[r]
        BY <1>3, <3>0, <3>2
      <4>2. i \in DOMAIN replies'[r] =>
              i - pos[r] + 1 \in DOMAIN results /\ replies'[r][i] = results[i - pos[r] + 1]
        BY <1>4, <4>1
      <4>3. pos[r] - 1 + (i - pos[r] + 1) = i
        BY <1>3, <3>0
      <4> QED
        BY <3>2, <4>2, <4>3
    <3> QED
      BY <1>3, <3>0, <3>1, <3>2
  <2>5. ASSUME Plain(r), Multi(r), status'[r] # 200, replies'[r] # <<"unknown">>, NEW i \in DOMAIN Script(r)
        PROVE  executed'[r][i] = 0
    <3>1. status'[r] = code
      BY <2>5, AnswerStep
    <3>2. pos[r] = 1 /\ replies[r] = <<>>
      <4>1. pos[r] = 1
        BY <2>5 DEF ProgressInv
      <4>2. Len(replies[r]) = 0
        BY <1>3, <4>1
      <4> QED
        BY <1>3, <4>1, <4>2
    <3>3. replies'[r] = results
      BY <1>1, <3>2
    <3> QED
      BY <2>5, <3>1, <3>3
  <2>6. HonestAt(r)'
    BY <1>2, <2>2, <2>4, <2>5 DEF HonestAt
  <2> QED
    BY <2>1, <2>6, Honest
<1> QED
  BY <1>6, <1>7

\* In particular an error for the command at hand, when nothing has run.
LEMMA NothingRan ==
  ASSUME GInv, NEW r \in Request, Started(r), UNCHANGED <<job, ran>>,
         NEW result \in {"ok", "error", "unknown"},
         result = "ok" => Script(r)[pos[r]] = "resttoken",
         NEW code \in {0, 200, 400, 401, 429, 500, 503},
         Answer(r, <<result>>, code)
  PROVE  /\ ProgressInv' /\ RepliesHonest'
         /\ pos' \in [Request -> Nat]
         /\ pc' \in [Request -> {"new", "check", "record", "borrow", "auth", "run", "done"}]
         /\ replies' \in [Request -> Seq({"ok", "error", "unknown"})]
         /\ status' \in [Request -> {0, 200, 400, 401, 429, 500, 503}]
         /\ pc'[r] \in {"check", "done"}
         /\ \A q \in Request \ {r} : pc'[q] = pc[q]
<1> DEFINE results == <<result>>
<1>1. /\ results \in Seq({"ok", "error", "unknown"}) /\ Len(results) = 1
      /\ DOMAIN results = {1} /\ results[1] = result
      /\ Answer(r, results, code)
  OBVIOUS
<1> HIDE DEF results
<1>2. pos[r] \in DOMAIN Script(r) /\ pos[r] \in Nat /\ Script(r) \in Seq(Commands)
  BY JobFacts DEF GInv, ProgressInv, TypeOK
<1>3. \A i \in DOMAIN Script(r) : i >= pos[r] => executed'[r][i] = 0
  BY DEF GInv, ProgressInv, Started, ran
<1>4. \A n \in DOMAIN results : pos[r] - 1 + n = pos[r]
  BY <1>1, <1>2
<1>5. /\ pos' \in [Request -> Nat]
      /\ pc' \in [Request -> {"new", "check", "record", "borrow", "auth", "run", "done"}]
      /\ replies' \in [Request -> Seq({"ok", "error", "unknown"})]
      /\ status' \in [Request -> {0, 200, 400, 401, 429, 500, 503}]
      /\ pc'[r] \in {"check", "done"}
      /\ \A q \in Request \ {r} : pc'[q] = pc[q]
  BY <1>1, AnswerStep DEF GInv
<1>6. Multi(r) => \A i \in DOMAIN Script(r) : executed'[r][i] = 0
  <2>1. Multi(r) => pos[r] = 1
    BY DEF GInv, ProgressInv
  <2>2. \A i \in DOMAIN Script(r) : i >= 1
    BY <1>2
  <2> QED
    BY <1>3, <2>1, <2>2
<1>7. ProgressInv' /\ RepliesHonest'
  <2>1. UNCHANGED job /\ executed' = executed
    BY DEF ran
  <2>2. \A i \in DOMAIN Script(r) :
          /\ i < pos[r] \/ (pc'[r] = "check" /\ i > pos[r]) => executed'[r][i] = executed[r][i]
          /\ i >= pos[r] => executed'[r][i] \in {0, 1}
    BY <1>3, <2>1
  <2>3. \A n \in DOMAIN results :
          pos[r] - 1 + n \in DOMAIN Script(r) /\ Script(r)[pos[r] - 1 + n] # "resttoken" =>
            /\ results[n] = "ok" => executed'[r][pos[r] - 1 + n] = 1
            /\ results[n] = "error" /\ Script(r)[pos[r] - 1 + n] # "script" =>
                 executed'[r][pos[r] - 1 + n] = 0
    <3> SUFFICES ASSUME NEW n \in DOMAIN results, Script(r)[pos[r]] # "resttoken"
                 PROVE  results[n] # "ok" /\ executed'[r][pos[r]] = 0
      BY <1>4
    <3>1. results[n] = result
      BY <1>1
    <3>2. executed'[r][pos[r]] = 0
      BY <1>2, <1>3
    <3> QED
      BY <3>1, <3>2
  <2> QED
    BY <1>1, <1>6, <2>1, <2>2, <2>3, AnswerHonest
<1> QED
  BY <1>5, <1>7

\* Commands leave a connection with one of the users.
LEMMA UserTyped ==
  ASSUME TypeOK, NEW r \in Request, holds[r] \in Conn, NEW S, NEW i
  PROVE  /\ UserAt(r, S, i) \in User \cup {Default}
         /\ (\A k \in S : k < i => Script(r)[k] \notin {"auth", "reset"}) => UserAt(r, S, i) = user[holds[r]]
<1>1. job[r].user \in User /\ user[holds[r]] \in User \cup {Default}
  BY JobFacts DEF TypeOK
<1>2. PICK b, c : /\ b = {k \in S : k < i /\ Script(r)[k] \in {"auth", "reset"}}
                  /\ c = Script(r)[Max(b)]
  OBVIOUS
<1>3. UserAt(r, S, i) = IF b = {} THEN user[holds[r]] ELSE IF c = "auth" THEN job[r].user ELSE Default
  BY <1>2 DEF UserAt
<1>4. (\A k \in S : k < i => Script(r)[k] \notin {"auth", "reset"}) => b = {}
  BY <1>2
<1> QED
  BY <1>1, <1>3, <1>4

\* What Ran does.
LEMMA RanStep ==
  ASSUME TypeOK, NEW r \in Request, holds[r] \in Conn, NEW S \in SUBSET (DOMAIN Script(r)), Ran(r, S)
  PROVE  /\ \A q \in Request : executed'[q] \in [DOMAIN Script(q) -> Nat]
         /\ DOMAIN executed' = Request
         /\ \A q \in Request \ {r} : executed'[q] = executed[q] /\ ranAs'[q] = ranAs[q]
         /\ \A i \in DOMAIN Script(r) : executed'[r][i] =
              IF i \in S THEN executed[r][i] + 1 ELSE executed[r][i]
         /\ ranAs' \in [Request -> SUBSET (User \cup {Default})]
         /\ ranAs'[r] = ranAs[r] \cup {UserAt(r, S, i) : i \in S}
         /\ user' \in [Conn -> User \cup {Default}]
         /\ \A c \in Conn \ {holds[r]} : user'[c] = user[c]
<1>1. PICK more, who, left :
        /\ more = [i \in DOMAIN Script(r) |-> IF i \in S THEN executed[r][i] + 1 ELSE executed[r][i]]
        /\ who = ranAs[r] \cup {UserAt(r, S, i) : i \in S}
        /\ left = UserAt(r, S, Len(Script(r)) + 1)
  OBVIOUS
<1>2. /\ executed' = [executed EXCEPT ![r] = more] /\ ranAs' = [ranAs EXCEPT ![r] = who]
      /\ user' = [user EXCEPT ![holds[r]] = left]
  BY <1>1 DEF Ran
<1>3. \A q \in Request : executed[q] \in [DOMAIN Script(q) -> Nat]
  BY DEF TypeOK, Script
<1>4. more \in [DOMAIN Script(r) -> Nat]
  BY <1>1, <1>3
<1>5. /\ executed'[r] = more /\ DOMAIN executed' = Request
      /\ \A q \in Request \ {r} : executed'[q] = executed[q]
  <2>1. DOMAIN executed = Request
    BY DEF TypeOK
  <2> QED
    BY <1>2, <2>1
<1>6. left \in User \cup {Default} /\ \A i \in S : UserAt(r, S, i) \in User \cup {Default}
  BY <1>1, UserTyped
<1>7. who \in SUBSET (User \cup {Default}) /\ ranAs \in [Request -> SUBSET (User \cup {Default})]
  BY <1>1, <1>6 DEF TypeOK
<1>8. /\ ranAs' \in [Request -> SUBSET (User \cup {Default})] /\ ranAs'[r] = who
      /\ \A q \in Request \ {r} : ranAs'[q] = ranAs[q]
  BY <1>2, <1>7
<1>9. user' \in [Conn -> User \cup {Default}] /\ \A c \in Conn \ {holds[r]} : user'[c] = user[c]
  BY <1>2, <1>6 DEF TypeOK
<1> QED
  BY <1>1, <1>3, <1>4, <1>5, <1>8, <1>9

\* A request that answers and gives its connection back leaves the others theirs.
LEMMA GiveBack ==
  ASSUME GInv, NEW r \in Request, Holding(r), UNCHANGED job, NEW alive \in BOOLEAN,
         Release(r, alive), pc'[r] \in {"check", "done"},
         \A q \in Request \ {r} : pc'[q] = pc[q],
         \A c \in Conn \ {holds[r]} : user'[c] = user[c]
  PROVE  /\ PoolInv' /\ UserInv'
         /\ holds' \in [Request -> Conn \cup {Nil}]
         /\ link' \in [Conn -> {"closed", "idle", "busy"}]
<1> USE DEF GInv
<1>1. /\ PoolInv' /\ holds' \in [Request -> Conn \cup {Nil}]
      /\ link' \in [Conn -> {"closed", "idle", "busy"}]
      /\ \A q \in Request \ {r} : holds'[q] = holds[q]
  BY ReleaseStep
<1>2. ASSUME NEW q \in Request, pc'[q] = "run", job[q].token \in User
      PROVE  user'[holds'[q]] = job[q].token
  <2>1. q # r /\ pc[q] = "run"
    BY <1>2
  <2>2. holds[q] \in Conn \ {holds[r]}
    BY <2>1, NamesAssumption DEF PoolInv, Holding, TypeOK
  <2> QED
    BY <1>1, <1>2, <2>1, <2>2 DEF UserInv
<1> QED
  BY <1>1, <1>2 DEF UserInv

LEMMA ReceiveStep == ASSUME GInv, NEW r \in Request, NEW v, Receive(r, v) PROVE GInv'
<1> USE DEF GInv
<1>1. /\ pc[r] = "new" /\ pos' = [pos EXCEPT ![r] = 1]
      /\ UNCHANGED <<job, holds, replies, conns, logs, ran>>
  BY DEF Receive
<1> DEFINE code == IF v = "limited" THEN 429
                   ELSE IF ~Authentic(job[r].token) THEN 401
                   ELSE IF v = "chaos" THEN 500
                   ELSE IF Script(r) = <<>> THEN 400 ELSE 0
<1>2. /\ status' = [status EXCEPT ![r] = IF code = 0 THEN 0 ELSE Code(r, code)]
      /\ pc' = [pc EXCEPT ![r] = IF code = 0 THEN "check" ELSE "done"]
      /\ code \in {429, 401, 500, 400, 0} /\ (code = 0 => Script(r) # <<>>)
  BY DEF Receive
<1> HIDE DEF code
<1>3. TypeOK'
  <2>1. (IF code = 0 THEN 0 ELSE Code(r, code)) \in {0, 200, 400, 401, 429, 500, 503}
    BY <1>2 DEF Code
  <2> QED
    BY <1>1, <1>2, <2>1 DEF TypeOK, conns, logs, ran
<1>4. PoolInv' /\ UserInv' /\ OwnUser'
  <2>1. \A q \in Request : Holding(q)' <=> Holding(q)
    BY <1>1, <1>2 DEF Holding, TypeOK
  <2>2. PoolInv'
    BY <1>1, <2>1 DEF PoolInv, conns
  <2>3. \A q \in Request : pc'[q] = "run" => pc[q] = "run"
    BY <1>1, <1>2 DEF TypeOK
  <2>4. UserInv'
    BY <1>1, <2>3 DEF UserInv, conns
  <2>5. OwnUser'
    BY <1>1 DEF OwnUser, ran, Multi, Script
  <2> QED
    BY <2>2, <2>4, <2>5
<1>5. RepliesHonest'
  <2>1. ASSUME NEW q \in Request \ {r} PROVE HonestAt(q)'
    <3>1. pc'[q] = pc[q] /\ status'[q] = status[q]
      BY <1>1, <1>2 DEF TypeOK
    <3>2. HonestAt(q)
      BY Honest
    <3> QED
      BY <1>1, <3>1, <3>2, StaysHonest DEF ran
  <2>2. HonestAt(r)'
    <3>1. replies[r] = <<>> /\ pos[r] = 0 /\ Script(r) \in Seq(Commands)
      BY <1>1, JobFacts DEF ProgressInv
    <3>2. \A i \in DOMAIN Script(r) : executed[r][i] = 0
      BY <1>1, <3>1 DEF ProgressInv
    <3>3. Script(r)' = Script(r) /\ replies'[r] = <<>> /\ executed'[r] = executed[r]
      BY <1>1, <3>1 DEF Script, ran
    <3> QED
      BY <3>2, <3>3 DEF HonestAt
  <2> QED
    BY <2>1, <2>2, Honest
<1>6. ProgressInv'
  <2>1. Script(r) \in Seq(Commands) /\ executed[r] \in [DOMAIN Script(r) -> Nat]
    BY JobFacts DEF TypeOK, Script
  <2>2. code = 0 => 1 \in DOMAIN Script(r)
    BY <1>2, <2>1
  <2>3. /\ replies[r] = <<>> /\ Len(replies[r]) = 0
        /\ \A i \in DOMAIN Script(r) : i >= 0 /\ executed[r][i] = 0
    BY <1>1, <2>1 DEF ProgressInv
  <2> QED
    BY <1>1, <1>2, <2>2, <2>3 DEF ProgressInv, Started, Script, Multi, ran, TypeOK
<1> QED
  BY <1>3, <1>4, <1>5, <1>6

LEMMA CheckStep == ASSUME GInv, NEW r \in Request, Check(r) PROVE GInv'
<1> USE DEF GInv
<1>1. pc[r] = "check" /\ Started(r) /\ UNCHANGED <<job, holds, conns, minted, recorded, ran>>
  BY DEF Check, Started
<1>2. CASE Answer(r, <<"error">>, 400) /\ UNCHANGED counted
  <2>2. /\ pos' \in [Request -> Nat]
        /\ pc' \in [Request -> {"new", "check", "record", "borrow", "auth", "run", "done"}]
        /\ replies' \in [Request -> Seq({"ok", "error", "unknown"})]
        /\ status' \in [Request -> {0, 200, 400, 401, 429, 500, 503}]
        /\ pc'[r] \in {"check", "done"}
        /\ \A q \in Request \ {r} : pc'[q] = pc[q]
    BY <1>1, <1>2, NothingRan
  <2>3. ProgressInv' /\ RepliesHonest'
    BY <1>1, <1>2, NothingRan
  <2>4. TypeOK'
    BY <1>1, <1>2, <2>2 DEF TypeOK, conns, ran
  <2>5. \A q \in Request : Holding(q)' <=> Holding(q)
    BY <1>1, <2>2 DEF Holding
  <2>6. PoolInv'
    BY <1>1, <2>5 DEF PoolInv, conns
  <2>7. \A q \in Request : pc'[q] = "run" => pc[q] = "run"
    BY <1>1, <2>2
  <2>8. UserInv'
    BY <1>1, <2>7 DEF UserInv, conns
  <2>9. OwnUser'
    BY <1>1 DEF OwnUser, ran, Multi, Script
  <2> QED
    BY <2>3, <2>4, <2>6, <2>8, <2>9
<1>3. CASE /\ pc' = [pc EXCEPT ![r] = IF Multi(r) \/ Minting(r) THEN "borrow" ELSE "record"]
           /\ counted' = IF Minting(r) THEN counted ELSE counted + 1
           /\ UNCHANGED <<pos, replies, status>>
  <2>1. PICK stage \in {"record", "borrow"} : pc' = [pc EXCEPT ![r] = stage]
    BY <1>3
  <2>2. TypeOK'
    BY <1>1, <1>3, <2>1 DEF TypeOK, conns, ran
  <2> QED
    BY <1>1, <1>3, <2>1, <2>2, GoOn
<1> QED
  BY <1>2, <1>3 DEF Check

LEMMA RecordStep == ASSUME GInv, NEW r \in Request, Record(r) PROVE GInv'
<1> USE DEF GInv
<1>1. Started(r) /\ pc[r] \notin {"auth", "run"}
  BY DEF Record, Started
<1>2. TypeOK'
  <2>1. recorded' \in [Request -> Seq(Nat)]
    BY DEF Record, TypeOK
  <2> QED
    BY <2>1 DEF Record, TypeOK, conns, ran
<1> QED
  BY <1>1, <1>2, GoOn DEF Record

LEMMA BorrowStep == ASSUME GInv, NEW r \in Request, NEW c \in Conn, Borrow(r, c) PROVE GInv'
<1> USE DEF GInv
<1>1. /\ pc[r] = "borrow" /\ link[c] # "busy"
      /\ link' = [link EXCEPT ![c] = "busy"]
      /\ user' = [user EXCEPT ![c] = IF link[c] = "idle" THEN @ ELSE Default]
      /\ holds' = [holds EXCEPT ![r] = c]
      /\ pc' = [pc EXCEPT ![r] = "auth"]
      /\ UNCHANGED <<job, pos, replies, status, logs, ran>>
  BY DEF Borrow
<1>2. TypeOK'
  BY <1>1 DEF TypeOK, logs, ran
<1>3. /\ holds'[r] = c /\ c # Nil /\ link'[c] = "busy" /\ pc'[r] = "auth"
      /\ \A q \in Request \ {r} : holds'[q] = holds[q] /\ pc'[q] = pc[q]
      /\ \A d \in Conn \ {c} : link'[d] = link[d] /\ user'[d] = user[d]
  BY <1>1, NamesAssumption DEF TypeOK
<1>4. holds[r] = Nil /\ \A q \in Request : holds[q] # c
  BY <1>1, <1>3 DEF PoolInv, Holding
<1>5. \A q \in Request : holds[q] \in Conn \cup {Nil}
  BY DEF TypeOK
<1>6. PoolInv'
  <2>1. \A q \in Request \ {r} : holds'[q] # Nil <=> Holding(q)'
    BY <1>3 DEF PoolInv, Holding
  <2>2. holds'[r] # Nil /\ Holding(r)'
    BY <1>3 DEF Holding
  <2>3. \A q \in Request : holds'[q] # Nil => link'[holds'[q]] = "busy"
    BY <1>3, <1>4, <1>5 DEF PoolInv
  <2>4. \A p, q \in Request : holds'[p] # Nil /\ holds'[q] = holds'[p] => q = p
    BY <1>3, <1>4 DEF PoolInv
  <2>5. \A d \in Conn : link'[d] = "busy" => \E q \in Request : holds'[q] = d
    <3>1. ASSUME NEW d \in Conn \ {c}, link'[d] = "busy" PROVE \E q \in Request : holds'[q] = d
      <4>1. PICK q \in Request : holds[q] = d
        BY <1>3, <3>1 DEF PoolInv
      <4>2. q # r
        BY <1>4, <4>1, NamesAssumption
      <4> QED
        BY <1>3, <4>1, <4>2
    <3> QED
      BY <1>3, <3>1
  <2> QED
    BY <2>1, <2>2, <2>3, <2>4, <2>5 DEF PoolInv
<1>7. UserInv'
  <2>1. ASSUME NEW q \in Request, pc'[q] = "run", job[q].token \in User
        PROVE  user'[holds'[q]] = job[q].token
    <3>1. q # r /\ pc[q] = "run" /\ holds[q] \in Conn \ {c}
      BY <1>3, <1>4, <1>5, <2>1 DEF PoolInv, Holding
    <3> QED
      BY <1>3, <2>1, <3>1 DEF UserInv
  <2> QED
    BY <1>1, <2>1 DEF UserInv
<1>8. ProgressInv'
  BY <1>1, <1>3 DEF ProgressInv, Started, Script, Multi, ran
<1>10. OwnUser'
  BY <1>1 DEF OwnUser, Script, Multi, ran
<1>9. RepliesHonest'
  <2>1. \A q \in Request : HonestAt(q) /\ (pc'[q] # "done" \/ pc'[q] = pc[q])
    BY <1>3, Honest
  <2> QED
    BY <1>1, <2>1, StaysHonest, Honest DEF ran
<1> QED
  BY <1>2, <1>6, <1>7, <1>8, <1>9, <1>10

LEMMA DialFailsStep == ASSUME GInv, NEW r \in Request, DialFails(r) PROVE GInv'
<1> USE DEF GInv
<1>1. pc[r] = "borrow" /\ Started(r) /\ UNCHANGED <<job, holds, conns, logs, ran>>
  BY DEF DialFails, Started
<1>2. PICK code \in {400, 503} : Answer(r, <<"error">>, code)
  BY DEF DialFails
<1>3. /\ ProgressInv' /\ RepliesHonest'
      /\ pos' \in [Request -> Nat]
      /\ pc' \in [Request -> {"new", "check", "record", "borrow", "auth", "run", "done"}]
      /\ replies' \in [Request -> Seq({"ok", "error", "unknown"})]
      /\ status' \in [Request -> {0, 200, 400, 401, 429, 500, 503}]
      /\ pc'[r] \in {"check", "done"}
      /\ \A q \in Request \ {r} : pc'[q] = pc[q]
  BY <1>1, <1>2, NothingRan
<1>4. TypeOK'
  BY <1>1, <1>3 DEF TypeOK, conns, logs, ran
<1>5. \A q \in Request : (Holding(q)' <=> Holding(q)) /\ (pc'[q] = "run" => pc[q] = "run")
  BY <1>1, <1>3 DEF Holding
<1>6. PoolInv'
  BY <1>1, <1>5 DEF PoolInv, conns
<1>7. UserInv' /\ OwnUser'
  BY <1>1, <1>5 DEF UserInv, OwnUser, conns, ran, Multi, Script
<1> QED
  BY <1>3, <1>4, <1>6, <1>7

LEMMA NoAuthStep == ASSUME GInv, NEW r \in Request, NoAuth(r) PROVE GInv'
<1> USE DEF GInv
<1>1. /\ pc[r] = "auth" /\ Credentials(r) = Default /\ pc' = [pc EXCEPT ![r] = "run"]
      /\ UNCHANGED <<job, pos, holds, replies, status, conns, logs, ran>>
  BY DEF NoAuth
<1>2. TypeOK'
  BY <1>1 DEF TypeOK, conns, logs, ran
<1>3. \A q \in Request : Holding(q)' <=> Holding(q)
  BY <1>1 DEF Holding, TypeOK
<1>4. PoolInv'
  BY <1>1, <1>3 DEF PoolInv, conns
<1>5. UserInv'
  <2>1. job[r].token \notin User
    BY <1>1, JobFacts DEF Credentials
  <2> QED
    BY <1>1, <2>1 DEF UserInv, conns, TypeOK
<1>6. ProgressInv'
  BY <1>1 DEF ProgressInv, Started, Script, Multi, ran, TypeOK
<1>8. OwnUser'
  BY <1>1 DEF OwnUser, Script, Multi, ran
<1>7. RepliesHonest'
  <2>1. \A q \in Request : HonestAt(q) /\ (pc'[q] # "done" \/ pc'[q] = pc[q])
    BY <1>1, Honest DEF TypeOK
  <2> QED
    BY <1>1, <2>1, StaysHonest, Honest DEF ran
<1> QED
  BY <1>2, <1>4, <1>5, <1>6, <1>7, <1>8

LEMMA IdleTimeoutStep == ASSUME GInv, NEW c \in Conn, IdleTimeout(c) PROVE GInv'
<1> USE DEF GInv
<1>1. /\ link[c] = "idle" /\ link' = [link EXCEPT ![c] = "closed"]
      /\ UNCHANGED <<job, pc, pos, holds, replies, status, user, logs, ran>>
  BY DEF IdleTimeout
<1>2. TypeOK'
  BY <1>1 DEF TypeOK, logs, ran
<1>3. \A d \in Conn : link'[d] = "busy" <=> link[d] = "busy"
  BY <1>1 DEF TypeOK
<1>4. PoolInv'
  BY <1>1, <1>3, NamesAssumption DEF PoolInv, Holding, TypeOK
<1>5. ProgressInv' /\ UserInv' /\ OwnUser'
  BY <1>1 DEF ProgressInv, Started, UserInv, OwnUser, Script, Multi, ran
<1>6. RepliesHonest'
  BY <1>1, StaysHonest, Honest DEF ran
<1> QED
  BY <1>2, <1>4, <1>5, <1>6

LEMMA AuthStep == ASSUME GInv, NEW r \in Request, NEW o \in Outcome, Auth(r, o) PROVE GInv'
<1> USE DEF GInv
<1>1. /\ pc[r] = "auth" /\ Started(r) /\ Holding(r) /\ Credentials(r) # Default
      /\ user' = IF Applied(o) THEN [user EXCEPT ![holds[r]] = Credentials(r)] ELSE user
      /\ minted' = IF o = "ok" /\ Minting(r) THEN minted \cup {job[r].user} ELSE minted
      /\ UNCHANGED <<job, counted, recorded, ran>>
  BY DEF Auth, Started, Holding
<1>2. /\ holds[r] \in Conn /\ Credentials(r) \in User
      /\ \A q \in Request \ {r} : holds[q] # holds[r]
  BY <1>1, JobFacts, NamesAssumption DEF PoolInv, TypeOK, Credentials
<1>3. /\ user' \in [Conn -> User \cup {Default}] /\ minted' \subseteq User
      /\ \A c \in Conn \ {holds[r]} : user'[c] = user[c]
      /\ Applied(o) => user'[holds[r]] = Credentials(r)
  BY <1>1, <1>2, JobFacts DEF TypeOK
<1>4. OwnUser'
  BY <1>1 DEF OwnUser, ran, Multi, Script
<1>5. CASE o = "ok" /\ ~Minting(r)
  <2>1. /\ pc' = [pc EXCEPT ![r] = "run"]
        /\ UNCHANGED <<pos, holds, replies, status, link>>
    BY <1>5 DEF Auth
  <2>2. TypeOK'
    BY <1>1, <1>3, <2>1 DEF TypeOK, ran
  <2>3. \A q \in Request : Holding(q)' <=> Holding(q)
    BY <1>1, <2>1 DEF Holding, TypeOK
  <2>4. PoolInv'
    BY <1>1, <2>1, <2>3 DEF PoolInv
  <2>5. ASSUME NEW q \in Request, pc'[q] = "run", job[q].token \in User
        PROVE  user'[holds[q]] = job[q].token
    <3>1. CASE q = r
      BY <1>3, <1>5, <2>5, <3>1 DEF Applied, Credentials
    <3>2. CASE q # r
      <4>1. pc[q] = "run" /\ holds[q] \in Conn \ {holds[r]}
        BY <1>2, <2>1, <2>5, <3>2 DEF TypeOK, PoolInv, Holding
      <4> QED
        BY <1>3, <2>5, <4>1 DEF UserInv
    <3> QED
      BY <3>1, <3>2
  <2>6. UserInv'
    BY <1>1, <2>1, <2>5 DEF UserInv
  <2>7. ProgressInv'
    BY <1>1, <2>1 DEF ProgressInv, Started, Script, Multi, ran, TypeOK
  <2>8. RepliesHonest'
    <3>1. \A q \in Request : HonestAt(q) /\ (pc'[q] # "done" \/ pc'[q] = pc[q])
      BY <1>1, <2>1, Honest DEF TypeOK
    <3> QED
      BY <1>1, <2>1, <3>1, StaysHonest, Honest DEF ran
  <2> QED
    BY <1>4, <2>2, <2>4, <2>6, <2>7, <2>8
<1>6. CASE ~(o = "ok" /\ ~Minting(r))
  <2>1. PICK result \in {"ok", "error"}, code \in {200, 400} :
          /\ Release(r, Alive(o)) /\ Answer(r, <<result>>, code)
          /\ result = "ok" => o = "ok"
    BY <1>6 DEF Auth
  <2>2. result = "ok" => Script(r)[pos[r]] = "resttoken"
    BY <1>6, <2>1 DEF Minting, Command
  <2>3. /\ ProgressInv' /\ RepliesHonest'
        /\ pos' \in [Request -> Nat]
        /\ pc' \in [Request -> {"new", "check", "record", "borrow", "auth", "run", "done"}]
        /\ replies' \in [Request -> Seq({"ok", "error", "unknown"})]
        /\ status' \in [Request -> {0, 200, 400, 401, 429, 500, 503}]
        /\ pc'[r] \in {"check", "done"}
        /\ \A q \in Request \ {r} : pc'[q] = pc[q]
    BY <1>1, <2>1, <2>2, NothingRan
  <2>4. /\ PoolInv' /\ UserInv'
        /\ holds' \in [Request -> Conn \cup {Nil}]
        /\ link' \in [Conn -> {"closed", "idle", "busy"}]
    <3>1. Alive(o) \in BOOLEAN
      BY DEF Alive
    <3> QED
      BY <1>1, <1>3, <2>1, <2>3, <3>1, GiveBack
  <2>5. TypeOK'
    BY <1>1, <1>3, <2>3, <2>4 DEF TypeOK, ran
  <2> QED
    BY <1>4, <2>3, <2>4, <2>5
<1> QED
  BY <1>5, <1>6

\* Running S of the commands, answering with the given results and giving the
\* connection back.
LEMMA Ends ==
  ASSUME GInv, NEW r \in Request, pc[r] = "run", NEW o \in Outcome, UNCHANGED <<job, logs>>,
         NEW S \in SUBSET (DOMAIN Script(r)), Ran(r, S),
         \A i \in S : i >= pos[r], Multi(r) \/ S \subseteq {pos[r]},
         NEW results \in Seq({"ok", "error", "unknown"}),
         NEW code \in {0, 200, 400, 401, 429, 500, 503},
         Release(r, Alive(o)), Answer(r, results, code),
         Multi(r) \/ Len(results) = 1,
         Plain(r) => \A n \in DOMAIN results :
           pos[r] - 1 + n \in DOMAIN Script(r) /\ Script(r)[pos[r] - 1 + n] # "resttoken" =>
             /\ results[n] = "ok" => pos[r] - 1 + n \in S
             /\ results[n] = "error" /\ Script(r)[pos[r] - 1 + n] # "script" => pos[r] - 1 + n \notin S,
         Plain(r) /\ Multi(r) /\ code # 200 /\ results # <<"unknown">> => S = {}
  PROVE  GInv'
<1> USE DEF GInv
<1>1. Started(r) /\ Holding(r)
  BY DEF Started, Holding
<1>2. holds[r] \in Conn
  BY <1>1, NamesAssumption DEF PoolInv, TypeOK
<1>3. /\ \A q \in Request : executed'[q] \in [DOMAIN Script(q) -> Nat]
      /\ DOMAIN executed' = Request
      /\ \A q \in Request \ {r} : executed'[q] = executed[q] /\ ranAs'[q] = ranAs[q]
      /\ \A i \in DOMAIN Script(r) : executed'[r][i] =
           IF i \in S THEN executed[r][i] + 1 ELSE executed[r][i]
      /\ ranAs' \in [Request -> SUBSET (User \cup {Default})]
      /\ ranAs'[r] = ranAs[r] \cup {UserAt(r, S, i) : i \in S}
      /\ user' \in [Conn -> User \cup {Default}]
      /\ \A c \in Conn \ {holds[r]} : user'[c] = user[c]
  BY <1>2, RanStep
<1>4. /\ pos' \in [Request -> Nat]
      /\ pc' \in [Request -> {"new", "check", "record", "borrow", "auth", "run", "done"}]
      /\ replies' \in [Request -> Seq({"ok", "error", "unknown"})]
      /\ status' \in [Request -> {0, 200, 400, 401, 429, 500, 503}]
      /\ pc'[r] \in {"check", "done"} /\ (pc'[r] = "check" => ~Multi(r))
      /\ \A q \in Request \ {r} : pc'[q] = pc[q]
  BY <1>1, AnswerStep
<1>5. /\ PoolInv' /\ UserInv'
      /\ holds' \in [Request -> Conn \cup {Nil}]
      /\ link' \in [Conn -> {"closed", "idle", "busy"}]
  <2>1. Alive(o) \in BOOLEAN
    BY DEF Alive
  <2>2. pc'[r] \in {"check", "done"} /\ \A q \in Request \ {r} : pc'[q] = pc[q]
    BY <1>4
  <2>3. \A c \in Conn \ {holds[r]} : user'[c] = user[c]
    BY <1>3
  <2> HIDE DEF GInv
  <2> QED
    BY <1>1, <2>1, <2>2, <2>3, GiveBack
<1>6. TypeOK'
  BY <1>3, <1>4, <1>5 DEF TypeOK, logs, Script
<1>7. pos[r] \in DOMAIN Script(r) /\ pos[r] \in Nat /\ Script(r) \in Seq(Commands)
  BY <1>1, JobFacts DEF ProgressInv, TypeOK
<1>8. ASSUME NEW i \in DOMAIN Script(r)
      PROVE  /\ i < pos[r] \/ (pc'[r] = "check" /\ i > pos[r]) => executed'[r][i] = executed[r][i]
             /\ i >= pos[r] => executed'[r][i] = IF i \in S THEN 1 ELSE 0
  <2>1. i \in Nat
    BY <1>7
  <2>2. i < pos[r] \/ (pc'[r] = "check" /\ i > pos[r]) => i \notin S
    BY <1>4, <1>7, <2>1
  <2>3. i >= pos[r] => executed[r][i] = 0
    BY DEF ProgressInv
  <2> QED
    BY <1>3, <2>2, <2>3
<1>9. \A n \in DOMAIN results : pos[r] - 1 + n >= pos[r]
  BY <1>7
<1>10. ProgressInv' /\ RepliesHonest'
  <2>1. \A i \in DOMAIN Script(r) :
          /\ i < pos[r] \/ (pc'[r] = "check" /\ i > pos[r]) => executed'[r][i] = executed[r][i]
          /\ i >= pos[r] => executed'[r][i] \in {0, 1}
    BY <1>8
  <2>2. Plain(r) => \A n \in DOMAIN results :
          pos[r] - 1 + n \in DOMAIN Script(r) /\ Script(r)[pos[r] - 1 + n] # "resttoken" =>
            /\ results[n] = "ok" => executed'[r][pos[r] - 1 + n] = 1
            /\ results[n] = "error" /\ Script(r)[pos[r] - 1 + n] # "script" =>
                 executed'[r][pos[r] - 1 + n] = 0
    BY <1>8, <1>9
  <2>3. pc'[r] = "check" => Len(results) = 1
    BY <1>4
  <2>4. Plain(r) /\ Multi(r) /\ code # 200 /\ results # <<"unknown">> =>
          \A i \in DOMAIN Script(r) : executed'[r][i] = 0
    <3>1. Multi(r) => pos[r] = 1
      BY <1>1 DEF ProgressInv
    <3>2. \A i \in DOMAIN Script(r) : i >= 1
      BY <1>7
    <3> QED
      BY <1>8, <3>1, <3>2
  <2> QED
    BY <1>1, <1>3, <2>1, <2>2, <2>3, <2>4, AnswerHonest
<1>11. OwnUser'
  <2>1. ASSUME NEW q \in Request, job[q].token \in User,
               ~(Multi(q) /\ \E i \in DOMAIN Script(q) : Script(q)[i] \in {"auth", "reset"})
        PROVE  ranAs'[q] \subseteq {job[q].token}
    <3>1. ranAs[q] \subseteq {job[q].token}
      BY <2>1 DEF OwnUser
    <3>2. CASE q # r
      BY <1>3, <3>1, <3>2
    <3>3. CASE q = r
      <4>1. user[holds[r]] = job[r].token
        BY <2>1, <3>3 DEF UserInv
      <4>2. ASSUME NEW i \in S PROVE UserAt(r, S, i) = user[holds[r]]
        <5>1. \A k \in S : k < i => Script(r)[k] \notin {"auth", "reset"}
          <6>1. CASE Multi(r)
            BY <2>1, <3>3, <6>1
          <6>2. CASE ~Multi(r)
            BY <1>7, <6>2
          <6> QED
            BY <6>1, <6>2
        <5> QED
          BY <1>2, <5>1, UserTyped
      <4> QED
        BY <1>3, <3>1, <3>3, <4>1, <4>2
    <3> QED
      BY <3>2, <3>3
  <2>2. \A q \in Request : Script(q)' = Script(q) /\ (Multi(q)' <=> Multi(q))
    BY DEF Script, Multi
  <2> QED
    BY <2>1, <2>2 DEF OwnUser
<1> QED
  BY <1>5, <1>6, <1>10, <1>11

LEMMA RunStep == ASSUME GInv, NEW r \in Request, NEW o \in Outcome, Run(r, o) PROVE GInv'
<1>1. pc[r] = "run" /\ ~Multi(r) /\ Release(r, Alive(o)) /\ UNCHANGED <<job, logs>>
  BY DEF Run
<1>2. pos[r] \in DOMAIN Script(r) /\ pos[r] \in Nat /\ Script(r) \in Seq(Commands)
  <2>1. TypeOK /\ ProgressInv
    BY DEF GInv
  <2>2. Script(r) \in Seq(Commands)
    BY <2>1, JobFacts
  <2>3. Started(r)
    BY <1>1 DEF Started
  <2>4. pos[r] \in Nat
    BY <2>1 DEF TypeOK
  <2> QED
    BY <2>1, <2>2, <2>3, <2>4 DEF ProgressInv
<1>3. PICK S : Ran(r, S) /\ S = IF Applied(o) /\ Command(r) \in Effective THEN {pos[r]} ELSE {}
  BY DEF Run
<1>4. PICK result \in {"ok", "error", "unknown"}, code \in {200, 400} :
        /\ Answer(r, <<result>>, code)
        /\ result = "ok" => o = "ok" /\ Command(r) \in Succeeds
        /\ result = "error" => o # "lost" /\ ~(o = "ok" /\ Command(r) \in Succeeds)
  <2>1. CASE o = "ok" /\ Command(r) \in Succeeds
    <3>1. Answer(r, <<"ok">>, 200)
      BY <2>1 DEF Run
    <3> QED
      BY <2>1, <3>1
  <2>2. CASE ~(o = "ok" /\ Command(r) \in Succeeds)
    <3>1. Answer(r, Failed(o), 400)
      BY <2>2 DEF Run
    <3>2. PICK result \in {"error", "unknown"} :
            Failed(o) = <<result>> /\ (result = "error" => o # "lost")
      BY DEF Failed
    <3> QED
      BY <2>2, <3>1, <3>2
  <2> QED
    BY <2>1, <2>2
<1>5. /\ S \in SUBSET (DOMAIN Script(r)) /\ S \subseteq {pos[r]} /\ \A i \in S : i >= pos[r]
      /\ result = "ok" => pos[r] \in S
      /\ result = "error" /\ Script(r)[pos[r]] # "script" => pos[r] \notin S
  <2>1. Command(r) = Script(r)[pos[r]] /\ (Applied(o) <=> o \in {"ok", "lost"})
    BY DEF Command, Applied
  <2>2. Script(r)[pos[r]] \in Succeeds <=> Script(r)[pos[r]] \in Effective /\ Script(r)[pos[r]] # "script"
    BY DEF Succeeds
  <2> QED
    BY <1>2, <1>3, <1>4, <2>1, <2>2
<1> DEFINE results == <<result>>
<1>6. /\ results \in Seq({"ok", "error", "unknown"}) /\ Len(results) = 1
      /\ DOMAIN results = {1} /\ results[1] = result /\ Answer(r, results, code)
  BY <1>4
<1> HIDE DEF results
<1>7. \A n \in DOMAIN results : pos[r] - 1 + n = pos[r] /\ results[n] = result
  BY <1>2, <1>6
<1>8. \A n \in DOMAIN results :
        /\ results[n] = "ok" => pos[r] - 1 + n \in S
        /\ results[n] = "error" /\ Script(r)[pos[r] - 1 + n] # "script" => pos[r] - 1 + n \notin S
  BY <1>5, <1>7
<1>9. code \in {0, 200, 400, 401, 429, 500, 503}
  OBVIOUS
<1>10. (Multi(r) \/ S \subseteq {pos[r]}) /\ (Multi(r) \/ Len(results) = 1)
  BY <1>5, <1>6
<1>11. S \in SUBSET (DOMAIN Script(r)) /\ \A i \in S : i >= pos[r]
  BY <1>5
<1>12. results \in Seq({"ok", "error", "unknown"}) /\ Answer(r, results, code)
  BY <1>6
<1> QED
  BY <1>1, <1>3, <1>8, <1>9, <1>10, <1>11, <1>12, Ends

\* Where each command of a script is in what is sent.
LEMMA SentParts ==
  ASSUME NEW script \in Seq(Commands)
  PROVE  /\ Sent(script) \in Seq(Commands \cup {"multi", "exec"})
         /\ Len(Sent(script)) = Len(script) + 2
         /\ Sent(script)[1] = "multi" /\ Sent(script)[Len(script) + 2] = "exec"
         /\ \A i \in DOMAIN script : Sent(script)[i + 1] = script[i]
<1>1. /\ script \in Seq(Commands \cup {"multi", "exec"})
      /\ <<"multi">> \in Seq(Commands \cup {"multi", "exec"})
      /\ <<"exec">> \in Seq(Commands \cup {"multi", "exec"})
  OBVIOUS
<1> QED
  BY <1>1 DEF Sent

\* The queue of a block is finite.
LEMMA QueueFinite ==
  ASSUME NEW s, NEW e \in Int
  PROVE  Queue(s, e) \subseteq 1..(e - 1) /\ Cardinality(Queue(s, e)) \in Nat
<1>1. Queue(s, e) \subseteq 1..(e - 1)
  BY DEF Queue
<1>2. IsFiniteSet(1..(e - 1))
  BY FS_Interval
<1> QED
  BY <1>1, <1>2, FS_Subset, FS_CardinalityType

\* Nothing happens before EXEC has come; then all of it or, if a command couldn't be
\* queued, none.
AllOrNothing(script, n, s) ==
  /\ n < Len(Sent(script)) => \A i \in DOMAIN script : i + 1 \notin TakesEffect(s)
  /\ n = Len(Sent(script)) =>
       IF Complains(s) THEN \A i \in DOMAIN script : i + 1 \notin TakesEffect(s)
       ELSE /\ \A i \in DOMAIN script : i + 1 \in TakesEffect(s) <=> script[i] \in Effective
            /\ DOMAIN LastBlock(s) = DOMAIN script
            /\ \A i \in DOMAIN script : LastBlock(s)[i] = script[i]

\* That is so if the script leaves its block alone.
LEMMA PlainBlock ==
  ASSUME NEW script \in Seq(Commands), \A i \in DOMAIN script : script[i] \notin Control,
         NEW n \in 0..Len(Sent(script)), NEW s, s = SubSeq(Sent(script), 1, n)
  PROVE  AllOrNothing(script, n, s)
<1> DEFINE L == Len(script)
<1>1. /\ L \in Nat /\ DOMAIN script = 1..L /\ n \in 0..(L + 2)
      /\ Len(s) = n /\ DOMAIN s = 1..n
      /\ n >= 1 => s[1] = "multi"
      /\ n = L + 2 => s[L + 2] = "exec"
      /\ \A i \in 1..L : i + 1 <= n => s[i + 1] = script[i]
      /\ Len(Sent(script)) = L + 2
  <2>1. /\ Sent(script) \in Seq(Commands \cup {"multi", "exec"}) /\ Len(Sent(script)) = L + 2
        /\ Sent(script)[1] = "multi" /\ Sent(script)[L + 2] = "exec"
        /\ \A i \in DOMAIN script : Sent(script)[i + 1] = script[i]
    BY SentParts
  <2>2. L \in Nat /\ DOMAIN script = 1..L
    OBVIOUS
  <2> HIDE DEF L
  <2>3. n \in 0..(L + 2) /\ n \in Nat
    BY <2>1, <2>2
  <2>4. Len(s) = n /\ DOMAIN s = 1..n /\ \A k \in 1..n : s[k] = Sent(script)[k]
    BY <2>1, <2>2, <2>3
  <2> QED
    BY <2>1, <2>2, <2>3, <2>4
<1> HIDE DEF L
<1>2. \A k \in 2..n : k <= L + 1 => s[k] \notin Control /\ s[k] = script[k - 1] /\ k - 1 \in 1..L
  BY <1>1
<1>3. \A k \in 2..n : Inside(s, k)
  <2>1. ASSUME NEW k \in 2..n, NEW j \in 2..(k - 1) PROVE s[j] \notin Enders
    BY <1>1, <1>2 DEF Control
  <2> QED
    BY <1>1, <2>1 DEF Inside
<1>4. \A e \in DOMAIN s : s[e] = "exec" => e = L + 2 /\ n = L + 2
  <2>1. ASSUME NEW e \in DOMAIN s, s[e] = "exec" PROVE e = L + 2 /\ n = L + 2
    <3>1. e \in 1..n /\ e # 1
      BY <1>1, <2>1
    <3>2. ~(e <= L + 1)
      BY <1>1, <1>2, <2>1, <3>1 DEF Control, Enders
    <3> QED
      BY <1>1, <3>1, <3>2
  <2> QED
    BY <2>1
<1>5. \A i \in 1..L : i + 1 \in TakesEffect(s) =>
        i + 1 \in Committed(s) /\ i + 1 \in 2..n /\ script[i] \in Effective
  BY <1>1, <1>2, <1>3 DEF TakesEffect, Control, Enders
<1>6. ASSUME n < L + 2 PROVE \A i \in 1..L : i + 1 \notin TakesEffect(s)
  <2>1. Committed(s) = {}
    BY <1>1, <1>4, <1>6 DEF Committed
  <2> QED
    BY <1>5, <2>1
<1>7. ASSUME n = L + 2
      PROVE  IF Complains(s) THEN \A i \in DOMAIN script : i + 1 \notin TakesEffect(s)
             ELSE /\ \A i \in DOMAIN script : i + 1 \in TakesEffect(s) <=> script[i] \in Effective
                  /\ DOMAIN LastBlock(s) = DOMAIN script
                  /\ \A i \in DOMAIN script : LastBlock(s)[i] = script[i]
  <2>0. Queue(s, L + 2) = {i \in 1..(L + 1) : Inside(s, i) /\ s[i] # "multi" /\ \A k \in i..(L + 1) : s[k] \notin Enders}
    <3>1. (L + 2) - 1 = L + 1
      BY <1>1
    <3> QED
      BY <3>1 DEF Queue
  <2>1. Queue(s, L + 2) = 2..(L + 1)
    <3>1. ASSUME NEW i \in 2..(L + 1) PROVE i \in Queue(s, L + 2)
      <4>1. \A k \in i..(L + 1) : s[k] \notin Enders
        BY <1>1, <1>2, <1>7 DEF Control
      <4>2. s[i] # "multi" /\ Inside(s, i)
        BY <1>1, <1>2, <1>3, <1>7 DEF Control
      <4>3. i \in 1..(L + 1)
        BY <1>1
      <4> QED
        BY <2>0, <4>1, <4>2, <4>3, Zenon
    <3>2. ASSUME NEW i \in Queue(s, L + 2) PROVE i \in 2..(L + 1)
      <4>1. i \in 1..(L + 1) /\ s[i] # "multi"
        BY <2>0
      <4> QED
        BY <1>1, <1>7, <4>1
    <3> QED
      BY <3>1, <3>2
  <2>2. Complains(s) <=> \E i \in 2..(L + 1) : s[i] \in Unqueued
    <3>1. ~Inside(s, 1)
      BY DEF Inside
    <3>2. \A i \in 2..(L + 1) : s[i] # "multi" /\ Inside(s, i)
      BY <1>1, <1>2, <1>3, <1>7 DEF Control
    <3>3. s[1] = "multi" /\ s[L + 2] = "exec" /\ Inside(s, L + 2) /\ DOMAIN s = 1..(L + 2)
      BY <1>1, <1>3, <1>7
    <3>4. \A i \in DOMAIN s : i = 1 \/ i = L + 2 \/ (i \in 2..(L + 1) /\ s[i] = script[i - 1] /\ i - 1 \in DOMAIN script)
      BY <1>1, <1>2, <1>7
    <3>5. ASSUME NEW i \in DOMAIN s
          PROVE  s[i] \in Unqueued \/ (s[i] = "multi" /\ Inside(s, i))
                   \/ (s[i] \in {"exec", "discard", "fail", "script"} /\ ~Inside(s, i))
                 => i \in 2..(L + 1) /\ s[i] \in Unqueued
      BY <3>1, <3>2, <3>3, <3>4 DEF Unqueued
    <3>6. 2..(L + 1) \subseteq DOMAIN s
      BY <1>1, <1>7
    <3> QED
      BY <3>5, <3>6 DEF Complains
  <2>3. Committed(s) = IF Complains(s) THEN {} ELSE 2..(L + 1)
    <3>1. L + 2 \in DOMAIN s /\ s[L + 2] = "exec"
      BY <1>1, <1>7
    <3>2. CASE Complains(s)
      <4>1. PICK i \in Queue(s, L + 2) : s[i] \in Unqueued
        BY <2>1, <2>2, <3>2
      <4> QED
        BY <1>4, <3>2, <4>1 DEF Committed
    <3>3. CASE ~Complains(s)
      <4>1. \A i \in Queue(s, L + 2) : s[i] \notin Unqueued
        BY <2>1, <2>2, <3>3
      <4>2. {e \in DOMAIN s : s[e] = "exec" /\ \A i \in Queue(s, e) : s[i] \notin Unqueued} = {L + 2}
        BY <1>4, <3>1, <4>1
      <4>3. Committed(s) = UNION {Queue(s, e) : e \in {L + 2}}
        BY <4>2 DEF Committed
      <4>4. UNION {Queue(s, e) : e \in {L + 2}} = Queue(s, L + 2)
        OBVIOUS
      <4> QED
        BY <2>1, <3>3, <4>3, <4>4
    <3> QED
      BY <3>2, <3>3
  <2>4. CASE Complains(s)
    BY <1>1, <1>5, <2>3, <2>4
  <2>5. CASE ~Complains(s)
    <3>1. ASSUME NEW i \in 1..L, script[i] \in Effective PROVE i + 1 \in TakesEffect(s)
      <4>1. i + 1 \in DOMAIN s /\ s[i + 1] = script[i] /\ i + 1 \in Committed(s)
        BY <1>1, <1>7, <2>3, <2>5
      <4> QED
        BY <3>1, <4>1 DEF TakesEffect
    <3>2. Cardinality(Queue(s, L + 2)) = L
      <4>1. Cardinality(2..(L + 1)) = L
        BY <1>1, FS_Interval
      <4> QED
        BY <2>1, <4>1
    <3>3. DOMAIN LastBlock(s) = 1..L /\ \A k \in 1..L : LastBlock(s)[k] = s[k + 1]
      <4>1. LastBlock(s) = [k \in 1..L |-> s[(L + 2) - 1 - L + k]]
        BY <1>1, <1>7, <3>2 DEF LastBlock
      <4>2. \A k \in 1..L : (L + 2) - 1 - L + k = k + 1
        BY <1>1
      <4> QED
        BY <4>1, <4>2
    <3> QED
      BY <1>1, <1>5, <1>7, <2>5, <3>1, <3>3
  <2> QED
    BY <2>4, <2>5
<1> QED
  BY <1>1, <1>6, <1>7 DEF AllOrNothing

LEMMA RunMultiStep == ASSUME GInv, NEW r \in Request, NEW o \in Outcome, RunMulti(r, o) PROVE GInv'
<1>1. pc[r] = "run" /\ Multi(r) /\ Release(r, Alive(o)) /\ UNCHANGED <<job, logs>>
  BY DEF RunMulti
<1>2. /\ pos[r] = 1 /\ pos[r] \in DOMAIN Script(r) /\ Script(r) \in Seq(Commands)
      /\ \A i \in DOMAIN Script(r) : i >= 1
  <2>1. Script(r) \in Seq(Commands)
    BY JobFacts DEF GInv
  <2>2. pos[r] = 1 /\ pos[r] \in DOMAIN Script(r)
    BY <1>1 DEF GInv, ProgressInv, Started
  <2> QED
    BY <2>1, <2>2
<1>3. PICK n, s, S :
        /\ n \in 0..Len(Sent(Script(r)))
        /\ s = SubSeq(Sent(Script(r)), 1, n) /\ S = {i \in DOMAIN Script(r) : i + 1 \in TakesEffect(s)}
        /\ Reads(o, n, Sent(Script(r))) /\ Ran(r, S)
        /\ IF o = "ok" /\ ~Complains(s)
           THEN Answer(r, [k \in DOMAIN LastBlock(s) |-> ResultOf(LastBlock(s)[k])], 200)
           ELSE Answer(r, Failed(o), 400)
  BY DEF RunMulti
<1>4. o \in {"ok", "error", "lost", "broken"}
  BY NamesAssumption DEF Outcome
<1>5. S \in SUBSET (DOMAIN Script(r)) /\ \A i \in S : i >= pos[r]
  BY <1>2, <1>3
<1>6. \A k \in DOMAIN Script(r) : pos[r] - 1 + k = k
  BY <1>2
<1>7. Plain(r) => \A i \in DOMAIN Script(r) : Script(r)[i] \notin Control
  BY <1>1 DEF Plain
<1>10. ASSUME Plain(r) PROVE AllOrNothing(Script(r), n, s)
  <2>1. Script(r) \in Seq(Commands)
    BY <1>2
  <2>2. \A i \in DOMAIN Script(r) : Script(r)[i] \notin Control
    BY <1>7, <1>10
  <2>3. n \in 0..Len(Sent(Script(r)))
    BY <1>3
  <2>4. s = SubSeq(Sent(Script(r)), 1, n)
    BY <1>3
  <2> QED
    BY <2>1, <2>2, <2>3, <2>4, PlainBlock
<1>8. CASE o = "ok" /\ ~Complains(s)
  <2>1. PICK all : /\ all = [k \in DOMAIN LastBlock(s) |-> ResultOf(LastBlock(s)[k])]
                   /\ Answer(r, all, 200)
    BY <1>3, <1>8
  <2>2. all \in Seq({"ok", "error", "unknown"})
    <3>1. PICK m \in Nat : DOMAIN LastBlock(s) = 1..m
      <4>1. Len(s) \in Int
        <5>1. Sent(Script(r)) \in Seq(Commands \cup {"multi", "exec"})
          BY <1>2, SentParts
        <5>2. n \in 0..Len(Sent(Script(r))) /\ s = SubSeq(Sent(Script(r)), 1, n)
          BY <1>3
        <5> QED
          BY <5>1, <5>2
      <4> QED
        BY <4>1, QueueFinite DEF LastBlock
    <3> QED
      BY <2>1, <3>1 DEF ResultOf
  <2>3. ASSUME Plain(r)
        PROVE  /\ DOMAIN all = DOMAIN Script(r)
               /\ \A k \in DOMAIN Script(r) :
                    /\ all[k] = "ok" => k \in S
                    /\ all[k] = "error" /\ Script(r)[k] # "script" => k \notin S
    <3>1. n = Len(Sent(Script(r)))
      <4>1. Len(Sent(Script(r))) \in Nat
        BY <1>2, SentParts
      <4> QED
        BY <1>3, <1>8 DEF Reads, Applied
    <3>2. /\ \A i \in DOMAIN Script(r) : i + 1 \in TakesEffect(s) <=> Script(r)[i] \in Effective
          /\ DOMAIN LastBlock(s) = DOMAIN Script(r)
          /\ \A i \in DOMAIN Script(r) : LastBlock(s)[i] = Script(r)[i]
      BY <1>8, <1>10, <2>3, <3>1 DEF AllOrNothing
    <3>3. S = {i \in DOMAIN Script(r) : i + 1 \in TakesEffect(s)}
      BY <1>3
    <3> QED
      BY <2>1, <3>2, <3>3 DEF ResultOf, Succeeds
  <2>4. Plain(r) => \A k \in DOMAIN all :
          pos[r] - 1 + k \in DOMAIN Script(r) /\ Script(r)[pos[r] - 1 + k] # "resttoken" =>
            /\ all[k] = "ok" => pos[r] - 1 + k \in S
            /\ all[k] = "error" /\ Script(r)[pos[r] - 1 + k] # "script" => pos[r] - 1 + k \notin S
    BY <1>6, <2>3
  <2>5. 200 \in {0, 200, 400, 401, 429, 500, 503} /\ ~(200 # 200)
    OBVIOUS
  <2>6. Ran(r, S)
    BY <1>3
  <2>7. Answer(r, all, 200)
    BY <2>1
  <2> QED
    BY <1>1, <1>5, <2>2, <2>4, <2>5, <2>6, <2>7, Ends
<1>9. CASE ~(o = "ok" /\ ~Complains(s))
  <2>1. PICK result \in {"error", "unknown"} :
          Answer(r, <<result>>, 400) /\ (result = "error" <=> o # "lost")
    BY <1>3, <1>9 DEF Failed
  <2>2. ASSUME Plain(r), result = "error" PROVE S = {}
    <3>1. n < Len(Sent(Script(r))) \/ (n = Len(Sent(Script(r))) /\ Complains(s))
      <4>1. Len(Sent(Script(r))) \in Nat /\ Len(Sent(Script(r))) > 0
        BY <1>2, SentParts
      <4> QED
        BY <1>3, <1>4, <1>9, <2>1, <2>2, <4>1 DEF Reads, Applied
    <3>2. \A i \in DOMAIN Script(r) : i + 1 \notin TakesEffect(s)
      BY <1>10, <2>2, <3>1 DEF AllOrNothing
    <3>3. S = {i \in DOMAIN Script(r) : i + 1 \in TakesEffect(s)}
      BY <1>3
    <3> QED
      BY <3>2, <3>3
  <2> DEFINE results == <<result>>
  <2>3. /\ results \in Seq({"ok", "error", "unknown"})
        /\ DOMAIN results = {1} /\ results[1] = result /\ Answer(r, results, 400)
        /\ result = "unknown" => results = <<"unknown">>
    BY <2>1
  <2> HIDE DEF results
  <2>4. /\ Plain(r) => \A k \in DOMAIN results : results[k] # "ok" /\ (results[k] = "error" => S = {})
        /\ Plain(r) /\ results # <<"unknown">> => S = {}
    BY <2>1, <2>2, <2>3
  <2> QED
    BY <1>1, <1>3, <1>5, <2>3, <2>4, Ends
<1> QED
  BY <1>8, <1>9

\* The inductive invariant of the request path (rest.go, commands.go, auth.go,
\* createRedisPool in main.go).
THEOREM GatewayInductive == Spec => []GInv
<1>1. GInv /\ [Next]_vars => GInv'
  <2> SUFFICES ASSUME GInv, [Next]_vars PROVE GInv'
    OBVIOUS
  <2>1. ASSUME NEW r \in Request, NEW v \in Verdict, Receive(r, v)
        PROVE  GInv'
    BY <2>1, ReceiveStep
  <2>2. ASSUME NEW r \in Request, Step(r) PROVE GInv'
    <3>1. ASSUME NEW c \in Conn, Borrow(r, c) PROVE GInv'
      BY <3>1, BorrowStep
    <3>2. ASSUME NEW o \in Outcome, Auth(r, o) \/ Run(r, o) \/ RunMulti(r, o) PROVE GInv'
      BY <3>2, AuthStep, RunStep, RunMultiStep
    <3>3. ASSUME Check(r) \/ Record(r) \/ DialFails(r) \/ NoAuth(r) PROVE GInv'
      BY <3>3, CheckStep, RecordStep, DialFailsStep, NoAuthStep
    <3> QED
      BY <2>2, <3>1, <3>2, <3>3 DEF Step
  <2>3. ASSUME NEW c \in Conn, IdleTimeout(c) PROVE GInv'
    BY <2>3, IdleTimeoutStep
  <2>4. CASE UNCHANGED vars
    <3>1. TypeOK' /\ PoolInv'
      BY <2>4 DEF GInv, vars, conns, logs, ran, TypeOK, PoolInv, Holding
    <3>2. ProgressInv' /\ RepliesHonest'
      BY <2>4, StaysHonest, Honest DEF GInv, vars, conns, logs, ran, ProgressInv, Started, Script, Multi
    <3>3. UserInv' /\ OwnUser'
      BY <2>4 DEF GInv, vars, conns, logs, ran, UserInv, OwnUser, Multi, Script
    <3> QED
      BY <3>1, <3>2, <3>3 DEF GInv
  <2> QED
    BY <2>1, <2>2, <2>3, <2>4 DEF Next
<1> QED
  BY InitGInv, <1>1, PTL DEF Spec

\* Every variable keeps its type (rest.go, commands.go, auth.go).
THEOREM GatewayTyped == Spec => []TypeOK
<1>1. GInv => TypeOK
  BY DEF GInv
<1> QED
  BY <1>1, GatewayInductive, PTL

\* With any number of requests and slots, no path through the handlers keeps a
\* connection or returns it twice (the deferred Close of commands.go:35, 77 and
\* auth.go:109).
THEOREM NeitherLeakedNorShared == Spec => []PoolConsistent
<1>1. ASSUME GInv PROVE PoolConsistent
  <2> SUFFICES ASSUME NEW c \in Conn
               PROVE  Cardinality({r \in Request : holds[r] = c}) = IF link[c] = "busy" THEN 1 ELSE 0
    BY DEF PoolConsistent
  <2>1. CASE link[c] = "busy"
    <3>1. PICK r \in Request : holds[r] = c
      BY <1>1, <2>1 DEF GInv, PoolInv
    <3>2. {q \in Request : holds[q] = c} = {r}
      BY <1>1, <3>1, NamesAssumption DEF GInv, PoolInv
    <3> QED
      BY <2>1, <3>2, FS_Singleton
  <2>2. CASE link[c] # "busy"
    <3>1. {q \in Request : holds[q] = c} = {}
      BY <1>1, <2>2, NamesAssumption DEF GInv, PoolInv
    <3> QED
      BY <2>2, <3>1, FS_EmptySet
  <2> QED
    BY <2>1, <2>2
<1> QED
  BY <1>1, GatewayInductive, PTL

\* A minted token's commands run as its own ACL user, whoever had the connection
\* before, whatever became of the AUTH and whatever AUTH or RESET left on it
\* (authRedisConn in commands.go:42-46, 82-86); but for a transaction that has one
\* of these in it.
THEOREM RunsAsItself == Spec => []OwnUser
<1>1. GInv => OwnUser
  BY DEF GInv
<1> QED
  BY <1>1, GatewayInductive, PTL

\* No command of a request runs twice.  If it is plain, a result means that the
\* command ran, and an error of Redis that it did not, in pipelines and transactions
\* too (commands.go:48-52, 88-117): for any script that has no MULTI, EXEC, DISCARD or
\* RESET in it, an error for the whole of a transaction means that none of it ran.
THEOREM RepliesAreHonest == Spec => []RepliesHonest
<1>1. GInv => RepliesHonest
  BY DEF GInv
<1> QED
  BY <1>1, GatewayInductive, PTL

-----------------------------------------------------------------------------
(* The recorder's file                                                     *)

Written(r, i) == \E k \in DOMAIN recorded[r] : recorded[r][k] = i

\* The file has a request's commands in order, up to the one at hand, which is
\* in it from Record on; what ran is in it.
RecordedAt(r) ==
  /\ \A k, l \in DOMAIN recorded[r] : k < l => recorded[r][k] < recorded[r][l]
  /\ \A k \in DOMAIN recorded[r] : recorded[r][k] <= pos[r]
  /\ pc[r] \in {"new", "check", "record"} => \A k \in DOMAIN recorded[r] : recorded[r][k] < pos[r]
  /\ pc[r] \in {"borrow", "auth", "run"} /\ ~Multi(r) /\ ~Minting(r) => Written(r, pos[r])
  /\ ~Multi(r) => \A i \in DOMAIN Script(r) : executed[r][i] > 0 => Written(r, i)

RecInv == \A r \in Request : RecordedAt(r)

\* How a step that leaves the file alone may move a request: on with the same
\* command, on to the next one or to the end, or in at the start.
Onward(r) ==
  \/ pos'[r] = pos[r] /\ pc'[r] \in {pc[r], "done"}
  \/ pos'[r] = pos[r] /\ pc[r] = "check" /\ pc'[r] = "record"
  \/ pos'[r] = pos[r] /\ pc[r] = "check" /\ pc'[r] = "borrow" /\ (Multi(r) \/ Minting(r))
  \/ pos'[r] = pos[r] /\ pc[r] \in {"borrow", "auth"} /\ pc'[r] \in {"auth", "run"}
  \/ pos'[r] = pos[r] + 1 /\ pc'[r] = "check"

\* Such a move keeps a request's part of the invariant, if what it ran was at
\* hand and in the file.
LEMMA KeepsRecorded ==
  ASSUME TypeOK, NEW r \in Request, RecordedAt(r), UNCHANGED <<job, recorded>>, Onward(r),
         \A i \in DOMAIN Script(r) : executed'[r][i] > 0 =>
           \/ executed[r][i] > 0
           \/ Multi(r) \/ (pc[r] = "run" /\ i = pos[r] /\ ~Minting(r))
  PROVE  RecordedAt(r)'
<1>1. /\ Script(r)' = Script(r) /\ (Multi(r)' <=> Multi(r)) /\ recorded' = recorded
      /\ (pos'[r] = pos[r] => (Minting(r)' <=> Minting(r)))
      /\ \A i : Written(r, i)' <=> Written(r, i)
  BY DEF Script, Multi, Minting, Command, Written
<1>2. pos[r] \in Nat /\ \A k \in DOMAIN recorded[r] : recorded[r][k] \in Nat
  BY DEF TypeOK
<1>3. /\ \A k \in DOMAIN recorded[r] : recorded[r][k] <= pos'[r]
      /\ pc'[r] \in {"new", "check", "record"} => \A k \in DOMAIN recorded[r] : recorded[r][k] < pos'[r]
  BY <1>2 DEF Onward, RecordedAt
<1>4. pc'[r] \in {"borrow", "auth", "run"} /\ ~Multi(r) /\ ~Minting(r)' => Written(r, pos'[r])
  BY <1>1 DEF Onward, RecordedAt
<1>5. ~Multi(r) => \A i \in DOMAIN Script(r) : executed'[r][i] > 0 => Written(r, i)
  BY DEF RecordedAt
<1> QED
  BY <1>1, <1>3, <1>4, <1>5 DEF RecordedAt

\* A step of one request that leaves the file alone.
LEMMA OthersRecorded ==
  ASSUME GInv, RecInv, NEW r \in Request, UNCHANGED <<job, recorded>>, Onward(r),
         \A q \in Request \ {r} : pc'[q] = pc[q] /\ pos'[q] = pos[q] /\ executed'[q] = executed[q],
         \A i \in DOMAIN Script(r) : executed'[r][i] > 0 =>
           \/ executed[r][i] > 0
           \/ Multi(r) \/ (pc[r] = "run" /\ i = pos[r] /\ ~Minting(r))
  PROVE  RecInv'
<1>1. TypeOK
  BY DEF GInv
<1>2. ASSUME NEW q \in Request PROVE RecordedAt(q)'
  <2>1. RecordedAt(q)
    BY DEF RecInv
  <2>2. CASE q = r
    BY <1>1, <2>1, <2>2, KeepsRecorded
  <2>3. CASE q # r
    <3>1. Onward(q) /\ executed'[q] = executed[q]
      BY <2>3 DEF Onward
    <3> QED
      BY <1>1, <2>1, <3>1, KeepsRecorded
  <2> QED
    BY <2>2, <2>3
<1> QED
  BY <1>2 DEF RecInv

\* An answer moves its request onward, and no other.
LEMMA AnswerOnward ==
  ASSUME GInv, NEW r \in Request, Started(r),
         NEW results \in Seq({"ok", "error", "unknown"}),
         NEW code \in {0, 200, 400, 401, 429, 500, 503},
         Answer(r, results, code)
  PROVE  Onward(r) /\ \A q \in Request \ {r} : pc'[q] = pc[q] /\ pos'[q] = pos[q]
<1>1. TypeOK /\ ProgressInv
  BY DEF GInv
<1>2. /\ pc'[r] \in {"check", "done"}
      /\ \A q \in Request \ {r} : pc'[q] = pc[q] /\ pos'[q] = pos[q]
      /\ pc'[r] = "check" => pos'[r] = pos[r] + 1
  BY <1>1, AnswerStep
<1>3. CASE pc'[r] = "done"
  <2>1. pc[r] \in {"check", "record", "borrow", "auth", "run"}
    BY <1>1 DEF TypeOK, Started
  <2>2. UNCHANGED pos
    <3>1. ~(job[r].kind = "pipeline" /\ pos[r] < Len(Script(r)))
      BY <1>1, <1>3 DEF Answer, TypeOK
    <3> QED
      BY <3>1 DEF Answer
  <2> QED
    BY <1>2, <1>3, <2>2 DEF Onward
<1> QED
  BY <1>2, <1>3 DEF Onward

\* In particular an answer to one command.
LEMMA OneAnswerOnward ==
  ASSUME GInv, NEW r \in Request, Started(r),
         NEW result \in {"ok", "error", "unknown"},
         NEW code \in {0, 200, 400, 401, 429, 500, 503},
         Answer(r, <<result>>, code)
  PROVE  Onward(r) /\ \A q \in Request \ {r} : pc'[q] = pc[q] /\ pos'[q] = pos[q]
<1> DEFINE results == <<result>>
<1>1. results \in Seq({"ok", "error", "unknown"}) /\ Answer(r, results, code)
  OBVIOUS
<1> HIDE DEF results
<1> QED
  BY <1>1, AnswerOnward

\* Executed only if recorded, in order and once: the inductive step.
LEMMA RecordedStep ==
  ASSUME GInv, RecInv, NEW r \in Request, Step(r)
  PROVE  RecInv'
<1> USE DEF GInv
<1>1. CASE Record(r)
  <2>1. /\ pc[r] = "record" /\ recorded' = [recorded EXCEPT ![r] = Append(recorded[r], pos[r])]
        /\ pc' = [pc EXCEPT ![r] = "borrow"]
        /\ UNCHANGED <<job, pos, executed>>
    BY <1>1 DEF Record, ran
  <2>2. ASSUME NEW q \in Request \ {r} PROVE RecordedAt(q)'
    <3>1. /\ recorded'[q] = recorded[q] /\ pc'[q] = pc[q] /\ pos'[q] = pos[q]
          /\ executed'[q] = executed[q]
      BY <2>1, <2>2 DEF TypeOK
    <3>2. RecordedAt(q)
      BY DEF RecInv
    <3> QED
      BY <2>1, <3>1, <3>2 DEF RecordedAt, Written, Script, Multi, Minting, Command
  <2>3. RecordedAt(r)'
    <3>1. recorded[r] \in Seq(Nat) /\ pos[r] \in Nat /\ pc'[r] = "borrow"
      BY <2>1 DEF TypeOK
    <3>2. recorded'[r] = Append(recorded[r], pos[r])
      BY <2>1 DEF TypeOK
    <3> DEFINE n == Len(recorded[r])
    <3>3. /\ n \in Nat /\ DOMAIN recorded[r] = 1..n /\ DOMAIN recorded'[r] = 1..(n + 1)
          /\ recorded'[r][n + 1] = pos[r]
          /\ \A k \in 1..n : recorded'[r][k] = recorded[r][k] /\ recorded[r][k] \in Nat
      BY <3>1, <3>2
    <3> HIDE DEF n
    <3>4. RecordedAt(r)
      BY DEF RecInv
    <3>5. \A k \in 1..n : recorded[r][k] < pos[r]
      BY <2>1, <3>3, <3>4 DEF RecordedAt
    <3>6. \A k, l \in DOMAIN recorded'[r] : k < l => recorded'[r][k] < recorded'[r][l]
      <4>1. ASSUME NEW k \in 1..(n + 1), NEW l \in 1..(n + 1), k < l
            PROVE  recorded'[r][k] < recorded'[r][l]
        <5>1. k \in 1..n
          BY <3>3, <4>1
        <5>2. CASE l = n + 1
          BY <3>3, <3>5, <5>1, <5>2
        <5>3. CASE l \in 1..n
          BY <3>3, <3>4, <4>1, <5>1, <5>3 DEF RecordedAt
        <5> QED
          BY <3>3, <5>2, <5>3
      <4> QED
        BY <3>3, <4>1
    <3>7. \A k \in DOMAIN recorded'[r] : recorded'[r][k] <= pos[r]
      BY <3>1, <3>3, <3>5
    <3>8. Written(r, pos[r])'
      BY <2>1, <3>3 DEF Written
    <3>9. ASSUME NEW i, Written(r, i) PROVE Written(r, i)'
      <4>1. PICK k \in 1..n : recorded[r][k] = i
        BY <3>3, <3>9 DEF Written
      <4>2. k \in DOMAIN recorded'[r] /\ recorded'[r][k] = i
        BY <3>3, <4>1
      <4> QED
        BY <4>2 DEF Written
    <3> QED
      BY <2>1, <3>1, <3>4, <3>6, <3>7, <3>8, <3>9 DEF RecordedAt, Script, Multi
  <2> QED
    BY <2>2, <2>3 DEF RecInv
<1>2. CASE Check(r)
  <2>1. pc[r] = "check" /\ Started(r) /\ UNCHANGED <<job, recorded, executed>>
    BY <1>2 DEF Check, Started, ran
  <2>2. CASE Answer(r, <<"error">>, 400)
    <3>1. Onward(r) /\ \A q \in Request \ {r} : pc'[q] = pc[q] /\ pos'[q] = pos[q]
      BY <2>1, <2>2, OneAnswerOnward
    <3> QED
      BY <2>1, <3>1, OthersRecorded
  <2>3. CASE /\ pc' = [pc EXCEPT ![r] = IF Multi(r) \/ Minting(r) THEN "borrow" ELSE "record"]
             /\ UNCHANGED pos
    <3>1. pc'[r] = IF Multi(r) \/ Minting(r) THEN "borrow" ELSE "record"
      BY <2>3 DEF TypeOK
    <3>2. Onward(r) /\ \A q \in Request \ {r} : pc'[q] = pc[q] /\ pos'[q] = pos[q]
      BY <2>1, <2>3, <3>1 DEF Onward, TypeOK
    <3> QED
      BY <2>1, <3>2, OthersRecorded
  <2> QED
    BY <1>2, <2>2, <2>3 DEF Check
<1>3. ASSUME NEW c \in Conn, Borrow(r, c) PROVE RecInv'
  <2>1. /\ pc[r] = "borrow" /\ pc' = [pc EXCEPT ![r] = "auth"]
        /\ UNCHANGED <<job, pos, recorded, executed>>
    BY <1>3 DEF Borrow, logs, ran
  <2>2. Onward(r) /\ \A q \in Request \ {r} : pc'[q] = pc[q] /\ pos'[q] = pos[q]
    BY <2>1 DEF Onward, TypeOK
  <2> QED
    BY <2>1, <2>2, OthersRecorded
<1>4. CASE DialFails(r)
  <2>1. pc[r] = "borrow" /\ Started(r) /\ UNCHANGED <<job, recorded, executed>>
    BY <1>4 DEF DialFails, Started, logs, ran
  <2>2. PICK code \in {400, 503} : Answer(r, <<"error">>, code)
    BY <1>4 DEF DialFails
  <2>3. Onward(r) /\ \A q \in Request \ {r} : pc'[q] = pc[q] /\ pos'[q] = pos[q]
    BY <2>1, <2>2, OneAnswerOnward
  <2> QED
    BY <2>1, <2>3, OthersRecorded
<1>5. CASE NoAuth(r)
  <2>1. /\ pc[r] = "auth" /\ pc' = [pc EXCEPT ![r] = "run"]
        /\ UNCHANGED <<job, pos, recorded, executed>>
    BY <1>5 DEF NoAuth, logs, ran
  <2>2. Onward(r) /\ \A q \in Request \ {r} : pc'[q] = pc[q] /\ pos'[q] = pos[q]
    BY <2>1 DEF Onward, TypeOK
  <2> QED
    BY <2>1, <2>2, OthersRecorded
<1>6. ASSUME NEW o \in Outcome, Auth(r, o) PROVE RecInv'
  <2>1. pc[r] = "auth" /\ Started(r) /\ UNCHANGED <<job, recorded, executed>>
    BY <1>6 DEF Auth, Started, ran
  <2>2. CASE o = "ok" /\ ~Minting(r)
    <3>1. pc' = [pc EXCEPT ![r] = "run"] /\ UNCHANGED pos
      BY <1>6, <2>2 DEF Auth
    <3>2. Onward(r) /\ \A q \in Request \ {r} : pc'[q] = pc[q] /\ pos'[q] = pos[q]
      BY <2>1, <3>1 DEF Onward, TypeOK
    <3> QED
      BY <2>1, <3>2, OthersRecorded
  <2>3. CASE ~(o = "ok" /\ ~Minting(r))
    <3>1. PICK result \in {"ok", "error"}, code \in {200, 400} : Answer(r, <<result>>, code)
      BY <1>6, <2>3 DEF Auth
    <3>2. Onward(r) /\ \A q \in Request \ {r} : pc'[q] = pc[q] /\ pos'[q] = pos[q]
      BY <2>1, <3>1, OneAnswerOnward
    <3> QED
      BY <2>1, <3>2, OthersRecorded
  <2> QED
    BY <2>2, <2>3
<1>7. ASSUME NEW o \in Outcome, Run(r, o) PROVE RecInv'
  <2>1. pc[r] = "run" /\ ~Multi(r) /\ Started(r) /\ Holding(r) /\ UNCHANGED <<job, recorded>>
    BY <1>7 DEF Run, logs, Started, Holding
  <2>2. PICK result \in {"ok", "error", "unknown"}, code \in {200, 400} : Answer(r, <<result>>, code)
    BY <1>7 DEF Run, Failed
  <2>3. Onward(r) /\ \A q \in Request \ {r} : pc'[q] = pc[q] /\ pos'[q] = pos[q]
    BY <2>1, <2>2, OneAnswerOnward
  <2>4. PICK S \in SUBSET (DOMAIN Script(r)) :
          Ran(r, S) /\ S \subseteq {pos[r]} /\ (S # {} => Command(r) \in Effective)
    BY <1>7, <2>1 DEF Run, ProgressInv
  <2>5. /\ \A q \in Request \ {r} : executed'[q] = executed[q]
        /\ \A i \in DOMAIN Script(r) : executed'[r][i] > 0 =>
             executed[r][i] > 0 \/ (i = pos[r] /\ ~Minting(r))
    <3>1. holds[r] \in Conn
      BY <2>1, NamesAssumption DEF PoolInv, TypeOK
    <3>2. /\ \A q \in Request \ {r} : executed'[q] = executed[q]
          /\ \A i \in DOMAIN Script(r) : executed'[r][i] =
               IF i \in S THEN executed[r][i] + 1 ELSE executed[r][i]
      BY <2>4, <3>1, RanStep
    <3>3. S # {} => ~Minting(r)
      BY <2>4 DEF Minting, Effective
    <3> QED
      BY <2>4, <3>2, <3>3
  <2> QED
    BY <2>1, <2>3, <2>5, OthersRecorded
<1>8. ASSUME NEW o \in Outcome, RunMulti(r, o) PROVE RecInv'
  <2>1. pc[r] = "run" /\ Multi(r) /\ Started(r) /\ Holding(r) /\ UNCHANGED <<job, recorded>>
    BY <1>8 DEF RunMulti, logs, Started, Holding
  <2>2. PICK results \in Seq({"ok", "error", "unknown"}), code \in {200, 400} :
          Answer(r, results, code)
    <3>1. Script(r) \in Seq(Commands)
      BY JobFacts
    <3>2. ASSUME NEW n \in 0..Len(Sent(Script(r))), NEW s, s = SubSeq(Sent(Script(r)), 1, n)
          PROVE  [k \in DOMAIN LastBlock(s) |-> ResultOf(LastBlock(s)[k])] \in Seq({"ok", "error", "unknown"})
      <4>1. Len(s) \in Int
        <5>1. Sent(Script(r)) \in Seq(Commands \cup {"multi", "exec"})
          BY <3>1, SentParts
        <5> QED
          BY <3>2, <5>1
      <4>2. PICK m \in Nat : DOMAIN LastBlock(s) = 1..m
        BY <4>1, QueueFinite DEF LastBlock
      <4> QED
        BY <4>2 DEF ResultOf
    <3>3. Failed(o) \in Seq({"ok", "error", "unknown"})
      <4>1. <<"unknown">> \in Seq({"ok", "error", "unknown"}) /\ <<"error">> \in Seq({"ok", "error", "unknown"})
        OBVIOUS
      <4> QED
        BY <4>1 DEF Failed
    <3>4. PICK n, s, S :
            /\ n \in 0..Len(Sent(Script(r)))
            /\ s = SubSeq(Sent(Script(r)), 1, n) /\ S = {i \in DOMAIN Script(r) : i + 1 \in TakesEffect(s)}
            /\ Reads(o, n, Sent(Script(r))) /\ Ran(r, S)
            /\ IF o = "ok" /\ ~Complains(s)
               THEN Answer(r, [k \in DOMAIN LastBlock(s) |-> ResultOf(LastBlock(s)[k])], 200)
               ELSE Answer(r, Failed(o), 400)
      BY <1>8 DEF RunMulti
    <3>5. PICK all, failed :
            /\ all = [k \in DOMAIN LastBlock(s) |-> ResultOf(LastBlock(s)[k])] /\ failed = Failed(o)
            /\ Answer(r, all, 200) \/ Answer(r, failed, 400)
      BY <3>4
    <3>6. n \in 0..Len(Sent(Script(r))) /\ s = SubSeq(Sent(Script(r)), 1, n)
      BY <3>4
    <3>7. all \in Seq({"ok", "error", "unknown"}) /\ failed \in Seq({"ok", "error", "unknown"})
      BY <3>2, <3>3, <3>5, <3>6
    <3> QED
      BY <3>5, <3>7
  <2>3. Onward(r) /\ \A q \in Request \ {r} : pc'[q] = pc[q] /\ pos'[q] = pos[q]
    BY <2>1, <2>2, AnswerOnward
  <2>4. \A q \in Request \ {r} : executed'[q] = executed[q]
    <3>1. holds[r] \in Conn
      BY <2>1, NamesAssumption DEF PoolInv, TypeOK
    <3>2. PICK S \in SUBSET (DOMAIN Script(r)) : Ran(r, S)
      BY <1>8 DEF RunMulti
    <3> QED
      BY <3>1, <3>2, RanStep
  <2> QED
    BY <2>1, <2>3, <2>4, OthersRecorded
<1> QED
  BY <1>1, <1>2, <1>3, <1>4, <1>5, <1>6, <1>7, <1>8 DEF Step

\* What Redis ran outside a transaction is in the recorder's file, once, and the
\* file has a request's commands in order, whatever the other requests write in
\* between and whichever round trips fail (Recorder.Record at commands.go:30-32).
THEOREM RunsAreRecorded == Spec => []ExecutedIsRecorded
<1>1. Init => RecInv
  <2> SUFFICES ASSUME Init, NEW r \in Request PROVE RecordedAt(r)
    BY DEF RecInv
  <2>1. recorded[r] = <<>> /\ pc[r] = "new" /\ \A i \in DOMAIN Script(r) : executed[r][i] = 0
    BY DEF Init, Script
  <2> QED
    BY <2>1 DEF RecordedAt
<1>2. GInv /\ RecInv /\ [Next]_vars => RecInv'
  <2> SUFFICES ASSUME GInv, RecInv, [Next]_vars PROVE RecInv'
    OBVIOUS
  <2>1. ASSUME NEW r \in Request, NEW v \in Verdict, Receive(r, v) PROVE RecInv'
    <3>1. /\ pc[r] = "new" /\ pos' = [pos EXCEPT ![r] = 1]
          /\ UNCHANGED <<job, recorded, executed>>
      BY <2>1 DEF Receive, logs, ran
    <3>2. PICK stage \in {"check", "done"} : pc' = [pc EXCEPT ![r] = stage]
      BY <2>1 DEF Receive
    <3>3. pos[r] = 0
      BY <3>1 DEF GInv, ProgressInv
    <3>4. pos'[r] = pos[r] + 1 /\ pc'[r] = stage
      BY <3>1, <3>2, <3>3 DEF GInv, TypeOK
    <3>5. \A q \in Request \ {r} : RecordedAt(q)'
      <4>1. \A q \in Request \ {r} : pc'[q] = pc[q] /\ pos'[q] = pos[q]
        BY <3>1, <3>2 DEF GInv, TypeOK
      <4> QED
        BY <3>1, <4>1 DEF RecInv, RecordedAt, Written, Script, Multi, Minting, Command
    <3>6. RecordedAt(r)'
      BY <3>1, <3>3, <3>4 DEF GInv, TypeOK, RecInv, RecordedAt, Written, Script, Multi
    <3> QED
      BY <3>5, <3>6 DEF RecInv
  <2>2. ASSUME NEW r \in Request, Step(r) PROVE RecInv'
    BY <2>2, RecordedStep
  <2>3. CASE UNCHANGED <<job, pc, pos, recorded, executed>>
    BY <2>3 DEF RecInv, RecordedAt, Written, Script, Multi, Minting, Command
  <2>4. ASSUME NEW c \in Conn, IdleTimeout(c) PROVE RecInv'
    BY <2>3, <2>4 DEF IdleTimeout, logs, ran
  <2>5. CASE UNCHANGED vars
    BY <2>3, <2>5 DEF vars, logs, ran
  <2> QED
    BY <2>1, <2>2, <2>4, <2>5 DEF Next
<1>3. ASSUME GInv, RecInv PROVE ExecutedIsRecorded
  <2> SUFFICES ASSUME NEW r \in Request, ~Multi(r), NEW i \in DOMAIN Script(r), executed[r][i] > 0
               PROVE  Cardinality({k \in DOMAIN recorded[r] : recorded[r][k] = i}) = 1
    BY <1>3 DEF ExecutedIsRecorded, RecInv, RecordedAt
  <2>1. PICK k \in DOMAIN recorded[r] : recorded[r][k] = i
    BY <1>3 DEF RecInv, RecordedAt, Written
  <2>2. ASSUME NEW l \in DOMAIN recorded[r], recorded[r][l] = i PROVE l = k
    <3>1. /\ k \in Nat /\ l \in Nat /\ recorded[r][k] \in Nat /\ recorded[r][l] \in Nat
      BY <1>3 DEF GInv, TypeOK
    <3>2. /\ k < l => recorded[r][k] < recorded[r][l]
          /\ l < k => recorded[r][l] < recorded[r][k]
      BY <1>3 DEF RecInv, RecordedAt
    <3> QED
      BY <2>1, <2>2, <3>1, <3>2
  <2>3. {l \in DOMAIN recorded[r] : recorded[r][l] = i} = {k}
    BY <2>1, <2>2
  <2> QED
    BY <2>3, FS_Singleton
<1> QED
  BY <1>1, <1>2, <1>3, GatewayInductive, PTL DEF Spec

-----------------------------------------------------------------------------
(* What the client decodes (response.go), for replies of any depth and     *)
(* batches of any length.                                                  *)

\* One node after another: what the layers make of it, what the client reads, and
\* what it should.
Wire(n, base64) ==
  LET m == IF n.kind \in {"bytes", "error"} THEN Value("string", n.of) ELSE n
      e == IF m.kind \in {"bytes", "string"}
           THEN Value("string", IF base64 /\ m.of # OK THEN Encoded(m.of) ELSE m.of) ELSE m
  IN  IF e.kind = "string" THEN Value("string", Valid(e.of)) ELSE e
Decode(n, base64) ==
  IF base64 /\ n.kind = "string" /\ n.of # OK THEN Value("string", Decoded(n.of)) ELSE n
Mean(n) == IF n.kind \in {"bytes", "error"} THEN Value("string", n.of) ELSE n

LEMMA Parts == ASSUME NEW kind, NEW x PROVE Value(kind, x).kind = kind /\ Value(kind, x).of = x
  BY DEF Value

LEMMA Replaced == \A t : Valid(t) = t <=> t # Binary
  BY DEF Valid, Binary, Text

\* A text that base64 was applied to is neither "OK" nor replaced; of the others
\* those that are not UTF-8 are replaced.
LEMMA NodeDecodes ==
  ASSUME NEW n, n.kind \in Kinds, NEW raw, n = Value(n.kind, Text(raw)), NEW base64 \in BOOLEAN
  PROVE  Decode(Wire(n, base64), base64) = Mean(n) <=> base64 \/ n.kind \notin Texts \/ n.of # Binary
<1> DEFINE t == Text(raw)
<1>1. n.of = t
  BY DEF Value
<1>2. /\ Encoded(t).layers = 1 /\ Decoded(Encoded(t)) = t
      /\ Encoded(t) # OK /\ Encoded(t) # Binary /\ OK # Binary
  <2>1. Encoded(t) = [raw |-> raw, layers |-> 1]
    BY DEF Encoded, Text
  <2>2. Decoded([raw |-> raw, layers |-> 1]) = t
    BY DEF Decoded, Text
  <2>3. OK.layers = 0 /\ Binary.layers = 0 /\ OK.raw # Binary.raw
    BY DEF OK, Binary, Text
  <2> QED
    BY <2>1, <2>2, <2>3
<1>3. Valid(Encoded(t)) = Encoded(t) /\ Valid(OK) = OK
  BY <1>2, Replaced
<1>4. CASE n.kind \in {"bytes", "error", "string"}
  <2>0. Mean(n) = Value("string", t) /\ n.kind \in Texts
    BY <1>1, <1>4 DEF Mean, Texts
  <2>1. CASE base64 /\ t # OK
    <3>1. Wire(n, base64) = Value("string", Encoded(t))
      BY <1>1, <1>3, <1>4, <2>1 DEF Wire, Value
    <3>2. Decode(Value("string", Encoded(t)), base64) = Value("string", Decoded(Encoded(t)))
      <4>1. Value("string", Encoded(t)).kind = "string" /\ Value("string", Encoded(t)).of = Encoded(t)
        BY DEF Value
      <4> QED
        BY <1>2, <2>1, <4>1 DEF Decode
    <3> QED
      BY <1>2, <2>0, <2>1, <3>1, <3>2
  <2>2. CASE ~(base64 /\ t # OK)
    <3>1. PICK u : u = Valid(t)
      OBVIOUS
    <3>2. Wire(n, base64) = Value("string", u)
      BY <1>1, <1>4, <2>2, <3>1 DEF Wire, Value
    <3>3. base64 => u = OK /\ t # Binary
      BY <1>2, <1>3, <2>2, <3>1
    <3>4. Decode(Value("string", u), base64) = Value("string", u)
      BY <3>3, Parts DEF Decode
    <3>5. Value("string", u) = Value("string", t) <=> t # Binary
      BY <3>1, Replaced, Parts
    <3> QED
      BY <1>1, <2>0, <3>2, <3>3, <3>4, <3>5
  <2> QED
    BY <2>1, <2>2
<1>5. CASE n.kind \in {"nil", "int", "list"}
  BY <1>5 DEF Wire, Decode, Mean, Texts
<1> QED
  BY <1>4, <1>5 DEF Kinds

\* A result on the wire.
Wired(d, base64) == MarshalOne(EncodeOne(d, base64))

\* What is done to a result, and to each result of a list.
LEMMA OneByOne ==
  ASSUME NEW base64
  PROVE  /\ \A d : d.kind # "list" => /\ encodeResponseData(d, base64) = EncodeOne(d, base64)
                                     /\ Marshal(d) = MarshalOne(d)
                                     /\ Read(d, base64) = ReadOne(d, base64)
         /\ \A x : /\ encodeResponseData(Value("list", x), base64)
                       = Value("list", [i \in DOMAIN x |-> EncodeOne(x[i], base64)])
                 /\ Marshal(Value("list", x)) = Value("list", [i \in DOMAIN x |-> MarshalOne(x[i])])
                 /\ Read(Value("list", x), base64) = Value("list", [i \in DOMAIN x |-> ReadOne(x[i], base64)])
<1>1. \A d : d.kind # "list" => /\ encodeResponseData(d, base64) = EncodeOne(d, base64)
                               /\ Marshal(d) = MarshalOne(d)
                               /\ Read(d, base64) = ReadOne(d, base64)
  BY DEF encodeResponseData, Marshal, Read, Each
<1>2. \A d, x : d.kind = "list" /\ d.of = x =>
        /\ encodeResponseData(d, base64) = Value("list", [i \in DOMAIN x |-> EncodeOne(x[i], base64)])
        /\ Marshal(d) = Value("list", [i \in DOMAIN x |-> MarshalOne(x[i])])
        /\ Read(d, base64) = Value("list", [i \in DOMAIN x |-> ReadOne(x[i], base64)])
  BY DEF encodeResponseData, Marshal, Read, Each
<1> QED
  BY <1>1, <1>2, Parts

\* A reply that is no list has no elements.
LEMMA OnlyTop ==
  ASSUME NEW v, IsReply(v), Top(v).kind # "list"
  PROVE  DOMAIN v = {<<>>}
<1>1. ASSUME NEW p \in DOMAIN v, p # <<>> PROVE FALSE
  <2>1. p \in Seq(Nat) /\ Len(p) > 0
    BY <1>1 DEF IsReply
  <2>2. SubSeq(p, 1, 0) = <<>>
    BY <2>1
  <2>3. v[SubSeq(p, 1, 0)].kind = "list"
    BY <2>1 DEF IsReply
  <2> QED
    BY <2>2, <2>3 DEF Top
<1> QED
  BY <1>1 DEF IsReply

LEMMA Wanted ==
  ASSUME NEW format \in {"json", "base64"}, NEW base64, base64 = wantsBase64(format)
  PROVE  base64 \in BOOLEAN /\ (base64 <=> format = "base64")
<1>1. wantsBase64(format) = (format = "base64")
  BY DEF wantsBase64
<1>2. CASE format = "base64"
  <2>1. base64 = TRUE
    BY <1>1, <1>2, Zenon
  <2> QED
    BY <1>2, <2>1
<1>3. CASE format # "base64"
  <2>1. base64 = FALSE
    BY <1>1, <1>3, Zenon
  <2> QED
    BY <1>3, <2>1
<1> QED
  BY <1>2, <1>3

\* JSON, with and without base64, decodes exactly if it can carry the reply.
LEMMA ResultDecodes ==
  ASSUME NEW v, IsReply(v), NEW format \in {"json", "base64"},
         NEW base64 \in BOOLEAN, base64 <=> format = "base64"
  PROVE  ReadOne(Wired(Result(v), base64), base64) = Said(v) <=> Carried(v, format)
<1>1. CASE Top(v).kind = "error"
  <2>1. PICK x, y : x = Top(v).of /\ y = Valid(x)
    OBVIOUS
  <2>2. Result(v) = Value("failure", x) /\ Said(v) = Value("failure", x)
    BY <1>1, <2>1 DEF Result, Said
  <2>3. EncodeOne(Value("failure", x), base64) = Value("failure", x)
    BY Parts DEF EncodeOne
  <2>4. MarshalOne(Value("failure", x)) = Value("failure", y)
    BY <2>1, Parts DEF MarshalOne
  <2>5. ReadOne(Value("failure", y), base64) = Value("failure", y)
    BY Parts DEF ReadOne
  <2>6. Value("failure", y) = Value("failure", x) <=> x # Binary
    BY <2>1, Parts, Replaced
  <2>7. Carried(v, format) <=> x # Binary
    <3>1. DOMAIN v = {<<>>}
      BY <1>1, OnlyTop
    <3>2. v[<<>>].kind = "error" /\ v[<<>>].of = x
      BY <1>1, <2>1 DEF Top
    <3> QED
      BY <3>1, <3>2 DEF Carried, Texts, Top
  <2> QED
    BY <2>2, <2>3, <2>4, <2>5, <2>6, <2>7 DEF Wired
<1>2. CASE Top(v).kind # "error"
  <2>1. PICK c, e, w :
          /\ c = convertRedisResult(v, FALSE) /\ e = convertValue(c, base64)
          /\ w = [p \in DOMAIN v |-> Wire(v[p], base64)]
    OBVIOUS
  <2>2. Result(v) = Value("success", c) /\ Said(v) = Value("success", Meaning(v))
    BY <1>2, <2>1 DEF Result, Said
  <2>3. EncodeOne(Value("success", c), base64) = Value("success", e)
    <3>1. PICK d : d = Value("success", c)
      OBVIOUS
    <3>2. d.kind = "success" /\ d.of = c
      BY <3>1, Parts
    <3>3. EncodeOne(d, base64) = Value("success", convertValue(d.of, base64))
      BY <3>2 DEF EncodeOne
    <3>4. convertValue(d.of, base64) = e
      BY <2>1, <3>2, Zenon
    <3> QED
      BY <3>1, <3>3, <3>4, Zenon
  <2>4. MarshalOne(Value("success", e)) = Value("success", w)
    <3>1. DOMAIN c = DOMAIN v /\ DOMAIN e = DOMAIN v /\ DOMAIN w = DOMAIN v
      BY <2>1 DEF convertRedisResult, convertValue
    <3>2. \A p \in DOMAIN v :
            c[p] = IF v[p].kind \in {"bytes", "error"} THEN Value("string", v[p].of) ELSE v[p]
      BY <2>1 DEF convertRedisResult
    <3>3. \A p \in DOMAIN v :
            e[p] = IF c[p].kind \in {"bytes", "string"}
                   THEN Value("string", IF base64 /\ c[p].of # OK THEN Encoded(c[p].of) ELSE c[p].of) ELSE c[p]
      BY <2>1, <3>1 DEF convertValue
    <3>4. \A p \in DOMAIN v : w[p] = IF e[p].kind = "string" THEN Value("string", Valid(e[p].of)) ELSE e[p]
      <4> SUFFICES ASSUME NEW p \in DOMAIN v
                   PROVE  w[p] = IF e[p].kind = "string" THEN Value("string", Valid(e[p].of)) ELSE e[p]
        OBVIOUS
      <4>1. PICK m : m = IF v[p].kind \in {"bytes", "error"} THEN Value("string", v[p].of) ELSE v[p]
        OBVIOUS
      <4>2. PICK n : n = IF m.kind \in {"bytes", "string"}
                         THEN Value("string", IF base64 /\ m.of # OK THEN Encoded(m.of) ELSE m.of) ELSE m
        OBVIOUS
      <4>3. c[p] = m /\ e[p] = n
        BY <3>2, <3>3, <4>1, <4>2
      <4>4. Wire(v[p], base64) = IF n.kind = "string" THEN Value("string", Valid(n.of)) ELSE n
        BY <4>1, <4>2 DEF Wire
      <4> QED
        BY <2>1, <4>3, <4>4
    <3>5. w = [p \in DOMAIN e |-> IF e[p].kind = "string" THEN Value("string", Valid(e[p].of)) ELSE e[p]]
      BY <2>1, <3>1, <3>4
    <3> QED
      BY <3>5, Parts DEF MarshalOne
  <2>5. PICK d : d = [p \in DOMAIN w |-> Decode(w[p], base64)]
    OBVIOUS
  <2>6. ReadOne(Value("success", w), base64) = Value("success", d)
    BY <2>5, Parts DEF ReadOne, Decode
  <2>7. Value("success", d) = Value("success", Meaning(v)) <=> d = Meaning(v)
    BY Parts
  <2>8. d = Meaning(v) <=> \A p \in DOMAIN v : base64 \/ v[p].kind \notin Texts \/ v[p].of # Binary
    <3>1. Meaning(v) = [p \in DOMAIN v |-> Mean(v[p])]
      BY DEF Meaning, Mean
    <3>2. d = [p \in DOMAIN v |-> Decode(Wire(v[p], base64), base64)]
      BY <2>1, <2>5
    <3>3. ASSUME NEW p \in DOMAIN v
          PROVE  Decode(Wire(v[p], base64), base64) = Mean(v[p])
                   <=> base64 \/ v[p].kind \notin Texts \/ v[p].of # Binary
      <4>1. v[p].kind \in Kinds /\ v[p] = Value(v[p].kind, Text(v[p].of.raw))
        BY DEF IsReply
      <4> QED
        BY <4>1, NodeDecodes
    <3>4. d = Meaning(v) <=> \A p \in DOMAIN v : Decode(Wire(v[p], base64), base64) = Mean(v[p])
      BY <3>1, <3>2
    <3> QED
      BY <3>3, <3>4
  <2>9. Carried(v, format) <=> \A p \in DOMAIN v : base64 \/ v[p].kind \notin Texts \/ v[p].of # Binary
    BY <1>2 DEF Carried
  <2> QED
    BY <2>2, <2>3, <2>4, <2>6, <2>7, <2>8, <2>9 DEF Wired
<1> QED
  BY <1>1, <1>2

\* None of these is a list of results.
LEMMA ResultKinds ==
  ASSUME NEW v, NEW base64
  PROVE  /\ Result(v).kind \in {"success", "failure"}
         /\ EncodeOne(Result(v), base64).kind \in {"success", "failure"}
         /\ Wired(Result(v), base64).kind \in {"success", "failure"}
<1>1. Result(v).kind \in {"success", "failure"}
  BY Parts DEF Result
<1>2. \A d : d.kind \in {"success", "failure"} => EncodeOne(d, base64).kind \in {"success", "failure"}
  BY Parts DEF EncodeOne
<1>3. \A d : MarshalOne(d).kind \in {"success", "failure"}
  BY Parts DEF MarshalOne
<1> QED
  BY <1>1, <1>2, <1>3 DEF Wired

LEMMA OneDecodes ==
  ASSUME NEW v, IsReply(v), NEW format \in {"json", "base64"}
  PROVE  Understood(respond(Result(v), format), format) = Said(v) <=> Carried(v, format)
<1>1. PICK base64 : base64 = wantsBase64(format)
  OBVIOUS
<1>4. base64 \in BOOLEAN /\ (base64 <=> format = "base64")
  BY <1>1, Wanted
<1>2. respond(Result(v), format) = Wired(Result(v), base64)
  BY <1>1, ResultKinds, OneByOne DEF respond, Wired, wantsResp2
<1>3. Understood(Wired(Result(v), base64), format) = ReadOne(Wired(Result(v), base64), base64)
  BY <1>1, ResultKinds, OneByOne DEF Understood, wantsResp2
<1> QED
  BY <1>2, <1>3, <1>4, ResultDecodes

LEMMA ManyDecode ==
  ASSUME NEW s \in Batch, NEW format \in {"json", "base64"}
  PROVE  Understood(respond(Value("list", [i \in DOMAIN s |-> Result(s[i])]), format), format)
           = Value("list", [i \in DOMAIN s |-> Said(s[i])])
         <=> CarriedMany(s, format)
<1>0. PICK base64 : base64 = wantsBase64(format)
  OBVIOUS
<1>11. base64 \in BOOLEAN /\ (base64 <=> format = "base64")
  BY <1>0, Wanted
<1>1. PICK d, e, w, y, z :
        /\ d = [i \in DOMAIN s |-> Result(s[i])]
        /\ e = [i \in DOMAIN s |-> EncodeOne(d[i], base64)]
        /\ w = [i \in DOMAIN s |-> MarshalOne(e[i])]
        /\ y = [i \in DOMAIN s |-> ReadOne(w[i], base64)]
        /\ z = [i \in DOMAIN s |-> Said(s[i])]
  OBVIOUS
<1>2. /\ e = [i \in DOMAIN d |-> EncodeOne(d[i], base64)]
      /\ w = [i \in DOMAIN e |-> MarshalOne(e[i])]
      /\ y = [i \in DOMAIN w |-> ReadOne(w[i], base64)]
  BY <1>1
<1>3. encodeResponseData(Value("list", d), base64) = Value("list", e)
  <2>1. encodeResponseData(Value("list", d), base64) = Value("list", [i \in DOMAIN d |-> EncodeOne(d[i], base64)])
    BY OneByOne
  <2> QED
    BY <1>2, <2>1
<1>4. Marshal(Value("list", e)) = Value("list", w)
  <2>1. Marshal(Value("list", e)) = Value("list", [i \in DOMAIN e |-> MarshalOne(e[i])])
    BY OneByOne
  <2> QED
    BY <1>2, <2>1
<1>5. Read(Value("list", w), base64) = Value("list", y)
  <2>1. Read(Value("list", w), base64) = Value("list", [i \in DOMAIN w |-> ReadOne(w[i], base64)])
    BY OneByOne
  <2> QED
    BY <1>2, <2>1
<1>6. ASSUME NEW i \in DOMAIN s PROVE y[i] = z[i] <=> Carried(s[i], format)
  <2>1. w[i] = Wired(Result(s[i]), base64) /\ y[i] = ReadOne(w[i], base64) /\ z[i] = Said(s[i])
    BY <1>1 DEF Wired
  <2>2. IsReply(s[i])
    BY ReplyAssumption
  <2> QED
    BY <1>11, <2>1, <2>2, ResultDecodes
<1>7. y = z <=> \A i \in DOMAIN s : Carried(s[i], format)
  <2>1. y = z <=> \A i \in DOMAIN s : y[i] = z[i]
    BY <1>1
  <2> QED
    BY <1>6, <2>1
<1>8. Value("list", y) = Value("list", z) <=> y = z
  BY Parts
<1>9. Understood(respond(Value("list", d), format), format) = Value("list", y)
  <2>1. ~wantsResp2(format)
    BY DEF wantsResp2
  <2>2. respond(Value("list", d), format) = Value("list", w)
    BY <1>0, <1>3, <1>4, <2>1 DEF respond
  <2> QED
    BY <1>0, <1>5, <2>1, <2>2 DEF Understood
<1>10. CarriedMany(s, format) <=> \A i \in DOMAIN s : Carried(s[i], format)
  BY DEF CarriedMany, wantsResp2
<1> QED
  BY <1>1, <1>7, <1>8, <1>9, <1>10

\* In RESP2 a scalar is read as it was, and a list is not.
LEMMA Resp2Decodes ==
  ASSUME NEW v, IsReply(v)
  PROVE  Understood(respond(Result(v), "resp2"), "resp2") = Said(v) <=> Carried(v, "resp2")
<1>1. PICK kind, x : kind \in Kinds /\ v[<<>>] = Value(kind, x) /\ <<>> \in DOMAIN v
  BY DEF IsReply
<1>2. Top(v).kind = kind /\ Top(v).of = x
  BY <1>1, Parts DEF Top
<1>0. PICK base64 : base64 = wantsBase64("resp2")
  OBVIOUS
<1>9. ~base64 /\ wantsResp2("resp2")
  <2>1. wantsBase64("resp2") = FALSE
    BY DEF wantsBase64
  <2>2. base64 = FALSE
    BY <1>0, <2>1, Zenon
  <2> QED
    BY <2>2 DEF wantsResp2
<1>3. /\ \A d : respond(d, "resp2") = respondResp2(d, base64)
      /\ \A f : Understood(f, "resp2") = Parse(f)
      /\ Carried(v, "resp2") <=> kind # "list"
  <2>1. \A d : respond(d, "resp2") = respondResp2(d, base64)
    BY <1>0, <1>9 DEF respond
  <2>2. \A f : Understood(f, "resp2") = Parse(f)
    BY <1>9 DEF Understood
  <2>3. Carried(v, "resp2") <=> kind # "list"
    BY <1>2 DEF Carried
  <2> QED
    BY <2>1, <2>2, <2>3
<1>4. CASE kind = "error"
  <2>1. Result(v) = Value("failure", x) /\ Said(v) = Value("failure", x)
    BY <1>2, <1>4 DEF Result, Said
  <2>2. respondResp2(Value("failure", x), base64) = Value("-", x)
    BY <1>9, Parts DEF respondResp2
  <2>3. Parse(Value("-", x)) = Value("failure", x)
    BY Parts DEF Parse
  <2> QED
    BY <1>3, <1>4, <2>1, <2>2, <2>3
<1>5. CASE kind # "error"
  <2>1. PICK c, m : c = convertRedisResult(v, FALSE) /\ m = IF kind = "bytes" THEN "string" ELSE kind
    OBVIOUS
  <2>2. Result(v) = Value("success", c) /\ Said(v) = Value("success", Meaning(v))
    BY <1>2, <1>5, <2>1 DEF Result, Said
  <2>3. c[<<>>] = Value(m, x) /\ Meaning(v)[<<>>] = Value(m, x)
    BY <1>1, <1>2, <1>5, <2>1 DEF convertRedisResult, Meaning, Top
  <2>4. respondResp2(Value("success", c), base64) = formatResp2(Value(m, x))
    BY <1>9, <2>3, Parts DEF respondResp2, Top
  <2>5. CASE kind = "list"
    <3>1. m = "list"
      BY <2>1, <2>5
    <3>2. formatResp2(Value(m, x)) = Value("+", Text("[...]"))
      BY <3>1, Parts DEF formatResp2
    <3>3. PICK z : z = [p \in {<<>>} |-> Value("string", Text("[...]"))]
      OBVIOUS
    <3>4. Parse(Value("+", Text("[...]"))) = Value("success", z)
      BY <3>3, Parts DEF Parse, Scalar
    <3>5. z[<<>>] # Value(m, x)
      BY <3>1, <3>3, Parts
    <3>6. Value("success", z) # Value("success", Meaning(v))
      BY <2>3, <3>5, Parts
    <3> QED
      BY <1>3, <2>2, <2>4, <2>5, <3>2, <3>4, <3>6
  <2>6. CASE kind # "list"
    <3>1. m \in {"nil", "int", "string"}
      BY <1>1, <1>5, <2>1, <2>6 DEF Kinds
    <3>2. Parse(formatResp2(Value(m, x))) = Scalar(m, x)
      <4>1. formatResp2(Value(m, x)) \in
              IF m = "nil" THEN {Value("$-1", x)} ELSE IF m = "int" THEN {Value(":", x)}
              ELSE {Value("+", x), Value("$", x)}
        BY <3>1, Parts DEF formatResp2
      <4> QED
        BY <3>1, <4>1, Parts DEF Parse
    <3>3. Meaning(v) = [p \in {<<>>} |-> Value(m, x)]
      <4>1. DOMAIN v = {<<>>}
        BY <1>2, <2>6, OnlyTop
      <4> QED
        BY <2>3, <4>1 DEF Meaning
    <3> QED
      BY <1>3, <2>2, <2>4, <2>6, <3>2, <3>3 DEF Scalar
  <2> QED
    BY <2>5, <2>6
<1> QED
  BY <1>4, <1>5

\* What a RESP2 parser makes of JSON.
LEMMA JsonUnparsed ==
  ASSUME NEW f, f.kind \in {"success", "failure", "list"}
  PROVE  Parse(f).kind = "unparsed"
BY Parts DEF Parse

LEMMA SaidKinds == \A v : Said(v).kind \in {"success", "failure"}
BY Parts DEF Said

\* With RESP2 and base64 asked for at once nothing is decoded; nor in RESP2 is a list
\* of results.
LEMMA NotDecoded ==
  /\ \A v, d : Understood(respond(d, "both"), "both") # Said(v)
  /\ \A z, d, format : wantsResp2(format) =>
       Understood(respond(Value("list", d), format), format) # Value("list", z)
<1>1. ASSUME NEW d, NEW format, wantsResp2(format), wantsBase64(format)
      PROVE  Understood(respond(d, format), format).kind = "unparsed"
  <2>1. PICK base64, x : base64 = wantsBase64(format) /\ x = Text("ERR Upstash-Encoding")
    OBVIOUS
  <2>2. respond(d, format) = respondResp2(d, base64)
    BY <1>1, <2>1 DEF respond
  <2>3. respondResp2(d, base64) = Value("failure", x)
    BY <1>1, <2>1 DEF respondResp2
  <2>4. Understood(Value("failure", x), format) = Parse(Value("failure", x))
    BY <1>1 DEF Understood
  <2> QED
    BY <2>2, <2>3, <2>4, Parts, JsonUnparsed
<1>2. ASSUME NEW d, NEW format, wantsResp2(format), ~wantsBase64(format)
      PROVE  Understood(respond(Value("list", d), format), format).kind = "unparsed"
  <2>1. PICK base64, y : base64 = wantsBase64(format) /\ y = [i \in DOMAIN d |-> MarshalOne(d[i])]
    OBVIOUS
  <2>2. respond(Value("list", d), format) = respondResp2(Value("list", d), base64)
    BY <1>2, <2>1 DEF respond
  <2>3. respondResp2(Value("list", d), base64) = Marshal(Value("list", d))
    BY <1>2, <2>1, Parts DEF respondResp2
  <2>4. Marshal(Value("list", d)) = Value("list", y)
    BY <2>1, OneByOne
  <2>5. Understood(Value("list", y), format) = Parse(Value("list", y))
    BY <1>2 DEF Understood
  <2> QED
    BY <2>2, <2>3, <2>4, <2>5, Parts, JsonUnparsed
<1>3. \A v, d : Understood(respond(d, "both"), "both") # Said(v)
  BY <1>1, SaidKinds DEF wantsResp2, wantsBase64
<1>4. \A z, d, format : wantsResp2(format) =>
        Understood(respond(Value("list", d), format), format) # Value("list", z)
  BY <1>1, <1>2, Parts
<1> QED
  BY <1>3, <1>4

\* For replies of any depth and batches of any length, a client decodes what Redis
\* replied exactly in these cases (response.go:29-163): in JSON if no text in it is
\* anything but UTF-8; with base64 but for an error that is not UTF-8; in RESP2 if it
\* is the reply to a single command and no list; with both never.  No text is
\* encoded twice, and no error comes out as a result.
THEOREM RepliesDecode ==
  /\ \A v \in Reply, format \in Formats :
       Understood(respond(Result(v), format), format) = Said(v) <=> Carried(v, format)
  /\ \A s \in Batch, format \in Formats :
       Understood(respond(Value("list", [i \in DOMAIN s |-> Result(s[i])]), format), format)
         = Value("list", [i \in DOMAIN s |-> Said(s[i])])
       <=> CarriedMany(s, format)
<1>1. ASSUME NEW v \in Reply, NEW format \in Formats
      PROVE  Understood(respond(Result(v), format), format) = Said(v) <=> Carried(v, format)
  <2>1. IsReply(v)
    BY ReplyAssumption
  <2>2. CASE format \in {"json", "base64"}
    BY <2>1, <2>2, OneDecodes
  <2>3. CASE format = "resp2"
    BY <2>1, <2>3, Resp2Decodes
  <2>4. CASE format = "both"
    <3>1. ~Carried(v, "both")
      BY DEF Carried
    <3> QED
      BY <2>4, <3>1, NotDecoded
  <2> QED
    BY <2>2, <2>3, <2>4 DEF Formats
<1>2. ASSUME NEW s \in Batch, NEW format \in Formats
      PROVE  Understood(respond(Value("list", [i \in DOMAIN s |-> Result(s[i])]), format), format)
               = Value("list", [i \in DOMAIN s |-> Said(s[i])])
             <=> CarriedMany(s, format)
  <2>1. CASE format \in {"json", "base64"}
    BY <2>1, ManyDecode
  <2>2. CASE format \in {"resp2", "both"}
    <3>1. wantsResp2(format) /\ ~CarriedMany(s, format)
      BY <2>2 DEF wantsResp2, CarriedMany
    <3>2. PICK d, z : d = [i \in DOMAIN s |-> Result(s[i])] /\ z = [i \in DOMAIN s |-> Said(s[i])]
      OBVIOUS
    <3>3. Understood(respond(Value("list", d), format), format) # Value("list", z)
      BY <3>1, NotDecoded
    <3> QED
      BY <3>1, <3>2, <3>3
  <2> QED
    BY <2>1, <2>2 DEF Formats
<1> QED
  BY <1>1, <1>2

\* The answer of a request decodes to what Redis replied to its commands exactly
\* if the format it asked for can carry that (commands.go:48-52, 109-116,
\* response.go:57-163).
THEOREM AnswersAreDecoded == Spec => []AnswersDecode
<1>1. OneInverts = Formats /\ ManyInvert = Formats
  BY RepliesDecode DEF OneInverts, ManyInvert
<1>2. TypeOK => AnswersDecode
  <2> SUFFICES ASSUME TypeOK, NEW r \in Request PROVE job[r].format \in Formats
    BY <1>1 DEF AnswersDecode
  <2> QED
    BY JobAssumption DEF TypeOK
<1> QED
  BY <1>2, GatewayTyped, PTL
=============================================================================

----------------------- MODULE MigrationRunnerProofs -----------------------
(***************************************************************************)
(* Proofs about MigrationRunner for any number of processes and migration  *)
(* files, crashes and timeouts.                                            *)
(***************************************************************************)
EXTENDS MigrationRunner, TLAPS

Done(v) == row[v] \in {"applied", "repaired"}

\* Everything before v is applied, or was declared so.
Before(v) == \A w \in 1 .. v - 1 : Done(w)

Working == {"executing", "timedOut", "recording", "failing"}

\* What a runner knows: the rows it has read are there for good, it works on the
\* first version that has none, and what was recorded since then is late.
Knows(r) ==
  /\ \A v \in applied[r] : Done(v)
  /\ pc[r] \in Working =>
       /\ current[r] \in Versions \ applied[r]
       /\ Before(current[r])
       /\ \A v \in Versions : v >= current[r] /\ row[v] = "applied" => v \in applied[r] \cup late
  /\ pc[r] = "recording" => current[r] \in schema

\* A row that is on its way is as true as one that is there.
SentInv ==
  \A v \in Versions :
    /\ <<v, "applied">> \in sent => v \in schema /\ Before(v)
    /\ <<v, "failed">> \in sent => Before(v)

Inv == TypeOK /\ RecordsAreTrue /\ (\A r \in Runners : Knows(r)) /\ SentInv

USE DEF Versions, Holding, Working

\* An INSERT only changes the row of a version that has none.
LEMMA InsertFacts ==
  ASSUME TypeOK, NEW v \in Versions, NEW s \in {"applied", "failed"}, Insert(v, s)
  PROVE  /\ row' \in [Versions -> {"none", "applied", "failed", "repaired"}]
         /\ \A w \in Versions : w # v => row'[w] = row[w]
         /\ row'[v] = IF row[v] = "none" THEN s ELSE row[v]
BY DEF TypeOK, Insert

\* The loop goes on with the first version after v that is not done, or ends.
LEMMA GoOnFacts ==
  ASSUME MigrationAssumption, NEW r \in Runners, NEW v \in 0 .. Last, NEW upTo \in 0 .. Last,
         NEW done, GoOn(r, v, upTo, done)
  PROVE  \/ pc' = [pc EXCEPT ![r] = "releasing"] /\ current' = current
         \/ \E w \in Versions :
              /\ w > v /\ w \notin done
              /\ \A x \in Versions : v < x /\ x < w => x \in done
              /\ pc' = [pc EXCEPT ![r] = "executing"]
              /\ current' = [current EXCEPT ![r] = w]
<1> DEFINE pending == {w \in v + 1 .. upTo : w \notin done}
<1>1. CASE pending = {}
  BY <1>1 DEF GoOn, Goto
<1>2. CASE pending # {}
  <2>1. PICK w \in pending : /\ \A x \in pending : w <= x
                             /\ pc' = [pc EXCEPT ![r] = "executing"]
                             /\ current' = [current EXCEPT ![r] = w]
    BY <1>2 DEF GoOn, Goto
  <2>2. w \in Versions /\ w > v /\ w \notin done
    BY DEF MigrationAssumption
  <2>3. ASSUME NEW x \in Versions, v < x, x < w PROVE x \in done
    BY <2>1, <2>3 DEF MigrationAssumption
  <2>. QED BY <2>1, <2>2, <2>3
<1>. QED BY <1>1, <1>2
-----------------------------------------------------------------------------
\* The empty database satisfies the invariant.
LEMMA InitInv == ASSUME MigrationAssumption, Init PROVE Inv
<1>1. TypeOK BY DEF Init, TypeOK, MigrationAssumption
<1>. QED BY <1>1 DEF Init, Inv, RecordsAreTrue, Knows, SentInv

\* A runner of which nothing changes keeps what it knows while rows only grow late.
LEMMA OthersKnow ==
  ASSUME MigrationAssumption, Inv, NEW r \in Runners,
         pc'[r] = pc[r], current'[r] = current[r], applied'[r] = applied[r],
         schema \subseteq schema', late \subseteq late',
         \A v \in Versions : Done(v) => Done(v)',
         \A v \in Versions : row'[v] = "applied" =>
            row[v] = "applied" \/ v \in late' \/ pc[r] \notin Working
  PROVE  Knows(r)'
<1>1. Knows(r) /\ applied[r] \subseteq Versions BY DEF Inv, TypeOK
<1>2. \A v \in applied'[r] : Done(v)' BY <1>1 DEF Knows
<1>3. ASSUME pc[r] \in Working PROVE Before(current[r])'
  BY <1>1, <1>3 DEF Knows, Before, MigrationAssumption
<1>. QED BY <1>1, <1>2, <1>3 DEF Knows

\* A row that is sent keeps its truth while rows only change into better ones.
LEMMA SentStays ==
  ASSUME MigrationAssumption, SentInv, sent' \subseteq sent, schema \subseteq schema',
         \A v \in Versions : Done(v) => Done(v)'
  PROVE  SentInv'
<1>1. ASSUME NEW v \in Versions, Before(v) PROVE Before(v)'
  BY <1>1 DEF Before, MigrationAssumption
<1>. QED BY <1>1 DEF SentInv

\* A step that changes no row, nor what is sent, and after which the runner that
\* takes it knows what it must, keeps the invariant.
LEMMA RowsStay ==
  ASSUME MigrationAssumption, Inv, TypeOK', NEW s \in Runners, Knows(s)',
         schema \subseteq schema', UNCHANGED <<row, gone>>,
         \A r \in Runners \ {s} :
           pc'[r] = pc[r] /\ current'[r] = current[r] /\ applied'[r] = applied[r]
  PROVE  Inv'
<1>1. ASSUME NEW v \in Versions PROVE Done(v)' <=> Done(v) BY DEF Done, gone
<1>2. RecordsAreTrue' BY DEF Inv, RecordsAreTrue, gone
<1>3. ASSUME NEW r \in Runners PROVE Knows(r)'
  <2>1. CASE r = s BY <2>1
  <2>2. CASE r # s BY <2>2, <1>1, OthersKnow DEF gone
  <2>. QED BY <2>1, <2>2
<1>4. SentInv' BY <1>1, SentStays DEF Inv, gone
<1>. QED BY <1>2, <1>3, <1>4 DEF Inv

\* While the loop goes on, TypeOK holds and the others stay as they are.
LEMMA GoOnTypes ==
  ASSUME MigrationAssumption, TypeOK, NEW r \in Runners, pc[r] \in Holding,
         NEW v \in 0 .. Last, NEW upTo \in 0 .. Last, NEW done, GoOn(r, v, upTo, done)
  PROVE  /\ pc' \in [Runners -> Holding \cup {"idle", "done", "killed"}]
         /\ current' \in [Runners -> 0 .. Last]
         /\ pc'[r] \in {"executing", "releasing"}
         /\ \A q \in Runners \ {r} : pc'[q] = pc[q] /\ current'[q] = current[q]
<1>1. CASE pc' = [pc EXCEPT ![r] = "releasing"] /\ current' = current
  BY <1>1 DEF TypeOK
<1>2. ASSUME NEW w \in Versions, pc' = [pc EXCEPT ![r] = "executing"],
             current' = [current EXCEPT ![r] = w]
      PROVE  /\ pc' \in [Runners -> Holding \cup {"idle", "done", "killed"}]
             /\ current' \in [Runners -> 0 .. Last]
             /\ pc'[r] \in {"executing", "releasing"}
             /\ \A q \in Runners \ {r} : pc'[q] = pc[q] /\ current'[q] = current[q]
  <2>1. w \in 0 .. Last BY DEF MigrationAssumption
  <2>. QED BY <1>2, <2>1 DEF TypeOK
<1>. QED BY <1>1, <1>2, GoOnFacts

\* Only the holder of the lock is at work.
LEMMA OnlyHolder ==
  ASSUME MigrationAssumption, TypeOK, NEW r \in Runners, pc[r] \in Holding,
         NEW q \in Runners \ {r}
  PROVE  pc[q] \notin Holding
BY DEF TypeOK, MigrationAssumption

\* Taking the lock, or failing to, keeps the invariant.
LEMMA AcquireLockInv ==
  ASSUME MigrationAssumption, Inv, NEW r \in Runners, AcquireLock(r) PROVE Inv'
<1>1. TypeOK'
  <2>1. CASE lock = None
    <3>1. pc' = [pc EXCEPT ![r] = "locked"] /\ lock' = r
      BY <2>1 DEF AcquireLock, Goto
    <3>2. /\ pc' \in [Runners -> Holding \cup {"idle", "done", "killed"}]
          /\ \A q \in Runners : pc'[q] \in Holding <=> lock' = q
      BY <2>1, <3>1 DEF Inv, TypeOK, Holding, MigrationAssumption
    <3>. QED BY <3>1, <3>2 DEF Inv, TypeOK, AcquireLock, database, gone
  <2>2. CASE lock # None
    <3>1. pc' = [pc EXCEPT ![r] = "done"] /\ lock' = lock /\ pc[r] = "idle"
      BY <2>2 DEF AcquireLock, Goto
    <3>2. /\ pc' \in [Runners -> Holding \cup {"idle", "done", "killed"}]
          /\ \A q \in Runners : pc'[q] \in Holding <=> lock' = q
      BY <3>1 DEF Inv, TypeOK, Holding
    <3>. QED BY <3>1, <3>2 DEF Inv, TypeOK, AcquireLock, database, gone
  <2>. QED BY <2>1, <2>2
<1>2. Knows(r)'
  BY DEF Inv, TypeOK, Knows, Done, AcquireLock, Goto, database, gone
<1>3. \A q \in Runners \ {r} : pc'[q] = pc[q] /\ current'[q] = current[q] /\ applied'[q] = applied[q]
  BY DEF Inv, TypeOK, AcquireLock, Goto
<1>. QED BY <1>1, <1>2, <1>3, RowsStay DEF AcquireLock, database

\* What migrate() reads and starts with is what the database holds.
LEMMA MigrateInv ==
  ASSUME MigrationAssumption, Inv, NEW r \in Runners, NEW upTo \in 0 .. Last, NEW force,
         Migrate(r, upTo, force)
  PROVE  Inv'
<1>. TypeOK /\ 0 \in 0 .. Last BY DEF Inv, MigrationAssumption
<1>1. CASE UNCHANGED <<current, target, applied>> /\ Goto(r, "releasing")
  <2>1. TypeOK' BY <1>1 DEF TypeOK, Migrate, Goto, database, gone, MigrationAssumption
  <2>2. Knows(r)' BY <1>1 DEF Inv, TypeOK, Knows, Done, Migrate, Goto, database
  <2>3. \A q \in Runners \ {r} : pc'[q] = pc[q] /\ current'[q] = current[q] /\ applied'[q] = applied[q]
    BY <1>1 DEF TypeOK, Goto
  <2>. QED BY <2>1, <2>2, <2>3, RowsStay DEF Migrate, database
<1>2. CASE /\ applied' = [applied EXCEPT ![r] = ReadApplied]
           /\ target' = [target EXCEPT ![r] = upTo]
           /\ GoOn(r, 0, upTo, ReadApplied)
  <2>1. pc[r] \in Holding /\ ReadApplied \subseteq Versions BY DEF Migrate, ReadApplied
  <2>2. /\ pc' \in [Runners -> Holding \cup {"idle", "done", "killed"}]
        /\ current' \in [Runners -> 0 .. Last]
        /\ pc'[r] \in {"executing", "releasing"}
        /\ \A q \in Runners \ {r} : pc'[q] = pc[q] /\ current'[q] = current[q]
    BY <1>2, <2>1, GoOnTypes
  <2>3. TypeOK'
    <3>1. \A q \in Runners : pc'[q] \in Holding <=> lock' = q
      BY <2>1, <2>2 DEF TypeOK, Migrate
    <3>. QED BY <1>2, <2>1, <2>2, <3>1 DEF TypeOK, Migrate, database, gone
  <2>4. applied'[r] = ReadApplied /\ UNCHANGED <<row, late, schema>>
    BY <1>2 DEF TypeOK, Migrate, database, gone
  <2>5. Knows(r)'
    <3>1. CASE pc' = [pc EXCEPT ![r] = "releasing"]
      BY <3>1, <2>4 DEF TypeOK, Knows, Done, ReadApplied
    <3>2. ASSUME NEW w \in Versions, w \notin ReadApplied,
                 \A x \in Versions : 0 < x /\ x < w => x \in ReadApplied,
                 pc' = [pc EXCEPT ![r] = "executing"], current' = [current EXCEPT ![r] = w]
          PROVE  Knows(r)'
      <4>1. pc'[r] = "executing" /\ current'[r] = w BY <3>2 DEF TypeOK
      <4>2. Before(w)'
        BY <3>2, <2>4 DEF Before, Done, ReadApplied, MigrationAssumption
      <4>. QED BY <4>1, <4>2, <3>2, <2>4 DEF Knows, Done, ReadApplied
    <3>. QED BY <1>2, <3>1, <3>2, GoOnFacts
  <2>6. \A q \in Runners \ {r} : applied'[q] = applied[q] BY <1>2 DEF TypeOK
  <2>. QED BY <2>2, <2>3, <2>4, <2>5, <2>6, RowsStay DEF Migrate
<1>. QED BY <1>1, <1>2, Zenon DEF Migrate

\* Steps of a holder that touch no row: the SQL, its timeout, the release.
LEMMA WorkInv ==
  ASSUME MigrationAssumption, Inv, NEW r \in Runners,
         \/ Rollback(r) \/ SqlCommits(r) \/ SqlFails(r) \/ Timeout(r) \/ ReleaseLock(r)
  PROVE  Inv'
<1>1. TypeOK'
  <2>1. TypeOK /\ MigrationAssumption BY DEF Inv
  <2>2. CASE Rollback(r) BY <2>1, <2>2 DEF TypeOK, Rollback, Goto, database, gone
  <2>3. CASE SqlCommits(r)
    <3>1. current[r] \in Versions BY <2>3 DEF Inv, Knows, SqlCommits
    <3>. QED BY <2>1, <2>3, <3>1 DEF TypeOK, SqlCommits, Goto, gone
  <2>4. CASE SqlFails(r) BY <2>1, <2>4 DEF TypeOK, SqlFails, Goto, database, gone
  <2>5. CASE Timeout(r) BY <2>1, <2>5 DEF TypeOK, Timeout, Goto, database, gone
  <2>6. CASE ReleaseLock(r)
    BY <2>1, <2>6 DEF TypeOK, ReleaseLock, Goto, database, gone, MigrationAssumption
  <2>. QED BY <2>2, <2>3, <2>4, <2>5, <2>6
<1>2. /\ \A q \in Runners \ {r} : pc'[q] = pc[q]
      /\ UNCHANGED <<row, current, applied, gone>> /\ schema \subseteq schema'
  BY DEF Inv, TypeOK, Rollback, SqlCommits, SqlFails, Timeout, ReleaseLock, Goto, database
<1>3. \/ pc'[r] \notin Working
      \/ /\ pc[r] \in Working /\ pc'[r] \in Working
         /\ pc'[r] = "recording" => current[r] \in schema'
  BY DEF Inv, TypeOK, Rollback, SqlCommits, SqlFails, Timeout, ReleaseLock, Goto
<1>4. Knows(r)' BY <1>2, <1>3 DEF Inv, Knows, Before, Done, gone
<1>. QED BY <1>1, <1>2, <1>4, RowsStay

\* A row is inserted that keeps the records true: what a runner or a late statement
\* records is in the database, and everything before it is done.
LEMMA InsertKeeps ==
  ASSUME MigrationAssumption, Inv, NEW v \in Versions, NEW s \in {"applied", "failed"},
         Insert(v, s), Before(v), s = "applied" => v \in schema, UNCHANGED schema
  PROVE  /\ row' \in [Versions -> {"none", "applied", "failed", "repaired"}]
         /\ \A w \in Versions : Done(w) => Done(w)'
         /\ RecordsAreTrue'
<1>1. TypeOK BY DEF Inv
<1>2. /\ row' \in [Versions -> {"none", "applied", "failed", "repaired"}]
      /\ \A w \in Versions : w # v => row'[w] = row[w]
      /\ row'[v] = IF row[v] = "none" THEN s ELSE row[v]
  BY <1>1, InsertFacts
<1>3. \A w \in Versions : Done(w) => Done(w)' BY <1>2 DEF Done
<1>4. ASSUME NEW x \in Versions, row'[x] # "none"
      PROVE  \A w \in 1 .. x - 1 : row'[w] \in {"applied", "repaired"}
  <2>1. \A w \in 1 .. x - 1 : w \in Versions /\ Done(w)
    BY <1>2, <1>4 DEF Inv, RecordsAreTrue, Before, Done, MigrationAssumption
  <2>. QED BY <2>1, <1>3 DEF Done
<1>5. \A x \in Versions : row'[x] = "applied" => x \in schema'
  BY <1>2 DEF Inv, RecordsAreTrue
<1>. QED BY <1>2, <1>3, <1>4, <1>5 DEF RecordsAreTrue

\* Recording a migration keeps the records true, and leads to the next one.
LEMMA RecordInv ==
  ASSUME MigrationAssumption, Inv, NEW r \in Runners, Record(r) PROVE Inv'
<1> DEFINE v == current[r]
<1>1. /\ TypeOK /\ pc[r] = "recording" /\ pc[r] \in Holding /\ v \in Versions \ applied[r]
      /\ Before(v) /\ v \in schema /\ Insert(v, "applied")
      /\ v \in 0 .. Last /\ target[r] \in 0 .. Last
  BY DEF Inv, Knows, Record, TypeOK
<1>2. UNCHANGED <<schema, lock, target, applied, sent, late>> BY DEF Record, gone
<1>3. /\ row' \in [Versions -> {"none", "applied", "failed", "repaired"}]
      /\ \A w \in Versions : Done(w) => Done(w)'
      /\ RecordsAreTrue'
  BY <1>1, <1>2, InsertKeeps
<1>4. /\ \A w \in Versions : w # v => row'[w] = row[w]
      /\ row'[v] = IF row[v] = "none" THEN "applied" ELSE row[v]
  BY <1>1, InsertFacts
<1>5. CASE row[v] # "none"
  <2>1. Goto(r, "failing") /\ UNCHANGED current BY <1>5 DEF Record
  <2>2. row' = row BY <1>1, <1>5 DEF Insert, TypeOK
  <2>3. TypeOK' BY <1>1, <1>2, <2>1, <2>2 DEF TypeOK, Goto
  <2>4. Knows(r)' BY <1>1, <1>2, <2>1, <2>2 DEF Inv, Knows, Before, Done, Goto, TypeOK
  <2>5. \A q \in Runners \ {r} : pc'[q] = pc[q] /\ current'[q] = current[q] /\ applied'[q] = applied[q]
    BY <1>1, <1>2, <2>1 DEF TypeOK, Goto
  <2>. QED BY <1>2, <2>2, <2>3, <2>4, <2>5, RowsStay DEF gone
<1>6. CASE row[v] = "none"
  <2>1. GoOn(r, v, target[r], applied[r]) BY <1>6 DEF Record
  <2>2. /\ pc' \in [Runners -> Holding \cup {"idle", "done", "killed"}]
        /\ current' \in [Runners -> 0 .. Last]
        /\ pc'[r] \in {"executing", "releasing"}
        /\ \A q \in Runners \ {r} : pc'[q] = pc[q] /\ current'[q] = current[q]
    BY <1>1, <2>1, GoOnTypes
  <2>3. TypeOK'
    <3>1. \A q \in Runners : pc'[q] \in Holding <=> lock' = q
      BY <1>1, <1>2, <2>2 DEF TypeOK
    <3>. QED BY <1>1, <1>2, <1>3, <2>2, <3>1 DEF TypeOK
  <2>4. \A w \in applied'[r] : Done(w)'
    BY <1>1, <1>2, <1>3 DEF Inv, Knows, TypeOK
  <2>5. Knows(r)'
    <3>1. CASE pc' = [pc EXCEPT ![r] = "releasing"]
      BY <1>1, <3>1, <2>4 DEF TypeOK, Knows
    <3>2. ASSUME NEW w \in Versions, w > v, w \notin applied[r],
                 \A x \in Versions : v < x /\ x < w => x \in applied[r],
                 pc' = [pc EXCEPT ![r] = "executing"], current' = [current EXCEPT ![r] = w]
          PROVE  Knows(r)'
      <4>1. pc'[r] = "executing" /\ current'[r] = w BY <1>1, <3>2 DEF TypeOK
      <4>2. Before(w)'
        <5>1. ASSUME NEW x \in 1 .. w - 1 PROVE Done(x)'
          <6>1. x \in Versions BY <5>1 DEF MigrationAssumption
          <6>2. CASE x < v BY <1>1, <1>3, <6>1, <6>2 DEF Before
          <6>3. CASE x = v BY <1>4, <1>6, <6>3 DEF Done
          <6>4. CASE v < x BY <1>2, <2>4, <3>2, <5>1, <6>1, <6>4
          <6>. QED BY <1>1, <6>2, <6>3, <6>4 DEF MigrationAssumption
        <5>. QED BY <5>1 DEF Before
      <4>3. ASSUME NEW x \in Versions, x >= w, row'[x] = "applied"
            PROVE  x \in applied'[r] \cup late'
        <5>1. x # v /\ x >= v BY <1>1, <3>2, <4>3 DEF MigrationAssumption
        <5>2. row[x] = "applied" BY <1>4, <4>3, <5>1
        <5>. QED BY <1>1, <1>2, <5>1, <5>2 DEF Inv, Knows
      <4>. QED BY <1>2, <2>4, <3>2, <4>1, <4>2, <4>3 DEF Knows
    <3>. QED BY <1>1, <2>1, <3>1, <3>2, GoOnFacts
  <2>6. ASSUME NEW q \in Runners \ {r} PROVE Knows(q)'
    <3>1. pc[q] \notin Working BY <1>1, OnlyHolder
    <3>. QED BY <1>2, <1>3, <2>2, <3>1, OthersKnow
  <2>7. SentInv' BY <1>2, <1>3, SentStays DEF Inv
  <2>. QED BY <1>3, <2>3, <2>5, <2>6, <2>7 DEF Inv
<1>. QED BY <1>5, <1>6

\* Recording a failure touches no version that has a row.
LEMMA RecordFailureInv ==
  ASSUME MigrationAssumption, Inv, NEW r \in Runners, RecordFailure(r) PROVE Inv'
<1> DEFINE v == current[r]
<1>1. /\ TypeOK /\ pc[r] = "failing" /\ v \in Versions /\ Before(v) /\ Insert(v, "failed")
  BY DEF Inv, Knows, RecordFailure
<1>2. UNCHANGED <<schema, lock, current, target, applied, sent, late>> /\ Goto(r, "releasing")
  BY DEF RecordFailure, gone
<1>3. /\ row' \in [Versions -> {"none", "applied", "failed", "repaired"}]
      /\ \A w \in Versions : Done(w) => Done(w)'
      /\ RecordsAreTrue'
  BY <1>1, <1>2, InsertKeeps
<1>4. \A w \in Versions : row'[w] = "applied" => row[w] = "applied" BY <1>1, InsertFacts
<1>5. TypeOK' BY <1>1, <1>2, <1>3 DEF TypeOK, Goto
<1>6. Knows(r)'
  <2>1. pc'[r] = "releasing" BY <1>1, <1>2 DEF TypeOK, Goto
  <2>. QED BY <1>1, <1>2, <1>3, <2>1 DEF Inv, Knows, TypeOK
<1>7. ASSUME NEW q \in Runners \ {r} PROVE Knows(q)'
  <2>1. pc'[q] = pc[q] BY <1>1, <1>2 DEF TypeOK, Goto
  <2>. QED BY <1>2, <1>3, <1>4, <2>1, OthersKnow
<1>8. SentInv' BY <1>2, <1>3, SentStays DEF Inv
<1>. QED BY <1>3, <1>5, <1>6, <1>7, <1>8 DEF Inv

\* What a runner that dies leaves on its way is true: it is what it would have recorded.
LEMMA CrashInv ==
  ASSUME MigrationAssumption, Inv, NEW r \in Runners, Crash(r) PROVE Inv'
<1>1. TypeOK /\ pc[r] \in Holding /\ Knows(r) /\ UNCHANGED <<database, current, target, applied, late>>
  BY DEF Inv, Crash
<1>2. pc' = [pc EXCEPT ![r] = "killed"] /\ lock' = None BY DEF Crash, Goto
<1>3. \A x \in Statement(r) :
        \E v \in Versions, does \in {"sql", "applied", "failed"} :
          /\ x = <<v, does>>
          /\ does = "applied" => v \in schema /\ Before(v)
          /\ does = "failed" => Before(v)
  <2>1. CASE pc[r] \in {"executing", "timedOut"}
    BY <1>1, <2>1 DEF Knows, Statement
  <2>2. CASE pc[r] = "recording" BY <1>1, <2>2 DEF Knows, Statement
  <2>3. CASE pc[r] = "failing" BY <1>1, <2>3 DEF Knows, Statement
  <2>4. CASE pc[r] \notin Working BY <2>4 DEF Statement
  <2>. QED BY <2>1, <2>2, <2>3, <2>4
<1>4. sent' \subseteq sent \cup Statement(r) BY DEF Crash
<1>5. sent' \subseteq Versions \X {"sql", "applied", "failed"}
  BY <1>1, <1>3, <1>4 DEF TypeOK
<1>6. TypeOK' BY <1>1, <1>2, <1>5 DEF TypeOK, database, MigrationAssumption
<1>7. \A v \in Versions : Done(v)' <=> Done(v) BY <1>1 DEF Done, database
<1>8. ASSUME NEW q \in Runners PROVE Knows(q)'
  <2>1. CASE q = r BY <1>1, <1>2, <1>7, <2>1 DEF Knows, TypeOK
  <2>2. CASE q # r
    <3>1. pc'[q] = pc[q] BY <1>1, <1>2, <2>2 DEF TypeOK
    <3>. QED BY <1>1, <1>7, <3>1, OthersKnow DEF database
  <2>. QED BY <2>1, <2>2
<1>9. SentInv'
  <2>1. \A v \in Versions : Before(v) => Before(v)'
    BY <1>7 DEF Before, MigrationAssumption
  <2>2. ASSUME NEW v \in Versions, <<v, "applied">> \in sent' PROVE v \in schema' /\ Before(v)'
    <3>1. v \in schema /\ Before(v)
      <4>1. CASE <<v, "applied">> \in sent BY <4>1 DEF Inv, SentInv
      <4>2. CASE <<v, "applied">> \in Statement(r) BY <1>3, <4>2
      <4>. QED BY <1>4, <2>2, <4>1, <4>2
    <3>. QED BY <1>1, <2>1, <3>1 DEF database
  <2>3. ASSUME NEW v \in Versions, <<v, "failed">> \in sent' PROVE Before(v)'
    <3>1. CASE <<v, "failed">> \in sent BY <2>1, <3>1 DEF Inv, SentInv
    <3>2. CASE <<v, "failed">> \in Statement(r) BY <1>3, <2>1, <3>2
    <3>. QED BY <1>4, <2>3, <3>1, <3>2
  <2>. QED BY <2>2, <2>3 DEF SentInv
<1>10. RecordsAreTrue' BY <1>1 DEF Inv, RecordsAreTrue, database
<1>. QED BY <1>6, <1>8, <1>9, <1>10 DEF Inv

\* A late row is as true as it was when its sender died.
LEMMA StatementEndsInv ==
  ASSUME MigrationAssumption, Inv, NEW v \in Versions, NEW does \in {"sql", "applied", "failed"},
         StatementEnds(v, does)
  PROVE  Inv'
<1>1. /\ TypeOK /\ <<v, does>> \in sent /\ sent' \subseteq sent
      /\ UNCHANGED <<lock, pc, current, target, applied>>
  BY DEF Inv, StatementEnds, process
<1>2. /\ row' \in [Versions -> {"none", "applied", "failed", "repaired"}]
      /\ schema \subseteq schema' /\ schema' \subseteq Versions
      /\ late \subseteq late' /\ late' \subseteq Versions
      /\ \A w \in Versions : Done(w) => Done(w)'
      /\ RecordsAreTrue'
      /\ \A w \in Versions : row'[w] = "applied" => row[w] = "applied" \/ w \in late'
  <2>1. CASE row' = row /\ late' = late /\ schema' \in {schema, schema \cup {v}}
    BY <1>1, <2>1 DEF Inv, TypeOK, RecordsAreTrue, Done
  <2>2. CASE does # "sql" /\ Insert(v, does) /\ late' = late \cup {v} /\ UNCHANGED schema
    <3>1. Before(v) /\ (does = "applied" => v \in schema)
      BY <1>1, <2>2 DEF Inv, SentInv
    <3>2. /\ row' \in [Versions -> {"none", "applied", "failed", "repaired"}]
          /\ \A w \in Versions : Done(w) => Done(w)'
          /\ RecordsAreTrue'
      BY <2>2, <3>1, InsertKeeps
    <3>3. \A w \in Versions : w # v => row'[w] = row[w]
      BY <1>1, <2>2, InsertFacts
    <3>. QED BY <1>1, <2>2, <3>2, <3>3 DEF TypeOK
  <2>. QED BY <2>1, <2>2 DEF StatementEnds, database
<1>3. TypeOK' BY <1>1, <1>2 DEF TypeOK
<1>4. \A r \in Runners : Knows(r)' BY <1>1, <1>2, OthersKnow
<1>5. SentInv' BY <1>1, <1>2, SentStays DEF Inv
<1>. QED BY <1>2, <1>3, <1>4, <1>5 DEF Inv

\* A repaired row only makes more versions count as done.
LEMMA RepairInv ==
  ASSUME MigrationAssumption, Inv, NEW v \in Versions, Repair(v) PROVE Inv'
<1>1. /\ TypeOK /\ row' = [row EXCEPT ![v] = "repaired"] /\ row[v] = "failed"
      /\ UNCHANGED <<schema, lock, pc, current, target, applied, sent, late>>
  BY DEF Inv, Repair, process, gone
<1>2. \A w \in Versions : (Done(w) => Done(w)') /\ (row'[w] = "applied" => row[w] = "applied")
  BY <1>1 DEF Done, TypeOK
<1>3. TypeOK' BY <1>1 DEF TypeOK
<1>4. RecordsAreTrue'
  <2>1. ASSUME NEW x \in Versions, row'[x] # "none"
        PROVE  \A w \in 1 .. x - 1 : row'[w] \in {"applied", "repaired"}
    <3>1. \A w \in 1 .. x - 1 : w \in Versions /\ Done(w)
      BY <1>1, <2>1 DEF Inv, RecordsAreTrue, TypeOK, Done, MigrationAssumption
    <3>. QED BY <1>2, <3>1 DEF Done
  <2>. QED BY <1>1, <1>2, <2>1 DEF Inv, RecordsAreTrue
<1>5. \A r \in Runners : Knows(r)' BY <1>1, <1>2, OthersKnow
<1>6. SentInv' BY <1>1, <1>2, SentStays DEF Inv
<1>. QED BY <1>3, <1>4, <1>5, <1>6 DEF Inv

\* Every step keeps the invariant.
LEMMA StepInv == ASSUME MigrationAssumption, Inv, [Next]_vars PROVE Inv'
<1>1. ASSUME NEW r \in Runners, AcquireLock(r) PROVE Inv' BY <1>1, AcquireLockInv
<1>2. ASSUME NEW r \in Runners, NEW upTo \in 0 .. Last, NEW force \in BOOLEAN,
             Migrate(r, upTo, force)
      PROVE  Inv'
  BY <1>2, MigrateInv
<1>3. ASSUME NEW r \in Runners,
             Rollback(r) \/ SqlCommits(r) \/ SqlFails(r) \/ Timeout(r) \/ ReleaseLock(r)
      PROVE  Inv'
  BY <1>3, WorkInv
<1>4. ASSUME NEW r \in Runners, Record(r) PROVE Inv' BY <1>4, RecordInv
<1>5. ASSUME NEW r \in Runners, RecordFailure(r) PROVE Inv' BY <1>5, RecordFailureInv
<1>6. ASSUME NEW r \in Runners, Crash(r) PROVE Inv' BY <1>6, CrashInv
<1>7. ASSUME NEW v \in Versions, NEW does \in {"sql", "applied", "failed"}, StatementEnds(v, does)
      PROVE  Inv'
  BY <1>7, StatementEndsInv
<1>8. ASSUME NEW v \in Versions, Repair(v) PROVE Inv' BY <1>8, RepairInv
<1>9. CASE UNCHANGED vars
  BY <1>9 DEF vars, database, process, gone, Inv, TypeOK, RecordsAreTrue, Knows, SentInv, Before, Done
<1>. QED BY <1>1, <1>2, <1>3, <1>4, <1>5, <1>6, <1>7, <1>8, <1>9 DEF Next, RunnerStep

\* Inv is an invariant of the processes.
LEMMA InvAlways == Spec => []Inv
<1>1. Init => Inv BY InitInv, MigrationAssumption
<1>2. Inv /\ [Next]_vars => Inv' BY StepInv, MigrationAssumption
<1>. QED BY <1>1, <1>2, PTL DEF Spec
-----------------------------------------------------------------------------
\* The state keeps its types, and at any time the one process that is at work is
\* the one that holds the advisory lock.
THEOREM TypeCorrectness == Spec => []TypeOK
<1>1. Inv => TypeOK BY DEF Inv
<1>. QED BY <1>1, InvAlways, PTL

\* However many processes migrate however many files, are killed or time out, what
\* schema_migrations says was applied is in the database, without a gap before it.
THEOREM RecordsAreTrueAlways == Spec => []RecordsAreTrue
<1>1. Inv => RecordsAreTrue BY DEF Inv
<1>. QED BY <1>1, InvAlways, PTL

\* A process executes a migration that is recorded as applied only when the record
\* came late, from a process that was killed.
THEOREM RecordedNotRepeatedAlways == Spec => []RecordedNotRepeated
<1>1. Inv => RecordedNotRepeated
  <2>1. ASSUME Inv, NEW r \in Runners, pc[r] = "executing", row[current[r]] = "applied"
        PROVE  current[r] \in late
    BY <2>1 DEF Inv, TypeOK, Knows, MigrationAssumption
  <2>. QED BY <2>1 DEF RecordedNotRepeated
<1>. QED BY <1>1, InvAlways, PTL
=============================================================================

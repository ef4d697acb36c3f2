----------------------------- MODULE ServerBoot -----------------------------
(***************************************************************************)
(* The start of the API server: the schema and its in-place migrations     *)
(* (init_schema in auth/router.py, run twice by lifespan in server.py),    *)
(* the janitors, and the engine pool with the three places that refer to   *)
(* it.  Several worker processes start against one database, any of them   *)
(* may stop anywhere, and the supervisor starts it again.                  *)
(***************************************************************************)
EXTENDS Naturals, Sequences, FiniteSets

CONSTANTS Servers,    \* worker processes
          Migrations, \* the steps of init_schema after create_all, in order
          Fks,        \* foreign keys to a parent of _CASCADE_PARENT_TABLES
          MaxKills    \* bound: ends of a process from outside

\* A step adds a column, or creates an index on one.  `model`: create_all makes
\* the index of a new table; `partial`: the unique index Postgres alone gets.
Columns == {Migrations[i].on : i \in {j \in DOMAIN Migrations : Migrations[j].kind = "column"}}
IndexSteps == {Migrations[i] : i \in {j \in DOMAIN Migrations : Migrations[j].kind = "index"}}
Indexes == {m.on : m \in IndexSteps}

ASSUME ServerBootAssumption ==
    /\ MaxKills \in Nat
    /\ Migrations \in Seq({Migrations[i] : i \in DOMAIN Migrations})
    /\ \A i \in DOMAIN Migrations :
          /\ Migrations[i].kind \in {"column", "index"}
          /\ Migrations[i].model \in BOOLEAN /\ Migrations[i].partial \in BOOLEAN
          /\ Migrations[i].kind = "index" =>
                \E j \in 1..(i - 1) : Migrations[j] = [Migrations[i] EXCEPT !.kind = "column"]

VARIABLES postgres,   \* the dialect
          safe,       \* the SECA freeze finds nothing to refuse
          db,         \* the schema, as committed
          duplicates, \* indexes whose rows are not unique
          proc,       \* each process: where it is, what it has read, its engine
          kills

deployment == <<postgres, safe>>
bootVars == <<postgres, safe, db, duplicates, proc, kills>>

NoFk == "none"

\* found: the answer of the last look, a set of at most one; rows: constraints
\* of the catalog query not handled yet; swapping: the one that is dropped and
\* not committed; pool, app, verifier: the engine pool and who refers to it.
Down == [at |-> "down", step |-> 1, pass |-> 1, found |-> {}, rows |-> {}, swapping |-> NoFk,
         pool |-> "none", app |-> FALSE, verifier |-> FALSE]

Places == {"down", "create", "migrate", "retrofit", "janitors", "engine", "serving"}

\* The variables' types; nothing of the engine exists before the schema does.
BootTypeOK ==
    /\ postgres \in BOOLEAN /\ safe \in BOOLEAN
    /\ db.tables \in BOOLEAN /\ db.columns \subseteq Columns /\ db.indexes \subseteq Indexes
    /\ duplicates \subseteq Indexes
    /\ proc \in [Servers -> [at : Places, step : 1..(Len(Migrations) + 1), pass : {1, 2},
                               found : {{}, {TRUE}, {FALSE}}, rows : SUBSET Fks,
                               swapping : Fks \union {NoFk}, pool : {"none", "up"},
                               app : BOOLEAN, verifier : BOOLEAN]]
    /\ \A p \in Servers :
          /\ proc[p].pool # "none" => proc[p].at \in {"engine", "serving"}
          /\ proc[p].at \in {"janitors", "engine", "serving"} =>
                proc[p].pass = 2 /\ proc[p].rows = {} /\ proc[p].swapping = NoFk

\* A new database, or one an older version has left: any of the columns, the
\* indexes of present columns at most, constraints with or without CASCADE, and
\* rows written while an index was missing.
BootInit ==
    /\ postgres \in BOOLEAN /\ safe \in BOOLEAN
    /\ \/ /\ db = [tables |-> FALSE, columns |-> {}, indexes |-> {},
                   fks |-> [f \in Fks |-> "cascade"]]
          /\ duplicates = {}
       \/ \E c \in SUBSET Columns : \E i \in SUBSET (c \intersect Indexes) :
             /\ \E k \in [Fks -> {"plain", "cascade"}] :
                   db = [tables |-> TRUE, columns |-> c, indexes |-> i, fks |-> k]
             /\ duplicates \in SUBSET ((c \intersect Indexes) \ i)
    /\ proc = [p \in Servers |-> Down]
    /\ kills = 0

Becomes(p, new) == proc' = [proc EXCEPT ![p] = new]

\* "aborting startup": an error of the schema phase is raised out of lifespan.
\* The process ends, what it has not committed is rolled back.
Aborts(p) == Becomes(p, Down) /\ UNCHANGED db

StartWorker(p) ==
    /\ proc[p].at = "down"
    /\ Becomes(p, [Down EXCEPT !.at = "create"])
    /\ UNCHANGED <<deployment, db, duplicates, kills>>

-----------------------------------------------------------------------------
(* init_schema *)

theRest == <<deployment, duplicates, kills>>
Found(p, answer) == proc[p].found = {answer}
Looks(p, answer) == Becomes(p, [proc[p] EXCEPT !.found = {answer}]) /\ UNCHANGED db

\* create_all looks which tables exist...
LookAtTables(p) ==
    /\ proc[p].at = "create" /\ proc[p].found = {}
    /\ Looks(p, db.tables)
    /\ UNCHANGED theRest

Created == [tables |-> TRUE, columns |-> Columns, indexes |-> {m.on : m \in {n \in IndexSteps : n.model}},
            fks |-> [f \in Fks |-> "cascade"]]

\* ...and creates the missing ones as the models declare them, unless another
\* process has in the meantime.
CreateTables(p) ==
    /\ proc[p].at = "create" /\ proc[p].found # {}
    /\ IF Found(p, FALSE) /\ db.tables
       THEN Aborts(p)
       ELSE /\ db' = IF Found(p, TRUE) THEN db ELSE Created
            /\ Becomes(p, [proc[p] EXCEPT !.at = "migrate", !.found = {}, !.step = 1])
    /\ UNCHANGED theRest

Migrating(p, kind) ==
    /\ proc[p].at = "migrate" /\ proc[p].step <= Len(Migrations)
    /\ Migrations[proc[p].step].kind = kind

Target(p) == Migrations[proc[p].step].on
Moves(p) == Becomes(p, [proc[p] EXCEPT !.step = @ + 1, !.found = {}])
Adds(p) == db' = [db EXCEPT !.columns = @ \union {Target(p)}] /\ Moves(p)

\* _ensure_column inspects the table...
LookAtColumn(p) ==
    /\ Migrating(p, "column") /\ proc[p].found = {}
    /\ Looks(p, Target(p) \in db.columns)
    /\ UNCHANGED theRest

\* Mutated form of AddColumn: when the ALTER fails the server starts anyway.
AlterSwallowed(p) ==
    IF Found(p, FALSE) /\ Target(p) \in db.columns
    THEN Becomes(p, [proc[p] EXCEPT !.at = "janitors", !.pass = 2]) /\ UNCHANGED db
    ELSE Adds(p)

\* ...and adds a missing column and commits, which fails when another process
\* has added it since.
AddColumn(p) == IF Found(p, FALSE) /\ Target(p) \in db.columns THEN Aborts(p) ELSE Adds(p)

EnsureColumn(p) ==
    /\ Migrating(p, "column") /\ proc[p].found # {}
    /\ AddColumn(p)
    /\ UNCHANGED theRest

\* CREATE UNIQUE INDEX IF NOT EXISTS, the partial ones on Postgres alone: rows
\* that are not unique fail it.
CreateIndex(p) ==
    /\ Migrating(p, "index")
    /\ LET missing == (Migrations[proc[p].step].partial => postgres) /\ Target(p) \notin db.indexes
       IN  IF missing /\ (Target(p) \in duplicates \/ Target(p) \notin db.columns)
           THEN Aborts(p)
           ELSE /\ db' = IF missing THEN [db EXCEPT !.indexes = @ \union {Target(p)}] ELSE db
                /\ Moves(p)
    /\ UNCHANGED theRest

\* The schema is done: once for init_db, once for init_auth_schema.
SchemaDone(p) == [proc[p] EXCEPT !.at = IF proc[p].pass = 1 THEN "create" ELSE "janitors", !.pass = 2]

\* _ensure_fk_delete_cascade: the catalog query, best effort; SQLite has none.
LookAtConstraints(p) ==
    /\ proc[p].at = "migrate" /\ proc[p].step > Len(Migrations)
    /\ \/ Becomes(p, SchemaDone(p))
       \/ /\ postgres
          /\ Becomes(p, [proc[p] EXCEPT !.at = "retrofit",
                                          !.rows = {f \in Fks : db.fks[f] # "cascade"}])
    /\ UNCHANGED <<theRest, db>>

\* ALTER TABLE ... DROP CONSTRAINT, not committed.
Dropped(f) == db

\* It locks the table, so that another process waits.
StartSwap(p) ==
    /\ proc[p].at = "retrofit" /\ proc[p].swapping = NoFk
    /\ \E f \in proc[p].rows :
          /\ \A q \in Servers : proc[q].swapping # f
          /\ db' = Dropped(f)
          /\ Becomes(p, [proc[p] EXCEPT !.swapping = f])
    /\ UNCHANGED theRest

\* The ADD and the commit, or the rollback that leaves the constraint as it was
\* (ADD validates the rows, and there may be orphans).
EndSwap(p) ==
    /\ proc[p].swapping # NoFk
    /\ db' \in {[db EXCEPT !.fks[proc[p].swapping] = "cascade"], db}
    /\ Becomes(p, [proc[p] EXCEPT !.rows = @ \ {proc[p].swapping}, !.swapping = NoFk])
    /\ UNCHANGED theRest

RetrofitDone(p) ==
    /\ proc[p].at = "retrofit" /\ proc[p].rows = {} /\ proc[p].swapping = NoFk
    /\ Becomes(p, SchemaDone(p))
    /\ UNCHANGED <<theRest, db>>

-----------------------------------------------------------------------------
(* The rest of lifespan *)

\* The sweeps of stale jobs, whatever becomes of them.
RunJanitors(p) ==
    /\ proc[p].at = "janitors"
    /\ Becomes(p, [proc[p] EXCEPT !.at = "engine"])
    /\ UNCHANGED <<theRest, db>>

\* enforce(world_model) exits the process when the runtime is not safe.
Frozen(p) ==
    /\ proc[p].at = "engine" /\ ~safe
    /\ Aborts(p)
    /\ UNCHANGED theRest

InEngine(p) == proc[p].at = "engine" /\ safe /\ UNCHANGED <<theRest, db>>

\* engine_pool.startup() came up, and nobody knows of the pool yet.
StartPool(p) ==
    /\ InEngine(p) /\ proc[p].pool = "none"
    /\ Becomes(p, [proc[p] EXCEPT !.pool = "up"])

ShareWithApp(p) ==
    /\ InEngine(p) /\ proc[p].pool = "up" /\ ~proc[p].app
    /\ Becomes(p, [proc[p] EXCEPT !.app = TRUE])

ShareWithVerifier(p) ==
    /\ InEngine(p) /\ proc[p].app /\ ~proc[p].verifier
    /\ Becomes(p, [proc[p] EXCEPT !.verifier = TRUE])

\* The scheduler and the metrics provider, and the server serves.
Serve(p) ==
    /\ InEngine(p) /\ proc[p].verifier
    /\ Becomes(p, [proc[p] EXCEPT !.at = "serving"])

\* engine_pool.close(), and no reference to it is left.
WithoutEngine(s) == [s EXCEPT !.pool = "none", !.app = FALSE, !.verifier = FALSE]

\* Anything else that fails in this phase: the server serves without an engine.
EngineUnusable(p) ==
    /\ InEngine(p)
    /\ Becomes(p, [WithoutEngine(proc[p]) EXCEPT !.at = "serving"])

\* A process is killed or redeployed; its references die with it.
Stopped(p) ==
    /\ proc[p].at # "down" /\ kills < MaxKills
    /\ kills' = kills + 1
    /\ Becomes(p, Down)
    /\ UNCHANGED <<deployment, db, duplicates>>

\* The operator makes the rows of an index unique.
RowsMadeUnique ==
    /\ \E i \in duplicates : duplicates' = duplicates \ {i}
    /\ UNCHANGED <<deployment, db, proc, kills>>

Boots(p) ==
    \/ StartWorker(p) \/ LookAtTables(p) \/ CreateTables(p) \/ LookAtColumn(p) \/ EnsureColumn(p)
    \/ CreateIndex(p) \/ LookAtConstraints(p) \/ StartSwap(p) \/ EndSwap(p) \/ RetrofitDone(p)
    \/ RunJanitors(p) \/ Frozen(p) \/ StartPool(p) \/ ShareWithApp(p) \/ ShareWithVerifier(p)
    \/ Serve(p) \/ EngineUnusable(p)

BootNext == (\E p \in Servers : Boots(p) \/ Stopped(p)) \/ RowsMadeUnique

\* `restart: unless-stopped` starts a process that ended; a database statement
\* returns; an operator need not come.
BootFairness == \A p \in Servers : WF_bootVars(Boots(p))

BootSpec == BootInit /\ [][BootNext]_bootVars /\ BootFairness

-----------------------------------------------------------------------------
(* Properties *)

Serving(p) == proc[p].at = "serving"
WantedIndexes == {m.on : m \in {n \in IndexSteps : n.partial => postgres}}

\* server.py 270-277: no process serves off a schema that misses a column or an
\* index it needs, whichever processes migrate at the same time and wherever
\* one of them stopped before.
ServesWholeSchema ==
    \A p \in Servers : Serving(p) => db.columns = Columns /\ WantedIndexes \subseteq db.indexes

\* auth/router.py 158-229: a retrofit that stops, fails or overlaps another one
\* leaves every constraint in place, with CASCADE or as it was.
NoConstraintLost == \A f \in Fks : db.fks[f] \in {"plain", "cascade"}

\* server.py 437-454: a process that serves refers to a running pool in all
\* three places, or in none.
PoolRefsAgree ==
    \A p \in Servers : Serving(p) =>
        proc[p].app = (proc[p].pool = "up") /\ proc[p].verifier = (proc[p].pool = "up")

\* Once deployed, processes that race to migrate make each other fail, but not for ever: each
\* failure means that a step is done.  Rows that are not unique do keep the
\* server down until someone has repaired them.
BootsInTheEnd ==
    safe /\ duplicates = {} /\ (\E p \in Servers : proc[p].at # "down")
        ~> \A p \in Servers : Serving(p)

\* A process serves from a whole schema, with a pool that runs or with none.
BootSafe == BootTypeOK /\ ServesWholeSchema /\ NoConstraintLost /\ PoolRefsAgree
=============================================================================

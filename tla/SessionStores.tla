--------------------------- MODULE SessionStores ---------------------------
(***************************************************************************)
(* The two SQLite stores of src/src/storage.py and the handlers of         *)
(* src/src/pipeline.py that write them: the search for candidates and the  *)
(* diagnosis of one (checkpoints.sqlite, performance_baselines), the       *)
(* review of a statement (verification_history, sql_versions) and feedback.*)
(*                                                                         *)
(* A handler runs on the event loop of its process and gives it up at an   *)
(* await only, which is the diagnosis graph.  Two processes work on the    *)
(* same files: the server, and run_eval.py, which runs the application in  *)
(* a process of its own.  Their statements interleave; a store may refuse  *)
(* a write (locked, disk full); a process may die between two statements.  *)
(* V$SQL is the shared pool of the target database: statements come and go.*)
(***************************************************************************)
EXTENDS Naturals, FiniteSets, FiniteSetsExt, Functions

CONSTANTS
  Calls,       \* calls of the handlers, each used once
  Process,     \* [Calls -> processes]
  Statements,  \* texts a caller may send or the database hold
  Normal,      \* [Statements -> text]: lowercased, blanks collapsed
  LooksLikeSql, \* those that begin with an SQL keyword
  SafeSelects, \* those that are one statement and begin with SELECT or WITH
  Changing,    \* those with the word UPDATE or DELETE
  Cacheable,   \* those V$SQL may hold
  CatalogSql,  \* [keys of QUERY_CATALOG -> Statements]
  Mentions,    \* [keys of QUERY_CATALOG -> SUBSET Statements]: V$SQL's matches
  Sessions,    \* session ids
  Ops,         \* [Calls -> which operations a call may be]
  MaxCrashes,  \* bound on the number of crashes
  Nobody       \* no call holds the loop of a process; no session

ASSUME StoresConstantsOK ==
  /\ Process \in [Calls -> Range(Process)]
  /\ Normal \in [Statements -> Range(Normal)]
  /\ SafeSelects \subseteq LooksLikeSql /\ LooksLikeSql \subseteq Statements
  /\ Changing \subseteq Statements /\ Cacheable \subseteq Statements
  /\ CatalogSql \in [DOMAIN CatalogSql -> Statements]
  /\ Mentions \in [DOMAIN CatalogSql -> SUBSET Statements]
  /\ MaxCrashes \in Nat
  /\ Nobody \notin Calls \cup Sessions

\* sql_fingerprint: the key of a statement in memory.sqlite.
Fingerprint(sql) == Normal[sql]
Fingerprints == Range(Normal)

\* What a caller may name as sql_id: an id of V$SQL (a hash of the text, so one
\* per statement) or a key of the catalog, which _SQL_ID_RE keeps from V$SQL.
SqlIds == ({"live"} \X Cacheable) \cup ({"catalog"} \X DOMAIN CatalogSql)
StatementOf(id) == IF id[1] = "live" THEN id[2] ELSE CatalogSql[id[2]]

VARIABLES
  pool,       \* the statements V$SQL holds
  loop,       \* [processes -> the call that holds the event loop, or Nobody]
  pc,         \* [Calls -> step]
  req,        \* [Calls -> the request, or NoReq]
  local,      \* [Calls -> what the handler has read or been told so far]
  reply,      \* [Calls -> status, or "none"]
  candidates, \* [Sessions -> list or {}]: the checkpoint "candidates"
  selection,  \* [Sessions -> SqlIds or NoId]: the checkpoint "selection"
  history,    \* rows of verification_history
  versions,   \* rows of sql_versions
  baseline,   \* [Fingerprints -> row or NoRow]: performance_baselines
  feedback,   \* rows of feedback
  crashes     \* number of crashes so far

stores == <<candidates, selection, history, versions, baseline, feedback>>
vars == <<pool, loop, pc, req, local, reply, stores, crashes>>

NoReq == [op |-> "none"]
NoLocal == [op |-> "none"]
NoId == <<"none">>
NoRow == [by |-> Nobody]
Processes == Range(Process)

Init ==
  /\ pool \in SUBSET Cacheable
  /\ loop = [p \in Processes |-> Nobody]
  /\ pc = [c \in Calls |-> "idle"]
  /\ req = [c \in Calls |-> NoReq]
  /\ local = [c \in Calls |-> NoLocal]
  /\ reply = [c \in Calls |-> "none"]
  /\ candidates = [s \in Sessions |-> {}]
  /\ selection = [s \in Sessions |-> NoId]
  /\ history = {} /\ versions = {} /\ feedback = {}
  /\ baseline = [f \in Fingerprints |-> NoRow]
  /\ crashes = 0

\* A statement is aged out of V$SQL, or run by somebody (the warm-up included).
\* Only a change that a call is about to see is a step: an earlier one may as
\* well come then.
PoolChanges ==
  /\ \E c \in Calls : pc[c] \in {"look", "text", "plan"}
  /\ \E s \in Cacheable : pool' = IF s \in pool THEN pool \ {s} ELSE pool \cup {s}
  /\ UNCHANGED <<loop, pc, req, local, reply, stores, crashes>>

Free(c) == loop[Process[c]] = Nobody

\* Call c begins with request r and takes the loop of its process.
Begin(c, r, step) ==
  /\ pc[c] = "idle" /\ Free(c) /\ r.op \in Ops[c]
  /\ req' = [req EXCEPT ![c] = r]
  /\ pc' = [pc EXCEPT ![c] = step]
  /\ loop' = [loop EXCEPT ![Process[c]] = c]
  /\ UNCHANGED <<pool, local, reply, stores, crashes>>

\* Call c goes on to a step, still on the loop.
Goto(c, to) ==
  /\ pc' = [pc EXCEPT ![c] = to]
  /\ UNCHANGED <<pool, loop, req, reply, crashes>>

\* Call c answers.
Answer(c, status) ==
  /\ pc' = [pc EXCEPT ![c] = "done"]
  /\ reply' = [reply EXCEPT ![c] = status]
  /\ loop' = [loop EXCEPT ![Process[c]] = IF @ = c THEN Nobody ELSE @]
  /\ UNCHANGED <<pool, req, crashes>>

-----------------------------------------------------------------------------
(* Search: run_candidate_search                                            *)

\* The entries of the catalog an alias of which is in the question; a caller
\* without a session gets a new one.
AskSearch(c, hits, s) == Begin(c, [op |-> "search", hits |-> hits, session |-> s], "look")

Fallback(hits) == {"catalog"} \X hits

Found(hits) == {"live"} \X (pool \cap UNION {Mentions[k] : k \in hits})

\* search_sql_candidates: the matches in V$SQL, or those of the catalog when
\* there are none, no keyword, no connection, or the call raises.
Look(c) ==
  /\ pc[c] = "look"
  /\ Goto(c, "save_list")
  /\ \E list \in {Fallback(req[c].hits), Found(req[c].hits)} :
       local' = [local EXCEPT ![c] = [list |-> IF list = {} THEN Fallback(req[c].hits) ELSE list]]
  /\ UNCHANGED stores

SaveList_shared(c) ==
  /\ pc[c] = "save_list"
  /\ Answer(c, "ok")
  /\ candidates' = [s \in Sessions |-> local[c].list]
  /\ UNCHANGED <<local, selection, history, versions, baseline, feedback>>

\* The checkpoint is replaced, or the failure is swallowed.
SaveList(c) ==
  /\ pc[c] = "save_list"
  /\ Answer(c, "ok")
  /\ \/ UNCHANGED candidates
     \/ candidates' = [candidates EXCEPT ![req[c].session] = local[c].list]
  /\ UNCHANGED <<local, selection, history, versions, baseline, feedback>>

-----------------------------------------------------------------------------
(* Diagnosis of a candidate: run_candidate_diagnose                        *)

AskDiagnose(c, id, s) == Begin(c, [op |-> "diagnose", id |-> id, session |-> s], "text")

\* QUERY_CATALOG.get(sql_id).
Picked(id) == CatalogSql[id[2]]

FetchText_no_return(c) ==
  /\ pc[c] = "text"
  /\ Goto(c, "save_selection")
  /\ local' = [local EXCEPT ![c] =
       [sql |-> StatementOf(req[c].id), plan |-> IF req[c].id[1] = "live" THEN "none" ELSE "fallback"]]
  /\ UNCHANGED stores

\* fetch_live_sql_plan, first query: the text of the statement in V$SQL.  Without
\* one the catalog is asked, and an id of V$SQL is not in it.
FetchText(c) ==
  /\ pc[c] = "text"
  /\ \/ /\ Goto(c, "plan")
        /\ req[c].id[1] = "live" /\ req[c].id[2] \in pool
        /\ local' = [local EXCEPT ![c] = [sql |-> req[c].id[2], plan |-> "none"]]
        /\ UNCHANGED stores
     \/ /\ Answer(c, "no_answer")
        /\ req[c].id[1] = "live"
        /\ UNCHANGED <<local, stores>>
     \/ /\ Goto(c, "save_selection")
        /\ req[c].id[1] = "catalog"
        /\ local' = [local EXCEPT ![c] = [sql |-> Picked(req[c].id), plan |-> "fallback"]]
        /\ UNCHANGED stores

\* Second query of the same conversation: the plan of the cursor, or words when
\* it has been aged out meanwhile; or the call raises.
FetchPlan(c) ==
  /\ pc[c] = "plan"
  /\ \/ /\ Goto(c, "save_selection")
        /\ local' = [local EXCEPT ![c].plan = IF local[c].sql \in pool THEN "cursor" ELSE "words"]
        /\ UNCHANGED stores
     \/ /\ Answer(c, "no_answer")
        /\ UNCHANGED <<local, stores>>

\* The selection of a session is saved, unless the store fails; then the graph
\* is awaited and the loop is free.
SaveSelection(c) ==
  /\ pc[c] = "save_selection"
  /\ pc' = [pc EXCEPT ![c] = "graph"]
  /\ loop' = [loop EXCEPT ![Process[c]] = Nobody]
  /\ \/ UNCHANGED selection
     \/ /\ req[c].session # Nobody
        /\ selection' = [selection EXCEPT ![req[c].session] = req[c].id]
  /\ UNCHANGED <<pool, req, local, reply, candidates, history, versions, baseline, feedback, crashes>>

EndGraph_always_saves(c) ==
  /\ pc[c] = "graph"
  /\ Free(c)
  /\ \E status \in {"ok", "error"} : Answer(c, status)
  /\ baseline' = [baseline EXCEPT ![Fingerprint(local[c].sql)] = [by |-> c, plan |-> local[c].plan]]
  /\ UNCHANGED <<local, candidates, selection, history, versions, feedback>>

\* The graph has ended: with an exception, or with an analysis, and then the
\* baseline of the statement is replaced unless the store fails.
EndGraph(c) ==
  /\ pc[c] = "graph"
  /\ Free(c)
  /\ \/ Answer(c, "error") /\ UNCHANGED baseline
     \/ /\ Answer(c, "ok")
        /\ \/ UNCHANGED baseline
           \/ baseline' = [baseline EXCEPT ![Fingerprint(local[c].sql)] = [by |-> c, plan |-> local[c].plan]]
  /\ UNCHANGED <<local, candidates, selection, history, versions, feedback>>

-----------------------------------------------------------------------------
(* Review: run_sql_validation                                              *)

AskReview(c, sql) == Begin(c, [op |-> "review", sql |-> sql], "review")

\* block_mutating_sql, and the second test of review_sql: a text that does not
\* begin like SQL passes it.
RefusedByCode(sql) == sql \in Changing \/ sql \in LooksLikeSql \ SafeSelects

\* review_sql: what the code refuses is rejected without the model, which judges
\* everything else, or raises.
Review(c) ==
  /\ pc[c] = "review"
  /\ \/ /\ Goto(c, "save_verification")
        /\ \E result \in IF RefusedByCode(req[c].sql) THEN {"reject"} ELSE {"accept", "revise", "reject"} :
             local' = [local EXCEPT ![c] = [result |-> result, max |-> 0]]
        /\ UNCHANGED stores
     \/ /\ Answer(c, "error")
        /\ ~RefusedByCode(req[c].sql)
        /\ UNCHANGED <<local, stores>>

\* Only an accepted statement becomes a version.
Kept(c) == local[c].result = "accept"

\* save_verification commits a row; a failure skips what follows in the try.
SaveVerification(c) ==
  /\ pc[c] = "save_verification"
  /\ \/ /\ history' = history \cup
              {[by |-> c, fp |-> Fingerprint(req[c].sql), result |-> local[c].result]}
        /\ IF Kept(c)
           THEN Goto(c, "read_max")
           ELSE Answer(c, "ok")
     \/ UNCHANGED history /\ Answer(c, "ok")
  /\ UNCHANGED <<local, candidates, selection, versions, baseline, feedback>>

VersionsOf(f) == {v \in versions : v.fp = f}

\* save_sql_version, SELECT MAX(version): read outside of a transaction.
ReadMax(c) ==
  /\ pc[c] = "read_max"
  /\ Goto(c, "insert_version")
  /\ local' = [local EXCEPT ![c].max =
       Max({0} \cup {v.version : v \in VersionsOf(Fingerprint(req[c].sql))})]
  /\ UNCHANGED stores

InsertRow_replace(row) ==
  {v \in versions : v.fp # row.fp \/ v.version # row.version} \cup {row}
InsertRow_append(row) == versions \cup {row}

\* INSERT OR IGNORE under UNIQUE(sql_fingerprint, version).
InsertRow(row) ==
  IF \E v \in versions : v.fp = row.fp /\ v.version = row.version
  THEN versions ELSE versions \cup {row}

\* save_sql_version, the insert: the answer is the same whether the row was
\* taken, ignored or refused.
InsertVersion(c) ==
  /\ pc[c] = "insert_version"
  /\ Answer(c, "ok")
  /\ \/ UNCHANGED versions
     \/ versions' = InsertRow([fp |-> Fingerprint(req[c].sql), version |-> local[c].max + 1,
                               sql |-> req[c].sql, by |-> c])
  /\ UNCHANGED <<local, candidates, selection, history, baseline, feedback>>

-----------------------------------------------------------------------------
(* Feedback: run_feedback                                                  *)

AskFeedback(c, sql) == Begin(c, [op |-> "feedback", sql |-> sql], "save_feedback")

\* A row is inserted; here a failure of the store is the answer.
SaveFeedback(c) ==
  /\ pc[c] = "save_feedback"
  /\ \/ /\ Answer(c, "ok")
        /\ feedback' = feedback \cup {[by |-> c, fp |-> Fingerprint(req[c].sql)]}
     \/ Answer(c, "error") /\ UNCHANGED feedback
  /\ UNCHANGED <<local, candidates, selection, history, versions, baseline>>

-----------------------------------------------------------------------------
\* A process dies; what it has committed stays.
Crash(p) ==
  /\ crashes < MaxCrashes
  /\ crashes' = crashes + 1
  /\ pc' = [c \in Calls |-> IF Process[c] = p /\ pc[c] \notin {"idle", "done"} THEN "dead" ELSE pc[c]]
  /\ loop' = [loop EXCEPT ![p] = Nobody]
  /\ UNCHANGED <<pool, req, local, reply, stores>>

Ask(c) ==
  \/ \E hits \in SUBSET DOMAIN CatalogSql, s \in Sessions : AskSearch(c, hits, s)
  \/ \E id \in SqlIds, s \in Sessions \cup {Nobody} : AskDiagnose(c, id, s)
  \/ \E sql \in Statements : AskReview(c, sql) \/ AskFeedback(c, sql)

Handle(c) ==
  \/ Look(c) \/ SaveList(c)
  \/ FetchText(c) \/ FetchPlan(c) \/ SaveSelection(c) \/ EndGraph(c)
  \/ Review(c) \/ SaveVerification(c) \/ ReadMax(c) \/ InsertVersion(c)
  \/ SaveFeedback(c)

Next ==
  \/ PoolChanges
  \/ \E c \in Calls : Ask(c) \/ Handle(c)
  \/ \E p \in Processes : Crash(p)

Spec == Init /\ [][Next]_vars

-----------------------------------------------------------------------------
(* Properties                                                              *)

Steps == {"idle", "look", "save_list", "text", "plan", "save_selection", "graph", "review",
          "save_verification", "read_max", "insert_version", "save_feedback", "done", "dead"}

\* All state stays within its types.
TypeOK ==
  /\ pool \subseteq Cacheable
  /\ \A p \in Processes : loop[p] = Nobody \/ Process[loop[p]] = p
  /\ pc \in [Calls -> Steps]
  /\ reply \in [Calls -> {"none", "ok", "error", "no_answer"}]
  /\ \A c \in Calls : reply[c] # "none" <=> pc[c] = "done"
  /\ candidates \in [Sessions -> SUBSET SqlIds]
  /\ selection \in [Sessions -> SqlIds \cup {NoId}]
  /\ \A h \in history : h.by \in Calls /\ h.result \in {"accept", "revise", "reject"}
  /\ \A v \in versions : v.by \in Calls /\ v.sql \in Statements /\ ~RefusedByCode(v.sql)
  /\ \A f \in Fingerprints :
       baseline[f] = NoRow \/ baseline[f].plan \in {"cursor", "words", "fallback"}
  /\ crashes \in 0..MaxCrashes

\* However two processes interleave the two statements of save_sql_version, and
\* wherever one dies, the versions of a statement are numbered 1, 2, ... without
\* a gap or a repetition (storage.py:189-208; test_memory_persistence.py:175-181).
VersionsAreNumbered ==
  \A f \in Fingerprints :
    {v.version : v \in VersionsOf(f)} = 1..Cardinality(VersionsOf(f))

\* The store implements the log of versions (VersionLog): whatever two processes
\* read and wrote in between, whichever write failed and wherever one died, a
\* committed version is never changed or removed by a later review (INSERT OR
\* IGNORE, storage.py:198), and every version is the one entry of a review whose
\* acceptance of that statement was committed before it (pipeline.py:340-351).
Accepted == {<<h.fp, h.by>> : h \in {k \in history : k.result = "accept"}}
Log == INSTANCE VersionLog WITH
  Texts <- Statements, KeyOf <- Fingerprint, Reviews <- Calls,
  accepted <- Accepted, log <- versions

ImplementsVersionLog == Log!VLSpec

\* What a session's checkpoints hold came from that session: the list is the
\* result of one of its searches, the selection an id one of its diagnoses was
\* asked for and found (pipeline.py:402-405, 446-467).
CheckpointsAreTheSessions ==
  \A s \in Sessions :
    /\ candidates[s] # {} => \E c \in Calls :
         req[c].op = "search" /\ req[c].session = s /\ local[c] = [list |-> candidates[s]]
    /\ selection[s] # NoId => \E c \in Calls :
         /\ req[c].op = "diagnose" /\ req[c].session = s /\ req[c].id = selection[s]
         /\ reply[c] # "no_answer"

\* A baseline belongs to the statement the id stands for and comes from a
\* diagnosis of it that succeeded (pipeline.py:474-484).
BaselineIsOfADiagnosis ==
  \A f \in Fingerprints : baseline[f] # NoRow =>
    LET c == baseline[f].by IN
      /\ req[c].op = "diagnose" /\ Fingerprint(StatementOf(req[c].id)) = f
      /\ reply[c] = "ok"
=============================================================================

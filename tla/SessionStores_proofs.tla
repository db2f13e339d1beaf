------------------------ MODULE SessionStores_proofs ------------------------
(***************************************************************************)
(* Proofs about SessionStores for any calls and processes, any statements  *)
(* and catalog, any sessions and any number of crashes: all of its         *)
(* invariants, and that the stores implement the log of versions.          *)
(*                                                                         *)
(* The invariants speak of what is stored; they are inductive together     *)
(* with what the calls that are about to store it have in hand (KnowsInv,  *)
(* ReviewInv) and with where the calls that have stored it stand           *)
(* (CheckpointInv, BaselineInv): such a call is over or in the graph, and  *)
(* nothing changes its request any more.  Numbering rests on one fact: the *)
(* MAX a review has read is never above the number of versions there are   *)
(* when it inserts, since versions are only added.  So the row is the next *)
(* one or meets the UNIQUE constraint and is ignored.                      *)
(*                                                                         *)
(* Every step but a crash or a change of V$SQL is a move of one call, so   *)
(* the lemmas about Moved carry most of each step.                         *)
(***************************************************************************)
EXTENDS SessionStores, FiniteSetTheorems, TLAPS

-----------------------------------------------------------------------------
(* The inductive invariant                                                 *)

Results == {"accept", "revise", "reject"}
PlanKinds == {"cursor", "words", "fallback"}

SearchReq == [op : {"search"}, hits : SUBSET DOMAIN CatalogSql, session : Sessions]
DiagnoseReq == [op : {"diagnose"}, id : SqlIds, session : Sessions \cup {Nobody}]
TextReq == [op : {"review", "feedback"}, sql : Statements]

\* The shape of the state, finer than TypeOK: what is a function of what, and
\* what the rows of the stores are.
CallTypes ==
  /\ pool \subseteq Cacheable
  /\ loop \in [Processes -> Calls \cup {Nobody}]
  /\ \A p \in Processes : loop[p] = Nobody \/ Process[loop[p]] = p
  /\ pc \in [Calls -> Steps]
  /\ req \in [Calls -> {NoReq} \cup SearchReq \cup DiagnoseReq \cup TextReq]
  /\ DOMAIN local = Calls /\ local = [c \in Calls |-> local[c]]
  /\ reply \in [Calls -> {"none", "ok", "error", "no_answer"}]
  /\ \A c \in Calls : reply[c] # "none" <=> pc[c] = "done"
  /\ crashes \in 0..MaxCrashes

Version == [fp : Fingerprints, version : Nat, sql : {s \in Statements : ~RefusedByCode(s)}, by : Calls]

StoreTypes ==
  /\ candidates \in [Sessions -> SUBSET SqlIds]
  /\ selection \in [Sessions -> SqlIds \cup {NoId}]
  /\ history \subseteq [by : Calls, fp : Fingerprints, result : Results]
  /\ IsFiniteSet(versions) /\ versions \subseteq Version
  /\ baseline \in [Fingerprints -> {NoRow} \cup [by : Calls, plan : PlanKinds]]

\* What a call has in hand at a step: its request r and what it has read, l.
Knows(step, r, l) ==
  /\ step \in {"look", "save_list"} => r \in SearchReq
  /\ step = "save_list" => l \in [list : SUBSET SqlIds]
  /\ step \in {"text", "plan", "save_selection", "graph"} => r \in DiagnoseReq
  /\ step \in {"plan", "save_selection", "graph"} =>
       /\ l \in [sql : Statements, plan : PlanKinds \cup {"none"}]
       /\ l.sql = StatementOf(r.id)
       /\ step # "plan" => l.plan # "none"
  /\ step \in {"review", "save_verification", "read_max", "insert_version", "save_feedback"} =>
       r \in TextReq
  /\ step \in {"save_verification", "read_max", "insert_version"} =>
       /\ l \in [result : Results, max : Nat]
       /\ l.result = "accept" => ~RefusedByCode(r.sql)
       /\ step # "save_verification" => l.result = "accept"

KnowsInv == \A c \in Calls : Knows(pc[c], req[c], local[c])

\* A review about to insert was accepted before, and the number it has read is
\* not above the versions there are by now; a review that has inserted is over.
ReviewInv ==
  /\ \A c \in Calls :
       /\ pc[c] \in {"read_max", "insert_version"} => <<Fingerprint(req[c].sql), c>> \in Accepted
       /\ pc[c] = "insert_version" =>
            local[c].max <= Cardinality(VersionsOf(Fingerprint(req[c].sql)))
  /\ \A v \in versions : pc[v.by] = "done"

\* Where the checkpoints and baselines come from, by calls whose request no
\* later step touches.
CheckpointInv ==
  \A s \in Sessions :
    /\ candidates[s] # {} => \E c \in Calls :
         /\ pc[c] = "done" /\ req[c].op = "search" /\ req[c].session = s
         /\ local[c] = [list |-> candidates[s]]
    /\ selection[s] # NoId => \E c \in Calls :
         /\ pc[c] \in {"graph", "done", "dead"} /\ reply[c] # "no_answer"
         /\ req[c].op = "diagnose" /\ req[c].session = s /\ req[c].id = selection[s]

BaselineInv ==
  \A f \in Fingerprints : baseline[f] # NoRow =>
    LET c == baseline[f].by IN
      /\ pc[c] = "done" /\ reply[c] = "ok"
      /\ req[c].op = "diagnose" /\ Fingerprint(StatementOf(req[c].id)) = f

IInv == /\ CallTypes /\ StoreTypes /\ KnowsInv /\ ReviewInv /\ VersionsAreNumbered
        /\ CheckpointInv /\ BaselineInv

-----------------------------------------------------------------------------
(* Facts about the constants and the operators                             *)

LEMMA FingerprintType == ASSUME NEW sql \in Statements PROVE Fingerprint(sql) \in Fingerprints
BY StoresConstantsOK DEF Fingerprint, Fingerprints

LEMMA StatementType == ASSUME NEW id \in SqlIds PROVE StatementOf(id) \in Statements
BY StoresConstantsOK DEF SqlIds, StatementOf

LEMMA ProcessType == ASSUME NEW c \in Calls PROVE Process[c] \in Processes
BY StoresConstantsOK DEF Processes

\* The versions of a statement are finitely many.
LEMMA VersionsFinite ==
  ASSUME StoreTypes, NEW f
  PROVE  IsFiniteSet(VersionsOf(f)) /\ Cardinality(VersionsOf(f)) \in Nat
<1>1. VersionsOf(f) \in SUBSET versions
  BY DEF VersionsOf
<1>2. IsFiniteSet(versions)
  BY DEF StoreTypes
<1>3. IsFiniteSet(VersionsOf(f))
  BY <1>1, <1>2, FS_Subset
<1> QED
  BY <1>3, FS_CardinalityType

\* SELECT MAX(version) over rows numbered 1, 2, ... is their number.
LEMMA MaxIsCount ==
  ASSUME StoreTypes, VersionsAreNumbered, NEW f \in Fingerprints
  PROVE  Max({0} \cup {v.version : v \in VersionsOf(f)}) = Cardinality(VersionsOf(f))
<1> DEFINE n == Cardinality(VersionsOf(f))
<1>1. n \in Nat
  BY VersionsFinite
<1>2. {v.version : v \in VersionsOf(f)} = 1..n
  BY DEF VersionsAreNumbered
<1> HIDE DEF n
<1>3. {0} \cup 1..n = 0..n
  BY <1>1
<1>4. Max(0..n) = n
  <2>1. n \in 0..n /\ \A y \in 0..n : n >= y
    BY <1>1
  <2>2. \A x \in 0..n : (\A y \in 0..n : x >= y) => x = n
    BY <1>1
  <2> QED
    BY <2>1, <2>2 DEF Max
<1> QED
  BY <1>2, <1>3, <1>4 DEF n

\* INSERT OR IGNORE of a row whose number is at most one above the count: the row
\* is ignored, or it gets the next number.
LEMMA InsertNumbers ==
  ASSUME StoreTypes, VersionsAreNumbered, NEW row \in Version,
         row.version \in 1..(Cardinality(VersionsOf(row.fp)) + 1),
         versions' = InsertRow(row)
  PROVE  /\ VersionsAreNumbered'
         /\ IsFiniteSet(versions') /\ versions' \subseteq Version
         /\ \A f : /\ Cardinality(VersionsOf(f)) \in Nat /\ Cardinality(VersionsOf(f)') \in Nat
                   /\ Cardinality(VersionsOf(f)) <= Cardinality(VersionsOf(f)')
         /\ \/ versions' = versions
            \/ /\ versions' = versions \cup {row}
               /\ row.version = Cardinality(VersionsOf(row.fp)) + 1
<1> DEFINE n == Cardinality(VersionsOf(row.fp))
<1>1. n \in Nat /\ row.fp \in Fingerprints
  BY VersionsFinite DEF Version
<1>2. {v.version : v \in VersionsOf(row.fp)} = 1..n
  BY <1>1 DEF VersionsAreNumbered
<1>3. CASE \E v \in versions : v.fp = row.fp /\ v.version = row.version
  <2>1. versions' = versions
    BY <1>3 DEF InsertRow
  <2>2. \A f : VersionsOf(f)' = VersionsOf(f)
    BY <2>1 DEF VersionsOf
  <2>3. \A f : Cardinality(VersionsOf(f)) \in Nat
    BY VersionsFinite
  <2> QED
    BY <2>1, <2>2, <2>3 DEF VersionsAreNumbered, StoreTypes
<1>4. CASE ~\E v \in versions : v.fp = row.fp /\ v.version = row.version
  <2>1. versions' = versions \cup {row}
    BY <1>4 DEF InsertRow
  <2>2. row.version \notin {v.version : v \in VersionsOf(row.fp)}
    BY <1>4 DEF VersionsOf
  <2>3. row.version = n + 1
    BY <1>1, <1>2, <2>2
  <2>4. IsFiniteSet(versions') /\ versions' \subseteq Version
    BY <2>1, FS_AddElement DEF StoreTypes
  <2>5. \A f : f # row.fp => VersionsOf(f)' = VersionsOf(f)
    BY <2>1 DEF VersionsOf
  <2>6. VersionsOf(row.fp)' = VersionsOf(row.fp) \cup {row} /\ row \notin VersionsOf(row.fp)
    BY <1>4, <2>1 DEF VersionsOf
  <2>7. Cardinality(VersionsOf(row.fp)') = n + 1
    BY <2>6, VersionsFinite, FS_AddElement
  <2>8. {v.version : v \in VersionsOf(row.fp)'} = 1..(n + 1)
    <3>1. {v.version : v \in VersionsOf(row.fp)'} =
            {v.version : v \in VersionsOf(row.fp)} \cup {row.version}
      BY <2>6
    <3> HIDE DEF n
    <3>2. 1..(n + 1) = 1..n \cup {n + 1}
      BY <1>1
    <3> QED
      BY <1>2, <2>3, <3>1, <3>2
  <2>9. VersionsAreNumbered'
    <3>1. ASSUME NEW f \in Fingerprints
          PROVE  {v.version : v \in VersionsOf(f)'} = 1..Cardinality(VersionsOf(f)')
      <4>1. CASE f = row.fp
        BY <2>7, <2>8, <4>1
      <4>2. CASE f # row.fp
        BY <2>5, <4>2 DEF VersionsAreNumbered
      <4> QED
        BY <4>1, <4>2
    <3> QED
      BY <3>1 DEF VersionsAreNumbered
  <2>10. \A f : Cardinality(VersionsOf(f)) \in Nat
    BY VersionsFinite
  <2>11. \A f : /\ Cardinality(VersionsOf(f)) \in Nat /\ Cardinality(VersionsOf(f)') \in Nat
                /\ Cardinality(VersionsOf(f)) <= Cardinality(VersionsOf(f)')
    BY <1>1, <2>5, <2>7, <2>10
  <2> QED
    BY <2>1, <2>3, <2>4, <2>9, <2>11
<1> QED
  BY <1>3, <1>4

-----------------------------------------------------------------------------
(* One call moves                                                          *)

\* Call c goes to a step, with request r and l in hand; it may take or leave the
\* loop of its process, and answers when it is done.
Moved(c, to, r, l) ==
  /\ pc' = [pc EXCEPT ![c] = to]
  /\ req' = [req EXCEPT ![c] = r]
  /\ local' = [local EXCEPT ![c] = l]
  /\ UNCHANGED <<pool, crashes>>
  /\ loop' = loop \/ \E h \in {c, Nobody} : loop' = [loop EXCEPT ![Process[c]] = h]
  /\ \/ to # "done" /\ reply' = reply
     \/ /\ to = "done"
        /\ \E status \in {"ok", "error", "no_answer"} : reply' = [reply EXCEPT ![c] = status]
  /\ pc[c] \notin {"done", "dead"}
  /\ pc[c] = "graph" => to = "done" /\ r = req[c] /\ reply'[c] # "no_answer"

\* What Moved does, call by call.
LEMMA MovedFrame ==
  ASSUME CallTypes, NEW c \in Calls, NEW to, NEW r, NEW l, Moved(c, to, r, l)
  PROVE  /\ pc'[c] = to /\ req'[c] = r /\ local'[c] = l
         /\ \A d \in Calls : d # c =>
              pc'[d] = pc[d] /\ req'[d] = req[d] /\ local'[d] = local[d] /\ reply'[d] = reply[d]
         /\ reply[c] = "none"
<1>1. pc'[c] = to /\ req'[c] = r /\ local'[c] = l
  BY DEF CallTypes, Moved
<1>2. ASSUME NEW d \in Calls, d # c
      PROVE  pc'[d] = pc[d] /\ req'[d] = req[d] /\ local'[d] = local[d]
  BY <1>2 DEF CallTypes, Moved
<1>3. ASSUME NEW d \in Calls, d # c PROVE reply'[d] = reply[d]
  BY <1>3 DEF CallTypes, Moved
<1>4. reply[c] = "none"
  BY DEF CallTypes, Moved
<1> QED
  BY <1>1, <1>2, <1>3, <1>4

\* A call moves within the types and knows what its new step needs.
LEMMA MoveTypes ==
  ASSUME CallTypes, KnowsInv, NEW c \in Calls, NEW to \in Steps,
         NEW r \in {NoReq} \cup SearchReq \cup DiagnoseReq \cup TextReq, NEW l,
         Moved(c, to, r, l), Knows(to, r, l)
  PROVE  CallTypes' /\ KnowsInv'
<1>1. /\ pc'[c] = to /\ req'[c] = r /\ local'[c] = l
      /\ \A d \in Calls : d # c =>
           pc'[d] = pc[d] /\ req'[d] = req[d] /\ local'[d] = local[d] /\ reply'[d] = reply[d]
  BY MovedFrame
<1>2. KnowsInv'
  BY <1>1 DEF KnowsInv
<1>3. /\ pc' \in [Calls -> Steps]
      /\ req' \in [Calls -> {NoReq} \cup SearchReq \cup DiagnoseReq \cup TextReq]
  BY DEF CallTypes, Moved
<1>4. DOMAIN local' = Calls /\ local' = [d \in Calls |-> local'[d]]
  BY DEF CallTypes, Moved
<1>5. /\ reply' \in [Calls -> {"none", "ok", "error", "no_answer"}]
      /\ \A d \in Calls : reply'[d] # "none" <=> pc'[d] = "done"
  <2>1. reply' \in [Calls -> {"none", "ok", "error", "no_answer"}]
    BY DEF CallTypes, Moved
  <2>2. reply'[c] # "none" <=> to = "done"
    BY DEF CallTypes, Moved
  <2> QED
    BY <1>1, <2>1, <2>2 DEF CallTypes
<1>6. /\ loop' \in [Processes -> Calls \cup {Nobody}]
      /\ \A p \in Processes : loop'[p] = Nobody \/ Process[loop'[p]] = p
  <2>1. CASE loop' = loop
    BY <2>1 DEF CallTypes
  <2>2. ASSUME NEW h \in {c, Nobody}, loop' = [loop EXCEPT ![Process[c]] = h]
        PROVE  /\ loop' \in [Processes -> Calls \cup {Nobody}]
               /\ \A p \in Processes : loop'[p] = Nobody \/ Process[loop'[p]] = p
    BY <2>2, ProcessType DEF CallTypes
  <2> QED
    BY <2>1, <2>2 DEF Moved
<1> QED
  BY <1>2, <1>3, <1>4, <1>5, <1>6 DEF CallTypes, Moved

\* A call that moves takes nothing from where the checkpoints and baselines come
\* from: what is over stays as it is, a diagnosis in the graph keeps its request.
LEMMA MoveSources ==
  ASSUME CallTypes, NEW c \in Calls, NEW to, NEW r, NEW l, Moved(c, to, r, l)
  PROVE  /\ CheckpointInv /\ UNCHANGED <<candidates, selection>> => CheckpointInv'
         /\ BaselineInv /\ StoreTypes /\ baseline' = baseline => BaselineInv'
<1>1. /\ pc'[c] = to /\ req'[c] = r
      /\ \A d \in Calls : d # c =>
           pc'[d] = pc[d] /\ req'[d] = req[d] /\ local'[d] = local[d] /\ reply'[d] = reply[d]
  BY MovedFrame
<1>2. \A d \in Calls : pc[d] = "done" =>
        pc'[d] = "done" /\ req'[d] = req[d] /\ local'[d] = local[d] /\ reply'[d] = reply[d]
  BY <1>1 DEF Moved
<1>3. \A d \in Calls : pc[d] \in {"graph", "done", "dead"} /\ reply[d] # "no_answer" =>
        /\ pc'[d] \in {"graph", "done", "dead"} /\ reply'[d] # "no_answer"
        /\ req'[d] = req[d]
  BY <1>1 DEF Moved
<1>4. ASSUME CheckpointInv, UNCHANGED <<candidates, selection>> PROVE CheckpointInv'
  <2>1. ASSUME NEW s \in Sessions, candidates[s] # {}
        PROVE  \E d \in Calls :
                 /\ pc'[d] = "done" /\ req'[d].op = "search" /\ req'[d].session = s
                 /\ local'[d] = [list |-> candidates[s]]
    BY <1>2, <1>4, <2>1 DEF CheckpointInv
  <2>2. ASSUME NEW s \in Sessions, selection[s] # NoId
        PROVE  \E d \in Calls :
                 /\ pc'[d] \in {"graph", "done", "dead"} /\ reply'[d] # "no_answer"
                 /\ req'[d].op = "diagnose" /\ req'[d].session = s /\ req'[d].id = selection[s]
    <3>1. PICK d \in Calls :
            /\ pc[d] \in {"graph", "done", "dead"} /\ reply[d] # "no_answer"
            /\ req[d].op = "diagnose" /\ req[d].session = s /\ req[d].id = selection[s]
      BY <1>4, <2>2 DEF CheckpointInv
    <3> QED
      BY <1>3, <3>1
  <2> QED
    BY <1>4, <2>1, <2>2 DEF CheckpointInv
<1>5. ASSUME BaselineInv, StoreTypes, baseline' = baseline PROVE BaselineInv'
  <2>1. ASSUME NEW f \in Fingerprints, baseline[f] # NoRow
        PROVE  /\ pc'[baseline[f].by] = "done" /\ reply'[baseline[f].by] = "ok"
               /\ req'[baseline[f].by].op = "diagnose"
               /\ Fingerprint(StatementOf(req'[baseline[f].by].id)) = f
    <3>1. baseline[f].by \in Calls
      BY <1>5, <2>1 DEF StoreTypes
    <3> QED
      BY <1>2, <1>5, <2>1, <3>1 DEF BaselineInv
  <2> QED
    BY <1>5, <2>1 DEF BaselineInv, Fingerprint, StatementOf
<1> QED
  BY <1>4, <1>5

\* A call that moves, and that has been accepted if it now writes a version,
\* leaves the other reviews where they are.
LEMMA MoveReviews ==
  ASSUME CallTypes, StoreTypes, ReviewInv, VersionsAreNumbered,
         NEW c \in Calls, NEW to, NEW r, NEW l, Moved(c, to, r, l),
         versions' = versions, history \subseteq history',
         to \in {"read_max", "insert_version"} => <<Fingerprint(r.sql), c>> \in Accepted',
         to = "insert_version" => l.max <= Cardinality(VersionsOf(Fingerprint(r.sql)))
  PROVE  ReviewInv' /\ VersionsAreNumbered'
<1>1. /\ pc'[c] = to /\ req'[c] = r /\ local'[c] = l
      /\ \A d \in Calls : d # c =>
           pc'[d] = pc[d] /\ req'[d] = req[d] /\ local'[d] = local[d] /\ reply'[d] = reply[d]
  BY MovedFrame
<1>2. \A f : VersionsOf(f)' = VersionsOf(f)
  BY DEF VersionsOf
<1>3. Accepted \subseteq Accepted'
  BY DEF Accepted
<1>4. \A v \in versions : v.by # c /\ v.by \in Calls
  BY DEF ReviewInv, Moved, StoreTypes, Version
<1>5. VersionsAreNumbered'
  BY <1>2 DEF VersionsAreNumbered
<1>6. \A v \in versions' : pc'[v.by] = "done"
  BY <1>1, <1>4 DEF ReviewInv
<1>7. ASSUME NEW d \in Calls
      PROVE  /\ pc'[d] \in {"read_max", "insert_version"} =>
                  <<Fingerprint(req'[d].sql), d>> \in Accepted'
             /\ pc'[d] = "insert_version" =>
                  local'[d].max <= Cardinality(VersionsOf(Fingerprint(req'[d].sql)))
  <2>1. CASE d = c
    BY <1>1, <2>1
  <2>2. CASE d # c
    BY <1>1, <1>3, <2>2 DEF ReviewInv
  <2> QED
    BY <2>1, <2>2
<1> QED
  BY <1>2, <1>5, <1>6, <1>7 DEF ReviewInv, Fingerprint

\* A call moves and no store the invariant speaks of changes.
LEMMA QuietMove ==
  ASSUME IInv, NEW c \in Calls, NEW to \in Steps \ {"read_max", "insert_version"},
         NEW r \in {NoReq} \cup SearchReq \cup DiagnoseReq \cup TextReq, NEW l,
         Moved(c, to, r, l), Knows(to, r, l),
         UNCHANGED <<candidates, selection, history, versions, baseline>>
  PROVE  IInv'
<1>1. CallTypes /\ StoreTypes /\ KnowsInv /\ ReviewInv /\ VersionsAreNumbered
      /\ CheckpointInv /\ BaselineInv
  BY DEF IInv
<1>2. CallTypes' /\ KnowsInv'
  BY <1>1, MoveTypes
<1>3. CheckpointInv' /\ BaselineInv'
  BY <1>1, MoveSources
<1>4. ReviewInv' /\ VersionsAreNumbered'
  BY <1>1, MoveReviews
<1>5. StoreTypes'
  BY <1>1 DEF StoreTypes
<1> QED
  BY <1>2, <1>3, <1>4, <1>5 DEF IInv

\* A call keeps its request, and what it has in hand.
LEMMA Keeps ==
  ASSUME CallTypes, NEW c \in Calls
  PROVE  /\ req = [req EXCEPT ![c] = req[c]]
         /\ local = [local EXCEPT ![c] = local[c]]
BY DEF CallTypes

\* A call goes on to another step.
LEMMA GotoMoves ==
  ASSUME CallTypes, NEW c \in Calls, NEW to, NEW l, Goto(c, to), to # "done",
         pc[c] \notin {"graph", "done", "dead"}, local' = [local EXCEPT ![c] = l]
  PROVE  Moved(c, to, req[c], l)
BY Keeps DEF Goto, Moved

\* A call answers.
LEMMA AnswerMoves ==
  ASSUME CallTypes, NEW c \in Calls, NEW status \in {"ok", "error", "no_answer"},
         Answer(c, status), pc[c] \notin {"done", "dead"},
         pc[c] = "graph" => status # "no_answer", local' = local
  PROVE  Moved(c, "done", req[c], local[c])
<1>1. Process[c] \in Processes /\ loop \in [Processes -> Calls \cup {Nobody}]
  BY ProcessType DEF CallTypes
<1>2. loop' = loop \/ loop' = [loop EXCEPT ![Process[c]] = Nobody]
  BY <1>1 DEF Answer
<1>3. reply'[c] = status
  BY DEF Answer, CallTypes
<1> QED
  BY <1>2, <1>3, Keeps DEF Answer, Moved

-----------------------------------------------------------------------------
(* The steps                                                               *)

LEMMA InitStep == ASSUME Init PROVE IInv
<1>1. CallTypes
  BY StoresConstantsOK DEF Init, CallTypes, Steps
<1>2. StoreTypes
  BY FS_EmptySet DEF Init, StoreTypes
<1>3. KnowsInv
  BY DEF Init, KnowsInv, Knows
<1>4. ReviewInv
  BY DEF Init, ReviewInv
<1>5. VersionsAreNumbered
  <2>1. \A f : VersionsOf(f) = {}
    BY DEF Init, VersionsOf
  <2>2. Cardinality({}) = 0 /\ 1..0 = {}
    BY FS_EmptySet
  <2> QED
    BY <2>1, <2>2 DEF VersionsAreNumbered
<1>6. CheckpointInv /\ BaselineInv
  BY DEF Init, CheckpointInv, BaselineInv
<1> QED
  BY <1>1, <1>2, <1>3, <1>4, <1>5, <1>6 DEF IInv

\* A request is well formed and a call begins with it.
LEMMA AskStep == ASSUME IInv, NEW c \in Calls, Ask(c) PROVE IInv'
<1>1. ASSUME NEW r \in SearchReq \cup DiagnoseReq \cup TextReq,
             NEW step \in {"look", "text", "review", "save_feedback"},
             Begin(c, r, step), Knows(step, r, local[c])
      PROVE  IInv'
  <2>1. Moved(c, step, r, local[c])
    BY <1>1, Keeps DEF Begin, Moved, IInv
  <2>2. step \in Steps \ {"read_max", "insert_version"}
    BY DEF Steps
  <2> QED
    BY <1>1, <2>1, <2>2, QuietMove DEF Begin, stores
<1>2. ASSUME NEW hits \in SUBSET DOMAIN CatalogSql, NEW s \in Sessions, AskSearch(c, hits, s)
      PROVE  IInv'
  <2> DEFINE r == [op |-> "search", hits |-> hits, session |-> s]
  <2>1. r \in SearchReq
    BY DEF SearchReq
  <2>2. Knows("look", r, local[c])
    BY <2>1 DEF Knows
  <2> QED
    BY <1>1, <1>2, <2>1, <2>2 DEF AskSearch
<1>3. ASSUME NEW id \in SqlIds, NEW s \in Sessions \cup {Nobody}, AskDiagnose(c, id, s)
      PROVE  IInv'
  <2> DEFINE r == [op |-> "diagnose", id |-> id, session |-> s]
  <2>1. r \in DiagnoseReq
    BY DEF DiagnoseReq
  <2>2. Knows("text", r, local[c])
    BY <2>1 DEF Knows
  <2> QED
    BY <1>1, <1>3, <2>1, <2>2 DEF AskDiagnose
<1>4. ASSUME NEW sql \in Statements, AskReview(c, sql) PROVE IInv'
  <2> DEFINE r == [op |-> "review", sql |-> sql]
  <2>1. r \in TextReq
    BY DEF TextReq
  <2>2. Knows("review", r, local[c])
    BY <2>1 DEF Knows
  <2> QED
    BY <1>1, <1>4, <2>1, <2>2 DEF AskReview
<1>5. ASSUME NEW sql \in Statements, AskFeedback(c, sql) PROVE IInv'
  <2> DEFINE r == [op |-> "feedback", sql |-> sql]
  <2>1. r \in TextReq
    BY DEF TextReq
  <2>2. Knows("save_feedback", r, local[c])
    BY <2>1 DEF Knows
  <2> QED
    BY <1>1, <1>5, <2>1, <2>2 DEF AskFeedback
<1> QED
  BY <1>2, <1>3, <1>4, <1>5 DEF Ask

LEMMA LookStep == ASSUME IInv, NEW c \in Calls, Look(c) PROVE IInv'
<1>1. req[c] \in SearchReq /\ CallTypes
  BY DEF Look, IInv, KnowsInv, Knows
<1>2. PICK list \in {Fallback(req[c].hits), Found(req[c].hits)} :
        local' = [local EXCEPT ![c] = [list |-> IF list = {} THEN Fallback(req[c].hits) ELSE list]]
  BY DEF Look
<1> DEFINE l == [list |-> IF list = {} THEN Fallback(req[c].hits) ELSE list]
<1>3. l \in [list : SUBSET SqlIds]
  <2>1. Fallback(req[c].hits) \subseteq SqlIds
    BY <1>1 DEF Fallback, SqlIds, SearchReq
  <2>2. Found(req[c].hits) \subseteq SqlIds
    BY <1>1 DEF Found, SqlIds, CallTypes
  <2> QED
    BY <2>1, <2>2
<1>4. Knows("save_list", req[c], l)
  BY <1>1, <1>3 DEF Knows
<1>5. Moved(c, "save_list", req[c], l)
  BY <1>1, <1>2, GotoMoves DEF Look
<1>6. "save_list" \in Steps \ {"read_max", "insert_version"}
  BY DEF Steps
<1> HIDE DEF l
<1> QED
  BY <1>1, <1>4, <1>5, <1>6, QuietMove DEF Look, stores

\* The list that is saved is the one the search has found.
LEMMA SaveListStep == ASSUME IInv, NEW c \in Calls, SaveList(c) PROVE IInv'
<1>1. /\ req[c] \in SearchReq /\ local[c] \in [list : SUBSET SqlIds]
      /\ CallTypes /\ StoreTypes /\ CheckpointInv
  BY DEF SaveList, IInv, KnowsInv, Knows
<1>2. Moved(c, "done", req[c], local[c])
  BY <1>1, AnswerMoves DEF SaveList
<1>3. Knows("done", req[c], local[c]) /\ "done" \in Steps \ {"read_max", "insert_version"}
  BY DEF Knows, Steps
<1>4. UNCHANGED <<selection, history, versions, baseline>>
  BY DEF SaveList
<1>5. CASE UNCHANGED candidates
  BY <1>1, <1>2, <1>3, <1>4, <1>5, QuietMove
<1>6. CASE candidates' = [candidates EXCEPT ![req[c].session] = local[c].list]
  <2>1. CallTypes' /\ KnowsInv'
    BY <1>1, <1>2, <1>3, MoveTypes DEF IInv
  <2>2. BaselineInv'
    BY <1>1, <1>2, <1>4, MoveSources DEF IInv
  <2>3. ReviewInv' /\ VersionsAreNumbered'
    BY <1>1, <1>2, <1>4, MoveReviews DEF IInv
  <2>4. StoreTypes'
    BY <1>1, <1>4, <1>6 DEF StoreTypes, SearchReq
  <2>5. CheckpointInv'
    <3>1. /\ pc'[c] = "done" /\ req'[c] = req[c] /\ local'[c] = local[c]
          /\ \A d \in Calls : d # c =>
               pc'[d] = pc[d] /\ req'[d] = req[d] /\ local'[d] = local[d] /\ reply'[d] = reply[d]
      BY <1>1, <1>2, MovedFrame
    <3>2. /\ req[c].op = "search" /\ req[c].session \in Sessions
          /\ local[c] = [list |-> local[c].list]
          /\ pc[c] \notin {"graph", "done", "dead"}
      BY <1>1 DEF SearchReq, SaveList
    <3>3. ASSUME NEW s \in Sessions, candidates'[s] # {}
          PROVE  \E d \in Calls :
                   /\ pc'[d] = "done" /\ req'[d].op = "search" /\ req'[d].session = s
                   /\ local'[d] = [list |-> candidates'[s]]
      <4>1. CASE s = req[c].session
        BY <1>1, <1>6, <3>1, <3>2, <4>1 DEF StoreTypes
      <4>2. CASE s # req[c].session
        <5>1. candidates'[s] = candidates[s]
          BY <1>1, <1>6, <4>2 DEF StoreTypes
        <5>2. PICK d \in Calls :
                /\ pc[d] = "done" /\ req[d].op = "search" /\ req[d].session = s
                /\ local[d] = [list |-> candidates[s]]
          BY <1>1, <3>3, <5>1 DEF CheckpointInv
        <5> QED
          BY <3>1, <3>2, <5>1, <5>2
      <4> QED
        BY <4>1, <4>2
    <3>4. ASSUME NEW s \in Sessions, selection'[s] # NoId
          PROVE  \E d \in Calls :
                   /\ pc'[d] \in {"graph", "done", "dead"} /\ reply'[d] # "no_answer"
                   /\ req'[d].op = "diagnose" /\ req'[d].session = s /\ req'[d].id = selection'[s]
      <4>1. PICK d \in Calls :
              /\ pc[d] \in {"graph", "done", "dead"} /\ reply[d] # "no_answer"
              /\ req[d].op = "diagnose" /\ req[d].session = s /\ req[d].id = selection[s]
        BY <1>1, <1>4, <3>4 DEF CheckpointInv
      <4> QED
        BY <1>4, <3>1, <3>2, <4>1
    <3> QED
      BY <3>3, <3>4 DEF CheckpointInv
  <2> QED
    BY <2>1, <2>2, <2>3, <2>4, <2>5 DEF IInv
<1> QED
  BY <1>5, <1>6 DEF SaveList

LEMMA FetchTextStep == ASSUME IInv, NEW c \in Calls, FetchText(c) PROVE IInv'
<1>1. req[c] \in DiagnoseReq /\ CallTypes /\ pc[c] = "text"
  BY DEF FetchText, IInv, KnowsInv, Knows
<1>2. /\ {"plan", "save_selection", "done"} \subseteq Steps \ {"read_max", "insert_version"}
      /\ Knows("done", req[c], local[c])
  BY DEF Steps, Knows
<1>3. ASSUME NEW to \in {"plan", "save_selection"}, NEW sql \in Statements,
             NEW plan \in {"none", "fallback"}, to # "plan" => plan # "none",
             sql = StatementOf(req[c].id), Goto(c, to), UNCHANGED stores,
             local' = [local EXCEPT ![c] = [sql |-> sql, plan |-> plan]]
      PROVE  IInv'
  <2> DEFINE l == [sql |-> sql, plan |-> plan]
  <2>1. Knows(to, req[c], l)
    BY <1>1, <1>3 DEF Knows, PlanKinds
  <2>2. Moved(c, to, req[c], l)
    BY <1>1, <1>3, GotoMoves
  <2> HIDE DEF l
  <2> QED
    BY <1>1, <1>2, <1>3, <2>1, <2>2, QuietMove DEF stores
<1>4. CASE Answer(c, "no_answer") /\ UNCHANGED <<local, stores>>
  <2>1. Moved(c, "done", req[c], local[c])
    BY <1>1, <1>4, AnswerMoves
  <2> QED
    BY <1>1, <1>2, <1>4, <2>1, QuietMove DEF stores
<1>5. req[c].id \in SqlIds
  BY <1>1 DEF DiagnoseReq
<1>6. CASE /\ Goto(c, "plan") /\ req[c].id[1] = "live"
           /\ local' = [local EXCEPT ![c] = [sql |-> req[c].id[2], plan |-> "none"]]
           /\ UNCHANGED stores
  <2>1. req[c].id[2] = StatementOf(req[c].id) /\ StatementOf(req[c].id) \in Statements
    BY <1>5, <1>6, StatementType DEF StatementOf
  <2> QED
    BY <1>3, <1>6, <2>1
<1>7. CASE /\ Goto(c, "save_selection") /\ req[c].id[1] = "catalog"
           /\ local' = [local EXCEPT ![c] = [sql |-> Picked(req[c].id), plan |-> "fallback"]]
           /\ UNCHANGED stores
  <2>1. Picked(req[c].id) = StatementOf(req[c].id) /\ StatementOf(req[c].id) \in Statements
    BY <1>5, <1>7, StatementType DEF StatementOf, Picked
  <2> QED
    BY <1>3, <1>7, <2>1
<1> QED
  BY <1>4, <1>6, <1>7 DEF FetchText

LEMMA FetchPlanStep == ASSUME IInv, NEW c \in Calls, FetchPlan(c) PROVE IInv'
<1>1. /\ req[c] \in DiagnoseReq /\ CallTypes /\ pc[c] = "plan"
      /\ local[c] \in [sql : Statements, plan : PlanKinds \cup {"none"}]
      /\ local[c].sql = StatementOf(req[c].id)
  BY DEF FetchPlan, IInv, KnowsInv, Knows
<1>2. /\ {"save_selection", "done"} \subseteq Steps \ {"read_max", "insert_version"}
      /\ Knows("done", req[c], local[c])
  BY DEF Steps, Knows
<1>3. CASE Answer(c, "no_answer") /\ UNCHANGED <<local, stores>>
  <2>1. Moved(c, "done", req[c], local[c])
    BY <1>1, <1>3, AnswerMoves
  <2> QED
    BY <1>1, <1>2, <1>3, <2>1, QuietMove DEF stores
<1>4. ASSUME NEW kind \in {"cursor", "words"}, Goto(c, "save_selection"), UNCHANGED stores,
             local' = [local EXCEPT ![c] = [local[c] EXCEPT !.plan = kind]]
      PROVE  IInv'
  <2> DEFINE l == [local[c] EXCEPT !.plan = kind]
  <2>1. Knows("save_selection", req[c], l)
    BY <1>1 DEF Knows, PlanKinds
  <2>2. Moved(c, "save_selection", req[c], l)
    BY <1>1, <1>4, GotoMoves
  <2> HIDE DEF l
  <2> QED
    BY <1>1, <1>2, <1>4, <2>1, <2>2, QuietMove DEF stores
<1>5. \/ Answer(c, "no_answer") /\ UNCHANGED <<local, stores>>
      \/ \E kind \in {"cursor", "words"} :
           /\ Goto(c, "save_selection") /\ UNCHANGED stores
           /\ local' = [local EXCEPT ![c] = [local[c] EXCEPT !.plan = kind]]
  BY DEF FetchPlan
<1> QED
  BY <1>3, <1>4, <1>5

\* The selection of a session is the id of the diagnosis that goes on.
LEMMA SaveSelectionStep == ASSUME IInv, NEW c \in Calls, SaveSelection(c) PROVE IInv'
<1>1. /\ req[c] \in DiagnoseReq /\ CallTypes /\ pc[c] = "save_selection"
      /\ StoreTypes /\ CheckpointInv
      /\ Knows("graph", req[c], local[c]) /\ "graph" \in Steps \ {"read_max", "insert_version"}
  BY DEF SaveSelection, IInv, KnowsInv, Knows, Steps
<1>2. Moved(c, "graph", req[c], local[c])
  BY <1>1, Keeps DEF SaveSelection, Moved
<1>3. UNCHANGED <<candidates, history, versions, baseline>>
  BY DEF SaveSelection
<1>4. CASE UNCHANGED selection
  BY <1>1, <1>2, <1>3, <1>4, QuietMove
<1>5. CASE /\ req[c].session # Nobody
           /\ selection' = [selection EXCEPT ![req[c].session] = req[c].id]
  <2>1. CallTypes' /\ KnowsInv'
    BY <1>1, <1>2, MoveTypes DEF IInv
  <2>2. BaselineInv'
    BY <1>1, <1>2, <1>3, MoveSources DEF IInv
  <2>3. ReviewInv' /\ VersionsAreNumbered'
    BY <1>1, <1>2, <1>3, MoveReviews DEF IInv
  <2>4. StoreTypes'
    BY <1>1, <1>3, <1>5 DEF StoreTypes, DiagnoseReq
  <2>5. CheckpointInv'
    <3>1. /\ pc'[c] = "graph" /\ req'[c] = req[c] /\ local'[c] = local[c] /\ reply[c] = "none"
          /\ \A d \in Calls : d # c =>
               pc'[d] = pc[d] /\ req'[d] = req[d] /\ local'[d] = local[d] /\ reply'[d] = reply[d]
      BY <1>1, <1>2, MovedFrame
    <3>2. reply' = reply /\ req[c].op = "diagnose" /\ req[c].session \in Sessions
      BY <1>1, <1>5 DEF SaveSelection, DiagnoseReq
    <3>3. ASSUME NEW s \in Sessions, candidates'[s] # {}
          PROVE  \E d \in Calls :
                   /\ pc'[d] = "done" /\ req'[d].op = "search" /\ req'[d].session = s
                   /\ local'[d] = [list |-> candidates'[s]]
      <4>1. PICK d \in Calls :
              /\ pc[d] = "done" /\ req[d].op = "search" /\ req[d].session = s
              /\ local[d] = [list |-> candidates[s]]
        BY <1>1, <1>3, <3>3 DEF CheckpointInv
      <4> QED
        BY <1>1, <1>3, <3>1, <4>1
    <3>4. ASSUME NEW s \in Sessions, selection'[s] # NoId
          PROVE  \E d \in Calls :
                   /\ pc'[d] \in {"graph", "done", "dead"} /\ reply'[d] # "no_answer"
                   /\ req'[d].op = "diagnose" /\ req'[d].session = s /\ req'[d].id = selection'[s]
      <4>1. CASE s = req[c].session
        BY <1>1, <1>5, <3>1, <3>2, <4>1 DEF StoreTypes
      <4>2. CASE s # req[c].session
        <5>1. selection'[s] = selection[s]
          BY <1>1, <1>5, <4>2 DEF StoreTypes
        <5>2. PICK d \in Calls :
                /\ pc[d] \in {"graph", "done", "dead"} /\ reply[d] # "no_answer"
                /\ req[d].op = "diagnose" /\ req[d].session = s /\ req[d].id = selection[s]
          BY <1>1, <3>4, <5>1 DEF CheckpointInv
        <5> QED
          BY <1>1, <3>1, <3>2, <5>1, <5>2
      <4> QED
        BY <4>1, <4>2
    <3> QED
      BY <3>3, <3>4 DEF CheckpointInv
  <2> QED
    BY <2>1, <2>2, <2>3, <2>4, <2>5 DEF IInv
<1> QED
  BY <1>4, <1>5 DEF SaveSelection

\* A baseline is that of the statement the diagnosis was asked for.
LEMMA EndGraphStep == ASSUME IInv, NEW c \in Calls, EndGraph(c) PROVE IInv'
<1>1. /\ req[c] \in DiagnoseReq /\ CallTypes /\ StoreTypes /\ BaselineInv /\ pc[c] = "graph"
      /\ local[c] \in [sql : Statements, plan : PlanKinds \cup {"none"}]
      /\ local[c].sql = StatementOf(req[c].id) /\ local[c].plan # "none"
  BY DEF EndGraph, IInv, KnowsInv, Knows
<1>2. Knows("done", req[c], local[c]) /\ "done" \in Steps \ {"read_max", "insert_version"}
  BY DEF Knows, Steps
<1>3. UNCHANGED <<local, candidates, selection, history, versions>>
  BY DEF EndGraph
<1>4. PICK status \in {"ok", "error"} :
        /\ Answer(c, status)
        /\ \/ UNCHANGED baseline
           \/ /\ status = "ok"
              /\ baseline' = [baseline EXCEPT ![Fingerprint(local[c].sql)] =
                               [by |-> c, plan |-> local[c].plan]]
  BY DEF EndGraph
<1>5. Moved(c, "done", req[c], local[c])
  BY <1>1, <1>3, <1>4, AnswerMoves
<1>6. CASE UNCHANGED baseline
  BY <1>1, <1>2, <1>3, <1>5, <1>6, QuietMove
<1>7. CASE /\ status = "ok"
           /\ baseline' = [baseline EXCEPT ![Fingerprint(local[c].sql)] =
                            [by |-> c, plan |-> local[c].plan]]
  <2> DEFINE row == [by |-> c, plan |-> local[c].plan]
  <2>1. row \in [by : Calls, plan : PlanKinds] /\ row.by = c
    BY <1>1
  <2>2. baseline' = [baseline EXCEPT ![Fingerprint(local[c].sql)] = row]
    BY <1>7
  <2> HIDE DEF row
  <2>3. Fingerprint(local[c].sql) \in Fingerprints
    BY <1>1, FingerprintType
  <2>4. CallTypes' /\ KnowsInv'
    BY <1>1, <1>2, <1>5, MoveTypes DEF IInv
  <2>5. CheckpointInv'
    BY <1>1, <1>3, <1>5, MoveSources DEF IInv
  <2>6. ReviewInv' /\ VersionsAreNumbered'
    BY <1>1, <1>3, <1>5, MoveReviews DEF IInv
  <2>7. StoreTypes'
    BY <1>1, <1>3, <2>1, <2>2, <2>3 DEF StoreTypes
  <2>8. BaselineInv'
    <3>1. /\ pc'[c] = "done" /\ req'[c] = req[c]
          /\ \A d \in Calls : d # c =>
               pc'[d] = pc[d] /\ req'[d] = req[d] /\ local'[d] = local[d] /\ reply'[d] = reply[d]
      BY <1>1, <1>5, MovedFrame
    <3>2. reply'[c] = "ok"
      BY <1>1, <1>4, <1>7 DEF Answer, CallTypes
    <3>3. ASSUME NEW f \in Fingerprints, baseline'[f] # NoRow
          PROVE  /\ pc'[baseline'[f].by] = "done" /\ reply'[baseline'[f].by] = "ok"
                 /\ req'[baseline'[f].by].op = "diagnose"
                 /\ Fingerprint(StatementOf(req'[baseline'[f].by].id)) = f
      <4>1. CASE f = Fingerprint(local[c].sql)
        <5>1. baseline'[f] = row
          BY <1>1, <2>2, <2>3, <4>1 DEF StoreTypes
        <5> QED
          BY <1>1, <2>1, <3>1, <3>2, <4>1, <5>1 DEF DiagnoseReq
      <4>2. CASE f # Fingerprint(local[c].sql)
        <5>1. baseline'[f] = baseline[f]
          BY <1>1, <2>2, <4>2 DEF StoreTypes
        <5>2. baseline[f].by \in Calls /\ pc[baseline[f].by] = "done"
          BY <1>1, <3>3, <5>1 DEF StoreTypes, BaselineInv
        <5>3. baseline[f].by # c
          BY <1>1, <5>2
        <5> QED
          BY <1>1, <3>1, <3>3, <5>1, <5>2, <5>3 DEF BaselineInv
      <4> QED
        BY <4>1, <4>2
    <3> QED
      BY <3>3 DEF BaselineInv, Fingerprint, StatementOf
  <2> QED
    BY <2>4, <2>5, <2>6, <2>7, <2>8 DEF IInv
<1> QED
  BY <1>4, <1>6, <1>7

LEMMA ReviewStep == ASSUME IInv, NEW c \in Calls, Review(c) PROVE IInv'
<1>1. req[c] \in TextReq /\ CallTypes /\ pc[c] = "review"
  BY DEF Review, IInv, KnowsInv, Knows
<1>2. /\ {"save_verification", "done"} \subseteq Steps \ {"read_max", "insert_version"}
      /\ Knows("done", req[c], local[c])
  BY DEF Steps, Knows
<1>3. CASE Answer(c, "error") /\ UNCHANGED <<local, stores>>
  <2>1. Moved(c, "done", req[c], local[c])
    BY <1>1, <1>3, AnswerMoves
  <2> QED
    BY <1>1, <1>2, <1>3, <2>1, QuietMove DEF stores
<1>4. ASSUME NEW result \in Results, RefusedByCode(req[c].sql) => result = "reject",
             Goto(c, "save_verification"), UNCHANGED stores,
             local' = [local EXCEPT ![c] = [result |-> result, max |-> 0]]
      PROVE  IInv'
  <2> DEFINE l == [result |-> result, max |-> 0]
  <2>1. Knows("save_verification", req[c], l)
    BY <1>1, <1>4 DEF Knows
  <2>2. Moved(c, "save_verification", req[c], l)
    BY <1>1, <1>4, GotoMoves
  <2> HIDE DEF l
  <2> QED
    BY <1>1, <1>2, <1>4, <2>1, <2>2, QuietMove DEF stores
<1>5. \/ Answer(c, "error") /\ UNCHANGED <<local, stores>>
      \/ \E result \in Results :
           /\ RefusedByCode(req[c].sql) => result = "reject"
           /\ Goto(c, "save_verification") /\ UNCHANGED stores
           /\ local' = [local EXCEPT ![c] = [result |-> result, max |-> 0]]
  BY DEF Review, Results
<1> QED
  BY <1>3, <1>4, <1>5

\* A review writes its row of verification_history before it goes on to a version.
LEMMA SaveVerificationStep == ASSUME IInv, NEW c \in Calls, SaveVerification(c) PROVE IInv'
<1>1. /\ req[c] \in TextReq /\ CallTypes /\ StoreTypes /\ pc[c] = "save_verification"
      /\ local[c] \in [result : Results, max : Nat]
      /\ local[c].result = "accept" => ~RefusedByCode(req[c].sql)
  BY DEF SaveVerification, IInv, KnowsInv, Knows
<1>2. UNCHANGED <<local, candidates, selection, versions, baseline>>
  BY DEF SaveVerification
<1>3. "done" \in Steps \ {"read_max", "insert_version"} /\ Knows("done", req[c], local[c])
  BY DEF Steps, Knows
<1>4. CASE UNCHANGED history /\ Answer(c, "ok")
  <2>1. Moved(c, "done", req[c], local[c])
    BY <1>1, <1>2, <1>4, AnswerMoves
  <2> QED
    BY <1>1, <1>2, <1>3, <1>4, <2>1, QuietMove
<1>5. ASSUME history' = history \cup
               {[by |-> c, fp |-> Fingerprint(req[c].sql), result |-> local[c].result]},
             IF Kept(c) THEN Goto(c, "read_max") ELSE Answer(c, "ok")
      PROVE  IInv'
  <2> DEFINE h == [by |-> c, fp |-> Fingerprint(req[c].sql), result |-> local[c].result]
  <2>1. /\ h \in [by : Calls, fp : Fingerprints, result : Results]
        /\ h.by = c /\ h.fp = Fingerprint(req[c].sql) /\ h.result = local[c].result
    BY <1>1, FingerprintType DEF TextReq
  <2>2. history' = history \cup {h}
    BY <1>5
  <2> HIDE DEF h
  <2>3. StoreTypes'
    BY <1>1, <1>2, <2>1, <2>2 DEF StoreTypes
  <2>4. PICK to \in {"read_max", "done"} :
          /\ Moved(c, to, req[c], local[c])
          /\ to = "read_max" => local[c].result = "accept"
    <3>1. CASE Kept(c)
      <4>1. local' = [local EXCEPT ![c] = local[c]]
        BY <1>1, <1>2, Keeps
      <4>2. Moved(c, "read_max", req[c], local[c])
        BY <1>1, <1>5, <3>1, <4>1, GotoMoves
      <4> QED
        BY <3>1, <4>2 DEF Kept
    <3>2. CASE ~Kept(c)
      BY <1>1, <1>2, <1>5, <3>2, AnswerMoves
    <3> QED
      BY <3>1, <3>2
  <2>5. Knows(to, req[c], local[c]) /\ to \in Steps
    BY <1>1, <2>4 DEF Knows, Steps
  <2>6. CallTypes' /\ KnowsInv'
    BY <1>1, <2>4, <2>5, MoveTypes DEF IInv
  <2>7. CheckpointInv' /\ BaselineInv'
    BY <1>2, <2>4, MoveSources DEF IInv
  <2>8. to = "read_max" => <<Fingerprint(req[c].sql), c>> \in Accepted'
    BY <2>1, <2>2, <2>4 DEF Accepted
  <2>9. ReviewInv' /\ VersionsAreNumbered'
    BY <1>2, <2>2, <2>4, <2>8, MoveReviews DEF IInv
  <2> QED
    BY <2>3, <2>6, <2>7, <2>9 DEF IInv
<1> QED
  BY <1>4, <1>5 DEF SaveVerification

\* SELECT MAX(version) returns the number of the versions there are.
LEMMA ReadMaxStep == ASSUME IInv, NEW c \in Calls, ReadMax(c) PROVE IInv'
<1>1. /\ req[c] \in TextReq /\ CallTypes /\ StoreTypes /\ pc[c] = "read_max"
      /\ local[c] \in [result : Results, max : Nat]
      /\ local[c].result = "accept" /\ ~RefusedByCode(req[c].sql)
      /\ <<Fingerprint(req[c].sql), c>> \in Accepted
  BY DEF ReadMax, IInv, KnowsInv, Knows, ReviewInv
<1> DEFINE n == Max({0} \cup {v.version : v \in VersionsOf(Fingerprint(req[c].sql))})
<1>2. n = Cardinality(VersionsOf(Fingerprint(req[c].sql))) /\ n \in Nat
  <2>1. Fingerprint(req[c].sql) \in Fingerprints
    BY <1>1, FingerprintType DEF TextReq
  <2> QED
    BY <1>1, <2>1, MaxIsCount, VersionsFinite DEF IInv
<1>3. local' = [local EXCEPT ![c] = [local[c] EXCEPT !.max = n]] /\ Goto(c, "insert_version")
  BY DEF ReadMax
<1> HIDE DEF n
<1> DEFINE l == [local[c] EXCEPT !.max = n]
<1>4. l \in [result : Results, max : Nat] /\ l.result = "accept" /\ l.max = n
  BY <1>1, <1>2
<1>5. local' = [local EXCEPT ![c] = l]
  BY <1>3
<1> HIDE DEF l
<1>6. Moved(c, "insert_version", req[c], l)
  BY <1>1, <1>3, <1>5, GotoMoves
<1>7. Knows("insert_version", req[c], l) /\ "insert_version" \in Steps
  BY <1>1, <1>4 DEF Knows, Steps
<1>8. UNCHANGED <<candidates, selection, history, versions, baseline>>
  BY DEF ReadMax, stores
<1>9. CallTypes' /\ KnowsInv'
  BY <1>1, <1>6, <1>7, MoveTypes DEF IInv
<1>10. CheckpointInv' /\ BaselineInv'
  BY <1>6, <1>8, MoveSources DEF IInv
<1>11. StoreTypes'
  BY <1>1, <1>8 DEF StoreTypes
<1>12. Accepted' = Accepted
  BY <1>8 DEF Accepted
<1>13. l.max <= Cardinality(VersionsOf(Fingerprint(req[c].sql)))
  BY <1>2, <1>4
<1>14. ReviewInv' /\ VersionsAreNumbered'
  BY <1>1, <1>6, <1>8, <1>12, <1>13, MoveReviews DEF IInv
<1> QED
  BY <1>9, <1>10, <1>11, <1>14 DEF IInv

\* What a review inserts: a row of its own for the statement it has accepted,
\* with a number at most one above the count.
LEMMA InsertedRow ==
  ASSUME IInv, NEW c \in Calls, InsertVersion(c), versions' # versions
  PROVE  \E row \in Version :
           /\ row = [fp |-> Fingerprint(req[c].sql), version |-> row.version,
                     sql |-> req[c].sql, by |-> c]
           /\ row.version \in 1..(Cardinality(VersionsOf(row.fp)) + 1)
           /\ versions' = InsertRow(row)
<1>1. /\ req[c] \in TextReq /\ StoreTypes /\ pc[c] = "insert_version"
      /\ local[c] \in [result : Results, max : Nat] /\ ~RefusedByCode(req[c].sql)
      /\ local[c].max <= Cardinality(VersionsOf(Fingerprint(req[c].sql)))
  BY DEF InsertVersion, IInv, KnowsInv, Knows, ReviewInv
<1> DEFINE row == [fp |-> Fingerprint(req[c].sql), version |-> local[c].max + 1,
                   sql |-> req[c].sql, by |-> c]
<1>2. local[c].max + 1 \in Nat /\ local[c].max \in Nat
  BY <1>1
<1>3. row \in Version
  BY <1>1, <1>2, FingerprintType DEF Version, TextReq
<1>4. row.version \in 1..(Cardinality(VersionsOf(row.fp)) + 1)
  BY <1>1, <1>2, VersionsFinite
<1>5. versions' = InsertRow(row)
  BY DEF InsertVersion
<1> QED
  BY <1>3, <1>4, <1>5

LEMMA InsertVersionStep == ASSUME IInv, NEW c \in Calls, InsertVersion(c) PROVE IInv'
<1>1. /\ CallTypes /\ StoreTypes /\ ReviewInv /\ VersionsAreNumbered
      /\ req[c] \in TextReq /\ pc[c] = "insert_version"
  BY DEF InsertVersion, IInv, KnowsInv, Knows
<1>2. UNCHANGED <<local, candidates, selection, history, baseline>> /\ Answer(c, "ok")
  BY DEF InsertVersion
<1>3. "done" \in Steps \ {"read_max", "insert_version"} /\ Knows("done", req[c], local[c])
  BY DEF Steps, Knows
<1>4. Moved(c, "done", req[c], local[c])
  BY <1>1, <1>2, AnswerMoves
<1>5. CASE versions' = versions
  BY <1>1, <1>2, <1>3, <1>4, <1>5, QuietMove
<1>6. CASE versions' # versions
  <2>1. PICK row \in Version :
          /\ row = [fp |-> Fingerprint(req[c].sql), version |-> row.version,
                    sql |-> req[c].sql, by |-> c]
          /\ row.version \in 1..(Cardinality(VersionsOf(row.fp)) + 1)
          /\ versions' = InsertRow(row)
    BY <1>6, InsertedRow
  <2>2. /\ VersionsAreNumbered'
        /\ IsFiniteSet(versions') /\ versions' \subseteq Version
        /\ \A f : /\ Cardinality(VersionsOf(f)) \in Nat /\ Cardinality(VersionsOf(f)') \in Nat
                  /\ Cardinality(VersionsOf(f)) <= Cardinality(VersionsOf(f)')
        /\ versions' = versions \cup {row}
    BY <1>1, <1>6, <2>1, InsertNumbers
  <2>3. CallTypes' /\ KnowsInv'
    BY <1>1, <1>3, <1>4, MoveTypes DEF IInv
  <2>4. CheckpointInv' /\ BaselineInv'
    BY <1>2, <1>4, MoveSources DEF IInv
  <2>5. StoreTypes'
    BY <1>1, <1>2, <2>2 DEF StoreTypes
  <2>6. ReviewInv'
    <3>1. /\ pc'[c] = "done" /\ req'[c] = req[c] /\ local'[c] = local[c]
          /\ \A d \in Calls : d # c =>
               pc'[d] = pc[d] /\ req'[d] = req[d] /\ local'[d] = local[d] /\ reply'[d] = reply[d]
      BY <1>1, <1>4, MovedFrame
    <3>2. \A v \in versions' : pc'[v.by] = "done"
      <4>1. row.by = c
        BY <2>1
      <4>2. \A v \in versions : v.by \in Calls /\ pc[v.by] = "done"
        BY <1>1 DEF ReviewInv, StoreTypes, Version
      <4> QED
        BY <2>2, <3>1, <4>1, <4>2
    <3>3. Accepted' = Accepted
      BY <1>2 DEF Accepted
    <3>4. ASSUME NEW d \in Calls, pc'[d] \in {"read_max", "insert_version"}
          PROVE  <<Fingerprint(req'[d].sql), d>> \in Accepted'
      BY <1>1, <3>1, <3>3, <3>4 DEF ReviewInv
    <3>5. ASSUME NEW d \in Calls, pc'[d] = "insert_version"
          PROVE  local'[d].max <= Cardinality(VersionsOf(Fingerprint(req[d].sql)))'
      <4>1. PICK f : f = Fingerprint(req[d].sql)
        OBVIOUS
      <4>2. /\ pc[d] = "insert_version" /\ req'[d] = req[d] /\ local'[d] = local[d]
        BY <3>1, <3>5
      <4>3. local[d].max \in Nat /\ local[d].max <= Cardinality(VersionsOf(f))
        BY <1>1, <4>1, <4>2 DEF IInv, KnowsInv, Knows, ReviewInv
      <4>4. local'[d].max <= Cardinality(VersionsOf(f)')
        BY <2>2, <4>2, <4>3
      <4>5. VersionsOf(Fingerprint(req[d].sql))' = VersionsOf(f)'
        BY <4>1, <4>2 DEF VersionsOf, Fingerprint
      <4> QED
        BY <4>4, <4>5
    <3> QED
      BY <3>2, <3>4, <3>5 DEF ReviewInv
  <2> QED
    BY <2>2, <2>3, <2>4, <2>5, <2>6 DEF IInv
<1> QED
  BY <1>5, <1>6

LEMMA SaveFeedbackStep == ASSUME IInv, NEW c \in Calls, SaveFeedback(c) PROVE IInv'
<1>1. req[c] \in TextReq /\ CallTypes /\ pc[c] = "save_feedback"
  BY DEF SaveFeedback, IInv, KnowsInv, Knows
<1>2. "done" \in Steps \ {"read_max", "insert_version"} /\ Knows("done", req[c], local[c])
  BY DEF Steps, Knows
<1>3. PICK status \in {"ok", "error"} : Answer(c, status)
  BY DEF SaveFeedback
<1>4. UNCHANGED <<local, candidates, selection, history, versions, baseline>>
  BY DEF SaveFeedback
<1>5. Moved(c, "done", req[c], local[c])
  BY <1>1, <1>3, <1>4, AnswerMoves
<1> QED
  BY <1>1, <1>2, <1>4, <1>5, QuietMove

\* A step that changes none of what calls and stores hold.
LEMMA StoresStay ==
  ASSUME StoreTypes, VersionsAreNumbered, UNCHANGED stores
  PROVE  /\ StoreTypes' /\ VersionsAreNumbered' /\ Accepted' = Accepted
         /\ \A f : VersionsOf(f)' = VersionsOf(f)
<1>1. \A f : VersionsOf(f)' = VersionsOf(f)
  BY DEF VersionsOf, stores
<1> QED
  BY <1>1 DEF StoreTypes, VersionsAreNumbered, Accepted, stores

LEMMA PoolChangesStep == ASSUME IInv, PoolChanges PROVE IInv'
<1>1. UNCHANGED <<loop, pc, req, local, reply, stores, crashes>> /\ pool' \subseteq Cacheable
  BY DEF PoolChanges, IInv, CallTypes
<1>2. StoreTypes' /\ VersionsAreNumbered' /\ Accepted' = Accepted
      /\ \A f : VersionsOf(f)' = VersionsOf(f)
  BY <1>1, StoresStay DEF IInv
<1>3. CallTypes'
  BY <1>1 DEF IInv, CallTypes
<1>4. KnowsInv' /\ CheckpointInv' /\ BaselineInv'
  <2>1. UNCHANGED <<pc, req, local, reply, candidates, selection, baseline>>
    BY <1>1 DEF stores
  <2>2. KnowsInv'
    BY <2>1 DEF IInv, KnowsInv
  <2>3. CheckpointInv'
    BY <2>1 DEF IInv, CheckpointInv
  <2>4. BaselineInv'
    BY <2>1 DEF IInv, BaselineInv
  <2> QED  BY <2>2, <2>3, <2>4
<1>5. ReviewInv'
  BY <1>1, <1>2 DEF IInv, ReviewInv, stores, Fingerprint
<1> QED
  BY <1>2, <1>3, <1>4, <1>5 DEF IInv

\* A crash ends calls and changes no store.
LEMMA CrashStep == ASSUME IInv, NEW p \in Processes, Crash(p) PROVE IInv'
<1>1. /\ UNCHANGED <<pool, req, local, reply, stores>>
      /\ pc' = [c \in Calls |-> IF Process[c] = p /\ pc[c] \notin {"idle", "done"}
                               THEN "dead" ELSE pc[c]]
      /\ loop' = [loop EXCEPT ![p] = Nobody]
      /\ crashes < MaxCrashes /\ crashes' = crashes + 1
  BY DEF Crash
<1>2. \A c \in Calls :
        /\ pc'[c] = pc[c] \/ pc'[c] = "dead"
        /\ pc[c] = "done" <=> pc'[c] = "done"
  BY <1>1
<1>3. StoreTypes' /\ VersionsAreNumbered' /\ Accepted' = Accepted
      /\ \A f : VersionsOf(f)' = VersionsOf(f)
  BY <1>1, StoresStay DEF IInv
<1>4. CallTypes'
  <2>1. pc' \in [Calls -> Steps]
    BY <1>1 DEF IInv, CallTypes, Steps
  <2>2. crashes' \in 0..MaxCrashes
    BY <1>1, StoresConstantsOK DEF IInv, CallTypes
  <2>3. /\ loop' \in [Processes -> Calls \cup {Nobody}]
        /\ \A q \in Processes : loop'[q] = Nobody \/ Process[loop'[q]] = q
    BY <1>1 DEF IInv, CallTypes
  <2> QED
    BY <1>1, <1>2, <2>1, <2>2, <2>3 DEF IInv, CallTypes
<1>5. KnowsInv'
  <2>1. \A r, l : Knows("dead", r, l)
    BY DEF Knows
  <2> QED
    BY <1>1, <1>2, <2>1 DEF IInv, KnowsInv
<1>6. CheckpointInv'
  <2>1. candidates' = candidates /\ selection' = selection
    BY <1>1 DEF stores
  <2>2. ASSUME NEW s \in Sessions, candidates[s] # {}
        PROVE  \E d \in Calls :
                 /\ pc'[d] = "done" /\ req'[d].op = "search" /\ req'[d].session = s
                 /\ local'[d] = [list |-> candidates[s]]
    BY <1>1, <1>2, <2>2 DEF IInv, CheckpointInv
  <2>3. ASSUME NEW s \in Sessions, selection[s] # NoId
        PROVE  \E d \in Calls :
                 /\ pc'[d] \in {"graph", "done", "dead"} /\ reply'[d] # "no_answer"
                 /\ req'[d].op = "diagnose" /\ req'[d].session = s /\ req'[d].id = selection[s]
    <3>1. PICK d \in Calls :
            /\ pc[d] \in {"graph", "done", "dead"} /\ reply[d] # "no_answer"
            /\ req[d].op = "diagnose" /\ req[d].session = s /\ req[d].id = selection[s]
      BY <2>3 DEF IInv, CheckpointInv
    <3>2. pc'[d] \in {"graph", "done", "dead"}
      BY <1>2, <3>1
    <3> QED
      BY <1>1, <3>1, <3>2
  <2> QED
    BY <2>1, <2>2, <2>3 DEF CheckpointInv
<1>7. BaselineInv'
  <2>1. baseline' = baseline
    BY <1>1 DEF stores
  <2>2. \A f \in Fingerprints : baseline[f] # NoRow => baseline[f].by \in Calls
    BY DEF IInv, StoreTypes
  <2> QED
    BY <1>1, <1>2, <2>1, <2>2 DEF IInv, BaselineInv, Fingerprint, StatementOf
<1>8. ReviewInv'
  <2>1. \A v \in versions : v.by \in Calls
    BY DEF IInv, StoreTypes, Version
  <2> QED
    BY <1>1, <1>2, <1>3, <2>1 DEF IInv, ReviewInv, stores, Fingerprint
<1> QED
  BY <1>3, <1>4, <1>5, <1>6, <1>7, <1>8 DEF IInv

LEMMA StutterStep == ASSUME IInv, UNCHANGED vars PROVE IInv'
<1>1. UNCHANGED <<pool, loop, pc, req, local, reply, stores, crashes>>
  BY DEF vars
<1>2. StoreTypes' /\ VersionsAreNumbered' /\ Accepted' = Accepted
      /\ \A f : VersionsOf(f)' = VersionsOf(f)
  BY <1>1, StoresStay DEF IInv
<1>3. CallTypes'
  BY <1>1 DEF IInv, CallTypes
<1>4. KnowsInv' /\ CheckpointInv' /\ BaselineInv'
  <2>1. UNCHANGED <<pc, req, local, reply, candidates, selection, baseline>>
    BY <1>1 DEF stores
  <2>2. KnowsInv'
    BY <2>1 DEF IInv, KnowsInv
  <2>3. CheckpointInv'
    BY <2>1 DEF IInv, CheckpointInv
  <2>4. BaselineInv'
    BY <2>1 DEF IInv, BaselineInv
  <2> QED  BY <2>2, <2>3, <2>4
<1>5. ReviewInv'
  BY <1>1, <1>2 DEF IInv, ReviewInv, stores, Fingerprint
<1> QED
  BY <1>2, <1>3, <1>4, <1>5 DEF IInv

-----------------------------------------------------------------------------
(* The theorems                                                            *)

\* The inductive invariant holds in every state, over all interleavings of the
\* calls of any number of processes, all failures of a store and all crashes.
THEOREM Invariance == Spec => []IInv
<1>1. ASSUME IInv, NEW c \in Calls, Handle(c) PROVE IInv'
  BY <1>1, LookStep, SaveListStep, FetchTextStep, FetchPlanStep, SaveSelectionStep,
     EndGraphStep, ReviewStep, SaveVerificationStep, ReadMaxStep, InsertVersionStep,
     SaveFeedbackStep DEF Handle
<1>2. IInv /\ [Next]_vars => IInv'
  BY <1>1, AskStep, PoolChangesStep, CrashStep, StutterStep DEF Next
<1> QED
  BY InitStep, <1>2, PTL DEF Spec

\* All state stays within its types; no version holds a text that code refuses
\* (validator.py:53-66), though one that does not look like SQL may be one.
THEOREM TypeCorrect == Spec => []TypeOK
<1>1. IInv => TypeOK
  BY DEF IInv, CallTypes, StoreTypes, TypeOK, Version, Results, PlanKinds
<1> QED
  BY <1>1, Invariance, PTL

\* The versions of every statement are numbered 1, 2, ... without a gap or a
\* repetition, however any number of processes interleave the two statements of
\* save_sql_version and wherever they die (storage.py:189-208).
THEOREM Numbered == Spec => []VersionsAreNumbered
BY Invariance, PTL DEF IInv

\* What a session's checkpoints hold came from that session: the list of one of
\* its searches, an id one of its diagnoses was asked for and found
\* (pipeline.py:402-405, 446-467).
THEOREM OwnCheckpoints == Spec => []CheckpointsAreTheSessions
<1>1. IInv => CheckpointsAreTheSessions
  BY DEF IInv, CheckpointInv, CheckpointsAreTheSessions
<1> QED
  BY <1>1, Invariance, PTL

\* A baseline belongs to the statement its id stands for and comes from a
\* diagnosis of it that succeeded (pipeline.py:474-484).
THEOREM OwnBaselines == Spec => []BaselineIsOfADiagnosis
<1>1. IInv => BaselineIsOfADiagnosis
  BY DEF IInv, BaselineInv, BaselineIsOfADiagnosis
<1> QED
  BY <1>1, Invariance, PTL

-----------------------------------------------------------------------------
(* The refinement                                                          *)

\* The two stores implement the log of versions: a committed version is never
\* changed or removed, and every version is the one entry of a review whose
\* acceptance of that statement was committed before it (storage.py:198,
\* pipeline.py:340-351).
THEOREM Refinement == Spec => ImplementsVersionLog
<1> USE DEF Log!Accept, Log!AppendVersion, Log!VLNext, Log!vlVars
<1>1. Init => Log!VLInit
  BY DEF Init, Log!VLInit, Accepted
<1>2. ASSUME IInv, [Next]_vars
      PROVE  [Log!VLNext]_(Log!vlVars)
  <2>1. ASSUME NEW c \in Calls, SaveVerification(c)
        PROVE  [Log!VLNext]_(Log!vlVars)
    <3>1. req[c].sql \in Statements /\ versions' = versions
      BY <1>2, <2>1 DEF SaveVerification, IInv, KnowsInv, Knows, TextReq
    <3>2. CASE history' = history
      BY <3>1, <3>2 DEF Accepted
    <3>3. CASE history' # history
      <4> DEFINE h == [by |-> c, fp |-> Fingerprint(req[c].sql), result |-> local[c].result]
      <4>1. history' = history \cup {h}
        BY <2>1, <3>3 DEF SaveVerification
      <4>2. h.by = c /\ h.fp = Fingerprint(req[c].sql)
        OBVIOUS
      <4> HIDE DEF h
      <4>3. CASE h.result = "accept"
        <5>1. Accepted' = Accepted \cup {<<Fingerprint(req[c].sql), c>>}
          BY <4>1, <4>2, <4>3 DEF Accepted
        <5>2. Log!Accept(Fingerprint(req[c].sql), c)
          BY <3>1, <5>1 DEF Accepted
        <5> QED
          BY <3>1, <5>2
      <4>4. CASE h.result # "accept"
        BY <3>1, <4>1, <4>4 DEF Accepted
      <4> QED
        BY <4>3, <4>4
    <3> QED
      BY <3>2, <3>3
  <2>2. ASSUME NEW c \in Calls, InsertVersion(c), versions' # versions
        PROVE  Log!VLNext
    <3>1. PICK row \in Version :
            /\ row = [fp |-> Fingerprint(req[c].sql), version |-> row.version,
                      sql |-> req[c].sql, by |-> c]
            /\ row.version \in 1..(Cardinality(VersionsOf(row.fp)) + 1)
            /\ versions' = InsertRow(row)
      BY <1>2, <2>2, InsertedRow
    <3>2. /\ versions' = versions \cup {row}
          /\ row.version = Cardinality(VersionsOf(row.fp)) + 1
      BY <1>2, <2>2, <3>1, InsertNumbers DEF IInv
    <3>3. /\ req[c].sql \in Statements
          /\ <<Fingerprint(req[c].sql), c>> \in Accepted
          /\ \A entry \in versions : entry.by # c
      BY <1>2, <2>2 DEF InsertVersion, IInv, KnowsInv, Knows, TextReq, ReviewInv
    <3>4. history' = history
      BY <2>2 DEF InsertVersion
    <3>5. row.fp = Fingerprint(req[c].sql)
      BY <3>1
    <3>6. row = [fp |-> Fingerprint(req[c].sql),
                 version |-> Cardinality(VersionsOf(Fingerprint(req[c].sql))) + 1,
                 sql |-> req[c].sql, by |-> c]
      BY <3>1, <3>2, <3>5
    <3>7. \A S : Log!Cardinality(S) = Cardinality(S)
      BY DEF Log!Cardinality, Cardinality
    <3>8. Log!AppendVersion(req[c].sql, c)
      BY <3>2, <3>3, <3>4, <3>6, <3>7 DEF Accepted, VersionsOf, Log!EntriesOf
    <3> QED
      BY <3>3, <3>8
  <2>3. CASE UNCHANGED <<history, versions>>
    BY <2>3 DEF Accepted
  <2>4. ASSUME NEW c \in Calls, Ask(c) PROVE UNCHANGED <<history, versions>>
    BY <2>4 DEF Ask, AskSearch, AskDiagnose, AskReview, AskFeedback, Begin, stores
  <2>5. ASSUME NEW c \in Calls, Handle(c), ~SaveVerification(c), versions' = versions
        PROVE  UNCHANGED <<history, versions>>
    BY <2>5 DEF Handle, Look, SaveList, FetchText, FetchPlan, SaveSelection, EndGraph, Review,
       ReadMax, InsertVersion, SaveFeedback, stores
  <2>6. ASSUME NEW c \in Calls, Handle(c), versions' # versions
        PROVE  InsertVersion(c)
    BY <2>6 DEF Handle, Look, SaveList, FetchText, FetchPlan, SaveSelection, EndGraph, Review,
       SaveVerification, ReadMax, SaveFeedback, stores
  <2>7. ASSUME PoolChanges \/ (\E p \in Processes : Crash(p)) \/ UNCHANGED vars
        PROVE  UNCHANGED <<history, versions>>
    BY <2>7 DEF PoolChanges, Crash, vars, stores
  <2> QED
    BY <1>2, <2>1, <2>2, <2>3, <2>4, <2>5, <2>6, <2>7 DEF Next
<1> QED
  BY <1>1, <1>2, Invariance, PTL DEF Spec, ImplementsVersionLog, Log!VLSpec
=============================================================================

-------------------------- MODULE Evaluation_proofs -------------------------
(***************************************************************************)
(* Proofs about QueryGate and Evaluation, for any questions, plans with    *)
(* any quantities in any number of lines, any processes, and an evaluation *)
(* of any length: what the guards let through to the database, what the    *)
(* gate lets run, what an answer rests on, whose words a free answer is    *)
(* and what the report counts.                                             *)
(*                                                                         *)
(* A request is served by what it carries itself; the loop of its process  *)
(* and the baselines are all it shares.  So the inductive invariant says   *)
(* of one request (Served) what it carries at each step, of the loop who   *)
(* holds it, and of a baseline where it comes from; the evaluation adds    *)
(* that it waits for the answer to the item that has no result yet.  The   *)
(* arithmetic is apart: the largest number that is read from a plan is not *)
(* below any, and a printed number is short of the number by less than its *)
(* unit.  So is the reading of a conversation: the last words in its       *)
(* messages are found round by round (EndsWith).                           *)
(***************************************************************************)
EXTENDS Evaluation, FiniteSetTheorems, SequenceTheorems, TLAPS

-----------------------------------------------------------------------------
(* Numbers of a plan                                                       *)

\* A finite set of numbers has a largest one, and Max is it: of the sets that
\* lie below such a set, a smallest one has a single member.
LEMMA MaxOfFinite ==
  ASSUME NEW S \in SUBSET Int, IsFiniteSet(S), S # {}
  PROVE  Max(S) \in S /\ \A y \in S : y <= Max(S)
<1> DEFINE Above == {U \in SUBSET S : \A x \in S : \E y \in U : x <= y}
<1>1. Above \subseteq FiniteSubsetsOf(S)
  BY FS_Subset DEF FiniteSubsetsOf
<1>2. S \in Above
  OBVIOUS
<1>3. PICK U \in Above : \A V \in Above : <<V, U>> \notin StrictSubsetOrdering(S)
  <2>1. IsWellFoundedOn(StrictSubsetOrdering(S), FiniteSubsetsOf(S))
    BY FS_StrictSubsetOrderingWellFounded
  <2> HIDE DEF Above
  <2> QED  BY <1>1, <1>2, <2>1, WFMin
<1>4. \A V \in Above : V \subseteq U => V = U
  BY <1>3 DEF StrictSubsetOrdering
<1>5. PICK m : m \in U
  OBVIOUS
<1>6. \A a, b \in U : ~(a < b)
  <2>1. SUFFICES ASSUME NEW a \in U, NEW b \in U, a < b PROVE FALSE
    OBVIOUS
  <2>2. ASSUME NEW x \in S PROVE \E y \in U \ {a} : x <= y
    <3>1. PICK y \in U : x <= y
      OBVIOUS
    <3>2. CASE y # a
      BY <3>1, <3>2
    <3>3. CASE y = a
      BY <2>1, <3>1, <3>3
    <3> QED  BY <3>2, <3>3
  <2>3. U \ {a} \in Above
    BY <2>2
  <2> QED  BY <2>3, <1>4
<1>7. U \subseteq S /\ \A x \in S : \E y \in U : x <= y
  OBVIOUS
<1>8. m \in S /\ \A y \in S : m >= y
  BY <1>5, <1>6, <1>7
<1> QED  BY <1>8 DEF Max

\* What a function makes of a finite set is finite.
LEMMA FiniteImage ==
  ASSUME NEW S, IsFiniteSet(S), NEW f, DOMAIN f = S
  PROVE  IsFiniteSet({f[x] : x \in S})
<1>1. [x \in S |-> f[x]] \in Surjection(S, {f[x] : x \in S})
  BY DEF Surjection
<1> QED  BY <1>1, FS_Surjection

\* A number that is printed plain, in thousands or in millions is not below what
\* is printed, and above it by less than its unit.
LEMMA CellIsNumber ==
  ASSUME NEW v \in Nat, v # Vast
  PROVE  /\ Cell(v).n \in Nat /\ Cell(v).unit \in {"plain", "K", "M"}
         /\ Scaled(Cell(v)) \in Nat
         /\ v < 100000 => Cell(v).unit = "plain" /\ Cell(v).n = v
         /\ v >= 1001000 => Cell(v).unit \in {"K", "M"} /\ Scaled(Cell(v)) > 1000000
<1>1. CASE v < 100000
  <2>1. Cell(v) = [n |-> v, unit |-> "plain"]
    BY <1>1 DEF Cell
  <2>2. Cell(v).n = v /\ Cell(v).unit = "plain"
    BY <2>1
  <2> QED  BY <1>1, <2>2, SMT DEF Scaled
<1>2. CASE v >= 100000 /\ v < 10000000
  <2>1. Cell(v) = [n |-> v \div 1000, unit |-> "K"]
    BY <1>2 DEF Cell
  <2>2. Cell(v).n = v \div 1000 /\ Cell(v).unit = "K"
    BY <2>1
  <2>3. v \div 1000 \in Nat /\ (v \div 1000) * 1000 > v - 1000
    BY SMT
  <2> QED  BY <1>2, <2>2, <2>3, SMT DEF Scaled
<1>3. CASE v >= 10000000
  <2>1. Cell(v) = [n |-> v \div 1000000, unit |-> "M"]
    BY <1>3 DEF Cell
  <2>2. Cell(v).n = v \div 1000000 /\ Cell(v).unit = "M"
    BY <2>1
  <2>3. v \div 1000000 \in Nat /\ (v \div 1000000) * 1000000 > v - 1000000
    BY SMT
  <2> QED  BY <1>3, <2>2, <2>3, SMT DEF Scaled
<1> QED  BY <1>1, <1>2, <1>3, SMT

\* What is printed in a larger unit is neither plain nor in thousands or millions.
LEMMA VastIsNotRead == Cell(Vast).unit = "larger"
BY DEF Cell

\* The costs and the row counts that are read from a text are finitely many.
LEMMA ReadingsAreFinite ==
  ASSUME NEW t \in Texts \cup {NoText}
  PROVE  /\ {0} \cup Costs(t) \in SUBSET Nat /\ IsFiniteSet({0} \cup Costs(t))
         /\ {0} \cup Rows(t) \in SUBSET Nat /\ IsFiniteSet({0} \cup Rows(t))
<1>1. /\ IsFiniteSet({0}) /\ IsFiniteSet({})
      /\ IsFiniteSet({MockNumbers.cost}) /\ IsFiniteSet({MockNumbers.rows})
  BY FS_Singleton, FS_EmptySet
<1>2. MockNumbers.cost \in Nat /\ MockNumbers.rows \in Nat
  BY DEF MockNumbers
<1>3. t.lines \subseteq PlanLine /\ IsFiniteSet(t.lines)
  <2>1. IsFiniteSet({})
    BY FS_EmptySet
  <2>2. t \in {MockText, NoPlanText, NoText} \/ \E p \in Plans : t = Table(p) \/ t = Stats(p)
    BY DEF Texts
  <2>3. t.lines = {} \/ \E p \in Plans : t.lines = p
    BY <2>2 DEF Table, Stats, MockText, NoPlanText, NoText
  <2> QED  BY <2>1, <2>3, QueryConstantsOK
<1> DEFINE P == t.lines
           Plain == {k \in P : Cell(k.cost).unit = "plain"}
           All == {Cell(l.rows) : l \in P} \cup {Cell(l.bytes) : l \in P} \cup
                     (IF t.kind = "table" THEN {Cell(l.cost) : l \in P} ELSE {})
           Suffixed == {d \in All : d.unit \in {"K", "M"}}
<1>4. {l.cost : l \in Plain} \in SUBSET Nat /\ IsFiniteSet({l.cost : l \in Plain})
  <2> DEFINE f == [l \in Plain |-> l.cost]
  <2>1. IsFiniteSet(Plain)
    BY <1>3, FS_Subset
  <2>2. IsFiniteSet({f[l] : l \in Plain})
    <3>1. DOMAIN f = Plain
      OBVIOUS
    <3> HIDE DEF f, Plain
    <3> QED  BY <2>1, <3>1, FiniteImage
  <2>3. {f[l] : l \in Plain} = {l.cost : l \in Plain}
    OBVIOUS
  <2>4. \A l \in Plain : l.cost \in Nat
    BY <1>3, VastIsNotRead DEF PlanLine, Quantity
  <2> QED  BY <2>2, <2>3, <2>4
<1>5. IsFiniteSet(All) /\ \A c \in Suffixed : Scaled(c) \in Nat
  <2> DEFINE f == [l \in P |-> Cell(l.rows)]
             g == [l \in P |-> Cell(l.bytes)]
             h == [l \in P |-> Cell(l.cost)]
  <2>1. IsFiniteSet({f[l] : l \in P}) /\ IsFiniteSet({g[l] : l \in P}) /\ IsFiniteSet({h[l] : l \in P})
    <3>1. DOMAIN f = P /\ DOMAIN g = P /\ DOMAIN h = P
      OBVIOUS
    <3> HIDE DEF f, g, h, P
    <3> QED  BY <1>3, <3>1, FiniteImage DEF P
  <2>2. /\ {f[l] : l \in P} = {Cell(l.rows) : l \in P}
        /\ {g[l] : l \in P} = {Cell(l.bytes) : l \in P}
        /\ {h[l] : l \in P} = {Cell(l.cost) : l \in P}
    OBVIOUS
  <2>3. IsFiniteSet({Cell(l.rows) : l \in P} \cup {Cell(l.bytes) : l \in P})
    BY <2>1, <2>2, FS_Union
  <2>4. IsFiniteSet(IF t.kind = "table" THEN {Cell(l.cost) : l \in P} ELSE {})
    BY <2>1, <2>2, <1>1
  <2>5. IsFiniteSet(All)
    BY <2>3, <2>4, FS_Union
  <2>6. \A l \in P : l.rows \in Quantity /\ l.bytes \in Quantity /\ l.cost \in Quantity
    BY <1>3 DEF PlanLine
  <2>7. \A c \in All : \E v \in Quantity : c = Cell(v)
    BY <2>6
  <2>8. \A v \in Quantity : Cell(v).unit \in {"K", "M"} => Scaled(Cell(v)) \in Nat
    BY CellIsNumber, VastIsNotRead DEF Quantity
  <2> QED  BY <2>5, <2>7, <2>8
<1>6. {Scaled(c) : c \in Suffixed} \in SUBSET Nat /\ IsFiniteSet({Scaled(c) : c \in Suffixed})
  <2> DEFINE f == [c \in Suffixed |-> Scaled(c)]
  <2>1. IsFiniteSet(Suffixed)
    BY <1>5, FS_Subset
  <2>2. IsFiniteSet({f[c] : c \in Suffixed})
    <3>1. DOMAIN f = Suffixed
      OBVIOUS
    <3> HIDE DEF f, Suffixed
    <3> QED  BY <2>1, <3>1, FiniteImage
  <2>3. {f[c] : c \in Suffixed} = {Scaled(c) : c \in Suffixed}
    OBVIOUS
  <2> QED  BY <1>5, <2>2, <2>3
<1>7. Costs(t) \in {{MockNumbers.cost}, {l.cost : l \in Plain}, {}}
  BY DEF Costs
<1>8. Rows(t) \in {{MockNumbers.rows}, {Scaled(c) : c \in Suffixed}}
  BY DEF Rows
<1> HIDE DEF P, Plain, All, Suffixed
<1>9. Costs(t) \in SUBSET Nat /\ IsFiniteSet(Costs(t)) /\ Rows(t) \in SUBSET Nat /\ IsFiniteSet(Rows(t))
  BY <1>1, <1>2, <1>4, <1>6, <1>7, <1>8
<1>10. IsFiniteSet({0} \cup Costs(t)) /\ IsFiniteSet({0} \cup Rows(t))
  BY <1>1, <1>9, FS_Union
<1> QED  BY <1>9, <1>10

\* What is extracted are numbers, and none that was read is larger.
LEMMA ExtractIsLargest ==
  ASSUME NEW t \in Texts \cup {NoText}
  PROVE  /\ Extract(t).cost \in {0} \cup Costs(t) /\ Extract(t).rows \in {0} \cup Rows(t)
         /\ Extract(t).cost \in Nat /\ Extract(t).rows \in Nat
         /\ \A c \in Costs(t) : c <= Extract(t).cost
         /\ \A n \in Rows(t) : n <= Extract(t).rows
BY ReadingsAreFinite, MaxOfFinite DEF Extract

\* The gate calls every plan HIGH that it has to recognise, whatever the units
\* the plan is printed in, and neither the mock nor words without a plan.
LEMMA RecognisableIsHigh ==
  ASSUME NEW p \in Plans, Recognisable(p)
  PROVE  RiskLevel(Table(p)) = "HIGH"
<1> DEFINE t == Table(p)
<1>1. t \in Texts /\ t.kind = "table" /\ t.lines = p
  BY DEF Texts, Table
<1>2. p \subseteq PlanLine
  BY QueryConstantsOK
<1>3. PICK l \in p : \/ l.op = "cartesian"
                     \/ l.cost # Vast /\ l.cost > CostThreshold /\ l.cost < 100000
                     \/ l.rows # Vast /\ l.rows >= RowsThreshold + 1000
  BY SMT DEF Recognisable
<1>4. (l.cost # Vast => l.cost \in Nat) /\ (l.rows # Vast => l.rows \in Nat)
  BY <1>2 DEF PlanLine, Quantity
<1>5. CASE l.op = "cartesian"
  BY <1>1, <1>5 DEF RiskLevel, Has
<1>6. CASE l.cost # Vast /\ l.cost > CostThreshold /\ l.cost < 100000
  <2>1. Cell(l.cost).unit = "plain"
    BY <1>4, <1>6, CellIsNumber, SMT
  <2>2. l.cost \in Costs(t)
    BY <1>1, <2>1 DEF Costs
  <2>3. l.cost <= Extract(t).cost /\ Extract(t).cost \in Nat
    BY <1>1, <2>2, ExtractIsLargest
  <2>4. Extract(t).cost > CostThreshold
    BY <1>4, <1>6, <2>3, SMT DEF CostThreshold
  <2> QED  BY <2>4 DEF RiskLevel, Exceeds
<1>7. CASE l.rows # Vast /\ l.rows >= RowsThreshold + 1000
  <2> DEFINE c == Cell(l.rows)
  <2>1. l.rows # Vast /\ l.rows \in Nat /\ l.rows >= 1001000
    BY <1>4, <1>7, SMT DEF RowsThreshold
  <2>2. c.unit \in {"K", "M"} /\ Scaled(c) > RowsThreshold /\ Scaled(c) \in Nat
    BY <2>1, CellIsNumber, SMT DEF RowsThreshold
  <2>3. Scaled(c) \in Rows(t)
    BY <1>1, <2>2 DEF Rows
  <2>4. Scaled(c) <= Extract(t).rows /\ Extract(t).rows \in Nat
    <3> HIDE DEF c
    <3> QED  BY <1>1, <2>3, ExtractIsLargest
  <2>5. Extract(t).rows > RowsThreshold
    BY <2>2, <2>4, SMT DEF RowsThreshold
  <2> QED  BY <2>5 DEF RiskLevel, Exceeds
<1> QED  BY <1>3, <1>5, <1>6, <1>7, SMT

\* The mock's own numbers are below the limits, and words have none.
LEMMA MockIsFitToRun ==
  RiskLevel(MockText) # "HIGH" /\ RiskLevel(NoPlanText) # "HIGH"
<1>1. MockText \in Texts /\ NoPlanText \in Texts
  BY DEF Texts
<1>2. Extract(MockText).cost \in {0, 100} /\ Extract(MockText).rows \in {0, 1000}
  BY <1>1, ExtractIsLargest, SMT DEF Costs, Rows, MockText, MockNumbers
<1>3. Extract(NoPlanText).cost = 0 /\ Extract(NoPlanText).rows = 0
  BY <1>1, ExtractIsLargest, SMT DEF Costs, Rows, NoPlanText
<1>4. ~Exceeds(Extract(MockText)) /\ ~Exceeds(Extract(NoPlanText))
  BY <1>2, <1>3, SMT DEF Exceeds, CostThreshold, RowsThreshold
<1>5. ~Has(MockText, "cartesian") /\ ~Has(NoPlanText, "cartesian")
  BY DEF Has, MockText, NoPlanText
<1> QED  BY <1>4, <1>5 DEF RiskLevel

-----------------------------------------------------------------------------
(* What holds of one request                                               *)

Runnable(q) == q.size = "fits" /\ q.lead = "select" /\ ~q.chained /\ ~q.changes

\* What the guards let through to the database or to agents that could send it.
Admitted(asked) ==
  /\ asked.q.size = "fits" /\ asked.q.lead # "verb"
  /\ asked.q.lead = "select" => ~asked.q.chained /\ (asked.q.changes => asked.token # "missing")
  /\ asked.q.lead = "none" /\ asked.q.injected => asked.token # "missing"

\* What a request has when it is received, and between its steps.
Fresh(asked, t, level, sends, runs, answer) ==
  /\ asked = NoReq /\ t = NoText /\ level = "none"
  /\ sends = {} /\ runs = {} /\ answer = NoReply

\* The plan of the handler was fetched from the database and its statement was
\* not run, or was run and not for a HIGH plan; sends tells which.
Explained(t, level, sends, runs) ==
  \/ level = "HIGH" /\ t.kind = "table" /\ sends = {"explain"} /\ runs = {}
  \/ level # "HIGH" /\ t.kind \in {"stats", "words"} /\ sends = {"explain", "run"}

Answered(asked, t, level, sends, runs, answer) ==
  /\ answer.status \in {"ok", "error", "blocked", "no_answer", "refused", "awaiting_plan_approval"}
  /\ sends \cap {"explain", "run"} # {} => Runnable(asked.q)
  /\ sends # {} => Admitted(asked)
  /\ answer.status = "ok" /\ "explain" \in sends =>
       \/ answer.mode = "explain_only" /\ answer.basis.kind = "table" /\ runs = {}
       \/ answer.mode = "actual_stats" /\ answer.basis.kind \in {"stats", "words"}
  /\ asked.q.size # "fits" => answer.status = "no_answer"
  /\ asked.q.size = "fits" /\ asked.q.lead = "verb" => answer.status = "blocked"

\* The steps of a request and what it carries at each.
Served(step, asked, t, level, sends, runs, answer) ==
  /\ t \in Texts \cup {NoText} /\ level \in {"none", "LOW", "MEDIUM", "HIGH"}
  /\ sends \subseteq {"catalog", "explain", "run", "agents"} /\ runs \subseteq Plans
  /\ step # "idle" => asked.q \in Questions /\ asked.token \in {"missing", "given"}
  /\ step \notin {"idle", "done"} => answer = NoReply
  /\ \/ step = "idle" /\ Fresh(asked, t, level, sends, runs, answer)
     \/ step = "explain" /\ Runnable(asked.q) /\ sends = {} /\ runs = {}
     \/ /\ step = "lookup" /\ sends = {} /\ runs = {}
        /\ asked.q.size = "fits" /\ asked.q.lead = "none" /\ ~asked.q.injected
     \/ /\ step = "supervisor" /\ sends = {} /\ runs = {}
        /\ Admitted(asked)
     \/ /\ step = "run" /\ Runnable(asked.q) /\ sends = {"explain"} /\ runs = {}
        /\ t \in Texts /\ level # "HIGH"
        /\ t.kind = "table" => ~Recognisable(t.lines)
     \/ /\ step = "diagnose" /\ t \in Texts
        /\ \/ asked.q.lead = "none" /\ Admitted(asked) /\ sends = {"catalog"}
           \/ Runnable(asked.q) /\ Explained(t, level, sends, runs)
     \/ step = "done" /\ Answered(asked, t, level, sends, runs, answer)

ServedInv ==
  /\ pc \in [Requests -> Steps] /\ DOMAIN req = Requests /\ DOMAIN text = Requests
  /\ DOMAIN risk = Requests /\ DOMAIN sent = Requests /\ DOMAIN ran = Requests /\ DOMAIN reply = Requests
  /\ \A r \in Requests : Served(pc[r], req[r], text[r], risk[r], sent[r], ran[r], reply[r])

\* The event loop of a process is held by the one request of it that is between
\* two calls of the database.
LoopInv ==
  /\ loop \in [Range(Process) -> Requests \cup {Nobody}]
  /\ \A r \in Requests : pc[r] \in {"explain", "lookup", "run"} <=> loop[Process[r]] = r

\* A baseline was made of a plan of the database, unless it is the catalog's.
BaselinesInv ==
  /\ DOMAIN baseline = Keys
  /\ \A k \in Keys : /\ baseline[k] = NoBaseline \/ baseline[k].text \in Texts
                     /\ k[1] = "user" => baseline[k].text.kind # "mock"

IInv ==
  /\ plan \in Plans /\ changes \in 0..MaxChanges
  /\ ServedInv /\ LoopInv /\ BaselinesInv

\* The evaluation waits for the answer to the item it has no result of yet.
DueInv ==
  pc[Evaluator] # "idle" =>
    Len(results) < Len(Items) /\ req[Evaluator].q = Items[Len(results) + 1].question

Entry == [verdict : Verdicts, scored : BOOLEAN,
          status : {"none", "ok", "error", "blocked", "no_answer", "refused",
                    "awaiting_plan_approval"}]

EInv ==
  /\ IInv /\ DueInv
  /\ results \in Seq(Entry) /\ Len(results) <= Len(Items)
  /\ counts \in [Verdicts -> Nat]
  /\ FixedItemsPass /\ VerdictsAddUp

-----------------------------------------------------------------------------
(* Frames: what a step of one request leaves alone                         *)

\* The other requests keep what they carry.
OthersKeep(r) ==
  /\ pc' \in [Requests -> Steps] /\ DOMAIN req' = Requests /\ DOMAIN text' = Requests
  /\ DOMAIN risk' = Requests /\ DOMAIN sent' = Requests /\ DOMAIN ran' = Requests
  /\ DOMAIN reply' = Requests
  /\ \A s \in Requests \ {r} :
       /\ pc'[s] = pc[s] /\ req'[s] = req[s] /\ text'[s] = text[s] /\ risk'[s] = risk[s]
       /\ sent'[s] = sent[s] /\ ran'[s] = ran[s] /\ reply'[s] = reply[s]

\* If the request that moved is served, all are.
LEMMA OneIsServed ==
  ASSUME ServedInv, NEW r \in Requests, OthersKeep(r),
         Served(pc'[r], req'[r], text'[r], risk'[r], sent'[r], ran'[r], reply'[r])
  PROVE  ServedInv'
<1>1. ASSUME NEW s \in Requests
      PROVE  Served(pc'[s], req'[s], text'[s], risk'[s], sent'[s], ran'[s], reply'[s])
  <2>1. CASE s = r
    BY <2>1
  <2>2. CASE s # r
    BY <2>2 DEF OthersKeep, ServedInv
  <2> QED  BY <2>1, <2>2
<1> QED  BY <1>1 DEF ServedInv, OthersKeep

Holds(step) == step \in {"explain", "lookup", "run"}

\* The loop is kept, taken while it is free, or given back by its holder.
LEMMA LoopMoves ==
  ASSUME LoopInv, NEW r \in Requests, \A s \in Requests \ {r} : pc'[s] = pc[s],
         \/ loop' = loop /\ (Holds(pc[r]) <=> Holds(pc'[r]))
         \/ Free(r) /\ HandTo(r, r) /\ Holds(pc'[r])
         \/ Holds(pc[r]) /\ HandTo(r, Nobody) /\ ~Holds(pc'[r])
  PROVE  LoopInv'
<1>1. /\ Process \in [Requests -> Range(Process)] /\ Nobody \notin Requests
      /\ \A s \in Requests : Process[s] \in Range(Process)
  BY QueryConstantsOK
<1>2. CASE loop' = loop /\ (Holds(pc[r]) <=> Holds(pc'[r]))
  BY <1>2 DEF LoopInv, Holds
<1>3. CASE Free(r) /\ HandTo(r, r) /\ Holds(pc'[r])
  BY <1>1, <1>3 DEF LoopInv, Holds, Free, HandTo
<1>4. CASE Holds(pc[r]) /\ HandTo(r, Nobody) /\ ~Holds(pc'[r])
  BY <1>1, <1>4 DEF LoopInv, Holds, HandTo
<1> QED  BY <1>2, <1>3, <1>4

\* The baselines do not depend on anything else.
LEMMA BaselinesKept ==
  ASSUME BaselinesInv, baseline' = baseline
  PROVE  BaselinesInv'
BY DEF BaselinesInv

-----------------------------------------------------------------------------
(* The steps of a request                                                  *)

\* Receive: what the endpoint and run_query decide before the first call.
LEMMA ReceiveKeeps ==
  ASSUME IInv, NEW r \in Requests, NEW q \in Questions, NEW token \in {"missing", "given"},
         Receive(r, q, token)
  PROVE  /\ IInv' /\ OthersKeep(r) /\ req'[r].q = q
<1>1. pc[r] = "idle" /\ Fresh(req[r], text[r], risk[r], sent[r], ran[r], reply[r])
  BY DEF IInv, ServedInv, Served, Receive
<1>2. /\ req' = [req EXCEPT ![r] = [q |-> q, token |-> token]]
      /\ text' = text /\ risk' = risk /\ sent' = sent /\ ran' = ran
      /\ plan' = plan /\ changes' = changes /\ baseline' = baseline
  BY DEF Receive
<1>3. req'[r].q = q /\ req'[r].token = token
  BY <1>2 DEF IInv, ServedInv
<1>4. /\ pc \in [Requests -> Steps] /\ DOMAIN req = Requests /\ DOMAIN text = Requests
      /\ DOMAIN risk = Requests /\ DOMAIN sent = Requests /\ DOMAIN ran = Requests
      /\ DOMAIN reply = Requests
  BY DEF IInv, ServedInv
<1>5. q \in Question
  BY QueryConstantsOK
<1>6. \E step \in Steps : pc' = [pc EXCEPT ![r] = step]
  BY DEF Receive, RunQuery, Refuse, Enter, Respond, Goto, Steps
<1>7. reply' = reply \/ \E status : reply' = [reply EXCEPT ![r] = [status |-> status]]
  BY DEF Receive, RunQuery, Refuse, Enter, Respond, Goto
<1>8. OthersKeep(r)
  BY <1>2, <1>4, <1>6, <1>7 DEF OthersKeep
<1>9. Served(pc'[r], req'[r], text'[r], risk'[r], sent'[r], ran'[r], reply'[r])
  <2>1. /\ text'[r] = NoText /\ risk'[r] = "none" /\ sent'[r] = {} /\ ran'[r] = {}
        /\ reply[r] = NoReply
    BY <1>1, <1>2 DEF Fresh
  <2>2. CASE ToSupervisor(q, token)
    <3>1. pc'[r] = "supervisor" /\ reply'[r] = NoReply
      BY <1>4, <2>1, <2>2 DEF Receive, Goto
    <3> QED  BY <1>3, <1>5, <2>1, <2>2, <3>1
             DEF Served, Admitted, ToSupervisor, LooksLikeSql, IsSafeSelect, Question
  <2>3. CASE ~ToSupervisor(q, token) /\ q.size # "fits"
    <3>1. pc'[r] = "done" /\ reply'[r].status = "no_answer"
      BY <1>4, <2>3 DEF Receive, RunQuery, Refuse, Respond, Goto
    <3> QED  BY <1>3, <2>1, <2>3, <3>1 DEF Served, Answered
  <2>4. CASE ~ToSupervisor(q, token) /\ q.size = "fits" /\ LooksLikeSql(q)
    <3>1. CASE BlockMutating(q) \/ ~IsSafeSelect(q)
      <4>1. pc'[r] = "done" /\ reply'[r].status = "blocked"
        BY <1>4, <2>4, <3>1 DEF Receive, RunQuery, Refuse, Respond, Goto
      <4> QED  BY <1>3, <2>1, <2>4, <4>1 DEF Served, Answered
    <3>2. CASE ~(BlockMutating(q) \/ ~IsSafeSelect(q))
      <4>1. pc'[r] = "explain" /\ reply'[r] = NoReply
        BY <1>4, <2>1, <2>4, <3>2 DEF Receive, RunQuery, Enter, Goto
      <4> QED  BY <1>3, <2>1, <2>4, <3>2, <4>1 DEF Served, Runnable, BlockMutating, IsSafeSelect
    <3> QED  BY <3>1, <3>2
  <2>5. CASE ~ToSupervisor(q, token) /\ q.size = "fits" /\ ~LooksLikeSql(q)
    <3>1. PICK verdict \in Guarded(q) :
            IF verdict = "blocked" THEN Refuse(r, "blocked") ELSE Enter(r, "lookup")
      BY <2>5 DEF Receive, RunQuery
    <3>2. CASE verdict = "blocked"
      <4>1. pc'[r] = "done" /\ reply'[r].status = "blocked"
        BY <1>4, <3>1, <3>2 DEF Refuse, Respond, Goto
      <4> QED  BY <1>3, <2>1, <2>5, <4>1 DEF Served, Answered
    <3>3. CASE verdict # "blocked"
      <4>1. pc'[r] = "lookup" /\ reply'[r] = NoReply
        BY <1>4, <2>1, <3>1, <3>3 DEF Enter, Goto
      <4>2. ~q.injected
        BY <3>1, <3>3 DEF Guarded
      <4> QED  BY <1>3, <2>1, <2>5, <4>1, <4>2 DEF Served, LooksLikeSql
    <3> QED  BY <3>2, <3>3
  <2> QED  BY <2>2, <2>3, <2>4, <2>5
<1>10. ServedInv'
  BY <1>8, <1>9, OneIsServed DEF IInv
<1>11. LoopInv'
  <2>1. ~Holds(pc[r]) /\ Free(r)
    BY <1>1 DEF Holds, Receive
  <2>2. \/ loop' = loop /\ ~Holds(pc'[r])
        \/ HandTo(r, r) /\ Holds(pc'[r])
    BY <1>4 DEF Receive, RunQuery, Refuse, Enter, Respond, Goto, Holds
  <2>3. \A s \in Requests \ {r} : pc'[s] = pc[s]
    BY <1>8 DEF OthersKeep
  <2>4. \/ loop' = loop /\ (Holds(pc[r]) <=> Holds(pc'[r]))
        \/ Free(r) /\ HandTo(r, r) /\ Holds(pc'[r])
    BY <2>1, <2>2
  <2> QED  BY <2>3, <2>4, LoopMoves DEF IInv
<1> QED  BY <1>2, <1>3, <1>8, <1>10, <1>11, BaselinesKept DEF IInv

\* db_tool: the catalog's statement is sent, or none and the supervisor is next.
LEMMA LookupKeeps ==
  ASSUME IInv, NEW r \in Requests, Lookup(r)
  PROVE  IInv' /\ OthersKeep(r) /\ req' = req
<1>1. /\ pc \in [Requests -> Steps] /\ DOMAIN text = Requests /\ DOMAIN sent = Requests
      /\ Served(pc[r], req[r], text[r], risk[r], sent[r], ran[r], reply[r])
  BY DEF IInv, ServedInv
<1>2. /\ pc[r] = "lookup" /\ sent[r] = {} /\ ran[r] = {} /\ reply[r] = NoReply
      /\ req[r].q.size = "fits" /\ req[r].q.lead = "none" /\ ~req[r].q.injected
      /\ req[r].q \in Questions /\ req[r].token \in {"missing", "given"}
  BY <1>1 DEF Served, Lookup
<1>3. OthersKeep(r)
  BY <1>1 DEF IInv, ServedInv, OthersKeep, Lookup, Goto, Steps
<1>4. req' = req /\ risk' = risk /\ ran' = ran /\ reply' = reply /\ plan' = plan
      /\ changes' = changes /\ baseline' = baseline
  BY DEF Lookup
<1>5. CASE Goto(r, "supervisor") /\ UNCHANGED <<text, sent>>
  <2>1. pc'[r] = "supervisor" /\ text'[r] = text[r] /\ sent'[r] = sent[r]
    BY <1>1, <1>5 DEF Goto
  <2>2. Served(pc'[r], req'[r], text'[r], risk'[r], sent'[r], ran'[r], reply'[r])
    BY <1>1, <1>2, <1>4, <2>1 DEF Served, Admitted
  <2>3. LoopInv'
    BY <1>2, <1>3, <2>1, LoopMoves DEF IInv, Lookup, OthersKeep, Holds
  <2> QED  BY <1>3, <1>4, <2>2, <2>3, OneIsServed, BaselinesKept DEF IInv
<1>6. CASE /\ Goto(r, "diagnose")
           /\ \E t \in {Table(plan), MockText} : text' = [text EXCEPT ![r] = t]
           /\ sent' = [sent EXCEPT ![r] = @ \cup {"catalog"}]
  <2>1. pc'[r] = "diagnose" /\ text'[r] \in Texts /\ sent'[r] = {"catalog"}
    BY <1>1, <1>2, <1>6 DEF Goto, IInv, Texts
  <2>2. Served(pc'[r], req'[r], text'[r], risk'[r], sent'[r], ran'[r], reply'[r])
    BY <1>1, <1>2, <1>4, <2>1 DEF Served, Admitted
  <2>3. LoopInv'
    BY <1>2, <1>3, <2>1, LoopMoves DEF IInv, Lookup, OthersKeep, Holds
  <2> QED  BY <1>3, <1>4, <2>2, <2>3, OneIsServed, BaselinesKept DEF IInv
<1> QED  BY <1>5, <1>6 DEF Lookup

\* The gate: what is not HIGH may run, and what it fetched of the database is
\* then not recognisably heavy; what is HIGH came from the database.
LEMMA ExplainKeeps ==
  ASSUME IInv, NEW r \in Requests, Explain(r)
  PROVE  IInv' /\ OthersKeep(r) /\ req' = req
<1>1. /\ pc \in [Requests -> Steps] /\ DOMAIN text = Requests /\ DOMAIN sent = Requests
      /\ DOMAIN risk = Requests
      /\ Served(pc[r], req[r], text[r], risk[r], sent[r], ran[r], reply[r])
  BY DEF IInv, ServedInv
<1>2. /\ pc[r] = "explain" /\ Runnable(req[r].q) /\ sent[r] = {} /\ ran[r] = {}
      /\ reply[r] = NoReply /\ req[r].q \in Questions /\ req[r].token \in {"missing", "given"}
  BY <1>1 DEF Served, Explain
<1>3. OthersKeep(r)
  BY <1>1 DEF IInv, ServedInv, OthersKeep, Explain, Goto, Steps
<1>4. req' = req /\ ran' = ran /\ reply' = reply /\ plan' = plan
      /\ changes' = changes /\ baseline' = baseline
  BY DEF Explain
<1>5. PICK t \in Fetched(req[r].q) :
        /\ text' = [text EXCEPT ![r] = t]
        /\ risk' = [risk EXCEPT ![r] = RiskLevel(t)]
        /\ IF AllowExecution(t)
           THEN Goto(r, "run") /\ UNCHANGED loop
           ELSE Goto(r, "diagnose") /\ HandTo(r, Nobody)
  BY DEF Explain
<1>6. text'[r] = t /\ risk'[r] = RiskLevel(t) /\ sent'[r] = {"explain"}
  BY <1>1, <1>2, <1>5 DEF Explain
<1>7. t \in Texts /\ (t = Table(plan) \/ t \in {MockText, NoPlanText}) /\ plan \in Plans
  BY DEF IInv, Fetched, Texts
<1>8. RiskLevel(t) \in {"LOW", "MEDIUM", "HIGH"}
  BY DEF RiskLevel
<1>9. CASE AllowExecution(t)
  <2>1. pc'[r] = "run" /\ RiskLevel(t) # "HIGH"
    BY <1>1, <1>5, <1>9 DEF Goto, AllowExecution
  <2>2. t.kind = "table" => ~Recognisable(t.lines)
    <3>1. CASE t = Table(plan)
      <4>1. t.lines = plan
        BY <3>1 DEF Table
      <4> QED  BY <1>7, <2>1, <3>1, <4>1, RecognisableIsHigh
    <3>2. CASE t \in {MockText, NoPlanText}
      BY <3>2 DEF MockText, NoPlanText
    <3> QED  BY <1>7, <3>1, <3>2
  <2>3. Served(pc'[r], req'[r], text'[r], risk'[r], sent'[r], ran'[r], reply'[r])
    BY <1>2, <1>4, <1>6, <1>7, <1>8, <2>1, <2>2 DEF Served
  <2>4. LoopInv'
    BY <1>2, <1>3, <1>5, <1>9, <2>1, LoopMoves DEF IInv, OthersKeep, Holds
  <2> QED  BY <1>3, <1>4, <2>3, <2>4, OneIsServed, BaselinesKept DEF IInv
<1>10. CASE ~AllowExecution(t)
  <2>1. pc'[r] = "diagnose" /\ RiskLevel(t) = "HIGH"
    BY <1>1, <1>5, <1>10 DEF Goto, AllowExecution
  <2>2. t.kind = "table"
    BY <1>7, <2>1, MockIsFitToRun DEF Table
  <2>3. Served(pc'[r], req'[r], text'[r], risk'[r], sent'[r], ran'[r], reply'[r])
    BY <1>2, <1>4, <1>6, <1>7, <2>1, <2>2 DEF Served, Explained
  <2>4. LoopInv'
    BY <1>2, <1>3, <1>5, <1>10, <2>1, LoopMoves DEF IInv, OthersKeep, Holds
  <2> QED  BY <1>3, <1>4, <2>3, <2>4, OneIsServed, BaselinesKept DEF IInv
<1> QED  BY <1>9, <1>10

\* The statement is run, or the call fails: the plan it had is no longer what the
\* answer rests on.
LEMMA RunStatementKeeps ==
  ASSUME IInv, NEW r \in Requests, RunStatement(r)
  PROVE  IInv' /\ OthersKeep(r) /\ req' = req
<1>1. /\ pc \in [Requests -> Steps] /\ DOMAIN text = Requests /\ DOMAIN sent = Requests
      /\ DOMAIN ran = Requests /\ DOMAIN reply = Requests
      /\ Served(pc[r], req[r], text[r], risk[r], sent[r], ran[r], reply[r])
  BY DEF IInv, ServedInv
<1>2. /\ pc[r] = "run" /\ Runnable(req[r].q) /\ sent[r] = {"explain"} /\ ran[r] = {}
      /\ risk[r] # "HIGH" /\ risk[r] \in {"none", "LOW", "MEDIUM", "HIGH"}
      /\ text[r] \in Texts /\ reply[r] = NoReply
      /\ req[r].q \in Questions /\ req[r].token \in {"missing", "given"}
  BY <1>1 DEF Served, RunStatement
<1>3. OthersKeep(r)
  BY <1>1 DEF IInv, ServedInv, OthersKeep, RunStatement, RunFails, Respond, Goto, Steps
<1>4. req' = req /\ risk' = risk /\ plan' = plan /\ changes' = changes /\ baseline' = baseline
  BY DEF RunStatement
<1>5. plan \in Plans
  BY DEF IInv
<1>6. sent'[r] = {"explain", "run"}
  BY <1>1, <1>2 DEF RunStatement, RunFails
<1>7. CASE RunFails(r)
  <2>1. pc'[r] = "done" /\ reply'[r].status = "error" /\ text'[r] = text[r]
    BY <1>1, <1>7 DEF RunFails, Respond, Goto
  <2>2. ran'[r] \subseteq Plans
    BY <1>1, <1>2, <1>5, <1>7 DEF RunFails
  <2>3. Served(pc'[r], req'[r], text'[r], risk'[r], sent'[r], ran'[r], reply'[r])
    BY <1>2, <1>4, <1>6, <2>1, <2>2 DEF Served, Answered, Admitted, Runnable
  <2>4. LoopInv'
    BY <1>2, <1>3, <2>1, LoopMoves DEF IInv, RunStatement, OthersKeep, Holds
  <2> QED  BY <1>3, <1>4, <2>3, <2>4, OneIsServed, BaselinesKept DEF IInv
<1>8. CASE /\ text' = [text EXCEPT ![r] = IF req[r].q.refused THEN NoPlanText ELSE Stats(plan)]
           /\ ran' = [ran EXCEPT ![r] = IF req[r].q.refused THEN {} ELSE {plan}]
           /\ Goto(r, "diagnose")
           /\ UNCHANGED reply
  <2>1. pc'[r] = "diagnose" /\ reply'[r] = NoReply
    BY <1>1, <1>2, <1>8 DEF Goto
  <2>2. text'[r] \in Texts /\ text'[r].kind \in {"stats", "words"}
    BY <1>1, <1>5, <1>8 DEF Texts, Stats, NoPlanText
  <2>3. ran'[r] \subseteq Plans
    BY <1>1, <1>5, <1>8
  <2>4. Served(pc'[r], req'[r], text'[r], risk'[r], sent'[r], ran'[r], reply'[r])
    BY <1>2, <1>4, <1>6, <2>1, <2>2, <2>3 DEF Served, Explained
  <2>5. LoopInv'
    BY <1>2, <1>3, <2>1, LoopMoves DEF IInv, RunStatement, OthersKeep, Holds
  <2> QED  BY <1>3, <1>4, <2>4, <2>5, OneIsServed, BaselinesKept DEF IInv
<1> QED  BY <1>7, <1>8 DEF RunStatement

\* The answer and the baseline take the text the handler has: for a statement of
\* the user never the mock, which was not HIGH and therefore replaced by a run.
LEMMA DiagnoseKeeps ==
  ASSUME IInv, NEW r \in Requests, Diagnose(r)
  PROVE  IInv' /\ OthersKeep(r) /\ req' = req
<1>1. /\ pc \in [Requests -> Steps] /\ DOMAIN reply = Requests /\ DOMAIN sent = Requests
      /\ Served(pc[r], req[r], text[r], risk[r], sent[r], ran[r], reply[r])
  BY DEF IInv, ServedInv
<1>2. /\ pc[r] = "diagnose" /\ text[r] \in Texts
      /\ req[r].q \in Questions /\ req[r].token \in {"missing", "given"}
      /\ \/ req[r].q.lead = "none" /\ Admitted(req[r]) /\ sent[r] = {"catalog"}
         \/ Runnable(req[r].q) /\ Explained(text[r], risk[r], sent[r], ran[r])
  BY <1>1 DEF Served, Diagnose
<1>3. OthersKeep(r)
  BY <1>1 DEF IInv, ServedInv, OthersKeep, Diagnose, WithAgents, Respond, Goto, Steps
<1>4. /\ req' = req /\ text' = text /\ risk' = risk /\ ran' = ran
      /\ plan' = plan /\ changes' = changes /\ loop' = loop /\ pc'[r] = "done"
      /\ sent'[r] = sent[r] \cup {"agents"}
  BY <1>1 DEF Diagnose, WithAgents, Respond, Goto
<1>5. \/ reply'[r].status = "error"
      \/ /\ reply'[r].status = "ok" /\ reply'[r].mode = ExecutionMode(r)
         /\ reply'[r].basis = text[r]
  BY <1>1 DEF Diagnose, Respond
<1>6. Answered(req[r], text[r], risk[r], sent'[r], ran[r], reply'[r])
  <2>1. CASE req[r].q.lead = "none" /\ Admitted(req[r]) /\ sent[r] = {"catalog"}
    BY <1>4, <1>5, <2>1 DEF Answered, Admitted
  <2>2. CASE Runnable(req[r].q) /\ Explained(text[r], risk[r], sent[r], ran[r])
    BY <1>4, <1>5, <2>2 DEF Answered, Admitted, Runnable, Explained, ExecutionMode, LooksLikeSql
  <2> QED  BY <1>2, <2>1, <2>2
<1>7. Served(pc'[r], req'[r], text'[r], risk'[r], sent'[r], ran'[r], reply'[r])
  BY <1>1, <1>2, <1>4, <1>6 DEF Served
<1>8. LoopInv'
  BY <1>2, <1>3, <1>4, LoopMoves DEF IInv, OthersKeep, Holds
<1>9. BaselinesInv'
  <2>1. CASE baseline' = baseline
    BY <2>1, BaselinesKept DEF IInv
  <2>2. CASE baseline' # baseline
    <3> DEFINE key == KeyOf(req[r].q)
    <3>1. PICK b : baseline' = [baseline EXCEPT ![key] = b] /\ b.text = text[r]
      BY <2>2 DEF Diagnose, SaveBaseline
    <3>2. key[1] = "user" => text[r].kind # "mock"
      <4>1. req[r].q.lead = "none" => key[1] = "catalog"
        BY DEF KeyOf, LooksLikeSql
      <4>2. req[r].q.lead # "none" => text[r].kind # "mock"
        BY <1>2 DEF Explained
      <4> QED  BY <4>1, <4>2
    <3> HIDE DEF key
    <3> QED  BY <1>2, <3>1, <3>2 DEF IInv, BaselinesInv
  <2> QED  BY <2>1, <2>2
<1> QED  BY <1>3, <1>4, <1>7, <1>8, <1>9, OneIsServed DEF IInv

\* The supervisor answers for a request that sent nothing of its own.
LEMMA SuperviseKeeps ==
  ASSUME IInv, NEW r \in Requests, Supervise(r)
  PROVE  IInv' /\ OthersKeep(r) /\ req' = req
<1>1. /\ pc \in [Requests -> Steps] /\ DOMAIN reply = Requests /\ DOMAIN sent = Requests
      /\ Served(pc[r], req[r], text[r], risk[r], sent[r], ran[r], reply[r])
  BY DEF IInv, ServedInv
<1>2. /\ pc[r] = "supervisor" /\ sent[r] = {}
      /\ req[r].q \in Questions /\ req[r].token \in {"missing", "given"}
      /\ Admitted(req[r])
  BY <1>1 DEF Served, Supervise
<1>3. OthersKeep(r)
  BY <1>1 DEF IInv, ServedInv, OthersKeep, Supervise, WithAgents, Respond, Goto, Steps
<1>4. /\ req' = req /\ text' = text /\ risk' = risk /\ ran' = ran
      /\ plan' = plan /\ changes' = changes /\ loop' = loop /\ pc'[r] = "done"
      /\ baseline' = baseline /\ sent'[r] = {"agents"}
  BY <1>1, <1>2 DEF Supervise, WithAgents, Respond, Goto
<1>5. reply'[r].status \in {"ok", "error", "blocked", "no_answer", "refused", "awaiting_plan_approval"}
  <2>1. PICK response \in Supervised(r) : reply' = [reply EXCEPT ![r] = response]
    BY DEF Supervise, Respond
  <2>2. \A o \in Outcomes : o.status = "ok"
    BY DEF Outcomes, Outcome
  <2>3. \A o \in ProtectedReplies :
          o.status \in {"ok", "error", "blocked", "no_answer", "refused", "awaiting_plan_approval"}
    BY DEF ProtectedReplies
  <2> QED  BY <1>1, <2>1, <2>2, <2>3 DEF Supervised
<1>6. Served(pc'[r], req'[r], text'[r], risk'[r], sent'[r], ran'[r], reply'[r])
  BY <1>1, <1>2, <1>4, <1>5 DEF Served, Answered, Admitted
<1>7. LoopInv'
  BY <1>2, <1>3, <1>4, LoopMoves DEF IInv, OthersKeep, Holds
<1> QED  BY <1>3, <1>4, <1>6, <1>7, OneIsServed, BaselinesKept DEF IInv

\* The plan of the database changes without anybody: it is read anew each time.
LEMMA ChangePlanKeeps ==
  ASSUME IInv, ChangePlan
  PROVE  IInv' /\ pc' = pc /\ req' = req /\ reply' = reply
BY QueryConstantsOK DEF IInv, ServedInv, LoopInv, BaselinesInv, ChangePlan

\* Every step of a handler after the first keeps the invariant.
LEMMA HandleKeeps ==
  ASSUME IInv, NEW r \in Requests, Handle(r)
  PROVE  IInv' /\ OthersKeep(r) /\ req' = req
BY LookupKeeps, ExplainKeeps, RunStatementKeeps, DiagnoseKeeps, SuperviseKeeps DEF Handle

\* So does a step of nothing in the application.
LEMMA StutterKeeps ==
  ASSUME IInv, UNCHANGED vars
  PROVE  IInv'
BY DEF IInv, ServedInv, LoopInv, BaselinesInv, vars

\* The invariant holds when the application starts.
LEMMA InitHolds ==
  Init => IInv
<1> SUFFICES ASSUME Init PROVE IInv
  OBVIOUS
<1>1. ServedInv
  <2>1. NoText \in Texts \cup {NoText}
    OBVIOUS
  <2> QED  BY <2>1 DEF Init, ServedInv, Served, Fresh, Steps
<1>2. LoopInv
  <2>1. \A r \in Requests : Process[r] \in Range(Process) /\ r # Nobody
    BY QueryConstantsOK
  <2> QED  BY <2>1 DEF Init, LoopInv
<1>3. BaselinesInv
  BY DEF Init, BaselinesInv, NoBaseline, NoText
<1>4. plan \in Plans /\ changes \in 0..MaxChanges
  BY QueryConstantsOK DEF Init
<1> QED  BY <1>1, <1>2, <1>3, <1>4 DEF IInv

-----------------------------------------------------------------------------
(* What the invariant says                                                 *)

\* A request that is served is well typed.
LEMMA ServedIsTyped ==
  ASSUME IInv
  PROVE  TypeOK
<1>1. ASSUME NEW r \in Requests
      PROVE  /\ req[r] = NoReq <=> pc[r] = "idle"
             /\ req[r] # NoReq => req[r].q \in Questions /\ req[r].token \in {"missing", "given"}
             /\ text[r] \in Texts \cup {NoText}
             /\ risk[r] \in {"none", "LOW", "MEDIUM", "HIGH"}
             /\ sent[r] \subseteq {"catalog", "explain", "run", "agents"}
             /\ ran[r] \subseteq Plans
             /\ reply[r].status \in {"none", "ok", "error", "blocked", "no_answer",
                                    "refused", "awaiting_plan_approval"}
  <2>1. Served(pc[r], req[r], text[r], risk[r], sent[r], ran[r], reply[r])
    BY DEF IInv, ServedInv
  <2>2. NoReq.token = "none" /\ NoReply.status = "none"
    BY DEF NoReq, NoReply
  <2>3. req[r] = NoReq <=> pc[r] = "idle"
    BY <2>1, <2>2 DEF Served, Fresh
  <2>4. reply[r].status \in {"none", "ok", "error", "blocked", "no_answer",
                            "refused", "awaiting_plan_approval"}
    <3>1. CASE pc[r] = "done"
      BY <2>1, <3>1 DEF Served, Answered
    <3>2. CASE pc[r] # "done"
      BY <2>1, <2>2, <3>2 DEF Served, Fresh
    <3> QED  BY <3>1, <3>2
  <2> QED  BY <2>1, <2>3, <2>4 DEF Served
<1>2. \A k \in Keys : baseline[k] = NoBaseline \/ baseline[k].text \in Texts
  BY DEF IInv, BaselinesInv
<1> QED  BY <1>1, <1>2 DEF TypeOK, IInv, ServedInv, LoopInv

\* What a served request has sent itself was a single SELECT, and what it sent or
\* left to the agents was admitted.
LEMMA ServedOnlySelects ==
  ASSUME IInv
  PROVE  OnlySelectsReachTheDatabase
<1>1. ASSUME NEW r \in Requests
      PROVE  /\ sent[r] \cap {"explain", "run"} # {} => Runnable(req[r].q)
             /\ sent[r] # {} => Admitted(req[r])
  <2>1. Served(pc[r], req[r], text[r], risk[r], sent[r], ran[r], reply[r])
    BY DEF IInv, ServedInv
  <2>2. Runnable(req[r].q) => Admitted(req[r])
    BY DEF Runnable, Admitted
  <2> QED  BY <2>1, <2>2 DEF Served, Fresh, Answered
<1> QED  BY <1>1 DEF OnlySelectsReachTheDatabase, Runnable, Admitted

\* What a served request is about to run is not recognisably heavy.
LEMMA ServedIsNotHeavy ==
  ASSUME IInv
  PROVE  RecognisedRiskNeverRuns
BY DEF IInv, ServedInv, Served, RecognisedRiskNeverRuns

\* A served request is answered from what the database said.
LEMMA ServedRestsOnDatabase ==
  ASSUME IInv
  PROVE  AnswersRestOnDatabase
<1>1. ASSUME NEW r \in Requests, reply[r].status = "ok", "explain" \in sent[r]
      PROVE  \/ reply[r].mode = "explain_only" /\ reply[r].basis.kind = "table" /\ ran[r] = {}
             \/ reply[r].mode = "actual_stats" /\ reply[r].basis.kind \in {"stats", "words"}
  <2>1. Served(pc[r], req[r], text[r], risk[r], sent[r], ran[r], reply[r])
    BY DEF IInv, ServedInv
  <2>2. pc[r] = "done"
    BY <1>1, <2>1 DEF Served, Fresh, NoReply
  <2> QED  BY <1>1, <2>1, <2>2 DEF Served, Answered
<1>2. \A k \in Keys : k[1] = "user" => baseline[k].text.kind # "mock"
  BY DEF IInv, BaselinesInv
<1> QED  BY <1>1, <1>2 DEF AnswersRestOnDatabase

-----------------------------------------------------------------------------
(* The evaluation                                                          *)

\* Everything of EInv but what the evaluation itself has is kept while it waits.
LEMMA OthersLeaveTheEvaluation ==
  ASSUME EInv, IInv', UNCHANGED evaluation,
         pc'[Evaluator] = "idle" <=> pc[Evaluator] = "idle",
         req'[Evaluator] = req[Evaluator]
  PROVE  EInv'
BY DEF EInv, DueInv, FixedItemsPass, VerdictsAddUp, evaluation

\* Ask: the item that is asked is the one without a result.
LEMMA AskKeeps ==
  ASSUME EInv, Ask
  PROVE  EInv'
<1>1. Evaluator \in Requests /\ Items \in Seq(Item)
  BY ItemsOK
<1>2. Len(results) + 1 \in 1..Len(Items)
  BY <1>1 DEF EInv, Ask
<1>3. Items[Len(results) + 1].question \in Questions
  <2>1. Items[Len(results) + 1] \in Item
    BY <1>1, <1>2
  <2> QED  BY <2>1 DEF Item
<1>4. IInv' /\ req'[Evaluator].q = Items[Len(results) + 1].question
  BY <1>1, <1>3, ReceiveKeeps DEF EInv, Ask
<1> QED  BY <1>4 DEF EInv, DueInv, FixedItemsPass, VerdictsAddUp, Ask, evaluation

\* What is forgotten leaves the request of the evaluation as it was before it
\* asked.
LEMMA ForgetKeeps ==
  ASSUME IInv, NEW e \in Requests, pc[e] = "done", Forget(e)
  PROVE  IInv' /\ pc'[e] = "idle"
<1>1. OthersKeep(e)
  BY DEF Forget, OthersKeep, IInv, ServedInv, Steps
<1>2. /\ pc'[e] = "idle"
      /\ Fresh(req'[e], text'[e], risk'[e], sent'[e], ran'[e], reply'[e])
  BY DEF Forget, Fresh, IInv, ServedInv
<1>3. Served(pc'[e], req'[e], text'[e], risk'[e], sent'[e], ran'[e], reply'[e])
  BY <1>2 DEF Served, Fresh
<1>4. LoopInv'
  BY <1>1, <1>2, LoopMoves DEF Forget, OthersKeep, IInv, Holds
<1> QED  BY <1>1, <1>2, <1>3, <1>4, OneIsServed, BaselinesKept DEF IInv, Forget

\* One more of a verdict is one more that is counted.
LEMMA OneMoreOf ==
  ASSUME NEW log \in Seq(Entry), NEW entry \in Entry, NEW v \in Verdicts
  PROVE  Cardinality({n \in DOMAIN Append(log, entry) : Append(log, entry)[n].verdict = v})
           = Cardinality({n \in DOMAIN log : log[n].verdict = v})
               + (IF entry.verdict = v THEN 1 ELSE 0)
<1> DEFINE Old == {n \in DOMAIN log : log[n].verdict = v}
           New == {n \in DOMAIN Append(log, entry) : Append(log, entry)[n].verdict = v}
           next == Len(log) + 1
<1>1. IsFiniteSet(Old) /\ Cardinality(Old) \in Nat
  <2>1. IsFiniteSet(1..Len(log))
    BY FS_Interval
  <2> QED  BY <2>1, FS_Subset, FS_CardinalityType
<1>2. next \notin Old
  OBVIOUS
<1>3. Cardinality(New) = Cardinality(Old) + (IF entry.verdict = v THEN 1 ELSE 0)
  <2>1. CASE entry.verdict = v
    <3>1. New = Old \cup {next}
      BY <2>1
    <3> HIDE DEF Old, New, next
    <3> QED  BY <1>1, <1>2, <2>1, <3>1, FS_AddElement
  <2>2. CASE entry.verdict # v
    <3>1. New = Old
      BY <2>2
    <3> HIDE DEF Old, New
    <3> QED  BY <1>1, <2>2, <3>1
  <2> QED  BY <2>1, <2>2
<1> QED  BY <1>3

\* An item that code refuses ends as its question decides, and passes.
LEMMA FixedPasses ==
  ASSUME NEW item, NEW result, NEW told \in BOOLEAN,
         item.category \in {"negative", "guardrail"}, item.id \in {"n01", "other"},
         item.question.size = "fits" => item.category = "guardrail" /\ item.id = "other",
         result.marks = {},
         item.question.size # "fits" => result.status = "no_answer"
  PROVE  Passes(item, result, told)
<1>1. item.forbidden \cap result.marks = {}
  OBVIOUS
<1>2. CASE item.question.size = "fits"
  BY <1>1, <1>2, Zenon DEF Passes
<1>3. CASE item.question.size # "fits"
  BY <1>1, <1>3, Zenon DEF Passes
<1> QED  BY <1>2, <1>3

\* One item more is entered and counted once.
LEMMA EntryKeeps ==
  ASSUME EInv, IInv', DueInv', NEW entry \in Entry, Len(results) < Len(Items),
         results' = Append(results, entry),
         counts' = [counts EXCEPT ![entry.verdict] = @ + 1],
         entry.scored => entry.status = "ok" /\ entry.verdict # "ERROR",
         Fixed(Items[Len(results) + 1]) =>
           entry.status \in {"no_answer", "blocked"} /\ entry.verdict = "PASS"
  PROVE  EInv'
<1>1. Items \in Seq(Item) /\ results \in Seq(Entry)
  BY ItemsOK DEF EInv
<1>2. results' \in Seq(Entry) /\ Len(results') = Len(results) + 1 /\ Len(results') <= Len(Items)
  BY <1>1
<1>3. \A n \in DOMAIN results' :
        \/ n \in DOMAIN results /\ results'[n] = results[n]
        \/ n = Len(results) + 1 /\ results'[n] = entry
  BY <1>1, <1>2
<1>4. FixedItemsPass'
  BY <1>3 DEF EInv, FixedItemsPass
<1>5. counts' \in [Verdicts -> Nat] /\ \A v \in Verdicts :
        counts'[v] = counts[v] + (IF entry.verdict = v THEN 1 ELSE 0)
  BY DEF EInv, Entry
<1>6. VerdictsAddUp'
  <2>1. ASSUME NEW v \in Verdicts
        PROVE  counts'[v] = Cardinality({n \in DOMAIN results' : results'[n].verdict = v})
    <3>1. counts[v] = Cardinality({n \in DOMAIN results : results[n].verdict = v})
      BY DEF EInv, VerdictsAddUp
    <3>2. Cardinality({n \in DOMAIN Append(results, entry) :
                         Append(results, entry)[n].verdict = v})
            = Cardinality({n \in DOMAIN results : results[n].verdict = v})
                + (IF entry.verdict = v THEN 1 ELSE 0)
      BY <1>1, OneMoreOf
    <3>3. results' = Append(results, entry)
      OBVIOUS
    <3> HIDE DEF Verdicts
    <3> QED  BY <1>5, <3>1, <3>2, <3>3, Zenon
  <2>2. \A n \in DOMAIN results' : results'[n].scored =>
          results'[n].status = "ok" /\ results'[n].verdict # "ERROR"
    BY <1>3 DEF EInv, VerdictsAddUp
  <2> QED  BY <2>1, <2>2 DEF VerdictsAddUp
<1> QED  BY <1>2, <1>4, <1>5, <1>6 DEF EInv

\* Judge: one item more is graded, entered and counted once.
LEMMA JudgeKeeps ==
  ASSUME EInv, Judge
  PROVE  EInv'
<1> DEFINE item == Items[Len(results) + 1]
           answer == reply[Evaluator]
<1>1. Evaluator \in Requests /\ Items \in Seq(Item)
  BY ItemsOK
<1>2. IInv' /\ DueInv'
  BY ForgetKeeps, ItemsOK DEF EInv, DueInv, Judge
<1>3. /\ Len(results) < Len(Items) /\ req[Evaluator].q = item.question
      /\ Len(results) + 1 \in DOMAIN Items /\ item.question.size \in {"empty", "short", "fits", "long"}
  <2>1. Len(results) < Len(Items) /\ req[Evaluator].q = item.question
    BY DEF EInv, DueInv, Judge
  <2>2. Len(results) + 1 \in 1..Len(Items)
    BY <1>1, <2>1 DEF EInv
  <2>3. item \in Item
    BY <1>1, <2>2
  <2>4. item.question \in Question
    BY <2>3, QueryConstantsOK DEF Item
  <2> QED  BY <1>1, <2>1, <2>2, <2>4 DEF Question
<1>4. /\ answer.status \in {"ok", "error", "blocked", "no_answer", "refused", "awaiting_plan_approval"}
      /\ item.question.size # "fits" => answer.status = "no_answer"
      /\ item.question.size = "fits" /\ item.question.lead = "verb" => answer.status = "blocked"
  <2>1. Answered(req[Evaluator], text[Evaluator], risk[Evaluator], sent[Evaluator],
                 ran[Evaluator], answer)
    BY <1>1 DEF EInv, IInv, ServedInv, Served, Judge
  <2> QED  BY <1>3, <2>1 DEF Answered
<1>5. PICK result \in Followed(answer), told \in BOOLEAN, raises \in BOOLEAN :
        LET graded == IF Passes(item, result, told) THEN "PASS" ELSE "FAIL"
            verdict == IF raises THEN "ERROR" ELSE graded
        IN /\ raises => Scored(item, result)
           /\ results' = Append(results,
                [verdict |-> verdict, status |-> result.status,
                 scored |-> Scored(item, result) /\ ~raises])
           /\ counts' = Counted(graded, verdict)
  BY DEF Judge
<1> DEFINE graded == IF Passes(item, result, told) THEN "PASS" ELSE "FAIL"
           verdict == IF raises THEN "ERROR" ELSE graded
           entry == [verdict |-> verdict, status |-> result.status,
                     scored |-> Scored(item, result) /\ ~raises]
<1>6. /\ results' = Append(results, entry) /\ counts' = [counts EXCEPT ![verdict] = @ + 1]
      /\ raises => Scored(item, result)
  BY <1>5 DEF Counted
<1>7. /\ result.status \in {"ok", "error", "blocked", "no_answer", "refused", "awaiting_plan_approval"}
      /\ answer.status # "ok" =>
           result.status = answer.status /\ result.marks = {} /\ result.contexts = {}
  BY <1>4 DEF Followed, Result, Diagnosed
<1>8. verdict \in Verdicts /\ (verdict = "ERROR" => raises)
  BY DEF Verdicts
<1>9. Scored(item, result) \in BOOLEAN /\ (Scored(item, result) => result.status = "ok")
  BY DEF Scored
<1> HIDE DEF verdict, graded, item, answer
<1>10. entry \in Entry /\ (entry.scored => entry.status = "ok" /\ entry.verdict # "ERROR")
  BY <1>7, <1>8, <1>9 DEF Entry
<1>11. Fixed(item) => entry.status \in {"no_answer", "blocked"} /\ entry.verdict = "PASS"
  <2>1. SUFFICES ASSUME Fixed(item) PROVE entry.status \in {"no_answer", "blocked"} /\ verdict = "PASS"
    OBVIOUS
  <2>2. /\ item.category \in {"negative", "guardrail"} /\ item.id # "p08"
        /\ item.question.size = "fits" => item.category = "guardrail" /\ item.id = "other"
    BY <1>3, <2>1, ItemsOK DEF item
  <2>6. item.id \in {"n01", "other"}
    <3>1. item \in Item
      BY <1>1, <1>3 DEF item
    <3> QED  BY <2>2, <3>1 DEF Item
  <2>3. result.marks = {} /\ result.status \in {"no_answer", "blocked"}
        /\ (item.question.size # "fits" => result.status = "no_answer")
    BY <1>4, <1>7, <2>1 DEF Fixed
  <2>4. Passes(item, result, told)
    BY <2>2, <2>3, <2>6, FixedPasses
  <2>5. ~raises
    BY <1>6, <1>9, <2>3
  <2> QED  BY <2>3, <2>4, <2>5 DEF verdict, graded
<1>12. Fixed(item) => entry.status \in {"no_answer", "blocked"} /\ entry.verdict = "PASS"
  BY <1>11
<1>13. counts' = [counts EXCEPT ![entry.verdict] = @ + 1]
  BY <1>6
<1> HIDE DEF entry
<1> QED  BY <1>2, <1>3, <1>6, <1>10, <1>12, <1>13, EntryKeeps DEF item

\* Miss: an item whose call raised was one the guards let pass.
LEMMA MissKeeps ==
  ASSUME EInv, Miss
  PROVE  EInv'
<1> DEFINE entry == [verdict |-> "ERROR", status |-> "none", scored |-> FALSE]
<1>1. IInv' /\ DueInv'
  BY ForgetKeeps, ItemsOK DEF EInv, DueInv, Miss
<1>2. Len(results) < Len(Items) /\ req[Evaluator].q = Items[Len(results) + 1].question
  BY DEF EInv, DueInv, Miss
<1>3. ~Fixed(Items[Len(results) + 1])
  BY <1>2 DEF Miss, ToSupervisor, LooksLikeSql, IsSafeSelect, Fixed
<1>4. entry \in Entry /\ entry.verdict = "ERROR" /\ ~entry.scored
  BY DEF Entry, Verdicts
<1>5. results' = Append(results, entry) /\ counts' = [counts EXCEPT !["ERROR"] = @ + 1]
  BY DEF Miss, Counted
<1> HIDE DEF entry
<1> QED  BY <1>1, <1>2, <1>3, <1>4, <1>5, EntryKeeps

\* Every step beside or of the evaluation keeps its invariant.
LEMMA EvalStepKeeps ==
  ASSUME EInv, [EvalNext]_evalVars
  PROVE  EInv'
<1>1. IInv /\ Evaluator \in Requests
  BY ItemsOK DEF EInv
<1>2. CASE ChangePlan /\ UNCHANGED evaluation
  BY <1>1, <1>2, ChangePlanKeeps, OthersLeaveTheEvaluation
<1>3. CASE \E r \in Requests : Handle(r) /\ UNCHANGED evaluation
  <2>1. PICK r \in Requests : Handle(r) /\ UNCHANGED evaluation
    BY <1>3
  <2>2. IInv' /\ OthersKeep(r) /\ req' = req
    BY <1>1, <2>1, HandleKeeps
  <2>3. pc'[Evaluator] = "idle" <=> pc[Evaluator] = "idle"
    <3>1. CASE r = Evaluator
      <4>1. Served(pc[r], req[r], text[r], risk[r], sent[r], ran[r], reply[r])
             /\ Served(pc'[r], req'[r], text'[r], risk'[r], sent'[r], ran'[r], reply'[r])
        BY <1>1, <2>2 DEF IInv, ServedInv
      <4>2. NoReq.token = "none"
        BY DEF NoReq
      <4> QED  BY <2>2, <3>1, <4>1, <4>2 DEF Served, Fresh
    <3>2. CASE r # Evaluator
      BY <1>1, <2>2, <3>2 DEF OthersKeep
    <3> QED  BY <3>1, <3>2
  <2> QED  BY <2>1, <2>2, <2>3, OthersLeaveTheEvaluation
<1>4. CASE \E r \in Requests \ {Evaluator}, q \in Questions, token \in {"missing", "given"} :
             Receive(r, q, token) /\ UNCHANGED evaluation
  <2>1. PICK r \in Requests \ {Evaluator}, q \in Questions, token \in {"missing", "given"} :
          Receive(r, q, token) /\ UNCHANGED evaluation
    BY <1>4
  <2>2. IInv' /\ OthersKeep(r)
    BY <1>1, <2>1, ReceiveKeeps
  <2> QED  BY <1>1, <2>1, <2>2, OthersLeaveTheEvaluation DEF OthersKeep
<1>5. CASE UNCHANGED evalVars
  <2>1. UNCHANGED vars /\ UNCHANGED evaluation
    BY <1>5 DEF evalVars
  <2> QED  BY <1>1, <2>1, StutterKeeps, OthersLeaveTheEvaluation DEF vars
<1> QED  BY <1>2, <1>3, <1>4, <1>5, AskKeeps, JudgeKeeps, MissKeeps DEF EvalNext

\* The evaluation starts with no results and nothing counted.
LEMMA EvalInitHolds ==
  EvalInit => EInv
<1> SUFFICES ASSUME EvalInit PROVE EInv
  OBVIOUS
<1>1. IInv /\ Evaluator \in Requests /\ Items \in Seq(Item)
  BY InitHolds, ItemsOK DEF EvalInit
<1>2. DueInv
  BY <1>1 DEF EvalInit, Init, DueInv
<1>3. results = <<>> /\ Len(results) = 0 /\ DOMAIN results = {}
  BY DEF EvalInit
<1>4. counts \in [Verdicts -> Nat] /\ \A v \in Verdicts : counts[v] = 0
  BY DEF EvalInit
<1>5. \A v \in Verdicts : {n \in DOMAIN results : results[n].verdict = v} = {}
  BY <1>3
<1>6. VerdictsAddUp
  BY <1>3, <1>4, <1>5, FS_EmptySet DEF VerdictsAddUp
<1>7. results \in Seq(Entry) /\ Len(results) <= Len(Items)
  BY <1>1, <1>3
<1> QED  BY <1>1, <1>2, <1>3, <1>4, <1>6, <1>7 DEF EInv, FixedItemsPass

-----------------------------------------------------------------------------
(* The last words of a conversation                                        *)

\* Induction over the naturals, by the least number outside T.
LEMMA NatSets ==
  ASSUME NEW T \in SUBSET Nat, 0 \in T, \A n \in T : n + 1 \in T
  PROVE  T = Nat
<1>1. SUFFICES ASSUME Nat \ T # {} PROVE FALSE
  OBVIOUS
<1>2. IsWellFoundedOn(OpToRel(<, Nat), Nat)
  BY NatLessThanWellFounded
<1>3. PICK x \in Nat \ T : \A y \in Nat \ T : ~(<<y, x>> \in OpToRel(<, Nat))
  <2>1. Nat \ T \subseteq Nat
    OBVIOUS
  <2> QED  BY <1>1, <1>2, <2>1, WFMin
<1>4. \A y \in Nat \ T : ~(y < x)
  BY <1>3 DEF OpToRel
<1>5. x - 1 \in Nat \ T
  BY <1>4
<1> QED  BY <1>4, <1>5

\* What may be said, what is said once the output is checked, and the messages
\* that carry it.
Speeches == UNION {Says(a) : a \in AgentNames \cup {"supervisor"}}
Msg == [type : {"human", "ai", "tool"}, speech : Speeches \cup {Notice, Speech("user", Marks)},
        calls : BOOLEAN, back : BOOLEAN]

\* The messages that last_nonempty_text looks for.
Spoken(m) == m.type = "ai" /\ ~m.calls /\ ~m.back /\ m.speech # Silence

Heard(d) == OutputCheck(d.agent, d.says)

\* What is said by an agent is by the agent or nobody, and has no personal data
\* if the output of the agent is checked.
LEMMA HeardIsChecked ==
  ASSUME NEW d \in Round
  PROVE  Heard(d) \in Speeches /\ (Heard(d).by \in Checked => "pii" \notin Heard(d).marks)
<1>1. PICK a \in Staff : d.agent = a /\ d.says \in Says(a)
  BY DEF Round
<1>2. a \in AgentNames
  BY StaffOK
<1>3. d.says = Silence \/ \E marks \in SUBSET Marks : d.says = Speech(a, marks)
  BY <1>1 DEF Says
<1>4. CASE d.says = Silence
  <2>1. Heard(d) = Silence
    BY <1>4 DEF Heard, OutputCheck
  <2>2. Silence.by = "nobody" /\ Silence \in Says(a)
    BY DEF Silence, Speech, Says
  <2> QED  BY <1>2, <2>1, <2>2 DEF Checked, Speeches
<1>5. CASE d.says # Silence
  <2>1. PICK marks \in SUBSET Marks : d.says = Speech(a, marks)
    BY <1>3, <1>5
  <2>2. d.says.marks = marks /\ d.says.by = a
    BY <2>1 DEF Speech
  <2>3. CASE a \notin Checked
    BY <1>1, <1>2, <2>2, <2>3 DEF Heard, OutputCheck, Speeches
  <2>4. CASE a \in Checked
    <3>1. PICK rest \in SUBSET Marks : Heard(d) = Speech(a, rest) /\ "pii" \notin rest
      <4>1. CASE "pii" \in marks
        BY <1>1, <1>5, <2>2, <2>4, <4>1 DEF Heard, OutputCheck
      <4>2. CASE "pii" \notin marks
        BY <1>1, <1>5, <2>2, <2>4, <4>2 DEF Heard, OutputCheck
      <4> QED  BY <4>1, <4>2
    <3>2. Heard(d).marks = rest /\ Heard(d) \in Says(a)
      BY <3>1 DEF Speech, Says
    <3> QED  BY <1>2, <3>1, <3>2 DEF Speeches
  <2> QED  BY <2>3, <2>4
<1> QED  BY <1>4, <1>5

\* Of the five messages of a round only the third can be words of a model.
LEMMA RoundSays ==
  ASSUME NEW d \in Round
  PROVE  /\ RoundMessages(d) \in Seq(Msg) /\ Len(RoundMessages(d)) = 5
         /\ RoundMessages(d)[3].speech = Heard(d)
         /\ Spoken(RoundMessages(d)[3]) <=> Heard(d) # Silence
         /\ \A j \in 1..5 : j # 3 => ~Spoken(RoundMessages(d)[j])
<1>1. d.aside \in {Silence, Speech("supervisor", {})}
  BY DEF Round
<1>2. {Silence, Speech("supervisor", {})} \subseteq Speeches
  BY DEF Speeches, Says
<1>3. Heard(d) \in Speeches
  BY HeardIsChecked
<1> DEFINE a == Message("ai", d.aside, TRUE, FALSE)
           b == Message("tool", Notice, FALSE, FALSE)
           c == Message("ai", Heard(d), FALSE, FALSE)
           e == Message("ai", Notice, TRUE, TRUE)
<1>4. a \in Msg /\ b \in Msg /\ c \in Msg /\ e \in Msg
  BY <1>1, <1>2, <1>3 DEF Message, Msg
<1>5. /\ ~Spoken(a) /\ ~Spoken(b) /\ ~Spoken(e) /\ c.speech = Heard(d)
      /\ Spoken(c) <=> Heard(d) # Silence
  BY DEF Message, Spoken
<1>6. RoundMessages(d) = <<a, b, c, e, b>>
  BY DEF RoundMessages, Heard
<1> HIDE DEF a, b, c, e
<1> QED  BY <1>4, <1>5, <1>6

\* Two lists of messages one after the other.
LEMMA Joined ==
  ASSUME NEW a \in Seq(Msg), NEW b \in Seq(Msg)
  PROVE  /\ Len(a) \in Nat /\ Len(b) \in Nat
         /\ a \o b \in Seq(Msg) /\ Len(a \o b) = Len(a) + Len(b)
         /\ \A i \in 1..Len(a) : (a \o b)[i] = a[i]
         /\ \A j \in 1..Len(b) : (a \o b)[Len(a) + j] = b[j]
<1>1. Len(a) \in Nat /\ Len(b) \in Nat
  OBVIOUS
<1>2. a \o b \in Seq(Msg) /\ Len(a \o b) = Len(a) + Len(b)
  OBVIOUS
<1>3. \A i \in 1..Len(a) : (a \o b)[i] = a[i]
  OBVIOUS
<1>4. \A j \in 1..Len(b) : (a \o b)[Len(a) + j] = b[j]
  OBVIOUS
<1> QED  BY <1>1, <1>2, <1>3, <1>4

\* The last words in the messages ms are those of the last of the first n rounds
\* in which the agent had any.
EndsWith(ms, rounds, n) ==
  /\ ms \in Seq(Msg)
  /\ \/ /\ \A k \in 1..n : Heard(rounds[k]) = Silence
        /\ \A i \in 1..Len(ms) : ~Spoken(ms[i])
     \/ \E k \in 1..n, i \in 1..Len(ms) :
          /\ Heard(rounds[k]) # Silence /\ \A l \in 1..n : l > k => Heard(rounds[l]) = Silence
          /\ Spoken(ms[i]) /\ ms[i].speech = Heard(rounds[k])
          /\ \A j \in 1..Len(ms) : j > i => ~Spoken(ms[j])

\* One more round keeps it.
LEMMA EndsOneMore ==
  ASSUME NEW rounds \in Seq(Round), NEW n \in Nat, n + 1 \in 1..Len(rounds), NEW ms,
         EndsWith(ms, rounds, n)
  PROVE  EndsWith(ms \o RoundMessages(rounds[n + 1]), rounds, n + 1)
<1> DEFINE d == rounds[n + 1]
           R == RoundMessages(d)
           t == ms \o R
<1>0. d \in Round
  OBVIOUS
<1>1. /\ R \in Seq(Msg) /\ Len(R) = 5 /\ R[3].speech = Heard(d)
      /\ Spoken(R[3]) <=> Heard(d) # Silence
      /\ \A j \in 1..5 : j # 3 => ~Spoken(R[j])
  BY <1>0, RoundSays
<1>2. ms \in Seq(Msg) /\ Len(ms) \in Nat
  BY DEF EndsWith
<1> HIDE DEF R
<1>3. /\ t \in Seq(Msg) /\ Len(t) = Len(ms) + 5
      /\ \A i \in 1..Len(ms) : t[i] = ms[i]
      /\ \A j \in 1..5 : t[Len(ms) + j] = R[j]
  <2>1. /\ t \in Seq(Msg) /\ Len(t) = Len(ms) + Len(R)
        /\ \A i \in 1..Len(ms) : t[i] = ms[i]
        /\ \A j \in 1..Len(R) : t[Len(ms) + j] = R[j]
    BY <1>1, <1>2, Joined, Zenon
  <2> HIDE DEF t
  <2> QED  BY <1>1, <2>1
<1> HIDE DEF t
<1>4. \A i \in 1..Len(t) : i \in 1..Len(ms) \/ (i > Len(ms) /\ \E j \in 1..5 : i = Len(ms) + j)
  <2> SUFFICES ASSUME NEW i \in 1..Len(t), i \notin 1..Len(ms)
               PROVE  i > Len(ms) /\ \E j \in 1..5 : i = Len(ms) + j
    OBVIOUS
  <2>1. Len(ms) \in Nat /\ Len(t) = Len(ms) + 5
    BY <1>2, <1>3, LenProperties
  <2>2. \A m, l \in Nat : l = m + 5 /\ i \in 1..l /\ i \notin 1..m =>
          i > m /\ i - m \in 1..5 /\ i = m + (i - m)
    OBVIOUS
  <2>3. Len(t) \in Nat
    BY <2>1
  <2> QED  BY <2>1, <2>2, <2>3
<1>5. \A i \in 1..Len(t) : i > Len(ms) /\ i # Len(ms) + 3 => ~Spoken(t[i])
  <2> SUFFICES ASSUME NEW i \in 1..Len(t), i > Len(ms), i # Len(ms) + 3 PROVE ~Spoken(t[i])
    OBVIOUS
  <2>1. PICK j \in 1..5 : i = Len(ms) + j
    BY <1>2, <1>3, <1>4
  <2>2. t[i] = R[j] /\ j # 3
    BY <1>3, <2>1
  <2> QED  BY <1>1, <2>2
<1>6. \A k \in 1..(n + 1) : k \in 1..n \/ k = n + 1
  OBVIOUS
<1>7. CASE Heard(d) # Silence
  <2>1. Len(ms) + 3 \in 1..Len(t) /\ n + 1 \in 1..(n + 1)
    BY <1>2, <1>3
  <2>2. Spoken(t[Len(ms) + 3]) /\ t[Len(ms) + 3].speech = Heard(rounds[n + 1])
    BY <1>1, <1>3, <1>7
  <2>3. \A l \in 1..(n + 1) : ~(l > n + 1)
    OBVIOUS
  <2>4. \A j \in 1..Len(t) : j > Len(ms) + 3 => ~Spoken(t[j])
    <3> SUFFICES ASSUME NEW j \in 1..Len(t), j > Len(ms) + 3 PROVE ~Spoken(t[j])
      OBVIOUS
    <3>1. j \in Int
      OBVIOUS
    <3>2. \A m \in Nat : j > m + 3 => j > m /\ j # m + 3
      BY <3>1
    <3>3. j > Len(ms) /\ j # Len(ms) + 3
      BY <1>2, <3>2
    <3> QED  BY <1>5, <3>3, Zenon
  <2> QED  BY <1>3, <1>7, <2>1, <2>2, <2>3, <2>4 DEF EndsWith, t, R
<1>8. CASE Heard(d) = Silence
  <2>1. \A i \in 1..Len(t) : i > Len(ms) => ~Spoken(t[i])
    <3>1. t[Len(ms) + 3] = R[3]
      BY <1>3
    <3>2. ~Spoken(t[Len(ms) + 3])
      BY <1>1, <1>8, <3>1, Zenon
    <3> QED  BY <1>5, <3>2, Zenon
  <2>2. CASE /\ \A k \in 1..n : Heard(rounds[k]) = Silence
             /\ \A i \in 1..Len(ms) : ~Spoken(ms[i])
    <3>1. \A k \in 1..(n + 1) : Heard(rounds[k]) = Silence
      BY <1>6, <1>8, <2>2
    <3>2. \A i \in 1..Len(t) : ~Spoken(t[i])
      BY <1>3, <1>4, <2>1, <2>2
    <3> QED  BY <1>3, <3>1, <3>2 DEF EndsWith, t, R
  <2>3. ASSUME NEW k \in 1..n, NEW i \in 1..Len(ms),
               Heard(rounds[k]) # Silence, \A l \in 1..n : l > k => Heard(rounds[l]) = Silence,
               Spoken(ms[i]), ms[i].speech = Heard(rounds[k]),
               \A j \in 1..Len(ms) : j > i => ~Spoken(ms[j])
        PROVE  EndsWith(t, rounds, n + 1)
    <3>1. k \in 1..(n + 1) /\ i \in 1..Len(t)
      BY <1>2, <1>3
    <3>2. \A l \in 1..(n + 1) : l > k => Heard(rounds[l]) = Silence
      BY <1>6, <1>8, <2>3
    <3>3. Spoken(t[i]) /\ t[i].speech = Heard(rounds[k])
      BY <1>3, <2>3
    <3>4. \A j \in 1..Len(t) : j > i => ~Spoken(t[j])
      BY <1>3, <1>4, <2>1, <2>3
    <3> QED  BY <1>3, <2>3, <3>1, <3>2, <3>3, <3>4 DEF EndsWith
  <2> QED  BY <2>2, <2>3 DEF EndsWith, t, R
<1> QED  BY <1>7, <1>8

\* f joins the first of the parts, up to N of them.
Flat(f, parts, N) ==
  /\ DOMAIN f = 1..N
  /\ \A i \in 1..N : f[i] = IF i = 1 THEN parts[i] ELSE f[i - 1] \o parts[i]

\* The function that FlattenSeq is read from is built up one by one.
LEMMA FlattenIsBuilt ==
  ASSUME NEW parts, Len(parts) \in Nat \ {0}
  PROVE  \E f : Flat(f, parts, Len(parts)) /\ FlattenSeq(parts) = f[Len(parts)]
<1> DEFINE L == Len(parts)
           Value(h, i) == IF i = 1 THEN parts[i] ELSE h[i - 1] \o parts[i]
           T == {N \in Nat : \E f : Flat(f, parts, N)}
<1>1. 0 \in T
  <2> DEFINE f == [i \in 1..0 |-> <<>>]
  <2>1. Flat(f, parts, 0)
    BY DEF Flat
  <2> QED  BY <2>1
<1>2. ASSUME NEW N \in T PROVE N + 1 \in T
  <2>1. PICK f : Flat(f, parts, N)
    OBVIOUS
  <2> DEFINE g == [i \in 1..(N + 1) |-> IF i = N + 1 THEN Value(f, i) ELSE f[i]]
  <2>2. N \in Nat
    OBVIOUS
  <2>3. DOMAIN g = 1..(N + 1) /\ g[N + 1] = Value(f, N + 1) /\ \A i \in 1..N : g[i] = f[i]
    <3>1. N + 1 \in 1..(N + 1) /\ \A i \in 1..N : i \in 1..(N + 1) /\ i # N + 1
      BY <2>2
    <3> HIDE DEF Value
    <3> QED  BY <3>1
  <2> HIDE DEF g
  <2>4. ASSUME NEW i \in 1..(N + 1) PROVE g[i] = Value(g, i)
    <3>1. CASE i = 1 /\ i = N + 1
      BY <2>3, <3>1
    <3>2. CASE i # 1 /\ i = N + 1
      <4>1. i - 1 \in 1..N
        BY <2>2, <3>2
      <4> QED  BY <2>3, <3>2, <4>1
    <3>3. CASE i # N + 1
      <4>1. i \in 1..N /\ (i # 1 => i - 1 \in 1..N)
        BY <2>2, <3>3
      <4> QED  BY <2>1, <2>3, <4>1 DEF Flat
    <3> QED  BY <3>1, <3>2, <3>3
  <2>5. Flat(g, parts, N + 1)
    BY <2>3, <2>4 DEF Flat
  <2> QED  BY <2>2, <2>5
<1>3. T \in SUBSET Nat
  OBVIOUS
<1> HIDE DEF T
<1>4. T = Nat
  BY <1>1, <1>2, <1>3, NatSets
<1>5. PICK f : Flat(f, parts, L)
  BY <1>4 DEF T
<1> DEFINE e == [i \in 1..L |-> f[i]]
<1>6. e = [i \in 1..L |-> Value(e, i)]
  <2> SUFFICES ASSUME NEW i \in 1..L PROVE f[i] = Value(e, i)
    OBVIOUS
  <2>1. i # 1 => i - 1 \in 1..L
    OBVIOUS
  <2> QED  BY <1>5, <2>1 DEF Flat
<1> DEFINE h == CHOOSE g : g = [i \in 1..L |-> Value(g, i)]
<1>7. h = [i \in 1..L |-> Value(h, i)]
  BY <1>6
<1>8. FlattenSeq(parts) = h[L]
  BY DEF FlattenSeq
<1> HIDE DEF h
<1>9. Flat(h, parts, L)
  BY <1>7 DEF Flat
<1> QED  BY <1>8, <1>9

\* The messages of all rounds end with the last words of the agents.
LEMMA FlattenEnds ==
  ASSUME NEW rounds \in Seq(Round)
  PROVE  EndsWith(FlattenSeq([k \in DOMAIN rounds |-> RoundMessages(rounds[k])]), rounds,
                  Len(rounds))
<1> DEFINE parts == [k \in DOMAIN rounds |-> RoundMessages(rounds[k])]
           K == Len(rounds)
<1>1. K \in Nat /\ DOMAIN rounds = 1..K
  OBVIOUS
<1>2. Len(parts) = K /\ \A k \in 1..K : parts[k] = RoundMessages(rounds[k])
  <2>1. parts \in [1..K -> {RoundMessages(rounds[k]) : k \in 1..K}]
    BY <1>1
  <2>2. parts \in Seq({RoundMessages(rounds[k]) : k \in 1..K})
    BY <1>1, <2>1
  <2> QED  BY <1>1, <2>1, <2>2
<1> HIDE DEF parts
<1>3. EndsWith(<<>>, rounds, 0)
  BY DEF EndsWith
<1>4. CASE K = 0
  <2>1. FlattenSeq(parts) = parts
    BY <1>2, <1>4 DEF FlattenSeq
  <2>2. parts = <<>>
    BY <1>1, <1>4 DEF parts
  <2> QED  BY <1>3, <1>4, <2>1, <2>2 DEF parts
<1>5. CASE K # 0
  <2>1. PICK f : Flat(f, parts, K) /\ FlattenSeq(parts) = f[K]
    BY <1>1, <1>2, <1>5, FlattenIsBuilt
  <2> DEFINE T == {n \in Nat : n + 1 <= K => EndsWith(f[n + 1], rounds, n + 1)}
  <2>2. 0 \in T
    <3>1. 1 \in 1..K /\ 1 \in 1..Len(rounds) /\ 0 + 1 = 1
      BY <1>1, <1>5
    <3>2. f[1] = RoundMessages(rounds[1])
      BY <1>2, <2>1, <3>1 DEF Flat
    <3>3. RoundMessages(rounds[1]) \in Seq(Msg)
      BY <3>1, RoundSays
    <3>4. <<>> \o f[1] = f[1]
      BY <3>2, <3>3, ConcatEmptySeq
    <3>5. EndsWith(<<>> \o RoundMessages(rounds[0 + 1]), rounds, 0 + 1)
      BY <1>3, <3>1, EndsOneMore
    <3> QED  BY <3>1, <3>2, <3>4, <3>5
  <2>3. ASSUME NEW n \in T PROVE n + 1 \in T
    <3>1. SUFFICES ASSUME n + 1 + 1 <= K PROVE EndsWith(f[n + 1 + 1], rounds, n + 1 + 1)
      OBVIOUS
    <3>2. /\ n + 1 \in Nat /\ n + 1 + 1 \in 1..K /\ n + 1 + 1 \in 1..Len(rounds)
          /\ n + 1 + 1 # 1 /\ (n + 1 + 1) - 1 = n + 1 /\ n + 1 <= K
      BY <1>1, <3>1
    <3>3. EndsWith(f[n + 1], rounds, n + 1)
      BY <3>2
    <3>4. f[n + 1 + 1] = f[n + 1] \o RoundMessages(rounds[n + 1 + 1])
      BY <1>2, <2>1, <3>2 DEF Flat
    <3> QED  BY <3>2, <3>3, <3>4, EndsOneMore
  <2>4. T \in SUBSET Nat
    OBVIOUS
  <2> HIDE DEF T
  <2>5. T = Nat
    BY <2>2, <2>3, <2>4, NatSets
  <2>6. K - 1 \in Nat /\ (K - 1) + 1 = K
    BY <1>1, <1>5
  <2>7. EndsWith(f[K], rounds, K)
    <3>1. K - 1 \in T /\ (K - 1) + 1 <= K
      BY <1>1, <2>5, <2>6
    <3>2. EndsWith(f[(K - 1) + 1], rounds, (K - 1) + 1)
      BY <3>1 DEF T
    <3> QED  BY <2>6, <3>2
  <2> QED  BY <2>1, <2>7 DEF parts
<1> QED  BY <1>4, <1>5

\* A conversation of any number of rounds.
Talk == [rounds : Seq(Round), closing : Says("supervisor")]

\* The last of some messages that is the words of a model is found.
LEMMA LastIsFound ==
  ASSUME NEW ms \in Seq(Msg)
  PROVE  /\ \A i \in 1..Len(ms) :
              Spoken(ms[i]) /\ (\A j \in 1..Len(ms) : j > i => ~Spoken(ms[j]))
                => LastText(ms) = ms[i].speech
         /\ (\A i \in 1..Len(ms) : ~Spoken(ms[i])) => LastText(ms) = Silence
<1> DEFINE I == {i \in 1..Len(ms) : Spoken(ms[i])}
           last == IF I # {} THEN Max(I) ELSE 0
<1>0. Len(ms) \in Nat
  OBVIOUS
<1>1. LastText(ms) = IF last = 0 THEN Silence ELSE ms[last].speech
  BY DEF LastText, SelectLastInSeq, Spoken
<1>2. IsFiniteSet(I) /\ I \in SUBSET Int
  <2>1. IsFiniteSet(1..Len(ms))
    BY <1>0, FS_Interval
  <2> QED  BY <1>0, <2>1, FS_Subset
<1>3. I # {} => Max(I) \in I /\ \A y \in I : y <= Max(I)
  <2> HIDE DEF I
  <2> QED  BY <1>2, MaxOfFinite
<1>4. ASSUME NEW i \in 1..Len(ms), Spoken(ms[i]), \A j \in 1..Len(ms) : j > i => ~Spoken(ms[j])
      PROVE  LastText(ms) = ms[i].speech
  <2>1. i \in I
    BY <1>4
  <2>2. Max(I) \in 1..Len(ms) /\ Spoken(ms[Max(I)]) /\ i <= Max(I)
    BY <1>3, <2>1
  <2>3. Max(I) = i /\ i # 0
    <3> HIDE DEF I
    <3> QED  BY <1>0, <1>4, <2>2
  <2>4. last = i
    BY <2>1, <2>3
  <2> HIDE DEF last
  <2> QED  BY <1>1, <2>3, <2>4
<1>5. ASSUME \A i \in 1..Len(ms) : ~Spoken(ms[i]) PROVE LastText(ms) = Silence
  BY <1>1, <1>5
<1> QED  BY <1>4, <1>5

\* What is read from a conversation of any number of rounds is its last words, and
\* those of an agent whose output is checked have no personal data.
LEMMA LastTextIsLastWords ==
  ASSUME NEW talk \in Talk
  PROVE  /\ LastText(Messages(talk)) = LastWords(talk)
         /\ LastWords(talk).by \in Checked => "pii" \notin LastWords(talk).marks
<1> DEFINE rounds == talk.rounds
           K == Len(rounds)
           human == Message("human", Speech("user", Marks), FALSE, FALSE)
           close == Message("ai", talk.closing, FALSE, FALSE)
           F == FlattenSeq([k \in DOMAIN rounds |-> RoundMessages(rounds[k])])
           said == [k \in DOMAIN rounds |-> OutputCheck(rounds[k].agent, rounds[k].says)]
           spoken == {k \in DOMAIN said : said[k] # Silence}
           L == Len(F)
           ms == (<<human>> \o F) \o <<close>>
<1>1. /\ rounds \in Seq(Round) /\ K \in Nat /\ DOMAIN rounds = 1..K
      /\ talk.closing \in Says("supervisor")
  BY DEF Talk
<1>2. Messages(talk) = ms
  BY DEF Messages
<1>3. /\ human \in Msg /\ close \in Msg /\ ~Spoken(human) /\ close.speech = talk.closing
      /\ Spoken(close) <=> talk.closing # Silence
  <2>1. talk.closing \in Speeches
    BY <1>1 DEF Speeches
  <2> QED  BY <2>1 DEF Message, Msg, Spoken
<1>4. EndsWith(F, rounds, K)
  BY <1>1, FlattenEnds
<1>5. DOMAIN said = 1..K /\ \A k \in 1..K : said[k] = Heard(rounds[k])
  BY <1>1 DEF Heard
<1>6. LastWords(talk) = IF talk.closing # Silence THEN talk.closing
                        ELSE IF spoken = {} THEN Silence
                        ELSE said[CHOOSE k \in spoken : \A l \in spoken : l <= k]
  BY DEF LastWords
<1> HIDE DEF F, human, close, said
<1>7. F \in Seq(Msg) /\ L \in Nat
  BY <1>4 DEF EndsWith
<1>8. /\ <<human>> \o F \in Seq(Msg) /\ Len(<<human>> \o F) = L + 1
      /\ (<<human>> \o F)[1] = human
      /\ \A i \in 1..L : (<<human>> \o F)[1 + i] = F[i]
  <2>1. /\ <<human>> \in Seq(Msg) /\ Len(<<human>>) = 1 /\ <<human>>[1] = human
        /\ 1 \in 1..Len(<<human>>)
    BY <1>3
  <2>2. /\ <<human>> \o F \in Seq(Msg) /\ Len(<<human>> \o F) = Len(<<human>>) + Len(F)
        /\ \A i \in 1..Len(<<human>>) : (<<human>> \o F)[i] = <<human>>[i]
        /\ \A j \in 1..Len(F) : (<<human>> \o F)[Len(<<human>>) + j] = F[j]
    BY <1>7, <2>1, Joined, Zenon
  <2> QED  BY <1>7, <2>1, <2>2
<1> DEFINE g == <<human>> \o F
<1> HIDE DEF g
<1>9. /\ ms \in Seq(Msg) /\ Len(ms) = L + 2 /\ ms[L + 2] = close
      /\ ms[1] = human /\ \A i \in 1..L : ms[1 + i] = F[i]
  <2>1. /\ <<close>> \in Seq(Msg) /\ Len(<<close>>) = 1 /\ <<close>>[1] = close
        /\ 1 \in 1..Len(<<close>>)
    BY <1>3
  <2>2. ms = g \o <<close>> /\ g \in Seq(Msg) /\ Len(g) = L + 1
        /\ g[1] = human /\ \A i \in 1..L : g[1 + i] = F[i]
    BY <1>8 DEF g
  <2> HIDE DEF ms
  <2>3. /\ g \o <<close>> \in Seq(Msg) /\ Len(g \o <<close>>) = Len(g) + Len(<<close>>)
        /\ \A i \in 1..Len(g) : (g \o <<close>>)[i] = g[i]
        /\ \A j \in 1..Len(<<close>>) : (g \o <<close>>)[Len(g) + j] = <<close>>[j]
    BY <2>1, <2>2, Joined, Zenon
  <2>4. ms \in Seq(Msg) /\ Len(ms) = L + 2 /\ ms[L + 2] = close
    BY <1>7, <2>1, <2>2, <2>3
  <2>5. \A i \in 1..(L + 1) : ms[i] = g[i]
    BY <2>2, <2>3
  <2>6. 1 \in 1..(L + 1) /\ \A i \in 1..L : 1 + i \in 1..(L + 1)
    BY <1>7
  <2> QED  BY <2>2, <2>4, <2>5, <2>6
<1> HIDE DEF ms, L
<1>10. \A i \in 1..Len(ms) : i = 1 \/ i = L + 2 \/ \E j \in 1..L : i = 1 + j
  <2> SUFFICES ASSUME NEW i \in 1..(L + 2), i # 1, i # L + 2
               PROVE  i - 1 \in 1..L /\ i = 1 + (i - 1)
    BY <1>9
  <2> QED  BY <1>7
<1>11. ASSUME NEW d \in Round PROVE Heard(d).by \in Checked => "pii" \notin Heard(d).marks
  BY HeardIsChecked
<1>12. Silence.by \notin Checked
  BY DEF Silence, Speech, Checked
<1>13. CASE talk.closing # Silence
  <2>1. L + 2 \in 1..Len(ms) /\ \A j \in 1..Len(ms) : ~(j > L + 2)
    BY <1>7, <1>9
  <2>2. LastText(ms) = talk.closing
    BY <1>3, <1>9, <1>13, <2>1, LastIsFound
  <2>3. talk.closing.by = "supervisor"
    BY <1>1, <1>13 DEF Says, Speech
  <2> QED  BY <1>2, <1>6, <1>13, <2>2, <2>3 DEF Checked
<1>14. CASE talk.closing = Silence
  <2>1. ~Spoken(ms[1]) /\ ~Spoken(ms[L + 2])
    BY <1>3, <1>9, <1>14
  <2>2. CASE /\ \A k \in 1..K : Heard(rounds[k]) = Silence
             /\ \A i \in 1..Len(F) : ~Spoken(F[i])
    <3>1. \A i \in 1..Len(ms) : ~Spoken(ms[i])
      BY <1>9, <1>10, <2>1, <2>2 DEF L
    <3>2. LastText(ms) = Silence
      BY <1>9, <3>1, LastIsFound
    <3>3. spoken = {}
      BY <1>5, <2>2
    <3> HIDE DEF spoken
    <3> QED  BY <1>2, <1>6, <1>12, <1>14, <3>2, <3>3
  <2>3. ASSUME NEW k \in 1..K, NEW i \in 1..L,
               Heard(rounds[k]) # Silence, \A l \in 1..K : l > k => Heard(rounds[l]) = Silence,
               Spoken(F[i]), F[i].speech = Heard(rounds[k]),
               \A j \in 1..L : j > i => ~Spoken(F[j])
        PROVE  /\ LastText(Messages(talk)) = LastWords(talk)
               /\ LastWords(talk).by \in Checked => "pii" \notin LastWords(talk).marks
    <3>1. 1 + i \in 1..Len(ms) /\ Spoken(ms[1 + i]) /\ ms[1 + i].speech = Heard(rounds[k])
      BY <1>7, <1>9, <2>3
    <3>2. ASSUME NEW j \in 1..Len(ms), j > 1 + i PROVE ~Spoken(ms[j])
      <4>1. j # 1
        BY <1>7, <3>2
      <4>2. ASSUME NEW m \in 1..L, j = 1 + m PROVE ~Spoken(ms[j])
        <5>1. m > i
          BY <1>7, <3>2, <4>2
        <5> QED  BY <1>9, <2>3, <4>2, <5>1
      <4> QED  BY <1>10, <2>1, <4>1, <4>2
    <3>3. LastText(ms) = Heard(rounds[k])
      BY <1>9, <3>1, <3>2, LastIsFound
    <3>4. k \in spoken /\ \A l \in spoken : l <= k
      BY <1>1, <1>5, <2>3
    <3>5. \A l \in spoken : l \in 1..K
      BY <1>5
    <3> HIDE DEF spoken
    <3>6. (CHOOSE l \in spoken : \A m \in spoken : m <= l) = k
      <4> DEFINE c == CHOOSE l \in spoken : \A m \in spoken : m <= l
      <4>1. c \in spoken /\ \A m \in spoken : m <= c
        BY <3>4, Zenon
      <4> HIDE DEF c
      <4>2. c <= k /\ k <= c /\ c \in 1..K /\ k \in 1..K
        BY <3>4, <3>5, <4>1
      <4>3. c = k
        BY <1>1, <4>2
      <4> QED  BY <4>3 DEF c
    <3>7. LastWords(talk) = Heard(rounds[k])
      BY <1>5, <1>6, <1>14, <3>4, <3>6
    <3>8. rounds[k] \in Round
      BY <1>1
    <3> QED  BY <1>2, <1>11, <3>3, <3>7, <3>8
  <2> QED  BY <1>4, <2>2, <2>3 DEF EndsWith, L
<1> QED  BY <1>13, <1>14

-----------------------------------------------------------------------------
(* What is answered                                                        *)

\* A free answer comes from a conversation.
FromTalk(response) ==
  response.status = "ok" /\ response.mode = "knowledge" => response \in Outcomes

AnswerInv == \A r \in Requests : FromTalk(reply[r])

\* A request is given a response, or none is.
LEMMA ResponseKeeps ==
  ASSUME IInv, AnswerInv, NEW r \in Requests, NEW response, FromTalk(response),
         reply' = [reply EXCEPT ![r] = response]
  PROVE  AnswerInv'
<1> SUFFICES ASSUME NEW q \in Requests PROVE FromTalk(reply'[q])
  BY DEF AnswerInv, FromTalk, Outcomes
<1>1. reply'[q] = IF q = r THEN response ELSE reply[q]
  BY DEF IInv, ServedInv
<1> QED  BY <1>1 DEF AnswerInv, FromTalk

\* The endpoint refuses or passes on.
LEMMA ReceiveAnswers ==
  ASSUME IInv, AnswerInv, NEW r \in Requests, NEW q \in Questions,
         NEW token \in {"missing", "given"}, Receive(r, q, token)
  PROVE  AnswerInv'
<1>1. reply' = reply \/ \E status \in {"no_answer", "blocked"} : Refuse(r, status)
  BY DEF Receive, RunQuery, Enter
<1>2. CASE reply' = reply
  BY <1>2 DEF AnswerInv
<1>3. ASSUME NEW status \in {"no_answer", "blocked"}, Refuse(r, status) PROVE AnswerInv'
  <2> DEFINE response == [status |-> status]
  <2>1. reply' = [reply EXCEPT ![r] = response] /\ response.status # "ok"
    BY <1>3 DEF Refuse, Respond
  <2> HIDE DEF response
  <2> QED  BY <2>1, ResponseKeeps DEF FromTalk
<1> QED  BY <1>1, <1>2, <1>3

\* The answer about a statement is of a mode of its own, and so is what a
\* protected tool gives; the free answers of the supervisor are from a talk.
LEMMA HandleAnswers ==
  ASSUME IInv, AnswerInv, NEW r \in Requests, Handle(r)
  PROVE  AnswerInv'
<1>1. CASE reply' = reply
  BY <1>1 DEF AnswerInv
<1>2. ASSUME NEW response, FromTalk(response), Respond(r, response) PROVE AnswerInv'
  BY <1>2, ResponseKeeps DEF Respond
<1>3. FromTalk([status |-> "error"])
  BY DEF FromTalk
<1>4. CASE Lookup(r) \/ Explain(r)
  BY <1>1, <1>4 DEF Lookup, Explain
<1>5. CASE RunStatement(r)
  BY <1>1, <1>2, <1>3, <1>5 DEF RunStatement, RunFails
<1>6. CASE Diagnose(r)
  <2> DEFINE response == [status |-> "ok", mode |-> ExecutionMode(r), risk |-> risk[r],
                          basis |-> text[r]]
  <2>1. response.mode # "knowledge"
    BY DEF ExecutionMode
  <2>2. FromTalk(response)
    BY <2>1 DEF FromTalk
  <2> QED  BY <1>2, <1>3, <1>6, <2>2 DEF Diagnose
<1>7. CASE Supervise(r)
  <2>1. PICK response \in {[status |-> "error"]} \cup Outcomes \cup ProtectedReplies :
          Respond(r, response)
    BY <1>7 DEF Supervise, Supervised
  <2>2. CASE response \in ProtectedReplies
    <3>1. FromTalk(response)
      BY <2>2 DEF FromTalk, ProtectedReplies
    <3> QED  BY <1>2, <2>1, <3>1
  <2>3. CASE response \in Outcomes
    <3>1. FromTalk(response)
      BY <2>3 DEF FromTalk
    <3> QED  BY <1>2, <2>1, <3>1
  <2> QED  BY <1>2, <1>3, <2>1, <2>2, <2>3
<1> QED  BY <1>4, <1>5, <1>6, <1>7 DEF Handle

\* The evaluation forgets the answer it has judged.
LEMMA JudgeAnswers == ASSUME IInv, AnswerInv, Judge \/ Miss PROVE AnswerInv'
<1>1. reply' = [reply EXCEPT ![Evaluator] = NoReply] /\ Evaluator \in Requests
  BY ItemsOK DEF Judge, Miss, Forget
<1>2. FromTalk(NoReply)
  BY DEF FromTalk, NoReply
<1> QED  BY <1>1, <1>2, ResponseKeeps

\* The bound on the rounds leaves a conversation what it is.
LEMMA TalkOfAnyLength == ASSUME NEW talk \in Talks(MaxRounds) PROVE talk \in Talk
<1>1. talk.rounds \in SeqOf(Round, MaxRounds) /\ talk.closing \in Says("supervisor")
      /\ talk = [rounds |-> talk.rounds, closing |-> talk.closing]
  BY DEF Talks
<1>2. PICK m \in 0..MaxRounds : talk.rounds \in [1..m -> Round]
  BY <1>1 DEF SeqOf
<1>3. talk.rounds \in Seq(Round)
  BY <1>2, QueryConstantsOK
<1> QED  BY <1>1, <1>3 DEF Talk

\* An answer that comes from a conversation is the last words of it.
LEMMA AnswersAreLastWords == ASSUME AnswerInv PROVE AnswerIsTheLastWords
<1> SUFFICES ASSUME NEW r \in Requests, reply[r].status = "ok", reply[r].mode = "knowledge"
             PROVE  /\ reply[r].answer = reply[r].said
                    /\ reply[r].answer.by \in Checked => "pii" \notin reply[r].answer.marks
  BY DEF AnswerIsTheLastWords
<1>1. PICK talk \in Talks(MaxRounds) : reply[r] = Outcome(talk)
  BY DEF AnswerInv, FromTalk, Outcomes
<1>2. reply[r].answer = LastText(Messages(talk)) /\ reply[r].said = LastWords(talk)
  BY <1>1 DEF Outcome
<1>3. /\ LastText(Messages(talk)) = LastWords(talk)
      /\ LastWords(talk).by \in Checked => "pii" \notin LastWords(talk).marks
  BY TalkOfAnyLength, LastTextIsLastWords
<1> QED  BY <1>2, <1>3

-----------------------------------------------------------------------------
(* Theorems                                                                *)

\* The inductive invariant of the application on its own: where a request is,
\* what it has sent, run and been told fit together.
THEOREM Invariance == Spec => []IInv
<1>1. IInv /\ [Next]_vars => IInv'
  BY ChangePlanKeeps, ReceiveKeeps, HandleKeeps, StutterKeeps DEF Next
<1> QED  BY InitHolds, <1>1, PTL DEF Spec

\* The inductive invariant of the application with the evaluation beside it.
THEOREM EvalInvariance == EvalSpec => []EInv
BY EvalInitHolds, EvalStepKeeps, PTL DEF EvalSpec

\* All state of the application stays within its types, the event loops are held
\* by the requests that are between two calls of the database.
THEOREM TypeCorrect == (Spec => []TypeOK) /\ (EvalSpec => []TypeOK)
<1>1. EInv => IInv
  BY DEF EInv
<1> QED  BY Invariance, EvalInvariance, ServedIsTyped, <1>1, PTL

\* Whatever a user writes: the handler itself sends nothing to the database but
\* one SELECT without a changing word; and what has to be refused reaches neither
\* the database nor the agents, but for the two ways a token opens.
THEOREM OnlySelects ==
  (Spec => []OnlySelectsReachTheDatabase) /\ (EvalSpec => []OnlySelectsReachTheDatabase)
<1>1. EInv => IInv
  BY DEF EInv
<1> QED  BY Invariance, EvalInvariance, ServedOnlySelects, <1>1, PTL

\* No statement is let through by the gate on a plan that is recognisably heavy,
\* for any plan of any number of lines, as long as what makes it heavy is printed
\* plain, in thousands or in millions.
THEOREM HeavyPlansStop ==
  (Spec => []RecognisedRiskNeverRuns) /\ (EvalSpec => []RecognisedRiskNeverRuns)
<1>1. EInv => IInv
  BY DEF EInv
<1> QED  BY Invariance, EvalInvariance, ServedIsNotHeavy, <1>1, PTL

\* An answer about a statement of the user and its baseline rest on what the
\* database said, and the answer says on which of it.
THEOREM RestsOnDatabase ==
  (Spec => []AnswersRestOnDatabase) /\ (EvalSpec => []AnswersRestOnDatabase)
<1>1. EInv => IInv
  BY DEF EInv
<1> QED  BY Invariance, EvalInvariance, ServedRestsOnDatabase, <1>1, PTL

\* In an evaluation of any length an item that code refuses is refused and
\* passes.
THEOREM RefusedItemsPass == EvalSpec => []FixedItemsPass
<1>1. EInv => FixedItemsPass
  BY DEF EInv
<1> QED  BY EvalInvariance, <1>1, PTL

\* The report of an evaluation of any length adds up.
THEOREM ReportAddsUp == EvalSpec => []VerdictsAddUp
<1>1. EInv => VerdictsAddUp
  BY DEF EInv
<1> QED  BY EvalInvariance, <1>1, PTL

\* A free answer is the last thing that was said in the conversation, of any
\* number of rounds; and the words of an agent whose output is checked come
\* without personal data (common.py:128-145, middleware.py:63-79).
THEOREM LastWordsAnswered ==
  (Spec => []AnswerIsTheLastWords) /\ (EvalSpec => []AnswerIsTheLastWords)
<1>1. Init => AnswerInv
  BY DEF Init, AnswerInv, FromTalk, NoReply
<1>2. IInv /\ AnswerInv /\ [Next]_vars => AnswerInv'
  <2> SUFFICES ASSUME IInv, AnswerInv, [Next]_vars PROVE AnswerInv'
    OBVIOUS
  <2>1. CASE reply' = reply
    BY <2>1 DEF AnswerInv
  <2> QED  BY <2>1, ReceiveAnswers, HandleAnswers DEF Next, ChangePlan, vars
<1>3. EvalInit => AnswerInv
  BY <1>1 DEF EvalInit
<1>4. EInv /\ AnswerInv /\ [EvalNext]_evalVars => AnswerInv'
  <2> SUFFICES ASSUME EInv, AnswerInv, [EvalNext]_evalVars PROVE AnswerInv'
    OBVIOUS
  <2>1. IInv
    BY DEF EInv
  <2>2. CASE reply' = reply
    BY <2>2 DEF AnswerInv
  <2>3. CASE Ask
    <3>1. Evaluator \in Requests /\ Items[Len(results) + 1].question \in Questions
      <4>1. Items \in Seq(Item) /\ Evaluator \in Requests
        BY ItemsOK
      <4>2. Len(results) + 1 \in 1..Len(Items)
        BY <2>3, <4>1 DEF EInv, Ask
      <4>3. Items[Len(results) + 1] \in Item
        BY <4>1, <4>2
      <4> QED  BY <4>1, <4>3 DEF Item
    <3> QED  BY <2>1, <2>3, <3>1, ReceiveAnswers DEF Ask
  <2> QED
    BY <2>1, <2>2, <2>3, ReceiveAnswers, HandleAnswers, JudgeAnswers
       DEF EvalNext, ChangePlan, evalVars, vars
<1>5. AnswerInv => AnswerIsTheLastWords
  BY AnswersAreLastWords
<1>6. EInv => IInv
  BY DEF EInv
<1>7. Spec => []AnswerInv
  BY <1>1, <1>2, Invariance, PTL DEF Spec
<1>8. EvalSpec => []AnswerInv
  BY <1>3, <1>4, EvalInvariance, PTL DEF EvalSpec
<1> QED  BY <1>5, <1>7, <1>8, PTL
=============================================================================

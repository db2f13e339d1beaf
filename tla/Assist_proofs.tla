---------------------------- MODULE Assist_proofs ---------------------------
(***************************************************************************)
(* Proofs about Assist for any requests, headers and protected tools, any  *)
(* number of calls in a run and of crashes: the types, what the dict       *)
(* _assist_results may still hold, what a client is told, what the audit   *)
(* trail says and what the trace of an answer shows.                       *)
(*                                                                         *)
(* A request is served by its own state only, so the inductive invariant   *)
(* is a statement about one request (Fair) for all of them, and a step is  *)
(* a lemma about the one request that moves.  Fair adds to the properties  *)
(* what holds while a run is under way: its entry tells of the last work   *)
(* it did and is not a result when it did none; and that a run which the   *)
(* supervisor ended leaves no call behind, so that nothing is performed    *)
(* after the answer that speaks of it.                                     *)
(*                                                                         *)
(* What api_trace makes of a list of events is found by induction over the *)
(* list (Shows, Pairs); RecInv is what a tracer's list is, whatever calls  *)
(* overlap: a call ends at most once, and a tool only after its one start. *)
(***************************************************************************)
EXTENDS Assist, SequenceTheorems, WellFoundedInduction, TLAPS

-----------------------------------------------------------------------------
(* The inductive invariant                                                 *)

\* An entry of the dict tells of the last work that was done.
Tells(entry, done) ==
  IF entry.protected THEN done # <<>> /\ entry.work = done[Len(done)] ELSE done = <<>>

\* The state of one request: its header t, entry a, stage p, calls cs, events
\* ev, work done and reply rp, with at most m calls.
FairTypes(t, a, p, cs, ev, done, rp, m) ==
  /\ t \in Headers /\ a \in Entry \cup {Nothing}
  /\ p \in {"new", "running", "answered"}
  /\ cs \in Seq(Call) /\ Len(cs) <= m /\ ev \in Seq(Events(1..m))
  /\ done \in Seq(Work) /\ rp \in Reply

Fair(t, a, p, cs, ev, done, rp, m) ==
  /\ FairTypes(t, a, p, cs, ev, done, rp, m)
  /\ p = "new" => cs = <<>>
  /\ rp.kind = "none" <=> p # "answered"
  /\ rp.kind \in {"knowledge", "refused", "result"} => \A i \in DOMAIN cs : cs[i].at = "over"
  /\ t # "ok" => done = <<>>
  /\ t = "missing" => a = Nothing
  /\ p # "answered" => Tells(a, done)
  /\ a # Nothing => p = "running" \/ \E i \in DOMAIN cs : cs[i].at = "late"
  /\ rp.kind = "result" => done # <<>> /\ rp.work = {done[Len(done)]}
  /\ rp.kind \in {"knowledge", "refused"} => done = <<>>

\* The fields of the state are functions of the request.
Shape ==
  /\ token = [r \in Requests |-> token[r]]
  /\ assist_results = [r \in Requests |-> assist_results[r]]
  /\ pc = [r \in Requests |-> pc[r]]
  /\ calls = [r \in Requests |-> calls[r]]
  /\ events = [r \in Requests |-> events[r]]
  /\ performed = [r \in Requests |-> performed[r]]
  /\ reply = [r \in Requests |-> reply[r]]
  /\ audit \subseteq Requests \X (Operations \cup {"protected_agent"}) \X Statuses
  /\ crashes \in 0..MaxCrashes

FairTo(r) == Fair(token[r], assist_results[r], pc[r], calls[r], events[r], performed[r],
                  reply[r], MaxCalls[r])

IInv == Shape /\ (\A r \in Requests : FairTo(r)) /\ AuditIsTrue

-----------------------------------------------------------------------------
(* One request moves                                                       *)

\* Only request r moves; its header is kept.
Only(r) ==
  /\ token' = token
  /\ assist_results' = [assist_results EXCEPT ![r] = assist_results'[r]]
  /\ pc' = [pc EXCEPT ![r] = pc'[r]]
  /\ calls' = [calls EXCEPT ![r] = calls'[r]]
  /\ events' = [events EXCEPT ![r] = events'[r]]
  /\ performed' = [performed EXCEPT ![r] = performed'[r]]
  /\ reply' = [reply EXCEPT ![r] = reply'[r]]
  /\ crashes' = crashes

LEMMA OneMoves ==
  ASSUME IInv, NEW r \in Requests, Only(r),
         Fair(token[r], assist_results'[r], pc'[r], calls'[r], events'[r], performed'[r],
              reply'[r], MaxCalls[r]),
         audit' \subseteq Requests \X (Operations \cup {"protected_agent"}) \X Statuses,
         AuditIsTrue'
  PROVE  IInv'
<1>1. Shape'
  BY DEF IInv, Shape, Only
<1>2. ASSUME NEW q \in Requests PROVE FairTo(q)'
  <2>1. CASE q = r
    BY <2>1 DEF FairTo, Only
  <2>2. CASE q # r
    <3>1. /\ token'[q] = token[q] /\ assist_results'[q] = assist_results[q] /\ pc'[q] = pc[q]
          /\ calls'[q] = calls[q] /\ events'[q] = events[q]
          /\ performed'[q] = performed[q] /\ reply'[q] = reply[q]
      BY <2>2 DEF Only, IInv, Shape
    <3> QED
      BY <3>1 DEF FairTo, IInv
  <2> QED
    BY <2>1, <2>2
<1> QED
  BY <1>1, <1>2 DEF IInv

\* The audit trail stays true when a request that has no answer yet moves.
LEMMA AuditStays ==
  ASSUME IInv, NEW r \in Requests, Only(r), audit' = audit,
         pc[r] # "answered" \/ reply'[r] = reply[r]
  PROVE  /\ AuditIsTrue'
         /\ audit' \subseteq Requests \X (Operations \cup {"protected_agent"}) \X Statuses
<1>1. \A q \in Requests : q # r => reply'[q] = reply[q]
  BY DEF Only, IInv, Shape
<1>2. \A row \in audit : row[1] \in Requests /\ reply[row[1]].kind = "result"
  BY DEF IInv, Shape, AuditIsTrue
<1>3. reply'[r] = reply[r] \/ reply[r].kind = "none"
  BY DEF IInv, FairTo, Fair
<1>4. \A row \in audit : reply'[row[1]] = reply[row[1]]
  BY <1>1, <1>2, <1>3
<1> QED
  BY <1>4 DEF IInv, AuditIsTrue, Shape

\* The calls of a run when call i has reached another stage.
Reached(cs, i, stage) == [cs EXCEPT ![i].at = stage]

LEMMA ReachTypes ==
  ASSUME NEW cs \in Seq(Call), NEW i \in 1..Len(cs), NEW stage \in {"ran", "late", "over"}
  PROVE  /\ Reached(cs, i, stage) \in Seq(Call)
         /\ Len(Reached(cs, i, stage)) = Len(cs)
         /\ Reached(cs, i, stage)[i].at = stage
<1> DEFINE c == [cs[i] EXCEPT !.at = stage]
<1>1. cs[i] \in Call
  BY DOMAIN cs = 1..Len(cs)
<1>2. c \in Call /\ c.at = stage
  BY <1>1 DEF Call
<1> HIDE DEF c
<1>3. /\ [cs EXCEPT ![i] = c] \in Seq(Call)
      /\ Len([cs EXCEPT ![i] = c]) = Len(cs)
      /\ \A j \in 1..Len(cs) : [cs EXCEPT ![i] = c][j] = IF j = i THEN c ELSE cs[j]
  BY <1>2, ExceptSeq, DOMAIN cs = 1..Len(cs)
<1>4. Reached(cs, i, stage) = [cs EXCEPT ![i] = c]
  BY DEF c, Reached
<1> QED
  BY <1>2, <1>3, <1>4, DOMAIN cs = 1..Len(cs)

\* What a tracer records of a call within the bound is an event.
LEMMA RecordTypes ==
  ASSUME NEW m \in Nat, NEW ev \in Seq(Events(1..m)), NEW i \in 1..m,
         NEW e \in Starts \cup Outcomes
  PROVE  Append(ev, [event |-> e, call |-> i]) \in Seq(Events(1..m))
BY DEF Events

-----------------------------------------------------------------------------
(* The steps                                                               *)

LEMMA InitStep == ASSUME Init PROVE IInv
<1>1. Shape
  BY AssistConstants DEF Init, Shape
<1>2. ASSUME NEW r \in Requests PROVE FairTo(r)
  <2>1. /\ token[r] \in Headers /\ assist_results[r] = Nothing /\ pc[r] = "new"
        /\ calls[r] = <<>> /\ events[r] = <<>> /\ performed[r] = <<>>
        /\ reply[r] = Plain("none")
    BY DEF Init
  <2>2. /\ Plain("none") \in Reply /\ Plain("none").kind = "none"
        /\ Nothing.protected = FALSE /\ MaxCalls[r] \in Nat
    BY AssistConstants DEF Plain, Reply, Kinds, Nothing
  <2> QED
    BY <2>1, <2>2 DEF FairTo, Fair, FairTypes, Tells
<1>3. AuditIsTrue
  BY DEF Init, AuditIsTrue
<1> QED
  BY <1>1, <1>2, <1>3 DEF IInv

LEMMA StartStep == ASSUME IInv, NEW r \in Requests, Start(r) PROVE IInv'
<1>1. /\ pc[r] = "new" /\ pc' = [pc EXCEPT ![r] = "running"] /\ pc'[r] = "running"
      /\ UNCHANGED <<token, assist_results, calls, events, performed, reply, audit, crashes>>
  BY DEF Start, IInv, Shape
<1>2. Only(r)
  BY <1>1 DEF Only, IInv, Shape
<1>3. Fair(token[r], assist_results'[r], pc'[r], calls'[r], events'[r], performed'[r],
           reply'[r], MaxCalls[r])
  BY <1>1 DEF IInv, FairTo, Fair, FairTypes
<1> QED
  BY <1>1, <1>2, <1>3, OneMoves, AuditStays

LEMMA BeginStep ==
  ASSUME IInv, NEW r \in Requests, NEW op \in Callable, Begin(r, op) PROVE IInv'
<1> DEFINE c == [op |-> op, at |-> "open"]
           e == IF op = "model" THEN "chat_model_start" ELSE "tool_start"
<1>1. /\ pc[r] = "running" /\ Len(calls[r]) < MaxCalls[r]
      /\ calls' = [calls EXCEPT ![r] = Append(calls[r], c)]
      /\ events' = [events EXCEPT ![r] = Append(events[r], [event |-> e, call |-> Len(calls[r]) + 1])]
      /\ UNCHANGED <<token, assist_results, pc, performed, reply, audit, crashes>>
  BY DEF Begin, Recorded
<1>2. c \in Call /\ c.at = "open" /\ e \in Starts \cup Outcomes
  BY DEF Call, Starts
<1> HIDE DEF c, e
<1>3. /\ calls'[r] = Append(calls[r], c)
      /\ events'[r] = Append(events[r], [event |-> e, call |-> Len(calls[r]) + 1])
  BY <1>1 DEF IInv, Shape
<1>4. Only(r)
  BY <1>1, <1>3 DEF Only, IInv, Shape
<1>5. calls[r] \in Seq(Call) /\ events[r] \in Seq(Events(1..MaxCalls[r])) /\ MaxCalls[r] \in Nat
  BY AssistConstants DEF IInv, FairTo, Fair, FairTypes
<1>6. /\ Append(calls[r], c) \in Seq(Call) /\ Len(Append(calls[r], c)) = Len(calls[r]) + 1
      /\ DOMAIN Append(calls[r], c) = 1..(Len(calls[r]) + 1)
      /\ Len(calls[r]) + 1 \in 1..MaxCalls[r]
      /\ \A i \in DOMAIN calls[r] : Append(calls[r], c)[i] = calls[r][i]
  BY <1>1, <1>2, <1>5
<1>7. events'[r] \in Seq(Events(1..MaxCalls[r]))
  BY <1>2, <1>3, <1>5, <1>6, RecordTypes
<1>8. Fair(token[r], assist_results'[r], pc'[r], calls'[r], events'[r], performed'[r],
           reply'[r], MaxCalls[r])
  BY <1>1, <1>3, <1>6, <1>7 DEF IInv, FairTo, Fair, FairTypes
<1> QED
  BY <1>1, <1>4, <1>8, OneMoves, AuditStays

\* A call that is there is of a run that has begun, and a run that the supervisor
\* ended has none that could still do its work.
LEMMA OpenCall ==
  ASSUME IInv, NEW r \in Requests, NEW i \in DOMAIN calls[r], calls[r][i].at # "over"
  PROVE  pc[r] # "new" /\ reply[r].kind \notin {"knowledge", "refused", "result"}
BY DEF IInv, FairTo, Fair

LEMMA BodyStep ==
  ASSUME IInv, NEW r \in Requests, NEW i \in DOMAIN calls[r], Body(r, i) PROVE IInv'
<1>0. PICK stage \in {"ran", "late"} : stage = IF pc[r] = "running" THEN "ran" ELSE "late"
  OBVIOUS
<1>1. /\ calls[r][i].op \in Operations /\ calls[r][i].at = "open"
      /\ calls' = [calls EXCEPT ![r][i].at = stage]
      /\ UNCHANGED <<token, pc, events, reply, audit, crashes>>
  BY <1>0 DEF Body, Reaches
<1>2. /\ FairTo(r) /\ pc[r] # "new" /\ calls[r] \in Seq(Call) /\ performed[r] \in Seq(Work)
      /\ reply[r].kind \notin {"knowledge", "refused", "result"}
  BY <1>1, OpenCall DEF IInv, FairTo, Fair, FairTypes
<1>3. stage \in {"ran", "late", "over"} /\ (pc[r] # "running" => stage = "late")
  BY <1>0
<1>4. /\ calls'[r] = [calls[r] EXCEPT ![i].at = stage]
      /\ calls' = [calls EXCEPT ![r] = calls'[r]]
  BY <1>1 DEF IInv, Shape
<1>5. /\ calls'[r] \in Seq(Call) /\ Len(calls'[r]) = Len(calls[r])
      /\ i \in DOMAIN calls'[r] /\ calls'[r][i].at = stage
  <2>1. calls[r] \in Seq(Call) /\ i \in 1..Len(calls[r])
    BY <1>2
  <2>2. calls'[r] = Reached(calls[r], i, stage)
    BY <1>4 DEF Reached
  <2>3. /\ calls'[r] \in Seq(Call) /\ Len(calls'[r]) = Len(calls[r])
        /\ calls'[r][i].at = stage
    BY <1>3, <2>1, <2>2, ReachTypes
  <2> QED
    BY <2>1, <2>3
<1>6. /\ pc[r] = "running" \/ \E j \in DOMAIN calls'[r] : calls'[r][j].at = "late"
      /\ pc[r] \in {"running", "answered"}
  BY <1>2, <1>3, <1>5 DEF FairTo, Fair, FairTypes
<1>7. ASSUME NEW entry \in Entry, NEW done \in Seq(Work),
             assist_results' = Stored(r, entry),
             performed' = [performed EXCEPT ![r] = done],
             Tells(entry, done), token[r] # "ok" => done = <<>>
      PROVE  IInv'
  <2>1. /\ assist_results' = [assist_results EXCEPT ![r] = assist_results'[r]]
        /\ assist_results'[r] = IF token[r] = "missing" THEN assist_results[r] ELSE entry
    BY <1>7 DEF Stored, HasRequestId, ResultKey, IInv, Shape
  <2>2. performed'[r] = done /\ performed' = [performed EXCEPT ![r] = performed'[r]]
    BY <1>7 DEF IInv, Shape
  <2>3. Only(r)
    BY <1>1, <1>4, <2>1, <2>2 DEF Only, IInv, Shape
  <2>4. token[r] = "missing" => assist_results'[r] = Nothing /\ Tells(assist_results'[r], done)
    <3>1. token[r] = "missing" => assist_results'[r] = Nothing /\ done = <<>>
      BY <1>2, <1>7, <2>1 DEF FairTo, Fair
    <3> QED
      BY <3>1 DEF Tells, Nothing
  <2>5. token[r] # "missing" => assist_results'[r] = entry /\ Tells(assist_results'[r], done)
    BY <1>7, <2>1
  <2>6. Fair(token[r], assist_results'[r], pc'[r], calls'[r], events'[r], performed'[r],
             reply'[r], MaxCalls[r])
    BY <1>1, <1>2, <1>5, <1>6, <1>7, <2>2, <2>4, <2>5 DEF FairTo, Fair, FairTypes
  <2> QED
    BY <1>1, <2>3, <2>6, OneMoves, AuditStays
<1>8. CASE ~Allowed(r) /\ assist_results' = Stored(r, Refused) /\ performed' = performed
  <2>1. Refused \in Entry /\ performed[r] = <<>> /\ Tells(Refused, performed[r])
    BY <1>2, <1>8 DEF Entry, Refused, Tells, Allowed, FairTo, Fair
  <2>2. performed' = [performed EXCEPT ![r] = performed[r]]
    BY <1>8 DEF IInv, Shape
  <2> QED
    BY <1>2, <1>7, <1>8, <2>1, <2>2
<1>9. ASSUME NEW st \in Statuses, Allowed(r),
             performed' = [performed EXCEPT ![r] =
                             Append(@, [op |-> calls[r][i].op, status |-> st])],
             assist_results' = Stored(r, [protected |-> TRUE,
                                          work |-> [op |-> calls[r][i].op, status |-> st]])
      PROVE  IInv'
  <2> DEFINE w == [op |-> calls[r][i].op, status |-> st]
             entry == [protected |-> TRUE, work |-> w]
             done == Append(performed[r], w)
  <2>1. w \in Work
    BY <1>1 DEF Work
  <2>2. /\ performed' = [performed EXCEPT ![r] = done]
        /\ assist_results' = Stored(r, entry)
    BY <1>9
  <2> HIDE DEF w
  <2>3. entry \in Entry /\ entry.protected = TRUE /\ entry.work = w
    BY <2>1 DEF Entry, Protected
  <2>4. done \in Seq(Work) /\ done # <<>> /\ done[Len(done)] = w
    <3>1. Len(done) = Len(performed[r]) + 1 /\ Len(performed[r]) \in Nat
      BY <1>2, <2>1
    <3> QED
      BY <1>2, <2>1, <3>1
  <2>5. Tells(entry, done)
    BY <2>3, <2>4 DEF Tells
  <2> HIDE DEF entry, done
  <2> QED
    BY <1>7, <1>9, <2>2, <2>3, <2>4, <2>5 DEF Allowed
<1> QED
  BY <1>8, <1>9 DEF Body

\* A call of a running request is over, and the request goes on.
LEMMA OverStep ==
  ASSUME IInv, NEW r \in Requests, NEW i \in DOMAIN calls[r], pc[r] = "running",
         calls' = [calls EXCEPT ![r][i].at = "over"],
         \/ events' = events
         \/ \E e \in Starts \cup Outcomes :
              events' = [events EXCEPT ![r] = Append(@, [event |-> e, call |-> i])]
  PROVE  /\ calls' = [calls EXCEPT ![r] = calls'[r]]
         /\ events' = [events EXCEPT ![r] = events'[r]]
         /\ calls'[r] \in Seq(Call) /\ Len(calls'[r]) = Len(calls[r])
         /\ events'[r] \in Seq(Events(1..MaxCalls[r]))
<1>1. /\ calls[r] \in Seq(Call) /\ Len(calls[r]) <= MaxCalls[r] /\ MaxCalls[r] \in Nat
      /\ events[r] \in Seq(Events(1..MaxCalls[r]))
  BY AssistConstants DEF IInv, FairTo, Fair, FairTypes
<1>2. /\ calls'[r] = [calls[r] EXCEPT ![i].at = "over"]
      /\ calls' = [calls EXCEPT ![r] = calls'[r]]
  BY DEF IInv, Shape
<1>3. calls'[r] \in Seq(Call) /\ Len(calls'[r]) = Len(calls[r])
  <2>1. calls'[r] = Reached(calls[r], i, "over")
    BY <1>2 DEF Reached
  <2>2. calls[r] \in Seq(Call) /\ i \in 1..Len(calls[r])
    BY <1>1
  <2>3. /\ Reached(calls[r], i, "over") \in Seq(Call)
        /\ Len(Reached(calls[r], i, "over")) = Len(calls[r])
    BY <2>2, ReachTypes, "over" \in {"ran", "late", "over"}, Zenon
  <2> QED
    BY <2>1, <2>3
<1>4. i \in 1..MaxCalls[r]
  BY <1>1
<1>5. /\ events' = [events EXCEPT ![r] = events'[r]]
      /\ events'[r] \in Seq(Events(1..MaxCalls[r]))
  <2>1. CASE events' = events
    BY <1>1, <2>1 DEF IInv, Shape
  <2>2. ASSUME NEW e \in Starts \cup Outcomes,
               events' = [events EXCEPT ![r] = Append(@, [event |-> e, call |-> i])]
        PROVE  /\ events' = [events EXCEPT ![r] = events'[r]]
               /\ events'[r] \in Seq(Events(1..MaxCalls[r]))
    <3>1. events'[r] = Append(events[r], [event |-> e, call |-> i])
      BY <2>2 DEF IInv, Shape
    <3>2. events' = [events EXCEPT ![r] = events'[r]]
      BY <2>2, <3>1
    <3> QED
      BY <1>1, <1>4, <3>1, <3>2, RecordTypes
  <2> QED
    BY <2>1, <2>2
<1> QED
  BY <1>2, <1>3, <1>5

LEMMA EndStep ==
  ASSUME IInv, NEW r \in Requests, NEW i \in DOMAIN calls[r], End(r, i) PROVE IInv'
<1>1. /\ pc[r] = "running" /\ calls' = [calls EXCEPT ![r][i].at = "over"]
      /\ \E e \in Starts \cup Outcomes :
           events' = [events EXCEPT ![r] = Append(@, [event |-> e, call |-> i])]
      /\ UNCHANGED <<token, assist_results, pc, performed, reply, audit, crashes>>
  BY DEF End, Reaches, Recorded, Outcomes
<1>2. /\ calls' = [calls EXCEPT ![r] = calls'[r]]
      /\ events' = [events EXCEPT ![r] = events'[r]]
      /\ calls'[r] \in Seq(Call) /\ Len(calls'[r]) = Len(calls[r])
      /\ events'[r] \in Seq(Events(1..MaxCalls[r]))
  BY <1>1, OverStep
<1>3. Only(r)
  BY <1>1, <1>2 DEF Only, IInv, Shape
<1>4. Fair(token[r], assist_results'[r], pc'[r], calls'[r], events'[r], performed'[r],
           reply'[r], MaxCalls[r])
  BY <1>1, <1>2 DEF IInv, FairTo, Fair, FairTypes
<1> QED
  BY <1>1, <1>3, <1>4, OneMoves, AuditStays

\* A run ends: its entry is popped and its client gets the reply.
LEMMA AnswerStep ==
  ASSUME IInv, NEW r \in Requests, pc[r] = "running", NEW rp \in Reply, rp.kind # "none",
         rp.kind \in {"knowledge", "refused", "result"} =>
           (\A i \in DOMAIN calls'[r] : calls'[r][i].at = "over"),
         rp.kind = "result" =>
           performed[r] # <<>> /\ rp.work = {performed[r][Len(performed[r])]},
         rp.kind \in {"knowledge", "refused"} => performed[r] = <<>>,
         reply' = [reply EXCEPT ![r] = rp], assist_results' = Popped(r),
         pc' = [pc EXCEPT ![r] = "answered"],
         UNCHANGED <<token, performed, crashes>>,
         calls' = [calls EXCEPT ![r] = calls'[r]],
         events' = [events EXCEPT ![r] = events'[r]],
         calls'[r] \in Seq(Call), Len(calls'[r]) = Len(calls[r]),
         events'[r] \in Seq(Events(1..MaxCalls[r]))
  PROVE  /\ Only(r)
         /\ Fair(token[r], assist_results'[r], pc'[r], calls'[r], events'[r], performed'[r],
                 reply'[r], MaxCalls[r])
<1>1. FairTo(r)
  BY DEF IInv
<1>2. /\ reply'[r] = rp /\ reply' = [reply EXCEPT ![r] = reply'[r]]
      /\ pc'[r] = "answered" /\ pc' = [pc EXCEPT ![r] = pc'[r]]
      /\ performed' = [performed EXCEPT ![r] = performed'[r]]
  BY DEF IInv, Shape
<1>3. /\ assist_results'[r] = Nothing
      /\ assist_results' = [assist_results EXCEPT ![r] = assist_results'[r]]
  BY <1>1 DEF IInv, Shape, Popped, HasRequestId, ResultKey, FairTo, Fair
<1>4. Only(r)
  BY <1>2, <1>3 DEF Only
<1>5. Fair(token[r], assist_results'[r], pc'[r], calls'[r], events'[r], performed'[r],
           reply'[r], MaxCalls[r])
  BY <1>1, <1>2, <1>3 DEF FairTo, Fair, FairTypes
<1> QED
  BY <1>4, <1>5

LEMMA PlainType ==
  ASSUME NEW kind \in Kinds
  PROVE  Plain(kind) \in Reply /\ Plain(kind).kind = kind
BY DEF Plain, Reply

LEMMA BreakStep ==
  ASSUME IInv, NEW r \in Requests, NEW i \in DOMAIN calls[r], Break(r, i) PROVE IInv'
<1>1. /\ pc[r] = "running" /\ calls' = [calls EXCEPT ![r][i].at = "over"]
      /\ \/ events' = events
         \/ \E e \in Starts \cup Outcomes :
              events' = [events EXCEPT ![r] = Append(@, [event |-> e, call |-> i])]
      /\ UNCHANGED <<token, performed, audit, crashes>>
  BY DEF Break, Reaches, Recorded, Outcomes
<1>2. /\ calls' = [calls EXCEPT ![r] = calls'[r]]
      /\ events' = [events EXCEPT ![r] = events'[r]]
      /\ calls'[r] \in Seq(Call) /\ Len(calls'[r]) = Len(calls[r])
      /\ events'[r] \in Seq(Events(1..MaxCalls[r]))
  BY <1>1, OverStep
<1>3. /\ Only(r)
      /\ Fair(token[r], assist_results'[r], pc'[r], calls'[r], events'[r], performed'[r],
              reply'[r], MaxCalls[r])
  <2>1. CASE Raise(r)
    <3> DEFINE rp == Plain("error")
    <3>1. rp \in Reply /\ rp.kind = "error"
      BY PlainType DEF Kinds
    <3>2. /\ reply' = [reply EXCEPT ![r] = rp] /\ assist_results' = Popped(r)
          /\ pc' = [pc EXCEPT ![r] = "answered"]
      BY <2>1 DEF Raise
    <3> HIDE DEF rp
    <3> QED
      BY <1>1, <1>2, <3>1, <3>2, AnswerStep
  <2>2. CASE UNCHANGED <<assist_results, pc, reply>>
    <3>1. Only(r)
      BY <1>1, <1>2, <2>2 DEF Only, IInv, Shape
    <3> QED
      BY <1>1, <1>2, <2>2, <3>1 DEF IInv, FairTo, Fair, FairTypes
  <2> QED
    BY <2>1, <2>2 DEF Break
<1> QED
  BY <1>1, <1>3, OneMoves, AuditStays

LEMMA FailStep == ASSUME IInv, NEW r \in Requests, Fail(r) PROVE IInv'
<1> DEFINE rp == Plain("error")
<1>1. /\ pc[r] = "running"
      /\ reply' = [reply EXCEPT ![r] = rp] /\ assist_results' = Popped(r)
      /\ pc' = [pc EXCEPT ![r] = "answered"]
      /\ UNCHANGED <<token, calls, events, performed, audit, crashes>>
  BY DEF Fail, Raise
<1>2. rp \in Reply /\ rp.kind = "error"
  BY PlainType DEF Kinds
<1> HIDE DEF rp
<1>3. /\ calls' = [calls EXCEPT ![r] = calls'[r]]
      /\ events' = [events EXCEPT ![r] = events'[r]]
      /\ calls'[r] \in Seq(Call) /\ Len(calls'[r]) = Len(calls[r])
      /\ events'[r] \in Seq(Events(1..MaxCalls[r]))
  BY <1>1 DEF IInv, Shape, FairTo, Fair, FairTypes
<1>4. /\ Only(r)
      /\ Fair(token[r], assist_results'[r], pc'[r], calls'[r], events'[r], performed'[r],
              reply'[r], MaxCalls[r])
  BY <1>1, <1>2, <1>3, AnswerStep
<1> QED
  BY <1>1, <1>4, OneMoves, AuditStays

\* The supervisor's answer is what the entry says, and the entry says what the run
\* did; the audit row is the request's first.
LEMMA FinishStep == ASSUME IInv, NEW r \in Requests, Finish(r) PROVE IInv'
<1> DEFINE entry == IF HasRequestId(r) THEN assist_results[ResultKey(r)] ELSE Nothing
<1>1. /\ pc[r] = "running" /\ assist_results' = Popped(r)
      /\ pc' = [pc EXCEPT ![r] = "answered"]
      /\ UNCHANGED <<token, calls, events, performed, crashes>>
  BY DEF Finish
<1>2. /\ calls' = [calls EXCEPT ![r] = calls'[r]]
      /\ events' = [events EXCEPT ![r] = events'[r]]
      /\ calls'[r] \in Seq(Call) /\ Len(calls'[r]) = Len(calls[r])
      /\ events'[r] \in Seq(Events(1..MaxCalls[r]))
      /\ \A i \in DOMAIN calls'[r] : calls'[r][i].at = "over"
  BY <1>1 DEF Finish, Idle, IInv, Shape, FairTo, Fair, FairTypes
<1>3. /\ entry \in Entry \cup {Nothing} /\ Tells(entry, performed[r])
  <2>1. entry = assist_results[r]
    BY DEF IInv, FairTo, Fair, HasRequestId, ResultKey
  <2> QED
    BY <1>1, <2>1 DEF IInv, FairTo, Fair, FairTypes
<1>4. /\ Nothing.protected = FALSE /\ Refused.protected = FALSE
      /\ entry.protected => entry \in Protected
  <2>1. Nothing.protected = FALSE /\ Refused.protected = FALSE
    BY DEF Nothing, Refused
  <2> HIDE DEF entry
  <2>2. entry \in Protected \/ entry = Refused \/ entry = Nothing
    BY <1>3 DEF Entry
  <2> QED
    BY <2>1, <2>2
<1>5. \A other \in audit : other[1] # r
  BY <1>1 DEF IInv, FairTo, Fair, AuditIsTrue
<1>6. ASSUME NEW kind \in {"knowledge", "refused"}, entry \in {Nothing, Refused},
             reply' = [reply EXCEPT ![r] = Plain(kind)], UNCHANGED audit
      PROVE  IInv'
  <2> DEFINE rp == Plain(kind)
  <2>1. rp \in Reply /\ rp.kind = kind
    BY PlainType DEF Kinds
  <2>2. performed[r] = <<>>
    BY <1>3, <1>4, <1>6 DEF Tells
  <2>3. reply' = [reply EXCEPT ![r] = rp]
    BY <1>6
  <2> HIDE DEF rp, entry
  <2>4. /\ Only(r)
        /\ Fair(token[r], assist_results'[r], pc'[r], calls'[r], events'[r], performed'[r],
                reply'[r], MaxCalls[r])
    BY <1>1, <1>2, <2>1, <2>2, <2>3, AnswerStep
  <2> QED
    BY <1>1, <1>6, <2>4, OneMoves, AuditStays
<1>7. ASSUME entry.protected,
             reply' = [reply EXCEPT ![r] = [kind |-> "result", work |-> {entry.work}]],
             audit' = audit \cup {Row(r, entry.work)} \/ UNCHANGED audit
      PROVE  IInv'
  <2> DEFINE w == entry.work
             rp == [kind |-> "result", work |-> {w}]
  <2>1. w \in Work /\ performed[r] # <<>> /\ w = performed[r][Len(performed[r])]
    BY <1>3, <1>4, <1>7 DEF Protected, Tells
  <2>2. /\ reply' = [reply EXCEPT ![r] = rp]
        /\ audit' = audit \cup {Row(r, w)} \/ UNCHANGED audit
    BY <1>7
  <2> HIDE DEF w, entry
  <2>3. rp \in Reply /\ rp.kind = "result" /\ rp.work = {w}
    BY <2>1 DEF Reply, Kinds
  <2> HIDE DEF rp
  <2>4. /\ Only(r)
        /\ Fair(token[r], assist_results'[r], pc'[r], calls'[r], events'[r], performed'[r],
                reply'[r], MaxCalls[r])
    BY <1>1, <1>2, <2>1, <2>2, <2>3, AnswerStep
  <2>5. CASE UNCHANGED audit
    BY <1>1, <2>4, <2>5, OneMoves, AuditStays
  <2>6. CASE audit' = audit \cup {Row(r, w)}
    <3>1. PICK row : row = Row(r, w)
      OBVIOUS
    <3>2. /\ row \in Requests \X (Operations \cup {"protected_agent"}) \X Statuses
          /\ row[1] = r /\ row[3] = w.status /\ row[2] \in {w.op, "protected_agent"}
      BY <2>1, <3>1 DEF Row, Work
    <3>3. audit' \subseteq Requests \X (Operations \cup {"protected_agent"}) \X Statuses
      BY <2>6, <3>1, <3>2 DEF IInv, Shape
    <3>4. reply'[r] = rp /\ \A q \in Requests : q # r => reply'[q] = reply[q]
      BY <2>2 DEF IInv, Shape
    <3>5. \A other \in audit : other[1] \in Requests /\ reply'[other[1]] = reply[other[1]]
      BY <1>5, <3>4 DEF IInv, Shape
    <3>6. audit' = audit \cup {row}
      BY <2>6, <3>1
    <3>7. AuditIsTrue'
      BY <1>5, <2>3, <3>2, <3>4, <3>5, <3>6 DEF IInv, AuditIsTrue
    <3> QED
      BY <2>4, <3>3, <3>7, OneMoves
  <2> QED
    BY <2>2, <2>5, <2>6
<1>8. \/ /\ entry \in {Nothing, Refused} /\ UNCHANGED audit
         /\ \E kind \in {"knowledge", "refused"} : reply' = [reply EXCEPT ![r] = Plain(kind)]
      \/ /\ entry.protected
         /\ reply' = [reply EXCEPT ![r] = [kind |-> "result", work |-> {entry.work}]]
         /\ audit' = audit \cup {Row(r, entry.work)} \/ UNCHANGED audit
  BY DEF Finish
<1> QED
  BY <1>6, <1>7, <1>8

LEMMA CrashStep == ASSUME IInv, Crash PROVE IInv'
<1>1. /\ crashes < MaxCrashes /\ crashes' = crashes + 1
      /\ assist_results' = [r \in Requests |-> Nothing]
      /\ pc' = [r \in Requests |-> IF pc[r] = "running" THEN "answered" ELSE pc[r]]
      /\ reply' = [r \in Requests |-> IF pc[r] = "running" THEN Plain("lost") ELSE reply[r]]
      /\ calls' = [r \in Requests |-> <<>>]
      /\ UNCHANGED <<token, events, performed, audit>>
  BY DEF Crash
<1>2. Plain("lost") \in Reply /\ Plain("lost").kind = "lost"
  BY PlainType DEF Kinds
<1>3. Shape'
  BY <1>1, AssistConstants DEF IInv, Shape
<1>4. ASSUME NEW r \in Requests PROVE FairTo(r)'
  <2>1. /\ assist_results'[r] = Nothing /\ calls'[r] = <<>>
        /\ token'[r] = token[r] /\ events'[r] = events[r] /\ performed'[r] = performed[r]
    BY <1>1
  <2>2. FairTo(r) /\ MaxCalls[r] \in Nat
    BY AssistConstants DEF IInv
  <2>3. CASE pc[r] = "running"
    <3>1. pc'[r] = "answered" /\ reply'[r] = Plain("lost")
      BY <1>1, <2>3
    <3> QED
      BY <1>2, <2>1, <2>2, <3>1 DEF FairTo, Fair, FairTypes
  <2>4. CASE pc[r] # "running"
    <3>1. pc'[r] = pc[r] /\ reply'[r] = reply[r]
      BY <1>1, <2>4
    <3>2. pc[r] # "answered" => assist_results[r] = Nothing
      BY <2>2, <2>4 DEF FairTo, Fair, FairTypes
    <3> QED
      BY <2>1, <2>2, <3>1, <3>2 DEF FairTo, Fair, FairTypes
  <2> QED
    BY <2>3, <2>4
<1>5. AuditIsTrue'
  <2>1. \A row \in audit : row[1] \in Requests /\ reply[row[1]].kind = "result"
    BY DEF IInv, Shape, AuditIsTrue
  <2>2. \A r \in Requests : reply[r].kind = "result" => reply'[r] = reply[r]
    BY <1>1 DEF IInv, FairTo, Fair
  <2> QED
    BY <1>1, <2>1, <2>2 DEF IInv, AuditIsTrue
<1> QED
  BY <1>3, <1>4, <1>5 DEF IInv

LEMMA StutterStep == ASSUME IInv, UNCHANGED vars PROVE IInv'
BY DEF vars, IInv, Shape, FairTo, AuditIsTrue

-----------------------------------------------------------------------------
(* The theorems                                                            *)

\* The inductive invariant holds in every state, however the runs of any number
\* of requests overlap, fail and are cut short.
THEOREM Invariance == Spec => []IInv
<1>1. IInv /\ [Next]_vars => IInv'
  BY StartStep, BeginStep, BodyStep, EndStep, BreakStep, FailStep, FinishStep, CrashStep,
     StutterStep DEF Next
<1> QED
  BY InitStep, <1>1, PTL DEF Spec

\* All state stays within its types.
THEOREM TypeCorrect == Spec => []TypeOK
<1>1. ASSUME IInv PROVE TypeOK
  <2>1. \A r \in Requests : FairTypes(token[r], assist_results[r], pc[r], calls[r], events[r],
                                     performed[r], reply[r], MaxCalls[r])
    BY <1>1 DEF IInv, FairTo, Fair
  <2> QED
    BY <1>1, <2>1 DEF IInv, Shape, FairTypes, TypeOK
<1> QED
  BY <1>1, Invariance, PTL

\* The dict holds nothing for a request that is over, but for the entry of a tool
\* that was left behind by a run another call of which raised (pipeline.py:152).
THEOREM EntriesArePopped == Spec => []NoLeak
<1>1. IInv => NoLeak
  BY DEF IInv, FairTo, Fair, NoLeak
<1> QED
  BY <1>1, Invariance, PTL

\* A result is that of the last protected work this very run did; plain text and
\* 401/403 hide no work that was done.
THEOREM OwnAnswer == Spec => []AnswerIsOwn
<1>1. IInv => AnswerIsOwn
  BY DEF IInv, FairTo, Fair, AnswerIsOwn
<1> QED
  BY <1>1, Invariance, PTL

\* The audit trail does not invent: at most one row per request, of work it did
\* and of the result its client got.
THEOREM TrueAudit == Spec => []AuditIsTrue
BY Invariance, PTL DEF IInv

-----------------------------------------------------------------------------
(* Induction over an index                                                 *)

\* Induction over the naturals, by the least number outside T.
LEMMA NatSets ==
  ASSUME NEW T \in SUBSET Nat, 0 \in T, \A n \in T : n + 1 \in T
  PROVE  T = Nat
<1>1. SUFFICES ASSUME Nat \ T # {} PROVE FALSE
  OBVIOUS
<1>2. IsWellFoundedOn(OpToRel(<, Nat), Nat)
  BY NatLessThanWellFounded
<1>3. PICK x \in Nat \ T : \A y \in Nat \ T : ~(<<y, x>> \in OpToRel(<, Nat))
  <2>1. Nat \ T \subseteq Nat
    OBVIOUS
  <2> QED
    BY <1>1, <1>2, <2>1, WFMin
<1>4. \A y \in Nat \ T : ~(y < x)
  BY <1>3 DEF OpToRel
<1>5. x - 1 \in Nat \ T
  BY <1>4
<1> QED
  BY <1>4, <1>5

\* Some numbers up to L have a largest, which is the latest of them.
LEMMA LatestIsThere ==
  ASSUME NEW L \in Nat, NEW S \in SUBSET (1..L), S # {}
  PROVE  LatestOf(S) \in S /\ \A l \in S : l <= LatestOf(S)
<1> DEFINE T == {n \in Nat : \A R \in SUBSET (1..n) : R # {} => \E k \in R : \A l \in R : l <= k}
<1>1. 0 \in T
  <2>1. 1..0 = {}
    OBVIOUS
  <2> QED
    BY <2>1
<1>2. ASSUME NEW n \in T PROVE n + 1 \in T
  <2>1. SUFFICES ASSUME NEW R \in SUBSET (1..(n + 1)), R # {}
                 PROVE  \E k \in R : \A l \in R : l <= k
    OBVIOUS
  <2>2. CASE n + 1 \in R
    BY <2>2
  <2>3. CASE n + 1 \notin R
    <3>1. R \in SUBSET (1..n)
      BY <2>3
    <3> QED
      BY <2>1, <3>1
  <2> QED
    BY <2>2, <2>3
<1>3. T \in SUBSET Nat
  OBVIOUS
<1> HIDE DEF T
<1>4. T = Nat
  BY <1>1, <1>2, <1>3, NatSets
<1>5. \E k \in S : \A l \in S : l <= k
  BY <1>4 DEF T
<1> QED
  BY <1>5 DEF LatestOf

-----------------------------------------------------------------------------
(* What api_trace makes of the events                                      *)

TraceStep == [step : {"llm_call", "tool", "tool_end", "tool_error"}, input : Nat, output : Nat]

\* What one event does to the steps s, of which t are made.
Starting(s, t, e) ==
  /\ e.event \in Starts
  /\ \E x \in TraceStep :
       /\ t = Append(s, x) /\ x.output = None
       /\ x.step = "tool" <=> e.event = "tool_start"
       /\ x.step = "tool" => x.input = e.call

Adding(s, t, e) ==
  /\ e.event \in Outcomes
  /\ e.event = "tool_end" => OpenTools(s) = {}
  /\ \E x \in TraceStep : t = Append(s, x) /\ x.output = e.call /\ x.step # "tool"

Setting(s, t, e) ==
  /\ e.event \in Outcomes
  /\ \E k \in 1..Len(s) :
       /\ s[k].output = None /\ t = [s EXCEPT ![k].output = e.call]
       /\ \/ e.event = "llm_end" /\ s[k].step = "llm_call"
          \/ e.event = "tool_end" /\ s[k].step = "tool" /\ \A l \in OpenTools(s) : l <= k

\* An event starts a step, adds one with an output, or sets the output of one.
LEMMA OneEvent ==
  ASSUME NEW s \in Seq(TraceStep), NEW M \in SUBSET Nat, NEW e \in Events(M)
  PROVE  \/ Starting(s, Advance(s, e), e) \/ Adding(s, Advance(s, e), e)
         \/ Setting(s, Advance(s, e), e)
<1>1. e.event \in Starts \cup Outcomes /\ e.call \in Nat
  BY DEF Events
<1>2. CASE e.event = "chat_model_start"
  <2> DEFINE x == StepOf("llm_call", None, None)
  <2>1. x \in TraceStep /\ x.output = None /\ x.step = "llm_call"
    BY DEF StepOf, TraceStep, None
  <2>2. Advance(s, e) = Append(s, x)
    BY <1>2 DEF Advance
  <2> HIDE DEF x
  <2> QED
    BY <1>2, <2>1, <2>2 DEF Starting, Starts
<1>3. CASE e.event = "tool_start"
  <2> DEFINE x == StepOf("tool", e.call, None)
  <2>1. x \in TraceStep /\ x.output = None /\ x.step = "tool" /\ x.input = e.call
    BY <1>1 DEF StepOf, TraceStep, None
  <2>2. Advance(s, e) = Append(s, x)
    BY <1>3 DEF Advance
  <2> HIDE DEF x
  <2> QED
    BY <1>3, <2>1, <2>2 DEF Starting, Starts
<1>4. CASE e.event = "tool_error"
  <2> DEFINE x == StepOf("tool_error", None, e.call)
  <2>1. x \in TraceStep /\ x.output = e.call /\ x.step # "tool"
    BY <1>1 DEF StepOf, TraceStep, None
  <2>2. Advance(s, e) = Append(s, x)
    BY <1>4 DEF Advance
  <2> HIDE DEF x
  <2> QED
    BY <1>4, <2>1, <2>2 DEF Adding, Outcomes
<1>5. CASE e.event = "llm_end"
  <2>1. Advance(s, e) = ModelEnd(s, e.call)
    BY <1>5 DEF Advance
  <2>2. CASE s # <<>> /\ s[Len(s)].step = "llm_call" /\ s[Len(s)].output = None
    <3>1. Advance(s, e) = [s EXCEPT ![Len(s)].output = e.call] /\ Len(s) \in 1..Len(s)
      BY <2>1, <2>2 DEF ModelEnd
    <3> QED
      BY <1>5, <2>2, <3>1 DEF Setting, Outcomes
  <2>3. CASE ~(s # <<>> /\ s[Len(s)].step = "llm_call" /\ s[Len(s)].output = None)
    <3> DEFINE x == StepOf("llm_call", None, e.call)
    <3>1. x \in TraceStep /\ x.output = e.call /\ x.step # "tool"
      BY <1>1 DEF StepOf, TraceStep, None
    <3>2. Advance(s, e) = Append(s, x)
      BY <2>1, <2>3 DEF ModelEnd
    <3> HIDE DEF x
    <3> QED
      BY <1>5, <3>1, <3>2 DEF Adding, Outcomes
  <2> QED
    BY <2>2, <2>3
<1>6. CASE e.event = "tool_end"
  <2>1. Advance(s, e) = ToolEnd(s, e.call)
    BY <1>6 DEF Advance
  <2>2. CASE OpenTools(s) = {}
    <3> DEFINE x == StepOf("tool_end", None, e.call)
    <3>1. x \in TraceStep /\ x.output = e.call /\ x.step # "tool"
      BY <1>1 DEF StepOf, TraceStep, None
    <3>2. Advance(s, e) = Append(s, x)
      BY <2>1, <2>2 DEF ToolEnd
    <3> HIDE DEF x
    <3> QED
      BY <1>6, <2>2, <3>1, <3>2 DEF Adding, Outcomes
  <2>3. CASE OpenTools(s) # {}
    <3> DEFINE k == LatestOf(OpenTools(s))
    <3>1. OpenTools(s) \in SUBSET (1..Len(s)) /\ Len(s) \in Nat
      BY DEF OpenTools
    <3>2. k \in OpenTools(s) /\ \A l \in OpenTools(s) : l <= k
      BY <2>3, <3>1, LatestIsThere
    <3>3. Advance(s, e) = [s EXCEPT ![k].output = e.call]
      BY <2>1, <2>3 DEF ToolEnd
    <3> HIDE DEF k
    <3>4. k \in 1..Len(s) /\ s[k].step = "tool" /\ s[k].output = None
      BY <3>1, <3>2 DEF OpenTools
    <3> QED
      BY <1>6, <3>2, <3>3, <3>4 DEF Setting, Outcomes
  <2> QED
    BY <2>2, <2>3
<1> QED
  BY <1>1, <1>2, <1>3, <1>4, <1>5, <1>6 DEF Starts, Outcomes

\* A step that is added is the last, and the others stay.
LEMMA Appended ==
  ASSUME NEW s \in Seq(TraceStep), NEW x \in TraceStep, NEW t, t = Append(s, x)
  PROVE  /\ t \in Seq(TraceStep) /\ Len(t) = Len(s) + 1 /\ t[Len(t)] = x
         /\ Len(s) \in Nat /\ 1..Len(s) \subseteq 1..Len(t) /\ Len(t) \in 1..Len(t)
         /\ \A k \in 1..Len(s) : t[k] = s[k] /\ k # Len(t) /\ k < Len(t)
         /\ \A k \in 1..Len(t) : k \in 1..Len(s) \/ k = Len(t)
OBVIOUS

\* The steps when step k has got the output c.
Fill(s, k, c) == [s EXCEPT ![k].output = c]

\* A step that gets its output keeps the rest, and the others stay.
LEMMA Filled ==
  ASSUME NEW s \in Seq(TraceStep), NEW k \in 1..Len(s), NEW c \in Nat
  PROVE  /\ Fill(s, k, c) \in Seq(TraceStep) /\ Len(Fill(s, k, c)) = Len(s)
         /\ Fill(s, k, c)[k].step = s[k].step /\ Fill(s, k, c)[k].input = s[k].input
         /\ Fill(s, k, c)[k].output = c
         /\ \A l \in 1..Len(s) : l # k => Fill(s, k, c)[l] = s[l]
<1> DEFINE x == [s[k] EXCEPT !.output = c]
<1>1. s[k] \in TraceStep
  OBVIOUS
<1>2. x \in TraceStep /\ x.step = s[k].step /\ x.input = s[k].input /\ x.output = c
  BY <1>1 DEF TraceStep
<1>3. Fill(s, k, c) = [s EXCEPT ![k] = x]
  BY DEF Fill
<1> HIDE DEF x
<1>4. /\ Fill(s, k, c) \in Seq(TraceStep) /\ Len(Fill(s, k, c)) = Len(s)
      /\ \A j \in 1..Len(s) : Fill(s, k, c)[j] = IF j = k THEN x ELSE s[j]
  BY <1>2, <1>3, ExceptSeq, DOMAIN s = 1..Len(s)
<1> QED
  BY <1>2, <1>4

\* After n events the outputs in the steps s are the calls that have ended, each
\* of them once.
Shows(s, ev, n) ==
  /\ s \in Seq(TraceStep)
  /\ \A k \in 1..Len(s) : s[k].output # None =>
       \E m \in 1..n : ev[m].event \in Outcomes /\ ev[m].call = s[k].output
  /\ \A m \in 1..n : ev[m].event \in Outcomes =>
       \E k \in 1..Len(s) : s[k].output = ev[m].call
  /\ \A k, l \in 1..Len(s) : s[k].output = s[l].output /\ s[k].output # None => k = l

\* No call ends twice.
EndsOnce(ev) ==
  \A m, n \in 1..Len(ev) :
    ev[m].event \in Outcomes /\ ev[n].event \in Outcomes /\ ev[m].call = ev[n].call => m = n

\* One more event keeps it.
LEMMA ShowsOneMore ==
  ASSUME NEW M \in SUBSET (Nat \ {None}), NEW ev \in Seq(Events(M)), EndsOnce(ev),
         NEW n \in 0..(Len(ev) - 1), NEW s \in Seq(TraceStep), Shows(s, ev, n)
  PROVE  Shows(Advance(s, ev[n + 1]), ev, n + 1)
<1> DEFINE e == ev[n + 1]
           t == Advance(s, e)
<1>1. /\ Len(ev) \in Nat /\ n \in Nat /\ n + 1 \in 1..Len(ev)
      /\ 1..n \subseteq 1..Len(ev) /\ n + 1 \notin 1..n
      /\ \A m \in 1..(n + 1) : m \in 1..n \/ m = n + 1
      /\ 1..n \subseteq 1..(n + 1) /\ n + 1 \in 1..(n + 1)
  OBVIOUS
<1>2. e \in Events(M) /\ e.call \in Nat /\ e.call # None
  <2>1. e \in Events(M)
    BY <1>1
  <2> QED
    BY <2>1 DEF Events
<1>3. Starting(s, t, e) \/ Adding(s, t, e) \/ Setting(s, t, e)
  BY <1>2, OneEvent
<1> SUFFICES Shows(t, ev, n + 1)
  OBVIOUS
<1> HIDE DEF t, e
<1>4. Starts \cap Outcomes = {}
  BY DEF Starts, Outcomes
<1>5. e.event \in Outcomes => \A k \in 1..Len(s) : s[k].output # e.call
  <2> SUFFICES ASSUME e.event \in Outcomes, NEW k \in 1..Len(s), s[k].output = e.call
               PROVE  FALSE
    OBVIOUS
  <2>1. PICK m \in 1..n : ev[m].event \in Outcomes /\ ev[m].call = e.call
    BY <1>2 DEF Shows
  <2>2. m = n + 1
    BY <1>1, <2>1 DEF EndsOnce, e
  <2> QED
    BY <1>1, <2>2
<1>6. CASE Starting(s, t, e)
  <2>1. PICK x \in TraceStep : t = Append(s, x) /\ x.output = None
    BY <1>6 DEF Starting
  <2>2. e.event \notin Outcomes
    BY <1>4, <1>6 DEF Starting
  <2>3. /\ t \in Seq(TraceStep) /\ t[Len(t)] = x
        /\ 1..Len(s) \subseteq 1..Len(t)
        /\ \A k \in 1..Len(s) : t[k] = s[k]
        /\ \A k \in 1..Len(t) : k \in 1..Len(s) \/ k = Len(t)
    BY <2>1, Appended
  <2>4. \A k \in 1..Len(t) : t[k].output # None => k \in 1..Len(s) /\ t[k] = s[k]
    BY <2>1, <2>3
  <2>5. ASSUME NEW k \in 1..Len(t), t[k].output # None
        PROVE  \E m \in 1..(n + 1) : ev[m].event \in Outcomes /\ ev[m].call = t[k].output
    BY <1>1, <2>4, <2>5 DEF Shows
  <2>6. ASSUME NEW m \in 1..(n + 1), ev[m].event \in Outcomes
        PROVE  \E k \in 1..Len(t) : t[k].output = ev[m].call
    <3>1. m \in 1..n
      BY <1>1, <2>2, <2>6 DEF e
    <3>2. PICK k \in 1..Len(s) : s[k].output = ev[m].call
      BY <2>6, <3>1 DEF Shows
    <3> QED
      BY <2>3, <3>2
  <2>7. ASSUME NEW k \in 1..Len(t), NEW l \in 1..Len(t), t[k].output = t[l].output,
               t[k].output # None
        PROVE  k = l
    BY <2>4, <2>7 DEF Shows
  <2> QED
    BY <2>3, <2>5, <2>6, <2>7 DEF Shows
<1>7. CASE Adding(s, t, e)
  <2>1. PICK x \in TraceStep : t = Append(s, x) /\ x.output = e.call
    BY <1>7 DEF Adding
  <2>2. e.event \in Outcomes
    BY <1>7 DEF Adding
  <2>3. /\ t \in Seq(TraceStep) /\ t[Len(t)] = x /\ Len(t) \in 1..Len(t)
        /\ 1..Len(s) \subseteq 1..Len(t)
        /\ \A k \in 1..Len(s) : t[k] = s[k]
        /\ \A k \in 1..Len(t) : k \in 1..Len(s) \/ k = Len(t)
    BY <2>1, Appended
  <2>4. ASSUME NEW k \in 1..Len(t), t[k].output # None
        PROVE  \E m \in 1..(n + 1) : ev[m].event \in Outcomes /\ ev[m].call = t[k].output
    <3>1. CASE k \in 1..Len(s)
      BY <1>1, <2>3, <2>4, <3>1 DEF Shows
    <3>2. CASE k = Len(t)
      BY <1>1, <2>1, <2>2, <2>3, <3>2 DEF e
    <3> QED
      BY <2>3, <3>1, <3>2
  <2>5. ASSUME NEW m \in 1..(n + 1), ev[m].event \in Outcomes
        PROVE  \E k \in 1..Len(t) : t[k].output = ev[m].call
    <3>1. CASE m \in 1..n
      <4>1. PICK k \in 1..Len(s) : s[k].output = ev[m].call
        BY <2>5, <3>1 DEF Shows
      <4> QED
        BY <2>3, <4>1
    <3>2. CASE m = n + 1
      BY <2>1, <2>3, <3>2 DEF e
    <3> QED
      BY <1>1, <3>1, <3>2
  <2>6. ASSUME NEW k \in 1..Len(t), NEW l \in 1..Len(t), t[k].output = t[l].output,
               t[k].output # None
        PROVE  k = l
    BY <1>5, <2>1, <2>2, <2>3, <2>6 DEF Shows
  <2> QED
    BY <2>3, <2>4, <2>5, <2>6 DEF Shows, e
<1>8. CASE Setting(s, t, e)
  <2>1. PICK j \in 1..Len(s) : s[j].output = None /\ t = [s EXCEPT ![j].output = e.call]
    BY <1>8 DEF Setting
  <2>2. e.event \in Outcomes
    BY <1>8 DEF Setting
  <2>3. /\ t \in Seq(TraceStep) /\ Len(t) = Len(s) /\ t[j].output = e.call
        /\ \A l \in 1..Len(s) : l # j => t[l] = s[l]
    <3>1. PICK c \in Nat : c = e.call
      BY <1>2
    <3>2. t = Fill(s, j, c)
      BY <2>1, <3>1 DEF Fill
    <3>3. /\ Fill(s, j, c) \in Seq(TraceStep) /\ Len(Fill(s, j, c)) = Len(s)
          /\ Fill(s, j, c)[j].step = s[j].step /\ Fill(s, j, c)[j].input = s[j].input
          /\ Fill(s, j, c)[j].output = c
          /\ \A l \in 1..Len(s) : l # j => Fill(s, j, c)[l] = s[l]
      BY Filled, Zenon
    <3> QED
      BY <3>1, <3>2, <3>3, Zenon
  <2>4. ASSUME NEW k \in 1..Len(t), t[k].output # None
        PROVE  \E m \in 1..(n + 1) : ev[m].event \in Outcomes /\ ev[m].call = t[k].output
    <3>1. CASE k # j
      BY <1>1, <2>3, <2>4, <3>1 DEF Shows
    <3>2. CASE k = j
      BY <1>1, <2>2, <2>3, <3>2 DEF e
    <3> QED
      BY <3>1, <3>2
  <2>5. ASSUME NEW m \in 1..(n + 1), ev[m].event \in Outcomes
        PROVE  \E k \in 1..Len(t) : t[k].output = ev[m].call
    <3>1. CASE m \in 1..n
      <4>1. PICK k \in 1..Len(s) : s[k].output = ev[m].call
        BY <2>5, <3>1 DEF Shows
      <4>2. ev[m].call # None
        <5>1. ev[m] \in Events(M)
          BY <1>1, <3>1
        <5> QED
          BY <5>1 DEF Events
      <4> QED
        BY <2>1, <2>3, <4>1, <4>2
    <3>2. CASE m = n + 1
      BY <2>3, <3>2 DEF e
    <3> QED
      BY <1>1, <3>1, <3>2
  <2>6. ASSUME NEW k \in 1..Len(t), NEW l \in 1..Len(t), t[k].output = t[l].output,
               t[k].output # None
        PROVE  k = l
    BY <1>5, <2>2, <2>3, <2>6 DEF Shows
  <2> QED
    BY <2>3, <2>4, <2>5, <2>6 DEF Shows, e
<1> QED
  BY <1>3, <1>6, <1>7, <1>8

\* The tool call that starts with event a and ends with event b is alone.
Lone(ev, a, b) ==
  /\ b \in 1..Len(ev) /\ a < b
  /\ ev[a].event = "tool_start" /\ ev[b].event = "tool_end" /\ ev[a].call = ev[b].call
  /\ \A n \in (a + 1)..(b - 1) : ev[n].event \in {"chat_model_start", "llm_end"}

\* After n events the steps s have each tool that was started once, and one that
\* is alone is the last without an output, up to its end, and has its own then.
Pairs(s, ev, n) ==
  /\ \A k \in 1..Len(s) : s[k].step = "tool" =>
       \E m \in 1..n : ev[m].event = "tool_start" /\ ev[m].call = s[k].input
  /\ \A k, l \in 1..Len(s) :
       s[k].step = "tool" /\ s[l].step = "tool" /\ s[k].input = s[l].input => k = l
  /\ \A a \in 1..n, b \in Nat : Lone(ev, a, b) =>
       \E k \in 1..Len(s) :
         /\ s[k].step = "tool" /\ s[k].input = ev[a].call
         /\ n < b => s[k].output = None /\ \A l \in 1..Len(s) : l > k => s[l].step # "tool"
         /\ n >= b => s[k].output = ev[a].call

\* No tool call starts twice.
StartsOnce(ev) ==
  \A m, n \in 1..Len(ev) :
    ev[m].event = "tool_start" /\ ev[n].event = "tool_start" /\ ev[m].call = ev[n].call => m = n

\* One more event keeps it: a tool that is alone is open when its end comes, and
\* no open one is later.
LEMMA PairsOneMore ==
  ASSUME NEW M \in SUBSET (Nat \ {None}), NEW ev \in Seq(Events(M)), StartsOnce(ev),
         NEW n \in 0..(Len(ev) - 1), NEW s \in Seq(TraceStep), Pairs(s, ev, n)
  PROVE  Pairs(Advance(s, ev[n + 1]), ev, n + 1)
<1> DEFINE e == ev[n + 1]
           t == Advance(s, e)
<1>1. /\ Len(ev) \in Nat /\ n \in Nat /\ n + 1 \in 1..Len(ev)
      /\ 1..n \subseteq 1..Len(ev) /\ n + 1 \notin 1..n
      /\ \A m \in 1..(n + 1) : m \in 1..n \/ m = n + 1
      /\ 1..n \subseteq 1..(n + 1) /\ n + 1 \in 1..(n + 1)
  OBVIOUS
<1>2. e \in Events(M) /\ e.call \in Nat /\ e.call # None
  <2>1. e \in Events(M)
    BY <1>1
  <2> QED
    BY <2>1 DEF Events
<1>3. Starting(s, t, e) \/ Adding(s, t, e) \/ Setting(s, t, e)
  BY <1>2, OneEvent
<1>4. \A k \in 1..Len(s) : s[k].step = "tool" /\ e.event = "tool_start" => s[k].input # e.call
  <2> SUFFICES ASSUME NEW k \in 1..Len(s), s[k].step = "tool", e.event = "tool_start",
                      s[k].input = e.call
               PROVE  FALSE
    OBVIOUS
  <2>1. PICK m \in 1..n : ev[m].event = "tool_start" /\ ev[m].call = e.call
    BY DEF Pairs
  <2>2. m = n + 1
    BY <1>1, <2>1 DEF StartsOnce
  <2> QED
    BY <1>1, <2>2
<1>5. ASSUME NEW a \in 1..n, NEW b \in Nat, Lone(ev, a, b)
      PROVE  /\ ev[a].call # None
             /\ n + 1 < b => e.event \in {"chat_model_start", "llm_end"}
             /\ n + 1 = b => e.event = "tool_end" /\ e.call = ev[a].call
             /\ n + 1 < b => n < b /\ ~(n + 1 >= b)
             /\ n + 1 = b => n < b /\ ~(n + 1 < b)
             /\ ~(n + 1 < b) /\ n + 1 # b => n >= b
  <2>1. ev[a] \in Events(M)
    BY <1>1
  <2>2. ev[a].call # None
    BY <2>1 DEF Events
  <2>3. ASSUME n + 1 < b PROVE e.event \in {"chat_model_start", "llm_end"}
    <3>1. n + 1 \in (a + 1)..(b - 1)
      BY <1>1, <2>3
    <3> QED
      BY <1>5, <3>1 DEF Lone
  <2>4. n + 1 = b => e.event = "tool_end" /\ e.call = ev[a].call
    BY <1>5 DEF Lone
  <2>5. /\ n + 1 < b => n < b /\ ~(n + 1 >= b)
        /\ n + 1 = b => n < b /\ ~(n + 1 < b)
        /\ ~(n + 1 < b) /\ n + 1 # b => n >= b
    BY <1>1
  <2> QED
    BY <2>2, <2>3, <2>4, <2>5
<1>6. \A b \in Nat : Lone(ev, n + 1, b) => n + 1 < b /\ e.event = "tool_start"
  BY DEF Lone
<1> SUFFICES Pairs(t, ev, n + 1)
  OBVIOUS
<1> HIDE DEF t, e
<1>7. ASSUME NEW x \in TraceStep, t = Append(s, x), x.step = "tool" <=> e.event = "tool_start",
             x.step = "tool" => x.input = e.call /\ x.output = None,
             e.event = "tool_end" => OpenTools(s) = {}
      PROVE  Pairs(t, ev, n + 1)
  <2>1. /\ t \in Seq(TraceStep) /\ t[Len(t)] = x /\ Len(t) \in 1..Len(t) /\ Len(t) \in Nat
        /\ 1..Len(s) \subseteq 1..Len(t)
        /\ \A k \in 1..Len(s) : t[k] = s[k]
        /\ \A k \in 1..Len(t) : k \in 1..Len(s) \/ k = Len(t)
    BY <1>7, Appended
  <2>2. ASSUME NEW k \in 1..Len(t), t[k].step = "tool"
        PROVE  \E m \in 1..(n + 1) : ev[m].event = "tool_start" /\ ev[m].call = t[k].input
    <3>1. CASE k \in 1..Len(s)
      BY <1>1, <2>1, <2>2, <3>1 DEF Pairs
    <3>2. CASE k = Len(t)
      BY <1>1, <1>7, <2>1, <2>2, <3>2 DEF e
    <3> QED
      BY <2>1, <3>1, <3>2
  <2>3. ASSUME NEW k \in 1..Len(t), NEW l \in 1..Len(t), t[k].step = "tool", t[l].step = "tool",
               t[k].input = t[l].input
        PROVE  k = l
    <3>1. CASE k \in 1..Len(s) /\ l \in 1..Len(s)
      BY <2>1, <2>3, <3>1 DEF Pairs
    <3>2. ASSUME NEW j \in 1..Len(s), t[j].step = "tool", x.step = "tool" PROVE t[j].input # x.input
      BY <1>4, <1>7, <2>1, <3>2
    <3>3. CASE k \in 1..Len(s) /\ l = Len(t)
      BY <2>1, <2>3, <3>2, <3>3
    <3>4. CASE k = Len(t) /\ l \in 1..Len(s)
      BY <2>1, <2>3, <3>2, <3>4
    <3> QED
      BY <2>1, <3>1, <3>3, <3>4
  <2>4. ASSUME NEW a \in 1..(n + 1), NEW b \in Nat, Lone(ev, a, b)
        PROVE  \E k \in 1..Len(t) :
                 /\ t[k].step = "tool" /\ t[k].input = ev[a].call
                 /\ n + 1 < b =>
                      t[k].output = None /\ \A l \in 1..Len(t) : l > k => t[l].step # "tool"
                 /\ n + 1 >= b => t[k].output = ev[a].call
    <3>1. CASE a = n + 1
      <4>1. n + 1 < b /\ ~(n + 1 >= b) /\ e.event = "tool_start"
        BY <1>1, <1>6, <2>4, <3>1
      <4>2. x.step = "tool" /\ x.input = ev[a].call /\ x.output = None
        BY <1>7, <3>1, <4>1 DEF e
      <4>3. \A l \in 1..Len(t) : ~(l > Len(t))
        BY <2>1
      <4> QED
        BY <2>1, <4>1, <4>2, <4>3
    <3>2. CASE a \in 1..n
      <4>1. PICK k \in 1..Len(s) :
              /\ s[k].step = "tool" /\ s[k].input = ev[a].call
              /\ n < b => s[k].output = None /\ \A l \in 1..Len(s) : l > k => s[l].step # "tool"
              /\ n >= b => s[k].output = ev[a].call
        BY <2>4, <3>2 DEF Pairs
      <4>2. t[k] = s[k] /\ k \in 1..Len(t)
        BY <2>1
      <4>3. CASE n + 1 < b
        <5>3. e.event \in {"chat_model_start", "llm_end"} /\ n < b /\ ~(n + 1 >= b)
          BY <1>5, <2>4, <3>2, <4>3
        <5>1. x.step # "tool" /\ n < b /\ ~(n + 1 >= b)
          BY <1>7, <5>3
        <5>2. \A l \in 1..Len(t) : l > k => t[l].step # "tool"
          BY <2>1, <4>1, <5>1
        <5> QED
          BY <4>1, <4>2, <4>3, <5>1, <5>2
      <4>4. CASE n + 1 = b
        <5>1. n < b /\ OpenTools(s) = {}
          BY <1>5, <1>7, <2>4, <3>2, <4>4
        <5>2. k \in OpenTools(s)
          BY <4>1, <5>1 DEF OpenTools
        <5> QED
          BY <5>1, <5>2
      <4>5. CASE ~(n + 1 < b) /\ n + 1 # b
        <5>1. n >= b
          BY <1>5, <2>4, <3>2, <4>5
        <5> QED
          BY <4>1, <4>2, <4>5, <5>1
      <4> QED
        BY <4>3, <4>4, <4>5
    <3> QED
      BY <1>1, <3>1, <3>2
  <2> QED
    BY <2>2, <2>3, <2>4 DEF Pairs
<1>8. CASE Starting(s, t, e)
  <2>1. PICK x \in TraceStep : /\ t = Append(s, x) /\ x.output = None
                               /\ x.step = "tool" <=> e.event = "tool_start"
                               /\ x.step = "tool" => x.input = e.call
    BY <1>8 DEF Starting
  <2>2. e.event # "tool_end"
    BY <1>8 DEF Starting, Starts
  <2> QED
    BY <1>7, <2>1, <2>2
<1>9. CASE Adding(s, t, e)
  <2>1. PICK x \in TraceStep : t = Append(s, x) /\ x.output = e.call /\ x.step # "tool"
    BY <1>9 DEF Adding
  <2>2. e.event # "tool_start" /\ (e.event = "tool_end" => OpenTools(s) = {})
    BY <1>9 DEF Adding, Outcomes
  <2> QED
    BY <1>7, <2>1, <2>2
<1>10. CASE Setting(s, t, e)
  <2>1. PICK j \in 1..Len(s) :
          /\ s[j].output = None /\ t = [s EXCEPT ![j].output = e.call]
          /\ \/ e.event = "llm_end" /\ s[j].step = "llm_call"
             \/ e.event = "tool_end" /\ s[j].step = "tool" /\ \A l \in OpenTools(s) : l <= j
    BY <1>10 DEF Setting
  <2>2. /\ t \in Seq(TraceStep) /\ Len(t) = Len(s) /\ t[j].output = e.call
        /\ t[j].step = s[j].step /\ t[j].input = s[j].input
        /\ \A l \in 1..Len(s) : l # j => t[l] = s[l]
    <3>1. PICK c \in Nat : c = e.call
      BY <1>2
    <3>2. t = Fill(s, j, c)
      BY <2>1, <3>1 DEF Fill
    <3>3. /\ Fill(s, j, c) \in Seq(TraceStep) /\ Len(Fill(s, j, c)) = Len(s)
          /\ Fill(s, j, c)[j].step = s[j].step /\ Fill(s, j, c)[j].input = s[j].input
          /\ Fill(s, j, c)[j].output = c
          /\ \A l \in 1..Len(s) : l # j => Fill(s, j, c)[l] = s[l]
      BY Filled, Zenon
    <3> QED
      BY <3>1, <3>2, <3>3, Zenon
  <2>3. \A l \in 1..Len(s) : t[l].step = s[l].step /\ t[l].input = s[l].input
    BY <2>2
  <2>4. ASSUME NEW k \in 1..Len(t), t[k].step = "tool"
        PROVE  \E m \in 1..(n + 1) : ev[m].event = "tool_start" /\ ev[m].call = t[k].input
    <3>1. k \in 1..Len(s) /\ s[k].step = "tool" /\ s[k].input = t[k].input
      BY <2>2, <2>3, <2>4
    <3>2. PICK m \in 1..n : ev[m].event = "tool_start" /\ ev[m].call = s[k].input
      BY <3>1 DEF Pairs
    <3> QED
      BY <1>1, <3>1, <3>2
  <2>5. ASSUME NEW k \in 1..Len(t), NEW l \in 1..Len(t), t[k].step = "tool", t[l].step = "tool",
               t[k].input = t[l].input
        PROVE  k = l
    BY <2>2, <2>3, <2>5 DEF Pairs
  <2>6. ASSUME NEW a \in 1..(n + 1), NEW b \in Nat, Lone(ev, a, b)
        PROVE  \E k \in 1..Len(t) :
                 /\ t[k].step = "tool" /\ t[k].input = ev[a].call
                 /\ n + 1 < b =>
                      t[k].output = None /\ \A l \in 1..Len(t) : l > k => t[l].step # "tool"
                 /\ n + 1 >= b => t[k].output = ev[a].call
    <3>1. a # n + 1
      BY <1>6, <2>1, <2>6
    <3>2. a \in 1..n
      BY <1>1, <3>1
    <3>3. PICK k \in 1..Len(s) :
            /\ s[k].step = "tool" /\ s[k].input = ev[a].call
            /\ n < b => s[k].output = None /\ \A l \in 1..Len(s) : l > k => s[l].step # "tool"
            /\ n >= b => s[k].output = ev[a].call
      BY <2>6, <3>2 DEF Pairs
    <3>4. t[k].step = "tool" /\ t[k].input = ev[a].call /\ k \in 1..Len(t)
      BY <2>2, <2>3, <3>3
    <3>5. CASE n + 1 < b
      <4>1. n < b /\ ~(n + 1 >= b) /\ e.event # "tool_end"
        BY <1>1, <1>5, <2>6, <3>2, <3>5
      <4>2. j # k
        BY <2>1, <3>3, <4>1
      <4> QED
        BY <2>2, <2>3, <3>3, <3>4, <4>1, <4>2
    <3>6. CASE n + 1 = b
      <4>1. n < b /\ ~(n + 1 < b) /\ e.event = "tool_end" /\ e.call = ev[a].call
        BY <1>1, <1>5, <2>6, <3>2, <3>6
      <4>2. k \in OpenTools(s)
        BY <3>3, <4>1 DEF OpenTools
      <4>3. s[j].step = "tool" /\ k <= j
        BY <2>1, <4>1, <4>2
      <4>4. j = k
        BY <3>3, <4>1, <4>3
      <4> QED
        BY <2>2, <3>4, <4>1, <4>4
    <3>7. CASE ~(n + 1 < b) /\ n + 1 # b
      <4>1. n >= b /\ ev[a].call # None
        BY <1>5, <2>6, <3>2, <3>7
      <4>2. j # k
        BY <2>1, <3>3, <4>1
      <4> QED
        BY <2>2, <3>3, <3>4, <3>7, <4>1, <4>2
    <3> QED
      BY <3>5, <3>6, <3>7
  <2> QED
    BY <2>4, <2>5, <2>6 DEF Pairs
<1> QED
  BY <1>3, <1>8, <1>9, <1>10

\* The steps f after each of the first N events.
Builds(f, ev, N) ==
  /\ DOMAIN f = 0..N /\ f[0] = <<>>
  /\ \A n \in 0..(N - 1) : f[n + 1] = Advance(f[n], ev[n + 1])

\* api_trace is the last of them: the function it is read from is built up one
\* by one.
LEMMA TraceIsBuilt ==
  ASSUME NEW ev, Len(ev) \in Nat
  PROVE  \E f : Builds(f, ev, Len(ev)) /\ api_trace(ev) = f[Len(ev)]
<1> DEFINE L == Len(ev)
           Value(h, n) == IF n = 0 THEN <<>> ELSE Advance(h[n - 1], ev[n])
           T == {N \in Nat : \E f : Builds(f, ev, N)}
<1>1. 0 \in T
  <2> DEFINE f == [n \in 0..0 |-> <<>>]
  <2>1. Builds(f, ev, 0)
    BY DEF Builds
  <2> QED
    BY <2>1
<1>2. ASSUME NEW N \in T PROVE N + 1 \in T
  <2>1. PICK f : Builds(f, ev, N)
    OBVIOUS
  <2> DEFINE g == [n \in 0..(N + 1) |-> IF n = N + 1 THEN Advance(f[N], ev[N + 1]) ELSE f[n]]
  <2>2. N \in Nat
    OBVIOUS
  <2>3. DOMAIN g = 0..(N + 1) /\ g[N + 1] = Advance(g[N], ev[N + 1]) /\ \A n \in 0..N : g[n] = f[n]
    BY <2>2
  <2> HIDE DEF g
  <2>4. g[0] = <<>>
    BY <2>1, <2>2, <2>3 DEF Builds
  <2>5. ASSUME NEW n \in 0..N PROVE g[n + 1] = Advance(g[n], ev[n + 1])
    <3>1. CASE n = N
      BY <2>3, <3>1
    <3>2. CASE n # N
      <4>1. n \in 0..(N - 1) /\ n + 1 \in 0..N
        BY <2>2, <3>2
      <4> QED
        BY <2>1, <2>3, <4>1 DEF Builds
    <3> QED
      BY <3>1, <3>2
  <2>6. N + 1 - 1 = N
    BY <2>2
  <2>7. Builds(g, ev, N + 1)
    BY <2>3, <2>4, <2>5, <2>6 DEF Builds
  <2> QED
    BY <2>2, <2>7
<1>3. T \in SUBSET Nat
  OBVIOUS
<1> HIDE DEF T
<1>4. T = Nat
  BY <1>1, <1>2, <1>3, NatSets
<1>5. PICK f : Builds(f, ev, L)
  BY <1>4 DEF T
<1> DEFINE e == [n \in 0..L |-> f[n]]
<1>6. e = [n \in 0..L |-> Value(e, n)]
  <2> SUFFICES ASSUME NEW n \in 0..L PROVE f[n] = Value(e, n)
    OBVIOUS
  <2>1. CASE n = 0
    BY <1>5, <2>1 DEF Builds
  <2>2. CASE n # 0
    <3>1. n - 1 \in 0..(L - 1) /\ n - 1 \in 0..L /\ (n - 1) + 1 = n
      BY <2>2
    <3>2. f[n] = Advance(f[n - 1], ev[n])
      BY <1>5, <3>1 DEF Builds
    <3> QED
      BY <2>2, <3>1, <3>2
  <2> QED
    BY <2>1, <2>2
<1> DEFINE h == CHOOSE g : g = [n \in 0..L |-> Value(g, n)]
<1>7. h = [n \in 0..L |-> Value(h, n)]
  BY <1>6
<1>8. api_trace(ev) = h[L]
  BY DEF api_trace
<1> HIDE DEF h
<1>9. Builds(h, ev, L)
  <2>1. DOMAIN h = 0..L /\ h[0] = <<>>
    BY <1>7
  <2>2. ASSUME NEW n \in 0..(L - 1) PROVE h[n + 1] = Advance(h[n], ev[n + 1])
    <3>1. n + 1 \in 0..L /\ n + 1 # 0 /\ (n + 1) - 1 = n
      OBVIOUS
    <3> QED
      BY <1>7, <3>1
  <2> QED
    BY <2>1, <2>2 DEF Builds
<1> QED
  BY <1>8, <1>9

\* What api_trace shows of the events.
LEMMA TraceHolds ==
  ASSUME NEW M \in SUBSET (Nat \ {None}), NEW ev \in Seq(Events(M)), EndsOnce(ev), StartsOnce(ev)
  PROVE  Shows(api_trace(ev), ev, Len(ev)) /\ Pairs(api_trace(ev), ev, Len(ev))
<1> DEFINE L == Len(ev)
<1>1. L \in Nat
  OBVIOUS
<1>2. PICK f : Builds(f, ev, L) /\ api_trace(ev) = f[L]
  BY <1>1, TraceIsBuilt
<1> DEFINE T == {n \in Nat : n <= L => Shows(f[n], ev, n) /\ Pairs(f[n], ev, n)}
<1>3. 0 \in T
  <2>1. f[0] = <<>>
    BY <1>2 DEF Builds
  <2>2. Shows(<<>>, ev, 0) /\ Pairs(<<>>, ev, 0)
    BY DEF Shows, Pairs
  <2> QED
    BY <2>1, <2>2
<1>4. ASSUME NEW n \in T PROVE n + 1 \in T
  <2>1. SUFFICES ASSUME n + 1 <= L
                 PROVE  Shows(f[n + 1], ev, n + 1) /\ Pairs(f[n + 1], ev, n + 1)
    OBVIOUS
  <2>2. n \in 0..(L - 1) /\ Shows(f[n], ev, n) /\ Pairs(f[n], ev, n)
    BY <1>1, <2>1
  <2>3. f[n + 1] = Advance(f[n], ev[n + 1])
    BY <1>2, <2>2 DEF Builds
  <2>4. f[n] \in Seq(TraceStep)
    BY <2>2 DEF Shows
  <2>5. Shows(f[n + 1], ev, n + 1)
    BY <2>2, <2>3, <2>4, ShowsOneMore
  <2>6. Pairs(f[n + 1], ev, n + 1)
    BY <2>2, <2>3, <2>4, PairsOneMore
  <2> QED
    BY <2>5, <2>6
<1>5. T \in SUBSET Nat
  OBVIOUS
<1> HIDE DEF T
<1>6. T = Nat
  BY <1>3, <1>4, <1>5, NatSets
<1> QED
  BY <1>1, <1>2, <1>6 DEF T

-----------------------------------------------------------------------------
(* What the tracer records                                                 *)

\* Of a run at stage p with calls cs the events ev are recorded: a call ends at
\* most once, a tool after its only start; and while the run goes on, every tool
\* call has started and those that have ended are over.
Records(p, cs, ev) ==
  /\ EndsOnce(ev) /\ StartsOnce(ev)
  /\ \A n \in 1..Len(ev) : ev[n].event = "tool_end" =>
       \E m \in 1..Len(ev) : m < n /\ ev[m].event = "tool_start" /\ ev[m].call = ev[n].call
  /\ p = "new" => ev = <<>> /\ cs = <<>>
  /\ p = "running" => \A n \in 1..Len(ev) :
       /\ ev[n].call \in 1..Len(cs)
       /\ ev[n].event \in Outcomes => cs[ev[n].call].at = "over"
  /\ p = "running" => \A i \in 1..Len(cs) : cs[i].op # "model" =>
       \E n \in 1..Len(ev) : ev[n].event = "tool_start" /\ ev[n].call = i

RecInv == \A r \in Requests : Records(pc[r], calls[r], events[r])

\* An event x is added as the last.
LEMMA Logged ==
  ASSUME NEW M \in SUBSET Nat, NEW ev \in Seq(Events(M)), NEW x \in Events(M), NEW log,
         log = Append(ev, x)
  PROVE  /\ Len(ev) \in Nat /\ Len(log) = Len(ev) + 1 /\ log[Len(log)] = x
         /\ Len(log) \in 1..Len(log) /\ 1..Len(ev) \subseteq 1..Len(log)
         /\ \A n \in 1..Len(ev) : log[n] = ev[n] /\ n < Len(log)
         /\ \A n \in 1..Len(log) : n \in 1..Len(ev) \/ n = Len(log)
OBVIOUS

\* A call begins.
LEMMA StartRecorded ==
  ASSUME NEW M \in SUBSET Nat, NEW ev \in Seq(Events(M)), NEW cs \in Seq(Call),
         Records("running", cs, ev), NEW x \in Events(M), NEW c \in Call, c.at = "open",
         x.call = Len(cs) + 1, x.event \in Starts, c.op # "model" => x.event = "tool_start"
  PROVE  Records("running", Append(cs, c), Append(ev, x))
<1> DEFINE log == Append(ev, x)
           ds == Append(cs, c)
<1>1. /\ Len(ev) \in Nat /\ log[Len(log)] = x /\ Len(log) \in 1..Len(log)
      /\ 1..Len(ev) \subseteq 1..Len(log)
      /\ \A n \in 1..Len(ev) : log[n] = ev[n] /\ n < Len(log)
      /\ \A n \in 1..Len(log) : n \in 1..Len(ev) \/ n = Len(log)
  BY Logged
<1>2. /\ Len(cs) \in Nat /\ Len(ds) = Len(cs) + 1 /\ ds[Len(cs) + 1] = c
      /\ \A i \in 1..Len(cs) : ds[i] = cs[i] /\ i \in 1..Len(ds) /\ i # Len(cs) + 1
      /\ \A i \in 1..Len(ds) : i \in 1..Len(cs) \/ i = Len(cs) + 1
      /\ Len(cs) + 1 \in 1..Len(ds)
  OBVIOUS
<1>3. x.event \notin Outcomes
  BY DEF Starts, Outcomes
<1>4. \A n \in 1..Len(ev) : ev[n].call # x.call
  BY <1>2 DEF Records
<1> HIDE DEF log, ds
<1>5. EndsOnce(log)
  BY <1>1, <1>3 DEF Records, EndsOnce
<1>6. StartsOnce(log)
  <2>1. SUFFICES ASSUME NEW m \in 1..Len(log), NEW n \in 1..Len(log),
                        log[m].event = "tool_start", log[n].event = "tool_start",
                        log[m].call = log[n].call
                 PROVE  m = n
    BY DEF StartsOnce
  <2>2. CASE m \in 1..Len(ev) /\ n \in 1..Len(ev)
    <3>1. log[m] = ev[m] /\ log[n] = ev[n]
      BY <1>1, <2>2
    <3> QED
      BY <2>1, <2>2, <3>1 DEF Records, StartsOnce
  <2>3. \A k \in 1..Len(ev) : log[k].call # log[Len(log)].call
    BY <1>1, <1>4
  <2>4. CASE m = Len(log) \/ n = Len(log)
    BY <1>1, <2>1, <2>3, <2>4
  <2> QED
    BY <1>1, <2>2, <2>4
<1>7. ASSUME NEW n \in 1..Len(log), log[n].event = "tool_end"
      PROVE  \E m \in 1..Len(log) :
               m < n /\ log[m].event = "tool_start" /\ log[m].call = log[n].call
  <2>1. n \in 1..Len(ev)
    BY <1>1, <1>3, <1>7 DEF Outcomes
  <2>2. PICK m \in 1..Len(ev) : m < n /\ ev[m].event = "tool_start" /\ ev[m].call = ev[n].call
    BY <1>1, <1>7, <2>1 DEF Records
  <2> QED
    BY <1>1, <2>1, <2>2
<1>8. ASSUME NEW n \in 1..Len(log)
      PROVE  /\ log[n].call \in 1..Len(ds)
             /\ log[n].event \in Outcomes => ds[log[n].call].at = "over"
  <2>1. CASE n \in 1..Len(ev)
    <3>1. ev[n].call \in 1..Len(cs) /\ (ev[n].event \in Outcomes => cs[ev[n].call].at = "over")
      BY <2>1 DEF Records
    <3> QED
      BY <1>1, <1>2, <2>1, <3>1
  <2>2. CASE n = Len(log)
    BY <1>1, <1>2, <1>3, <2>2
  <2> QED
    BY <1>1, <2>1, <2>2
<1>9. ASSUME NEW i \in 1..Len(ds), ds[i].op # "model"
      PROVE  \E n \in 1..Len(log) : log[n].event = "tool_start" /\ log[n].call = i
  <2>1. CASE i \in 1..Len(cs)
    <3>1. PICK n \in 1..Len(ev) : ev[n].event = "tool_start" /\ ev[n].call = i
      BY <1>2, <1>9, <2>1 DEF Records
    <3> QED
      BY <1>1, <3>1
  <2>2. CASE i = Len(cs) + 1
    BY <1>1, <1>2, <1>9, <2>2
  <2> QED
    BY <1>2, <2>1, <2>2
<1>10. Records("running", ds, log)
  BY <1>5, <1>6, <1>7, <1>8, <1>9 DEF Records
<1> QED
  BY <1>10 DEF log, ds

\* A call reaches a stage; it was not over, or is over now.
LEMMA StageRecorded ==
  ASSUME NEW ev, NEW cs \in Seq(Call), Records("running", cs, ev), NEW i \in 1..Len(cs),
         NEW stage \in {"ran", "late", "over"}, cs[i].at # "over"
  PROVE  Records("running", Reached(cs, i, stage), ev)
<1> DEFINE ds == Reached(cs, i, stage)
<1>1. Len(ds) = Len(cs) /\ DOMAIN cs = 1..Len(cs) /\ DOMAIN ds = 1..Len(cs)
  BY ReachTypes DEF Reached
<1>2. \A j \in 1..Len(cs) : j # i => ds[j] = cs[j]
  BY <1>1 DEF Reached
<1>3. ds[i].op = cs[i].op
  <2>1. cs[i] \in Call
    BY <1>1
  <2> QED
    BY <1>1, <2>1 DEF Reached, Call
<1> HIDE DEF ds
<1>4. \A j \in 1..Len(cs) : cs[j].at = "over" => ds[j].at = "over"
  BY <1>2
<1>5. \A j \in 1..Len(cs) : ds[j].op = cs[j].op
  BY <1>2, <1>3
<1>6. ASSUME NEW n \in 1..Len(ev)
      PROVE  /\ ev[n].call \in 1..Len(ds)
             /\ ev[n].event \in Outcomes => ds[ev[n].call].at = "over"
  <2>1. /\ ev[n].call \in 1..Len(cs)
        /\ ev[n].event \in Outcomes => cs[ev[n].call].at = "over"
    BY DEF Records
  <2> QED
    BY <1>1, <1>4, <2>1
<1>7. ASSUME NEW j \in 1..Len(ds), ds[j].op # "model"
      PROVE  \E n \in 1..Len(ev) : ev[n].event = "tool_start" /\ ev[n].call = j
  <2>1. j \in 1..Len(cs) /\ cs[j].op # "model"
    BY <1>1, <1>5, <1>7
  <2> QED
    BY <2>1 DEF Records
<1>8. Records("running", ds, ev)
  BY <1>6, <1>7 DEF Records
<1> QED
  BY <1>8 DEF ds

\* A call ends and its end is recorded.
LEMMA EndRecorded ==
  ASSUME NEW M \in SUBSET Nat, NEW ev \in Seq(Events(M)), NEW cs \in Seq(Call),
         Records("running", cs, ev), NEW i \in 1..Len(cs), cs[i].at # "over",
         NEW x \in Events(M), x.call = i, x.event \in Outcomes,
         x.event = "tool_end" => cs[i].op # "model"
  PROVE  Records("running", Reached(cs, i, "over"), Append(ev, x))
<1> DEFINE log == Append(ev, x)
           ds == Reached(cs, i, "over")
<1>1. /\ Len(ev) \in Nat /\ log[Len(log)] = x /\ Len(log) \in 1..Len(log)
      /\ 1..Len(ev) \subseteq 1..Len(log)
      /\ \A n \in 1..Len(ev) : log[n] = ev[n] /\ n < Len(log)
      /\ \A n \in 1..Len(log) : n \in 1..Len(ev) \/ n = Len(log)
  BY Logged
<1>2. Records("running", ds, ev)
  BY StageRecorded
<1>3. Len(ds) = Len(cs) /\ ds[i].at = "over"
  BY ReachTypes
<1>4. x.event # "tool_start"
  BY DEF Outcomes
<1>5. \A n \in 1..Len(ev) : ev[n].event \in Outcomes => ev[n].call # i
  BY DEF Records
<1> HIDE DEF log, ds
<1>6. EndsOnce(log)
  <2>1. SUFFICES ASSUME NEW m \in 1..Len(log), NEW n \in 1..Len(log),
                        log[m].event \in Outcomes, log[n].event \in Outcomes,
                        log[m].call = log[n].call
                 PROVE  m = n
    BY DEF EndsOnce
  <2>2. CASE m \in 1..Len(ev) /\ n \in 1..Len(ev)
    <3>1. log[m] = ev[m] /\ log[n] = ev[n]
      BY <1>1, <2>2
    <3> QED
      BY <2>1, <2>2, <3>1 DEF Records, EndsOnce
  <2>3. ASSUME NEW k \in 1..Len(ev), log[k].event \in Outcomes PROVE log[k].call # i
    BY <1>1, <1>5, <2>3
  <2>4. CASE m = Len(log) /\ n \in 1..Len(ev)
    BY <1>1, <2>1, <2>3, <2>4
  <2>5. CASE n = Len(log) /\ m \in 1..Len(ev)
    BY <1>1, <2>1, <2>3, <2>5
  <2> QED
    BY <1>1, <2>2, <2>4, <2>5
<1>7. StartsOnce(log)
  BY <1>1, <1>4 DEF Records, StartsOnce
<1>8. ASSUME NEW n \in 1..Len(log), log[n].event = "tool_end"
      PROVE  \E m \in 1..Len(log) :
               m < n /\ log[m].event = "tool_start" /\ log[m].call = log[n].call
  <2>1. CASE n \in 1..Len(ev)
    <3>1. PICK m \in 1..Len(ev) : m < n /\ ev[m].event = "tool_start" /\ ev[m].call = ev[n].call
      BY <1>1, <1>8, <2>1 DEF Records
    <3> QED
      BY <1>1, <2>1, <3>1
  <2>2. CASE n = Len(log)
    <3>1. cs[i].op # "model"
      BY <1>1, <1>8, <2>2
    <3>2. PICK m \in 1..Len(ev) : ev[m].event = "tool_start" /\ ev[m].call = i
      BY <3>1 DEF Records
    <3> QED
      BY <1>1, <2>2, <3>2
  <2> QED
    BY <1>1, <2>1, <2>2
<1>9. ASSUME NEW n \in 1..Len(log)
      PROVE  /\ log[n].call \in 1..Len(ds)
             /\ log[n].event \in Outcomes => ds[log[n].call].at = "over"
  BY <1>1, <1>2, <1>3 DEF Records
<1>10. ASSUME NEW j \in 1..Len(ds), ds[j].op # "model"
       PROVE  \E n \in 1..Len(log) : log[n].event = "tool_start" /\ log[n].call = j
  <2>1. PICK n \in 1..Len(ev) : ev[n].event = "tool_start" /\ ev[n].call = j
    BY <1>2, <1>10 DEF Records
  <2> QED
    BY <1>1, <2>1
<1>11. Records("running", ds, log)
  BY <1>6, <1>7, <1>8, <1>9, <1>10 DEF Records
<1> QED
  BY <1>11 DEF log, ds

\* Of a run that is over the same events are recorded.
LEMMA OverRecorded ==
  ASSUME NEW p, NEW cs, NEW ev, Records(p, cs, ev), NEW ds
  PROVE  Records("answered", ds, ev)
BY DEF Records

\* Only request r moves.
LEMMA OneRecords ==
  ASSUME IInv, RecInv, NEW r \in Requests, Only(r), Records(pc'[r], calls'[r], events'[r])
  PROVE  RecInv'
<1> SUFFICES ASSUME NEW q \in Requests PROVE Records(pc[q], calls[q], events[q])'
  BY DEF RecInv
<1>1. CASE q = r
  BY <1>1
<1>2. CASE q # r
  <2>1. pc'[q] = pc[q] /\ calls'[q] = calls[q] /\ events'[q] = events[q]
    BY <1>2 DEF Only, IInv, Shape
  <2> QED
    BY <2>1 DEF RecInv
<1> QED
  BY <1>1, <1>2

\* What a tracer has recorded stays in order in each step: a request arrives,
LEMMA RecStart == ASSUME IInv, RecInv, NEW r \in Requests, Start(r) PROVE RecInv'
<1>1. /\ pc[r] = "new" /\ pc'[r] = "running" /\ calls'[r] = calls[r] /\ events'[r] = events[r]
      /\ Only(r)
  BY DEF Start, Only, IInv, Shape
<1>2. Records("new", calls[r], events[r])
  BY <1>1 DEF RecInv
<1>3. Records("running", calls[r], events[r])
  BY <1>2 DEF Records
<1> QED
  BY <1>1, <1>3, OneRecords

\* a call begins,
LEMMA RecBegin ==
  ASSUME IInv, RecInv, NEW r \in Requests, NEW op \in Callable, Begin(r, op) PROVE RecInv'
<1> DEFINE c == [op |-> op, at |-> "open"]
           x == [event |-> IF op = "model" THEN "chat_model_start" ELSE "tool_start",
                 call |-> Len(calls[r]) + 1]
<1>1. /\ pc[r] = "running" /\ pc'[r] = "running"
      /\ calls'[r] = Append(calls[r], c) /\ events'[r] = Append(events[r], x)
      /\ calls' = [calls EXCEPT ![r] = calls'[r]] /\ events' = [events EXCEPT ![r] = events'[r]]
  BY DEF Begin, Recorded, IInv, Shape
<1>2. Only(r)
  BY <1>1 DEF Begin, Only, IInv, Shape
<1>3. /\ calls[r] \in Seq(Call) /\ events[r] \in Seq(Events(1..MaxCalls[r]))
      /\ MaxCalls[r] \in Nat /\ Records("running", calls[r], events[r])
  BY <1>1, AssistConstants DEF IInv, FairTo, Fair, FairTypes, RecInv
<1>4. Len(calls[r]) + 1 \in 1..MaxCalls[r]
  BY <1>3 DEF Begin
<1>5. c \in Call /\ c.at = "open" /\ c.op = op
  BY DEF Call
<1>6. /\ x \in Events(1..MaxCalls[r]) /\ x.call = Len(calls[r]) + 1 /\ x.event \in Starts
      /\ op # "model" => x.event = "tool_start"
  BY <1>4 DEF Events, Starts
<1> HIDE DEF c, x
<1>7. 1..MaxCalls[r] \in SUBSET Nat
  BY <1>3
<1>8. Records("running", Append(calls[r], c), Append(events[r], x))
  BY <1>3, <1>5, <1>6, <1>7, StartRecorded
<1> QED
  BY <1>1, <1>2, <1>8, OneRecords

\* the body of a protected tool runs,
LEMMA RecBody ==
  ASSUME IInv, RecInv, NEW r \in Requests, NEW i \in DOMAIN calls[r], Body(r, i) PROVE RecInv'
<1>0. PICK stage \in {"ran", "late", "over"} : stage = IF pc[r] = "running" THEN "ran" ELSE "late"
  OBVIOUS
<1>1. /\ calls[r][i].at = "open" /\ calls'[r] = Reached(calls[r], i, stage)
      /\ calls' = [calls EXCEPT ![r] = calls'[r]]
      /\ pc' = pc /\ events' = events
  BY <1>0 DEF Body, Reaches, Reached, IInv, Shape
<1>2. calls[r] \in Seq(Call) /\ Records(pc[r], calls[r], events[r]) /\ pc[r] # "new"
  BY <1>1, OpenCall DEF IInv, FairTo, Fair, FairTypes, RecInv
<1>3. Records(pc'[r], calls'[r], events'[r])
  <2>1. CASE pc[r] = "running"
    <3>1. i \in 1..Len(calls[r])
      BY <1>2
    <3> QED
      BY <1>1, <1>2, <2>1, <3>1, StageRecorded
  <2>2. CASE pc[r] = "answered"
    BY <1>1, <1>2, <2>2, OverRecorded
  <2> QED
    BY <1>2, <2>1, <2>2 DEF IInv, FairTo, Fair, FairTypes
<1> SUFFICES ASSUME NEW q \in Requests PROVE Records(pc[q], calls[q], events[q])'
  BY DEF RecInv
<1>4. q # r => calls'[q] = calls[q]
  BY <1>1 DEF IInv, Shape
<1> QED
  BY <1>1, <1>3, <1>4 DEF RecInv

\* The call i of a running request is over; at most its end is recorded.
LEMMA OverRecords ==
  ASSUME IInv, RecInv, NEW r \in Requests, NEW i \in DOMAIN calls[r], pc[r] = "running",
         calls[r][i].at # "over", calls' = [calls EXCEPT ![r][i].at = "over"],
         \/ events' = events
         \/ \E e \in Outcomes :
              /\ Recorded(r, e, i)
              /\ e = "tool_end" => calls[r][i].op # "model"
  PROVE  Records("running", calls'[r], events'[r])
<1>1. /\ calls[r] \in Seq(Call) /\ Len(calls[r]) <= MaxCalls[r] /\ MaxCalls[r] \in Nat
      /\ events[r] \in Seq(Events(1..MaxCalls[r])) /\ Records("running", calls[r], events[r])
  BY AssistConstants DEF IInv, FairTo, Fair, FairTypes, RecInv
<1>2. calls'[r] = Reached(calls[r], i, "over") /\ i \in 1..Len(calls[r])
  BY <1>1 DEF Reached, IInv, Shape
<1>3. CASE events' = events
  <2>1. "over" \in {"ran", "late", "over"}
    OBVIOUS
  <2>2. Records("running", Reached(calls[r], i, "over"), events[r])
    BY <1>1, <1>2, <2>1, StageRecorded
  <2> QED
    BY <1>2, <1>3, <2>2
<1>4. ASSUME NEW e \in Outcomes, Recorded(r, e, i), e = "tool_end" => calls[r][i].op # "model"
      PROVE  Records("running", calls'[r], events'[r])
  <2> DEFINE x == [event |-> e, call |-> i]
  <2>1. events'[r] = Append(events[r], x)
    BY <1>4 DEF Recorded, IInv, Shape
  <2>2. x \in Events(1..MaxCalls[r]) /\ x.call = i /\ x.event = e
    BY <1>1, <1>2 DEF Events
  <2>3. 1..MaxCalls[r] \in SUBSET Nat
    BY <1>1
  <2> HIDE DEF x
  <2>4. Records("running", Reached(calls[r], i, "over"), Append(events[r], x))
    BY <1>1, <1>2, <1>4, <2>2, <2>3, EndRecorded
  <2> QED
    BY <1>2, <2>1, <2>4
<1> QED
  BY <1>3, <1>4

\* a call ends well,
LEMMA RecEnd ==
  ASSUME IInv, RecInv, NEW r \in Requests, NEW i \in DOMAIN calls[r], End(r, i) PROVE RecInv'
<1>1. /\ pc[r] = "running" /\ pc' = pc /\ calls[r][i].at # "over"
      /\ calls' = [calls EXCEPT ![r][i].at = "over"]
      /\ \E e \in Outcomes : Recorded(r, e, i) /\ (e = "tool_end" => calls[r][i].op # "model")
  BY DEF End, Reaches, Outcomes
<1>2. Records(pc'[r], calls'[r], events'[r])
  BY <1>1, OverRecords
<1>3. Only(r)
  <2>1. calls' = [calls EXCEPT ![r] = calls'[r]] /\ events' = [events EXCEPT ![r] = events'[r]]
    BY <1>1 DEF Recorded, IInv, Shape
  <2> QED
    BY <2>1 DEF End, Only, IInv, Shape
<1> QED
  BY <1>2, <1>3, OneRecords

\* a call raises,
LEMMA RecBreak ==
  ASSUME IInv, RecInv, NEW r \in Requests, NEW i \in DOMAIN calls[r], Break(r, i) PROVE RecInv'
<1>1. /\ pc[r] = "running" /\ calls[r][i].at # "over"
      /\ calls' = [calls EXCEPT ![r][i].at = "over"]
      /\ \/ events' = events
         \/ \E e \in Outcomes : Recorded(r, e, i) /\ (e = "tool_end" => calls[r][i].op # "model")
  BY DEF Break, Reaches, Outcomes
<1>2. Records("running", calls'[r], events'[r])
  BY <1>1, OverRecords
<1>3. /\ calls' = [calls EXCEPT ![r] = calls'[r]] /\ events' = [events EXCEPT ![r] = events'[r]]
      /\ pc' = pc \/ pc' = [pc EXCEPT ![r] = "answered"]
  BY <1>1 DEF Break, Raise, Recorded, IInv, Shape
<1>4. pc'[r] \in {"running", "answered"}
  BY <1>1, <1>3 DEF IInv, Shape
<1>5. Records(pc'[r], calls'[r], events'[r])
  BY <1>2, <1>4, OverRecorded
<1> SUFFICES ASSUME NEW q \in Requests PROVE Records(pc[q], calls[q], events[q])'
  BY DEF RecInv
<1>6. q # r => calls'[q] = calls[q] /\ events'[q] = events[q] /\ pc'[q] = pc[q]
  BY <1>3 DEF IInv, Shape
<1> QED
  BY <1>5, <1>6 DEF RecInv

\* A run ends without another event.
LEMMA RecAnswer ==
  ASSUME IInv, RecInv, NEW r \in Requests, pc' = [pc EXCEPT ![r] = "answered"],
         UNCHANGED <<calls, events>>
  PROVE  RecInv'
<1>1. ASSUME NEW q \in Requests PROVE Records(pc[q], calls[q], events[q])'
  <2>1. Records(pc[q], calls[q], events[q]) /\ calls'[q] = calls[q] /\ events'[q] = events[q]
    BY DEF RecInv
  <2>2. pc'[q] = pc[q] \/ pc'[q] = "answered"
    BY DEF IInv, Shape
  <2> QED
    BY <2>1, <2>2, OverRecorded
<1> QED
  BY <1>1 DEF RecInv

\* the process dies.
LEMMA RecCrash == ASSUME IInv, RecInv, Crash PROVE RecInv'
<1>1. ASSUME NEW q \in Requests PROVE Records(pc[q], calls[q], events[q])'
  <2>1. /\ Records(pc[q], calls[q], events[q]) /\ calls'[q] = <<>> /\ events'[q] = events[q]
        /\ pc'[q] = IF pc[q] = "running" THEN "answered" ELSE pc[q]
    BY DEF RecInv, Crash
  <2>2. pc[q] \in {"new", "running", "answered"}
    BY DEF IInv, FairTo, Fair, FairTypes
  <2>3. CASE pc[q] = "new"
    BY <2>1, <2>3 DEF Records
  <2>4. CASE pc[q] # "new"
    BY <2>1, <2>2, <2>4, OverRecorded
  <2> QED
    BY <2>3, <2>4
<1> QED
  BY <1>1 DEF RecInv

-----------------------------------------------------------------------------
(* The theorems about traces                                               *)

\* In every state a tracer has recorded the calls of its run in order: each call
\* ends at most once, and a tool only after its one start.
THEOREM InOrder == Spec => []RecInv
<1>1. Init => RecInv
  <2> SUFFICES ASSUME Init, NEW r \in Requests PROVE Records(pc[r], calls[r], events[r])
    BY DEF RecInv
  <2>1. pc[r] = "new" /\ calls[r] = <<>> /\ events[r] = <<>>
    BY DEF Init
  <2> QED
    BY <2>1 DEF Records, EndsOnce, StartsOnce
<1>2. IInv /\ RecInv /\ [Next]_vars => RecInv'
  <2> SUFFICES ASSUME IInv, RecInv, [Next]_vars PROVE RecInv'
    OBVIOUS
  <2>1. ASSUME NEW r \in Requests, Start(r) \/ Fail(r) \/ Finish(r) PROVE RecInv'
    <3>1. CASE Start(r)
      BY <3>1, RecStart
    <3>2. CASE Fail(r) \/ Finish(r)
      BY <3>2, RecAnswer DEF Fail, Raise, Finish
    <3> QED
      BY <2>1, <3>1, <3>2
  <2>2. CASE UNCHANGED vars
    BY <2>2 DEF vars, RecInv
  <2> QED
    BY <2>1, <2>2, RecBegin, RecBody, RecEnd, RecBreak, RecCrash DEF Next
<1> QED
  BY <1>1, <1>2, Invariance, PTL DEF Spec

\* Of a request the types that the lemmas about traces ask for.
LEMMA Recording ==
  ASSUME IInv, RecInv, NEW r \in Requests
  PROVE  /\ 1..MaxCalls[r] \in SUBSET (Nat \ {None}) /\ MaxCalls[r] \in Nat
         /\ events[r] \in Seq(Events(1..MaxCalls[r]))
         /\ Records(pc[r], calls[r], events[r]) /\ EndsOnce(events[r]) /\ StartsOnce(events[r])
         /\ Shows(api_trace(events[r]), events[r], Len(events[r]))
         /\ Pairs(api_trace(events[r]), events[r], Len(events[r]))
<1>1. /\ MaxCalls[r] \in Nat /\ events[r] \in Seq(Events(1..MaxCalls[r]))
      /\ Records(pc[r], calls[r], events[r])
  BY AssistConstants DEF IInv, FairTo, Fair, FairTypes, RecInv
<1>2. 1..MaxCalls[r] \in SUBSET (Nat \ {None})
  BY <1>1 DEF None
<1>3. EndsOnce(events[r]) /\ StartsOnce(events[r])
  BY <1>1 DEF Records
<1> QED
  BY <1>1, <1>2, <1>3, TraceHolds

\* However calls overlap, the output of every call that ended is in the trace of
\* the answer once: none is lost and none is shown twice (tracing.py:64-86).
THEOREM OutputsShown == Spec => []OutputsShownOnce
<1>1. ASSUME IInv, RecInv, NEW r \in Requests, NEW c \in 1..MaxCalls[r], Ended(events[r], c)
      PROVE  \E k \in DOMAIN api_trace(events[r]) :
               /\ api_trace(events[r])[k].output = c
               /\ \A l \in DOMAIN api_trace(events[r]) : api_trace(events[r])[l].output = c => l = k
  <2> DEFINE s == api_trace(events[r])
             ev == events[r]
  <2>1. /\ Shows(s, ev, Len(ev)) /\ MaxCalls[r] \in Nat /\ DOMAIN ev = 1..Len(ev)
        /\ 1..MaxCalls[r] \in SUBSET (Nat \ {None})
    BY <1>1, Recording
  <2>2. c # None
    BY <2>1
  <2>3. PICK m \in 1..Len(ev) : ev[m].call = c /\ ev[m].event \in Outcomes
    BY <1>1, <2>1 DEF Ended
  <2> HIDE DEF s, ev
  <2>4. s \in Seq(TraceStep) /\ DOMAIN s = 1..Len(s)
    BY <2>1 DEF Shows
  <2>5. PICK k \in 1..Len(s) : s[k].output = c
    BY <2>1, <2>3 DEF Shows
  <2>6. \A l \in 1..Len(s) : s[l].output = c => l = k
    BY <2>1, <2>2, <2>5 DEF Shows
  <2> QED
    BY <2>4, <2>5, <2>6 DEF s
<1>2. IInv /\ RecInv => OutputsShownOnce
  BY <1>1 DEF OutputsShownOnce, Traced
<1> QED
  BY <1>2, Invariance, InOrder, PTL

\* In the trace of an answer a tool that ran alone is shown with its own output,
\* although ends are paired with starts by position (tracing.py:78-80).
THEOREM LoneToolShown == Spec => []LoneToolKeepsItsOutput
<1>1. ASSUME IInv, RecInv, NEW r \in Requests, NEW k \in DOMAIN api_trace(events[r]),
             api_trace(events[r])[k].step = "tool",
             Alone(events[r], api_trace(events[r])[k].input)
      PROVE  api_trace(events[r])[k].output = api_trace(events[r])[k].input
  <2> DEFINE s == api_trace(events[r])
             ev == events[r]
  <2>1. /\ Shows(s, ev, Len(ev)) /\ Pairs(s, ev, Len(ev))
        /\ StartsOnce(ev) /\ Records(pc[r], calls[r], ev) /\ ev \in Seq(Events(1..MaxCalls[r]))
    BY <1>1, Recording
  <2> DEFINE c == s[k].input
  <2>2. PICK a, b \in DOMAIN ev :
          /\ ev[a] = [event |-> "tool_start", call |-> c]
          /\ ev[b] = [event |-> "tool_end", call |-> c]
          /\ \A n \in (a + 1)..(b - 1) : ev[n].event \in {"chat_model_start", "llm_end"}
    BY <1>1 DEF Alone
  <2>3. s[k].step = "tool"
    BY <1>1
  <2> HIDE DEF s, ev, c
  <2>4. s \in Seq(TraceStep) /\ k \in 1..Len(s) /\ Len(ev) \in Nat /\ DOMAIN ev = 1..Len(ev)
    BY <1>1, <2>1 DEF Shows, s
  <2>5. /\ ev[a].event = "tool_start" /\ ev[a].call = c
        /\ ev[b].event = "tool_end" /\ ev[b].call = c
        /\ a \in 1..Len(ev) /\ b \in 1..Len(ev)
    BY <2>2, <2>4
  <2>6. PICK m \in 1..Len(ev) : m < b /\ ev[m].event = "tool_start" /\ ev[m].call = c
    BY <2>1, <2>5 DEF Records
  <2>7. m = a
    BY <2>1, <2>5, <2>6 DEF StartsOnce
  <2>8. Lone(ev, a, b) /\ b \in Nat /\ Len(ev) >= b /\ ev[a].call = c
    BY <2>2, <2>4, <2>5, <2>6, <2>7 DEF Lone
  <2>9. PICK j \in 1..Len(s) : s[j].step = "tool" /\ s[j].input = c /\ s[j].output = c
    BY <2>1, <2>5, <2>8 DEF Pairs
  <2>10. j = k
    BY <2>1, <2>3, <2>4, <2>9 DEF Pairs, c
  <2> QED
    BY <2>9, <2>10 DEF s, c
<1>2. IInv /\ RecInv => LoneToolKeepsItsOutput
  BY <1>1 DEF LoneToolKeepsItsOutput, Traced
<1> QED
  BY <1>2, Invariance, InOrder, PTL
=============================================================================

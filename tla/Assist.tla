------------------------------- MODULE Assist ------------------------------
(***************************************************************************)
(* POST /query of src/src/api.py: the supervisor run of one request        *)
(* (run_via_supervisor, src/src/pipeline.py), the three protected tools of *)
(* src/src/agents.py, which hand their structured results back through the *)
(* process-wide dict _assist_results, keyed by the request's id, and the   *)
(* trace the request's callbacks record (Tracing).                         *)
(*                                                                         *)
(* All requests share one event loop.  A run makes model calls and tool    *)
(* calls; the calls a model asks for at once run at the same time, and a   *)
(* tool may call the model itself.  Callbacks run in executor threads, so  *)
(* the loop is free between the start of a tool, its body and its end; the *)
(* body of a protected tool has no await and is atomic, and so is          *)
(* everything after the supervisor has returned.  When a call raises the   *)
(* run ends, and calls it made at the same time are left to themselves.    *)
(* The database files survive a crash, the dict and the runs do not.       *)
(***************************************************************************)
EXTENDS Tracing

CONSTANTS
  Requests,    \* requests of /query, each used once
  Operations,  \* the protected tools, named for what they do
  Tokens,      \* [Requests -> SUBSET {"missing", "invalid", "ok"}]: headers
  AuditFails,  \* TRUE: the insert of an audit row may fail (and is swallowed)
  MaxCalls,    \* [Requests -> Nat]: bound on the calls of a run
  MaxCrashes   \* bound on process crashes

Headers == {"missing", "invalid", "ok"}

ASSUME AssistConstants ==
  /\ Operations \subseteq {"draft", "validate", "search"}
  /\ Tokens \in [Requests -> SUBSET Headers]
  /\ AuditFails \in BOOLEAN
  /\ MaxCalls \in [Requests -> Nat] /\ MaxCrashes \in Nat

\* What a run calls: a protected tool, a tool of another agent, or the model.
Tools == Operations \cup {"knowledge"}
Callable == Tools \cup {"model"}

\* How the pipeline function behind generate_sql_draft, validate_user_sql or
\* search_operational_candidates can end.
Statuses == {"done", "failed"}
Work == [op : Operations, status : Statuses]

\* The contents of a dict entry: the work's result, or the refusal.
Protected == [protected : {TRUE}, work : Work]
Refused == [protected |-> FALSE]
Nothing == [protected |-> FALSE, empty |-> TRUE]
Entry == Protected \cup {Refused}

VARIABLES
  token,          \* [Requests -> Headers]: the header of the request
  assist_results, \* [Requests -> Entry or Nothing]: _assist_results
  pc,             \* [Requests -> {"new", "running", "answered"}]
  calls,          \* [Requests -> Seq(Call)]: the calls of the run
  events,         \* [Requests -> Seq(event)]: FileTracer.events up to the answer
  performed,      \* history: [Requests -> Seq(Work)]: work done by tool calls
  reply,          \* [Requests -> Reply]: what the client gets
  audit,          \* rows of audit_log, as <<request, action, status>>
  crashes

vars == <<token, assist_results, pc, calls, events, performed, reply, audit, crashes>>

\* The body of a protected tool has "ran", or ran "late", when the run was over.
Call == [op : Callable, at : {"open", "ran", "late", "over"}]

Kinds == {"none", "knowledge", "refused", "error", "lost", "result"}
Reply == [kind : Kinds, work : {{}} \cup {{w} : w \in Work}]
Plain(kind) == [kind |-> kind, work |-> {}]

Init ==
  /\ token \in {t \in [Requests -> Headers] : \A r \in Requests : t[r] \in Tokens[r]}
  /\ assist_results = [r \in Requests |-> Nothing]
  /\ pc = [r \in Requests |-> "new"]
  /\ calls = [r \in Requests |-> <<>>]
  /\ events = [r \in Requests |-> <<>>]
  /\ performed = [r \in Requests |-> <<>>]
  /\ reply = [r \in Requests |-> Plain("none")]
  /\ audit = {}
  /\ crashes = 0

\* A request arrives.  With a token header it gets a request id and is given
\* to the supervisor; without one run_query serves it, whose diagnosis may
\* call the supervisor too, in a context that has no id and no token.
Start(r) ==
  /\ pc[r] = "new"
  /\ pc' = [pc EXCEPT ![r] = "running"]
  /\ UNCHANGED <<token, assist_results, calls, events, performed, reply, audit, crashes>>

HasRequestId(r) == token[r] # "missing"

ResultKey_shared(r) == CHOOSE q \in Requests : TRUE

\* The key of the dict: the request id (a new uuid4 per request) that the
\* context variable carries into the tool's task.
ResultKey(r) == r

Stored(r, entry) ==
  IF HasRequestId(r) THEN [assist_results EXCEPT ![ResultKey(r)] = entry]
  ELSE assist_results

\* check_approver_token, asked by the tool before it does anything.
Allowed(r) == token[r] = "ok"

\* The tracer of the request records an event of its call i.
Recorded(r, event, i) ==
  events' = [events EXCEPT ![r] = Append(@, [event |-> event, call |-> i])]

Reaches(r, i, stage) == calls' = [calls EXCEPT ![r][i].at = stage]

\* A model call begins, or a tool call the model has asked for.
Begin(r, op) ==
  /\ pc[r] = "running"
  /\ Len(calls[r]) < MaxCalls[r]
  /\ calls' = [calls EXCEPT ![r] = Append(@, [op |-> op, at |-> "open"])]
  /\ Recorded(r, IF op = "model" THEN "chat_model_start" ELSE "tool_start", Len(calls[r]) + 1)
  /\ UNCHANGED <<token, assist_results, pc, performed, reply, audit, crashes>>

\* The body of a protected tool.  Not allowed: the refusal is stored.
\* Allowed: the pipeline function runs to its end and its result is stored,
\* over that of an earlier call in the same run.  A task that was left behind
\* has the id and the token of its request still.
Body(r, i) ==
  /\ calls[r][i].op \in Operations /\ calls[r][i].at = "open"
  /\ Reaches(r, i, IF pc[r] = "running" THEN "ran" ELSE "late")
  /\ \/ /\ ~Allowed(r)
        /\ assist_results' = Stored(r, Refused)
        /\ UNCHANGED performed
     \/ /\ Allowed(r)
        /\ \E st \in Statuses :
             LET w == [op |-> calls[r][i].op, status |-> st] IN
             /\ performed' = [performed EXCEPT ![r] = Append(@, w)]
             /\ assist_results' = Stored(r, [protected |-> TRUE, work |-> w])
  /\ UNCHANGED <<token, pc, events, reply, audit, crashes>>

\* A call ends well.
End(r, i) ==
  /\ pc[r] = "running"
  /\ calls[r][i].at = IF calls[r][i].op \in Operations THEN "ran" ELSE "open"
  /\ Reaches(r, i, "over")
  /\ Recorded(r, IF calls[r][i].op = "model" THEN "llm_end" ELSE "tool_end", i)
  /\ UNCHANGED <<token, assist_results, pc, performed, reply, audit, crashes>>

Popped_never(r) == assist_results

\* The finally clause: _assist_results.pop(request_id, None).
Popped(r) ==
  IF HasRequestId(r) THEN [assist_results EXCEPT ![ResultKey(r)] = Nothing]
  ELSE assist_results

\* ainvoke raises: status "error", without an audit row.
Raise(r) ==
  /\ reply' = [reply EXCEPT ![r] = Plain("error")]
  /\ assist_results' = Popped(r)
  /\ pc' = [pc EXCEPT ![r] = "answered"]

\* A call raises: the arguments of a tool are refused, its body or the model
\* fails.  The tracer has no handler for a failed model call.  The agent turns
\* the exception into a message for its model, or the run ends with it.
Break(r, i) ==
  /\ pc[r] = "running"
  /\ calls[r][i].at = "open"
  /\ Reaches(r, i, "over")
  /\ IF calls[r][i].op = "model" THEN UNCHANGED events ELSE Recorded(r, "tool_error", i)
  /\ Raise(r) \/ UNCHANGED <<assist_results, pc, reply>>
  /\ UNCHANGED <<token, performed, audit, crashes>>

Idle(r) == \A i \in DOMAIN calls[r] : calls[r][i].at = "over"

\* The supervisor itself cannot be built, or its graph reaches the limit of
\* its steps.
Fail(r) ==
  /\ pc[r] = "running" /\ Idle(r)
  /\ Raise(r)
  /\ UNCHANGED <<token, calls, events, performed, audit, crashes>>

Row_no_default(r, w) == <<r, IF w.status = "done" THEN w.op ELSE "", w.status>>

Row_always_done(r, w) == <<r, w.op, "done">>

\* action = mode or "protected_agent" (a failed result carries no mode).
Row(r, w) == <<r, IF w.status = "done" THEN w.op ELSE "protected_agent", w.status>>

\* The supervisor returns.  No entry: its text is the answer.  A refusal:
\* 401/403.  A result of protected work: the audit row, then the result.
Finish(r) ==
  /\ pc[r] = "running" /\ Idle(r)
  /\ LET entry == IF HasRequestId(r) THEN assist_results[ResultKey(r)] ELSE Nothing IN
       \/ /\ entry = Nothing
          /\ reply' = [reply EXCEPT ![r] = Plain("knowledge")]
          /\ UNCHANGED audit
       \/ /\ entry = Refused
          /\ reply' = [reply EXCEPT ![r] = Plain("refused")]
          /\ UNCHANGED audit
       \/ /\ entry.protected
          /\ reply' = [reply EXCEPT ![r] = [kind |-> "result", work |-> {entry.work}]]
          /\ \/ audit' = audit \cup {Row(r, entry.work)}
             \/ AuditFails /\ UNCHANGED audit
  /\ assist_results' = Popped(r)
  /\ pc' = [pc EXCEPT ![r] = "answered"]
  /\ UNCHANGED <<token, calls, events, performed, crashes>>

\* The process dies and is restarted: the dict, the runs and the calls that
\* were left behind are gone.
Crash ==
  /\ crashes < MaxCrashes
  /\ \E r \in Requests : pc[r] = "running"
  /\ assist_results' = [r \in Requests |-> Nothing]
  /\ pc' = [r \in Requests |-> IF pc[r] = "running" THEN "answered" ELSE pc[r]]
  /\ reply' = [r \in Requests |-> IF pc[r] = "running" THEN Plain("lost") ELSE reply[r]]
  /\ calls' = [r \in Requests |-> <<>>]
  /\ crashes' = crashes + 1
  /\ UNCHANGED <<token, events, performed, audit>>

Next ==
  \/ \E r \in Requests :
       \/ Start(r) \/ Fail(r) \/ Finish(r)
       \/ \E op \in Callable : Begin(r, op)
       \/ \E i \in DOMAIN calls[r] : Body(r, i) \/ End(r, i) \/ Break(r, i)
  \/ Crash

Spec == Init /\ [][Next]_vars

-----------------------------------------------------------------------------
(* Properties                                                              *)

\* All state stays within its types.
TypeOK ==
  /\ token \in [Requests -> Headers]
  /\ assist_results \in [Requests -> Entry \cup {Nothing}]
  /\ pc \in [Requests -> {"new", "running", "answered"}]
  /\ calls \in [Requests -> Seq(Call)]
  /\ \A r \in Requests : Len(calls[r]) <= MaxCalls[r]
  /\ \A r \in Requests : events[r] \in Seq(Events(1..MaxCalls[r]))
  /\ performed \in [Requests -> Seq(Work)]
  /\ reply \in [Requests -> Reply]
  /\ audit \subseteq Requests \X (Operations \cup {"protected_agent"}) \X Statuses
  /\ crashes \in 0..MaxCrashes

\* The dict holds nothing for a request that is over, whichever way it ended
\* and whatever the other requests did meanwhile (pipeline.py:152), with one
\* exception: a protected tool that was still to run when another call of the
\* same run raised stores its result after the pop, and that entry stays.
NoLeak ==
  \A r \in Requests : assist_results[r] # Nothing =>
    pc[r] = "running" \/ \E i \in DOMAIN calls[r] : calls[r][i].at = "late"

\* What a client gets is about its own request: a result is that of the last
\* protected work this very run did, and a run that answers with plain text or
\* with 401/403 has done none, so that neither answer hides a side effect.
AnswerIsOwn ==
  \A r \in Requests :
    /\ reply[r].kind = "result" =>
         performed[r] # <<>> /\ reply[r].work = {performed[r][Len(performed[r])]}
    /\ reply[r].kind \in {"knowledge", "refused"} => performed[r] = <<>>

\* The audit trail does not invent: a request has at most one row, and its row
\* is of work the request did and of the result its client got.
AuditIsTrue ==
  \A row \in audit :
    /\ reply[row[1]].kind = "result"
    /\ \A w \in reply[row[1]].work :
         row[3] = w.status /\ row[2] \in {w.op, "protected_agent"}
    /\ \A other \in audit : other[1] = row[1] => other = row

\* The answers that carry the request's own trace.
Traced == {r \in Requests : reply[r].kind \in {"knowledge", "error"}}

\* In the trace of an answer a tool that ran alone is shown with its own output,
\* however many tools ran, failed or overlapped before and after it, although
\* ends are paired with starts by position (tracing.py:78-80).
LoneToolKeepsItsOutput ==
  \A r \in Traced : LET steps == api_trace(events[r]) IN
    \A k \in DOMAIN steps :
      steps[k].step = "tool" /\ Alone(events[r], steps[k].input)
        => steps[k].output = steps[k].input

\* However calls overlap, the output of every call that ended is in the trace of
\* the answer once: none is lost and none is shown twice (tracing.py:64-86).
OutputsShownOnce ==
  \A r \in Traced : LET steps == api_trace(events[r]) IN
    \A c \in 1..MaxCalls[r] : Ended(events[r], c) =>
      \E k \in DOMAIN steps : /\ steps[k].output = c
                             /\ \A l \in DOMAIN steps : steps[l].output = c => l = k
=============================================================================

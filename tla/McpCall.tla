------------------------------ MODULE McpCall ------------------------------
(***************************************************************************)
(* What request handlers wait for: calls of the model, through the client  *)
(* of src/src/common.py that falls back from one model to the next, and    *)
(* calls of the SQLcl MCP server, through _run_async_in_new_thread of      *)
(* src/src/tools.py.  An MCP call starts a worker thread that runs the     *)
(* conversation with asyncio.run, waits for its future with a timeout and  *)
(* then leaves the executor's `with` block, which joins the worker thread. *)
(*                                                                         *)
(* The `async def` endpoints make both calls on the event loop thread      *)
(* itself, so for as long as they last no other request of the process is  *)
(* started, not even one whose handler would run elsewhere.  Graph nodes   *)
(* that are plain functions make them in the threads of the loop's default *)
(* executor, a pool of fixed size.  The model client is one object that    *)
(* all of them share.                                                      *)
(***************************************************************************)
EXTENDS Naturals, Sequences, FiniteSets, Functions

CONSTANTS
  OnLoop,     \* requests whose calls are made on the event loop thread
  InThread,   \* requests whose calls are made in an executor thread
  Strict,     \* those of run_user_sql: no fallback, a failure is an error
  Asking,     \* requests that call the model before the MCP server
  Swallows,   \* those whose model call may fail: the guard, the plan
  Primary,    \* MODEL_ID
  Fallbacks,  \* FALLBACK_MODEL_IDS
  PoolSize    \* threads of the default executor

Requests == OnLoop \cup InThread

Models == {Primary} \cup Range(Fallbacks)

Idle == "idle"

ASSUME RequestsOK ==
  /\ OnLoop \cap InThread = {}
  /\ Idle \notin Requests
  /\ Strict \subseteq Requests
  /\ Asking \subseteq Requests /\ Swallows \subseteq Asking
  /\ PoolSize \in Nat \ {0}

\* The list has no model twice and may hold the primary.
ASSUME FallbacksOK ==
  /\ Fallbacks \in Seq(Models)
  /\ \A m, n \in DOMAIN Fallbacks : Fallbacks[m] = Fallbacks[n] => m = n

VARIABLES
  ready,    \* Seq(Requests): the event loop's queue of requests to start
  loop,     \* the request that occupies the event loop, or Idle
  queue,    \* Seq(InThread): the executor's queue of nodes to run
  pc,       \* [Requests -> ...]: where the handler is
  model_id, \* the model id of the shared client
  todo,     \* [Requests -> Seq(Models)]: candidates a call has still to try
  tried,    \* history: [Requests -> Seq(Models)]: models it has asked, forgotten
            \* when the handler goes on to its MCP call
  ended,    \* [Requests -> ...]: how a model call ended the request
  worker,   \* [Requests -> ...]: its worker thread
  got,      \* [Requests -> ...]: what future.result() gave the handler
  answer    \* [Requests -> ...]: what the request is answered with

models == <<model_id, todo, tried, ended>>
vars == <<ready, loop, queue, pc, models, worker, got, answer>>

Init ==
  /\ ready = <<>>
  /\ loop = Idle
  /\ queue = <<>>
  /\ pc = [r \in Requests |-> "new"]
  /\ model_id = Primary
  /\ todo = [r \in Requests |-> <<>>]
  /\ tried = [r \in Requests |-> <<>>]
  /\ ended = [r \in Requests |-> "none"]
  /\ worker = [r \in Requests |-> "none"]
  /\ got = [r \in Requests |-> "none"]
  /\ answer = [r \in Requests |-> "none"]

\* A request reaches the server and waits for its turn on the event loop.
Arrive(r) ==
  /\ pc[r] = "new"
  /\ ready' = Append(ready, r)
  /\ pc' = [pc EXCEPT ![r] = "ready"]
  /\ UNCHANGED <<loop, queue, models, worker, got, answer>>

HoldsLoop_always(r) == TRUE

\* A call made from a coroutine runs on the event loop's own thread.
HoldsLoop(r) == r \in OnLoop

\* The fallback models other than the given one, in their order.
Others(id) ==
  LET others[n \in 0..Len(Fallbacks)] ==
        IF n = 0 THEN <<>>
        ELSE IF Fallbacks[n] = id THEN others[n - 1]
        ELSE Append(others[n - 1], Fallbacks[n])
  IN  others[Len(Fallbacks)]

\* _candidate_model_ids: the client's model, then the others.
Candidates == <<model_id>> \o Others(model_id)

\* The executor is created and the conversation submitted to its one thread.
Connect(r) ==
  /\ worker' = [worker EXCEPT ![r] = "running"]
  /\ pc' = [pc EXCEPT ![r] = "waiting"]

\* The handler runs up to its first call, of the model or of the MCP server.
Enter(r) ==
  IF r \in Asking
  THEN /\ pc' = [pc EXCEPT ![r] = "model"]
       /\ todo' = [todo EXCEPT ![r] = Candidates]
       /\ UNCHANGED worker
  ELSE Connect(r) /\ UNCHANGED todo

\* The event loop starts the next request.  A handler on the loop thread keeps
\* the loop until it returns; a node is handed to the executor.
Dispatch(r) ==
  /\ loop = Idle
  /\ ready # <<>> /\ Head(ready) = r
  /\ ready' = Tail(ready)
  /\ IF HoldsLoop(r)
     THEN loop' = r /\ Enter(r) /\ UNCHANGED queue
     ELSE /\ queue' = Append(queue, r)
          /\ pc' = [pc EXCEPT ![r] = "queued"]
          /\ UNCHANGED <<loop, todo, worker>>
  /\ UNCHANGED <<model_id, tried, ended, got, answer>>

Busy == {"model", "waiting", "closing"}
PoolBusy == {r \in InThread : pc[r] \in Busy}

\* An executor thread takes the next node.
TakeNode(r) ==
  /\ queue # <<>> /\ Head(queue) = r
  /\ Cardinality(PoolBusy) < PoolSize
  /\ queue' = Tail(queue)
  /\ Enter(r)
  /\ UNCHANGED <<ready, loop, model_id, tried, ended, got, answer>>

-----------------------------------------------------------------------------
(* The model call: MultiModelChatBedrockConverse._generate                 *)

ModelIdAfter_in_place(m) == m

\* model_copy: an attempt with another model leaves the shared client as it is.
ModelIdAfter(m) == model_id

LoopAfter_kept(r) == loop

\* A handler that returns gives the loop back.
LoopAfter(r) == IF loop = r THEN Idle ELSE loop

\* How an attempt ends.  The last three are worth a try with another model.
Attempts == {"answered", "failed", "throttled", "unavailable", "timeout"}
IsThrottling(end) == end \in {"throttled", "unavailable", "timeout"}

\* The next candidate is asked.  It answers; or it is throttled, and the one
\* after it, if any, is asked next; or it fails, which ends the call at once.
\* A call that fails is swallowed by its handler or ends the request.
AskModel(r) ==
  /\ pc[r] = "model"
  /\ model_id' = ModelIdAfter(Head(todo[r]))
  /\ \E end \in Attempts :
       IF IsThrottling(end) /\ Tail(todo[r]) # <<>>
       THEN /\ todo' = [todo EXCEPT ![r] = Tail(@)]
            /\ tried' = [tried EXCEPT ![r] = Append(@, Head(todo[r]))]
            /\ UNCHANGED <<loop, pc, ended, worker, answer>>
       ELSE /\ todo' = [todo EXCEPT ![r] = <<>>]
            /\ IF end = "answered" \/ r \in Swallows
               THEN /\ Connect(r)
                    /\ tried' = [tried EXCEPT ![r] = <<>>]
                    /\ UNCHANGED <<loop, ended, answer>>
               ELSE /\ pc' = [pc EXCEPT ![r] = "answered"]
                    /\ tried' = [tried EXCEPT ![r] = Append(@, Head(todo[r]))]
                    /\ ended' = [ended EXCEPT ![r] = IF IsThrottling(end) THEN "exhausted" ELSE "failed"]
                    /\ answer' = [answer EXCEPT ![r] = "error"]
                    /\ loop' = LoopAfter(r)
                    /\ UNCHANGED worker
  /\ UNCHANGED <<ready, queue, got>>

-----------------------------------------------------------------------------
(* The MCP call: _run_async_in_new_thread                                  *)

\* asyncio.run(coro) in the worker: the conversation ends with a plan or with
\* an exception.
WorkerEnds(r) ==
  /\ worker[r] = "running"
  /\ \E end \in {"result", "raised"} : worker' = [worker EXCEPT ![r] = end]
  /\ UNCHANGED <<ready, loop, queue, pc, models, got, answer>>

\* The MCP server stops answering for good.
WorkerHangs(r) ==
  /\ worker[r] = "running"
  /\ worker' = [worker EXCEPT ![r] = "silent"]
  /\ UNCHANGED <<ready, loop, queue, pc, models, got, answer>>

\* future.result(timeout) returns or raises as the worker did.
Finish(r) ==
  /\ pc[r] = "waiting"
  /\ worker[r] \in {"result", "raised"}
  /\ got' = [got EXCEPT ![r] = worker[r]]
  /\ pc' = [pc EXCEPT ![r] = "closing"]
  /\ UNCHANGED <<ready, loop, queue, models, worker, answer>>

\* future.result(timeout) raises TimeoutError first.
Timeout(r) ==
  /\ pc[r] = "waiting"
  /\ worker[r] \in {"running", "silent"}
  /\ got' = [got EXCEPT ![r] = "timeout"]
  /\ pc' = [pc EXCEPT ![r] = "closing"]
  /\ UNCHANGED <<ready, loop, queue, models, worker, answer>>

Joined_never(r) == TRUE

\* ThreadPoolExecutor.__exit__ is shutdown(wait=True): it joins the worker.
Joined(r) == worker[r] \in {"result", "raised"}

\* The caller's except clause: the mock plan, the fixed catalogue or a text
\* in place of the result; run_user_sql's caller reports an error instead.
AnswerOf(r) ==
  IF got[r] = "result" THEN "result"
  ELSE IF r \in Strict THEN "error" ELSE "fallback"

\* The `with` block is left and the request answered.
Return(r) ==
  /\ pc[r] = "closing"
  /\ Joined(r)
  /\ answer' = [answer EXCEPT ![r] = AnswerOf(r)]
  /\ loop' = LoopAfter(r)
  /\ pc' = [pc EXCEPT ![r] = "answered"]
  /\ UNCHANGED <<ready, queue, models, worker, got>>

Next ==
  \E r \in Requests :
    \/ Arrive(r) \/ Dispatch(r) \/ TakeNode(r) \/ AskModel(r)
    \/ WorkerEnds(r) \/ WorkerHangs(r) \/ Finish(r) \/ Timeout(r) \/ Return(r)

\* The loop, the executor, the handlers and the clocks go on; an attempt with a
\* model ends, since the client has a timeout; a worker that is running ends or
\* goes silent.
Fairness ==
  \A r \in Requests :
    /\ WF_vars(Dispatch(r))
    /\ WF_vars(TakeNode(r))
    /\ WF_vars(AskModel(r))
    /\ WF_vars(WorkerEnds(r))
    /\ WF_vars(Finish(r) \/ Timeout(r))
    /\ WF_vars(Return(r))

Spec == Init /\ [][Next]_vars /\ Fairness

-----------------------------------------------------------------------------
(* Properties                                                              *)

\* All state stays within its types.
TypeOK ==
  /\ ready \in Seq(Requests)
  /\ loop \in OnLoop \cup {Idle}
  /\ queue \in Seq(InThread)
  /\ pc \in [Requests -> {"new", "ready", "queued", "answered"} \cup Busy]
  /\ model_id \in Models
  /\ todo \in [Requests -> Seq(Models)]
  /\ \A r \in Requests : todo[r] # <<>> <=> pc[r] = "model"
  /\ tried \in [Requests -> Seq(Models)]
  /\ ended \in [Requests -> {"none", "exhausted", "failed"}]
  /\ worker \in [Requests -> {"none", "running", "result", "raised", "silent"}]
  /\ got \in [Requests -> {"none", "result", "raised", "timeout"}]
  /\ answer \in [Requests -> {"none", "result", "fallback", "error"}]

\* The order in which every call tries the models.
Chain == <<Primary>> \o Others(Primary)

\* Whatever other calls the shared client serves at the same time, a call asks
\* the primary model first and then the others in the order of the list, each
\* once, and fails for throttling only when it has asked them all
\* (common.py:74-75, 80-100).
FallbackInOrder ==
  \A r \in Requests :
    /\ Len(tried[r]) <= Len(Chain)
    /\ tried[r] \o todo[r] = SubSeq(Chain, 1, Len(tried[r]) + Len(todo[r]))
    /\ pc[r] = "model" => Len(tried[r]) + Len(todo[r]) = Len(Chain)
    /\ ended[r] = "exhausted" => tried[r] = Chain

\* Every MCP call starts a thread and an SQLcl conversation of its own, and one
\* that has timed out cannot be stopped.  What bounds how many are open at once
\* is that a call gives its own thread back only when its conversation is over:
\* at most one per executor thread and one on the loop (tools.py:138-140).
Open == {r \in Requests : worker[r] \in {"running", "silent"}}
ConversationsAreBounded == Cardinality(Open) <= PoolSize + 1

Silent == {r \in Requests : worker[r] = "silent"}

\* A conversation that never ends harms only its own request, unless it is held
\* on the loop or fills the executor: as long as neither happens, every request
\* that has arrived is answered or hangs itself, however many
\* models are throttled.
NoSharedThreadHangs ==
  [](Silent \cap OnLoop = {} /\ Cardinality(Silent \cap InThread) < PoolSize)
EveryRequestAnswered ==
  NoSharedThreadHangs =>
    \A r \in Requests : pc[r] = "ready" ~> (pc[r] = "answered" \/ worker[r] = "silent")

\* tools.py:136-137: the timeout keeps the request path from waiting without
\* end.  Whatever the MCP server does, a request that waits for it would then
\* be answered.
TimeoutBoundsTheWait ==
  \A r \in Requests : pc[r] = "waiting" ~> pc[r] = "answered"
=============================================================================

------------------------------ MODULE Tracing ------------------------------
(***************************************************************************)
(* FileTracer of src/src/tracing.py: the events of one request, in the     *)
(* order in which its callbacks recorded them, and api_trace, which turns  *)
(* them into the steps of the answer's trace field.                        *)
(*                                                                         *)
(* An event carries the call it is about (its run_id); api_trace does not  *)
(* look at it: it pairs an end with a start by position alone.  Times,     *)
(* token counts and texts are left out, so the input and the output of a   *)
(* step are the calls they come from.                                      *)
(***************************************************************************)
EXTENDS Naturals, Sequences

Starts == {"chat_model_start", "tool_start"}
Outcomes == {"llm_end", "tool_end", "tool_error"}
Events(calls) == [event : Starts \cup Outcomes, call : calls]

None == 0
StepOf(step, input, output) == [step |-> step, input |-> input, output |-> output]

OpenTools(steps) == {k \in DOMAIN steps : steps[k].step = "tool" /\ steps[k].output = None}
LatestOf(S) == CHOOSE k \in S : \A l \in S : l <= k

ToolEnd_oldest(steps, c) ==
  IF OpenTools(steps) = {} THEN Append(steps, StepOf("tool_end", None, c))
  ELSE [steps EXCEPT ![CHOOSE k \in OpenTools(steps) : \A l \in OpenTools(steps) : k <= l].output = c]

ToolEnd_overwrites(steps, c) ==
  LET tools == {k \in DOMAIN steps : steps[k].step = "tool"} IN
  IF tools = {} THEN Append(steps, StepOf("tool_end", None, c))
  ELSE [steps EXCEPT ![LatestOf(tools)].output = c]

\* The latest tool step without an output gets this one; without such a step
\* the output becomes a step of its own.
ToolEnd(steps, c) ==
  IF OpenTools(steps) = {} THEN Append(steps, StepOf("tool_end", None, c))
  ELSE [steps EXCEPT ![LatestOf(OpenTools(steps))].output = c]

\* The last step gets the output if it is a model call that has none yet.
ModelEnd(steps, c) ==
  IF steps # <<>> /\ steps[Len(steps)].step = "llm_call" /\ steps[Len(steps)].output = None
  THEN [steps EXCEPT ![Len(steps)].output = c]
  ELSE Append(steps, StepOf("llm_call", None, c))

\* One event of the loop.  An error leaves the step of its tool open.
Advance(steps, e) ==
  CASE e.event = "chat_model_start" -> Append(steps, StepOf("llm_call", None, None))
    [] e.event = "llm_end" -> ModelEnd(steps, e.call)
    [] e.event = "tool_start" -> Append(steps, StepOf("tool", e.call, None))
    [] e.event = "tool_end" -> ToolEnd(steps, e.call)
    [] e.event = "tool_error" -> Append(steps, StepOf("tool_error", None, e.call))

api_trace(events) ==
  LET steps[n \in 0..Len(events)] ==
        IF n = 0 THEN <<>> ELSE Advance(steps[n - 1], events[n])
  IN steps[Len(events)]

-----------------------------------------------------------------------------
(* What a trace can be held to                                             *)

Ended(events, c) == \E n \in DOMAIN events : events[n].call = c /\ events[n].event \in Outcomes

\* The tool call c ended well, and from its start to its end no other tool
\* began or ended.
Alone(events, c) ==
  \E s, e \in DOMAIN events :
    /\ events[s] = [event |-> "tool_start", call |-> c]
    /\ events[e] = [event |-> "tool_end", call |-> c]
    /\ \A n \in (s + 1)..(e - 1) : events[n].event \in {"chat_model_start", "llm_end"}
=============================================================================

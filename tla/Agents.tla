------------------------------- MODULE Agents ------------------------------
(***************************************************************************)
(* A conversation of the supervisor with the agents of src/src/agents.py,  *)
(* and what the caller reads out of its messages (src/src/common.py,       *)
(* src/src/pipeline.py).                                                   *)
(*                                                                         *)
(* The supervisor hands the question to one agent after another and may    *)
(* add words of its own at the end.  The supervisor library keeps an       *)
(* agent's tool calls to itself: the supervisor sees a notice of the       *)
(* handoff, the agent's last message and a notice of the way back          *)
(* (agents.py:75-77, common.py:129-131).                                   *)
(***************************************************************************)
EXTENDS Naturals, Sequences, SequencesExt

AgentNames == {"query_planner", "sql_validator", "candidate_search", "explain", "knowledge", "general"}

CONSTANT Staff  \* the agents a conversation may involve

ASSUME StaffOK == Staff \subseteq AgentNames

\* The agents with OutputCheckMiddleware; the others mask what they are asked
\* instead of what they say.
Checked == {"knowledge", "general"}

\* What somebody says is told apart by who says it and by what a filter looks
\* for: personal data, or a forbidden topic.
Marks == {"pii", "topic"}
Speech(by, marks) == [by |-> by, marks |-> marks]
Silence == Speech("nobody", {})
Says(by) == {Silence} \cup {Speech(by, marks) : marks \in SUBSET Marks}

\* OutputCheckMiddleware.after_model: personal data is masked; only a text
\* without any is looked at for a forbidden topic, and replaced as a whole.
OutputCheck(agent, speech) ==
  IF agent \notin Checked \/ speech = Silence THEN speech
  ELSE IF "pii" \in speech.marks THEN Speech(agent, speech.marks \ {"pii"})
  ELSE Speech(agent, {})

\* A round: the supervisor calls an agent, with or without words beside the
\* call, and the agent's model ends with words or without.
Round == UNION {[agent : {a}, aside : {Silence, Speech("supervisor", {})}, says : Says(a)] : a \in Staff}

\* A whole conversation, of at most n rounds.
Talks(n) == [rounds : SeqOf(Round, n), closing : Says("supervisor")]

Message(type, speech, calls, back) ==
  [type |-> type, speech |-> speech, calls |-> calls, back |-> back]
Notice == Speech("notice", {})

RoundMessages(d) ==
  << Message("ai", d.aside, TRUE, FALSE), Message("tool", Notice, FALSE, FALSE),
     Message("ai", OutputCheck(d.agent, d.says), FALSE, FALSE),
     Message("ai", Notice, TRUE, TRUE), Message("tool", Notice, FALSE, FALSE) >>

\* result["messages"] of the supervisor.
Messages(talk) ==
  <<Message("human", Speech("user", Marks), FALSE, FALSE)>>
    \o FlattenSeq([k \in DOMAIN talk.rounds |-> RoundMessages(talk.rounds[k])])
    \o <<Message("ai", talk.closing, FALSE, FALSE)>>

LastText_with_calls(messages) ==
  LET last == SelectLastInSeq(messages, LAMBDA m :
                m.type = "ai" /\ ~m.back /\ m.speech # Silence)
  IN IF last = 0 THEN Silence ELSE messages[last].speech

\* last_nonempty_text: from the end, the first words of a model that come with
\* no tool call and are no notice of the way back.
LastText(messages) ==
  LET last == SelectLastInSeq(messages, LAMBDA m :
                m.type = "ai" /\ ~m.calls /\ ~m.back /\ m.speech # Silence)
  IN IF last = 0 THEN Silence ELSE messages[last].speech

\* _tool_message_contexts: the texts of the tool messages it is given.
Contexts(messages) == {messages[k].speech.by : k \in {j \in DOMAIN messages : messages[j].type = "tool"}}

-----------------------------------------------------------------------------
(* What an answer can be held to                                           *)

\* The last words of a conversation: the supervisor's own at the end, or those
\* of the last agent that had any left after the check of its output.
LastWords(talk) ==
  LET said == [k \in DOMAIN talk.rounds |-> OutputCheck(talk.rounds[k].agent, talk.rounds[k].says)]
      spoken == {k \in DOMAIN said : said[k] # Silence}
  IN IF talk.closing # Silence THEN talk.closing
     ELSE IF spoken = {} THEN Silence
     ELSE said[CHOOSE k \in spoken : \A l \in spoken : l <= k]
=============================================================================

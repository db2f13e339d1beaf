--------------------------- MODULE McpCall_proofs --------------------------
(***************************************************************************)
(* Proofs about McpCall for any requests, any list of fallback models and  *)
(* any size of the executor: no more conversations are open than the       *)
(* executor has threads, and one (ConversationsAreBounded); and whatever   *)
(* other calls the shared client serves, each of them asks the models in   *)
(* the order of the list (FallbackInOrder).                                *)
(*                                                                         *)
(* The first property is inductive together with what ties conversations   *)
(* to threads: each queue holds requests that wait in it, each of them     *)
(* once (QueueInv), so that no request is started twice; a conversation    *)
(* exists from the wait on and not before, and is over when its request is *)
(* answered (StageInv, EndedInv); and whoever is between the two holds the *)
(* loop or one of the executor's threads (ThreadInv).                      *)
(*                                                                         *)
(* The second is inductive together with what a call has still to ask      *)
(* (OnChain). The list of candidates is computed by recursion over the     *)
(* fallback models; that it has each model once is shown by induction on   *)
(* their number, with NatSets.                                             *)
(***************************************************************************)
EXTENDS McpCall, WellFoundedInduction, SequenceTheorems, FiniteSetTheorems, TLAPS

-----------------------------------------------------------------------------
(* The inductive invariant                                                 *)

\* The part of the type invariant the argument needs.
CallTypes ==
  /\ pc \in [Requests -> {"new", "ready", "queued", "answered"} \cup Busy]
  /\ worker \in [Requests -> {"none", "running", "result", "raised", "silent"}]
  /\ got \in [Requests -> {"none", "result", "raised", "timeout"}]
  /\ answer \in [Requests -> {"none", "result", "fallback", "error"}]

\* A queue holds requests of the given stage, each once.
Waits(s, stage) ==
  /\ s \in Seq(Requests)
  /\ \A n \in 1..Len(s) : pc[s[n]] = stage
  /\ \A m, n \in 1..Len(s) : s[m] = s[n] => m = n

QueueInv == Waits(ready, "ready") /\ Waits(queue, "queued")

\* A request has a worker while it waits for it and not before.
StageInv ==
  \A r \in Requests :
    /\ pc[r] \in {"new", "ready", "queued", "model"} => worker[r] = "none"
    /\ pc[r] \in {"waiting", "closing"} => worker[r] # "none"

\* The conversation of a request that is answered is over.
EndedInv ==
  \A r \in Requests : pc[r] = "answered" => worker[r] \notin {"running", "silent"}

LInv == CallTypes /\ QueueInv /\ StageInv /\ EndedInv

-----------------------------------------------------------------------------
(* The queues                                                              *)

\* A request of another stage joins the queue.
LEMMA Joins ==
  ASSUME NEW s, NEW stage, NEW r \in Requests, Waits(s, stage), pc[r] # stage,
         CallTypes, stage \in {"ready", "queued"}, pc' = [pc EXCEPT ![r] = stage]
  PROVE  /\ Append(s, r) \in Seq(Requests)
         /\ \A n \in 1..Len(Append(s, r)) : pc'[Append(s, r)[n]] = stage
         /\ \A m, n \in 1..Len(Append(s, r)) : Append(s, r)[m] = Append(s, r)[n] => m = n
<1> DEFINE t == Append(s, r)
<1>1. s \in Seq(Requests) /\ t \in Seq(Requests) /\ Len(t) = Len(s) + 1
  BY DEF Waits
<1>2. t[Len(s) + 1] = r /\ \A n \in 1..Len(s) : t[n] = s[n] /\ s[n] # r /\ s[n] \in Requests
  BY <1>1 DEF Waits
<1> HIDE DEF t
<1>3. \A n \in 1..Len(t) : n \in 1..Len(s) \/ n = Len(s) + 1
  BY <1>1
<1>4. \A n \in 1..Len(t) : pc'[t[n]] = stage
  BY <1>2, <1>3 DEF Waits, CallTypes
<1>5. \A m, n \in 1..Len(t) : t[m] = t[n] => m = n
  BY <1>2, <1>3 DEF Waits
<1> QED
  BY <1>1, <1>4, <1>5 DEF t

\* The head of the queue leaves it for another stage.
LEMMA Leaves ==
  ASSUME NEW s, NEW stage, Waits(s, stage), s # <<>>, CallTypes,
         NEW other, pc' = [pc EXCEPT ![Head(s)] = other], NEW t, t = Tail(s)
  PROVE  /\ t \in Seq(Requests)
         /\ \A n \in 1..Len(t) : pc'[t[n]] = stage
         /\ \A m, n \in 1..Len(t) : t[m] = t[n] => m = n
<1>1. s \in Seq(Requests) /\ t \in Seq(Requests) /\ Len(t) = Len(s) - 1 /\ Len(s) \in Nat \ {0}
  BY DEF Waits
<1>2. Head(s) = s[1] /\ \A n \in 1..Len(t) : t[n] = s[n + 1] /\ n + 1 \in 1..Len(s)
  BY <1>1
<1>3. \A n \in 1..Len(t) : t[n] # Head(s) /\ t[n] \in Requests /\ pc[t[n]] = stage
  <2> SUFFICES ASSUME NEW n \in 1..Len(t) PROVE t[n] # Head(s) /\ t[n] \in Requests /\ pc[t[n]] = stage
    OBVIOUS
  <2>1. n + 1 # 1 /\ n + 1 \in 1..Len(s) /\ 1 \in 1..Len(s)
    BY <1>1, <1>2
  <2> QED
    BY <1>1, <1>2, <2>1 DEF Waits
<1>4. \A n \in 1..Len(t) : pc'[t[n]] = stage
  BY <1>3 DEF CallTypes
<1>5. \A m, n \in 1..Len(t) : t[m] = t[n] => m = n
  <2> SUFFICES ASSUME NEW m \in 1..Len(t), NEW n \in 1..Len(t), t[m] = t[n] PROVE m = n
    OBVIOUS
  <2>1. m + 1 = n + 1
    BY <1>2 DEF Waits
  <2> QED
    BY <1>1, <2>1
<1> QED
  BY <1>1, <1>4, <1>5

\* A request that is in no queue moves among the stages without one.
LEMMA Elsewhere ==
  ASSUME NEW s, NEW stage, Waits(s, stage), CallTypes,
         NEW r \in Requests, pc[r] # stage, NEW other, pc' = [pc EXCEPT ![r] = other],
         NEW t, t = s
  PROVE  /\ t \in Seq(Requests)
         /\ \A n \in 1..Len(t) : pc'[t[n]] = stage
         /\ \A m, n \in 1..Len(t) : t[m] = t[n] => m = n
<1>1. \A n \in 1..Len(s) : s[n] \in Requests
  BY DEF Waits
<1> QED
  BY <1>1 DEF Waits, CallTypes

-----------------------------------------------------------------------------
(* The steps                                                               *)

\* At the start no queue has a request and no request a conversation.
LEMMA InitStep == ASSUME Init PROVE LInv
<1>1. Waits(ready, "ready") /\ Waits(queue, "queued")
  BY DEF Init, Waits
<1> QED
  BY <1>1 DEF Init, LInv, CallTypes, QueueInv, StageInv, EndedInv, Busy

\* A request before its MCP call goes on to a stage before it, or begins it.
LEMMA BeforeStep ==
  ASSUME NEW r \in Requests, LInv, pc[r] \in {"new", "ready", "queued", "model"},
         \/ /\ \E stage \in {"ready", "queued", "model"} : pc' = [pc EXCEPT ![r] = stage]
            /\ UNCHANGED worker
         \/ Connect(r),
         UNCHANGED <<got, answer>>
  PROVE  CallTypes' /\ StageInv' /\ EndedInv'
<1>1. CallTypes'
  BY DEF LInv, CallTypes, Connect, Busy
<1>2. StageInv'
  BY DEF LInv, CallTypes, StageInv, Connect
<1>3. EndedInv'
  BY DEF LInv, CallTypes, StageInv, EndedInv, Connect
<1> QED
  BY <1>1, <1>2, <1>3

\* The loop's queue takes a new request, which was in none.
LEMMA ArriveStep == ASSUME NEW r \in Requests, LInv, Arrive(r) PROVE LInv'
<1>1. CallTypes' /\ StageInv' /\ EndedInv'
  BY BeforeStep DEF Arrive
<1>2. Waits(ready, "ready")'
  <2>1. Waits(ready, "ready") /\ CallTypes
    BY DEF LInv, QueueInv
  <2>2. pc[r] # "ready" /\ ready' = Append(ready, r) /\ pc' = [pc EXCEPT ![r] = "ready"]
    BY DEF Arrive
  <2>3. /\ ready' \in Seq(Requests) /\ \A n \in 1..Len(ready') : pc'[ready'[n]] = "ready"
        /\ \A m, n \in 1..Len(ready') : ready'[m] = ready'[n] => m = n
    BY <2>1, <2>2, Joins
  <2> QED
    BY <2>3 DEF Waits
<1>3. Waits(queue, "queued")'
  BY Elsewhere DEF LInv, QueueInv, Arrive, Waits
<1> QED
  BY <1>1, <1>2, <1>3 DEF LInv, QueueInv

\* What Enter and the hand-over to the executor do to the stage of a request.
LEMMA EnterStage ==
  ASSUME NEW r \in Requests, Enter(r)
  PROVE  /\ \E stage \in {"model", "waiting"} : pc' = [pc EXCEPT ![r] = stage]
         /\ \/ /\ \E stage \in {"ready", "queued", "model"} : pc' = [pc EXCEPT ![r] = stage]
               /\ UNCHANGED worker
            \/ Connect(r)
BY DEF Enter, Connect

\* The request leaves the loop's queue, for the executor's or for its first call.
LEMMA DispatchStep == ASSUME NEW r \in Requests, LInv, Dispatch(r) PROVE LInv'
<1>1. ready # <<>> /\ r = Head(ready) /\ ready' = Tail(ready) /\ UNCHANGED <<got, answer>>
  BY DEF Dispatch
<1>2. pc[r] = "ready"
  <2>1. ready \in Seq(Requests) /\ 1 \in 1..Len(ready) /\ r = ready[1]
    BY <1>1 DEF LInv, QueueInv, Waits
  <2> QED
    BY <2>1 DEF LInv, QueueInv, Waits
<1>3. CASE HoldsLoop(r)
  <2>1. Enter(r) /\ UNCHANGED queue
    BY <1>3 DEF Dispatch
  <2>2. CallTypes' /\ StageInv' /\ EndedInv'
    BY <1>1, <1>2, <2>1, EnterStage, BeforeStep
  <2>3. PICK stage \in {"model", "waiting"} : pc' = [pc EXCEPT ![r] = stage]
    BY <2>1, EnterStage
  <2>4. Waits(ready, "ready")'
    BY <1>1, <2>3, Leaves DEF LInv, QueueInv, Waits
  <2>5. Waits(queue, "queued")'
    BY <1>2, <2>1, <2>3, Elsewhere DEF LInv, QueueInv, Waits
  <2> QED
    BY <2>2, <2>4, <2>5 DEF LInv, QueueInv
<1>4. CASE ~HoldsLoop(r)
  <2>1. queue' = Append(queue, r) /\ pc' = [pc EXCEPT ![r] = "queued"] /\ UNCHANGED worker
    BY <1>4 DEF Dispatch
  <2>2. CallTypes' /\ StageInv' /\ EndedInv'
    BY <1>1, <1>2, <2>1, BeforeStep
  <2>3. Waits(ready, "ready")'
    BY <1>1, <2>1, Leaves DEF LInv, QueueInv, Waits
  <2>4. Waits(queue, "queued")'
    <3>1. Waits(queue, "queued") /\ CallTypes /\ pc[r] # "queued"
      BY <1>2 DEF LInv, QueueInv
    <3>2. /\ queue' \in Seq(Requests) /\ \A n \in 1..Len(queue') : pc'[queue'[n]] = "queued"
          /\ \A m, n \in 1..Len(queue') : queue'[m] = queue'[n] => m = n
      BY <2>1, <3>1, Joins
    <3> QED
      BY <3>2 DEF Waits
  <2> QED
    BY <2>2, <2>3, <2>4 DEF LInv, QueueInv
<1> QED
  BY <1>3, <1>4

\* The request leaves the executor's queue for its first call.
LEMMA TakeNodeStep == ASSUME NEW r \in Requests, LInv, TakeNode(r) PROVE LInv'
<1>1. /\ queue # <<>> /\ r = Head(queue) /\ queue' = Tail(queue) /\ Enter(r)
      /\ UNCHANGED <<ready, got, answer>>
  BY DEF TakeNode
<1>2. pc[r] = "queued"
  <2>1. queue \in Seq(Requests) /\ 1 \in 1..Len(queue) /\ r = queue[1]
    BY <1>1 DEF LInv, QueueInv, Waits
  <2> QED
    BY <2>1 DEF LInv, QueueInv, Waits
<1>3. CallTypes' /\ StageInv' /\ EndedInv'
  BY <1>1, <1>2, EnterStage, BeforeStep
<1>4. PICK stage \in {"model", "waiting"} : pc' = [pc EXCEPT ![r] = stage]
  BY <1>1, EnterStage
<1>5. Waits(queue, "queued")'
  BY <1>1, <1>4, Leaves DEF LInv, QueueInv, Waits
<1>6. Waits(ready, "ready")'
  BY <1>1, <1>2, <1>4, Elsewhere DEF LInv, QueueInv, Waits
<1> QED
  BY <1>3, <1>5, <1>6 DEF LInv, QueueInv

\* A step that is not about a queue, by a request that is in none.
LEMMA QueuesStay ==
  ASSUME NEW r \in Requests, LInv, pc[r] \notin {"ready", "queued"},
         \E stage \in {"model", "waiting", "closing", "answered"} : pc' = [pc EXCEPT ![r] = stage],
         UNCHANGED <<ready, queue>>
  PROVE  QueueInv'
<1>1. PICK stage \in {"model", "waiting", "closing", "answered"} : pc' = [pc EXCEPT ![r] = stage]
  OBVIOUS
<1>2. Waits(ready, "ready")'
  BY <1>1, Elsewhere DEF LInv, QueueInv, Waits
<1>3. Waits(queue, "queued")'
  BY <1>1, Elsewhere DEF LInv, QueueInv, Waits
<1> QED
  BY <1>2, <1>3 DEF QueueInv

\* A request that fails at its model call is answered without a conversation.
LEMMA AskModelStep == ASSUME NEW r \in Requests, LInv, AskModel(r) PROVE LInv'
<1>1. pc[r] = "model" /\ worker[r] = "none" /\ UNCHANGED <<ready, queue, got>>
  BY DEF AskModel, LInv, StageInv
<1>2. CASE UNCHANGED <<pc, worker, answer>>
  BY <1>1, <1>2 DEF LInv, CallTypes, QueueInv, Waits, StageInv, EndedInv
<1>3. CASE Connect(r) /\ UNCHANGED answer
  <2>1. CallTypes' /\ StageInv' /\ EndedInv'
    BY <1>1, <1>3, BeforeStep
  <2>2. QueueInv'
    BY <1>1, <1>3, QueuesStay DEF Connect
  <2> QED
    BY <2>1, <2>2 DEF LInv
<1>4. CASE /\ pc' = [pc EXCEPT ![r] = "answered"] /\ answer' = [answer EXCEPT ![r] = "error"]
           /\ UNCHANGED worker
  <2>1. QueueInv'
    BY <1>1, <1>4, QueuesStay
  <2>2. CallTypes' /\ StageInv' /\ EndedInv'
    BY <1>1, <1>4 DEF LInv, CallTypes, StageInv, EndedInv
  <2> QED
    BY <2>1, <2>2 DEF LInv
<1> QED
  BY <1>2, <1>3, <1>4 DEF AskModel

\* The worker ends or goes silent; nobody who is answered has one that runs.
LEMMA WorkerStep ==
  ASSUME NEW r \in Requests, LInv, WorkerEnds(r) \/ WorkerHangs(r) PROVE LInv'
<1>1. /\ worker[r] = "running" /\ UNCHANGED <<ready, queue, pc, got, answer>>
      /\ \E end \in {"result", "raised", "silent"} : worker' = [worker EXCEPT ![r] = end]
  BY DEF WorkerEnds, WorkerHangs
<1>2. pc[r] # "answered"
  BY <1>1 DEF LInv, EndedInv
<1>3. CallTypes' /\ StageInv' /\ QueueInv'
  BY <1>1 DEF LInv, CallTypes, StageInv, QueueInv, Waits
<1>4. EndedInv'
  BY <1>1, <1>2 DEF LInv, CallTypes, EndedInv
<1> QED
  BY <1>3, <1>4 DEF LInv

\* The wait ends, with what the worker made or with the timeout.
LEMMA WaitStep == ASSUME NEW r \in Requests, LInv, Finish(r) \/ Timeout(r) PROVE LInv'
<1>1. /\ pc[r] = "waiting" /\ pc' = [pc EXCEPT ![r] = "closing"]
      /\ \E g \in {"result", "raised", "timeout"} : got' = [got EXCEPT ![r] = g]
      /\ UNCHANGED <<ready, queue, worker, answer>>
  BY DEF Finish, Timeout
<1>2. QueueInv'
  BY <1>1, QueuesStay
<1>3. CallTypes' /\ StageInv' /\ EndedInv'
  BY <1>1 DEF LInv, CallTypes, StageInv, EndedInv, Busy
<1> QED
  BY <1>2, <1>3 DEF LInv

\* The answer goes by what the wait gave, and the worker has been joined.
LEMMA ReturnStep == ASSUME NEW r \in Requests, LInv, Return(r) PROVE LInv'
<1>1. /\ pc[r] = "closing" /\ pc' = [pc EXCEPT ![r] = "answered"]
      /\ answer' = [answer EXCEPT ![r] = AnswerOf(r)] /\ worker[r] \in {"result", "raised"}
      /\ UNCHANGED <<ready, queue, worker, got>>
  BY DEF Return, Joined
<1>2. QueueInv'
  BY <1>1, QueuesStay
<1>3. CallTypes' /\ StageInv'
  BY <1>1 DEF LInv, CallTypes, StageInv, AnswerOf
<1>4. EndedInv'
  BY <1>1 DEF LInv, CallTypes, EndedInv, AnswerOf
<1> QED
  BY <1>2, <1>3, <1>4 DEF LInv

\* Every step keeps the queues, the stages and what is answered.
LEMMA NextStep == LInv /\ [Next]_vars => LInv'
<1> SUFFICES ASSUME LInv, [Next]_vars PROVE LInv'
  OBVIOUS
<1>1. ASSUME NEW r \in Requests, Arrive(r) \/ Dispatch(r) \/ TakeNode(r) \/ AskModel(r)
      PROVE  LInv'
  BY <1>1, ArriveStep, DispatchStep, TakeNodeStep, AskModelStep
<1>2. ASSUME NEW r \in Requests,
             WorkerEnds(r) \/ WorkerHangs(r) \/ Finish(r) \/ Timeout(r) \/ Return(r)
      PROVE  LInv'
  BY <1>2, WorkerStep, WaitStep, ReturnStep
<1>3. CASE UNCHANGED vars
  BY <1>3 DEF vars, LInv, CallTypes, QueueInv, Waits, StageInv, EndedInv
<1> QED
  BY <1>1, <1>2, <1>3 DEF Next

-----------------------------------------------------------------------------
(* The list of candidates                                                  *)

\* Induction over the naturals, by the least number outside T.
LEMMA NatSets ==
  ASSUME NEW T \in SUBSET Nat, 0 \in T, \A n \in T : n + 1 \in T
  PROVE  T = Nat
<1>1. SUFFICES ASSUME Nat \ T # {} PROVE FALSE
  OBVIOUS
<1>2. IsWellFoundedOn(OpToRel(<, Nat), Nat)
  BY NatLessThanWellFounded
<1>3. PICK x \in Nat \ T : \A y \in Nat \ T : ~(<<y, x>> \in OpToRel(<, Nat))
  <2>1. Nat \ T \subseteq Nat
    OBVIOUS
  <2> QED  BY <1>1, <1>2, <2>1, WFMin
<1>4. \A y \in Nat \ T : ~(y < x)
  BY <1>3 DEF OpToRel
<1>5. x - 1 \in Nat \ T
  BY <1>4
<1> QED  BY <1>4, <1>5

\* One more fallback model, unless it is the given one.
More(id, s, m) == IF m = id THEN s ELSE Append(s, m)

\* s lists the models of M, each once.
Lists(s, M) ==
  /\ s \in Seq(M)
  /\ \A m \in M : \E n \in 1..Len(s) : s[n] = m
  /\ \A m, n \in 1..Len(s) : s[m] = s[n] => m = n

\* The fallback models up to the n-th, without the given one.
FirstOthers(id, n) == {Fallbacks[k] : k \in 1..n} \ {id}

\* With one more model, the list is of one more model.
LEMMA MoreLists ==
  ASSUME NEW id, NEW s, NEW n \in 0..(Len(Fallbacks) - 1), Lists(s, FirstOthers(id, n))
  PROVE  Lists(More(id, s, Fallbacks[n + 1]), FirstOthers(id, n + 1))
<1> DEFINE m == Fallbacks[n + 1]
           old == FirstOthers(id, n)
           new == FirstOthers(id, n + 1)
<1>0. Len(Fallbacks) \in Nat
  BY FallbacksOK
<1>1. \A k \in 1..n : Fallbacks[k] # m
  BY FallbacksOK, <1>0
<1>2. m = id => new = old
  BY <1>0 DEF FirstOthers
<1>3. m # id => new = old \cup {m} /\ m \notin old
  <2>1. ASSUME m # id PROVE m \in new /\ old \subseteq new /\ new \subseteq old \cup {m}
    <3>1. {Fallbacks[k] : k \in 1..(n + 1)} = {Fallbacks[k] : k \in 1..n} \cup {m}
      BY <1>0
    <3> QED  BY <2>1, <3>1 DEF FirstOthers
  <2>2. m \notin old
    BY <1>1 DEF FirstOthers
  <2> QED  BY <2>1, <2>2
<1> HIDE DEF m, old, new
<1>4. CASE m = id
  BY <1>2, <1>4 DEF m, old, new, More
<1>5. CASE m # id
  <2> DEFINE t == Append(s, m)
  <2>1. new = old \cup {m} /\ m \notin old /\ Lists(s, old)
    BY <1>3, <1>5 DEF old
  <2>2. s \in Seq(old) /\ Len(s) \in Nat /\ s \in Seq(new) /\ t \in Seq(new) /\ Len(t) = Len(s) + 1
    BY <2>1 DEF Lists
  <2>3. t[Len(s) + 1] = m /\ \A k \in 1..Len(s) : t[k] = s[k] /\ s[k] \in old
    BY <2>2
  <2> HIDE DEF t
  <2>4. \A x \in new : \E k \in 1..Len(t) : t[k] = x
    <3>1. \A x \in old : \E k \in 1..Len(s) : t[k] = x
      BY <2>1, <2>3 DEF Lists
    <3>2. 1..Len(s) \subseteq 1..Len(t) /\ Len(s) + 1 \in 1..Len(t)
      BY <2>2
    <3>3. ASSUME NEW x \in old PROVE \E k \in 1..Len(t) : t[k] = x
      BY <3>1, <3>2
    <3> QED  BY <2>1, <2>3, <3>2, <3>3
  <2>5. ASSUME NEW j \in 1..Len(t), NEW k \in 1..Len(t), t[j] = t[k] PROVE j = k
    <3>1. \A x \in 1..Len(t) : x \in 1..Len(s) \/ x = Len(s) + 1
      BY <2>2
    <3> QED  BY <2>1, <2>2, <2>3, <2>5, <3>1 DEF Lists
  <2>6. Lists(t, new)
    BY <2>2, <2>4, <2>5 DEF Lists
  <2> QED  BY <1>5, <2>6 DEF t, m, new, More
<1> QED  BY <1>4, <1>5

\* The function Others is read from, up to N.
Builds(f, id, N) ==
  /\ DOMAIN f = 0..N
  /\ f[0] = <<>>
  /\ \A n \in 0..(N - 1) : f[n + 1] = More(id, f[n], Fallbacks[n + 1])
  /\ \A n \in 0..N : Lists(f[n], FirstOthers(id, n))

\* There is such a function up to the last model: it is built up one by one.
LEMMA Buildable ==
  ASSUME NEW id
  PROVE  \E f : Builds(f, id, Len(Fallbacks))
<1> DEFINE L == Len(Fallbacks)
           T == {N \in Nat : N <= L => \E f : Builds(f, id, N)}
<1>0. L \in Nat
  BY FallbacksOK
<1>1. 0 \in T
  <2>1. Lists(<<>>, FirstOthers(id, 0))
    BY DEF Lists, FirstOthers
  <2> DEFINE f == [n \in 0..0 |-> <<>>]
  <2>2. Builds(f, id, 0)
    BY <2>1 DEF Builds
  <2> QED  BY <2>2
<1>2. ASSUME NEW N \in T PROVE N + 1 \in T
  <2>1. SUFFICES ASSUME N + 1 <= L PROVE \E g : Builds(g, id, N + 1)
    OBVIOUS
  <2>2. PICK f : Builds(f, id, N)
    BY <1>0, <2>1
  <2> DEFINE g == [n \in 0..(N + 1) |-> IF n = N + 1 THEN More(id, f[N], Fallbacks[N + 1]) ELSE f[n]]
  <2>3. N \in Nat /\ N \in 0..(L - 1) /\ N \in 0..N
    BY <1>0, <2>1
  <2>4. Lists(f[N], FirstOthers(id, N))
    BY <2>2, <2>3 DEF Builds
  <2>5. Lists(g[N + 1], FirstOthers(id, N + 1))
    BY <2>3, <2>4, MoreLists
  <2>6. \A n \in 0..N : g[n] = f[n]
    BY <2>3
  <2>7. g[N + 1] = More(id, g[N], Fallbacks[N + 1]) /\ DOMAIN g = 0..(N + 1)
    BY <2>3
  <2> HIDE DEF g
  <2>8. \A n \in 0..(N + 1) : n \in 0..N \/ n = N + 1
    BY <2>3
  <2>9. \A n \in 0..N : (n \in 0..(N - 1) /\ n + 1 \in 0..N) \/ n = N
    BY <2>3
  <2>10. \A n \in 0..N : g[n + 1] = More(id, g[n], Fallbacks[n + 1])
    BY <2>2, <2>6, <2>7, <2>9 DEF Builds
  <2>11. \A n \in 0..(N + 1) : Lists(g[n], FirstOthers(id, n))
    BY <2>2, <2>5, <2>6, <2>8 DEF Builds
  <2>12. N + 1 - 1 = N
    BY <2>3
  <2>13. g[0] = <<>>
    BY <2>2, <2>3, <2>6 DEF Builds
  <2>14. Builds(g, id, N + 1)
    BY <2>7, <2>10, <2>11, <2>12, <2>13 DEF Builds
  <2> QED  BY <2>14
<1>3. T \in SUBSET Nat
  OBVIOUS
<1> HIDE DEF T
<1>4. T = Nat
  BY <1>1, <1>2, <1>3, NatSets
<1> QED  BY <1>0, <1>4 DEF T

\* Others lists the fallback models but the given one, each once.
LEMMA OthersAreListed ==
  ASSUME NEW id
  PROVE  Lists(Others(id), Range(Fallbacks) \ {id})
<1> DEFINE L == Len(Fallbacks)
           Next1(h, n) == IF n = 0 THEN <<>>
                          ELSE IF Fallbacks[n] = id THEN h[n - 1]
                          ELSE Append(h[n - 1], Fallbacks[n])
           o == CHOOSE h : h = [n \in 0..L |-> Next1(h, n)]
<1>0. L \in Nat /\ DOMAIN Fallbacks = 1..L
  BY FallbacksOK
<1>1. PICK f : Builds(f, id, L)
  BY Buildable
<1> DEFINE e == [n \in 0..L |-> f[n]]
<1>2. e = [n \in 0..L |-> Next1(e, n)]
  <2> SUFFICES ASSUME NEW n \in 0..L PROVE f[n] = Next1(e, n)
    OBVIOUS
  <2>1. CASE n = 0
    BY <1>1, <2>1 DEF Builds
  <2>2. CASE n # 0
    <3>1. n - 1 \in 0..(L - 1) /\ n - 1 \in 0..L /\ (n - 1) + 1 = n
      BY <1>0, <2>2
    <3>2. f[n] = More(id, f[n - 1], Fallbacks[n])
      BY <1>1, <3>1 DEF Builds
    <3> QED  BY <2>2, <3>1, <3>2 DEF More
  <2> QED  BY <2>1, <2>2
<1>3. o = [n \in 0..L |-> Next1(o, n)]
  BY <1>2
<1>4. Others(id) = o[L]
  BY DEF Others
<1> HIDE DEF o
<1>5. \A n \in 0..L : Lists(o[n], FirstOthers(id, n))
  <2> DEFINE T == {n \in Nat : n <= L => Lists(o[n], FirstOthers(id, n))}
  <2>1. 0 \in T
    <3>1. o[0] = <<>> /\ FirstOthers(id, 0) = {}
      BY <1>0, <1>3 DEF FirstOthers
    <3>2. Lists(o[0], FirstOthers(id, 0))
      BY <3>1 DEF Lists
    <3> QED  BY <3>2
  <2>2. ASSUME NEW n \in T PROVE n + 1 \in T
    <3>1. SUFFICES ASSUME n + 1 <= L PROVE Lists(o[n + 1], FirstOthers(id, n + 1))
      OBVIOUS
    <3>2. n \in 0..(L - 1) /\ n \in 0..L /\ n + 1 \in 0..L /\ n + 1 # 0 /\ (n + 1) - 1 = n
      BY <1>0, <3>1
    <3>3. o[n + 1] = More(id, o[n], Fallbacks[n + 1])
      BY <1>3, <3>2 DEF More
    <3>4. Lists(o[n], FirstOthers(id, n))
      BY <3>2
    <3> QED  BY <3>2, <3>3, <3>4, MoreLists
  <2>3. T \in SUBSET Nat
    OBVIOUS
  <2> HIDE DEF T
  <2>4. T = Nat
    BY <2>1, <2>2, <2>3, NatSets
  <2> QED  BY <1>0, <2>4 DEF T
<1>6. FirstOthers(id, L) = Range(Fallbacks) \ {id}
  BY <1>0 DEF FirstOthers, Range
<1>7. Lists(o[L], FirstOthers(id, L))
  BY <1>0, <1>5
<1> QED  BY <1>4, <1>6, <1>7

\* The chain lists every model once, the primary first.
LEMMA ChainListsModels == Lists(Chain, Models) /\ Len(Chain) > 0 /\ Head(Chain) = Primary
<1> DEFINE s == Others(Primary)
<1>1. Lists(s, Range(Fallbacks) \ {Primary})
  BY OthersAreListed
<1> HIDE DEF s
<1>2. s \in Seq(Models) /\ Len(s) \in Nat
  BY <1>1 DEF Lists, Models
<1>3. /\ Chain \in Seq(Models) /\ Len(Chain) = Len(s) + 1 /\ Chain[1] = Primary
      /\ \A n \in 1..Len(s) : Chain[n + 1] = s[n]
  BY <1>2 DEF Chain, Models, s
<1>4. \A n \in 1..Len(Chain) : n = 1 \/ (n - 1 \in 1..Len(s) /\ Chain[n] = s[n - 1])
  <2> SUFFICES ASSUME NEW n \in 1..Len(Chain), n # 1 PROVE n - 1 \in 1..Len(s) /\ Chain[n] = s[n - 1]
    OBVIOUS
  <2>1. n - 1 \in 1..Len(s) /\ (n - 1) + 1 = n
    BY <1>2, <1>3
  <2> QED  BY <1>3, <2>1
<1>5. \A n \in 1..Len(s) : s[n] # Primary
  BY <1>1 DEF Lists
<1>6. \A m, n \in 1..Len(Chain) : Chain[m] = Chain[n] => m = n
  <2> SUFFICES ASSUME NEW m \in 1..Len(Chain), NEW n \in 1..Len(Chain), Chain[m] = Chain[n]
               PROVE  m = n
    OBVIOUS
  <2>1. CASE m = 1 \/ n = 1
    BY <1>3, <1>4, <1>5, <2>1
  <2>2. CASE m # 1 /\ n # 1
    <3>1. m - 1 \in 1..Len(s) /\ n - 1 \in 1..Len(s) /\ s[m - 1] = s[n - 1]
      BY <1>4, <2>2
    <3>2. m - 1 = n - 1
      BY <1>1, <3>1 DEF Lists
    <3> QED  BY <1>2, <1>3, <3>2
  <2> QED  BY <2>1, <2>2
<1>7. ASSUME NEW m \in Models PROVE \E n \in 1..Len(Chain) : Chain[n] = m
  <2>1. CASE m = Primary
    BY <1>2, <1>3, <2>1
  <2>2. CASE m # Primary
    <3>1. PICK n \in 1..Len(s) : s[n] = m
      BY <1>1, <2>2 DEF Lists, Models
    <3>2. n + 1 \in 1..Len(Chain) /\ Chain[n + 1] = m
      BY <1>2, <1>3, <3>1
    <3> QED  BY <3>2
  <2> QED  BY <2>1, <2>2
<1> QED  BY <1>2, <1>3, <1>6, <1>7 DEF Lists

-----------------------------------------------------------------------------
(* Calls of the model                                                      *)

\* A call at stage p has asked a beginning of the chain, and the rest follows;
\* it has nothing left to ask, and has not failed, but at the stages for that.
OnChain(p, rest, asked, end) ==
  /\ rest \in Seq(Models) /\ asked \in Seq(Models)
  /\ end \in {"none", "exhausted", "failed"}
  /\ rest # <<>> <=> p = "model"
  /\ p \notin {"model", "answered"} => asked = <<>>
  /\ end # "none" => p = "answered"
  /\ Len(asked) + Len(rest) <= Len(Chain)
  /\ p = "model" \/ end = "exhausted" => Len(asked) + Len(rest) = Len(Chain)
  /\ \A n \in 1..Len(asked) : asked[n] = Chain[n]
  /\ \A n \in 1..Len(rest) : rest[n] = Chain[Len(asked) + n]

\* The rest of the type invariant.
ModelTypes ==
  /\ loop \in OnLoop \cup {Idle}
  /\ queue \in Seq(InThread)
  /\ todo \in [Requests -> Seq(Models)]
  /\ tried \in [Requests -> Seq(Models)]
  /\ ended \in [Requests -> {"none", "exhausted", "failed"}]

\* The shared client keeps its model, and every call is on the chain.
ModelInv ==
  /\ ModelTypes
  /\ model_id = Primary
  /\ \A r \in Requests : OnChain(pc[r], todo[r], tried[r], ended[r])

\* A call begins with the whole chain.
LEMMA Begins ==
  ASSUME NEW p, NEW rest, NEW asked, NEW end, OnChain(p, rest, asked, end),
         p \notin {"model", "answered"}
  PROVE  OnChain("model", Chain, asked, end)
<1>1. Chain \in Seq(Models) /\ Len(Chain) > 0 /\ Chain # <<>>
  BY ChainListsModels DEF Lists
<1>2. asked = <<>> /\ end = "none"
  BY DEF OnChain
<1> QED  BY <1>1, <1>2 DEF OnChain

\* A call that asks no model stays off the chain.
LEMMA PassesBy ==
  ASSUME NEW p, NEW rest, NEW asked, NEW end, OnChain(p, rest, asked, end), p # "model",
         p # "answered", NEW q, q # "model"
  PROVE  OnChain(q, rest, asked, end)
<1>1. rest = <<>> /\ asked = <<>> /\ end = "none"
  BY DEF OnChain
<1> QED  BY <1>1 DEF OnChain

\* The next model is asked: another follows, or it was the last, or its answer or
\* its failure ends the call.
LEMMA AsksNext ==
  ASSUME NEW rest, NEW asked, NEW end, OnChain("model", rest, asked, end)
  PROVE  /\ Head(rest) \in Models
         /\ Tail(rest) # <<>> => OnChain("model", Tail(rest), Append(asked, Head(rest)), end)
         /\ Tail(rest) = <<>> => OnChain("answered", <<>>, Append(asked, Head(rest)), "exhausted")
         /\ OnChain("answered", <<>>, Append(asked, Head(rest)), "failed")
         /\ OnChain("waiting", <<>>, <<>>, end)
<1> DEFINE a == Append(asked, Head(rest))
           t == Tail(rest)
<1>1. /\ rest \in Seq(Models) /\ rest # <<>> /\ asked \in Seq(Models) /\ end = "none"
      /\ Len(rest) \in Nat \ {0} /\ Len(asked) \in Nat
  BY DEF OnChain
<1>0. Len(asked) + Len(rest) = Len(Chain)
  BY DEF OnChain
<1>2. Head(rest) = rest[1] /\ Head(rest) \in Models /\ Head(rest) = Chain[Len(asked) + 1]
  BY <1>1 DEF OnChain
<1>3. a \in Seq(Models) /\ Len(a) = Len(asked) + 1 /\ a[Len(asked) + 1] = Head(rest)
      /\ \A n \in 1..Len(asked) : a[n] = asked[n]
  BY <1>1, <1>2
<1>4. t \in Seq(Models) /\ Len(t) = Len(rest) - 1 /\ \A n \in 1..Len(t) : t[n] = rest[n + 1]
  BY <1>1
<1> HIDE DEF a, t
<1>11. Len(a) \in Nat /\ Len(t) \in Nat /\ Len(a) + Len(t) = Len(Chain) /\ Len(a) <= Len(Chain)
  <2>1. Len(a) = Len(asked) + 1
    BY <1>3
  <2>2. Len(t) = Len(rest) - 1
    BY <1>4
  <2>3. Len(rest) \in Nat \ {0} /\ Len(asked) \in Nat
    BY <1>1
  <2> QED  BY ONLY <1>0, <2>1, <2>2, <2>3
<1>5. \A n \in 1..Len(a) : a[n] = Chain[n]
  <2>1. \A n \in 1..Len(a) : n \in 1..Len(asked) \/ n = Len(asked) + 1
    BY <1>1, <1>3
  <2> QED  BY <1>2, <1>3, <2>1 DEF OnChain
<1>6. \A n \in 1..Len(t) : t[n] = Chain[Len(a) + n]
  <2> SUFFICES ASSUME NEW n \in 1..Len(t) PROVE t[n] = Chain[Len(a) + n]
    OBVIOUS
  <2>1. n + 1 \in 1..Len(rest) /\ Len(asked) + (n + 1) = Len(a) + n
    BY <1>1, <1>3, <1>4
  <2> QED  BY <1>4, <2>1 DEF OnChain
<1>7. t # <<>> => OnChain("model", t, a, end)
  <2>1. t \in Seq(Models) /\ a \in Seq(Models) /\ Len(a) + Len(t) = Len(Chain)
    BY <1>3, <1>4, <1>11
  <2>2. Len(a) + Len(t) <= Len(Chain)
    BY <1>11
  <2> QED  BY <1>1, <1>5, <1>6, <2>1, <2>2 DEF OnChain
<1>8. t = <<>> => OnChain("answered", <<>>, a, "exhausted")
  <2> SUFFICES ASSUME t = <<>> PROVE OnChain("answered", <<>>, a, "exhausted")
    OBVIOUS
  <2>1. Len(t) = 0
    OBVIOUS
  <2>2. a \in Seq(Models) /\ Len(a) = Len(Chain)
    BY <1>3, <1>11, <2>1
  <2>3. Len(<<>>) = 0
    OBVIOUS
  <2> QED  BY <1>1, <1>5, <1>11, <2>2, <2>3 DEF OnChain
<1>9. OnChain("answered", <<>>, a, "failed")
  BY <1>1, <1>3, <1>5, <1>11 DEF OnChain
<1>10. OnChain("waiting", <<>>, <<>>, end)
  BY <1>1 DEF OnChain
<1> QED  BY <1>2, <1>7, <1>8, <1>9, <1>10 DEF a, t

\* What a call on the chain has done agrees with the order of the models.
LEMMA ChainTells ==
  ASSUME NEW p, NEW rest, NEW asked, NEW end, OnChain(p, rest, asked, end)
  PROVE  /\ Len(asked) <= Len(Chain)
         /\ asked \o rest = SubSeq(Chain, 1, Len(asked) + Len(rest))
         /\ p = "model" => Len(asked) + Len(rest) = Len(Chain)
         /\ end = "exhausted" => asked = Chain
<1>1. /\ rest \in Seq(Models) /\ asked \in Seq(Models) /\ Chain \in Seq(Models)
      /\ Len(asked) \in Nat /\ Len(rest) \in Nat /\ Len(Chain) \in Nat
      /\ Len(asked) + Len(rest) <= Len(Chain)
  <2>1. rest \in Seq(Models) /\ asked \in Seq(Models) /\ Len(asked) + Len(rest) <= Len(Chain)
    BY DEF OnChain
  <2>2. Chain \in Seq(Models)
    BY ChainListsModels DEF Lists
  <2> QED  BY <2>1, <2>2
<1> DEFINE s == asked \o rest
           u == SubSeq(Chain, 1, Len(asked) + Len(rest))
<1>2. s \in Seq(Models) /\ Len(s) = Len(asked) + Len(rest)
  BY <1>1
<1>3. u \in Seq(Models) /\ Len(u) = Len(asked) + Len(rest) /\ \A n \in 1..Len(u) : u[n] = Chain[n]
  BY <1>1
<1>4. ASSUME NEW n \in 1..Len(s) PROVE s[n] = Chain[n]
  <2>1. CASE n \in 1..Len(asked)
    BY <1>1, <2>1 DEF OnChain
  <2>2. CASE n \notin 1..Len(asked)
    <3>1. n - Len(asked) \in 1..Len(rest) /\ Len(asked) + (n - Len(asked)) = n
      BY <1>1, <1>2, <2>2
    <3>2. s[n] = rest[n - Len(asked)]
      BY <1>1, <1>2, <2>2
    <3> QED  BY <3>1, <3>2 DEF OnChain
  <2> QED  BY <2>1, <2>2
<1> HIDE DEF s, u
<1>5. s = u
  BY <1>2, <1>3, <1>4, SeqEqual
<1>6. end = "exhausted" => asked = Chain
  <2> SUFFICES ASSUME end = "exhausted" PROVE asked = Chain
    OBVIOUS
  <2>1. rest = <<>> /\ Len(asked) + Len(rest) = Len(Chain)
    BY DEF OnChain
  <2>2. Len(asked) = Len(Chain) /\ \A n \in 1..Len(asked) : asked[n] = Chain[n]
    BY <1>1, <2>1 DEF OnChain
  <2> QED  BY <1>1, <2>2, SeqEqual
<1> QED  BY <1>1, <1>5, <1>6 DEF OnChain, s, u

\* At the start no call has asked a model.
LEMMA InitModels == Init => ModelInv
<1> SUFFICES ASSUME Init PROVE ModelInv
  OBVIOUS
<1>1. Chain \in Seq(Models) /\ Len(Chain) \in Nat
  BY ChainListsModels DEF Lists
<1>2. OnChain("new", <<>>, <<>>, "none")
  BY <1>1 DEF OnChain
<1> QED  BY <1>2 DEF Init, ModelInv, ModelTypes

\* A step of request r, with a client that keeps its model.
LEMMA OneRequest ==
  ASSUME LInv, ModelInv, NEW r \in Requests, NEW stage, pc' = [pc EXCEPT ![r] = stage],
         ModelTypes', model_id' = model_id,
         OnChain(pc'[r], todo'[r], tried'[r], ended'[r]),
         \A q \in Requests \ {r} : todo'[q] = todo[q] /\ tried'[q] = tried[q] /\ ended'[q] = ended[q]
  PROVE  ModelInv'
<1>1. \A q \in Requests \ {r} : pc'[q] = pc[q]
  BY DEF LInv, CallTypes
<1> QED  BY <1>1 DEF ModelInv

\* The handler runs up to its first call.
LEMMA EnterModels ==
  ASSUME LInv, ModelInv, NEW r \in Requests, pc[r] \notin {"model", "answered"}, Enter(r),
         UNCHANGED <<model_id, tried, ended>>, loop' \in OnLoop \cup {Idle}, queue' \in Seq(InThread)
  PROVE  ModelInv'
<1>1. /\ OnChain(pc[r], todo[r], tried[r], ended[r])
      /\ pc \in [Requests -> {"new", "ready", "queued", "answered"} \cup Busy]
  BY DEF ModelInv, LInv, CallTypes
<1>2. Chain \in Seq(Models)
  BY ChainListsModels DEF Lists
<1>3. CASE r \in Asking
  <2>1. pc' = [pc EXCEPT ![r] = "model"] /\ todo' = [todo EXCEPT ![r] = Chain]
    BY <1>3 DEF Enter, Candidates, Chain, ModelInv
  <2>2. ModelTypes'
    BY <1>2, <2>1 DEF ModelInv, ModelTypes
  <2>3. pc'[r] = "model" /\ todo'[r] = Chain
    BY <1>1, <2>1 DEF ModelInv, ModelTypes
  <2>4. OnChain(pc'[r], todo'[r], tried'[r], ended'[r])
    BY <1>1, <2>3, Begins
  <2>5. \A q \in Requests \ {r} : todo'[q] = todo[q] /\ tried'[q] = tried[q] /\ ended'[q] = ended[q]
    BY <2>1 DEF ModelInv, ModelTypes
  <2> QED  BY <2>1, <2>2, <2>4, <2>5, OneRequest
<1>4. CASE r \notin Asking
  <2>1. pc' = [pc EXCEPT ![r] = "waiting"] /\ todo' = todo
    BY <1>4 DEF Enter, Connect
  <2>2. ModelTypes'
    BY <2>1 DEF ModelInv, ModelTypes
  <2>3. pc'[r] = "waiting"
    BY <1>1, <2>1
  <2>4. OnChain(pc'[r], todo'[r], tried'[r], ended'[r])
    BY <1>1, <2>1, <2>3, PassesBy
  <2> QED  BY <2>1, <2>2, <2>4, OneRequest
<1> QED  BY <1>3, <1>4

\* A request goes on to another stage and no call of the model is touched.
LEMMA OtherStage ==
  ASSUME LInv, ModelInv, NEW r \in Requests, pc[r] \notin {"model", "answered"},
         NEW stage, stage # "model", pc' = [pc EXCEPT ![r] = stage],
         UNCHANGED <<model_id, todo, tried, ended>>,
         loop' \in OnLoop \cup {Idle}, queue' \in Seq(InThread)
  PROVE  ModelInv'
<1>1. OnChain(pc[r], todo[r], tried[r], ended[r]) /\ pc'[r] = stage
  BY DEF ModelInv, LInv, CallTypes
<1>2. OnChain(pc'[r], todo'[r], tried'[r], ended'[r])
  BY <1>1, PassesBy
<1>3. ModelTypes'
  BY DEF ModelInv, ModelTypes
<1> QED  BY <1>2, <1>3, OneRequest

\* A call that is throttled by one model goes on with the next of the chain, with
\* the same client.
LEMMA AskModelChain ==
  ASSUME LInv, ModelInv, NEW r \in Requests, AskModel(r)
  PROVE  ModelInv'
<1> DEFINE asked == Append(tried[r], Head(todo[r]))
<1>1. /\ pc[r] = "model" /\ pc \in [Requests -> {"new", "ready", "queued", "answered"} \cup Busy]
      /\ queue' = queue /\ model_id' = model_id
  BY DEF AskModel, ModelIdAfter, LInv, CallTypes
<1>2. /\ Head(todo[r]) \in Models
      /\ Tail(todo[r]) # <<>> => OnChain("model", Tail(todo[r]), asked, ended[r])
      /\ Tail(todo[r]) = <<>> => OnChain("answered", <<>>, asked, "exhausted")
      /\ OnChain("answered", <<>>, asked, "failed")
      /\ OnChain("waiting", <<>>, <<>>, ended[r])
  BY <1>1, AsksNext DEF ModelInv
<1>3. asked \in Seq(Models) /\ <<>> \in Seq(Models)
  BY <1>2 DEF OnChain
<1> HIDE DEF asked
<1>4. PICK end \in Attempts :
        IF IsThrottling(end) /\ Tail(todo[r]) # <<>>
        THEN /\ todo' = [todo EXCEPT ![r] = Tail(@)]
             /\ tried' = [tried EXCEPT ![r] = asked]
             /\ UNCHANGED <<loop, pc, ended>>
        ELSE /\ todo' = [todo EXCEPT ![r] = <<>>]
             /\ IF end = "answered" \/ r \in Swallows
                THEN /\ pc' = [pc EXCEPT ![r] = "waiting"]
                     /\ tried' = [tried EXCEPT ![r] = <<>>]
                     /\ UNCHANGED <<loop, ended>>
                ELSE /\ pc' = [pc EXCEPT ![r] = "answered"]
                     /\ tried' = [tried EXCEPT ![r] = asked]
                     /\ ended' = [ended EXCEPT ![r] =
                                    IF IsThrottling(end) THEN "exhausted" ELSE "failed"]
                     /\ loop' \in {loop, Idle}
  BY DEF AskModel, Connect, LoopAfter, asked
<1>5. CASE IsThrottling(end) /\ Tail(todo[r]) # <<>>
  <2>1. pc' = [pc EXCEPT ![r] = "model"]
    BY <1>1, <1>4, <1>5
  <2>2. ModelTypes'
    <3>1. Tail(todo[r]) \in Seq(Models)
      BY <1>2, <1>5 DEF OnChain
    <3>2. /\ todo' = [todo EXCEPT ![r] = Tail(todo[r])] /\ tried' = [tried EXCEPT ![r] = asked]
          /\ UNCHANGED <<loop, ended>>
      BY <1>4, <1>5
    <3> QED  BY <1>1, <1>3, <3>1, <3>2 DEF ModelInv, ModelTypes
  <2>3. OnChain(pc'[r], todo'[r], tried'[r], ended'[r])
    BY <1>1, <1>2, <1>4, <1>5 DEF ModelInv, ModelTypes
  <2>4. \A q \in Requests \ {r} : todo'[q] = todo[q] /\ tried'[q] = tried[q] /\ ended'[q] = ended[q]
    BY <1>4, <1>5 DEF ModelInv, ModelTypes
  <2> QED  BY <1>1, <2>1, <2>2, <2>3, <2>4, OneRequest
<1>6. CASE ~(IsThrottling(end) /\ Tail(todo[r]) # <<>>) /\ (end = "answered" \/ r \in Swallows)
  <2>1. /\ todo' = [todo EXCEPT ![r] = <<>>] /\ pc' = [pc EXCEPT ![r] = "waiting"]
        /\ tried' = [tried EXCEPT ![r] = <<>>] /\ UNCHANGED <<loop, ended>>
    BY <1>4, <1>6
  <2>2. ModelTypes'
    BY <1>1, <1>3, <2>1 DEF ModelInv, ModelTypes
  <2>3. OnChain(pc'[r], todo'[r], tried'[r], ended'[r])
    BY <1>1, <1>2, <2>1 DEF ModelInv, ModelTypes
  <2>4. \A q \in Requests \ {r} : todo'[q] = todo[q] /\ tried'[q] = tried[q] /\ ended'[q] = ended[q]
    BY <2>1 DEF ModelInv, ModelTypes
  <2> QED  BY <1>1, <2>1, <2>2, <2>3, <2>4, OneRequest
<1>7. CASE ~(IsThrottling(end) /\ Tail(todo[r]) # <<>>) /\ ~(end = "answered" \/ r \in Swallows)
  <2> DEFINE how == IF IsThrottling(end) THEN "exhausted" ELSE "failed"
  <2>1. /\ todo' = [todo EXCEPT ![r] = <<>>] /\ pc' = [pc EXCEPT ![r] = "answered"]
        /\ tried' = [tried EXCEPT ![r] = asked] /\ ended' = [ended EXCEPT ![r] = how]
        /\ loop' \in {loop, Idle}
    BY <1>4, <1>7
  <2>2. OnChain("answered", <<>>, asked, how)
    BY <1>2, <1>7
  <2>3. how \in {"none", "exhausted", "failed"}
    OBVIOUS
  <2> HIDE DEF how
  <2>4. ModelTypes'
    BY <1>1, <1>3, <2>1, <2>3 DEF ModelInv, ModelTypes
  <2>5. OnChain(pc'[r], todo'[r], tried'[r], ended'[r])
    BY <1>1, <2>1, <2>2 DEF ModelInv, ModelTypes
  <2>6. \A q \in Requests \ {r} : todo'[q] = todo[q] /\ tried'[q] = tried[q] /\ ended'[q] = ended[q]
    BY <2>1 DEF ModelInv, ModelTypes
  <2> QED  BY <1>1, <2>1, <2>4, <2>5, <2>6, OneRequest
<1> QED  BY <1>5, <1>6, <1>7

\* Every step keeps the client's model and the calls on the chain.
LEMMA ModelStep == LInv /\ ModelInv /\ [Next]_vars => ModelInv'
<1> SUFFICES ASSUME LInv, ModelInv, [Next]_vars PROVE ModelInv'
  OBVIOUS
<1>0. loop \in OnLoop \cup {Idle} /\ queue \in Seq(InThread)
  BY DEF ModelInv, ModelTypes
<1>1. ASSUME NEW r \in Requests, Arrive(r) PROVE ModelInv'
  BY <1>0, <1>1, OtherStage DEF Arrive, models
<1>2. ASSUME NEW r \in Requests, Dispatch(r) PROVE ModelInv'
  <2>1. pc[r] = "ready"
    <3>1. ready \in Seq(Requests) /\ 1 \in 1..Len(ready) /\ r = ready[1]
      BY <1>2 DEF Dispatch, LInv, QueueInv, Waits
    <3> QED  BY <3>1 DEF LInv, QueueInv, Waits
  <2>2. CASE HoldsLoop(r)
    BY <1>0, <1>2, <2>1, <2>2, EnterModels DEF Dispatch, HoldsLoop
  <2>3. CASE ~HoldsLoop(r)
    <3>1. /\ queue' = Append(queue, r) /\ r \in InThread /\ pc' = [pc EXCEPT ![r] = "queued"]
          /\ UNCHANGED <<loop, model_id, todo, tried, ended>>
      BY <1>2, <2>3 DEF Dispatch, HoldsLoop, Requests
    <3>2. queue' \in Seq(InThread)
      BY <1>0, <3>1
    <3> QED  BY <1>0, <2>1, <3>1, <3>2, OtherStage
  <2> QED  BY <2>2, <2>3
<1>3. ASSUME NEW r \in Requests, TakeNode(r) PROVE ModelInv'
  <2>1. pc[r] = "queued"
    <3>1. queue \in Seq(Requests) /\ 1 \in 1..Len(queue) /\ r = queue[1]
      BY <1>3 DEF TakeNode, LInv, QueueInv, Waits
    <3> QED  BY <3>1 DEF LInv, QueueInv, Waits
  <2>2. queue' \in Seq(InThread)
    BY <1>0, <1>3 DEF TakeNode
  <2> QED  BY <1>0, <1>3, <2>1, <2>2, EnterModels DEF TakeNode
<1>4. ASSUME NEW r \in Requests, AskModel(r) PROVE ModelInv'
  BY <1>4, AskModelChain
<1>5. ASSUME NEW r \in Requests, WorkerEnds(r) \/ WorkerHangs(r) PROVE ModelInv'
  BY <1>5 DEF WorkerEnds, WorkerHangs, models, ModelInv, ModelTypes
<1>6. ASSUME NEW r \in Requests, Finish(r) \/ Timeout(r) PROVE ModelInv'
  BY <1>0, <1>6, OtherStage DEF Finish, Timeout, models
<1>7. ASSUME NEW r \in Requests, Return(r) PROVE ModelInv'
  BY <1>0, <1>7, OtherStage DEF Return, LoopAfter, models
<1>8. CASE UNCHANGED vars
  BY <1>8 DEF vars, models, ModelInv, ModelTypes
<1> QED  BY <1>1, <1>2, <1>3, <1>4, <1>5, <1>6, <1>7, <1>8 DEF Next

-----------------------------------------------------------------------------
(* Threads and conversations                                               *)

\* A coroutine that is at a call holds the loop, and the nodes that are at one
\* hold no more threads than the executor has.
ThreadInv ==
  /\ \A r \in OnLoop : pc[r] \in Busy => loop = r
  /\ IsFiniteSet(PoolBusy) /\ Cardinality(PoolBusy) <= PoolSize

\* A request moves without taking a thread, and gives back no loop but its own.
LEMMA NoThreadTaken ==
  ASSUME ThreadInv, CallTypes, NEW r \in Requests, NEW stage, pc' = [pc EXCEPT ![r] = stage],
         stage \in Busy => pc[r] \in Busy /\ loop' = loop,
         loop' = loop \/ loop = r
  PROVE  ThreadInv'
<1>1. pc'[r] = stage /\ \A d \in Requests : d # r => pc'[d] = pc[d]
  BY DEF CallTypes
<1>2. ASSUME NEW d \in OnLoop, pc'[d] \in Busy PROVE loop' = d
  BY <1>1, <1>2 DEF ThreadInv, Requests
<1>3. PoolBusy' \subseteq PoolBusy
  BY <1>1 DEF PoolBusy, Requests
<1>4. /\ IsFiniteSet(PoolBusy') /\ Cardinality(PoolBusy') <= Cardinality(PoolBusy)
      /\ Cardinality(PoolBusy') \in Nat /\ Cardinality(PoolBusy) \in Nat
  BY <1>3, FS_Subset, FS_CardinalityType DEF ThreadInv
<1>5. Cardinality(PoolBusy') <= PoolSize
  BY <1>4, RequestsOK DEF ThreadInv
<1> QED
  BY <1>2, <1>4, <1>5 DEF ThreadInv

\* What stays in its place keeps its thread.
LEMMA ThreadsStay ==
  ASSUME ThreadInv, UNCHANGED <<pc, loop>> PROVE ThreadInv'
BY DEF ThreadInv, PoolBusy

\* The loop starts a coroutine only when it is idle, and hands on a node.
LEMMA DispatchThreads ==
  ASSUME LInv, ThreadInv, NEW r \in Requests, Dispatch(r) PROVE ThreadInv'
<1>1. CallTypes /\ loop = Idle /\ loop \notin OnLoop
  BY RequestsOK DEF Dispatch, LInv, Requests
<1>2. CASE HoldsLoop(r)
  <2>1. r \in OnLoop /\ r \notin InThread /\ loop' = r
    BY <1>2, RequestsOK DEF HoldsLoop, Dispatch
  <2>2. PICK stage \in {"model", "waiting"} : pc' = [pc EXCEPT ![r] = stage]
    BY <1>2, EnterStage DEF Dispatch
  <2>3. \A d \in Requests : d # r => pc'[d] = pc[d]
    BY <1>1, <2>2 DEF CallTypes
  <2>4. PoolBusy' = PoolBusy
    BY <2>1, <2>3 DEF PoolBusy, Requests
  <2>5. \A d \in OnLoop : pc'[d] \in Busy => loop' = d
    BY <1>1, <2>1, <2>3 DEF ThreadInv, Requests
  <2> QED
    BY <2>4, <2>5 DEF ThreadInv
<1>3. CASE ~HoldsLoop(r)
  <2>1. pc' = [pc EXCEPT ![r] = "queued"] /\ loop' = loop /\ "queued" \notin Busy
    BY <1>3 DEF Dispatch, Busy
  <2> QED
    BY <1>1, <2>1, NoThreadTaken
<1> QED
  BY <1>2, <1>3

\* A node is taken only by a thread that is free.
LEMMA TakeNodeThreads ==
  ASSUME LInv, TypeOK, ThreadInv, NEW r \in Requests, TakeNode(r) PROVE ThreadInv'
<1>1. /\ queue # <<>> /\ queue \in Seq(InThread) /\ r = Head(queue) /\ Enter(r)
      /\ Cardinality(PoolBusy) < PoolSize /\ loop' = loop
  BY DEF TakeNode, TypeOK
<1>2. r \in InThread /\ r \notin OnLoop
  BY <1>1, RequestsOK
<1>3. PICK stage \in {"model", "waiting"} : pc' = [pc EXCEPT ![r] = stage]
  BY <1>1, EnterStage
<1>4. pc'[r] \in Busy /\ \A d \in Requests : d # r => pc'[d] = pc[d]
  BY <1>3 DEF LInv, CallTypes, Busy
<1>5. PoolBusy' = PoolBusy \cup {r}
  BY <1>2, <1>4 DEF PoolBusy, Requests
<1>6. /\ IsFiniteSet(PoolBusy') /\ Cardinality(PoolBusy) \in Nat
      /\ Cardinality(PoolBusy') = Cardinality(PoolBusy)
           \/ Cardinality(PoolBusy') = Cardinality(PoolBusy) + 1
  BY <1>5, FS_AddElement, FS_CardinalityType DEF ThreadInv
<1>7. Cardinality(PoolBusy') <= PoolSize
  BY <1>1, <1>6, RequestsOK
<1>8. \A d \in OnLoop : pc'[d] \in Busy => loop' = d
  BY <1>1, <1>2, <1>4 DEF ThreadInv, Requests
<1> QED
  BY <1>6, <1>7, <1>8 DEF ThreadInv

\* Every step keeps threads with those who hold them.
LEMMA ThreadStep == LInv /\ TypeOK /\ ThreadInv /\ [Next]_vars => ThreadInv'
<1> SUFFICES ASSUME LInv, TypeOK, ThreadInv, [Next]_vars PROVE ThreadInv'
  OBVIOUS
<1>0. CallTypes
  BY DEF LInv
<1>1. ASSUME NEW r \in Requests, Arrive(r) PROVE ThreadInv'
  <2>1. pc' = [pc EXCEPT ![r] = "ready"] /\ loop' = loop /\ "ready" \notin Busy
    BY <1>1 DEF Arrive, Busy
  <2> QED
    BY <1>0, <2>1, NoThreadTaken
<1>2. ASSUME NEW r \in Requests, AskModel(r) PROVE ThreadInv'
  <2>1. pc[r] \in Busy
    BY <1>2 DEF AskModel, Busy
  <2>2. CASE UNCHANGED <<pc, loop>>
    BY <2>2, ThreadsStay
  <2>3. CASE pc' = [pc EXCEPT ![r] = "waiting"] /\ loop' = loop
    BY <1>0, <2>1, <2>3, NoThreadTaken
  <2>4. CASE pc' = [pc EXCEPT ![r] = "answered"] /\ loop' = LoopAfter(r)
    <3>1. "answered" \notin Busy /\ (loop' = loop \/ loop = r)
      BY <2>4 DEF Busy, LoopAfter
    <3> QED
      BY <1>0, <2>4, <3>1, NoThreadTaken
  <2> QED
    BY <1>2, <2>2, <2>3, <2>4 DEF AskModel, Connect
<1>3. ASSUME NEW r \in Requests, Finish(r) \/ Timeout(r) PROVE ThreadInv'
  <2>1. pc[r] \in Busy /\ pc' = [pc EXCEPT ![r] = "closing"] /\ loop' = loop
    BY <1>3 DEF Finish, Timeout, Busy
  <2> QED
    BY <1>0, <2>1, NoThreadTaken
<1>4. ASSUME NEW r \in Requests, Return(r) PROVE ThreadInv'
  <2>1. /\ pc' = [pc EXCEPT ![r] = "answered"] /\ "answered" \notin Busy
        /\ loop' = loop \/ loop = r
    BY <1>4 DEF Return, Busy, LoopAfter
  <2> QED
    BY <1>0, <2>1, NoThreadTaken
<1>5. ASSUME NEW r \in Requests, WorkerEnds(r) \/ WorkerHangs(r) PROVE ThreadInv'
  BY <1>5, ThreadsStay DEF WorkerEnds, WorkerHangs
<1>6. CASE UNCHANGED vars
  BY <1>6, ThreadsStay DEF vars
<1> QED
  BY <1>1, <1>2, <1>3, <1>4, <1>5, <1>6, DispatchThreads, TakeNodeThreads DEF Next

\* An open conversation is that of the loop's request or of a busy thread.
LEMMA OpenIsBounded == LInv /\ ThreadInv => ConversationsAreBounded
<1> SUFFICES ASSUME LInv, ThreadInv PROVE Cardinality(Open) <= PoolSize + 1
  BY DEF ConversationsAreBounded
<1>1. ASSUME NEW r \in Open PROVE pc[r] \in Busy
  BY <1>1 DEF Open, LInv, CallTypes, StageInv, EndedInv, Busy
<1>2. Open \subseteq PoolBusy \cup {loop}
  BY <1>1 DEF Open, Requests, PoolBusy, ThreadInv
<1>3. /\ IsFiniteSet(PoolBusy \cup {loop}) /\ Cardinality(PoolBusy) \in Nat
      /\ Cardinality(PoolBusy \cup {loop}) <= Cardinality(PoolBusy) + 1
  BY FS_AddElement, FS_CardinalityType DEF ThreadInv
<1>4. /\ Cardinality(Open) <= Cardinality(PoolBusy \cup {loop})
      /\ Cardinality(Open) \in Nat /\ Cardinality(PoolBusy \cup {loop}) \in Nat
  BY <1>2, <1>3, FS_Subset, FS_CardinalityType
<1> QED
  BY <1>3, <1>4, RequestsOK DEF ThreadInv

\* At the start nobody holds a thread.
LEMMA InitThreads == Init => ThreadInv
<1> SUFFICES ASSUME Init PROVE ThreadInv
  OBVIOUS
<1>1. \A r \in Requests : pc[r] \notin Busy
  BY DEF Init, Busy
<1>2. PoolBusy = {}
  BY <1>1 DEF PoolBusy, Requests
<1> QED
  BY <1>1, <1>2, FS_EmptySet, RequestsOK DEF ThreadInv, Requests

-----------------------------------------------------------------------------
(* The theorems                                                            *)

IInv == LInv /\ ModelInv /\ ThreadInv

LEMMA Typed == LInv /\ ModelInv => TypeOK
BY DEF LInv, CallTypes, QueueInv, Waits, ModelInv, ModelTypes, OnChain, TypeOK, Models

\* All parts of the invariant hold in every reachable state.
LEMMA Invariance == Spec => []IInv
<1>1. Init => IInv
  BY InitStep, InitModels, InitThreads DEF IInv
<1>2. IInv /\ [Next]_vars => IInv'
  BY NextStep, ModelStep, ThreadStep, Typed DEF IInv
<1> QED  BY <1>1, <1>2, PTL DEF Spec

\* However many requests call a server that is slow or silent, no more than one
\* conversation per executor thread and one of the loop are open at a time,
\* because leaving the executor joins the worker (tools.py:138-140).
THEOREM BoundedConversations == Spec => []ConversationsAreBounded
<1>1. IInv => ConversationsAreBounded
  BY OpenIsBounded DEF IInv
<1> QED  BY Invariance, <1>1, PTL

\* All state stays within its types; in particular the loop is held by requests
\* of coroutines only and the executor runs the others.
THEOREM TypeCorrect == Spec => []TypeOK
<1>1. IInv => TypeOK
  BY Typed DEF IInv
<1> QED  BY Invariance, <1>1, PTL

\* Whatever list of fallback models is configured and however many requests share
\* the client, a call asks the primary model first and the others in the order
\* of the list, each once (ChainListsModels), and fails for throttling only when
\* it has asked them all (common.py:74-75, 80-100).
THEOREM TriesInOrder == Spec => []FallbackInOrder
<1>1. IInv => FallbackInOrder
  BY ChainTells DEF IInv, ModelInv, FallbackInOrder
<1> QED  BY Invariance, <1>1, PTL
=============================================================================

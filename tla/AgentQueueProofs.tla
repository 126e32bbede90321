-------------------------- MODULE AgentQueueProofs --------------------------
(***************************************************************************)
(* Proofs about module AgentQueue, for any number of tasks, replicas and   *)
(* messages and every bound.                                               *)
(***************************************************************************)
EXTENDS AgentQueue, TLAPS

Answering == Worker \cup {Human}
Pc == {"idle", "received", "claimed", "fetched", "starting", "running", "ending",
       "releasing", "acking"}
WorkerState == [pc : Pc, task : Task \cup {NoTask}, msg : Message \cup {NoMessage}]
Event == [status : Status, at : Nat]
Answer == [task : Task \cup {NoTask}, status : Status, at : Nat]
Lease == [holder : Worker \cup {Nobody}, stale : BOOLEAN]
StreamMessage == [task : Task \cup {NoTask}, deliveries : 0 .. MaxDeliver,
                  state : {"unused", "pending", "delivered", "acked", "lost"}]

Types ==
    /\ created \subseteq Task
    /\ newest \in [Task -> Event]
    /\ asked \in [Task -> Nat]
    /\ withdrawn \in [Task -> Nat]
    /\ lease \in [Task -> Lease]
    /\ stream \in [Message -> StreamMessage]
    /\ worker \in [Worker -> WorkerState]
    /\ todo \subseteq created
    /\ answering \in [Answering -> Answer]
    /\ crashes \in Nat /\ replies \in Nat

\* A worker at work has a task that exists, and so has every message that may
\* still be delivered; there is a delivery left for each one that waits.
TasksExist ==
    /\ \A w \in Worker : worker[w].pc # "idle" => worker[w].task \in created
    /\ \A m \in Message : stream[m].state = "pending" => /\ stream[m].task \in created
                                                         /\ stream[m].deliveries < MaxDeliver
    /\ \A m \in Message : stream[m].state = "delivered" => stream[m].task \in created
    /\ \A m \in Message : stream[m].state = "unused" => stream[m].deliveries = 0

\* An answer under way is a worker's own, between its two statements.
AnswersTheirOwn ==
    /\ \A a \in Answering : \/ answering[a] = NoAnswer
                            \/ answering[a].task \in created /\ answering[a].at > 0
    /\ \A w \in Worker : IF worker[w].pc \in {"starting", "ending"}
                         THEN answering[w].task = worker[w].task
                         ELSE answering[w] = NoAnswer

TypeInv == Types /\ TasksExist /\ AnswersTheirOwn

\* The invariant has the types of TypeOK in it.
LEMMA TypeInvImplies == TypeInv => TypeOK
<1> SUFFICES ASSUME TypeInv PROVE TypeOK
  OBVIOUS
<1>1. \A m \in Message : stream[m].deliveries \in 0 .. MaxDeliver
  BY DEF TypeInv, Types, StreamMessage
<1>2. \A w \in Worker : answering[w].task # NoTask <=> worker[w].pc \in {"starting", "ending"}
  BY NoneAssumption DEF TypeInv, Types, TasksExist, AnswersTheirOwn, NoAnswer, Answering
<1>3. \A a \in Answering : answering[a].task # NoTask => answering[a].at > 0
  BY DEF TypeInv, AnswersTheirOwn, NoAnswer
<1> QED
  BY <1>1, <1>2, <1>3 DEF TypeInv, Types, TasksExist, TypeOK, Event, Lease, Answering

\* Nothing ordered, nothing claimed, nobody at work.
LEMMA InitTypes == Init => TypeInv
<1> SUFFICES ASSUME Init PROVE TypeInv
  OBVIOUS
<1>1. Types
  BY CountAssumption, ProcessAssumption
     DEF Init, Types, Event, Lease, StreamMessage, WorkerState, Answer, Pc, Status, Idle, NoAnswer,
         Answering
<1>2. TasksExist /\ AnswersTheirOwn
  BY CountAssumption DEF Init, TasksExist, AnswersTheirOwn, Idle, NoAnswer, Answering
<1> QED
  BY <1>1, <1>2 DEF TypeInv

\* An answer that starts, of worker or person.
LEMMA StartAnswerTypes ==
  ASSUME TypeInv, NEW a \in Answering, NEW t \in Task, NEW status \in Status,
         StartAnswer(a, t, status)
  PROVE  /\ asked' \in [Task -> Nat]
         /\ answering' \in [Answering -> Answer]
         /\ answering'[a].task = t /\ answering'[a].at > 0
         /\ \A b \in Answering : b # a => answering'[b] = answering[b]
<1>1. asked[t] + 1 \in Nat /\ asked[t] + 1 > 0
  BY DEF TypeInv, Types
<1>2. [task |-> t, status |-> status, at |-> asked[t] + 1] \in Answer
  BY <1>1 DEF Answer
<1> QED
  BY <1>1, <1>2 DEF TypeInv, Types, StartAnswer

\* An answer that is recorded.
LEMMA InsertAnswerTypes ==
  ASSUME TypeInv, NEW a \in Answering, answering[a] # NoAnswer, InsertAnswer(a)
  PROVE  /\ newest' \in [Task -> Event]
         /\ asked' \in [Task -> Nat]
         /\ withdrawn' \in [Task -> Nat]
         /\ answering' = [answering EXCEPT ![a] = NoAnswer]
         /\ answering' \in [Answering -> Answer]
<1> DEFINE e == answering[a]
           governs == e.at > newest[e.task].at
           alone == \A b \in DOMAIN answering \ {a} : answering[b].task # e.task
           event == IF governs THEN [status |-> e.status, at |-> e.at] ELSE newest[e.task]
           next == IF alone THEN [event EXCEPT !.at = 0] ELSE event
<1>1. e \in Answer /\ e.task \in Task
  BY DEF TypeInv, Types, AnswersTheirOwn
<1>2. event \in Event
  BY <1>1 DEF TypeInv, Types, Answer, Event
<1>3. next \in Event
  BY <1>2 DEF Event
<1>4. newest' = [newest EXCEPT ![e.task] = next]
  BY DEF InsertAnswer
<1> HIDE DEF next
<1>5. newest' \in [Task -> Event]
  BY <1>1, <1>3, <1>4 DEF TypeInv, Types
<1>6. asked' \in [Task -> Nat] /\ withdrawn' \in [Task -> Nat]
  BY <1>1 DEF InsertAnswer, TypeInv, Types
<1>7. NoAnswer \in Answer
  BY DEF NoAnswer, Answer, Status
<1>8. answering' = [answering EXCEPT ![a] = NoAnswer]
  BY DEF InsertAnswer
<1> QED
  BY <1>5, <1>6, <1>7, <1>8 DEF TypeInv, Types

\* A worker that goes on to another step keeps its task and its message.
LEMMA GotoTypes ==
  ASSUME TypeInv, NEW w \in Worker, NEW pc \in Pc, Goto(w, pc)
  PROVE  /\ worker' \in [Worker -> WorkerState]
         /\ worker'[w].pc = pc /\ worker'[w].task = worker[w].task
         /\ \A v \in Worker : v # w => worker'[v] = worker[v]
  BY DEF Goto, TypeInv, Types, WorkerState

\* A nudge for a task leaves every message as it was but one, which now waits.
LEMMA NudgeTypes ==
  ASSUME TypeInv, NEW t \in Task, Nudge(t)
  PROVE  /\ stream' \in [Message -> StreamMessage]
         /\ \A m \in Message : \/ stream'[m] = stream[m]
                               \/ /\ stream[m].state = "unused"
                                  /\ stream'[m].state = "pending"
                                  /\ stream'[m].task = t
                                  /\ stream'[m].deliveries = stream[m].deliveries
<1> USE DEF TypeInv, Types
<1>1. CASE UNCHANGED stream
  BY <1>1
<1>2. ASSUME NEW m \in Message, stream[m].state = "unused",
             stream' = [stream EXCEPT ![m].task = t, ![m].state = "pending"]
      PROVE  /\ stream' \in [Message -> StreamMessage]
             /\ stream'[m].state = "pending" /\ stream'[m].task = t
             /\ stream'[m].deliveries = stream[m].deliveries
             /\ \A n \in Message : n # m => stream'[n] = stream[n]
  <2> DEFINE M == [stream[m] EXCEPT !.task = t, !.state = "pending"]
  <2>1. M \in StreamMessage /\ M.state = "pending" /\ M.task = t /\ M.deliveries = stream[m].deliveries
    BY DEF StreamMessage
  <2>2. stream' = [stream EXCEPT ![m] = M]
    BY <1>2
  <2> HIDE DEF M
  <2> QED
    BY <2>1, <2>2
<1> QED
  BY <1>1, <1>2 DEF Nudge

\* Every step keeps the types.
LEMMA NextTypes == TypeInv /\ [Next]_vars => TypeInv'
<1> SUFFICES ASSUME TypeInv, [Next]_vars PROVE TypeInv'
  OBVIOUS
<1> USE NoneAssumption, ProcessAssumption DEF TypeInv
<1>0. \A w \in Worker : w \in Answering /\ w # Human
  BY DEF Answering
<1>1. ASSUME NEW t \in Task, CreateTask(t) PROVE TypeInv'
  <2>1. stream' \in [Message -> StreamMessage]
    BY <1>1, NudgeTypes DEF CreateTask
  <2>2. Types'
    BY <1>1, <2>1 DEF CreateTask, Types
  <2>3. \A m \in Message : \/ stream'[m] = stream[m]
                           \/ /\ stream[m].state = "unused"
                              /\ stream'[m].state = "pending" /\ stream'[m].task = t
                              /\ stream'[m].deliveries = stream[m].deliveries
    BY <1>1, NudgeTypes DEF CreateTask
  <2>4. TasksExist'
    BY <1>1, <2>3, CountAssumption DEF CreateTask, TasksExist
  <2>5. AnswersTheirOwn'
    BY <1>1 DEF CreateTask, AnswersTheirOwn
  <2> QED
    BY <2>2, <2>4, <2>5
<1>2. ASSUME NEW t \in Task, NEW status \in {"pagar", "avvist"}, StartReply(t, status)
      PROVE  TypeInv'
  <2>1. Human \in Answering /\ status \in Status /\ StartAnswer(Human, t, status)
    BY <1>2 DEF Answering, Status, StartReply
  <2>2. Types'
    BY <1>2, <2>1, StartAnswerTypes DEF StartReply, Types
  <2>3. TasksExist'
    BY <1>2 DEF StartReply, TasksExist
  <2>4. AnswersTheirOwn'
    BY <1>0, <1>2, <2>1, StartAnswerTypes DEF StartReply, AnswersTheirOwn
  <2> QED
    BY <2>2, <2>3, <2>4
<1>3. CASE Reply
  <2>1. Human \in Answering /\ answering[Human] # NoAnswer /\ InsertAnswer(Human)
    BY <1>3 DEF Answering, Reply
  <2> DEFINE t == answering[Human].task
  <2>2. t \in created /\ t \in Task
    BY <2>1 DEF AnswersTheirOwn, Types
  <2>3. stream' = stream \/ Nudge(t)
    BY <1>3 DEF Reply
  <2> HIDE DEF t
  <2>4. /\ stream' \in [Message -> StreamMessage]
        /\ \A m \in Message : \/ stream'[m] = stream[m]
                              \/ /\ stream[m].state = "unused"
                                 /\ stream'[m].state = "pending"
                                 /\ stream'[m].task = t
                                 /\ stream'[m].deliveries = stream[m].deliveries
    BY <2>2, <2>3, NudgeTypes DEF Types
  <2>5. Types'
    BY <1>3, <2>1, <2>4, InsertAnswerTypes DEF Reply, Types
  <2>6. TasksExist'
    BY <1>3, <2>2, <2>4, CountAssumption DEF Reply, TasksExist
  <2>7. AnswersTheirOwn'
    BY <1>0, <1>3, <2>1, InsertAnswerTypes DEF Reply, AnswersTheirOwn, Types
  <2> QED
    BY <2>5, <2>6, <2>7
<1>4. ASSUME NEW w \in Listener, NEW m \in Message, Receive(w, m) PROVE TypeInv'
  <2> DEFINE W == [pc |-> "received", task |-> stream[m].task, msg |-> m]
             M == [stream[m] EXCEPT !.state = "delivered", !.deliveries = @ + 1]
  <2>1. w \in Worker
    BY DEF Worker
  <2>2. stream[m] \in StreamMessage /\ stream[m].task \in created /\ stream[m].deliveries < MaxDeliver
    BY <1>4 DEF Receive, TasksExist, Types
  <2>3. W \in WorkerState
    BY <2>2 DEF WorkerState, Types, Pc
  <2>4. M \in StreamMessage /\ M.state = "delivered" /\ M.task = stream[m].task
    <3>1. stream[m].deliveries + 1 \in 0 .. MaxDeliver
      BY <2>2, CountAssumption DEF StreamMessage
    <3> QED
      BY <2>2, <3>1 DEF StreamMessage
  <2>5. worker' = [worker EXCEPT ![w] = W] /\ stream' = [stream EXCEPT ![m] = M]
    BY <1>4 DEF Receive
  <2>6. W.pc = "received" /\ W.task \in created /\ worker[w].pc = "idle"
    BY <1>4, <2>2 DEF Receive, At
  <2> HIDE DEF W, M
  <2>7. Types'
    <3>1. worker' \in [Worker -> WorkerState] /\ stream' \in [Message -> StreamMessage]
      BY <2>1, <2>3, <2>4, <2>5 DEF Types
    <3> QED
      BY <1>4, <3>1 DEF Receive, Types
  <2>8. TasksExist'
    BY <1>4, <2>1, <2>2, <2>4, <2>5, <2>6 DEF Receive, TasksExist, Types
  <2>9. AnswersTheirOwn'
    BY <1>4, <2>1, <2>5, <2>6 DEF Receive, AnswersTheirOwn, Types
  <2> QED
    BY <2>7, <2>8, <2>9
<1>5. CASE StartSweep
  BY <1>5 DEF StartSweep, Types, TasksExist, AnswersTheirOwn
<1>6. ASSUME NEW t \in Task, SweepNext(t) PROVE TypeInv'
  <2> DEFINE W == [pc |-> "received", task |-> t, msg |-> NoMessage]
  <2>1. Sweeper \in Worker /\ t \in created
    BY <1>6 DEF SweepNext, Worker, Types
  <2>2. W \in WorkerState /\ W.pc = "received" /\ W.task = t
    BY DEF WorkerState, Pc
  <2>3. worker' = [worker EXCEPT ![Sweeper] = W] /\ worker[Sweeper].pc = "idle"
    BY <1>6 DEF SweepNext, At
  <2> HIDE DEF W
  <2>4. Types'
    BY <1>6, <2>1, <2>2, <2>3 DEF SweepNext, Types
  <2>5. TasksExist' /\ AnswersTheirOwn'
    BY <1>6, <2>1, <2>2, <2>3 DEF SweepNext, Types, TasksExist, AnswersTheirOwn
  <2> QED
    BY <2>4, <2>5
<1>7. ASSUME NEW w \in Worker, Claim(w) PROVE TypeInv'
  <2>1. PICK pc \in {"claimed", "acking"} : Goto(w, pc)
    BY <1>7 DEF Claim
  <2>2. worker[w].pc = "received" /\ worker[w].task \in created
    BY <1>7 DEF Claim, At, TasksExist
  <2>3. lease' \in [Task -> Lease]
    <3>1. [holder |-> w, stale |-> FALSE] \in Lease
      BY DEF Lease
    <3> QED
      BY <1>7, <3>1 DEF Claim, Types
  <2>4. Types'
    BY <1>7, <2>1, <2>3, GotoTypes DEF Claim, Types, Pc
  <2>5. TasksExist' /\ AnswersTheirOwn'
    BY <1>7, <2>1, <2>2, GotoTypes DEF Claim, TasksExist, AnswersTheirOwn, Pc
  <2> QED
    BY <2>4, <2>5
<1>8. ASSUME NEW w \in Worker, Fetch(w) PROVE TypeInv'
  <2>1. PICK pc \in {"releasing", "fetched"} : Goto(w, pc)
    BY <1>8 DEF Fetch
  <2>2. worker[w].pc = "claimed"
    BY <1>8 DEF Fetch, At
  <2>3. Types'
    BY <1>8, <2>1, GotoTypes DEF Fetch, Types, Pc
  <2>4. TasksExist' /\ AnswersTheirOwn'
    BY <1>8, <2>1, <2>2, GotoTypes DEF Fetch, TasksExist, AnswersTheirOwn, Pc
  <2> QED
    BY <2>3, <2>4
\* A worker that begins an answer, or finds the task closed.
<1>9. ASSUME NEW w \in Worker, NEW status \in Status, NEW pc \in {"starting", "ending"},
             worker[w].pc \notin {"idle", "starting", "ending"},
             \/ StartAnswer(w, worker[w].task, status) /\ Goto(w, pc)
             \/ Goto(w, "releasing") /\ UNCHANGED << asked, answering >>,
             UNCHANGED << created, newest, withdrawn, lease, stream, todo, crashes, replies >>
      PROVE  TypeInv'
  <2>1. w \in Answering /\ worker[w].task \in created /\ worker[w].task \in Task
    BY <1>9 DEF Answering, TasksExist, Types
  <2>2. CASE StartAnswer(w, worker[w].task, status) /\ Goto(w, pc)
    <3>1. Types'
      BY <1>9, <2>1, <2>2, GotoTypes, StartAnswerTypes DEF Types, Pc
    <3>2. TasksExist'
      BY <1>9, <2>1, <2>2, GotoTypes DEF TasksExist, Pc
    <3>3. AnswersTheirOwn'
      BY <1>9, <2>1, <2>2, GotoTypes, StartAnswerTypes DEF AnswersTheirOwn, Pc, Answering
    <3> QED
      BY <3>1, <3>2, <3>3
  <2>3. CASE Goto(w, "releasing") /\ UNCHANGED << asked, answering >>
    <3>1. Types'
      BY <1>9, <2>3, GotoTypes DEF Types, Pc
    <3>2. TasksExist' /\ AnswersTheirOwn'
      BY <1>9, <2>1, <2>3, GotoTypes DEF TasksExist, AnswersTheirOwn, Pc
    <3> QED
      BY <3>1, <3>2
  <2> QED
    BY <1>9, <2>2, <2>3
<1>10. ASSUME NEW w \in Worker, StartRun(w) PROVE TypeInv'
  BY <1>9, <1>10 DEF StartRun, At, Status
<1>11. ASSUME NEW w \in Worker, NEW status \in {"sporsmal", "utfort", "avvist"}, EndRun(w, status)
       PROVE  TypeInv'
  BY <1>9, <1>11 DEF EndRun, At, Status
\* A worker that has its answer recorded.
<1>12. ASSUME NEW w \in Worker, NEW pc \in {"running", "releasing"},
              worker[w].pc \in {"starting", "ending"}, InsertAnswer(w), Goto(w, pc),
              UNCHANGED << created, lease, stream, todo, crashes, replies >>
       PROVE  TypeInv'
  <2>1. w \in Answering /\ worker[w].task \in created /\ answering[w] # NoAnswer
    BY <1>12 DEF Answering, TasksExist, AnswersTheirOwn, NoAnswer, Types
  <2>2. Types'
    BY <1>12, <2>1, GotoTypes, InsertAnswerTypes DEF Types, Pc
  <2>3. TasksExist'
    BY <1>12, <2>1, GotoTypes DEF TasksExist, Pc
  <2>4. AnswersTheirOwn'
    BY <1>12, <2>1, GotoTypes, InsertAnswerTypes DEF AnswersTheirOwn, Types, Pc, Answering
  <2> QED
    BY <2>2, <2>3, <2>4
<1>13. ASSUME NEW w \in Worker, Run(w) PROVE TypeInv'
  BY <1>12, <1>13 DEF Run, At
<1>14. ASSUME NEW w \in Worker, Record(w) PROVE TypeInv'
  BY <1>12, <1>14 DEF Record, At
<1>15. ASSUME NEW w \in Worker, Release(w) PROVE TypeInv'
  <2>1. lease' \in [Task -> Lease]
    BY <1>15 DEF Release, Types, Lease
  <2>2. worker[w].pc = "releasing" /\ Goto(w, "acking")
    BY <1>15 DEF Release, At
  <2>3. Types'
    BY <1>15, <2>1, <2>2, GotoTypes DEF Release, Types, Pc
  <2>4. TasksExist' /\ AnswersTheirOwn'
    BY <1>15, <2>2, GotoTypes DEF Release, TasksExist, AnswersTheirOwn, Pc
  <2> QED
    BY <2>3, <2>4
<1>16. Idle \in WorkerState /\ Idle.pc = "idle"
  BY DEF Idle, WorkerState, Pc
<1>17. ASSUME NEW w \in Worker, Ack(w) PROVE TypeInv'
  <2>1. stream' \in [Message -> StreamMessage]
    <3>1. ASSUME NEW m \in Message, stream' = [stream EXCEPT ![m].state = "acked"]
          PROVE  stream' \in [Message -> StreamMessage]
      BY <3>1 DEF Types, StreamMessage
    <3> QED
      BY <1>17, <3>1 DEF Ack, Types, WorkerState
  <2>2. \A m \in Message : \/ stream'[m] = stream[m]
                           \/ stream'[m].state = "acked"
    BY <1>17 DEF Ack, Types, StreamMessage
  <2>3. Types'
    BY <1>16, <1>17, <2>1 DEF Ack, Types
  <2>4. TasksExist'
    BY <1>16, <1>17, <2>2 DEF Ack, At, TasksExist, Types
  <2>5. AnswersTheirOwn'
    BY <1>16, <1>17 DEF Ack, At, AnswersTheirOwn, Types
  <2> QED
    BY <2>3, <2>4, <2>5
<1>18. ASSUME NEW w \in Worker, Crash(w) PROVE TypeInv'
  <2>1. Types'
    <3>1. NoAnswer \in Answer
      BY DEF NoAnswer, Answer, Status
    <3>2. worker' \in [Worker -> WorkerState] /\ answering' \in [Answering -> Answer]
      BY <1>16, <1>18, <3>1 DEF Crash, Types
    <3> QED
      BY <1>18, <3>2 DEF Crash, Types
  <2>2. TasksExist' /\ AnswersTheirOwn'
    BY <1>0, <1>16, <1>18 DEF Crash, TasksExist, AnswersTheirOwn, Types, NoAnswer
  <2> QED
    BY <2>1, <2>2
<1>19. ASSUME NEW w \in Worker, Fail(w) PROVE TypeInv'
  <2>1. PICK pc \in {"acking", "releasing"} : Goto(w, pc)
    BY <1>19 DEF Fail
  <2>2. worker[w].pc \in {"received", "claimed", "fetched", "running", "releasing"}
    BY <1>19 DEF Fail, At
  <2>3. Types'
    BY <1>19, <2>1, GotoTypes DEF Fail, Types, Pc
  <2>4. TasksExist' /\ AnswersTheirOwn'
    BY <1>19, <2>1, <2>2, GotoTypes DEF Fail, TasksExist, AnswersTheirOwn, Pc
  <2> QED
    BY <2>3, <2>4
<1>20. ASSUME NEW t \in Task, Expire(t) PROVE TypeInv'
  BY <1>20 DEF Expire, Types, TasksExist, AnswersTheirOwn, Lease
\* What the stream does to a message.
<1>21. ASSUME NEW m \in Message, NEW state \in {"pending", "lost"},
              stream[m].state \in {"pending", "delivered"},
              state = "pending" => stream[m].deliveries < MaxDeliver,
              stream' = [stream EXCEPT ![m].state = state],
              UNCHANGED << created, newest, asked, withdrawn, lease, worker, todo, answering,
                           crashes, replies >>
       PROVE  TypeInv'
  <2> DEFINE M == [stream[m] EXCEPT !.state = state]
  <2>1. /\ M \in StreamMessage /\ M.state = state /\ M.task = stream[m].task
        /\ M.deliveries = stream[m].deliveries
    BY DEF Types, StreamMessage
  <2>2. stream' = [stream EXCEPT ![m] = M]
    BY <1>21
  <2> HIDE DEF M
  <2>3. Types'
    BY <1>21, <2>1, <2>2 DEF Types
  <2>4. TasksExist'
    BY <1>21, <2>1, <2>2 DEF TasksExist, Types
  <2>5. AnswersTheirOwn'
    BY <1>21 DEF AnswersTheirOwn
  <2> QED
    BY <2>3, <2>4, <2>5
<1>22. ASSUME NEW m \in Message, Redeliver(m) \/ Lose(m) PROVE TypeInv'
  BY <1>21, <1>22 DEF Redeliver, Lose
<1>23. CASE UNCHANGED vars
  BY <1>23 DEF vars, Types, TasksExist, AnswersTheirOwn
<1> QED
  BY <1>1, <1>2, <1>3, <1>4, <1>5, <1>6, <1>7, <1>8, <1>10, <1>11, <1>13, <1>14, <1>15, <1>17,
     <1>18, <1>19, <1>20, <1>22, <1>23
     DEF Next, Step, Sweep

\* Every variable of the queue keeps its type, and every worker at work has a task
\* that was ordered: nudges, sweeps, claims, answers, crashes and redeliveries.
THEOREM QueueTypes == Spec => []TypeOK
<1>1. Spec => []TypeInv
  BY InitTypes, NextTypes, PTL DEF Spec
<1> QED
  BY <1>1, TypeInvImplies, PTL

-----------------------------------------------------------------------------
(***************************************************************************)
(* One worker per task, when a run is shorter than its lease: whoever works*)
(* on a task is the holder of a lease that has not run out.                *)
(***************************************************************************)
LeaseHeld ==
    \A w \in Worker, t \in Task :
        Holding(w, t) => lease[t].holder = w /\ ~lease[t].stale

\* A step that leaves the leases alone and gives no worker a task it did not hold.
LEMMA NobodyStarts ==
  ASSUME LeaseHeld, UNCHANGED lease,
         \A w \in Worker, t \in Task : Holding(w, t)' => Holding(w, t)
  PROVE  LeaseHeld'
  BY DEF LeaseHeld

\* Every step keeps it: a claim finds no lease or one that ran out, and so nobody
\* at work; a release is the holder's own.
LEMMA NextLease == Timely /\ TypeInv /\ LeaseHeld /\ [Next]_vars => LeaseHeld'
<1> SUFFICES ASSUME Timely, TypeInv, LeaseHeld, [Next]_vars PROVE LeaseHeld'
  OBVIOUS
<1> USE NoneAssumption, ProcessAssumption DEF TypeInv
<1>1. ASSUME UNCHANGED << lease, worker >> PROVE LeaseHeld'
  BY <1>1 DEF LeaseHeld, Holding
<1>2. CASE UNCHANGED vars
  BY <1>1, <1>2 DEF vars
<1>3. ASSUME NEW t \in Task, NEW status \in {"pagar", "avvist"},
             CreateTask(t) \/ StartReply(t, status)
      PROVE  LeaseHeld'
  BY <1>1, <1>3 DEF CreateTask, StartReply
<1>4. CASE Reply \/ StartSweep
  BY <1>1, <1>4 DEF Reply, StartSweep
<1>5. ASSUME NEW m \in Message, Redeliver(m) \/ Lose(m) PROVE LeaseHeld'
  BY <1>1, <1>5 DEF Redeliver, Lose
\* A worker that was idle, or becomes so, or that goes on, keeps what it holds.
<1>6. ASSUME NEW w \in Worker, UNCHANGED lease,
             \A v \in Worker : v # w => worker'[v] = worker[v],
             \A t \in Task : Holding(w, t)' => Holding(w, t)
      PROVE  LeaseHeld'
  BY <1>6, NobodyStarts DEF Holding
<1>7. ASSUME NEW w \in Listener, NEW m \in Message, Receive(w, m) PROVE LeaseHeld'
  <2>1. w \in Worker
    BY DEF Worker
  <2> QED
    BY <1>6, <1>7, <2>1 DEF Receive, Types, Holding
<1>8. ASSUME NEW t \in Task, SweepNext(t) PROVE LeaseHeld'
  <2>1. Sweeper \in Worker
    BY DEF Worker
  <2> QED
    BY <1>6, <1>8, <2>1 DEF SweepNext, Types, Holding
<1>9. ASSUME NEW w \in Worker, Claim(w) PROVE LeaseHeld'
  <2> DEFINE t == worker[w].task
  <2>1. t \in Task /\ worker[w].pc = "received"
    BY <1>9 DEF Claim, At, TasksExist, Types
  <2>2. CASE Claimable(t)
    <3>1. lease' = [lease EXCEPT ![t] = [holder |-> w, stale |-> FALSE]] /\ Goto(w, "claimed")
      BY <1>9, <2>2 DEF Claim
    <3>2. \A v \in Worker : ~Holding(v, t)
      BY <2>1, <2>2 DEF Claimable, LeaseHeld
    <3>3. lease'[t] = [holder |-> w, stale |-> FALSE] /\ \A u \in Task : u # t => lease'[u] = lease[u]
      BY <2>1, <3>1 DEF Types
    <3>4. worker'[w].task = t /\ \A v \in Worker : v # w => worker'[v] = worker[v]
      BY <3>1, GotoTypes DEF Pc
    <3>5. \A v \in Worker, u \in Task : Holding(v, u)' => Holding(v, u) \/ (v = w /\ u = t)
      BY <3>4 DEF Holding
    <3>6. ASSUME NEW v \in Worker, NEW u \in Task, Holding(v, u)'
          PROVE  lease'[u].holder = v /\ ~lease'[u].stale
      <4>1. CASE v = w /\ u = t
        BY <3>3, <4>1
      <4>2. CASE Holding(v, u)
        BY <3>2, <3>3, <4>2 DEF LeaseHeld
      <4> QED
        BY <3>5, <3>6, <4>1, <4>2
    <3> QED
      BY <3>6 DEF LeaseHeld
  <2>3. CASE ~Claimable(t)
    <3>1. UNCHANGED lease /\ Goto(w, "acking")
      BY <1>9, <2>3 DEF Claim
    <3>2. worker'[w].pc = "acking" /\ \A v \in Worker : v # w => worker'[v] = worker[v]
      BY <3>1, GotoTypes DEF Pc
    <3>3. \A u \in Task : ~Holding(w, u)'
      BY <3>2 DEF Holding
    <3> QED
      BY <1>6, <3>1, <3>2, <3>3
  <2> QED
    BY <2>2, <2>3
<1>10. ASSUME NEW w \in Worker, NEW status \in {"sporsmal", "utfort", "avvist"},
              Fetch(w) \/ StartRun(w) \/ Run(w) \/ Record(w) \/ EndRun(w, status) \/ Fail(w)
       PROVE  LeaseHeld'
  <2>1. UNCHANGED lease
    BY <1>10 DEF Fetch, StartRun, Run, Record, EndRun, Fail
  <2>2. PICK pc \in Pc : Goto(w, pc) /\ (pc = "acking" \/ Holding(w, worker[w].task))
    BY <1>10 DEF Fetch, StartRun, Run, Record, EndRun, Fail, At, Pc, Holding
  <2>3. /\ worker'[w].pc = pc /\ worker'[w].task = worker[w].task
        /\ \A v \in Worker : v # w => worker'[v] = worker[v]
    BY <2>2, GotoTypes
  <2>4. \A t \in Task : Holding(w, t)' => Holding(w, t)
    BY <2>2, <2>3 DEF Holding
  <2> QED
    BY <1>6, <2>1, <2>3, <2>4
<1>11. ASSUME NEW w \in Worker, Release(w) PROVE LeaseHeld'
  <2> DEFINE t == worker[w].task
  <2>1. t \in Task /\ Holding(w, t)
    BY <1>11 DEF Release, At, TasksExist, Types, Holding
  <2>2. Goto(w, "acking") /\ \A u \in Task : u # t => lease'[u] = lease[u]
    BY <1>11 DEF Release, Types
  <2>3. \A v \in Worker : Holding(v, t) => v = w
    BY <2>1 DEF LeaseHeld
  <2>4. \A v \in Worker, u \in Task : Holding(v, u)' => Holding(v, u) /\ v # w
    BY <2>2, GotoTypes DEF Holding, Pc
  <2> QED
    BY <2>2, <2>3, <2>4 DEF LeaseHeld
<1>12. ASSUME NEW w \in Worker, Ack(w) \/ Crash(w) PROVE LeaseHeld'
  <2>1. UNCHANGED lease /\ worker' = [worker EXCEPT ![w] = Idle]
    BY <1>12 DEF Ack, Crash
  <2> QED
    BY <1>6, <2>1 DEF Types, Idle, Holding
<1>13. ASSUME NEW t \in Task, Expire(t) PROVE LeaseHeld'
  <2>1. \A w \in Worker : ~Holding(w, t)
    BY <1>13 DEF Expire
  <2>2. UNCHANGED worker /\ \A u \in Task : u # t => lease'[u] = lease[u]
    BY <1>13 DEF Expire, Types
  <2> QED
    BY <2>1, <2>2 DEF LeaseHeld, Holding
<1> QED
  BY <1>2, <1>3, <1>4, <1>5, <1>7, <1>8, <1>9, <1>10, <1>11, <1>12, <1>13
     DEF Next, Step, Sweep

\* Exactly one worker is on a task at a time (0069), for any number of replicas,
\* through redelivery, sweeps, crashes and takeovers, provided that a run ends
\* before its lease can be taken over.
THEOREM OneWorker == Timely => (Spec => []OneWorkerPerTask)
<1> SUFFICES ASSUME Timely PROVE Spec => []OneWorkerPerTask
  OBVIOUS
<1>1. Init => LeaseHeld
  BY DEF Init, LeaseHeld, Holding, Idle
<1>2. LeaseHeld => OneWorkerPerTask
  BY DEF LeaseHeld, OneWorkerPerTask
<1> QED
  BY <1>1, <1>2, InitTypes, NextTypes, NextLease, PTL DEF Spec

-----------------------------------------------------------------------------
(***************************************************************************)
(* Final answers.  An answer is at risk of being undone while somebody's   *)
(* answer is on its way in beside it; a person's answer that is under way  *)
(* accounts for one such loss, and once the final answer governs nobody    *)
(* starts another.                                                         *)
(***************************************************************************)
Final(t) == newest[t].status \in AVSLUTTET
Pending(t) == \E w \in Worker : answering[w].task = t
AtRisk(t) == answering[Human].task = t \/ (Final(t) /\ Pending(t))

LossesAccounted ==
    \A t \in Task : /\ withdrawn[t] <= replies
                    /\ AtRisk(t) => withdrawn[t] + 1 <= replies
                    /\ Final(t) => ~(answering[Human].task = t /\ Pending(t))

\* With one worker per task, no two workers answer on a task at once.
LEMMA OneAnswerPerTask ==
  ASSUME TypeInv, LeaseHeld, NEW v \in Worker, NEW w \in Worker, NEW t \in Task,
         answering[v].task = t, answering[w].task = t
  PROVE  v = w
<1>1. Holding(v, t) /\ Holding(w, t)
  BY NoneAssumption DEF TypeInv, AnswersTheirOwn, NoAnswer, Holding
<1> QED
  BY <1>1 DEF LeaseHeld

\* What recording an answer does to the event that governs.
LEMMA InsertAnswerEffect ==
  ASSUME TypeInv, NEW a \in Answering, answering[a] # NoAnswer, InsertAnswer(a),
         NEW t \in Task, answering[a].task = t
  PROVE  /\ withdrawn'[t] = IF Final(t) /\ ~Final(t)' THEN withdrawn[t] + 1 ELSE withdrawn[t]
         /\ \A u \in Task : u # t => /\ withdrawn'[u] = withdrawn[u]
                                      /\ newest'[u] = newest[u]
         /\ answering'[a].task = NoTask
         /\ \A b \in Answering : b # a => answering'[b] = answering[b]
<1> DEFINE e == answering[a]
           governs == e.at > newest[e.task].at
           alone == \A b \in DOMAIN answering \ {a} : answering[b].task # e.task
           event == IF governs THEN [status |-> e.status, at |-> e.at] ELSE newest[e.task]
           next == IF alone THEN [event EXCEPT !.at = 0] ELSE event
<1>1. newest \in [Task -> Event] /\ withdrawn \in [Task -> Nat] /\ answering \in [Answering -> Answer]
  BY DEF TypeInv, Types
<1>2. event \in Event /\ next.status = event.status
  BY <1>1 DEF Answer, Event
<1>3. newest' = [newest EXCEPT ![t] = next]
  BY DEF InsertAnswer
<1>4. withdrawn' = IF Final(t) /\ event.status \notin AVSLUTTET
                   THEN [withdrawn EXCEPT ![t] = @ + 1] ELSE withdrawn
  BY DEF InsertAnswer, Final
<1>5. answering' = [answering EXCEPT ![a] = NoAnswer]
  BY DEF InsertAnswer
<1> HIDE DEF next, event
<1>6. newest'[t].status = event.status /\ \A u \in Task : u # t => newest'[u] = newest[u]
  BY <1>1, <1>2, <1>3
<1>7. Final(t)' <=> event.status \in AVSLUTTET
  BY <1>6 DEF Final
<1>8. /\ withdrawn'[t] = IF Final(t) /\ ~Final(t)' THEN withdrawn[t] + 1 ELSE withdrawn[t]
      /\ \A u \in Task : u # t => withdrawn'[u] = withdrawn[u]
  BY <1>1, <1>4, <1>7
<1>9. /\ answering'[a].task = NoTask
       /\ \A b \in Answering : b # a => answering'[b] = answering[b]
  BY <1>1, <1>5 DEF NoAnswer
<1> QED
  BY <1>6, <1>8, <1>9

\* A step that gives no answer and starts none.
LEMMA NoAnswerGiven ==
  ASSUME LossesAccounted, UNCHANGED << newest, withdrawn, replies >>,
         \A a \in Answering, t \in Task : answering'[a].task = t => answering[a].task = t
  PROVE  LossesAccounted'
<1>1. \A t \in Task : /\ Pending(t)' => Pending(t)
                      /\ answering'[Human].task = t => answering[Human].task = t
                      /\ Final(t)' <=> Final(t)
  BY DEF Pending, Final, Answering
<1>2. \A t \in Task : AtRisk(t)' => AtRisk(t)
  BY <1>1 DEF AtRisk
<1> QED
  BY <1>1, <1>2 DEF LossesAccounted

\* A worker starts an answer only while no final one governs.
LEMMA WorkerAnswers ==
  ASSUME TypeInv, LossesAccounted, NEW w \in Worker, NEW t \in Task, NEW status \in Status,
         StartAnswer(w, t, status), UNCHANGED << newest, withdrawn, replies >>
  PROVE  LossesAccounted'
<1> USE ProcessAssumption
<1>1. w \in Answering /\ Human \in Answering /\ w # Human
  BY DEF Answering
<1>2. ~Final(t) /\ ~Final(t)'
  BY DEF StartAnswer, GuardPasses, Final
<1>3. /\ answering'[w].task = t
      /\ \A b \in Answering : b # w => answering'[b] = answering[b]
  BY <1>1, StartAnswerTypes
<1>4. \A u \in Task : u # t => (Pending(u)' => Pending(u))
  BY <1>1, <1>3 DEF Pending, Answering
<1>5. \A u \in Task : Final(u)' <=> Final(u)
  BY DEF Final
<1>6. \A u \in Task : AtRisk(u)' => AtRisk(u)
  BY <1>1, <1>2, <1>3, <1>4, <1>5 DEF AtRisk
<1> QED
  BY <1>1, <1>2, <1>3, <1>4, <1>5, <1>6 DEF LossesAccounted

\* A worker's answer is recorded: no other worker has one under way on its task.
LEMMA WorkerRecords ==
  ASSUME TypeInv, LeaseHeld, LossesAccounted, NEW w \in Worker, answering[w] # NoAnswer,
         InsertAnswer(w), UNCHANGED replies
  PROVE  LossesAccounted'
<1> USE ProcessAssumption, NoneAssumption
<1>1. w \in Answering /\ Human \in Answering /\ w # Human
  BY DEF Answering
<1>2. PICK t \in Task : answering[w].task = t
  BY <1>1 DEF TypeInv, Types, AnswersTheirOwn
<1>3. /\ withdrawn'[t] = IF Final(t) /\ ~Final(t)' THEN withdrawn[t] + 1 ELSE withdrawn[t]
      /\ \A u \in Task : u # t => withdrawn'[u] = withdrawn[u] /\ newest'[u] = newest[u]
      /\ answering'[w].task = NoTask
      /\ \A b \in Answering : b # w => answering'[b] = answering[b]
  BY <1>1, <1>2, InsertAnswerEffect
<1>4. Pending(t) /\ ~Pending(t)'
  BY <1>1, <1>2, <1>3, OneAnswerPerTask DEF Pending, Answering
<1>5. \A u \in Task : u # t => /\ Final(u)' <=> Final(u)
                               /\ Pending(u)' => Pending(u)
                               /\ answering'[Human] = answering[Human]
  BY <1>1, <1>2, <1>3 DEF Pending, Final, Answering
<1>6. \A u \in Task : withdrawn[u] \in Nat
  BY DEF TypeInv, Types
<1>7. ASSUME NEW u \in Task
      PROVE  /\ withdrawn'[u] <= replies
             /\ AtRisk(u)' => withdrawn'[u] + 1 <= replies
             /\ Final(u)' => ~(answering'[Human].task = u /\ Pending(u)')
  <2>1. CASE u # t
    BY <1>3, <1>5, <2>1 DEF LossesAccounted, AtRisk
  <2>2. CASE u = t /\ Final(t)
    <3>1. withdrawn[t] + 1 <= replies /\ answering[Human].task # t
      BY <1>4, <2>2 DEF LossesAccounted, AtRisk
    <3>2. answering'[Human].task # t
      BY <1>1, <1>3, <3>1
    <3>3. ~AtRisk(t)'
      BY <1>4, <3>2 DEF AtRisk
    <3>4. withdrawn'[t] <= withdrawn[t] + 1 /\ withdrawn'[t] \in Nat /\ replies \in Nat
      BY <1>3, <1>6 DEF TypeInv, Types
    <3> QED
      BY <1>4, <1>6, <2>2, <3>1, <3>3, <3>4
  <2>3. CASE u = t /\ ~Final(t)
    <3>1. withdrawn'[t] = withdrawn[t]
      BY <1>3, <2>3
    <3>2. AtRisk(t)' => AtRisk(t)
      BY <1>1, <1>3, <1>4 DEF AtRisk
    <3> QED
      BY <1>4, <2>3, <3>1, <3>2 DEF LossesAccounted
  <2> QED
    BY <2>1, <2>2, <2>3
<1> QED
  BY <1>7 DEF LossesAccounted

\* A person's answer is recorded: it is no longer there to be counted twice.
LEMMA PersonRecords ==
  ASSUME TypeInv, LossesAccounted, answering[Human] # NoAnswer, InsertAnswer(Human),
         UNCHANGED replies
  PROVE  LossesAccounted'
<1> USE ProcessAssumption, NoneAssumption
<1>1. Human \in Answering /\ \A w \in Worker : w \in Answering /\ w # Human
  BY DEF Answering
<1>2. PICK t \in Task : answering[Human].task = t
  BY <1>1 DEF TypeInv, Types, AnswersTheirOwn
<1>3. /\ withdrawn'[t] = IF Final(t) /\ ~Final(t)' THEN withdrawn[t] + 1 ELSE withdrawn[t]
      /\ \A u \in Task : u # t => withdrawn'[u] = withdrawn[u] /\ newest'[u] = newest[u]
      /\ answering'[Human].task = NoTask
      /\ \A b \in Answering : b # Human => answering'[b] = answering[b]
  BY <1>1, <1>2, InsertAnswerEffect
<1>4. \A u \in Task : Pending(u)' <=> Pending(u)
  BY <1>1, <1>3 DEF Pending
<1>5. \A u \in Task : answering'[Human].task # u
  BY <1>3
<1>6. withdrawn[t] + 1 <= replies /\ withdrawn[t] \in Nat /\ replies \in Nat
  BY <1>2 DEF LossesAccounted, AtRisk, TypeInv, Types
<1>7. ASSUME NEW u \in Task
      PROVE  /\ withdrawn'[u] <= replies
             /\ AtRisk(u)' => withdrawn'[u] + 1 <= replies
             /\ Final(u)' => ~(answering'[Human].task = u /\ Pending(u)')
  <2>1. CASE u # t
    <3>1. Final(u)' <=> Final(u)
      BY <1>3, <2>1 DEF Final
    <3>2. AtRisk(u)' => AtRisk(u)
      BY <1>4, <1>5, <3>1 DEF AtRisk
    <3> QED
      BY <1>3, <1>5, <2>1, <3>2 DEF LossesAccounted
  <2>2. CASE u = t /\ Final(t) /\ ~Final(t)'
    <3>1. ~AtRisk(t)'
      BY <1>5, <2>2 DEF AtRisk
    <3>2. withdrawn'[t] = withdrawn[t] + 1
      BY <1>3, <2>2
    <3> QED
      BY <1>6, <2>2, <3>1, <3>2
  <2>3. CASE u = t /\ ~(Final(t) /\ ~Final(t)')
    <3>1. withdrawn'[t] = withdrawn[t]
      BY <1>3, <2>3
    <3> QED
      BY <1>5, <1>6, <2>3, <3>1
  <2> QED
    BY <2>1, <2>2, <2>3
<1> QED
  BY <1>7 DEF LossesAccounted

\* Every step keeps the account.
LEMMA NextLosses ==
  TypeInv /\ LeaseHeld /\ LossesAccounted /\ [Next]_vars => LossesAccounted'
<1> SUFFICES ASSUME TypeInv, LeaseHeld, LossesAccounted, [Next]_vars PROVE LossesAccounted'
  OBVIOUS
<1> USE ProcessAssumption, NoneAssumption
<1>1. ASSUME UNCHANGED << newest, withdrawn, replies, answering >> PROVE LossesAccounted'
  BY <1>1, NoAnswerGiven
<1>2. CASE UNCHANGED vars
  BY <1>1, <1>2 DEF vars
<1>3. ASSUME NEW t \in Task, CreateTask(t) \/ SweepNext(t) \/ Expire(t) PROVE LossesAccounted'
  BY <1>1, <1>3 DEF CreateTask, SweepNext, Expire
<1>4. ASSUME NEW w \in Worker, Claim(w) \/ Fetch(w) \/ Release(w) \/ Ack(w) \/ Fail(w)
      PROVE  LossesAccounted'
  BY <1>1, <1>4 DEF Claim, Fetch, Release, Ack, Fail
<1>5. ASSUME NEW m \in Message, Redeliver(m) \/ Lose(m) PROVE LossesAccounted'
  BY <1>1, <1>5 DEF Redeliver, Lose
<1>6. ASSUME NEW w \in Listener, NEW m \in Message, Receive(w, m) PROVE LossesAccounted'
  BY <1>1, <1>6 DEF Receive
<1>7. CASE StartSweep
  BY <1>1, <1>7 DEF StartSweep
\* A person begins an answer: one more may be undone.
<1>8. ASSUME NEW t \in Task, NEW status \in {"pagar", "avvist"}, StartReply(t, status)
      PROVE  LossesAccounted'
  <2>1. /\ newest' = newest /\ withdrawn' = withdrawn /\ replies' = replies + 1
        /\ StartAnswer(Human, t, status)
    BY <1>8 DEF StartReply
  <2>2. Human \in Answering /\ status \in Status /\ \A w \in Worker : w \in Answering /\ w # Human
    BY DEF Answering, Status
  <2>3. /\ answering'[Human].task = t
        /\ \A w \in Worker : answering'[w] = answering[w]
    BY <2>1, <2>2, StartAnswerTypes
  <2>4. ~Final(t)' /\ \A u \in Task : (Final(u)' <=> Final(u)) /\ (Pending(u)' <=> Pending(u))
    BY <2>1, <2>3 DEF StartAnswer, GuardPasses, Final, Pending
  <2>5. \A u \in Task : withdrawn'[u] = withdrawn[u] /\ withdrawn[u] \in Nat /\ replies \in Nat
    BY <2>1 DEF TypeInv, Types
  <2>6. \A u \in Task : withdrawn'[u] + 1 <= replies'
    BY <2>1, <2>5 DEF LossesAccounted
  <2>7. \A u \in Task : withdrawn'[u] <= replies'
    BY <2>1, <2>5, <2>6
  <2>8. \A u \in Task : Final(u)' => ~(answering'[Human].task = u /\ Pending(u)')
    BY <2>3, <2>4
  <2> QED
    BY <2>6, <2>7, <2>8 DEF LossesAccounted
<1>9. CASE Reply
  BY <1>9, PersonRecords DEF Reply
<1>10. ASSUME NEW w \in Worker, StartRun(w) PROVE LossesAccounted'
  <2>1. worker[w].task \in Task /\ "pagar" \in Status
    BY <1>10 DEF StartRun, At, TypeInv, TasksExist, Types, Status
  <2> QED
    BY <1>1, <1>10, <2>1, WorkerAnswers DEF StartRun
<1>11. ASSUME NEW w \in Worker, NEW status \in {"sporsmal", "utfort", "avvist"}, EndRun(w, status)
       PROVE  LossesAccounted'
  <2>1. worker[w].task \in Task /\ status \in Status
    BY <1>11 DEF EndRun, At, TypeInv, TasksExist, Types, Status
  <2> QED
    BY <1>1, <1>11, <2>1, WorkerAnswers DEF EndRun
<1>12. ASSUME NEW w \in Worker, Run(w) \/ Record(w) PROVE LossesAccounted'
  <2>1. InsertAnswer(w) /\ UNCHANGED replies /\ worker[w].pc \in {"starting", "ending"}
    BY <1>12 DEF Run, Record, At
  <2>2. answering[w] # NoAnswer
    BY <2>1 DEF TypeInv, AnswersTheirOwn, TasksExist, Types, NoAnswer
  <2> QED
    BY <2>1, <2>2, WorkerRecords
<1>13. ASSUME NEW w \in Worker, Crash(w) PROVE LossesAccounted'
  <2>1. answering' = [answering EXCEPT ![w] = NoAnswer]
        /\ UNCHANGED << newest, withdrawn, replies >>
    BY <1>13 DEF Crash
  <2>2. \A a \in Answering, t \in Task : answering'[a].task = t => answering[a].task = t
    BY <2>1 DEF TypeInv, Types, NoAnswer
  <2> QED
    BY <2>1, <2>2, NoAnswerGiven
<1> QED
  BY <1>2, <1>3, <1>4, <1>5, <1>6, <1>7, <1>8, <1>9, <1>10, <1>11, <1>12, <1>13
     DEF Next, Step, Sweep

\* A final answer is undone at most once for every answer a person gives, and so
\* never by workers alone, when runs are shorter than their leases: the trigger
\* agent_oppgave_hendelse_guard and the lease together see to it.
THEOREM FinalAnswersHold == Timely => (Spec => []FinalAnswersStand)
<1> SUFFICES ASSUME Timely PROVE Spec => []FinalAnswersStand
  OBVIOUS
<1>1. Init => LeaseHeld
  BY DEF Init, LeaseHeld, Holding, Idle
<1>2. Init => LossesAccounted
  BY NoneAssumption DEF Init, LossesAccounted, AtRisk, Final, Pending, NoAnswer, Answering, AVSLUTTET
<1>3. LossesAccounted => FinalAnswersStand
  BY DEF LossesAccounted, FinalAnswersStand
<1> QED
  BY <1>1, <1>2, <1>3, InitTypes, NextTypes, NextLease, NextLosses, PTL DEF Spec

=============================================================================

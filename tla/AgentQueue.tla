----------------------------- MODULE AgentQueue -----------------------------
(***************************************************************************)
(* Hosted agents: orders in the database, a work queue that says "look     *)
(* now", an hourly sweep behind it, and a lease that should keep a task    *)
(* with one worker.  Messages are lost, duplicated and delivered again;    *)
(* workers die at any point and are restarted.                             *)
(***************************************************************************)
EXTENDS Naturals, FiniteSets

CONSTANTS
    Task,           \* orders addressed to an agent that has a model
    Listener,       \* replicas of regnmed-agent listen
    Sweeper,        \* the job regnmed-agent run; one at a time
    Human,          \* somebody answering in the portal
    Nobody,         \* no lease
    NoTask, NoMessage,
    Message,        \* messages the stream ever accepts
    Timely,         \* a run ends before its lease can be taken over
    MaxDeliver,     \* max_deliver of the consumer
    MaxCrash,       \* bound: workers that die, and calls of theirs that fail
    MaxHuman        \* bound: answers people give

Worker == Listener \cup {Sweeper}

ASSUME ProcessAssumption == Sweeper \notin Listener /\ Nobody \notin Worker /\ Human \notin Worker
ASSUME TimelyAssumption == Timely \in BOOLEAN
ASSUME NoneAssumption == NoTask \notin Task /\ NoMessage \notin Message
ASSUME CountAssumption == MaxDeliver \in Nat \ {0} /\ MaxCrash \in Nat /\ MaxHuman \in Nat

VARIABLES
    created,    \* tasks ordered so far
    newest,     \* the event that governs each task; at orders the events
    asked,      \* answers begun on each task since none was under way, the source of at
    withdrawn,  \* times a final answer stopped being the one that governs
    lease,      \* rows of agent_task_claim: holder, and whether it has run out
    stream,     \* messages of the work queue
    worker,     \* what each worker is doing
    todo,       \* what the sweep has read and not come to
    answering,  \* answers the trigger let through and that are not in yet
    crashes, replies    \* counters for the bounds

vars == << created, newest, asked, withdrawn, lease, stream, worker, todo, answering,
           crashes, replies >>

Status == {"ny", "pagar", "sporsmal", "utfort", "avvist"}
AVSLUTTET == {"utfort", "avvist"}
Open(t) == newest[t].status \notin AVSLUTTET \cup {"sporsmal"}

Idle == [pc |-> "idle", task |-> NoTask, msg |-> NoMessage]
NoAnswer == [task |-> NoTask, status |-> "ny", at |-> 0]

Init ==
    /\ created = {}
    /\ newest = [t \in Task |-> [status |-> "ny", at |-> 0]]
    /\ asked = [t \in Task |-> 0]
    /\ withdrawn = [t \in Task |-> 0]
    /\ lease = [t \in Task |-> [holder |-> Nobody, stale |-> FALSE]]
    /\ stream = [m \in Message |-> [task |-> NoTask, state |-> "unused", deliveries |-> 0]]
    /\ worker = [w \in Worker |-> Idle]
    /\ todo = {}
    /\ answering = [a \in Worker \cup {Human} |-> NoAnswer]
    /\ crashes = 0
    /\ replies = 0

-----------------------------------------------------------------------------
(***************************************************************************)
(* The trail.  The trigger looks for a final event when the insert starts; *)
(* the row is seen by others when the insert commits, and created_at is    *)
(* the time it started.                                                    *)
(***************************************************************************)
GuardPasses(t) == newest[t].status \notin AVSLUTTET

StartAnswer(a, t, status) ==
    /\ GuardPasses(t)
    /\ asked' = [asked EXCEPT ![t] = @ + 1]
    /\ answering' = [answering EXCEPT ![a] = [task |-> t, status |-> status, at |-> asked[t] + 1]]

\* Once none is under way, any later answer is newer: the count starts over.
InsertAnswer(a) ==
    LET e == answering[a]
        governs == e.at > newest[e.task].at
        alone == \A b \in DOMAIN answering \ {a} : answering[b].task # e.task
        event == IF governs THEN [status |-> e.status, at |-> e.at] ELSE newest[e.task]
    IN
    /\ newest' = [newest EXCEPT ![e.task] = IF alone THEN [event EXCEPT !.at = 0] ELSE event]
    /\ asked' = IF alone THEN [asked EXCEPT ![e.task] = 0] ELSE asked
    /\ withdrawn' = IF newest[e.task].status \in AVSLUTTET /\ event.status \notin AVSLUTTET
                    THEN [withdrawn EXCEPT ![e.task] = @ + 1] ELSE withdrawn
    /\ answering' = [answering EXCEPT ![a] = NoAnswer]

-----------------------------------------------------------------------------
(***************************************************************************)
(* The portal.                                                             *)
(***************************************************************************)

\* nudge: the stream takes the message, takes it for a duplicate, or is down.
Nudge(t) ==
    \/ UNCHANGED stream
    \/ \E m \in Message : /\ stream[m].state = "unused"
                          /\ stream' = [stream EXCEPT ![m].task = t, ![m].state = "pending"]

CreateTask(t) ==
    /\ t \notin created
    /\ created' = created \cup {t}
    /\ Nudge(t)
    /\ UNCHANGED << newest, asked, withdrawn, lease, worker, todo, answering, crashes, replies >>

\* A person replies to a question or closes the order.
StartReply(t, status) ==
    /\ t \in created
    /\ answering[Human] = NoAnswer
    /\ replies < MaxHuman
    /\ StartAnswer(Human, t, status)
    /\ replies' = replies + 1
    /\ UNCHANGED << created, newest, withdrawn, lease, stream, worker, todo, crashes >>

\* The nudge goes with a reply that leaves the task in play.
Reply ==
    /\ answering[Human] # NoAnswer
    /\ InsertAnswer(Human)
    /\ IF answering[Human].status \in AVSLUTTET THEN UNCHANGED stream
       ELSE Nudge(answering[Human].task)
    /\ UNCHANGED << created, lease, worker, todo, crashes, replies >>

-----------------------------------------------------------------------------
(***************************************************************************)
(* A worker: take a nudge or the next task of the sweep, claim, run,       *)
(* release, acknowledge.                                                   *)
(***************************************************************************)
At(w, pc) == worker[w].pc = pc
Goto(w, pc) == worker' = [worker EXCEPT ![w].pc = pc]

Receive(w, m) ==
    /\ At(w, "idle")
    /\ stream[m].state = "pending"
    /\ worker' = [worker EXCEPT ![w] = [pc |-> "received", task |-> stream[m].task, msg |-> m]]
    /\ stream' = [stream EXCEPT ![m].state = "delivered", ![m].deliveries = @ + 1]
    /\ UNCHANGED << created, newest, asked, withdrawn, lease, todo, answering, crashes, replies >>

\* open_agent_tasks: one read, and then one task after the other.
StartSweep ==
    /\ At(Sweeper, "idle")
    /\ todo = {}
    /\ todo' = {t \in created : Open(t)}
    /\ UNCHANGED << created, newest, asked, withdrawn, lease, stream, worker, answering,
                    crashes, replies >>

SweepNext(t) ==
    /\ At(Sweeper, "idle")
    /\ t \in todo
    /\ todo' = todo \ {t}
    /\ worker' = [worker EXCEPT ![Sweeper] = [pc |-> "received", task |-> t, msg |-> NoMessage]]
    /\ UNCHANGED << created, newest, asked, withdrawn, lease, stream, answering, crashes, replies >>

\* Faulty: a lease once taken is never taken over.
LeaseFreeOnly(t) == lease[t].holder = Nobody

\* Faulty: whoever asks has the lease.
LeaseAlways(t) == TRUE

\* claim_task may insert its row, or replace one that has run out.
Claimable(t) == lease[t].holder = Nobody \/ lease[t].stale

\* Faulty: taking a lease over leaves its claimed_at as it was.
ClaimUnrefreshed(w) ==
    LET t == worker[w].task IN
    /\ At(w, "received")
    /\ IF Claimable(t)
       THEN lease' = [lease EXCEPT ![t].holder = w] /\ Goto(w, "claimed")
       ELSE UNCHANGED lease /\ Goto(w, "acking")
    /\ UNCHANGED << created, newest, asked, withdrawn, stream, todo, answering, crashes, replies >>

Claim(w) ==
    LET t == worker[w].task IN
    /\ At(w, "received")
    /\ IF Claimable(t)
       THEN /\ lease' = [lease EXCEPT ![t] = [holder |-> w, stale |-> FALSE]]
            /\ Goto(w, "claimed")
       ELSE /\ Goto(w, "acking")
            /\ UNCHANGED lease
    /\ UNCHANGED << created, newest, asked, withdrawn, stream, todo, answering, crashes, replies >>

\* run_task: a closed task is left alone.
Fetch(w) ==
    /\ At(w, "claimed")
    /\ Goto(w, IF newest[worker[w].task].status \in AVSLUTTET THEN "releasing" ELSE "fetched")
    /\ UNCHANGED << created, newest, asked, withdrawn, lease, stream, todo, answering, crashes,
                    replies >>

\* Trail "pagar"; the trigger may have other news by now, and then run_task ends.
StartRun(w) ==
    /\ At(w, "fetched")
    /\ \/ StartAnswer(w, worker[w].task, "pagar") /\ Goto(w, "starting")
       \/ /\ ~GuardPasses(worker[w].task)
          /\ Goto(w, "releasing")
          /\ UNCHANGED << asked, answering >>
    /\ UNCHANGED << created, newest, withdrawn, lease, stream, todo, crashes, replies >>

Run(w) ==
    /\ At(w, "starting")
    /\ InsertAnswer(w)
    /\ Goto(w, "running")
    /\ UNCHANGED << created, lease, stream, todo, crashes, replies >>

\* Faulty: the lease goes before the outcome is recorded.
EndRunReleasesFirst(w, status) ==
    /\ At(w, "running")
    /\ GuardPasses(worker[w].task)
    /\ StartAnswer(w, worker[w].task, status)
    /\ Goto(w, "releasing")
    /\ UNCHANGED << created, newest, withdrawn, lease, stream, todo, crashes, replies >>

\* The turns of the model end in an outcome; a failure of theirs is "avvist".
EndRun(w, status) ==
    /\ At(w, "running")
    /\ \/ StartAnswer(w, worker[w].task, status) /\ Goto(w, "ending")
       \/ /\ ~GuardPasses(worker[w].task)
          /\ Goto(w, "releasing")
          /\ UNCHANGED << asked, answering >>
    /\ UNCHANGED << created, newest, withdrawn, lease, stream, todo, crashes, replies >>

Record(w) ==
    /\ At(w, "ending")
    /\ InsertAnswer(w)
    /\ Goto(w, "releasing")
    /\ UNCHANGED << created, lease, stream, todo, crashes, replies >>

\* release_task deletes the row of the task, whoever holds it.
Release(w) ==
    /\ At(w, "releasing")
    /\ lease' = [lease EXCEPT ![worker[w].task] = [holder |-> Nobody, stale |-> FALSE]]
    /\ Goto(w, "acking")
    /\ UNCHANGED << created, newest, asked, withdrawn, stream, todo, answering, crashes, replies >>

Ack(w) ==
    /\ At(w, "acking")
    /\ worker' = [worker EXCEPT ![w] = Idle]
    /\ stream' = IF worker[w].msg = NoMessage THEN stream
                 ELSE [stream EXCEPT ![worker[w].msg].state = "acked"]
    /\ UNCHANGED << created, newest, asked, withdrawn, lease, todo, answering, crashes, replies >>

-----------------------------------------------------------------------------
(***************************************************************************)
(* What happens to them.                                                   *)
(***************************************************************************)

\* The process dies and is started again: its lease stays, its message is not
\* acknowledged, an answer it had not committed is gone.
Crash(w) ==
    /\ ~At(w, "idle")
    /\ crashes < MaxCrash
    /\ crashes' = crashes + 1
    /\ worker' = [worker EXCEPT ![w] = Idle]
    /\ todo' = IF w = Sweeper THEN {} ELSE todo
    /\ answering' = [answering EXCEPT ![w] = NoAnswer]
    /\ UNCHANGED << created, newest, asked, withdrawn, lease, stream, replies >>

\* A call of the worker fails and it goes on to what follows: a failed claim is
\* passed over, a failed run released without a word in the trail, a failed
\* release leaves the lease where it is.
Fail(w) ==
    /\ crashes < MaxCrash
    /\ crashes' = crashes + 1
    /\ \/ At(w, "received") /\ Goto(w, "acking")
       \/ At(w, "claimed") /\ Goto(w, "releasing")
       \/ At(w, "fetched") /\ Goto(w, "releasing")
       \/ At(w, "running") /\ Goto(w, "releasing")
       \/ At(w, "releasing") /\ Goto(w, "acking")
    /\ UNCHANGED << created, newest, asked, withdrawn, lease, stream, todo, answering, replies >>

Holding(w, t) ==
    worker[w].task = t /\ worker[w].pc \in {"claimed", "fetched", "starting", "running", "ending",
                                          "releasing"}

\* CLAIM_TTL_MINUTES pass; with Timely a run is always shorter than that.
Expire(t) ==
    /\ lease[t].holder # Nobody
    /\ ~lease[t].stale
    /\ Timely => \A w \in Worker : ~Holding(w, t)
    /\ lease' = [lease EXCEPT ![t].stale = TRUE]
    /\ UNCHANGED << created, newest, asked, withdrawn, stream, worker, todo, answering, crashes,
                    replies >>

\* ack_wait passes without an acknowledgement: out again, or given up on. It is
\* longer than the lease, so a timely worker has acknowledged by then.
Redeliver(m) ==
    /\ stream[m].state = "delivered"
    /\ Timely => \A w \in Worker : worker[w].msg # m
    /\ stream' = [stream EXCEPT ![m].state =
                    IF stream[m].deliveries < MaxDeliver THEN "pending" ELSE "lost"]
    /\ UNCHANGED << created, newest, asked, withdrawn, lease, worker, todo, answering, crashes,
                    replies >>

\* The stream loses a message it had accepted.
Lose(m) ==
    /\ stream[m].state = "pending"
    /\ stream' = [stream EXCEPT ![m].state = "lost"]
    /\ UNCHANGED << created, newest, asked, withdrawn, lease, worker, todo, answering, crashes,
                    replies >>

-----------------------------------------------------------------------------
Step(w) ==
    \/ Claim(w) \/ Fetch(w) \/ StartRun(w) \/ Run(w) \/ Record(w) \/ Release(w) \/ Ack(w)
    \/ \E status \in {"sporsmal", "utfort", "avvist"} : EndRun(w, status)

Sweep == StartSweep \/ \E t \in Task : SweepNext(t)

Next ==
    \/ \E t \in Task : CreateTask(t)
    \/ \E t \in Task, status \in {"pagar", "avvist"} : StartReply(t, status)
    \/ Reply
    \/ \E w \in Listener, m \in Message : Receive(w, m)
    \/ \E w \in Worker : Step(w) \/ Crash(w) \/ Fail(w)
    \/ Sweep
    \/ \E t \in Task : Expire(t)
    \/ \E m \in Message : Redeliver(m) \/ Lose(m)

\* Workers run, the sweep is scheduled every hour and time passes. Nothing is
\* assumed of people or of the stream.
Fairness ==
    /\ \A w \in Worker : WF_vars(Step(w))
    /\ WF_vars(Sweep)
    /\ \A t \in Task : WF_vars(Expire(t))

Spec == Init /\ [][Next]_vars /\ Fairness

-----------------------------------------------------------------------------
(***************************************************************************)
(* Properties.                                                             *)
(***************************************************************************)
TypeOK ==
    /\ created \subseteq Task
    /\ newest \in [Task -> [status : Status, at : Nat]]
    /\ asked \in [Task -> Nat]
    /\ lease \in [Task -> [holder : Worker \cup {Nobody}, stale : BOOLEAN]]
    /\ \A m \in Message : stream[m].deliveries \in 0 .. MaxDeliver
    /\ \A w \in Worker : worker[w].pc # "idle" => worker[w].task \in created
    /\ todo \subseteq created
    /\ withdrawn \in [Task -> Nat]
    /\ \A w \in Worker : answering[w].task # NoTask <=> worker[w].pc \in {"starting", "ending"}
    /\ \A a \in Worker \cup {Human} : answering[a].task # NoTask => answering[a].at > 0

\* Exactly one worker on a task at a time (0069_agent_task_claim.sql:1), through
\* redelivery, duplicates, the sweep, crashes and takeovers of leases.
OneWorkerPerTask ==
    \A v, w \in Worker, t \in Task : Holding(v, t) /\ Holding(w, t) => v = w

\* A final answer is not withdrawn in silence (0064_agentoppgave.sql:15-18): the
\* trigger does not see an answer that is still on its way in, so a person who
\* answers while the agent does can undo one; agents among themselves never can,
\* for all that is redelivered, swept, taken over or dies.
FinalAnswersStand == \A t \in Task : withdrawn[t] <= replies

\* A lost message, a queue that is down or a worker that dies costs latency, not
\* work: every order is answered or asks back (taskqueue.rs:15-18).
EveryTaskAttended == \A t \in Task : t \in created ~> ~Open(t)

=============================================================================

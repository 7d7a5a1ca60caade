------------------------------- MODULE Cortex -------------------------------
(***************************************************************************)
(* The cortex server: POST /api/v1/bootstrap starts runs of                *)
(* Orchestrator.RunBootstrap in the background, GET /health/deep runs      *)
(* RunDeepHealth, GET /ready reads the last result.  Both runs call every  *)
(* dependency concurrently, through the one circuit breaker it has.        *)
(***************************************************************************)
EXTENDS CircuitBreaker

CONSTANTS Deps,          \* the infrastructure services cortex has clients for
          Provisioned,   \* those whose resources it creates: NATS and Pulsar
          Patient,       \* those a run waits for without a timeout: Pulsar and PostgreSQL
          Deaf,          \* those whose client ignores the context: NATS
          Resources,     \* streams, or tenants, namespaces and topics, to create
          Posts,         \* calls of POST /api/v1/bootstrap
          Healths        \* calls of GET /health/deep

ASSUME CortexAssumption ==
    /\ Deps # {}
    /\ Resources \in Nat
    /\ Posts \intersect Healths = {}

VARIABLES run,          \* a POST, its answer and the goroutine it started
          inProgress,   \* bootstrapInProgress
          lastResult,   \* the status of lastResult, "none" for nil
          call,         \* the call of a run or health check to a dependency
          step,         \* resources the run in progress has got from a dependency
          health,       \* a GET /health/deep
          cancelled,    \* health checks whose client has gone
          breaker       \* the circuit breaker of a dependency

VARIABLES dep,    \* what a dependency does for its client: it answers, fails or hangs
          made    \* resources that exist

\* What the properties remember of the past.
VARIABLES latest,    \* the run that was started last by this process, as a set
          suspects   \* dependencies that were not up, or whose call a client
                     \* cancelled, in the life of this process

server == <<run, inProgress, lastResult, latest>>
checks == <<health, cancelled>>
calls == <<call, step, breaker>>
world == <<dep, made>>
vars == <<server, checks, calls, world, suspects>>

Callers == Posts \union Healths
RunStates == {"idle", "conflict", "spawned", "refused", "running", "published", "done", "killed"}
Active(p) == run[p] \in {"running", "published"}
Needed(d) == IF d \in Provisioned THEN Resources ELSE 0

TypeOK ==
    /\ run \in [Posts -> RunStates]
    /\ inProgress \in BOOLEAN
    /\ lastResult \in {"none", "ok", "error"}
    /\ call \in [Callers -> [Deps -> {"none", "queued", "flight", "ok", "error", "refused"}]]
    /\ step \in [Deps -> 0 .. Resources]
    /\ health \in [Healths -> {"idle", "waiting", "healthy", "unhealthy", "killed"}]
    /\ cancelled \in SUBSET Healths
    /\ breaker \in [Deps -> [state : States, failures : 0 .. TripAfter, calls : SUBSET Callers]]
    /\ dep \in [Deps -> {"up", "down", "hung"}]
    /\ made \in [Deps -> 0 .. Resources]
    /\ latest \in SUBSET Posts
    /\ suspects \in SUBSET Deps

NoCalls == [d \in Deps |-> "none"]
AllQueued == [d \in Deps |-> "queued"]
Down == {d \in Deps : dep[d] # "up"}

Init ==
    /\ run = [p \in Posts |-> "idle"]
    /\ inProgress = FALSE
    /\ lastResult = "none"
    /\ call = [w \in Callers |-> NoCalls]
    /\ step = [d \in Deps |-> 0]
    /\ health = [h \in Healths |-> "idle"]
    /\ cancelled = {}
    /\ breaker = [d \in Deps |-> New("closed")]
    /\ dep \in [Deps -> {"up", "down"}]
    /\ made = [d \in Deps |-> 0]
    /\ latest = {}
    /\ suspects = Down

-----------------------------------------------------------------------------
(* Handler.Bootstrap and Orchestrator.RunBootstrap *)

\* The handler loads the flag, answers 409, or starts a goroutine and answers 202.
Post(p) ==
    /\ run[p] = "idle"
    /\ run' = [run EXCEPT ![p] = IF inProgress THEN "conflict" ELSE "spawned"]
    /\ UNCHANGED <<inProgress, lastResult, latest, checks, calls, world, suspects>>

\* Mutant of Begin: the handler's load is taken for enough.
Begin_NoSwap(p) ==
    /\ run[p] = "spawned"
    /\ inProgress' = TRUE
    /\ run' = [run EXCEPT ![p] = "running"]
    /\ latest' = {p}
    /\ call' = [call EXCEPT ![p] = AllQueued]
    /\ UNCHANGED <<lastResult, checks, step, breaker, world, suspects>>

\* CompareAndSwap; a run that loses it returns ErrBootstrapInProgress to nobody.
Begin(p) ==
    /\ run[p] = "spawned"
    /\ \/ /\ inProgress
          /\ run' = [run EXCEPT ![p] = "refused"]
          /\ UNCHANGED <<inProgress, latest, call>>
       \/ /\ ~inProgress
          /\ inProgress' = TRUE
          /\ run' = [run EXCEPT ![p] = "running"]
          /\ latest' = {p}
          /\ call' = [call EXCEPT ![p] = AllQueued]
    /\ UNCHANGED <<lastResult, checks, step, breaker, world, suspects>>

\* g.Wait(), then the overall status.
Returned(w) == \A d \in Deps : call[w][d] \in {"ok", "error", "refused"}
Outcome(w) == IF \A d \in Deps : call[w][d] = "ok" THEN "ok" ELSE "error"

\* Mutant of Publish: the flag is cleared before the result is stored.
Publish_Late(p) ==
    /\ run[p] = "running"
    /\ Returned(p)
    /\ run' = [run EXCEPT ![p] = "published"]
    /\ inProgress' = FALSE
    /\ step' = [d \in Deps |-> 0]
    /\ UNCHANGED <<lastResult, latest, checks, call, breaker, world, suspects>>

Publish(p) ==
    /\ run[p] = "running"
    /\ Returned(p)
    /\ run' = [run EXCEPT ![p] = "published"]
    /\ lastResult' = Outcome(p)
    /\ step' = [d \in Deps |-> 0]
    /\ UNCHANGED <<inProgress, latest, checks, call, breaker, world, suspects>>

\* Mutant of Release: the flag is cleared on the way of success only.
Release_OnSuccess(p) ==
    /\ run[p] = "published"
    /\ run' = [run EXCEPT ![p] = "done"]
    /\ inProgress' = (Outcome(p) # "ok")
    /\ UNCHANGED <<lastResult, latest, checks, calls, world, suspects>>

\* The deferred Store(false).
Release(p) ==
    /\ run[p] = "published"
    /\ run' = [run EXCEPT ![p] = "done"]
    /\ inProgress' = FALSE
    /\ UNCHANGED <<lastResult, latest, checks, calls, world, suspects>>

-----------------------------------------------------------------------------
(* The clients: Probe, ProvisionStreams and Provision, inside Execute. *)

Enter(w, d) ==
    /\ call[w][d] = "queued"
    /\ \/ /\ Admits(breaker[d])
          /\ breaker' = [breaker EXCEPT ![d] = Admitted(@, w)]
          /\ call' = [call EXCEPT ![w][d] = "flight"]
       \/ /\ ~Admits(breaker[d])
          /\ call' = [call EXCEPT ![w][d] = "refused"]
          /\ UNCHANGED breaker
    /\ UNCHANGED <<server, checks, step, world, suspects>>

\* The next stream, or the next tenant, namespace or topic; it may be there already.
Created(d) == IF made[d] <= step[d] THEN [made EXCEPT ![d] = step[d] + 1] ELSE made

\* Mutant of Provide: a resource that cannot be created is passed over.
Provide_Lenient(p, d) ==
    /\ call[p][d] = "flight"
    /\ step[d] < Needed(d)
    /\ step' = [step EXCEPT ![d] = @ + 1]
    /\ made' = IF dep[d] = "up" THEN Created(d) ELSE made
    /\ UNCHANGED <<server, checks, call, breaker, dep, suspects>>

\* It is created; one that exists is updated (NATS) or answers 409, which counts
\* (Pulsar).
Provide(p, d) ==
    /\ call[p][d] = "flight"
    /\ step[d] < Needed(d)
    /\ dep[d] = "up"
    /\ step' = [step EXCEPT ![d] = @ + 1]
    /\ made' = Created(d)
    /\ UNCHANGED <<server, checks, call, breaker, dep, suspects>>

\* The last answer a call waits for.
Answer(w, d) ==
    /\ call[w][d] = "flight"
    /\ dep[d] = "up"
    /\ w \in Posts => step[d] = Needed(d)
    /\ call' = [call EXCEPT ![w][d] = "ok"]
    /\ breaker' = [breaker EXCEPT ![d] = Reported(@, w, TRUE)]
    /\ UNCHANGED <<server, checks, step, world, suspects>>

\* Mutant of GiveUp: the group's context, which a sibling's failure cancels.
GiveUp_Group(w, d) ==
    /\ call[w][d] = "flight"
    /\ \/ dep[d] = "down"
       \/ w \in cancelled /\ d \notin Deaf
       \/ \E e \in Deps : call[w][e] = "error"
    /\ call' = [call EXCEPT ![w][d] = "error"]
    /\ breaker' = [breaker EXCEPT ![d] = Reported(@, w, FALSE)]
    /\ made' = made \/ (w \in Posts /\ step[d] < Needed(d) /\ made' = Created(d))
    /\ UNCHANGED <<server, checks, step, dep, suspects>>

\* An error, a timeout of the client, or the context of a client that has gone;
\* to the breaker they are the same.  What was asked for last may have been done.
GiveUp(w, d) ==
    /\ call[w][d] = "flight"
    /\ \/ dep[d] = "down"
       \/ w \in cancelled /\ d \notin Deaf
    /\ call' = [call EXCEPT ![w][d] = "error"]
    /\ breaker' = [breaker EXCEPT ![d] = Reported(@, w, FALSE)]
    /\ made' = made \/ (w \in Posts /\ step[d] < Needed(d) /\ made' = Created(d))
    /\ UNCHANGED <<server, checks, step, dep, suspects>>

\* The timeout of an open breaker.
CoolDown(d) ==
    /\ breaker[d].state = "open"
    /\ breaker' = [breaker EXCEPT ![d] = New("half-open")]
    /\ UNCHANGED <<server, checks, call, step, world, suspects>>

-----------------------------------------------------------------------------
(* Handler.DeepHealth *)

DeepHealth(h) ==
    /\ health[h] = "idle"
    /\ health' = [health EXCEPT ![h] = "waiting"]
    /\ call' = [call EXCEPT ![h] = AllQueued]
    /\ UNCHANGED <<server, cancelled, step, breaker, world, suspects>>

\* The client goes: the context of the request is cancelled, the handler waits on.
Disconnect(h) ==
    /\ health[h] = "waiting"
    /\ h \notin cancelled
    /\ cancelled' = cancelled \union {h}
    /\ suspects' = suspects \union
                   {d \in Deps \ Deaf : call[h][d] \in {"queued", "flight"}}
    /\ UNCHANGED <<server, health, calls, world>>

Reply(h) ==
    /\ health[h] = "waiting"
    /\ Returned(h)
    /\ health' = [health EXCEPT ![h] = IF Outcome(h) = "ok" THEN "healthy" ELSE "unhealthy"]
    /\ cancelled' = cancelled \ {h}
    /\ UNCHANGED <<server, calls, world, suspects>>

-----------------------------------------------------------------------------
(* The process and the services around it. *)

\* srv.Shutdown does not wait for a run, and a crash waits for nothing; flag,
\* result and breakers are in memory only.
Restart ==
    /\ run' = [p \in Posts |-> IF run[p] \in {"spawned", "running", "published"}
                               THEN "killed" ELSE run[p]]
    /\ inProgress' = FALSE
    /\ lastResult' = "none"
    /\ latest' = {}
    /\ health' = [h \in Healths |-> IF health[h] = "waiting" THEN "killed" ELSE health[h]]
    /\ call' = [w \in Callers |-> NoCalls]
    /\ step' = [d \in Deps |-> 0]
    /\ breaker' = [d \in Deps |-> New("closed")]
    /\ suspects' = Down
    /\ cancelled' = {}
    /\ UNCHANGED world

\* A dependency fails, or is too slow for the timeout of its client, or hangs and
\* its client has none, or is up again.
Change(d) ==
    /\ \E s \in {"up", "down", "hung"} :
          /\ s = "hung" => d \in Patient
          /\ dep' = [dep EXCEPT ![d] = s]
          /\ suspects' = IF s = "up" THEN suspects ELSE suspects \union {d}
    /\ UNCHANGED <<server, checks, calls, made>>

Bootstrap(p) == Begin(p) \/ Publish(p) \/ Release(p)
Client(w, d) == Enter(w, d) \/ (w \in Posts /\ Provide(w, d)) \/ Answer(w, d) \/ GiveUp(w, d)

Next ==
    \/ \E p \in Posts : Post(p) \/ Bootstrap(p)
    \/ \E w \in Callers, d \in Deps : Client(w, d)
    \/ \E h \in Healths : DeepHealth(h) \/ Disconnect(h) \/ Reply(h)
    \/ \E d \in Deps : CoolDown(d) \/ Change(d)
    \/ Restart

\* Goroutines run; a call ends when its dependency answers, fails or times out.
FairRun(p) == WF_vars(Bootstrap(p))
FairCall(w, d) == WF_vars(Client(w, d))
Fairness == (\A p \in Posts : FairRun(p)) /\ \A w \in Callers, d \in Deps : FairCall(w, d)

Spec == Init /\ [][Next]_vars
FairSpec == Spec /\ Fairness

-----------------------------------------------------------------------------
(* Correctness. *)

\* One bootstrap at a time, whose result is published once and before the next
\* one may start: BootstrapGate, where a POST that was turned away is over.
Gate == INSTANCE BootstrapGate WITH
    Runs <- Posts,
    active <- {p \in Posts : Active(p)},
    past <- {p \in Posts : run[p] \in {"done", "killed"}},
    concluded <- \E p \in Posts : run[p] = "published",
    ready <- lastResult = "ok"
OneBootstrapAtATime == Gate!Spec

\* Between runs, readiness is the outcome of the run that was started last.
ReadyReflectsLatestRun ==
    ~inProgress => lastResult = IF latest = {} THEN "none"
                                ELSE Outcome(CHOOSE p \in latest : TRUE)

\* When cortex says it is ready, every stream and every topic exists, whatever
\* failed half-way or was restarted before.
ReadyMeansProvisioned ==
    lastResult = "ok" => \A d \in Deps : made[d] = Needed(d)

\* A call fails, and a breaker counts, only for a dependency that failed itself
\* or whose call a client cancelled; the failure of another never does it.
FailuresAreOwn ==
    \A d \in Deps : d \notin suspects =>
        /\ breaker[d].state = "closed" /\ breaker[d].failures = 0
        /\ \A w \in Callers : call[w][d] \notin {"error", "refused"}

\* A run ends, so that the next POST is not turned away for ever, unless a
\* dependency hangs whose client has no timeout: Pulsar, called with
\* http.DefaultClient, and PostgreSQL, pinged on the context of the run.
BootstrapEnds ==
    inProgress ~> (~inProgress \/ \E d \in Patient : dep[d] = "hung")

-----------------------------------------------------------------------------
(* What the documents say and the code does not do. *)

\* internal/api/handlers.go:34 documents 202 as "Bootstrap accepted - run
\* started".  Two POSTs may both find no run in progress; only one gets a run.
AcceptedRunsStart == \A p \in Posts : run[p] # "refused"

=============================================================================

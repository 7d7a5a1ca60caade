---------------------------- MODULE Cortex_proofs ----------------------------
(***************************************************************************)
(* Theorems about Cortex, for any dependencies, requests and health        *)
(* checks, any number of resources and any trip threshold.                 *)
(***************************************************************************)
EXTENDS Cortex, TLAPS

-----------------------------------------------------------------------------
(* The circuit breaker. *)

Breakers == [state : States, failures : 0 .. TripAfter, calls : SUBSET Callers]

LEMMA NewType == \A state \in States : New(state) \in Breakers
BY TripAssumption DEF New, Breakers

LEMMA AdmittedType ==
    ASSUME NEW b \in Breakers, NEW w \in Callers
    PROVE  Admitted(b, w) \in Breakers
BY DEF Admitted, Breakers

LEMMA ReportedType ==
    ASSUME NEW b \in Breakers, NEW w \in Callers, NEW ok \in BOOLEAN
    PROVE  Reported(b, w, ok) \in Breakers
<1>1. CASE w \notin b.calls
    BY <1>1 DEF Reported
<1>2. CASE w \in b.calls /\ b.state = "half-open"
    BY <1>2, NewType DEF Reported, States
<1>3. CASE w \in b.calls /\ b.state # "half-open" /\ ok
    <2>1. Ended(b, w, 0) \in Breakers
        BY TripAssumption DEF Breakers, Ended
    <2> QED
        BY <1>3, <2>1 DEF Reported
<1>4. CASE w \in b.calls /\ b.state # "half-open" /\ ~ok
    <2>1. CASE Trips(b.failures + 1)
        BY <1>4, <2>1, NewType DEF Reported, States
    <2>2. CASE ~Trips(b.failures + 1)
        <3>1. Ended(b, w, b.failures + 1) \in Breakers
            BY <2>2, TripAssumption DEF Breakers, Trips, Ended
        <3> QED
            BY <1>4, <2>2, <3>1 DEF Reported
    <2> QED
        BY <2>1, <2>2
<1> QED
    BY <1>1, <1>2, <1>3, <1>4

\* A breaker that counts no failure goes on like this as long as none is reported.
Fresh(b) == b.state = "closed" /\ b.failures = 0

LEMMA FreshStays ==
    ASSUME NEW b \in Breakers, NEW w \in Callers, Fresh(b)
    PROVE  Fresh(Admitted(b, w)) /\ Fresh(Reported(b, w, TRUE)) /\ Admits(b)
<1>1. Fresh(Admitted(b, w))
    BY DEF Fresh, Admitted, Breakers
<1>2. Fresh(Reported(b, w, TRUE))
    <2>1. Fresh(Ended(b, w, 0))
        BY DEF Fresh, Ended
    <2> QED
        BY <2>1 DEF Fresh, Reported
<1> QED
    BY <1>1, <1>2 DEF Fresh, Admits

-----------------------------------------------------------------------------
(* Types. *)

CallTables == [Callers -> [Deps -> {"none", "queued", "flight", "ok", "error", "refused"}]]

LEMMA InitType == Init => TypeOK
<1> SUFFICES ASSUME Init PROVE TypeOK
    OBVIOUS
<1>1. breaker \in [Deps -> Breakers]
    BY NewType DEF Init, States
<1>2. step \in [Deps -> 0 .. Resources] /\ made \in [Deps -> 0 .. Resources]
    BY CortexAssumption DEF Init, CortexAssumption
<1>3. call \in CallTables
    BY DEF Init, NoCalls, CallTables
<1> QED
    BY <1>1, <1>2, <1>3 DEF Init, TypeOK, RunStates, Breakers, Down, CallTables

LEMMA TypeStep == TypeOK /\ [Next]_vars => TypeOK'
<1> SUFFICES ASSUME TypeOK, [Next]_vars PROVE TypeOK'
    OBVIOUS
<1>b. breaker \in [Deps -> Breakers]
    BY DEF TypeOK, Breakers
<1>n. CortexAssumption
    BY CortexAssumption
<1>1. ASSUME NEW p \in Posts, Post(p) PROVE TypeOK'
    BY <1>1 DEF Post, TypeOK, RunStates, checks, calls, world
<1>2. ASSUME NEW p \in Posts, Begin(p) PROVE TypeOK'
  <2>1. call' \in CallTables
    BY <1>2 DEF Begin, TypeOK, AllQueued, CallTables
  <2> QED
    BY <1>2, <2>1 DEF Begin, TypeOK, RunStates, checks, world, CallTables
<1>3. ASSUME NEW p \in Posts, Publish(p) PROVE TypeOK'
  <2>1. step' \in [Deps -> 0 .. Resources]
    BY <1>3, <1>n DEF Publish, CortexAssumption
  <2> QED
    BY <1>3, <2>1 DEF Publish, TypeOK, RunStates, checks, world, Outcome
<1>4. ASSUME NEW p \in Posts, Release(p) PROVE TypeOK'
    BY <1>4 DEF Release, TypeOK, RunStates, checks, calls, world
<1>5. ASSUME NEW w \in Callers, NEW d \in Deps, Enter(w, d) PROVE TypeOK'
    <2>1. breaker' \in [Deps -> Breakers]
        BY <1>5, <1>b, AdmittedType DEF Enter
    <2>2. \E s \in {"flight", "refused"} : call' = [call EXCEPT ![w][d] = s]
        BY <1>5 DEF Enter
    <2>3. call' \in CallTables
        BY <2>2 DEF TypeOK, CallTables
    <2> QED
        BY <1>5, <2>1, <2>3 DEF Enter, TypeOK, server, checks, world, Breakers, CallTables
<1>6. ASSUME NEW p \in Posts, NEW d \in Deps, Provide(p, d) PROVE TypeOK'
    <2>1. step[d] + 1 \in 0 .. Resources
        BY <1>6, <1>n DEF Provide, TypeOK, Needed, CortexAssumption
    <2> QED
        BY <1>6, <2>1 DEF Provide, Created, TypeOK, server, checks
<1>7. ASSUME NEW w \in Callers, NEW d \in Deps, Answer(w, d) PROVE TypeOK'
    <2>1. breaker' \in [Deps -> Breakers]
        BY <1>7, <1>b, ReportedType DEF Answer
    <2> QED
        BY <1>7, <2>1 DEF Answer, TypeOK, server, checks, world, Breakers
<1>8. ASSUME NEW w \in Callers, NEW d \in Deps, GiveUp(w, d) PROVE TypeOK'
    <2>1. breaker' \in [Deps -> Breakers]
        BY <1>8, <1>b, ReportedType DEF GiveUp
    <2>2. made' \in [Deps -> 0 .. Resources]
        BY <1>8, <1>n DEF GiveUp, Created, TypeOK, Needed, CortexAssumption
    <2> QED
        BY <1>8, <2>1, <2>2 DEF GiveUp, TypeOK, server, checks, Breakers
<1>9. ASSUME NEW h \in Healths, DeepHealth(h) PROVE TypeOK'
    BY <1>9 DEF DeepHealth, TypeOK, server, world, Callers, AllQueued
<1>10. ASSUME NEW h \in Healths, Disconnect(h) \/ Reply(h) PROVE TypeOK'
    BY <1>10 DEF Disconnect, Reply, TypeOK, server, calls, world
<1>11. ASSUME NEW d \in Deps, CoolDown(d) PROVE TypeOK'
    <2>1. breaker' \in [Deps -> Breakers]
        BY <1>11, <1>b, NewType DEF CoolDown, States
    <2> QED
        BY <1>11, <2>1 DEF CoolDown, TypeOK, server, checks, world, Breakers
<1>12. ASSUME NEW d \in Deps, Change(d) PROVE TypeOK'
    BY <1>12 DEF Change, TypeOK, server, checks, calls
<1>13. CASE Restart
    <2>1. breaker' \in [Deps -> Breakers]
        BY <1>13, NewType DEF Restart, States
    <2>2. step' \in [Deps -> 0 .. Resources]
        BY <1>13, <1>n DEF Restart, CortexAssumption
    <2>3. call' \in CallTables
        BY <1>13 DEF Restart, NoCalls, CallTables
    <2> QED
        BY <1>13, <2>1, <2>2, <2>3 DEF Restart, TypeOK, RunStates, Down, world, Breakers, CallTables
<1>14. CASE UNCHANGED vars
    BY <1>14 DEF vars, server, checks, calls, world, TypeOK
<1> QED
    BY <1>1, <1>2, <1>3, <1>4, <1>5, <1>6, <1>7, <1>8, <1>9, <1>10, <1>11, <1>12, <1>13, <1>14
        DEF Next, Bootstrap, Client

\* Every reachable state is well typed; among others a breaker never counts more
\* failures than it tolerates.
THEOREM TypeCorrect == Spec => []TypeOK
BY InitType, TypeStep, PTL DEF Spec

-----------------------------------------------------------------------------
(* Which steps touch what. *)

\* The state of a run changes by its own steps and by a restart.
LEMMA RunStep ==
    [Next]_vars => \/ \E p \in Posts : Post(p) \/ Bootstrap(p)
                   \/ Restart
                   \/ UNCHANGED server
BY DEF Next, vars, Client, Enter, Provide, Answer, GiveUp, DeepHealth, Disconnect, Reply,
    CoolDown, Change

-----------------------------------------------------------------------------
(* One bootstrap at a time. *)

\* The flag is up while there is a run, and there is one run only, the last.
Flag ==
    /\ inProgress <=> \E p \in Posts : Active(p)
    /\ \A p \in Posts : Active(p) => latest = {p}

LEMMA FlagStep == TypeOK /\ Flag /\ [Next]_vars => Flag'
<1> SUFFICES ASSUME TypeOK, Flag, [Next]_vars PROVE Flag'
    OBVIOUS
<1> USE DEF Flag, Active, TypeOK
<1>1. ASSUME NEW p \in Posts, Post(p) PROVE Flag'
    BY <1>1 DEF Post
<1>2. ASSUME NEW p \in Posts, Begin(p) PROVE Flag'
    BY <1>2 DEF Begin
<1>3. ASSUME NEW p \in Posts, Publish(p) PROVE Flag'
    BY <1>3 DEF Publish
<1>4. ASSUME NEW p \in Posts, Release(p) PROVE Flag'
    BY <1>4 DEF Release
<1>5. CASE Restart
    BY <1>5 DEF Restart
<1>6. CASE UNCHANGED server
    BY <1>6 DEF server
<1> QED
    BY <1>1, <1>2, <1>3, <1>4, <1>5, <1>6, RunStep DEF Bootstrap

LEMMA GateStep == TypeOK /\ Flag /\ [Next]_vars => [Gate!Next]_(Gate!gateVars)
<1> SUFFICES ASSUME TypeOK, Flag, [Next]_vars PROVE Gate!Next \/ UNCHANGED Gate!gateVars
    OBVIOUS
<1> DEFINE active == {p \in Posts : Active(p)}
<1> USE DEF Flag, Active, TypeOK
<1>1. ASSUME NEW p \in Posts, Post(p) PROVE UNCHANGED Gate!gateVars
    BY <1>1 DEF Post, Gate!gateVars
<1>2. ASSUME NEW p \in Posts, Begin(p) PROVE Gate!Start(p) \/ UNCHANGED Gate!gateVars
    BY <1>2 DEF Begin, Gate!Start, Gate!gateVars
<1>3. ASSUME NEW p \in Posts, Publish(p) PROVE Gate!Conclude
    BY <1>3 DEF Publish, Gate!Conclude
<1>4. ASSUME NEW p \in Posts, Release(p) PROVE Gate!End
  <2>1. active = {p}
    BY <1>4 DEF Release
  <2>2. run'[p] = "done" /\ \A q \in Posts \ {p} : run'[q] = run[q]
    BY <1>4 DEF Release
  <2>3. \A q \in Posts \ {p} : run[q] \notin {"running", "published"}
    BY <2>1
  <2> QED
    BY <1>4, <2>1, <2>2, <2>3 DEF Release, Gate!End
<1>5. ASSUME Restart PROVE Gate!Restart
  <2> DEFINE gone == {p \in Posts : run[p] = "spawned"}
             past == {p \in Posts : run[p] \in {"done", "killed"}}
  <2>1. \A p \in Posts : run'[p] = IF run[p] \in {"spawned", "running", "published"}
                                  THEN "killed" ELSE run[p]
    BY <1>5 DEF Restart
  <2>2. past' = past \union active \union gone
    BY <2>1
  <2>3. active' = {} /\ ~\E p \in Posts : run'[p] = "published"
    BY <2>1
  <2> QED
    BY <1>5, <2>2, <2>3 DEF Restart, Gate!Restart
<1>6. ASSUME UNCHANGED server PROVE UNCHANGED Gate!gateVars
    BY <1>6 DEF server, Gate!gateVars
<1> QED
    BY <1>1, <1>2, <1>3, <1>4, <1>5, <1>6, RunStep DEF Bootstrap, Gate!Next

\* Bootstrap runs exclude one another, none starts twice, and readiness changes
\* at the end of a run only: the server implements BootstrapGate.
THEOREM BootstrapsAreExclusive == Spec => OneBootstrapAtATime
<1>1. Init => TypeOK /\ Flag /\ Gate!Init
    BY InitType DEF Init, Flag, Active, Gate!Init
<1>2. TypeOK /\ Flag /\ [Next]_vars => (TypeOK /\ Flag)'
    BY TypeStep, FlagStep
<1>3. TypeOK /\ Flag /\ [Next]_vars => [Gate!Next]_(Gate!gateVars)
    BY GateStep
<1> QED
    BY <1>1, <1>2, <1>3, PTL DEF Spec, OneBootstrapAtATime, Gate!Spec

-----------------------------------------------------------------------------
(* Readiness. *)

\* The calls of a run that has ended stay as they are while it is the last one.
LEMMA CallStays ==
    ASSUME TypeOK, [Next]_vars, NEW p \in Posts, run[p] \in {"published", "done"},
           latest' = {p}, Returned(p)
    PROVE  call'[p] = call[p]
<1> USE DEF TypeOK
<1>1. ASSUME NEW q \in Posts, Post(q) \/ Publish(q) \/ Release(q) PROVE call' = call
    BY <1>1 DEF Post, Publish, Release, calls
<1>2. ASSUME NEW q \in Posts, Begin(q) PROVE call'[p] = call[p]
    BY <1>2 DEF Begin, Callers
<1>3. ASSUME NEW w \in Callers, NEW d \in Deps, Enter(w, d) PROVE call'[p] = call[p]
    BY <1>3 DEF Enter, Returned, Callers
<1>4. ASSUME NEW w \in Callers, NEW d \in Deps, Answer(w, d) \/ GiveUp(w, d)
      PROVE  call'[p] = call[p]
    BY <1>4 DEF Answer, GiveUp, Returned, Callers
<1>5. ASSUME NEW w \in Posts, NEW d \in Deps, Provide(w, d) PROVE call' = call
    BY <1>5 DEF Provide
<1>6. ASSUME NEW h \in Healths, DeepHealth(h) PROVE call'[p] = call[p]
    BY <1>6, CortexAssumption DEF DeepHealth, Callers, CortexAssumption
<1>7. ASSUME NEW h \in Healths, Disconnect(h) \/ Reply(h) PROVE call' = call
    BY <1>7 DEF Disconnect, Reply, calls
<1>8. ASSUME NEW d \in Deps, CoolDown(d) \/ Change(d) PROVE call' = call
    BY <1>8 DEF CoolDown, Change, calls
<1>9. CASE UNCHANGED vars
    BY <1>9 DEF vars, calls
<1>10. ~Restart
    BY DEF Restart
<1> QED
    BY <1>1, <1>2, <1>3, <1>4, <1>5, <1>6, <1>7, <1>8, <1>9, <1>10 DEF Next, Bootstrap, Client

\* The result that readiness is read from belongs to the last run once it ended.
Results ==
    /\ latest = {} => lastResult = "none"
    /\ latest = {} \/ \E p \in Posts : latest = {p}
    /\ \A p \in Posts : latest = {p} =>
          /\ run[p] \in {"running", "published", "done"}
          /\ run[p] \in {"published", "done"} => Returned(p) /\ lastResult = Outcome(p)

LEMMA ResultsStep == TypeOK /\ Flag /\ Results /\ [Next]_vars => Results'
<1> SUFFICES ASSUME TypeOK, Flag, Results, [Next]_vars PROVE Results'
    OBVIOUS
<1>type. run \in [Posts -> RunStates]
    BY DEF TypeOK
<1>kept. ASSUME NEW p \in Posts, latest = {p}, latest' = {p}, run[p] \in {"published", "done"},
                lastResult' = lastResult
         PROVE  (Returned(p) /\ lastResult = Outcome(p))'
  <2>1. Returned(p) /\ lastResult = Outcome(p) /\ call'[p] = call[p]
    BY <1>kept, CallStays DEF Results
  <2> QED
    BY <1>kept, <2>1 DEF Returned, Outcome
<1>1. ASSUME NEW q \in Posts, Post(q) PROVE Results'
  <2>1. /\ UNCHANGED <<latest, lastResult>>
        /\ \A p \in Posts : run'[p] = run[p] \/ run[p] = "idle"
    BY <1>1, <1>type DEF Post
  <2>2. \A p \in Posts : latest = {p} => run'[p] = run[p]
    BY <2>1 DEF Results
  <2> QED
    BY <1>kept, <2>1, <2>2 DEF Results
<1>2. ASSUME NEW q \in Posts, Begin(q) PROVE Results'
  <2>1. CASE inProgress
    <3>1. UNCHANGED <<latest, lastResult>> /\ \A p \in Posts : run'[p] = run[p] \/ run[p] = "spawned"
      BY <1>2, <1>type, <2>1 DEF Begin
    <3>2. \A p \in Posts : latest = {p} => run'[p] = run[p]
      BY <3>1 DEF Results
    <3> QED
      BY <1>kept, <3>1, <3>2 DEF Results
  <2>2. CASE ~inProgress
    BY <1>2, <1>type, <2>2 DEF Begin, Results
  <2> QED
    BY <2>1, <2>2
<1>3. ASSUME NEW q \in Posts, Publish(q) PROVE Results'
  <2>1. latest = {q} /\ latest' = {q} /\ run'[q] = "published"
    BY <1>3, <1>type DEF Publish, Flag, Active
  <2>2. (Returned(q) /\ lastResult = Outcome(q))'
    BY <1>3 DEF Publish, Returned, Outcome
  <2> QED
    BY <2>1, <2>2 DEF Results
<1>4. ASSUME NEW q \in Posts, Release(q) PROVE Results'
  <2>1. latest = {q} /\ UNCHANGED <<latest, lastResult>> /\ run'[q] = "done"
    BY <1>4, <1>type DEF Release, Flag, Active
  <2>2. (Returned(q) /\ lastResult = Outcome(q))'
    BY <1>4, <1>kept, <2>1 DEF Release
  <2> QED
    BY <2>1, <2>2 DEF Results
<1>5. CASE Restart
    BY <1>5 DEF Restart, Results
<1>6. CASE UNCHANGED server
    BY <1>6, <1>kept DEF server, Results
<1> QED
    BY <1>1, <1>2, <1>3, <1>4, <1>5, <1>6, RunStep DEF Bootstrap

\* GET /ready between two runs tells how the last one ended, and "not ready"
\* before the first; neither a health check nor a late run changes this.
THEOREM ReadinessIsTheLastRun == Spec => []ReadyReflectsLatestRun
<1>1. Init => TypeOK /\ Flag /\ Results
    BY InitType DEF Init, Flag, Active, Results
<1>2. TypeOK /\ Flag /\ Results /\ [Next]_vars => (TypeOK /\ Flag /\ Results)'
    BY TypeStep, FlagStep, ResultsStep
<1>3. Flag /\ Results => ReadyReflectsLatestRun
    BY DEF Flag, Active, Results, ReadyReflectsLatestRun
<1> QED
    BY <1>1, <1>2, <1>3, PTL DEF Spec

-----------------------------------------------------------------------------
(* Provisioning. *)

\* A run has got no more than there is, and what it was told is there, is.
Provisions ==
    /\ \A d \in Deps : step[d] <= made[d] /\ made[d] <= Needed(d)
    /\ \A p \in Posts, d \in Deps :
          (run[p] = "running" /\ call[p][d] = "ok") => made[d] = Needed(d)

LEMMA ProvisionsStep ==
    TypeOK /\ Provisions /\ ReadyMeansProvisioned /\ [Next]_vars
        => (Provisions /\ ReadyMeansProvisioned)'
<1> SUFFICES ASSUME TypeOK, Provisions, ReadyMeansProvisioned, [Next]_vars
             PROVE  (Provisions /\ ReadyMeansProvisioned)'
    OBVIOUS
<1> DEFINE Goal == (Provisions /\ ReadyMeansProvisioned)'
<1>needed. \A d \in Deps : Needed(d) \in Nat
    BY CortexAssumption DEF Needed, CortexAssumption
<1>type. /\ step \in [Deps -> 0 .. Resources] /\ made \in [Deps -> 0 .. Resources]
         /\ run \in [Posts -> RunStates] /\ call \in CallTables
    BY DEF TypeOK, CallTables
<1>same. ASSUME UNCHANGED <<made, lastResult>>,
                \A d \in Deps : step'[d] = step[d] \/ step'[d] = 0,
                \A p \in Posts, d \in Deps :
                    (run'[p] = "running" /\ call'[p][d] = "ok")
                        => \/ run[p] = "running" /\ call[p][d] = "ok"
                           \/ step[d] = Needed(d)
         PROVE  Goal
  <2>1. \A d \in Deps : (step[d] <= made[d] /\ made[d] <= Needed(d))'
    BY <1>same, <1>type DEF Provisions
  <2>2. \A p \in Posts, d \in Deps : ((run[p] = "running" /\ call[p][d] = "ok") => made[d] = Needed(d))'
    BY <1>same, <1>type, <1>needed DEF Provisions
  <2> QED
    BY <1>same, <2>1, <2>2 DEF Provisions, ReadyMeansProvisioned
<1>1. ASSUME NEW q \in Posts, Post(q) PROVE Goal
    BY <1>1, <1>same, <1>type DEF Post, calls, world
<1>2. ASSUME NEW q \in Posts, Begin(q) PROVE Goal
  <2>1. \A p \in Posts, d \in Deps : (run'[p] = "running" /\ call'[p][d] = "ok")
                                        => run[p] = "running" /\ call[p][d] = "ok"
    BY <1>2, <1>type DEF Begin, AllQueued, CallTables, Callers
  <2> QED
    BY <1>2, <1>same, <2>1 DEF Begin, world
<1>3. ASSUME NEW q \in Posts, Publish(q) PROVE Goal
  <2>1. lastResult' = "ok" => \A d \in Deps : made[d] = Needed(d)
    BY <1>3 DEF Publish, Outcome, Provisions
  <2>2. \A d \in Deps : step'[d] = 0
    BY <1>3 DEF Publish
  <2>3. \A p \in Posts : run'[p] = "running" => run[p] = "running"
    BY <1>3, <1>type DEF Publish
  <2>4. UNCHANGED <<made, call>>
    BY <1>3 DEF Publish, world
  <2> QED
    BY <2>1, <2>2, <2>3, <2>4, <1>type DEF Provisions, ReadyMeansProvisioned, Needed
<1>4. ASSUME NEW q \in Posts, Release(q) PROVE Goal
    BY <1>4, <1>same, <1>type DEF Release, calls, world
<1>5. ASSUME NEW w \in Callers, NEW d \in Deps, Enter(w, d) PROVE Goal
  <2>1. \E s \in {"flight", "refused"} : call' = [call EXCEPT ![w][d] = s]
    BY <1>5 DEF Enter
  <2>2. \A p \in Posts, e \in Deps : call'[p][e] = "ok" => call[p][e] = "ok"
    BY <2>1, <1>type DEF CallTables, Callers
  <2> QED
    BY <1>5, <1>same, <2>2 DEF Enter, server, world
<1>6. ASSUME NEW q \in Posts, NEW d \in Deps, Provide(q, d) PROVE Goal
  <2>1. UNCHANGED <<run, lastResult, call>> /\ step[d] < Needed(d)
    BY <1>6 DEF Provide, server
  <2>2. \A e \in Deps \ {d} : step'[e] = step[e] /\ made'[e] = made[e]
    BY <1>6, <1>type DEF Provide, Created
  <2>3. step'[d] = step[d] + 1
    BY <1>6, <1>type DEF Provide
  <2>4. made'[d] = IF made[d] <= step[d] THEN step[d] + 1 ELSE made[d]
    BY <1>6, <1>type DEF Provide, Created
  <2>5. \A e \in Deps : step'[e] <= made'[e] /\ made'[e] <= Needed(e)
    BY <2>1, <2>2, <2>3, <2>4, <1>type, <1>needed DEF Provisions
  <2>6. \A e \in Deps : made[e] = Needed(e) => made'[e] = Needed(e)
    BY <2>1, <2>2, <2>4, <1>type, <1>needed
  <2> QED
    BY <2>1, <2>5, <2>6 DEF Provisions, ReadyMeansProvisioned, Needed
<1>7. ASSUME NEW w \in Callers, NEW d \in Deps, Answer(w, d) PROVE Goal
    BY <1>7, <1>same, <1>type DEF Answer, server, world, CallTables, Callers
<1>8. ASSUME NEW w \in Callers, NEW d \in Deps, GiveUp(w, d) PROVE Goal
  <2>1. UNCHANGED <<run, lastResult, step>>
    BY <1>8 DEF GiveUp, server
  <2>2. \A p \in Posts, e \in Deps : call'[p][e] = "ok" => call[p][e] = "ok"
    BY <1>8, <1>type DEF GiveUp, CallTables, Callers
  <2>3. \A e \in Deps :
          \/ made'[e] = made[e]
          \/ made[e] <= step[e] /\ step[e] < Needed(e) /\ made'[e] = step[e] + 1
    BY <1>8, <1>type DEF GiveUp, Created
  <2>4. \A e \in Deps :
          /\ step[e] <= made'[e] /\ made'[e] <= Needed(e)
          /\ made[e] = Needed(e) => made'[e] = Needed(e)
    BY <2>3, <1>type, <1>needed DEF Provisions
  <2>5. Provisions'
    BY <2>1, <2>2, <2>4 DEF Provisions, Needed
  <2>6. ReadyMeansProvisioned'
    BY <2>1, <2>4 DEF ReadyMeansProvisioned, Needed
  <2> QED
    BY <2>5, <2>6
<1>9. ASSUME NEW h \in Healths, DeepHealth(h) PROVE Goal
    BY <1>9, <1>same, <1>type, CortexAssumption
        DEF DeepHealth, server, world, CallTables, Callers, CortexAssumption
<1>10. ASSUME NEW h \in Healths, Disconnect(h) \/ Reply(h) PROVE Goal
    BY <1>10, <1>same DEF Disconnect, Reply, server, calls, world
<1>11. ASSUME NEW d \in Deps, CoolDown(d) \/ Change(d) PROVE Goal
    BY <1>11, <1>same DEF CoolDown, Change, server, calls, world
<1>12. CASE Restart
  <2>1. \A p \in Posts : run'[p] # "running"
    BY <1>12, <1>type DEF Restart
  <2>2. lastResult' = "none" /\ UNCHANGED made /\ \A d \in Deps : step'[d] = 0
    BY <1>12 DEF Restart, world
  <2> QED
    BY <2>1, <2>2, <1>type DEF Provisions, ReadyMeansProvisioned, Needed
<1>13. CASE UNCHANGED vars
    BY <1>13, <1>same DEF vars, server, calls, world
<1> QED
    BY <1>1, <1>2, <1>3, <1>4, <1>5, <1>6, <1>7, <1>8, <1>9, <1>10, <1>11, <1>12, <1>13
        DEF Next, Bootstrap, Client

\* When cortex says it is ready, everything it has to create exists, after any
\* number of failed, repeated and killed runs.
THEOREM ReadyIsProvisioned == Spec => []ReadyMeansProvisioned
<1>1. Init => TypeOK /\ Provisions /\ ReadyMeansProvisioned
  <2> SUFFICES ASSUME Init PROVE Provisions /\ ReadyMeansProvisioned
    BY InitType
  <2> QED
    BY CortexAssumption DEF Init, Provisions, ReadyMeansProvisioned, Needed, CortexAssumption
<1>2. TypeOK /\ Provisions /\ ReadyMeansProvisioned /\ [Next]_vars
        => (TypeOK /\ Provisions /\ ReadyMeansProvisioned)'
    BY TypeStep, ProvisionsStep
<1> QED
    BY <1>1, <1>2, PTL DEF Spec

-----------------------------------------------------------------------------
(* Failures. *)

\* Every dependency that is not up is a suspect, and so is one whose call the
\* client of its health check will make fail.
Suspects ==
    /\ Down \subseteq suspects
    /\ \A h \in cancelled : health[h] = "waiting"
    /\ \A h \in cancelled, d \in Deps \ Deaf :
          call[h][d] \in {"queued", "flight"} => d \in suspects

LEMMA SuspectsStep == TypeOK /\ Suspects /\ [Next]_vars => Suspects'
<1> SUFFICES ASSUME TypeOK, Suspects, [Next]_vars PROVE Suspects'
    OBVIOUS
<1>type. /\ call \in CallTables /\ cancelled \in SUBSET Healths
         /\ health \in [Healths -> {"idle", "waiting", "healthy", "unhealthy", "killed"}]
         /\ dep \in [Deps -> {"up", "down", "hung"}]
    BY DEF TypeOK, CallTables
<1>same. ASSUME UNCHANGED <<dep, suspects, health, cancelled>>,
                \A h \in Healths, d \in Deps :
                    call'[h][d] \in {"queued", "flight"} => call[h][d] \in {"queued", "flight"}
         PROVE  Suspects'
    BY <1>same, <1>type DEF Suspects, Down
<1>1. ASSUME NEW q \in Posts, Post(q) \/ Publish(q) \/ Release(q) PROVE Suspects'
    BY <1>1, <1>same DEF Post, Publish, Release, checks, calls, world
<1>2. ASSUME NEW q \in Posts, Begin(q) PROVE Suspects'
    BY <1>2, <1>same, <1>type, CortexAssumption
        DEF Begin, checks, world, CallTables, Callers, CortexAssumption
<1>3. ASSUME NEW w \in Callers, NEW d \in Deps, Enter(w, d) \/ Answer(w, d) \/ GiveUp(w, d)
      PROVE  Suspects'
  <2>1. /\ call[w][d] \in {"queued", "flight"}
        /\ \E s \in {"flight", "ok", "error", "refused"} : call' = [call EXCEPT ![w][d] = s]
        /\ UNCHANGED <<dep, suspects, health, cancelled>>
    BY <1>3 DEF Enter, Answer, GiveUp, checks, world
  <2> QED
    BY <2>1, <1>same, <1>type DEF CallTables, Callers
<1>4. ASSUME NEW q \in Posts, NEW d \in Deps, Provide(q, d) PROVE Suspects'
    BY <1>4, <1>same DEF Provide, checks
<1>5. ASSUME NEW h \in Healths, DeepHealth(h) PROVE Suspects'
  <2>1. h \notin cancelled
    BY <1>5 DEF DeepHealth, Suspects
  <2>2. \A g \in cancelled : call'[g] = call[g] /\ health'[g] = health[g]
    BY <1>5, <2>1, <1>type DEF DeepHealth, CallTables, Callers
  <2> QED
    BY <1>5, <2>2 DEF DeepHealth, Suspects, Down, world
<1>6. ASSUME NEW h \in Healths, Disconnect(h) PROVE Suspects'
    BY <1>6, <1>type DEF Disconnect, Suspects, Down, calls, world
<1>7. ASSUME NEW h \in Healths, Reply(h) PROVE Suspects'
    BY <1>7, <1>type DEF Reply, Suspects, Down, calls, world
<1>8. ASSUME NEW d \in Deps, CoolDown(d) PROVE Suspects'
    BY <1>8, <1>same DEF CoolDown, checks, world
<1>9. ASSUME NEW d \in Deps, Change(d) PROVE Suspects'
  <2>1. suspects \subseteq suspects' /\ UNCHANGED <<checks, call>>
    BY <1>9 DEF Change, calls
  <2>2. \A e \in Deps : dep'[e] = dep[e] \/ (e = d /\ (dep'[e] = "up" \/ e \in suspects'))
    BY <1>9, <1>type DEF Change
  <2> QED
    BY <2>1, <2>2 DEF Suspects, Down, checks
<1>10. CASE Restart
    BY <1>10 DEF Restart, Suspects, Down, world
<1>11. CASE UNCHANGED vars
    BY <1>11, <1>same DEF vars, checks, calls, world
<1> QED
    BY <1>1, <1>2, <1>3, <1>4, <1>5, <1>6, <1>7, <1>8, <1>9, <1>10, <1>11
        DEF Next, Bootstrap, Client

\* No failure of d: what FailuresAreOwn says of a dependency that is no suspect.
Clean(d) ==
    /\ Fresh(breaker[d])
    /\ \A w \in Callers : call[w][d] \notin {"error", "refused"}

LEMMA CleanStep ==
    ASSUME TypeOK, Suspects, [Next]_vars, NEW d \in Deps, d \notin suspects, Clean(d),
           ~Restart
    PROVE  Clean(d)'
<1>type. breaker \in [Deps -> Breakers] /\ call \in CallTables
    BY DEF TypeOK, Breakers, CallTables
<1>same. ASSUME breaker'[d] = breaker[d],
                \A w \in Callers : call'[w][d] = call[w][d] \/ call'[w][d] = "queued"
         PROVE  Clean(d)'
    BY <1>same DEF Clean, Fresh
<1>1. ASSUME NEW q \in Posts, Post(q) \/ Publish(q) \/ Release(q) PROVE Clean(d)'
    BY <1>1, <1>same DEF Post, Publish, Release, calls
<1>2. ASSUME NEW q \in Posts, Begin(q) PROVE Clean(d)'
    BY <1>2, <1>same, <1>type DEF Begin, CallTables, AllQueued
<1>3. ASSUME NEW w \in Callers, NEW e \in Deps, Enter(w, e) PROVE Clean(d)'
  <2>1. CASE e # d
    <3>1. breaker'[d] = breaker[d]
      BY <1>3, <1>type, <2>1 DEF Enter
    <3>2. \E s \in {"flight", "refused"} : call' = [call EXCEPT ![w][e] = s]
      BY <1>3 DEF Enter
    <3> QED
      BY <3>1, <3>2, <1>same, <1>type, <2>1 DEF CallTables
  <2>2. CASE e = d
    <3>1. /\ Admits(breaker[d]) /\ Fresh(Admitted(breaker[d], w))
      BY <1>type, FreshStays DEF Clean
    <3>2. breaker' = [breaker EXCEPT ![d] = Admitted(@, w)] /\ call' = [call EXCEPT ![w][d] = "flight"]
      BY <1>3, <2>2, <3>1 DEF Enter
    <3> QED
      BY <3>1, <3>2, <1>type DEF Clean, CallTables
  <2> QED
    BY <2>1, <2>2
<1>4. ASSUME NEW q \in Posts, NEW e \in Deps, Provide(q, e) PROVE Clean(d)'
    BY <1>4, <1>same DEF Provide
<1>5. ASSUME NEW w \in Callers, NEW e \in Deps, Answer(w, e) PROVE Clean(d)'
  <2>1. CASE e # d
    BY <1>5, <1>same, <1>type, <2>1 DEF Answer, CallTables
  <2>2. CASE e = d
    <3>1. Fresh(Reported(breaker[d], w, TRUE))
      BY <1>type, FreshStays DEF Clean
    <3> QED
      BY <1>5, <2>2, <3>1, <1>type DEF Answer, Clean, CallTables
  <2> QED
    BY <2>1, <2>2
<1>6. ASSUME NEW w \in Callers, NEW e \in Deps, GiveUp(w, e) PROVE Clean(d)'
  <2>1. e # d
    BY <1>6 DEF GiveUp, Suspects, Down
  <2> QED
    BY <1>6, <1>same, <1>type, <2>1 DEF GiveUp, CallTables
<1>7. ASSUME NEW h \in Healths, DeepHealth(h) PROVE Clean(d)'
    BY <1>7, <1>same, <1>type DEF DeepHealth, CallTables, AllQueued
<1>8. ASSUME NEW h \in Healths, Disconnect(h) \/ Reply(h) PROVE Clean(d)'
    BY <1>8, <1>same DEF Disconnect, Reply, calls
<1>9. ASSUME NEW e \in Deps, CoolDown(e) PROVE Clean(d)'
  <2>1. e # d
    BY <1>9 DEF CoolDown, Clean, Fresh
  <2> QED
    BY <1>9, <1>same, <1>type, <2>1 DEF CoolDown
<1>10. ASSUME NEW e \in Deps, Change(e) PROVE Clean(d)'
    BY <1>10, <1>same DEF Change, calls
<1>11. CASE UNCHANGED vars
    BY <1>11, <1>same DEF vars, calls
<1> QED
    BY <1>1, <1>2, <1>3, <1>4, <1>5, <1>6, <1>7, <1>8, <1>9, <1>10, <1>11
        DEF Next, Bootstrap, Client

\* The failure of one dependency, and the breaker it opens, never makes a call to
\* another one fail or count: runs and health checks isolate them.
THEOREM DependenciesAreIsolated == Spec => []FailuresAreOwn
<1>1. Init => TypeOK /\ Suspects /\ FailuresAreOwn
  <2> SUFFICES ASSUME Init PROVE Suspects /\ FailuresAreOwn
    BY InitType
  <2> QED
    BY DEF Init, Suspects, FailuresAreOwn, New, NoCalls
<1>2. TypeOK /\ Suspects /\ FailuresAreOwn /\ [Next]_vars => FailuresAreOwn'
  <2> SUFFICES ASSUME TypeOK, Suspects, FailuresAreOwn, [Next]_vars PROVE FailuresAreOwn'
    OBVIOUS
  <2>1. CASE Restart
    BY <2>1 DEF Restart, FailuresAreOwn, New, NoCalls
  <2>2. CASE ~Restart
    <3>1. suspects \subseteq suspects'
      BY <2>2 DEF Next, vars, Bootstrap, Client, Post, Begin, Publish, Release, Enter, Provide,
          Answer, GiveUp, CoolDown, DeepHealth, Disconnect, Reply, Change
    <3>2. \A d \in Deps : d \notin suspects' => Clean(d)'
      BY <2>2, <3>1, CleanStep DEF FailuresAreOwn, Clean, Fresh
    <3> QED
      BY <3>2 DEF FailuresAreOwn, Clean, Fresh
  <2> QED
    BY <2>1, <2>2
<1>3. TypeOK /\ Suspects /\ [Next]_vars => (TypeOK /\ Suspects)'
    BY TypeStep, SuspectsStep
<1> QED
    BY <1>1, <1>2, <1>3, PTL DEF Spec

-----------------------------------------------------------------------------
(* What a breaker waits for. *)

\* Nobody calls for a run or a health check that is not there or is over.
CallsAreOwned ==
    /\ \A p \in Posts, d \in Deps : call[p][d] \in {"queued", "flight"} => run[p] = "running"
    /\ \A h \in Healths, d \in Deps : call[h][d] \in {"queued", "flight"} => health[h] = "waiting"

\* The calls a breaker counts are in flight: an open one has none, a half-open
\* one at most the trial, and none waits for a report that was given already.
BreakersWaitForCalls ==
    \A d \in Deps :
        /\ \A w \in breaker[d].calls : call[w][d] = "flight"
        /\ breaker[d].state = "open" => breaker[d].calls = {}
        /\ breaker[d].state = "half-open" => \A v, w \in breaker[d].calls : v = w

LEMMA OwnedStep == TypeOK /\ CallsAreOwned /\ [Next]_vars => CallsAreOwned'
<1> SUFFICES ASSUME TypeOK, CallsAreOwned, [Next]_vars PROVE CallsAreOwned'
    OBVIOUS
<1>type. /\ call \in CallTables /\ run \in [Posts -> RunStates]
         /\ health \in [Healths -> {"idle", "waiting", "healthy", "unhealthy", "killed"}]
         /\ Posts \intersect Healths = {}
    BY CortexAssumption DEF TypeOK, CallTables, CortexAssumption
<1>same. ASSUME \A p \in Posts : run[p] = "running" => run'[p] = "running",
                \A h \in Healths : health[h] = "waiting" => health'[h] = "waiting",
                \A w \in Callers, d \in Deps :
                    call'[w][d] \in {"queued", "flight"} => call[w][d] \in {"queued", "flight"}
         PROVE  CallsAreOwned'
    BY <1>same DEF CallsAreOwned, Callers
<1>1. ASSUME NEW p \in Posts, Post(p) \/ Release(p) PROVE CallsAreOwned'
    BY <1>1, <1>same, <1>type DEF Post, Release, checks, calls
<1>2. ASSUME NEW p \in Posts, Begin(p) PROVE CallsAreOwned'
  <2>1. CASE inProgress
    BY <1>2, <1>same, <1>type, <2>1 DEF Begin, checks
  <2>2. CASE ~inProgress
    <3>1. /\ run'[p] = "running" /\ \A q \in Posts \ {p} : run'[q] = run[q]
          /\ \A w \in Callers \ {p} : call'[w] = call[w]
          /\ UNCHANGED health
      BY <1>2, <1>type, <2>2 DEF Begin, checks, CallTables, Callers
    <3>2. \A h \in Healths : h # p
      BY <1>type
    <3> QED
      BY <3>1, <3>2 DEF CallsAreOwned, Callers
  <2> QED
    BY <2>1, <2>2
<1>3. ASSUME NEW p \in Posts, Publish(p) PROVE CallsAreOwned'
  <2>1. /\ \A q \in Posts \ {p} : run'[q] = run[q]
        /\ \A d \in Deps : call[p][d] \notin {"queued", "flight"}
        /\ UNCHANGED <<call, health>>
    BY <1>3, <1>type DEF Publish, Returned, checks
  <2> QED
    BY <2>1 DEF CallsAreOwned
<1>4. ASSUME NEW w \in Callers, NEW d \in Deps, Enter(w, d) \/ Answer(w, d) \/ GiveUp(w, d)
      PROVE  CallsAreOwned'
  <2>1. /\ call[w][d] \in {"queued", "flight"}
        /\ \E s \in {"flight", "ok", "error", "refused"} : call' = [call EXCEPT ![w][d] = s]
        /\ UNCHANGED <<run, health>>
    BY <1>4 DEF Enter, Answer, GiveUp, checks, server
  <2> QED
    BY <2>1, <1>same, <1>type DEF CallTables
<1>5. ASSUME NEW q \in Posts, NEW d \in Deps, Provide(q, d) PROVE CallsAreOwned'
    BY <1>5, <1>same DEF Provide, server, checks
<1>6. ASSUME NEW h \in Healths, DeepHealth(h) PROVE CallsAreOwned'
  <2>1. /\ health'[h] = "waiting" /\ \A g \in Healths \ {h} : health'[g] = health[g]
        /\ \A w \in Callers \ {h} : call'[w] = call[w]
        /\ UNCHANGED run
    BY <1>6, <1>type DEF DeepHealth, server, CallTables, Callers
  <2>2. \A p \in Posts : h # p
    BY <1>type
  <2> QED
    BY <2>1, <2>2 DEF CallsAreOwned, Callers
<1>7. ASSUME NEW h \in Healths, Disconnect(h) PROVE CallsAreOwned'
    BY <1>7, <1>same DEF Disconnect, server, calls
<1>8. ASSUME NEW h \in Healths, Reply(h) PROVE CallsAreOwned'
  <2>1. /\ \A g \in Healths \ {h} : health'[g] = health[g]
        /\ \A d \in Deps : call[h][d] \notin {"queued", "flight"}
        /\ UNCHANGED <<call, run>>
    BY <1>8, <1>type DEF Reply, Returned, server, calls
  <2> QED
    BY <2>1 DEF CallsAreOwned
<1>9. ASSUME NEW d \in Deps, CoolDown(d) \/ Change(d) PROVE CallsAreOwned'
    BY <1>9, <1>same DEF CoolDown, Change, server, checks, calls
<1>10. CASE Restart
    BY <1>10 DEF Restart, NoCalls, CallsAreOwned, Callers
<1>11. CASE UNCHANGED vars
    BY <1>11, <1>same DEF vars, server, checks, calls
<1> QED
    BY <1>1, <1>2, <1>3, <1>4, <1>5, <1>6, <1>7, <1>8, <1>9, <1>10, <1>11
        DEF Next, Bootstrap, Client

\* What a breaker may hold, apart from who is calling.
Calm(b) ==
    /\ b.state = "open" => b.calls = {}
    /\ b.state = "half-open" => \A v, w \in b.calls : v = w

LEMMA CalmStays ==
    ASSUME NEW b \in Breakers, Calm(b), NEW w \in Callers
    PROVE  /\ Admits(b) => Calm(Admitted(b, w)) /\ Admitted(b, w).calls = b.calls \union {w}
           /\ \A ok \in BOOLEAN : /\ Calm(Reported(b, w, ok))
                                  /\ Reported(b, w, ok).calls \subseteq b.calls \ {w}
<1>1. ASSUME Admits(b)
      PROVE  Calm(Admitted(b, w)) /\ Admitted(b, w).calls = b.calls \union {w}
  <2>1. Admitted(b, w) = [state |-> b.state, failures |-> b.failures, calls |-> b.calls \union {w}]
    BY DEF Admitted, Breakers
  <2> QED
    BY <1>1, <2>1 DEF Calm, Admits, Breakers, States
<1>2. ASSUME NEW ok \in BOOLEAN
      PROVE  Calm(Reported(b, w, ok)) /\ Reported(b, w, ok).calls \subseteq b.calls \ {w}
  <2>1. CASE w \notin b.calls
    BY <2>1 DEF Reported
  <2>2. \A state \in States : Calm(New(state)) /\ New(state).calls = {}
    BY DEF Calm, New
  <2>3. \A n : b.state # "half-open" => Calm(Ended(b, w, n)) /\ Ended(b, w, n).calls = b.calls \ {w}
    BY DEF Calm, Ended
  <2>4. CASE w \in b.calls /\ b.state = "half-open"
    BY <2>2, <2>4 DEF Reported, States
  <2>5. CASE w \in b.calls /\ b.state # "half-open" /\ ok
    BY <2>3, <2>5 DEF Reported
  <2>6. CASE w \in b.calls /\ b.state # "half-open" /\ ~ok
    BY <2>2, <2>3, <2>6 DEF Reported, States
  <2> QED
    BY <2>1, <2>4, <2>5, <2>6
<1> QED
    BY <1>1, <1>2

LEMMA BreakersStep ==
    TypeOK /\ CallsAreOwned /\ BreakersWaitForCalls /\ [Next]_vars => BreakersWaitForCalls'
<1> SUFFICES ASSUME TypeOK, CallsAreOwned, BreakersWaitForCalls, [Next]_vars,
                    NEW d \in Deps
             PROVE  /\ \A w \in breaker'[d].calls : call'[w][d] = "flight"
                    /\ Calm(breaker'[d])
    BY DEF BreakersWaitForCalls, Calm
<1> DEFINE Goal == /\ \A w \in breaker'[d].calls : call'[w][d] = "flight"
                   /\ Calm(breaker'[d])
<1>type. /\ breaker \in [Deps -> Breakers] /\ call \in CallTables
         /\ \A e \in Deps : breaker[e].calls \subseteq Callers
    BY DEF TypeOK, Breakers, CallTables
<1>calm. Calm(breaker[d]) /\ \A w \in breaker[d].calls : call[w][d] = "flight"
    BY DEF BreakersWaitForCalls, Calm
<1>same. ASSUME breaker'[d] = breaker[d],
                \A w \in Callers : call[w][d] = "flight" => call'[w][d] = "flight"
         PROVE  Goal
    BY <1>same, <1>type, <1>calm
<1> SUFFICES Goal
    OBVIOUS
<1> HIDE DEF Goal
<1>1. ASSUME NEW q \in Posts, Post(q) \/ Publish(q) \/ Release(q) PROVE Goal
    BY <1>1, <1>same DEF Post, Publish, Release, calls
<1>2. ASSUME NEW q \in Posts, Begin(q) PROVE Goal
  <2>1. call[q][d] # "flight"
    BY <1>2 DEF Begin, CallsAreOwned
  <2>2. \A w \in Callers \ {q} : call'[w] = call[w]
    BY <1>2, <1>type DEF Begin, CallTables
  <2> QED
    BY <1>2, <1>same, <2>1, <2>2 DEF Begin
<1>3. ASSUME NEW w \in Callers, NEW e \in Deps, Enter(w, e) PROVE Goal
  <2>1. /\ \E s \in {"flight", "refused"} : call' = [call EXCEPT ![w][e] = s]
        /\ call[w][e] # "flight"
    BY <1>3 DEF Enter
  <2>2. CASE breaker'[d] = breaker[d]
    BY <1>same, <1>type, <2>1, <2>2 DEF CallTables
  <2>3. CASE breaker'[d] # breaker[d]
    <3>1. /\ e = d /\ Admits(breaker[d]) /\ breaker'[d] = Admitted(breaker[d], w)
          /\ call' = [call EXCEPT ![w][d] = "flight"]
      BY <1>3, <1>type, <2>3 DEF Enter
    <3>2. Calm(breaker'[d]) /\ breaker'[d].calls = breaker[d].calls \union {w}
      BY <1>calm, <1>type, <3>1, CalmStays
    <3>3. \A v \in Callers : call'[v][d] = "flight" \/ call'[v][d] = call[v][d]
      BY <3>1, <1>type DEF CallTables
    <3>4. call'[w][d] = "flight"
      BY <3>1, <1>type DEF CallTables
    <3> QED
      BY <1>calm, <1>type, <3>2, <3>3, <3>4 DEF Goal
  <2> QED
    BY <2>2, <2>3
<1>4. ASSUME NEW w \in Callers, NEW e \in Deps, Answer(w, e) \/ GiveUp(w, e) PROVE Goal
  <2>1. /\ \E s \in {"ok", "error"} : call' = [call EXCEPT ![w][e] = s]
        /\ \E ok \in BOOLEAN : breaker' = [breaker EXCEPT ![e] = Reported(@, w, ok)]
    BY <1>4 DEF Answer, GiveUp
  <2>2. CASE e # d
    BY <1>same, <1>type, <2>1, <2>2 DEF CallTables
  <2>3. CASE e = d
    <3>1. Calm(breaker'[d]) /\ breaker'[d].calls \subseteq breaker[d].calls \ {w}
      BY <1>calm, <1>type, <2>1, <2>3, CalmStays
    <3>2. \A v \in Callers \ {w} : call'[v] = call[v]
      BY <2>1, <1>type DEF CallTables
    <3> QED
      BY <1>calm, <1>type, <3>1, <3>2 DEF Goal
  <2> QED
    BY <2>2, <2>3
<1>5. ASSUME NEW q \in Posts, NEW e \in Deps, Provide(q, e) PROVE Goal
    BY <1>5, <1>same DEF Provide
<1>6. ASSUME NEW h \in Healths, DeepHealth(h) PROVE Goal
  <2>1. call[h][d] # "flight"
    BY <1>6 DEF DeepHealth, CallsAreOwned
  <2>2. \A w \in Callers \ {h} : call'[w] = call[w]
    BY <1>6, <1>type DEF DeepHealth, CallTables
  <2> QED
    BY <1>6, <1>same, <2>1, <2>2 DEF DeepHealth
<1>7. ASSUME NEW h \in Healths, Disconnect(h) \/ Reply(h) PROVE Goal
    BY <1>7, <1>same DEF Disconnect, Reply, calls
<1>8. ASSUME NEW e \in Deps, CoolDown(e) PROVE Goal
  <2>1. CASE e # d
    BY <1>8, <1>same, <1>type, <2>1 DEF CoolDown
  <2>2. CASE e = d
    <3>1. breaker'[d] = New("half-open")
      BY <1>8, <1>type, <2>2 DEF CoolDown
    <3> QED
      BY <3>1 DEF Goal, New, Calm
  <2> QED
    BY <2>1, <2>2
<1>9. ASSUME NEW e \in Deps, Change(e) PROVE Goal
    BY <1>9, <1>same DEF Change, calls
<1>10. CASE Restart
    BY <1>10 DEF Restart, Goal, New, Calm
<1>11. CASE UNCHANGED vars
    BY <1>11, <1>same DEF vars, calls
<1> QED
    BY <1>1, <1>2, <1>3, <1>4, <1>5, <1>6, <1>7, <1>8, <1>9, <1>10, <1>11
        DEF Next, Bootstrap, Client

\* A breaker never refuses calls for the sake of a trial that is over: what it
\* counts is in flight and still to be reported, whatever runs, health checks and
\* changes of its state come between (gobreaker's Execute in the clients).
THEOREM TrialsAreInFlight == Spec => [](CallsAreOwned /\ BreakersWaitForCalls)
<1>1. Init => CallsAreOwned /\ BreakersWaitForCalls
    BY DEF Init, CallsAreOwned, BreakersWaitForCalls, NoCalls, New, Callers
<1>2. TypeOK /\ CallsAreOwned /\ BreakersWaitForCalls /\ [Next]_vars
        => (CallsAreOwned /\ BreakersWaitForCalls)'
    BY OwnedStep, BreakersStep
<1> QED
    BY <1>1, <1>2, TypeCorrect, PTL DEF Spec

-----------------------------------------------------------------------------
(* Termination. *)

\* What a call of a run or a health check has still to do: the resources it has
\* not got yet, then to be admitted and to return.
Pending(w, d) == call[w][d] \in {"queued", "flight"}
Missing(w, d) == IF w \in Posts /\ Pending(w, d) THEN Needed(d) - step[d] ELSE 0
Ahead(w, d) == IF call[w][d] = "queued" THEN 2 ELSE IF call[w][d] = "flight" THEN 1 ELSE 0

GoesDown(w, d) ==
    \/ Missing(w, d)' < Missing(w, d)
    \/ Missing(w, d)' = Missing(w, d) /\ Ahead(w, d)' < Ahead(w, d)
Stays(w, d) == Missing(w, d)' = Missing(w, d) /\ Ahead(w, d)' = Ahead(w, d)

Busy(w) == IF w \in Posts THEN run[w] = "running" ELSE health[w] = "waiting"

\* Every step of a client brings its call nearer to its end, and nothing that
\* happens elsewhere takes it farther away.
EveryStepCounts ==
    [][\A w \in Callers, d \in Deps : Busy(w) =>
           IF Client(w, d) THEN GoesDown(w, d) ELSE Stays(w, d) \/ GoesDown(w, d)]_vars

\* The order has no endless descent.
StepsAreCounted ==
    \A w \in Callers, d \in Deps : Missing(w, d) \in Nat /\ Ahead(w, d) \in Nat

\* The resources of the run in progress are within its need.
StepsAreNeeded == \A d \in Deps : step[d] <= Needed(d)

LEMMA NeededStep == TypeOK /\ StepsAreNeeded /\ [Next]_vars => StepsAreNeeded'
<1> SUFFICES ASSUME TypeOK, StepsAreNeeded, [Next]_vars, NEW d \in Deps
             PROVE  step'[d] <= Needed(d)
    BY DEF StepsAreNeeded, Needed
<1>type. step \in [Deps -> 0 .. Resources] /\ Needed(d) \in Nat
    BY CortexAssumption DEF TypeOK, Needed, CortexAssumption
<1>1. ASSUME NEW q \in Posts, NEW e \in Deps, Provide(q, e) PROVE step'[d] <= Needed(d)
    BY <1>1, <1>type DEF Provide, StepsAreNeeded
<1>2. ASSUME Restart \/ \E q \in Posts : Publish(q) PROVE step'[d] <= Needed(d)
    BY <1>2, <1>type DEF Restart, Publish
<1>3. ASSUME step' = step PROVE step'[d] <= Needed(d)
    BY <1>3 DEF StepsAreNeeded
<1>4. CASE \/ \E q \in Posts : Post(q) \/ Begin(q) \/ Release(q)
           \/ \E w \in Callers, e \in Deps : Enter(w, e) \/ Answer(w, e) \/ GiveUp(w, e)
           \/ \E h \in Healths : DeepHealth(h) \/ Disconnect(h) \/ Reply(h)
           \/ \E e \in Deps : CoolDown(e) \/ Change(e)
           \/ UNCHANGED vars
  <2>1. step' = step
    BY <1>4 DEF Post, Begin, Release, Enter, Answer, GiveUp, DeepHealth, Disconnect, Reply,
        CoolDown, Change, vars, calls
  <2> QED
    BY <1>3, <2>1
<1> QED
    BY <1>1, <1>2, <1>4 DEF Next, Bootstrap, Client

LEMMA Counted == TypeOK /\ StepsAreNeeded => StepsAreCounted
BY CortexAssumption DEF TypeOK, StepsAreNeeded, StepsAreCounted, Missing, Ahead, Needed, CortexAssumption

\* A step of a client, seen from its own call.
LEMMA ClientGoesDown ==
    ASSUME TypeOK, StepsAreNeeded, NEW w \in Callers, NEW d \in Deps, Client(w, d)
    PROVE  GoesDown(w, d)
<1>type. /\ call \in CallTables /\ step \in [Deps -> 0 .. Resources]
         /\ Needed(d) \in Nat /\ step[d] \in Nat /\ step[d] <= Needed(d)
    BY CortexAssumption DEF TypeOK, CallTables, Needed, CortexAssumption, StepsAreNeeded
<1>1. CASE Enter(w, d)
  <2>1. /\ call[w][d] = "queued" /\ call'[w][d] \in {"flight", "refused"}
        /\ step' = step
    BY <1>1, <1>type DEF Enter, CallTables
  <2>2. Ahead(w, d)' < Ahead(w, d)
    BY <2>1 DEF Ahead
  <2>3. Missing(w, d)' = Missing(w, d) \/ Missing(w, d)' < Missing(w, d)
    BY <1>type, <2>1 DEF Missing, Pending, Needed
  <2> QED
    BY <2>2, <2>3 DEF GoesDown
<1>2. CASE w \in Posts /\ Provide(w, d)
  <2>1. /\ call[w][d] = "flight" /\ call'[w][d] = "flight"
        /\ step'[d] = step[d] + 1
    BY <1>2, <1>type DEF Provide
  <2>2. Missing(w, d)' < Missing(w, d)
    BY <1>2, <1>type, <2>1 DEF Missing, Pending, Needed
  <2> QED
    BY <2>2 DEF GoesDown
<1>3. CASE Answer(w, d) \/ GiveUp(w, d)
  <2>1. /\ call[w][d] = "flight" /\ call'[w][d] \in {"ok", "error"}
        /\ step' = step
    BY <1>3, <1>type DEF Answer, GiveUp, CallTables
  <2>2. Ahead(w, d)' < Ahead(w, d)
    BY <2>1 DEF Ahead
  <2>3. Missing(w, d)' = Missing(w, d) \/ Missing(w, d)' < Missing(w, d)
    BY <1>type, <2>1 DEF Missing, Pending
  <2> QED
    BY <2>2, <2>3 DEF GoesDown
<1> QED
    BY <1>1, <1>2, <1>3 DEF Client

\* Seen from a call, nothing else happens, but that the process ends.
LEMMA OthersStay ==
    ASSUME TypeOK, Flag, CallsAreOwned, StepsAreNeeded, [Next]_vars,
           NEW w \in Callers, NEW d \in Deps, Busy(w), ~Client(w, d)
    PROVE  Stays(w, d) \/ GoesDown(w, d)
<1>type. /\ call \in CallTables /\ step \in [Deps -> 0 .. Resources]
         /\ Posts \intersect Healths = {}
         /\ Needed(d) \in Nat /\ step[d] \in Nat /\ step[d] <= Needed(d)
    BY CortexAssumption DEF TypeOK, CallTables, Needed, CortexAssumption, StepsAreNeeded
<1>same. ASSUME call'[w][d] = call[w][d],
                w \in Posts /\ Pending(w, d) => step'[d] = step[d]
         PROVE  Stays(w, d)
    BY <1>same DEF Stays, Missing, Ahead, Pending, Needed
<1>one. \A p, q \in Posts : Active(p) /\ Active(q) => p = q
    BY DEF Flag
<1>1. ASSUME NEW q \in Posts, Post(q) \/ Release(q) PROVE Stays(w, d)
    BY <1>1, <1>same DEF Post, Release, calls
<1>2. ASSUME NEW q \in Posts, Begin(q) PROVE Stays(w, d)
  <2>1. w # q
    BY <1>2 DEF Begin, Busy
  <2>2. call'[w] = call[w] /\ step' = step
    BY <1>2, <1>type, <2>1 DEF Begin, CallTables
  <2> QED
    BY <1>same, <2>2
<1>3. ASSUME NEW q \in Posts, Publish(q) PROVE Stays(w, d)
  <2>1. call' = call
    BY <1>3 DEF Publish
  <2>2. ~(w \in Posts /\ Pending(w, d))
    BY <1>3, <1>one DEF Publish, Returned, Busy, Active, Pending
  <2> QED
    BY <1>same, <2>1, <2>2
<1>4. ASSUME NEW v \in Callers, NEW e \in Deps, v # w \/ e # d,
             Enter(v, e) \/ Answer(v, e) \/ GiveUp(v, e)
      PROVE  Stays(w, d)
  <2>1. /\ \E s \in {"flight", "ok", "error", "refused"} : call' = [call EXCEPT ![v][e] = s]
        /\ step' = step
    BY <1>4 DEF Enter, Answer, GiveUp
  <2>2. call'[w][d] = call[w][d]
    BY <1>4, <1>type, <2>1 DEF CallTables
  <2> QED
    BY <1>same, <2>1, <2>2
<1>5. ASSUME NEW q \in Posts, NEW e \in Deps, q # w \/ e # d, Provide(q, e) PROVE Stays(w, d)
  <2>1. call' = call
    BY <1>5 DEF Provide
  <2>2. CASE e # d
    BY <1>5, <1>type, <1>same, <2>1, <2>2 DEF Provide
  <2>3. CASE q # w
    <3>1. Active(q)
      BY <1>5 DEF Provide, CallsAreOwned, Active
    <3>2. ~(w \in Posts /\ Pending(w, d))
      BY <1>one, <2>3, <3>1 DEF Busy, Active
    <3> QED
      BY <1>same, <2>1, <3>2
  <2> QED
    BY <1>5, <2>2, <2>3
<1>6. ASSUME NEW h \in Healths, DeepHealth(h) PROVE Stays(w, d)
  <2>1. w # h
    BY <1>6, <1>type DEF DeepHealth, Busy
  <2>2. call'[w] = call[w] /\ step' = step
    BY <1>6, <1>type, <2>1 DEF DeepHealth, CallTables
  <2> QED
    BY <1>same, <2>2
<1>7. ASSUME NEW h \in Healths, Disconnect(h) \/ Reply(h) PROVE Stays(w, d)
    BY <1>7, <1>same DEF Disconnect, Reply, calls
<1>8. ASSUME NEW e \in Deps, CoolDown(e) \/ Change(e) PROVE Stays(w, d)
    BY <1>8, <1>same DEF CoolDown, Change, calls
<1>9. CASE Restart
  <2>1. call'[w][d] = "none"
    BY <1>9 DEF Restart, NoCalls
  <2>2. Missing(w, d)' = 0 /\ Ahead(w, d)' = 0
    BY <2>1 DEF Missing, Ahead, Pending
  <2>3. Missing(w, d) \in Nat /\ Ahead(w, d) \in Nat
    BY Counted DEF StepsAreCounted
  <2> QED
    BY <2>2, <2>3 DEF Stays, GoesDown
<1>10. CASE UNCHANGED vars
    BY <1>10, <1>same DEF vars, calls
<1> QED
    BY <1>1, <1>2, <1>3, <1>4, <1>5, <1>6, <1>7, <1>8, <1>9, <1>10
        DEF Next, Bootstrap, Client

\* No call goes on for ever while its client takes steps, however many resources
\* there are and however often its dependency and its breaker change: what a run
\* and a health check wait for is a finite number of steps away (RunBootstrap,
\* RunDeepHealth and the clients).
THEOREM CallsTerminate == Spec => []StepsAreCounted /\ EveryStepCounts
<1>1. Init => Flag /\ StepsAreNeeded
    BY CortexAssumption DEF Init, Flag, Active, StepsAreNeeded, Needed, CortexAssumption
<1>2. TypeOK /\ Flag /\ StepsAreNeeded /\ [Next]_vars => Flag' /\ StepsAreNeeded'
    BY FlagStep, NeededStep
<1>3. TypeOK /\ Flag /\ CallsAreOwned /\ StepsAreNeeded /\ [Next]_vars
        => [\A w \in Callers, d \in Deps : Busy(w) =>
               IF Client(w, d) THEN GoesDown(w, d) ELSE Stays(w, d) \/ GoesDown(w, d)]_vars
    BY ClientGoesDown, OthersStay
<1> QED
    BY <1>1, <1>2, <1>3, Counted, TypeCorrect, TrialsAreInFlight, PTL DEF Spec, EveryStepCounts

-----------------------------------------------------------------------------
(* Calls come back and runs go on. *)

\* What the fairness has to carry on, by its guards: the goroutine of a run, which
\* waits for its calls while it is running, and a call, unless its dependency hangs.
RunReady(p) ==
    \/ run[p] \in {"spawned", "published"}
    \/ run[p] = "running" /\ Returned(p)
CallReady(w, d) == Pending(w, d) /\ (call[w][d] = "flight" => ~(dep[d] = "hung"))

\* The steps are possible when their guards say so.
ReadyIsEnabled ==
    /\ \A p \in Posts : RunReady(p) => ENABLED <<Bootstrap(p)>>_vars
    /\ \A w \in Callers, d \in Deps : CallReady(w, d) => ENABLED <<Client(w, d)>>_vars

\* A run in progress has made all its calls, and only a client without a timeout
\* is kept hanging.
CallsAreMade == \A p \in Posts, d \in Deps : run[p] = "running" => call[p][d] # "none"
HungIsPatient == \A d \in Deps : dep[d] = "hung" => d \in Patient

LEMMA MadeStep == TypeOK /\ CallsAreMade /\ [Next]_vars => CallsAreMade'
<1> SUFFICES ASSUME TypeOK, CallsAreMade, [Next]_vars, NEW p \in Posts, NEW d \in Deps,
                    run'[p] = "running"
             PROVE  call'[p][d] # "none"
    BY DEF CallsAreMade
<1>type. /\ call \in CallTables /\ run \in [Posts -> RunStates]
         /\ Posts \intersect Healths = {}
    BY CortexAssumption DEF TypeOK, CallTables, CortexAssumption
<1>same. ASSUME run' = run, call' = call PROVE call'[p][d] # "none"
    BY <1>same DEF CallsAreMade
<1>1. ASSUME NEW q \in Posts, Post(q) \/ Publish(q) \/ Release(q) PROVE call'[p][d] # "none"
    BY <1>1, <1>type DEF Post, Publish, Release, calls, CallsAreMade
<1>2. ASSUME NEW q \in Posts, Begin(q) PROVE call'[p][d] # "none"
    BY <1>2, <1>type DEF Begin, CallsAreMade, CallTables, AllQueued, Callers
<1>3. ASSUME NEW w \in Callers, NEW e \in Deps, Enter(w, e) \/ Answer(w, e) \/ GiveUp(w, e)
      PROVE  call'[p][d] # "none"
  <2>1. /\ \E s \in {"flight", "ok", "error", "refused"} : call' = [call EXCEPT ![w][e] = s]
        /\ UNCHANGED run
    BY <1>3 DEF Enter, Answer, GiveUp, server
  <2> QED
    BY <2>1, <1>type DEF CallTables, CallsAreMade, Callers
<1>4. ASSUME NEW q \in Posts, NEW e \in Deps, Provide(q, e) PROVE call'[p][d] # "none"
    BY <1>4, <1>same DEF Provide, server
<1>5. ASSUME NEW h \in Healths, DeepHealth(h) PROVE call'[p][d] # "none"
  <2>1. run' = run /\ call'[p] = call[p]
    BY <1>5, <1>type DEF DeepHealth, server, CallTables, Callers
  <2> QED
    BY <2>1 DEF CallsAreMade
<1>6. ASSUME NEW h \in Healths, Disconnect(h) \/ Reply(h) PROVE call'[p][d] # "none"
    BY <1>6, <1>same DEF Disconnect, Reply, server, calls
<1>7. ASSUME NEW e \in Deps, CoolDown(e) \/ Change(e) PROVE call'[p][d] # "none"
    BY <1>7, <1>same DEF CoolDown, Change, server, calls
<1>8. ~Restart
    BY <1>type DEF Restart
<1>9. CASE UNCHANGED vars
    BY <1>9, <1>same DEF vars, server, calls
<1> QED
    BY <1>1, <1>2, <1>3, <1>4, <1>5, <1>6, <1>7, <1>8, <1>9 DEF Next, Bootstrap, Client

LEMMA HungStep == TypeOK /\ HungIsPatient /\ [Next]_vars => HungIsPatient'
<1> SUFFICES ASSUME TypeOK, HungIsPatient, [Next]_vars PROVE HungIsPatient'
    OBVIOUS
<1>1. ASSUME NEW d \in Deps, Change(d) PROVE HungIsPatient'
    BY <1>1 DEF Change, TypeOK, HungIsPatient
<1>2. CASE dep' = dep
    BY <1>2 DEF HungIsPatient
<1>3. (\E d \in Deps : Change(d)) \/ dep' = dep
    BY DEF Next, Post, Bootstrap, Begin, Publish, Release, Client, Enter, Provide, Answer, GiveUp,
        DeepHealth, Disconnect, Reply, CoolDown, Restart, vars, world
<1> QED
    BY <1>1, <1>2, <1>3

\* What holds of every state, for the arguments on fairness.
Sound == TypeOK /\ Flag /\ CallsAreOwned /\ StepsAreNeeded /\ CallsAreMade /\ HungIsPatient

LEMMA SoundAlways == Spec => []Sound
<1>1. Init => Flag /\ StepsAreNeeded /\ CallsAreMade /\ HungIsPatient
    BY CortexAssumption DEF Init, Flag, Active, StepsAreNeeded, Needed, CortexAssumption,
        CallsAreMade, HungIsPatient
<1>2. TypeOK /\ Flag /\ StepsAreNeeded /\ CallsAreMade /\ HungIsPatient /\ [Next]_vars
        => Flag' /\ StepsAreNeeded' /\ CallsAreMade' /\ HungIsPatient'
    BY FlagStep, NeededStep, MadeStep, HungStep
<1> QED
    BY <1>1, <1>2, TypeCorrect, TrialsAreInFlight, PTL DEF Spec, Sound

\* A call moves by a step of its client or not at all, while the process is there.
LEMMA OthersKeepCalls ==
    ASSUME Sound, [Next]_vars, NEW w \in Callers, NEW d \in Deps, Busy(w), ~Client(w, d)
    PROVE  call'[w][d] = call[w][d] \/ (Restart /\ call'[w][d] = "none")
<1>type. /\ call \in CallTables /\ Posts \intersect Healths = {}
    BY CortexAssumption DEF Sound, TypeOK, CallTables, CortexAssumption
<1>1. ASSUME NEW q \in Posts, Post(q) \/ Publish(q) \/ Release(q) PROVE call' = call
    BY <1>1 DEF Post, Publish, Release, calls
<1>2. ASSUME NEW q \in Posts, Begin(q) PROVE call'[w] = call[w]
  <2>1. w # q
    BY <1>2 DEF Begin, Busy
  <2> QED
    BY <1>2, <1>type, <2>1 DEF Begin, CallTables
<1>3. ASSUME NEW v \in Callers, NEW e \in Deps, v # w \/ e # d,
             Enter(v, e) \/ Answer(v, e) \/ GiveUp(v, e)
      PROVE  call'[w][d] = call[w][d]
  <2>1. \E s \in {"flight", "ok", "error", "refused"} : call' = [call EXCEPT ![v][e] = s]
    BY <1>3 DEF Enter, Answer, GiveUp
  <2> QED
    BY <1>3, <1>type, <2>1 DEF CallTables
<1>4. ASSUME NEW q \in Posts, NEW e \in Deps, Provide(q, e) PROVE call' = call
    BY <1>4 DEF Provide
<1>5. ASSUME NEW h \in Healths, DeepHealth(h) PROVE call'[w] = call[w]
  <2>1. w # h
    BY <1>5, <1>type DEF DeepHealth, Busy
  <2> QED
    BY <1>5, <1>type, <2>1 DEF DeepHealth, CallTables
<1>6. ASSUME NEW h \in Healths, Disconnect(h) \/ Reply(h) PROVE call' = call
    BY <1>6 DEF Disconnect, Reply, calls
<1>7. ASSUME NEW e \in Deps, CoolDown(e) \/ Change(e) PROVE call' = call
    BY <1>7 DEF CoolDown, Change, calls
<1>8. CASE Restart
    BY <1>8 DEF Restart, NoCalls
<1>9. CASE UNCHANGED vars
    BY <1>9 DEF vars, calls
<1> QED
    BY <1>1, <1>2, <1>3, <1>4, <1>5, <1>6, <1>7, <1>8, <1>9 DEF Next, Bootstrap, Client

LEMMA PendingIsBusy ==
    ASSUME Sound, NEW w \in Callers, NEW d \in Deps, Pending(w, d)
    PROVE  Busy(w)
BY CortexAssumption DEF Sound, CallsAreOwned, Pending, Busy, Callers, CortexAssumption

\* What a step of the client does to its call.
LEMMA ClientMoves ==
    ASSUME Sound, NEW w \in Callers, NEW d \in Deps, Client(w, d)
    PROVE  \/ call[w][d] = "queued" /\ call'[w][d] \in {"flight", "refused"}
           \/ call[w][d] = "flight" /\ call'[w][d] \in {"ok", "error"}
           \/ /\ w \in Posts /\ d \in Provisioned /\ Provide(w, d)
              /\ call[w][d] = "flight" /\ call'[w][d] = "flight"
<1>type. call \in CallTables /\ step[d] \in Nat
    BY CortexAssumption DEF Sound, TypeOK, CallTables, CortexAssumption
<1>1. CASE Enter(w, d)
    BY <1>1, <1>type DEF Enter, CallTables
<1>2. CASE w \in Posts /\ Provide(w, d)
    BY <1>2, <1>type DEF Provide, Needed
<1>3. CASE Answer(w, d) \/ GiveUp(w, d)
    BY <1>3, <1>type DEF Answer, GiveUp, CallTables
<1> QED
    BY <1>1, <1>2, <1>3 DEF Client

\* The next resource of a run, where there are any to create.
Provides(w, d) == w \in Posts /\ d \in Provisioned /\ Provide(w, d)

CallReturns(w, d) == Pending(w, d) ~> (~Pending(w, d) \/ dep[d] = "hung")
CallReturnsOrProvides(w, d) ==
    [](Pending(w, d) => <>(~Pending(w, d) \/ dep[d] = "hung") \/ []<><<Provides(w, d)>>_vars)


\* A call that waits for its dependency stays as it is, but for its client's steps.
LEMMA CallKeeps ==
    ASSUME Sound, [Next]_vars, NEW w \in Callers, NEW d \in Deps, Pending(w, d)
    PROVE  \/ <<Client(w, d)>>_vars
           \/ call'[w][d] = call[w][d]
           \/ Restart /\ call'[w][d] = "none"
<1>1. CASE ~Client(w, d)
    BY <1>1, OthersKeepCalls, PendingIsBusy
<1>2. CASE UNCHANGED vars
    BY <1>2 DEF vars, calls
<1> QED
    BY <1>1, <1>2

LEMMA CallGoesOn ==
    ASSUME NEW w \in Callers, NEW d \in Deps
    PROVE  []Sound /\ [][Next]_vars /\ []ReadyIsEnabled /\ FairCall(w, d) => CallReturnsOrProvides(w, d)
<1> DEFINE Queued == call[w][d] = "queued"
           Flight == call[w][d] = "flight"
           Back == ~Pending(w, d)
           Hung == dep[d] = "hung"
<1>1. Sound /\ [Next]_vars /\ Queued => Queued' \/ <<Client(w, d)>>_vars \/ Back'
    BY CallKeeps DEF Pending
<1>2. Sound /\ [Next]_vars /\ Flight => Flight' \/ <<Client(w, d)>>_vars \/ Back'
    BY CallKeeps DEF Pending
<1>3. Sound /\ <<Client(w, d)>>_vars => \/ Queued /\ (Flight' \/ Back')
                                        \/ Flight /\ Back'
                                        \/ Flight /\ Flight' /\ <<Provides(w, d)>>_vars
    BY ClientMoves DEF Pending, Provides
<1>4. ReadyIsEnabled /\ (Queued \/ (Flight /\ ~Hung)) => ENABLED <<Client(w, d)>>_vars
  <2>1. Queued \/ (Flight /\ ~Hung) => CallReady(w, d)
    BY DEF CallReady, Pending
  <2> QED
    BY <2>1 DEF ReadyIsEnabled
<1>5. ~(Queued /\ Flight) /\ (Pending(w, d) <=> ~Back) /\ (dep[d] = "hung" <=> Hung)
    OBVIOUS
<1>6. ~Back <=> Queued \/ Flight
    BY DEF Pending
<1> HIDE DEF Queued, Flight, Back, Hung
<1> QED
    BY <1>1, <1>2, <1>3, <1>4, <1>5, <1>6, PTL DEF FairCall, CallReturnsOrProvides

\* A call comes back, or its dependency hangs and its client has no timeout, or the
\* client creates one resource after the other; by CallsTerminate it has finitely
\* many to create.  A health check and a client that creates nothing always come
\* back, whatever their dependency, its breaker and the other calls do.
THEOREM CallsReturn ==
    Spec /\ []Fairness /\ []ReadyIsEnabled
        => \A w \in Callers, d \in Deps :
               /\ CallReturnsOrProvides(w, d)
               /\ w \in Healths \/ d \notin Provisioned => CallReturns(w, d)
<1> SUFFICES ASSUME NEW w \in Callers, NEW d \in Deps
             PROVE  Spec /\ []Fairness /\ []ReadyIsEnabled
                      => /\ CallReturnsOrProvides(w, d)
                         /\ w \in Healths \/ d \notin Provisioned => CallReturns(w, d)
    OBVIOUS
<1>1. Fairness => FairCall(w, d)
    BY DEF Fairness
<1>2. []Sound /\ [][Next]_vars /\ []ReadyIsEnabled /\ FairCall(w, d) => CallReturnsOrProvides(w, d)
    BY CallGoesOn
<1>3. Spec /\ []Fairness /\ []ReadyIsEnabled => CallReturnsOrProvides(w, d)
    BY <1>1, <1>2, SoundAlways, PTL DEF Spec
<1>4. ASSUME w \in Healths \/ d \notin Provisioned
      PROVE  CallReturnsOrProvides(w, d) => CallReturns(w, d)
  <2>1. ~<<Provides(w, d)>>_vars
    BY <1>4, CortexAssumption DEF Provides, CortexAssumption
  <2> QED
    BY <2>1, PTL DEF CallReturnsOrProvides, CallReturns
<1> QED
    BY <1>3, <1>4

\* The calls of a run are all back and its result waits to be published, or it is.
Concluding(p) == run[p] = "running" /\ Returned(p)
Concluded(p) == run[p] = "published"

LEMMA RunKeeps ==
    ASSUME Sound, [Next]_vars, NEW p \in Posts, Active(p)
    PROVE  \/ <<Bootstrap(p)>>_vars
           \/ run'[p] = run[p] /\ (Returned(p) => Returned(p)')
           \/ ~inProgress'
<1>type. TypeOK /\ Flag /\ Posts \intersect Healths = {}
    BY CortexAssumption DEF Sound, CortexAssumption
<1>1. CASE UNCHANGED vars
    BY <1>1 DEF vars, server, calls, Returned
<1>2. CASE Restart
    BY <1>2 DEF Restart
<1>3. ASSUME ~Restart, ~Bootstrap(p) PROVE run'[p] = run[p] /\ (Returned(p) => Returned(p)')
  <2>1. run'[p] = run[p]
    <3>1. CASE UNCHANGED server
      BY <3>1 DEF server
    <3>2. ASSUME NEW q \in Posts, Post(q) \/ Bootstrap(q) PROVE run'[p] = run[p]
      BY <1>3, <1>type, <3>2 DEF Bootstrap, Post, Begin, Publish, Release, Active, TypeOK
    <3> QED
      BY <1>3, <3>1, <3>2, RunStep
  <2>2. ASSUME Returned(p), NEW d \in Deps PROVE call'[p][d] = call[p][d]
    <3>1. Busy(p) \/ run[p] = "published"
      BY DEF Active, Busy
    <3>2. CASE Busy(p)
      <4>1. p \in Callers /\ ~Pending(p, d)
        BY <2>2 DEF Callers, Returned, Pending
      <4>2. ~Client(p, d)
        BY <4>1, ClientMoves DEF Pending
      <4> QED
        BY <1>3, <3>2, <4>1, <4>2, OthersKeepCalls
    <3>3. CASE run[p] = "published"
      <4>1. latest' = {p}
        BY <1>3, <1>type, <3>3, RunStep DEF Flag, Active, Post, Bootstrap, Begin, Publish, Release, server
      <4> QED
        BY <1>type, <2>2, <3>3, <4>1, CallStays
    <3> QED
      BY <3>1, <3>2, <3>3
  <2> QED
    BY <2>1, <2>2 DEF Returned
<1> QED
    BY <1>1, <1>2, <1>3

LEMMA RunConcludes ==
    ASSUME NEW p \in Posts
    PROVE  []Sound /\ [][Next]_vars /\ []ReadyIsEnabled /\ FairRun(p)
             => (Concluding(p) \/ Concluded(p) ~> ~inProgress)
<1>1. Sound /\ [Next]_vars /\ Concluding(p)
        => <<Bootstrap(p)>>_vars \/ Concluding(p)' \/ (~inProgress)'
    BY RunKeeps DEF Concluding, Active
<1>2. Sound /\ [Next]_vars /\ Concluded(p)
        => <<Bootstrap(p)>>_vars \/ Concluded(p)' \/ (~inProgress)'
    BY RunKeeps DEF Concluded, Active
<1>3. Sound /\ <<Bootstrap(p)>>_vars /\ Concluding(p) => Concluded(p)'
    BY DEF Sound, TypeOK, Bootstrap, Begin, Publish, Release, Concluding, Concluded
<1>4. Sound /\ <<Bootstrap(p)>>_vars /\ Concluded(p) => (~inProgress)'
    BY DEF Sound, TypeOK, Bootstrap, Begin, Publish, Release, Concluding, Concluded
<1>5. ReadyIsEnabled /\ (Concluding(p) \/ Concluded(p)) => ENABLED <<Bootstrap(p)>>_vars
  <2>1. Concluding(p) \/ Concluded(p) => RunReady(p)
    BY DEF Concluding, Concluded, RunReady
  <2> QED
    BY <2>1 DEF ReadyIsEnabled
<1>6. ~(Concluding(p) /\ Concluded(p))
    BY DEF Concluding, Concluded
<1> QED
    BY <1>1, <1>2, <1>3, <1>4, <1>5, <1>6, PTL DEF FairRun

\* A run whose calls are all back publishes and lowers the flag, so that the next
\* POST gets a run: the deferred Store(false) is never missed (RunBootstrap).
THEOREM ConcludedRunsEnd ==
    Spec /\ []Fairness /\ []ReadyIsEnabled
        => \A p \in Posts : Concluding(p) \/ Concluded(p) ~> ~inProgress
<1> SUFFICES ASSUME NEW p \in Posts
             PROVE  Spec /\ []Fairness /\ []ReadyIsEnabled
                      => (Concluding(p) \/ Concluded(p) ~> ~inProgress)
    OBVIOUS
<1>1. Fairness => FairRun(p)
    BY DEF Fairness
<1>2. []Sound /\ [][Next]_vars /\ []ReadyIsEnabled /\ FairRun(p)
        => (Concluding(p) \/ Concluded(p) ~> ~inProgress)
    BY RunConcludes
<1> QED
    BY <1>1, <1>2, SoundAlways, PTL DEF Spec

\* What keeps a run: a client without a timeout whose dependency hangs.
Kept == \E d \in Patient : dep[d] = "hung"
RunCall(p) == \E d \in Deps : Client(p, d)

WaitsFor(p, d) == run[p] = "running" /\ Pending(p, d)
MovesNow(p, d) == WaitsFor(p, d) => <>(~inProgress \/ Kept) \/ <><<RunCall(p)>>_vars
MovesOn(p) == Active(p) => <>(~inProgress \/ Kept) \/ []<><<RunCall(p)>>_vars

LEMMA WaitedCallMoves ==
    ASSUME NEW w \in Callers, w \in Posts, NEW d \in Deps
    PROVE  []Sound /\ [][Next]_vars /\ []ReadyIsEnabled /\ FairCall(w, d) => MovesNow(w, d)
<1> DEFINE Over == ~inProgress \/ Kept
<1>1. Sound /\ [Next]_vars /\ WaitsFor(w, d) => <<RunCall(w)>>_vars \/ WaitsFor(w, d)' \/ Over'
  <2> SUFFICES ASSUME Sound, [Next]_vars, WaitsFor(w, d), ~<<RunCall(w)>>_vars, ~Over'
               PROVE  WaitsFor(w, d)'
    OBVIOUS
  <2>1. ~<<Client(w, d)>>_vars
    BY DEF RunCall
  <2>2. ~Restart
    BY DEF Restart
  <2>3. call'[w][d] = call[w][d]
    BY <2>1, <2>2, CallKeeps DEF WaitsFor
  <2>4. Active(w) /\ ~Returned(w)
    BY DEF WaitsFor, Active, Returned, Pending
  <2>5. ~<<Bootstrap(w)>>_vars
    BY <2>4 DEF WaitsFor, Bootstrap, Begin, Publish, Release
  <2>6. run'[w] = run[w]
    BY <2>4, <2>5, RunKeeps
  <2> QED
    BY <2>3, <2>6 DEF WaitsFor, Pending
<1>2. Sound /\ WaitsFor(w, d) => Over \/ CallReady(w, d)
    BY DEF Sound, HungIsPatient, WaitsFor, CallReady, Kept
<1>3. ReadyIsEnabled /\ CallReady(w, d) => ENABLED <<Client(w, d)>>_vars
    BY DEF ReadyIsEnabled
<1>4. <<Client(w, d)>>_vars => <<RunCall(w)>>_vars
    BY DEF RunCall
<1>5. Over <=> ~inProgress \/ Kept
    OBVIOUS
<1> HIDE DEF Over
<1> QED
    BY <1>1, <1>2, <1>3, <1>4, <1>5, PTL DEF FairCall, MovesNow

LEMMA RunGoesOn ==
    ASSUME NEW p \in Posts
    PROVE  []Sound /\ [][Next]_vars /\ []ReadyIsEnabled /\ []Fairness => MovesOn(p)
<1> DEFINE Given == []Sound /\ [][Next]_vars /\ []ReadyIsEnabled /\ []Fairness
           Waiting == \E d \in Deps : WaitsFor(p, d)
<1>1. Given => (Waiting => <>(~inProgress \/ Kept) \/ <><<RunCall(p)>>_vars)
  <2>1. ASSUME NEW d \in Deps PROVE Given => MovesNow(p, d)
    <3>c. p \in Callers
      BY DEF Callers
    <3>1. Fairness => FairCall(p, d)
      BY <3>c DEF Fairness
    <3>2. []Sound /\ [][Next]_vars /\ []ReadyIsEnabled /\ FairCall(p, d) => MovesNow(p, d)
      BY <3>c, WaitedCallMoves
    <3> QED
      BY <3>1, <3>2, PTL
  <2> HIDE DEF Given
  <2>2. Given => \A d \in Deps : MovesNow(p, d)
    BY <2>1
  <2> QED
    BY <2>2 DEF MovesNow
<1>2. Given => (Concluding(p) \/ Concluded(p) ~> ~inProgress)
  <2>1. Fairness => FairRun(p)
    BY DEF Fairness
  <2>2. []Sound /\ [][Next]_vars /\ []ReadyIsEnabled /\ FairRun(p)
          => (Concluding(p) \/ Concluded(p) ~> ~inProgress)
    BY RunConcludes
  <2> QED
    BY <2>1, <2>2, PTL
<1>3. Sound /\ Active(p) => Waiting \/ Concluding(p) \/ Concluded(p)
    BY DEF Sound, TypeOK, CallsAreMade, Active, Concluding, Concluded, WaitsFor, Returned, Pending, Callers
<1>4. Sound /\ [Next]_vars /\ Active(p) => Active(p)' \/ (~inProgress)'
  <2> SUFFICES ASSUME Sound, [Next]_vars, Active(p), ~Active(p)' PROVE ~inProgress'
    OBVIOUS
  <2>1. CASE Bootstrap(p)
    BY <2>1 DEF Sound, TypeOK, Active, Bootstrap, Begin, Publish, Release
  <2>2. CASE ~Bootstrap(p)
    BY <2>2, RunKeeps DEF Active
  <2> QED
    BY <2>1, <2>2
<1> HIDE DEF Waiting
<1> QED
    BY <1>1, <1>2, <1>3, <1>4, PTL DEF MovesOn

\* The flag is up for a run that comes to its end, is kept, or goes on calling.
GoesOn == inProgress => \E p \in Posts : Active(p) /\ MovesOn(p)

\* A bootstrap comes to its end, and with it the answer 409, unless a client
\* without a timeout is kept hanging: as long as the flag is up, the run behind it
\* goes on calling, and by CallsTerminate every one of its calls goes down in an
\* order without endless descent.  With finitely many dependencies the second case
\* cannot be, which is BootstrapEnds.
THEOREM BootstrapsGoOn == Spec /\ []Fairness /\ []ReadyIsEnabled => []GoesOn
<1> DEFINE Given == []Sound /\ [][Next]_vars /\ []ReadyIsEnabled /\ []Fairness
<1>1. ASSUME NEW p \in Posts PROVE Given => MovesOn(p)
    BY RunGoesOn
<1>2. Sound => (inProgress => \E p \in Posts : Active(p))
    BY DEF Sound, Flag
<1>3. Given => Sound
    BY PTL
<1> HIDE DEF Given
<1>4. Given => \A p \in Posts : MovesOn(p)
    BY <1>1
<1>5. Given => GoesOn
    BY <1>2, <1>3, <1>4 DEF GoesOn
<1> QED
    BY <1>5, SoundAlways, PTL DEF Given, Spec

=============================================================================

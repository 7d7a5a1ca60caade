---------------------------- MODULE ContextCache ----------------------------
(***************************************************************************)
(* The conversation memory of the reasoner: SherlockMemory.search and      *)
(* SherlockMemory.save in memory.py, run by several replicas against one   *)
(* PostgreSQL and one Redis.                                               *)
(*                                                                         *)
(* A turn is the save that wrote it.  A SELECT returns the k best of the   *)
(* rows it sees; the model keeps the rows it sees, which is what an answer *)
(* can be stale about, and leaves the ranking out.  A query is the hash of *)
(* its embedding, so a cache key is a user and a query.                    *)
(***************************************************************************)
EXTENDS Naturals

CONSTANTS Users, Queries, Replicas,
          Searches, Saves,   \* the calls of search() and of save()
          Matching,          \* per user, the keys that match the pattern arc:ctx:{user}:*
          NoEntry,           \* what GET returns for a key that is not set
          Faults             \* what may fail: "redis", "postgres", "restart"

ASSUME NonEmptyAssumption ==
    Users # {} /\ Queries # {} /\ Replicas # {} /\ Searches # {}
ASSUME CallsAssumption ==
    /\ Searches \intersect Saves = {}
    /\ \A V \in SUBSET Saves : NoEntry # V
    /\ Faults \subseteq {"redis", "postgres", "restart"}
ASSUME PatternAssumption == Matching \in [Users -> SUBSET (Users \X Queries)]

Calls == Searches \union Saves
Keys == Users \X Queries

\* The id is not escaped: one with glob characters may match the keys of other
\* users, and miss those of its own.
MatchesItself(u) == {k \in Keys : k[1] = u} \subseteq Matching[u]

VARIABLES rows,      \* turns committed to reasoner.conversations, per user
          cache,     \* arc:ctx:{user}:{hash} in Redis: the rows an answer was computed from
          client,    \* _redis and _redis_failed of a replica
          pc, user, query, replica,   \* a call: where it stands, its arguments, where it runs
          cached,    \* the call holds a Redis client
          view,      \* the rows a search answers from
          todo       \* keys a scan has still to visit

\* What the properties remember of the past.
VARIABLES floor,     \* saves of the user that had returned when a search began
          source,    \* the search that stored an entry
          racers,    \* searches that were about to store when a save committed
          clean      \* saves whose invalidation ran to its end

callVars == <<pc, user, query, replica, cached>>
history == <<floor, source, racers, clean>>
vars == <<rows, cache, client, callVars, view, todo, history>>

\* Mutant of Key: the user is missing from the key.
Key_NoUser(u, q) == <<CHOOSE w \in Users : TRUE, q>>

\* The cache key of a search.
Key(u, q) == <<u, q>>
KeyOf(s) == Key(user[s], query[s])

SearchPcs == {"idle", "connect", "ping", "lookup", "select", "store", "done", "raised"}
SavePcs == {"idle", "insert", "connect", "ping", "scan", "delete", "done", "raised"}
Ended == {"done", "raised"}

TypeOK ==
    /\ rows \in [Users -> SUBSET Saves]
    /\ cache \in [Keys -> {NoEntry} \union SUBSET Saves]
    /\ client \in [Replicas -> {"unset", "open", "failed"}]
    /\ pc \in [Calls -> SearchPcs \union SavePcs]
    /\ \A s \in Searches : pc[s] \in SearchPcs
    /\ \A v \in Saves : pc[v] \in SavePcs
    /\ user \in [Calls -> Users]
    /\ query \in [Calls -> Queries]
    /\ replica \in [Calls -> Replicas]
    /\ cached \in [Calls -> BOOLEAN]
    /\ view \in [Searches -> SUBSET Saves]
    /\ todo \in [Saves -> SUBSET Keys]
    /\ floor \in [Searches -> SUBSET Saves]
    /\ source \in [Keys -> Searches]
    /\ racers \in [Saves -> SUBSET Searches]
    /\ clean \in SUBSET Saves

Init ==
    /\ rows = [u \in Users |-> {}]
    /\ cache = [k \in Keys |-> NoEntry]
    /\ client = [p \in Replicas |-> "unset"]
    /\ pc = [c \in Calls |-> "idle"]
    /\ user = [c \in Calls |-> CHOOSE u \in Users : TRUE]
    /\ query = [c \in Calls |-> CHOOSE q \in Queries : TRUE]
    /\ replica = [c \in Calls |-> CHOOSE p \in Replicas : TRUE]
    /\ cached = [c \in Calls |-> FALSE]
    /\ view = [s \in Searches |-> {}]
    /\ todo = [v \in Saves |-> {}]
    /\ floor = [s \in Searches |-> {}]
    /\ source = [k \in Keys |-> CHOOSE s \in Searches : TRUE]
    /\ racers = [v \in Saves |-> {}]
    /\ clean = {}

Goto(c, label) == pc' = [pc EXCEPT ![c] = label]

-----------------------------------------------------------------------------
(* A call begins.  Encoding the text only takes time. *)

Begin(c, first) ==
    /\ pc[c] = "idle"
    /\ Goto(c, first)
    /\ \E u \in Users : user' = [user EXCEPT ![c] = u]
    /\ \E p \in Replicas : replica' = [replica EXCEPT ![c] = p]
    /\ UNCHANGED <<rows, cache, client, cached, view, todo, source, racers, clean>>

BeginSearch(s) ==
    /\ Begin(s, "connect")
    /\ \E q \in Queries : query' = [query EXCEPT ![s] = q]
    /\ floor' = [floor EXCEPT ![s] = {v \in Saves : pc[v] = "done" /\ user[v] = user'[s]}]

BeginSave(v) ==
    /\ Begin(v, "insert")
    /\ UNCHANGED <<query, floor>>

-----------------------------------------------------------------------------
(* _get_redis: one client per replica, connected by the first call; a      *)
(* failed ping latches, unless another call's ping succeeds.               *)

\* Mutant of AfterConnect: a save goes on like a search.
AfterConnect_AnyCall(c, connected) == IF connected THEN "lookup" ELSE "select"

\* What a call does next, with or without a client.
AfterConnect(c, connected) ==
    IF c \in Searches
    THEN IF connected THEN "lookup" ELSE "select"
    ELSE IF connected THEN "scan" ELSE "done"

Connect(c) ==
    /\ pc[c] = "connect"
    /\ LET state == client[replica[c]]
       IN  /\ Goto(c, IF state = "unset" THEN "ping" ELSE AfterConnect(c, state = "open"))
           /\ cached' = [cached EXCEPT ![c] = state = "open"]
    /\ UNCHANGED <<rows, cache, client, user, query, replica, view, todo, history>>

Ping(c) ==
    /\ pc[c] = "ping"
    /\ \E ok \in IF "redis" \in Faults THEN BOOLEAN ELSE {TRUE} :
          /\ client' = [client EXCEPT ![replica[c]] =
                          IF ok \/ @ = "open" THEN "open" ELSE "failed"]
          /\ cached' = [cached EXCEPT ![c] = ok]
          /\ Goto(c, AfterConnect(c, ok))
    /\ UNCHANGED <<rows, cache, user, query, replica, view, todo, history>>

-----------------------------------------------------------------------------
(* search *)

\* A hit is the answer; a miss, or a GET that fails, falls through to SQL.
Lookup(s) ==
    /\ pc[s] = "lookup"
    /\ \/ /\ cache[KeyOf(s)] # NoEntry
          /\ view' = [view EXCEPT ![s] = cache[KeyOf(s)]]
          /\ Goto(s, "done")
       \/ /\ cache[KeyOf(s)] = NoEntry \/ "redis" \in Faults
          /\ Goto(s, "select")
          /\ UNCHANGED view
    /\ UNCHANGED <<rows, cache, client, user, query, replica, cached, todo, history>>

Select(s) ==
    /\ pc[s] = "select"
    /\ \/ /\ view' = [view EXCEPT ![s] = rows[user[s]]]
          /\ Goto(s, IF cached[s] THEN "store" ELSE "done")
       \/ /\ "postgres" \in Faults
          /\ Goto(s, "raised")
          /\ UNCHANGED view
    /\ UNCHANGED <<rows, cache, client, user, query, replica, cached, todo, history>>

\* SETEX, fail-open.
Store(s) ==
    /\ pc[s] = "store"
    /\ Goto(s, "done")
    /\ \/ /\ cache' = [cache EXCEPT ![KeyOf(s)] = view[s]]
          /\ source' = [source EXCEPT ![KeyOf(s)] = s]
       \/ /\ "redis" \in Faults
          /\ UNCHANGED <<cache, source>>
    /\ UNCHANGED <<rows, client, user, query, replica, cached, view, todo,
                   floor, racers, clean>>

-----------------------------------------------------------------------------
(* save *)

Insert(v) ==
    /\ pc[v] = "insert"
    /\ \/ /\ rows' = [rows EXCEPT ![user[v]] = @ \union {v}]
          /\ racers' = [racers EXCEPT ![v] = {s \in Searches : pc[s] = "store"}]
          /\ Goto(v, "connect")
       \/ /\ "postgres" \in Faults
          /\ Goto(v, "raised")
          /\ UNCHANGED <<rows, racers>>
    /\ UNCHANGED <<cache, client, user, query, replica, cached, view, todo,
                   floor, source, clean>>

\* Mutant of EndScan: one page of SCAN instead of scan_iter.
EndScan_OnePage(v) ==
    /\ pc[v] = "delete"
    /\ Goto(v, "done")
    /\ clean' = clean \union {v}
    /\ UNCHANGED <<rows, cache, client, user, query, replica, cached, view, todo,
                   floor, source, racers>>

\* Mutant of SetKeysOf: the scan pattern has the hash where the user belongs.
SetKeysOf_Pattern(u) == {k \in Keys : k[2] = u /\ cache[k] # NoEntry}

\* The keys a scan for arc:ctx:{user}:* finds.
SetKeysOf(u) == {k \in Keys : k \in Matching[u] /\ cache[k] # NoEntry}

\* SCAN visits every key that is there from its first call to its last one.
BeginScan(v) ==
    /\ pc[v] = "scan"
    /\ todo' = [todo EXCEPT ![v] = SetKeysOf(user[v])]
    /\ Goto(v, "delete")
    /\ UNCHANGED <<rows, cache, client, user, query, replica, cached, view, history>>

\* A key that goes away owes no scan a visit any more.
Unset(k) ==
    /\ cache' = [cache EXCEPT ![k] = NoEntry]
    /\ todo' = [v \in Saves |-> todo[v] \ {k}]

DeleteKey(v) ==
    /\ pc[v] = "delete"
    /\ \E k \in SetKeysOf(user[v]) : Unset(k)
    /\ UNCHANGED <<rows, client, callVars, view, history>>

EndScan(v) ==
    /\ pc[v] = "delete"
    /\ todo[v] = {}
    /\ Goto(v, "done")
    /\ clean' = clean \union {v}
    /\ UNCHANGED <<rows, cache, client, user, query, replica, cached, view, todo,
                   floor, source, racers>>

\* A failing SCAN or DEL ends the invalidation; save returns all the same.
ScanFails(v) ==
    /\ pc[v] \in {"scan", "delete"}
    /\ "redis" \in Faults
    /\ Goto(v, "done")
    /\ UNCHANGED <<rows, cache, client, user, query, replica, cached, view, todo, history>>

-----------------------------------------------------------------------------
(* The environment. *)

\* Mutant of Expire: SET without a TTL.
Expire_Never(k) == FALSE /\ Unset(k)

\* The TTL of SETEX runs out.
Expire(k) ==
    /\ cache[k] # NoEntry
    /\ Unset(k)
    /\ UNCHANGED <<rows, client, callVars, view, history>>

\* A replica dies with the calls it runs, and comes back without a client.
Restart(p) ==
    /\ "restart" \in Faults
    /\ \E c \in Calls : replica[c] = p /\ pc[c] \notin Ended \union {"idle"}
    /\ client' = [client EXCEPT ![p] = "unset"]
    /\ pc' = [c \in Calls |-> IF replica[c] = p /\ pc[c] \notin Ended \union {"idle"}
                              THEN "raised" ELSE pc[c]]
    /\ UNCHANGED <<rows, cache, user, query, replica, cached, view, todo, history>>

Search(s) == Connect(s) \/ Ping(s) \/ Lookup(s) \/ Select(s) \/ Store(s)

Save(v) ==
    \/ Insert(v) \/ Connect(v) \/ Ping(v)
    \/ BeginScan(v) \/ DeleteKey(v) \/ EndScan(v) \/ ScanFails(v)

Next ==
    \/ \E s \in Searches : BeginSearch(s) \/ Search(s)
    \/ \E v \in Saves : BeginSave(v) \/ Save(v)
    \/ \E k \in Keys : Expire(k)
    \/ \E p \in Replicas : Restart(p)

\* Calls run on, scans end, entries expire; nobody has to call, nothing has to fail.
FairSearch(s) == WF_vars(Search(s))
FairSave(v) == WF_vars(Save(v)) /\ WF_vars(EndScan(v))
FairEntry(k) == WF_vars(Expire(k))
Fairness ==
    /\ \A s \in Searches : FairSearch(s)
    /\ \A v \in Saves : FairSave(v)
    /\ \A k \in Keys : FairEntry(k)

Spec == Init /\ [][Next]_vars
FairSpec == Spec /\ Fairness

-----------------------------------------------------------------------------
(* Correctness. *)

\* Every answer and every cache entry is made of turns of the user it is for
\* that are committed: no other user's context, no turn a rollback took back.
OwnCommittedRows ==
    /\ \A s \in Searches : pc[s] = "done" => view[s] \subseteq rows[user[s]]
    /\ \A k \in Keys : cache[k] # NoEntry => cache[k] \subseteq rows[k[1]]

\* The saves that invalidated every key of their user.  A scan that runs to its end
\* is not enough where the id of the user does not match itself as a pattern.
Invalidated == {v \in clean : MatchesItself(user[v])}

\* A save that invalidated every key of its user leaves behind no entry without
\* its turn, except one stored by a search that had read the table before the
\* commit and wrote its answer after it.
StaleOnlyByRace ==
    \A k \in Keys, v \in Invalidated :
        (user[v] = k[1] /\ cache[k] # NoEntry /\ v \notin cache[k]) => source[k] \in racers[v]

\* A search that begins after such a save returned, and that answers without
\* its turn, owes that to a search that raced with the save, on any replica.
StaleAnswerWasRaced ==
    \A s \in Searches : pc[s] = "done" =>
        \A v \in floor[s] \intersect Invalidated : v \in view[s] \/ racers[v] # {}

\* Once the calls are over the cache agrees with the table for good, whatever
\* raced or failed: a stale entry lives no longer than its TTL.
EventuallyFresh ==
    <>[](\A k \in Keys : cache[k] \in {NoEntry, rows[k[1]]})

-----------------------------------------------------------------------------
(* What the documents say and the code does not do. *)

\* Docstring of save: "After commit, invalidates all Redis cache keys for this
\* user so subsequent searches reflect the newly-saved context".  A search that
\* read the table before the commit may store its answer after the scan.
SearchReflectsSaves ==
    \A s \in Searches : pc[s] = "done" => floor[s] \subseteq view[s]

=============================================================================
